SPECIFICATION Spec
CONSTANTS
    prod = prod
    N = 3
    Files = {prod}
    FileOf <- Together
    MaxNew = 2
    Flaky = {2}
INVARIANTS TypeOK OutcomeIsTrue
PROPERTIES LostOnlySo
