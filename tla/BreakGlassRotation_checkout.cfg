SPECIFICATION Spec
CONSTANTS
    prod = prod
    N = 2
    Files = {prod}
    FileOf <- Together
    MaxNew = 2
    Flaky = {}
PROPERTIES CheckoutRestores
