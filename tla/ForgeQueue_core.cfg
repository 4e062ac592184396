SPECIFICATION Spec
CONSTANTS
    Items = {1, 2, 3}
    PageSize = 1
    MaxTime = 2
    MaxChanges = 2
INVARIANTS TypeOK RowsDescend NeitherSkippedNorRepeated CountAddsUp
