SPECIFICATION Spec
CONSTANTS
    s1 = s1
    s2 = s2
    i1 = i1
    i2 = i2
    none = none
    blank = blank
    Sources = {s1, s2}
    Ids = {i1, i2}
    NoId = none
    Blank = blank
    MidRun = FALSE
    Dies = TRUE
SYMMETRY Alike
INVARIANTS TypeOK PartialOnlyIfDisturbed PrunesAlone
PROPERTIES KeepsItsHistory
