CONSTANTS
    Key = {k1, k2}
    NoKey = none
    FirstKey = k1
    Credential = {c1}
    Handler = {h1, h2}
    Recorded = FALSE
    MaxGeneration = 2
    MaxWrite = 3
SPECIFICATION Spec
SYMMETRY Symmetry
INVARIANTS
    NeverLooksCorrupt
CHECK_DEADLOCK FALSE
