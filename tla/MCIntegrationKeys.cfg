CONSTANTS
    Key = {k1, k2}
    NoKey = none
    FirstKey = k1
    Credential = {c1}
    Handler = {h1, h2}
    Recorded = TRUE
    MaxGeneration = 3
    MaxWrite = 4
SPECIFICATION Spec
SYMMETRY Symmetry
INVARIANTS
    TypeOK
    NeverLooksCorrupt
    AlwaysReadable
    NewestSecretKept
CHECK_DEADLOCK FALSE
