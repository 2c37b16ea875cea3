CONSTANTS
    Log = {l1, l2}
    Worker = {w1, w2}
    Window = {1}
    MaxDays = 1
    MaxVersion = 2
SPECIFICATION FairSpec
INVARIANTS
    TypeOK
    OneEmailPerWindow
    UnsentIsUndelivered
PROPERTIES
    ReconciliationIsFinal
    InterruptedIsQuarantined
CHECK_DEADLOCK FALSE
