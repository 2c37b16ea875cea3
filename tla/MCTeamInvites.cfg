CONSTANTS
    Email = {o, a, b}
    Owner = o
    Invite = {i1, i2}
    Handler = {h1, h2}
    Limit = 2
    MaxToken = 2
SPECIFICATION Spec
SYMMETRY Symmetry
INVARIANTS
    TypeOK
    SeatsWithinPlan
    AcceptedByLatestLink
    NoLeftoverInvite
CHECK_DEADLOCK FALSE
