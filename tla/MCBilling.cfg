CONSTANTS
    User = {u1, u2}
    Request = {r1, r2}
    MaxAttempts = 2
    MaxGrants = 3
SPECIFICATION Spec
SYMMETRY Symmetry
INVARIANTS
    TypeOK
    OneLiveSubscription
    CapabilityKeepsOwner
    PaidIsNotForgotten
CHECK_DEADLOCK FALSE
