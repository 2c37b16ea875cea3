CONSTANTS
    Request = {q1, q2}
    Worker = {w1, w2}
    MaxAttempts = 2
    MaxOutstanding = 1
    MaxPassword = 2
    MaxEvents = 4
SPECIFICATION Spec
CONSTRAINT FewEvents
SYMMETRY Symmetry
VIEW StateView
INVARIANTS
    TypeOK
    OpenUnderCurrentPassword
    OneSenderPerRequest
    DeliveredLinkIsConsumable
PROPERTIES
    NoResendAfterDelivery
    ImplementsOneTimeLink
CHECK_DEADLOCK FALSE
