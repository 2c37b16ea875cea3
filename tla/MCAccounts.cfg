CONSTANTS
    Owner = o
    User = {o, a}
    Session = {s1, s2, s3}
    Handler = {h1, h2}
    Posture = {web}
    WebPosture = web
    MaxVersion = 3
    MaxPassword = 2
    MaxChanges = 2
SPECIFICATION Spec
CONSTRAINT FewChanges
SYMMETRY Symmetry
VIEW StateView
INVARIANTS
    TypeOK
    LiveSessionIsCurrent
    FamiliesSound
    OneActiveOwner
    VersionPinsReview
PROPERTIES
    RemovedIsTerminal
CHECK_DEADLOCK FALSE
