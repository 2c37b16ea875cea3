CONSTANTS
    Owner = o
    User = {o}
    Session = {s1}
    Handler = {h1, h2}
    Posture = {web}
    WebPosture = web
    MaxVersion = 1
    MaxPassword = 2
    MaxChanges = 2
SPECIFICATION Spec
INVARIANTS
    LiveUnderCurrentPassword
CHECK_DEADLOCK FALSE
