CONSTANTS
    MaxSession = 3
    MaxOpen = 2
    MaxBegun = 2
    Refresh = {r1}
    Logout = {}
    Login = {}
    Lifecycle = {}
    Serial = {}
    Installation = {}
    Factor = {f1}
SPECIFICATION Spec
INVARIANTS
    SecondFactorEndsSessions
CHECK_DEADLOCK FALSE
