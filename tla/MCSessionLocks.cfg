CONSTANTS
    MaxSession = 3
    MaxOpen = 3
    MaxBegun = 6
    Refresh = {r1, r2}
    Logout = {o1}
    Login = {l1}
    Lifecycle = {t1}
    Serial = {c1}
    Installation = {i1}
    Factor = {f1}
SPECIFICATION Spec
CONSTRAINT FewBegin
SYMMETRY Symmetry
VIEW StateView
INVARIANTS
    TypeOK
    EndedFamiliesStayEnded
    OneLivePerFamily
CHECK_DEADLOCK FALSE
