SPECIFICATION Spec
CONSTANTS
    None = None
    stad1 = stad1
    stad2 = stad2
    Repos = {r1}
    MoveIds = {m1}
    ShadowIds = {s1}
    Paths = {"p1", "p2"}
    RootOf <- const_RootOf
    NewShadow = "p9"
    HomePaths = {"p1"}
    Stads = {stad1, stad2}
    Prefix <- const_Prefix
    MaxRequests = 2
    MaxFaults = 1
CHECK_DEADLOCK FALSE
INVARIANTS
    ReplicatedBeforeTail
    MovedWhileDisabled
    QuietMeansSettled
