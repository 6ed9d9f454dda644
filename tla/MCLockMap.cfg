CONSTANTS
    Goroutines = {g1, g2, g3, g4}
    MaxWaiters = 4
SPECIFICATION FairSpec
INVARIANTS
    LockHasOneOwner
PROPERTY WaitersAreServed
