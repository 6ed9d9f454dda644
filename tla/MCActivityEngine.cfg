SPECIFICATION FairSpec
CONSTANTS
    t1 = t1
    t2 = t2
    e1 = e1
    e2 = e2
    Tasks = {t1, t2}
    Entities = {e1, e2}
    EntityOf <- MCEntityOf
    TypeOf <- MCTypeOf
    QueueSize = 1
    MaxPending = 1
    StreamLimit = 1
    MaxEvents = 1
    MaxLost = 1
INVARIANTS
    NoLostSignal
    TaskIsInOnePlace
PROPERTIES
    TasksCatchUp
    EngineStops
CHECK_DEADLOCK FALSE
