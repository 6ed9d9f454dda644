SPECIFICATION FairSpec
CONSTANTS
    Dus = {d1}
    Unarchivings = {u1}
    Workflows <- MCWorkflows
    OpOf <- MCOpOf
    Hosted <- MCWorkflows
    NoWorkflow = nil
    MinEventsBetweenSnapshots = 1
    MaxSnapshotWorkflows = 2
    MaxEvents = 8
    MaxLost = 1
INVARIANTS
    SnapshotKeepsIndex
    StartedOnce
PROPERTIES
    ActiveIsStarted
CHECK_DEADLOCK FALSE
