SPECIFICATION MSpec
CONSTANTS
    Histories = {h1}
    Clients = {c1, c2}
    MaxEvents = 1
    MaxBatch = 1
    CallTicks = 1
    RecentDuration = 1
    DeletingDuration = 1
    DeletedDuration = 1
    SinceEpochUpdate = 1
    TrimInterval = 1
    MaxEpochs = 0
INVARIANTS
    RemovedLeavesNoEntries
