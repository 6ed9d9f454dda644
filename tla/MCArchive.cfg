SPECIFICATION FairSpec
CONSTANTS
    Freezes = {}
    Unfreezes = {}
    Archivings = {a1}
    Unarchivings = {n1}
    Workflows <- MCWorkflows
    OpOf <- MCOpOf
    WithVid = {a1}
    NoWorkflow = nil
    MaxRetries = 1
    MaxLost = 1
INVARIANTS
    FilesMatchTier
    ReportedMeansApplied
PROPERTIES
    DataIsKept
    FinishOrStuck
CHECK_DEADLOCK FALSE
