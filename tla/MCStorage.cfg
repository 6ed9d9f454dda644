SPECIFICATION Spec
CONSTANTS
    Freezes = {f1, f2}
    Unfreezes = {u1}
    Archivings = {}
    Unarchivings = {}
    Workflows <- MCWorkflows
    OpOf <- MCOpOf
    WithVid = {u1}
    NoWorkflow = nil
    MaxRetries = 1
    MaxLost = 1
SYMMETRY Symmetry
INVARIANTS
    FilesHaveOneOwner
    FailedMeansNothingPending
    AggregatesAgree
CHECK_DEADLOCK FALSE
