SPECIFICATION FairSpec
CONSTANTS
    Splits = {}
    Others = {x1}
    Workflows <- MCWorkflows
    TypesOf <- MCTypesOf
    NoWorkflow = nil
    Lines = 1
    NumPaths = 1
    NumPings = 1
    MaxLost = 1
INVARIANTS
    DecisionsApplied
    SummaryIsComplete
PROPERTIES
    ReportIsFinal
    WorkflowsAreCollected
CHECK_DEADLOCK FALSE
