SPECIFICATION Spec
CONSTANTS
    Histories = {h1}
    Clients = {c1, c2}
    MaxEvents = 3
    MaxBatch = 2
SYMMETRY ClientSymmetry
INVARIANTS
    HeadReachesLog
    JournalIsPrefix
    NoJournalError
    FindReturnsWholeCommits
PROPERTIES
    ImplementsEventLog
