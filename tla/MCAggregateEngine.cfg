SPECIFICATION Spec
CONSTANTS
    Engines = {e1, e2}
    Callers = {c1, c2}
    RetryN = 1
    MaxCommits = 3
SYMMETRY CallerSymmetry
INVARIANTS
    StatesArePrefixes
    DecidedOnHead
    SeesEarlierCommits
    RetriesLostToCommits
