SPECIFICATION FairSpec
CONSTANTS
    Histories = {h1, h2}
    Committers = {c1}
    Streams = {}
    Jobs = {j1}
    Processors = {p1}
    TopicOf <- OneTopic
    QueueSize = 1
    MaxCommits <- CommitBounds
INVARIANTS
    NoLostWakeup
    NobodyWaitsForStopped
PROPERTIES
    ProcessorsCatchUp
    ShutdownIsGraceful
