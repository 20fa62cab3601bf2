CONSTANTS
    Users = {ann, bob}
    Calls = {w1, w2, w3}
    Hello = hello
    MaxPending = 2
    MaxStreams = 2
SPECIFICATION FairSpec
INVARIANTS TypeOK PipelineIsFull IdleMeansUnneeded Expected ToldTheTruth NothingLost
PROPERTIES ImplementsDurableWrites WritesAreDecided
CHECK_DEADLOCK FALSE
