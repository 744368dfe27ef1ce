\* Three calls on one droppable graph, one compute thread: a waiting
\* drop blocks the pool.
SPECIFICATION FairSpec
CONSTANTS
    a = "a"
    Calls = {1, 2, 3}
    Graphs <- MCGraphs
    Default = "d"
    Labels = {1, 2}
    Workers = 1
    MaxSessions = 2
    Requests <- MCRequests
INVARIANTS
    RemovedIsUnused
    StreamTellsTheTruth
    DuplicatesOverlap
PROPERTY CallsReturn
CHECK_DEADLOCK FALSE
