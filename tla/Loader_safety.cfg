SPECIFICATION FairSpec
CONSTANTS
    VertexFiles <- MCVertexFiles
    EdgeFiles <- MCEdgeFiles
    Before <- MCBefore
    After <- MCAfter
    Preloads <- MCPreloads
    BatchSize = 1
    ParallelFiles = 2
    Connections = 2
    MaxRuns = 2
INVARIANTS
    LoadedIsComplete
    CountsAreTrue
PROPERTY
    RunEnds
CHECK_DEADLOCK FALSE
