\* Every message in every order, two waiting, two statements.
SPECIFICATION FairSpec
CONSTANTS
    Kinds <- AllKinds
    MaxRows = 1
    MaxQueue = 2
    MaxMessages = 8
    MaxRuns = 2
INVARIANTS
    AckedIsDurable
    FailedNeverDurable
    CommitIsItsOwn
    CancelHasReason
PROPERTIES
    ReleasedAfterClose
    ResetIsHandled
CHECK_DEADLOCK FALSE
