\* Two flows, a pool of two sessions, three addresses.  Of the error classes,
\* Busy is retryable, Panic poisons a failing begin, Rollback stands for the
\* others that poison.
SPECIFICATION Spec
CONSTANTS
    Lessees = {l1, l2}
    Sessions = {s1, s2, s3}
    NoSession = NoSession
    MaxTotal = 2
    EngineErrors = {"Busy", "Rollback", "Panic"}
SYMMETRY Symmetry
INVARIANTS
    ExclusiveUse
    CapacityAccounted
    CommittedIsWhole
    IdleIsClean
CHECK_DEADLOCK FALSE
