\* DELETE r and the edge it names.
SPECIFICATION Spec
CONSTANTS
    MaxVertex = 3
    MaxEdge = 2
    Capacities = {0, 1}
    Places = {0, 1, 2}
    Txns = {t1, t2}
    MaxEvents <- Bound

INVARIANT DeletedIsGone
CHECK_DEADLOCK FALSE
