\* Both capacities, two overlapping transactions.
SPECIFICATION Spec
CONSTANTS
    MaxVertex = 3
    MaxEdge = 2
    Capacities = {0, 1}
    Places = {0, 1, 2}
    Txns = {t1, t2}
    MaxEvents <- Bound
SYMMETRY Symmetry
INVARIANTS
    EndpointsAgree
    DegreeIsExact
    NoDanglingEdge
    KeptUnlessOverwritten
    IndexAgrees
CHECK_DEADLOCK FALSE
