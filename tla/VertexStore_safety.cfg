\* One vertex at the start and one more, two overlapping transactions.
SPECIFICATION Spec
CONSTANTS
    UserLabels = {1, 2}
    Values = {1, 2}
    MaxVertex = 2
    Txns = {t1, t2}
    MaxEvents = 2
SYMMETRY Symmetry
INVARIANTS
    LabelScanAgrees
    SummaryAgrees
    IndexKept
    LabelRemovalKeepsValue
CHECK_DEADLOCK FALSE
