\* Two entities, two overlapping writers, one build at a time.
SPECIFICATION Spec
CONSTANTS
    MaxEntity = 2
    Values = {va}
    Writers = {w1, w2}
    Builders = {b1}
    IndexKinds = {"vertex", "edge"}
    Uniques = {TRUE, FALSE}
    BatchRows = 1
    MaxCreates = 2
    MaxEvents = 4
    Faults = TRUE
SYMMETRY Symmetry
INVARIANTS
    ExactEntries
    UniqueUnlessTogether
    PublicIsDurable
CHECK_DEADLOCK FALSE
