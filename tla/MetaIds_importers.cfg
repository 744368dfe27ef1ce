\* Two importers.
SPECIFICATION Spec
CONSTANTS
    Importers = {i1, i2}
    Creators = {}
    Names = {a}
    Kinds = {"vertex"}
    Chunk = 2
    Counts = {1, 2}
    MaxId = 6
    MaxLabel = 1
    Faults = FALSE
INVARIANT IdsAreUnique
