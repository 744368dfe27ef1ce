\* Two importers beside a label creator; failing writes, stops at any point.
\* Chunk 2 with ranges of 1 and 3: fast path, refill, and a range larger than a
\* chunk.
SPECIFICATION Spec
CONSTANTS
    Importers = {i1, i2}
    Creators = {c1, c2}
    Names = {a}
    Kinds = {"vertex"}
    Chunk = 2
    Counts = {1, 3}
    MaxId = 5
    MaxLabel = 2
    Faults = TRUE
SYMMETRY Symmetry
INVARIANTS
    UniqueIds
    VisibleIsDurable
