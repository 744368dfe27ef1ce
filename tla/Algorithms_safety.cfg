SPECIFICATION MCSpec
CONSTANT
    Queries <- MCQueries
INVARIANTS
    VarLenIsTrails
    ShortestIsShortest
    CsvRoundTrip
    CsvCountAgrees
CHECK_DEADLOCK FALSE
