--------------------------- MODULE MCGraphManager ---------------------------
EXTENDS GraphManager

CONSTANTS f1, f2, x, d

MCNames == {d, x}
MCFlows == {f1, f2}
=============================================================================
