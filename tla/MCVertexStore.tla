--------------------------- MODULE MCVertexStore ----------------------------
EXTENDS VertexStore, TLC

Symmetry == Permutations(Txns)
=============================================================================
