---------------------------- MODULE MCEdgeStore -----------------------------
EXTENDS EdgeStore, TLC

\* Four statements with an adjacency cache, whose counters make most overlaps
\* conflict, three without.
Bound == [c \in Capacities |-> IF c = 0 THEN 3 ELSE 4]

Symmetry == Permutations(Txns)
=============================================================================
