--------------------------- MODULE MCSessionPool ---------------------------
(* Bounded instance of SessionPool for TLC; lessees and session addresses   *)
(* are interchangeable.                                                     *)
EXTENDS SessionPool, TLC

Symmetry == Permutations(Lessees) \cup Permutations(Sessions)
=============================================================================
