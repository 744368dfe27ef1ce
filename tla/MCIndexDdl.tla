---- MODULE MCIndexDdl ----
(* Writers are interchangeable. *)
EXTENDS IndexDdl, TLC
Symmetry == Permutations(Writers)
====
