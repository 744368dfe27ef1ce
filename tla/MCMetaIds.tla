----------------------------- MODULE MCMetaIds -----------------------------
(* Bounded instances of MetaIds for TLC; importers, creators and names are  *)
(* interchangeable.                                                         *)
EXTENDS MetaIds, TLC

Symmetry == Permutations(Creators) \cup Permutations(Importers) \cup Permutations(Names)
=============================================================================
