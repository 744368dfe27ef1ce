-------------------------- MODULE MCBoltConnection --------------------------
(* Bounded instances of BoltConnection for TLC.                             *)
EXTENDS BoltConnection

AllKinds == {"HELLO", "RUN", "PULL1", "PULLALL", "DISCARD", "BEGIN", "COMMIT",
             "ROLLBACK", "RESET", "GOODBYE", "OTHER"}
=============================================================================
