------------------------------ MODULE MCLoader ------------------------------
(* Two files of one keyed label with a key in common, one of them with a row *)
(* tag, and an edge file with a dangling endpoint.                           *)
EXTENDS Loader

MCVertexFiles ==
    <<[item |-> "person", pk |-> "id", tags |-> {}, rows |-> <<1, 2>>],
      [item |-> "person", pk |-> "id", tags |-> {"tag"}, rows |-> <<2>>]>>

MCEdgeFiles ==
    <<[item |-> "knows", src |-> "person", dst |-> "person", rows |-> <<<<1, 2>>, <<2, 9>>>>]>>

MCBefore == <<TRUE>>
MCAfter == <<FALSE>>
MCPreloads == {{}, {<<"person", 1>>}}
=============================================================================
