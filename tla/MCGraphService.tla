--------------------------- MODULE MCGraphService ---------------------------
(* Bounded instances of GraphService for TLC.                               *)
EXTENDS GraphService

CONSTANT a

MCGraphs == {a}

\* A statement; a drop by RPC and with the graph itself selected; a batch of
\* vertices, with a key given twice; an edge whose second endpoint is hinted at
\* a label that does not have the key.
MCRequests ==
    {[op |-> "query", graph |-> a]}
    \cup {[op |-> "drop", graph |-> a, selected |-> g] : g \in {"none", a}}
    \cup {[op |-> "vertices", graph |-> a, label |-> 1, keys |-> <<0, 1, 1>>],
          [op |-> "edges", graph |-> a, src |-> <<1, 1>>, dst |-> <<2, 1>>]}
=============================================================================
