---------------------------- MODULE MCAlgorithms ----------------------------
(* One initial state for every input: a query over a small graph, or a text  *)
(* or a table for the CSV reader (then the query is a search with no edges). *)
EXTENDS PathSearch, CsvReader

VARIABLE csv   \* [text] or [rows, plain, eol] of the CSV reader

Sorted(es) == {s \in es : \A i \in 1..(Len(s) - 1) : s[i][1] * 9 + s[i][2] <= s[i + 1][1] * 9 + s[i + 1][2]}
EdgesOver(V, n) == Sorted(UNION {[1..k -> V \X V] : k \in 0..n})

VarLen ==
    [op : {"varlen"}, edges : EdgesOver(1..3, 3), dir : {"OUT", "IN", "BOTH"}, min : {0, 1, 2}, max : {-1, 0, 2},
     start : {1}, end : {1}, accepts : {1..3, {2}}, prev : {0, 1},
     match : {1..3, 2..3}, lists : {{}}]
Bound ==
    [op : {"varlen"}, edges : EdgesOver(1..3, 3), dir : {"OUT", "BOTH"}, min : {0, 1}, max : {-1, 3},
     start : {1}, end : {1}, accepts : {1..3}, prev : {0}, match : {1..3}, lists : {{<<>>}, {<<1, 2>>}, {<<2, 1, 3>>}}]
Shortest ==
    [op : {"shortest", "all"}, edges : EdgesOver(1..4, 4), dir : {"OUT", "BOTH"}, min : {1}, max : {-1, 2},
     start : {1}, end : {4}, accepts : {{}}, prev : {0}, match : {{}}, lists : {{}}]
LowerBound ==
    [op : {"shortest"}, edges : EdgesOver(1..3, 3), dir : {"BOTH"}, min : {2}, max : {3},
     start : {1}, end : {2}, accepts : {{}}, prev : {0}, match : {{}}, lists : {{}}]
MCQueries == VarLen \cup Bound \cup Shortest

NoTable == [text |-> <<>>, rows |-> <<>>, plain |-> <<>>, eol |-> <<>>]
Texts == UNION {[1..n -> {"x", Delim, Quote, LF, CR}] : n \in 0..5}
Fields == UNION {[1..n -> {"x", Delim, Quote, LF, CR}] : n \in 0..2}
Tables ==
    [text : {<<>>}, rows : {<<<<h>>, <<f>>>> : h \in Fields, f \in Fields}, plain : [1..1 -> BOOLEAN],
     eol : {<<LF>>, <<CR, LF>>}]
      \cup
    [text : {<<>>}, rows : {<<<<<<"x">>, <<>>>>, <<f, g>>>> : f \in Fields, g \in Fields}, plain : [1..2 -> BOOLEAN],
     eol : {<<LF>>, <<CR, LF>>}]

NoQuery == [op |-> "shortest", edges |-> <<>>, dir |-> "OUT", min |-> 0, max |-> 0, start |-> 1, end |-> 1,
            accepts |-> {}, prev |-> 0, match |-> {}, lists |-> {}]

MCInit ==
    \/ Init /\ csv = NoTable
    \/ /\ q = NoQuery /\ stack = <<>> /\ fwd = Side(1) /\ bwd = Side(1) /\ best = None /\ meet = 0
       /\ out = <<>> /\ done = TRUE
       /\ csv \in Tables \cup {[NoTable EXCEPT !.text = t] : t \in Texts}

MCSpec == MCInit /\ [][Next /\ UNCHANGED csv]_<<vars, csv>>

\* RoundTrip for every table of the instance: what is written, quoted or not,
\* with either line end, is what parseCsv reads.
CsvRoundTrip == csv.rows # <<>> => RoundTrip(csv.rows, csv.plain, csv.eol)

\* CountAgrees for every text of the instance: countCsvRecords and parseCsv see
\* the same records.
CsvCountAgrees == CountAgrees(csv.text)
=============================================================================
