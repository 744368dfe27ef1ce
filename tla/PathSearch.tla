----------------------------- MODULE PathSearch -----------------------------
(***************************************************************************)
(* The two path operators of the query engine, over any small graph: the   *)
(* depth-first expansion of a variable-length pattern, and the             *)
(* bidirectional breadth-first search of shortestPath with the enumeration *)
(* of allShortestPaths.                                                    *)
(*                                                                         *)
(* An edge is its position in q.edges.  A link is one traversal of it:     *)
(* from a vertex to a vertex, in or against its direction.  A step of      *)
(* VarLenExpand is one round of its loop, a step of the searches one level. *)
(***************************************************************************)
EXTENDS Integers, Sequences, SequencesExt, FiniteSets

CONSTANT Queries   \* [op, edges, dir, min, max, start, end, accepts, prev, match, lists]; max < 0: no bound;
                   \* match: the edges that pass the property filters; lists: the bound relationship list, {} if none

VARIABLES
    q,       \* the operator and its input row
    stack,   \* frames of the depth-first search: [vertex, depth, links, by]
    fwd, bwd,  \* sides of the breadth-first search: [visit, frontier, depth]
    best, meet,
    out,     \* paths emitted, as sequences of links
    done

vars == <<q, stack, fwd, bwd, best, meet, out, done>>

None == -1
Link(e, a, b) == [edge |-> e, from |-> a, to |-> b]
NoLink == Link(0, 0, 0)

Out(v) == SelectSeq([e \in DOMAIN q.edges |-> Link(e, q.edges[e][1], q.edges[e][2])], LAMBDA l : l.from = v)
In(v) == SelectSeq([e \in DOMAIN q.edges |-> Link(e, q.edges[e][2], q.edges[e][1])], LAMBDA l : l.from = v)

\* scanAll, scanBatch: an undirected scan lists the edges out, then the edges in.
Scan(v, dir) ==
    CASE dir = "OUT" -> Out(v) [] dir = "IN" -> In(v) [] OTHER -> Out(v) \o In(v)

oppositeDirection(dir) == CASE dir = "OUT" -> "IN" [] dir = "IN" -> "OUT" [] OTHER -> dir

Side(v) == [visit |-> [x \in {v} |-> [dist |-> 0, parent |-> NoLink]], frontier |-> <<v>>, depth |-> 0]

\* The relationship list is not bound in the pattern, or is the one of the path.
FitsList(p) == q.lists = {} \/ [i \in DOMAIN p |-> p[i].edge] \in q.lists

\* The row's first step: the identity path, and the links of the source but
\* the edge that led to it.
Init ==
    /\ q \in Queries
    /\ stack = IF q.op # "varlen" \/ q.max = 0 THEN <<>>
               ELSE <<[vertex |-> q.start, depth |-> 0, by |-> 0,
                       links |-> SelectSeq(Scan(q.start, q.dir), LAMBDA l : l.edge # q.prev)]>>
    /\ fwd = Side(q.start) /\ bwd = Side(q.end) /\ best = None /\ meet = 0
    /\ LET identity == /\ q.min <= 0
                       /\ IF q.op = "varlen" THEN q.start \in q.accepts /\ FitsList(<<>>) ELSE q.start = q.end
       IN /\ out = IF identity THEN <<<<>>>> ELSE <<>>
          /\ done = (q.op # "varlen" /\ identity)

-----------------------------------------------------------------------------
(* VarLenExpandPhysicalOp *)

Top == stack[Len(stack)]
visited_edges == {stack[i].by : i \in DOMAIN stack} \cup {q.prev}
Path == [i \in 1..(Len(stack) - 1) |-> Link(stack[i + 1].by, stack[i].vertex, stack[i + 1].vertex)]

Backtrack ==
    /\ q.op = "varlen" /\ ~done /\ stack # <<>> /\ Top.links = <<>>
    /\ stack' = Front(stack)
    /\ UNCHANGED <<q, fwd, bwd, best, meet, out, done>>

\* Bug: the depth of a followed link is compared with the bound one too late.
MutFollow ==
    LET l == Head(Top.links)
        p == Append(Path, l)
        rest == [stack EXCEPT ![Len(stack)].links = Tail(@)]
        depth == Top.depth + 1
        onPath == \E i \in DOMAIN stack : stack[i].vertex = l.to
        deeper == IF q.max < 0 THEN ~onPath ELSE depth <= q.max
    IN /\ q.op = "varlen" /\ ~done /\ stack # <<>> /\ Top.links # <<>>
       /\ IF l.edge \in visited_edges \/ l.edge \notin q.match THEN stack' = rest /\ UNCHANGED out
          ELSE /\ out' = IF depth >= q.min /\ l.to \in q.accepts /\ FitsList(p) THEN Append(out, p) ELSE out
               /\ stack' = IF deeper
                           THEN Append(rest, [vertex |-> l.to, depth |-> depth, by |-> l.edge, links |-> Scan(l.to, q.dir)])
                           ELSE rest
       /\ UNCHANGED <<q, fwd, bwd, best, meet, done>>

\* The next link of the top frame: passed over when its edge is on the path or
\* fails the property filters, emitted when the depth, the endpoint and a bound
\* relationship list are right, followed when the depth allows it; without an
\* upper bound a vertex on the path is not entered again.
Follow ==
    LET l == Head(Top.links)
        p == Append(Path, l)
        rest == [stack EXCEPT ![Len(stack)].links = Tail(@)]
        depth == Top.depth + 1
        onPath == \E i \in DOMAIN stack : stack[i].vertex = l.to
        deeper == IF q.max < 0 THEN ~onPath ELSE depth < q.max
    IN /\ q.op = "varlen" /\ ~done /\ stack # <<>> /\ Top.links # <<>>
       /\ IF l.edge \in visited_edges \/ l.edge \notin q.match THEN stack' = rest /\ UNCHANGED out
          ELSE /\ out' = IF depth >= q.min /\ l.to \in q.accepts /\ FitsList(p) THEN Append(out, p) ELSE out
               /\ stack' = IF deeper
                           THEN Append(rest, [vertex |-> l.to, depth |-> depth, by |-> l.edge, links |-> Scan(l.to, q.dir)])
                           ELSE rest
       /\ UNCHANGED <<q, fwd, bwd, best, meet, done>>

EndRow ==
    /\ q.op = "varlen" /\ ~done /\ stack = <<>>
    /\ done' = TRUE
    /\ UNCHANGED <<q, stack, fwd, bwd, best, meet, out>>

-----------------------------------------------------------------------------
(* ShortestPathPhysicalOp *)

Searching == q.op \in {"shortest", "all"} /\ ~done

ExpandForward ==
    fwd.frontier # <<>> /\ (bwd.frontier = <<>> \/ Len(fwd.frontier) <= Len(bwd.frontier))
NextDepth == (IF ExpandForward THEN fwd.depth ELSE bwd.depth) + 1

\* Bug: the search stops a level before the upper bound.
MutStops ==
    \/ fwd.frontier = <<>> /\ bwd.frontier = <<>>
    \/ best # None /\ fwd.depth + bwd.depth >= best
    \/ q.max >= 0 /\ NextDepth >= q.max
    \/ best # None /\ NextDepth >= best

Stops ==
    \/ fwd.frontier = <<>> /\ bwd.frontier = <<>>
    \/ best # None /\ fwd.depth + bwd.depth >= best
    \/ q.max >= 0 /\ NextDepth > q.max
    \/ best # None /\ NextDepth >= best

\* One neighbour of a level: visited first here, and perhaps a better meeting
\* point with the other side.
Reach(a, l) ==
    LET new == l.to \notin DOMAIN a.mine
        mine == IF new THEN a.mine @@ (l.to :> [dist |-> a.depth, parent |-> l]) ELSE a.mine
        cand == mine[l.to].dist + a.other[l.to].dist
        better == /\ l.to \in DOMAIN a.other /\ cand >= q.min /\ (q.max < 0 \/ cand <= q.max)
                  /\ (a.best = None \/ cand < a.best)
    IN IF l.to = l.from THEN a
       ELSE [a EXCEPT !.mine = mine, !.next = IF new THEN Append(@, l.to) ELSE @,
                      !.best = IF better THEN cand ELSE @, !.meet = IF better THEN l.to ELSE @]

\* A level of one side against the other.
Level(side, other, dir) ==
    FoldLeft(Reach, [mine |-> side.visit, other |-> other.visit, next |-> <<>>, depth |-> side.depth + 1,
                     best |-> best, meet |-> meet],
             FlattenSeq([i \in DOMAIN side.frontier |-> Scan(side.frontier[i], dir)]))
Grown(a) == [visit |-> a.mine, frontier |-> a.next, depth |-> a.depth]

Forward ==
    /\ Searching /\ ~Stops /\ ExpandForward
    /\ LET a == Level(fwd, bwd, q.dir) IN fwd' = Grown(a) /\ best' = a.best /\ meet' = a.meet
    /\ UNCHANGED <<q, stack, bwd, out, done>>

Backward ==
    /\ Searching /\ ~Stops /\ ~ExpandForward
    /\ LET a == Level(bwd, fwd, oppositeDirection(q.dir)) IN bwd' = Grown(a) /\ best' = a.best /\ meet' = a.meet
    /\ UNCHANGED <<q, stack, fwd, out, done>>

\* The links from the start to the meeting point and on to the end.
Found ==
    LET to[v \in DOMAIN fwd.visit] ==
            IF v = q.start THEN <<>> ELSE Append(to[fwd.visit[v].parent.from], fwd.visit[v].parent)
        turn(l) == Link(l.edge, l.to, l.from)
        fro[v \in DOMAIN bwd.visit] ==
            IF v = q.end THEN <<>> ELSE <<turn(bwd.visit[v].parent)>> \o fro[bwd.visit[v].parent.from]
    IN to[meet] \o fro[meet]

\* allShortestPaths: breadth-first to the depth of the path found, keeping all
\* parents of a vertex at its depth; neither the start nor, above that depth,
\* the end is entered.
ReachAll(a, l) ==
    LET new == l.to \notin DOMAIN a.visit
        again == ~new /\ a.visit[l.to].dist = a.depth
    IN IF l.to \in {l.from, q.start} \/ (l.to = q.end /\ a.depth < best) THEN a
       ELSE IF new THEN [a EXCEPT !.visit = @ @@ (l.to :> [dist |-> a.depth, parents |-> <<l>>]),
                                  !.next = Append(@, l.to)]
       ELSE IF again THEN [a EXCEPT !.visit[l.to].parents = Append(@, l)]
       ELSE a

Parents ==
    LET level(a, d) ==
            LET r == FoldLeft(ReachAll, [a EXCEPT !.depth = d, !.next = <<>>],
                              FlattenSeq([i \in DOMAIN a.next |-> Scan(a.next[i], q.dir)]))
            IN r
        root == [visit |-> [v \in {q.start} |-> [dist |-> 0, parents |-> <<>>]], next |-> <<q.start>>, depth |-> 0]
    IN FoldLeft(level, root, [d \in 1..best |-> d]).visit

\* The paths to a vertex through its parents, by the number of links.
AllPaths ==
    LET visit == Parents
        to[v \in DOMAIN visit] ==
            IF v = q.start THEN <<<<>>>>
            ELSE FlattenSeq([i \in DOMAIN visit[v].parents |->
                    LET l == visit[v].parents[i]
                        p == to[l.from]
                    IN [j \in DOMAIN p |-> Append(p[j], l)]])
    IN IF q.end \in DOMAIN visit THEN to[q.end] ELSE <<>>

Finish ==
    /\ Searching /\ Stops
    /\ done' = TRUE
    /\ out' = IF best = None THEN <<>> ELSE IF q.op = "shortest" THEN <<Found>> ELSE AllPaths
    /\ UNCHANGED <<q, stack, fwd, bwd, best, meet>>

Next == Backtrack \/ Follow \/ EndRow \/ Forward \/ Backward \/ Finish

Spec == Init /\ [][Next]_vars

-----------------------------------------------------------------------------
(* Reference definitions and properties *)

\* Every trail from the start: consecutive links, no edge twice.
Trails ==
    LET grow(ps) == {Append(p, l) : <<p, l>> \in
                      UNION {{p} \X ToSet(Scan(IF p = <<>> THEN q.start ELSE Last(p).to, q.dir)) : p \in ps}}
        once(p) == \A i, j \in DOMAIN p : p[i].edge = p[j].edge => i = j
        t[n \in 0..Len(q.edges)] == IF n = 0 THEN {<<>>} ELSE {p \in grow(t[n - 1]) : once(p)}
    IN UNION {t[n] : n \in 0..Len(q.edges)}

End(p) == IF p = <<>> THEN q.start ELSE Last(p).to
InRange(p) == Len(p) >= q.min /\ (q.max < 0 \/ Len(p) <= q.max)

\* No vertex is left twice.
Simple(p) == \A i, j \in DOMAIN p : p[i].from = p[j].from => i = j

\* A variable-length pattern returns each trail of the required length over the
\* edges that pass the filters, but the previous edge, that ends in an accepted
\* vertex (and is the bound relationship list), and returns it once.  Without an
\* upper bound, of these the ones that do not leave a vertex twice; with one, a
\* vertex may be passed again, as the comment at varlen_expand_physical_op.cpp:602
\* has it.  The design document says the opposite: BoundedIsSimple.  (A self-loop
\* of an undirected pattern is listed twice.)
VarLenIsTrails ==
    done /\ q.op = "varlen" =>
      /\ ToSet(out) = {p \in Trails : /\ InRange(p) /\ End(p) \in q.accepts /\ FitsList(p)
                                      /\ \A i \in DOMAIN p : p[i].edge \in q.match \ {q.prev}
                                      /\ q.max < 0 => Simple(p)}
      /\ (q.dir = "BOTH" => \A e \in DOMAIN q.edges : q.edges[e][1] # q.edges[e][2]) =>
            \A i, j \in DOMAIN out : out[i] = out[j] => i = j

\* In the words of query-engine-design.md:736 and :750: below the maximal depth,
\* too, a vertex on the path is not entered again.  executeChunk looks for it in
\* unbounded traversals only (varlen_expand_physical_op.cpp:606).
BoundedIsSimple == done /\ q.op = "varlen" => \A p \in ToSet(out) : Simple(p)

\* Between two vertices and with a lower bound of at most one, shortestPath
\* returns a shortest trail if there is one within the upper bound, and
\* allShortestPaths returns every shortest trail once.
ShortestIsShortest ==
    LET fits == {p \in Trails : End(p) = q.end /\ InRange(p)}
        shortest == {p \in fits : \A r \in fits : Len(p) <= Len(r)}
    IN done /\ q.op # "varlen" /\ q.min <= 1 /\ q.start # q.end =>
         /\ ToSet(out) \subseteq shortest /\ (out = <<>> <=> fits = {})
         /\ q.op = "all" => ToSet(out) = shortest
         /\ \A i, j \in DOMAIN out : out[i] = out[j] => i = j

\* No path that is returned uses a relationship twice.
RelationshipsOnce == done => ToSet(out) \subseteq Trails
=============================================================================
