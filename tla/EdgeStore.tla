----------------------------- MODULE EdgeStore ------------------------------
(***************************************************************************)
(* Edges in the data store: the type table, the adjacency kept in          *)
(* vertex_data up to a capacity and in edge_index beyond it, the edge      *)
(* properties and one PUBLIC edge index, under the statements that write   *)
(* them (CREATE, DELETE, DETACH DELETE, SET, REMOVE and the batch import)  *)
(* in overlapping transactions.                                            *)
(*                                                                         *)
(* One edge label, whose edges all have the indexed property; vertices are *)
(* their existence row and their adjacency.  Server and tests construct    *)
(* the store with different capacities, so it is chosen at the start.      *)
(***************************************************************************)
EXTENDS KvTables, Naturals, FiniteSets, Sequences

CONSTANTS
    MaxVertex,   \* vertices 1..MaxVertex, the first two loaded at the start
    MaxEdge,     \* edge ids 1..MaxEdge, as nextEdgeId hands them out
    Capacities,  \* adjacency_cache_capacity of the store
    Places,      \* places of a record in its import batch
    Txns,        \* transactions that may be open together
    MaxEvents    \* statements of a behaviour, for each capacity

ASSUME EdgeStoreAssumption ==
    /\ MaxVertex \in Nat \ {0, 1} /\ MaxEdge \in Nat /\ MaxEvents \in [Capacities -> Nat]
    /\ Capacities \subseteq Nat /\ Places \subseteq Nat

VARIABLES
    cap,       \* adjacency_cache_capacity_
    db,        \* the committed store
    tx,        \* open transactions: what they see, and what they did
    nextV,     \* next vertex id
    nextE,     \* next edge id
    events,    \* statements so far
    acked,     \* edges whose insert committed, with their keys
    dropped,   \* edges a committed DELETE named
    ghosts,    \* edges DETACH DELETE removed
    skewed,    \* <<vertex, direction>> counted without the row having changed
    struck,    \* edges removed by a DELETE that named another one
    lapped     \* <<edge, vertex>>: the insert overlapped the vertex's delete, or
               \* one DELETE named both and did not find the edge

vars == <<cap, db, tx, nextV, nextE, events, acked, dropped, ghosts, skewed, struck, lapped>>
history == <<acked, dropped, ghosts, skewed, struck, lapped>>

Vertices == 1..MaxVertex
Directions == {"OUT", "IN"}
Tables == {"existence", "adj_state", "adj_edge", "edge_index", "etype", "eprop", "eidx"}

Complete(n) == [state |-> "COMPLETE", count |-> n]
Overflow == [state |-> "OVERFLOW", count |-> 0]

-----------------------------------------------------------------------------
(* SyncGraphDataStore *)

getAdjacencyState(s, v, d) ==
    IF Has(s, "adj_state", <<v, d>>) THEN table_get(s, "adj_state", <<v, d>>)
    ELSE [state |-> "none", count |-> 0]

Cached(s, v, d) == cap > 0 /\ getAdjacencyState(s, v, d).state = "COMPLETE"

\* The cached edges move to edge_index.
promoteAdjacency(s, v, d) ==
    LET moved == {r \in s.adj_edge : r.k[1] = v /\ r.k[2] = d}
        keys == {r.k : r \in moved}
        gone == table_del_all(table_put_all(s, "edge_index", moved), "adj_edge", keys)
    IN table_put(gone, "adj_state", <<v, d>>, Overflow)

insertAdjacencyEdge(s, v, d, n, seq, eid) ==
    LET key == <<v, d, n, seq>>
        st == getAdjacencyState(s, v, d)
    IN IF ~Cached(s, v, d) THEN table_put(s, "edge_index", key, eid)
       ELSE IF st.count >= cap
       THEN table_put(promoteAdjacency(s, v, d), "edge_index", key, eid)
       ELSE table_put(table_put(s, "adj_edge", key, eid), "adj_state", <<v, d>>, Complete(st.count + 1))

\* Edges as [e, s, t, q]: id, source, target, sequence number; the end they
\* have in a direction, and their key there.
EndOf(e, d) == IF d = "OUT" THEN e.s ELSE e.t
KeyAt(e, d) == IF d = "OUT" THEN <<e.s, d, e.t, e.q>> ELSE <<e.t, d, e.s, e.q>>

\* Bug: the counter is forgotten.
MutDeleteAdjacencyEdge(s, d, es) ==
    LET cached == {e \in es : Cached(s, EndOf(e, d), d)}
    IN table_del_all(table_del_all(s, "adj_edge", {KeyAt(e, d) : e \in cached}),
                     "edge_index", {KeyAt(e, d) : e \in es \ cached})

\* One direction of several edges, one after another.  The counter goes down
\* whether or not the key was there.
deleteAdjacencyEdge(s, d, es) ==
    LET cached == {e \in es : Cached(s, EndOf(e, d), d)}
        keys == {KeyAt(e, d) : e \in cached}
        Lowered(v) == LET count == getAdjacencyState(s, v, d).count
                          n == Cardinality({k \in keys : k[1] = v})
                      IN Complete(IF count > n THEN count - n ELSE 0)
        gone == table_del_all(s, "adj_edge", keys)
        rest == table_del_all(gone, "edge_index", {KeyAt(e, d) : e \in es \ cached})
    IN table_put_all(rest, "adj_state",
                     {[k |-> <<EndOf(e, d), d>>, x |-> Lowered(EndOf(e, d))] : e \in cached})

insertVertex(s, v) ==
    LET here == table_put(s, "existence", v, 0)
    IN IF cap = 0 THEN here
       ELSE table_put(table_put(here, "adj_state", <<v, "OUT">>, Complete(0)),
                      "adj_state", <<v, "IN">>, Complete(0))

\* Everything under the vertices in vertex_data, and their existence; not what
\* edge_index holds.
deleteVertex(s, vs) ==
    LET states == table_del_all(s, "adj_state", UNION {Scanned(s, "adj_state", 1, v) : v \in vs})
        edges == table_del_all(states, "adj_edge", UNION {Scanned(s, "adj_edge", 1, v) : v \in vs})
    IN table_del_all(edges, "existence", vs)

insertEdge(s, eid, src, dst, seq) ==
    LET typed == table_put(s, "etype", <<src, dst, seq>>, eid)
        propd == table_put(typed, "eprop", eid, 0)
    IN insertAdjacencyEdge(insertAdjacencyEdge(propd, src, "OUT", dst, seq, eid), dst, "IN", src, seq, eid)

\* Bug: the edge stays in the adjacency of its target.
MutDeleteEdge(s, es) ==
    LET typed == table_del_all(deleteAdjacencyEdge(s, "OUT", es), "etype", {<<e.s, e.t, e.q>> : e \in es})
    IN table_del_all(typed, "eprop", {e.e : e \in es})

\* Bug: every edge between the endpoints goes.
MutDeleteByEndpoints(s, es) ==
    LET Between(e) == {f \in {[e |-> r.x, s |-> r.k[1], t |-> r.k[2], q |-> r.k[3]] : r \in s.etype} :
                         f.s = e.s /\ f.t = e.t}
        all == UNION {Between(e) : e \in es}
        adj == deleteAdjacencyEdge(deleteAdjacencyEdge(s, "OUT", all), "IN", all)
    IN table_del_all(table_del_all(adj, "etype", {<<e.s, e.t, e.q>> : e \in all}), "eprop", {e.e : e \in es})

\* Several edges, one after another.
deleteEdge(s, es) ==
    LET adj == deleteAdjacencyEdge(deleteAdjacencyEdge(s, "OUT", es), "IN", es)
        typed == table_del_all(adj, "etype", {<<e.s, e.t, e.q>> : e \in es})
    IN table_del_all(typed, "eprop", {e.e : e \in es})

scanEdges(s, v, d) ==
    LET rows == {r \in (IF Cached(s, v, d) THEN s.adj_edge ELSE s.edge_index) : r.k[1] = v /\ r.k[2] = d}
    IN {IF d = "OUT" THEN [e |-> r.x, s |-> v, t |-> r.k[3], q |-> r.k[4]]
                     ELSE [e |-> r.x, s |-> r.k[3], t |-> v, q |-> r.k[4]] : r \in rows}

scanEdgesByType(s) == {[e |-> r.x, s |-> r.k[1], t |-> r.k[2], q |-> r.k[3]] : r \in s.etype}

countDegree(s, v, d) ==
    IF Cached(s, v, d) THEN getAdjacencyState(s, v, d).count ELSE Cardinality(scanEdges(s, v, d))

-----------------------------------------------------------------------------
(* Transactions *)

NoTx == [on |-> FALSE]
Nothing == [ins |-> {}, del |-> {}, ghost |-> {}, skew |-> {}, strike |-> {}, kill |-> {}, left |-> {}]

Open == {t \in Txns : tx[t].on}

Init ==
    /\ cap \in Capacities
    /\ db = LET empty == [t \in Tables \cup {"wrote"} |-> {}]
            IN CommitInto(empty, insertVertex(insertVertex(empty, 1), 2))
    /\ tx = [t \in Txns |-> NoTx]
    /\ nextV = 3 /\ nextE = 1 /\ events = 0
    /\ acked = {} /\ dropped = {} /\ ghosts = {} /\ skewed = {} /\ struck = {} /\ lapped = {}

\* An insert into a vertex's edge_index writes nothing that the delete of the
\* vertex writes: these are the overlaps WiredTiger lets through.
Unguarded(s, v, d) == getAdjacencyState(s, v, d).state # "COMPLETE"
Meets(i, v) == (i.s = v /\ Unguarded(db, v, "OUT")) \/ (i.t = v /\ Unguarded(db, v, "IN"))
Laps(a, b) == UNION {{<<i.e, v>> : v \in {w \in b.kill : Meets(i, w)}} : i \in a.ins}

\* A statement runs in a transaction of its own: its view, and a write that
\* meets another open transaction's fails the statement.
Run(t, view, did) ==
    /\ ~tx[t].on /\ events < MaxEvents[cap]
    /\ \A o \in Open : ~WriteConflict(view, tx[o].view)
    /\ tx' = [tx EXCEPT ![t] = [on |-> TRUE, view |-> view, did |-> did]]
    /\ events' = events + 1
    /\ lapped' = lapped \cup did.left \cup UNION {Laps(did, tx[o].did) \cup Laps(tx[o].did, did) : o \in Open}
    /\ UNCHANGED <<cap, db, acked, dropped, ghosts, skewed, struck>>

\* The vertex the statement matched, in its snapshot.
Live(v) == Has(db, "existence", v)

-----------------------------------------------------------------------------
(* The statements *)

CreateVertex(t) ==
    /\ nextV <= MaxVertex
    /\ Run(t, insertVertex(db, nextV), Nothing)
    /\ nextV' = nextV + 1 /\ UNCHANGED nextE

\* CREATE (a)-[r:T]->(b): the edge id is the sequence number of the key, and
\* the index entry and the row handed on say 0.
CreateOne(s, eid, src, dst) ==
    table_put(insertEdge(s, eid, src, dst, eid), "eidx", eid, <<src, dst, 0>>)

\* The directions whose counter goes up while no row is added: the key is in
\* use, by the place of an imported edge or by the id of a created one.
Recounted(src, dst, seq) ==
    IF Has(db, "etype", <<src, dst, seq>>) THEN {<<src, "OUT">>, <<dst, "IN">>} ELSE {}

CreateEdge(t, src, dst) ==
    /\ nextE <= MaxEdge /\ Live(src) /\ Live(dst)
    /\ Run(t, CreateOne(db, nextE, src, dst),
           [Nothing EXCEPT !.ins = {[e |-> nextE, s |-> src, t |-> dst, q |-> nextE]},
                           !.skew = Recounted(src, dst, nextE)])
    /\ nextE' = nextE + 1 /\ UNCHANGED nextV

\* The directions whose counter goes down while their row stays.
Uncounted(s, e) ==
    {<<EndOf(e, d), d>> : d \in {c \in Directions : Cached(s, EndOf(e, c), c) /\ ~Has(s, "adj_edge", KeyAt(e, c))}}

\* The edge under the key the row names, when it is not the edge of the row.
Mistaken(s, e) == {r.x : r \in {q \in s.etype : q.k = <<e.s, e.t, e.q>> /\ q.x # e.e}}

\* The entries of an edge are those of its stored values.
deleteEdgeIndexEntries(s, eid) == IF Has(s, "eprop", eid) THEN table_del(s, "eidx", eid) ELSE s

\* Bug: the index entries are forgotten.
MutDeleteOne(s, e) == deleteEdge(s, {e})

\* What DELETE r does with one relationship value, and what it leaves behind.
DeleteOne(s, e) == deleteEdge(deleteEdgeIndexEntries(s, e.e), {e})

\* DELETE r, a, b, with the ends of r among vs: the edges go first.  Then a
\* vertex is refused while it has an edge whose id no relationship of the
\* statement had; an edge that was named and not found does not count.
OnlyEdge(s, e, vs) == \A v \in vs, d \in Directions : \A f \in scanEdges(s, v, d) : f.e = e.e

DeleteAll(s, e, vs) == deleteVertex(DeleteOne(s, e), vs)

Deleted(s, e, vs) ==
    [Nothing EXCEPT !.del = {e.e}, !.skew = Uncounted(s, e), !.strike = Mistaken(s, e), !.kill = vs,
                    !.left = {<<f.e, v>> : f \in scanEdgesByType(DeleteOne(s, e)), v \in vs} \cap ({e.e} \X vs)]

\* CREATE (a)-[r:T]->(b) DELETE r, a, b: the row still says 0.
CreateAndDelete(t, src, dst, vs) ==
    LET row == [e |-> nextE, s |-> src, t |-> dst, q |-> 0]
        made == CreateOne(db, nextE, src, dst)
    IN /\ nextE <= MaxEdge /\ Live(src) /\ Live(dst)
       /\ ~tx[t].on /\ events < MaxEvents[cap] /\ OnlyEdge(DeleteOne(made, row), row, vs)
       /\ Run(t, DeleteAll(made, row, vs),
              [Deleted(made, row, vs) EXCEPT !.ins = {[row EXCEPT !.q = nextE]},
                                             !.skew = @ \cup Recounted(src, dst, nextE)])
       /\ nextE' = nextE + 1 /\ UNCHANGED nextV

\* MATCH (a)-[r:T]->(b) DELETE r, a, b, r found by Expand.
DeleteEdgeStmt(t, e, vs) ==
    /\ ~tx[t].on /\ events < MaxEvents[cap] /\ OnlyEdge(DeleteOne(db, e), e, vs)
    /\ Run(t, DeleteAll(db, e, vs), Deleted(db, e, vs))
    /\ UNCHANGED <<nextV, nextE>>

\* The same, r found by the edge index: the entry's payload is what is known
\* of it.  An entry without one names label 0, whose tables do not exist, and
\* the statement fails.
DeleteByIndex(t, r, vs) ==
    LET e == [e |-> r.k, s |-> r.x[1], t |-> r.x[2], q |-> r.x[3]] IN
    /\ e.s # 0 /\ vs \subseteq {e.s, e.t}
    /\ ~tx[t].on /\ events < MaxEvents[cap] /\ OnlyEdge(DeleteOne(db, e), e, vs)
    /\ Run(t, DeleteAll(db, e, vs), Deleted(db, e, vs))
    /\ UNCHANGED <<nextV, nextE>>

\* Bug: only outgoing edges are looked for.
MutDeleteVertexStmt(t, v) ==
    /\ Live(v) /\ scanEdges(db, v, "OUT") = {}
    /\ Run(t, deleteVertex(db, {v}), [Nothing EXCEPT !.kill = {v}])
    /\ UNCHANGED <<nextV, nextE>>

\* DELETE n: refused while an edge is connected.
DeleteVertexStmt(t, v) ==
    /\ Live(v) /\ scanEdges(db, v, "OUT") = {} /\ scanEdges(db, v, "IN") = {}
    /\ Run(t, deleteVertex(db, {v}), [Nothing EXCEPT !.kill = {v}])
    /\ UNCHANGED <<nextV, nextE>>

\* DETACH DELETE n: the edges go without their index entries.
DetachDelete(t, v) ==
    LET out == scanEdges(db, v, "OUT")
        mid == deleteEdge(db, out)
        in == scanEdges(mid, v, "IN")
    IN /\ Live(v)
       /\ Run(t, deleteVertex(deleteEdge(mid, in), {v}),
              [Nothing EXCEPT !.kill = {v}, !.del = {e.e : e \in out \cup in}, !.ghost = {e.e : e \in out \cup in}])
       /\ UNCHANGED <<nextV, nextE>>

\* SET r.p: the entry is written again, without a payload.
SetProperty(t, e) ==
    /\ LET old == deleteEdgeIndexEntries(db, e.e)
       IN Run(t, table_put(table_put(old, "eprop", e.e, 0), "eidx", e.e, <<0, 0, 0>>), Nothing)
    /\ UNCHANGED <<nextV, nextE>>

RemoveProperty(t, e) ==
    /\ Has(db, "eprop", e.e)
    /\ Run(t, table_del(table_del(db, "eprop", e.e), "eidx", e.e), Nothing)
    /\ UNCHANGED <<nextV, nextE>>

\* batchInsertEdges, one record at place i of its batch (the records before it
\* name vertices that are not there and are skipped): the place is the
\* sequence number.
BatchInsertEdges(t, src, dst, i) ==
    LET edge == [e |-> nextE, s |-> src, t |-> dst, q |-> i] IN
    /\ nextE <= MaxEdge /\ Live(src) /\ Live(dst)
    /\ Run(t, table_put(insertEdge(db, nextE, src, dst, i), "eidx", nextE, <<0, 0, 0>>),
           [Nothing EXCEPT !.ins = {edge}, !.skew = Recounted(src, dst, i)])
    /\ nextE' = nextE + 1 /\ UNCHANGED nextV

Commit(t) ==
    /\ tx[t].on
    /\ db' = CommitInto(db, tx[t].view)
    /\ acked' = acked \cup tx[t].did.ins
    /\ dropped' = dropped \cup tx[t].did.del
    /\ ghosts' = ghosts \cup tx[t].did.ghost
    /\ skewed' = skewed \cup tx[t].did.skew
    /\ struck' = struck \cup tx[t].did.strike
    /\ tx' = [tx EXCEPT ![t] = NoTx]
    /\ UNCHANGED <<cap, nextV, nextE, events, lapped>>

Rollback(t) ==
    /\ tx[t].on
    /\ tx' = [tx EXCEPT ![t] = NoTx]
    /\ UNCHANGED <<cap, db, nextV, nextE, events, history>>

Next ==
    \E t \in Txns :
        \/ CreateVertex(t) \/ Commit(t) \/ Rollback(t)
        \/ \E v \in Vertices : DeleteVertexStmt(t, v) \/ DetachDelete(t, v)
        \/ \E v, w \in Vertices : CreateEdge(t, v, w) \/ \E vs \in SUBSET {v, w} : CreateAndDelete(t, v, w, vs)
        \/ \E v, w \in Vertices, i \in Places : BatchInsertEdges(t, v, w, i)
        \/ \E e \in scanEdgesByType(db) :
             \/ SetProperty(t, e) \/ RemoveProperty(t, e)
             \/ \E vs \in SUBSET {v \in {e.s, e.t} : Live(v)} : DeleteEdgeStmt(t, e, vs)
        \/ \E r \in db.eidx, vs \in SUBSET {v \in Vertices : Live(v)} : DeleteByIndex(t, r, vs)

Spec == Init /\ [][Next]_vars

-----------------------------------------------------------------------------
(* Properties *)

\* The three places that know an edge agree: what Expand sees from any vertex
\* that exists, outgoing and incoming, is what a scan of the type has at that
\* vertex, however its adjacency has been promoted, overwritten or emptied and
\* whatever became of the vertices at the other end.
EndpointsAgree ==
    \A v \in Vertices, d \in Directions :
        Live(v) => scanEdges(db, v, d) = {e \in scanEdgesByType(db) : EndOf(e, d) = v}

\* countDegree answers from the counter of a cached adjacency: it is the number
\* of edges a scan would have found.  The exceptions are the deletes that do
\* not name the edge's key and the inserts onto a key in use.
DegreeIsExact ==
    \A v \in Vertices, d \in Directions :
        <<v, d>> \notin skewed => countDegree(db, v, d) = Cardinality(scanEdges(db, v, d))

\* DELETE refuses a connected vertex and DETACH DELETE takes its edges along, so
\* an edge without its vertex comes only from a CREATE that overlapped the
\* delete, where no adjacency counter made the two conflict, and from a DELETE
\* that named the edge and its vertex and did not find the edge.
NoDanglingEdge ==
    \A e \in scanEdgesByType(db), v \in Vertices :
        v \in {e.s, e.t} /\ ~Live(v) => <<e.e, v>> \in lapped

\* An edge whose insert was acknowledged stays until a DELETE names it, unless
\* another acknowledged insert had the same endpoints and sequence number, or a
\* DELETE of another edge carried that key.
KeptUnlessOverwritten ==
    \A a \in acked : a.e \notin dropped /\ a \notin scanEdgesByType(db) =>
        \/ a.e \in struck
        \/ \E b \in acked : b.e # a.e /\ b.s = a.s /\ b.t = a.t /\ b.q = a.q

\* The index knows exactly the edges with a value, apart from the edges
\* DETACH DELETE removed, which it keeps.
IndexAgrees ==
    {r.k : r \in db.eidx} \ ghosts = {r.k : r \in db.eprop} \ ghosts

\* BatchInsertEdgesResult.inserted counts every record of the batch: each is
\* an edge of the graph until a DELETE names it.
InsertedIsStored ==
    \A a \in acked : a.e \notin dropped => a \in scanEdgesByType(db)

\* DELETE r removes the relationship.
DeletedIsGone ==
    \A e \in scanEdgesByType(db) : e.e \notin dropped
=============================================================================
