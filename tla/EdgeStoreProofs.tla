-------------------------- MODULE EdgeStoreProofs ---------------------------
(***************************************************************************)
(* Proofs about EdgeStore: the type table and the adjacency of both ends   *)
(* hold the same edges, counters are exact, edges neither dangle nor       *)
(* disappear and the index agrees with the values, for every number of     *)
(* vertices, edges and overlapping transactions and every capacity.        *)
(*                                                                         *)
(* The invariant (IInv) is stated of the committed store and of what it    *)
(* becomes when an open transaction commits.  What makes it inductive are  *)
(* the rules of what one transaction writes (TxWrites): an edge's key      *)
(* comes with its adjacency, and an adjacency with its state.  So two      *)
(* transactions that wrote different keys never touch one end of an edge   *)
(* in a way that matters, and their commits go together (Mix).             *)
(*                                                                         *)
(* A DELETE that names an edge and its vertices without finding the edge   *)
(* leaves it in the type table and takes the rows in vertex_data away.     *)
(* Only a vertex that does not exist can so have lost rows (CellOK, Lost), *)
(* and it stays that way, as it has no state left to write (Standing,      *)
(* StateRule).                                                             *)
(***************************************************************************)
EXTENDS EdgeStore, FiniteSetTheorems, TLAPS

-----------------------------------------------------------------------------
(* Stores *)

AdjKeys == Vertices \X Directions \X Vertices \X Nat
EdgeKeys == Vertices \X Vertices \X Nat
AdjStates == [state : {"COMPLETE", "OVERFLOW"}, count : Nat]
Payloads == (Vertices \X Vertices \X {0}) \cup {<<0, 0, 0>>}
Edges == [e : Nat, s : Vertices, t : Vertices, q : Nat]

RowsOf(T) ==
    CASE T = "existence" -> [k : Vertices, x : {0}]
      [] T = "adj_state" -> [k : Vertices \X Directions, x : AdjStates]
      [] T = "adj_edge" -> [k : AdjKeys, x : Nat]
      [] T = "edge_index" -> [k : AdjKeys, x : Nat]
      [] T = "etype" -> [k : EdgeKeys, x : Nat]
      [] T = "eprop" -> [k : Nat, x : {0}]
      [] T = "eidx" -> [k : Nat, x : Payloads]

\* Every table holds rows of its kind, one for each key.
IsStore(s) ==
    /\ DOMAIN s = Tables \cup {"wrote"}
    /\ \A T \in Tables : s[T] \subseteq RowsOf(T)
    /\ \A T \in Tables : \A r, q \in s[T] : r.k = q.k => r = q

At(R, key, val) == [k |-> key, x |-> val] \in R

\* The adjacency of an end is cached.
Comp(s, v, d) == \E n \in Nat : At(s.adj_state, <<v, d>>, Complete(n))

Alive(s, v) == At(s.existence, v, 0)

-----------------------------------------------------------------------------
(* What holds of a store *)

\* The key of an edge in the type table, from a key of its adjacency.
EKey(d, v, n, q) == IF d = "OUT" THEN <<v, n, q>> ELSE <<n, v, q>>

\* One direction of the adjacency against the rows of the type table: they
\* are in vertex_data at a cached end and in edge_index elsewhere, where a
\* vertex that was deleted may have lost some.
CellOK(s, E, d, v, n, q, x) ==
    /\ Comp(s, v, d) =>
         /\ At(s.adj_edge, <<v, d, n, q>>, x) <=> At(E, EKey(d, v, n, q), x)
         /\ ~At(s.edge_index, <<v, d, n, q>>, x)
    /\ ~Comp(s, v, d) =>
         /\ At(s.edge_index, <<v, d, n, q>>, x) => At(E, EKey(d, v, n, q), x)
         /\ Alive(s, v) /\ At(E, EKey(d, v, n, q), x) => At(s.edge_index, <<v, d, n, q>>, x)
         /\ ~At(s.adj_edge, <<v, d, n, q>>, x)

Cells(s, E, d) == \A v, n \in Vertices, q, x \in Nat : CellOK(s, E, d, v, n, q, x)

Sound(s) == \A d \in Directions : Cells(s, s.etype, d)

KeysAt(s, v, d) == {r.k : r \in {p \in s.adj_edge : p.k[1] = v /\ p.k[2] = d}}

\* The counter of a cached end is the number of its keys.
Exact(s, v, d) == \A n \in Nat : At(s.adj_state, <<v, d>>, Complete(n)) => n = Cardinality(KeysAt(s, v, d))

Finite(s) == IsFiniteSet(s.adj_edge) /\ IsFiniteSet(s.edge_index)

Counting(s, skew) == \A v \in Vertices, d \in Directions : <<v, d>> \notin skew => Exact(s, v, d)

Indexed(s, gone) == \A e \in Nat : e \notin gone => (Has(s, "eidx", e) <=> Has(s, "eprop", e))

Attached(s, lap) ==
    \A k \in EdgeKeys, x \in Nat : At(s.etype, k, x) =>
        \A v \in {k[1], k[2]} : Has(s, "existence", v) \/ <<x, v>> \in lap

Kept(s, ack, drop, strike) ==
    \A a \in ack : a.e \in drop \/ At(s.etype, <<a.s, a.t, a.q>>, a.e) \/ a.e \in strike
                   \/ \E b \in ack : b.e # a.e /\ b.s = a.s /\ b.t = a.t /\ b.q = a.q

\* No row is about a vertex whose id has not been handed out.
Below(s, n) ==
    /\ \A v \in Vertices : Has(s, "existence", v) => v < n
    /\ \A v \in Vertices, d \in Directions : Has(s, "adj_state", <<v, d>>) => v < n
    /\ \A k \in EdgeKeys : Has(s, "etype", k) => k[1] < n /\ k[2] < n

CapOK(c, s) == c = 0 => s.adj_state = {}

\* Only a vertex that exists has a state.
Standing(s) == \A v \in Vertices, d \in Directions : Has(s, "adj_state", <<v, d>>) => Alive(s, v)

-----------------------------------------------------------------------------
(* What a transaction writes: w is the set of its keys, s the store after   *)
(* its commit, b the store before it                                        *)

\* The keys of the type table it wrote.
WK(w) == {k \in EdgeKeys : <<"etype", k>> \in w}

\* A deleted vertex without a row for the key.
Lost(s, d, v, n, q) ==
    /\ ~Comp(s, v, d) /\ ~Alive(s, v)
    /\ \A y : ~At(s.edge_index, <<v, d, n, q>>, y)

\* An adjacency row in vertex_data is written with the state of its end; where
\* the state is not written, edge_index is written with the type table.
RuleOK(w, s, W, d, v, n, q) ==
    /\ <<"adj_edge", <<v, d, n, q>>>> \in w => <<"adj_state", <<v, d>>>> \in w
    /\ <<"adj_state", <<v, d>>>> \notin w =>
         /\ <<"edge_index", <<v, d, n, q>>>> \in w => EKey(d, v, n, q) \in W /\ ~Comp(s, v, d)
         /\ EKey(d, v, n, q) \in W => <<"edge_index", <<v, d, n, q>>>> \in w \/ Lost(s, d, v, n, q)

Rules(w, s, W, d) == \A v, n \in Vertices, q \in Nat : RuleOK(w, s, W, d, v, n, q)

\* The vertex is new.
Born(w, s, v) == <<"existence", v>> \in w /\ Has(s, "existence", v)

\* Only a new vertex gets a state, or a cached adjacency.
Grows(w, b, s) ==
    \A v \in Vertices, d \in Directions : ~Born(w, s, v) =>
        /\ Comp(s, v, d) => Comp(b, v, d)
        /\ Has(s, "adj_state", <<v, d>>) => Has(b, "adj_state", <<v, d>>)

\* Only a state that was there is written, or that of a new vertex.
StateRule(w, b, s) ==
    \A v \in Vertices, d \in Directions :
        <<"adj_state", <<v, d>>>> \in w => Has(b, "adj_state", <<v, d>>) \/ Born(w, s, v)

IndexWrites(w, gone) == \A e \in Nat : e \notin gone => (<<"eidx", e>> \in w <=> <<"eprop", e>> \in w)

InsertRule(w, s, ins) ==
    /\ \A i \in ins : <<i.s, i.t, i.q>> \in WK(w)
    /\ \A k \in WK(w), x \in Nat : At(s.etype, k, x) => [e |-> x, s |-> k[1], t |-> k[2], q |-> k[3]] \in ins

KillRule(w, b, s, kill) ==
    /\ \A v \in Vertices : <<"existence", v>> \in w /\ ~Has(s, "existence", v) => v \in kill
    /\ \A v \in kill : /\ <<"existence", v>> \in w /\ ~Has(s, "existence", v)
                       /\ \A d \in Directions : <<"adj_state", <<v, d>>>> \in w \/ ~Has(b, "adj_state", <<v, d>>)

BornRule(w, b, s) ==
    \A v \in Vertices : Born(w, s, v) =>
        /\ ~Has(b, "existence", v)
        /\ \A d \in Directions : ~Has(b, "adj_state", <<v, d>>)
        /\ \A k \in EdgeKeys : Has(b, "etype", k) => k[1] # v /\ k[2] # v

TxWrites(w, b, s, did, gone, n) ==
    /\ \A d \in Directions : Rules(w, s, WK(w), d)
    /\ Grows(w, b, s) /\ StateRule(w, b, s)
    /\ IndexWrites(w, gone)
    /\ InsertRule(w, s, did.ins)
    /\ KillRule(w, b, s, did.kill)
    /\ BornRule(w, b, s)
    /\ \A k \in WK(w) : k[1] < n /\ k[2] < n

\* Two open transactions.
Apart(w, s, did, w2, did2, lap) ==
    /\ w \cap w2 = {}
    /\ \A v \in Vertices : Born(w, s, v) => \A k \in WK(w2) : k[1] # v /\ k[2] # v
    /\ \A i \in did.ins, v \in did2.kill : v = i.s \/ v = i.t => <<i.e, v>> \in lap

-----------------------------------------------------------------------------
(* The invariant *)

IsDid(did) ==
    /\ DOMAIN did = {"ins", "del", "ghost", "skew", "strike", "kill", "left"}
    /\ did.ins \subseteq Edges
    /\ did.kill \subseteq Vertices

\* cap, the store, the edges it answers for, and the exceptions.
StoreInv(c, s, nv, skew, gone, lap, ack, drop, strike) ==
    /\ IsStore(s) /\ CapOK(c, s) /\ Below(s, nv) /\ Standing(s)
    /\ Sound(s) /\ Finite(s) /\ Counting(s, skew)
    /\ Indexed(s, gone) /\ Attached(s, lap) /\ Kept(s, ack, drop, strike)

After(t) == CommitInto(db, tx[t].view)

TxInv(t) ==
    LET did == tx[t].did IN
    /\ IsDid(did) /\ \A i \in did.ins : i.e < nextE
    /\ StoreInv(cap, After(t), nextV, skewed \cup did.skew, ghosts \cup did.ghost, lapped,
                acked \cup did.ins, dropped \cup did.del, struck \cup did.strike)
    /\ TxWrites(tx[t].view.wrote, db, After(t), did, ghosts \cup did.ghost, nextV)

TypeOK ==
    /\ cap \in Nat /\ nextV \in Nat \ {0} /\ nextE \in Nat \ {0} /\ events \in Nat
    /\ IsStore(db) /\ db.wrote = {}
    /\ DOMAIN tx = Txns /\ \A t \in Txns : tx[t].on \in BOOLEAN
    /\ acked \subseteq Edges

IInv ==
    /\ TypeOK
    /\ \A a \in acked : a.e < nextE
    /\ StoreInv(cap, db, nextV, skewed, ghosts, lapped, acked, dropped, struck)
    /\ \A t \in Open : TxInv(t)
    /\ \A t, o \in Open : t # o =>
          Apart(tx[t].view.wrote, After(t), tx[t].did, tx[o].view.wrote, tx[o].did, lapped)

-----------------------------------------------------------------------------
(* Tables *)

LEMMA RowShape ==
    ASSUME NEW s, IsStore(s), NEW T \in Tables, NEW r \in s[T]
    PROVE  r = [k |-> r.k, x |-> r.x] /\ r \in RowsOf(T)
<1>1. r \in RowsOf(T)
  BY DEF IsStore
<1>2. QED
  BY <1>1 DEF RowsOf, Tables

LEMMA HasAt ==
    ASSUME NEW s, IsStore(s), NEW T \in Tables, NEW key
    PROVE  Has(s, T, key) <=> \E val : At(s[T], key, val)
<1>1. ASSUME NEW r \in s[T], r.k = key PROVE At(s[T], key, r.x)
  BY <1>1, RowShape DEF At
<1>2. ASSUME NEW val, At(s[T], key, val) PROVE Has(s, T, key)
  BY <1>2 DEF At, Has
<1>3. QED
  BY <1>1, <1>2 DEF Has

LEMMA AtFunctional ==
    ASSUME NEW s, IsStore(s), NEW T \in Tables, NEW key, NEW val, NEW val2,
           At(s[T], key, val), At(s[T], key, val2)
    PROVE  val = val2
BY DEF At, IsStore

LEMMA SameRows ==
    ASSUME NEW s, IsStore(s), NEW p, IsStore(p), NEW T \in Tables,
           \A key, val : At(s[T], key, val) <=> At(p[T], key, val)
    PROVE  s[T] = p[T]
<1>1. ASSUME NEW r \in s[T] PROVE r \in p[T]
  BY RowShape DEF At
<1>2. ASSUME NEW r \in p[T] PROVE r \in s[T]
  BY RowShape DEF At
<1>3. QED
  BY <1>1, <1>2

Functional(rows) == \A r, q \in rows : r.k = q.k => r = q

PutAllOf(s, p, T, rows) ==
    /\ IsStore(p)
    /\ \A U \in Tables : U # T => p[U] = s[U]
    /\ \A r : r \in p[T] <=> r \in rows \/ (r \in s[T] /\ \A q \in rows : q.k # r.k)
    /\ p.wrote = s.wrote \cup {<<T, q.k>> : q \in rows}

LEMMA PutAll ==
    ASSUME NEW s, IsStore(s), NEW T \in Tables, NEW rows, rows \subseteq RowsOf(T), Functional(rows)
    PROVE  PutAllOf(s, table_put_all(s, T, rows), T, rows)
<1> DEFINE p == table_put_all(s, T, rows)
<1>1. DOMAIN s = Tables \cup {"wrote"} /\ T # "wrote" /\ T \in DOMAIN s /\ "wrote" \in DOMAIN s
  BY DEF IsStore, Tables
<1>2. /\ p[T] = {r \in s[T] : \A q \in rows : q.k # r.k} \cup rows
      /\ \A U \in Tables : U # T => p[U] = s[U]
      /\ p.wrote = s.wrote \cup {<<T, q.k>> : q \in rows}
      /\ DOMAIN p = Tables \cup {"wrote"}
  BY <1>1 DEF table_put_all, Tables
<1> HIDE DEF p
<1>3. \A U \in Tables : p[U] \subseteq RowsOf(U)
  BY <1>2 DEF IsStore
<1>4. ASSUME NEW U \in Tables, NEW r \in p[U], NEW q \in p[U], r.k = q.k PROVE r = q
  <2>1. CASE U # T
    BY <1>2, <1>4, <2>1 DEF IsStore
  <2>2. CASE U = T
    BY <1>2, <1>4, <2>2 DEF IsStore, Functional
  <2>3. QED
    BY <2>1, <2>2
<1>5. IsStore(p)
  BY <1>2, <1>3, <1>4 DEF IsStore
<1>6. QED
  BY <1>2, <1>5 DEF p, PutAllOf

\* p is s with one row put.
PutOf(s, p, T, key, val) ==
    /\ IsStore(p)
    /\ \A U \in Tables : U # T => p[U] = s[U]
    /\ \A j, y : At(p[T], j, y) <=> IF j = key THEN y = val ELSE At(s[T], j, y)
    /\ \A j : Has(p, T, j) <=> j = key \/ Has(s, T, j)
    /\ p.wrote = s.wrote \cup {<<T, key>>}
    /\ p[T] \subseteq s[T] \cup {[k |-> key, x |-> val]}

LEMMA Put ==
    ASSUME NEW s, IsStore(s), NEW T \in Tables, NEW key, NEW val, [k |-> key, x |-> val] \in RowsOf(T)
    PROVE  PutOf(s, table_put(s, T, key, val), T, key, val)
<1> DEFINE row == [k |-> key, x |-> val]
           rows == {row}
           p == table_put_all(s, T, rows)
<1>1. rows \subseteq RowsOf(T) /\ Functional(rows)
  BY DEF Functional
<1> HIDE DEF rows
<1>2. /\ IsStore(p)
      /\ \A U \in Tables : U # T => p[U] = s[U]
      /\ \A r : r \in p[T] <=> r \in rows \/ (r \in s[T] /\ \A q \in rows : q.k # r.k)
      /\ p.wrote = s.wrote \cup {<<T, q.k>> : q \in rows}
  BY <1>1, PutAll DEF PutAllOf
<1> USE DEF rows
<1> HIDE DEF p
<1>3. p.wrote = s.wrote \cup {<<T, key>>}
  BY <1>2
<1>4. \A r : r \in p[T] <=> r = row \/ (r \in s[T] /\ r.k # key)
  BY <1>2
<1>5. ASSUME NEW j, NEW y PROVE At(p[T], j, y) <=> IF j = key THEN y = val ELSE At(s[T], j, y)
  <2>1. [k |-> j, x |-> y].k = j /\ ([k |-> j, x |-> y] = row <=> j = key /\ y = val)
    OBVIOUS
  <2>2. QED
    BY <1>4, <2>1 DEF At
<1>6. ASSUME NEW j PROVE Has(p, T, j) <=> j = key \/ Has(s, T, j)
  BY <1>4 DEF Has
<1>7. p = table_put(s, T, key, val)
  BY DEF p, table_put
<1>8. p[T] \subseteq s[T] \cup {[k |-> key, x |-> val]}
  BY <1>4
<1>9. QED
  BY <1>2, <1>3, <1>5, <1>6, <1>7, <1>8 DEF PutOf

\* p is s without the rows of some keys.
DelOf(s, p, T, keys) ==
    /\ IsStore(p)
    /\ \A U \in Tables : U # T => p[U] = s[U]
    /\ \A j, y : At(p[T], j, y) <=> At(s[T], j, y) /\ j \notin keys
    /\ \A j : Has(p, T, j) <=> Has(s, T, j) /\ j \notin keys
    /\ \A U, j : <<U, j>> \in p.wrote <=> <<U, j>> \in s.wrote \/ (U = T /\ j \in keys /\ Has(s, T, j))
    /\ p[T] \subseteq s[T]
    /\ s.wrote \subseteq p.wrote

LEMMA DelAll ==
    ASSUME NEW s, IsStore(s), NEW T \in Tables, NEW keys
    PROVE  DelOf(s, table_del_all(s, T, keys), T, keys)
<1> DEFINE p == table_del_all(s, T, keys)
<1>1. DOMAIN s = Tables \cup {"wrote"} /\ T # "wrote" /\ T \in DOMAIN s /\ "wrote" \in DOMAIN s
  BY DEF IsStore, Tables
<1>2. /\ p[T] = {r \in s[T] : r.k \notin keys}
      /\ \A U \in Tables : U # T => p[U] = s[U]
      /\ p.wrote = s.wrote \cup {<<T, r.k>> : r \in {q \in s[T] : q.k \in keys}}
      /\ DOMAIN p = Tables \cup {"wrote"}
  BY <1>1 DEF table_del_all, Tables
<1> HIDE DEF p
<1>3. IsStore(p)
  BY <1>2 DEF IsStore
<1>4. ASSUME NEW j, NEW y PROVE At(p[T], j, y) <=> At(s[T], j, y) /\ j \notin keys
  BY <1>2 DEF At
<1>5. ASSUME NEW j PROVE Has(p, T, j) <=> Has(s, T, j) /\ j \notin keys
  BY <1>2 DEF Has
<1>6. ASSUME NEW U, NEW j PROVE <<U, j>> \in p.wrote <=> <<U, j>> \in s.wrote \/ (U = T /\ j \in keys /\ Has(s, T, j))
  BY <1>2 DEF Has
<1>7. QED
  BY <1>2, <1>3, <1>4, <1>5, <1>6 DEF p, DelOf

-----------------------------------------------------------------------------
(* A running transaction: b is the store it began with, s what it sees *)

\* What it did not write is as it was.
Frame(b, s) ==
    \A T \in Tables : \A key, val :
        <<T, key>> \notin s.wrote => (At(s[T], key, val) <=> At(b[T], key, val))

LEMMA FramePut ==
    ASSUME NEW b, NEW s, IsStore(s), Frame(b, s), NEW T \in Tables, NEW key, NEW val,
           [k |-> key, x |-> val] \in RowsOf(T)
    PROVE  Frame(b, table_put(s, T, key, val))
<1> DEFINE p == table_put(s, T, key, val)
<1>1. /\ \A U \in Tables : U # T => p[U] = s[U]
      /\ \A j, y : At(p[T], j, y) <=> IF j = key THEN y = val ELSE At(s[T], j, y)
      /\ p.wrote = s.wrote \cup {<<T, key>>}
  BY Put DEF PutOf
<1> HIDE DEF p
<1>2. SUFFICES ASSUME NEW U \in Tables, NEW j, NEW y, <<U, j>> \notin p.wrote
               PROVE  At(p[U], j, y) <=> At(b[U], j, y)
  BY DEF Frame, p
<1>3. <<U, j>> \notin s.wrote /\ ~(U = T /\ j = key)
  BY <1>1, <1>2
<1>4. At(s[U], j, y) <=> At(b[U], j, y)
  BY <1>3 DEF Frame
<1>5. QED
  BY <1>1, <1>3, <1>4

LEMMA FramePutAll ==
    ASSUME NEW b, NEW s, IsStore(s), Frame(b, s), NEW T \in Tables, NEW rows,
           rows \subseteq RowsOf(T), Functional(rows)
    PROVE  Frame(b, table_put_all(s, T, rows))
<1> DEFINE p == table_put_all(s, T, rows)
<1>1. /\ \A U \in Tables : U # T => p[U] = s[U]
      /\ \A r : r \in p[T] <=> r \in rows \/ (r \in s[T] /\ \A q \in rows : q.k # r.k)
      /\ p.wrote = s.wrote \cup {<<T, q.k>> : q \in rows}
  BY PutAll DEF PutAllOf
<1> HIDE DEF p
<1>2. SUFFICES ASSUME NEW U \in Tables, NEW j, NEW y, <<U, j>> \notin p.wrote
               PROVE  At(p[U], j, y) <=> At(b[U], j, y)
  BY DEF Frame, p
<1>3. <<U, j>> \notin s.wrote /\ ~(U = T /\ \E q \in rows : q.k = j)
  BY <1>1, <1>2
<1>4. At(s[U], j, y) <=> At(b[U], j, y)
  BY <1>3 DEF Frame
<1>5. CASE U = T
  <2>1. [k |-> j, x |-> y].k = j
    OBVIOUS
  <2>2. [k |-> j, x |-> y] \notin rows /\ \A q \in rows : q.k # [k |-> j, x |-> y].k
    BY <1>3, <1>5, <2>1
  <2>3. QED
    BY <1>1, <1>4, <1>5, <2>2 DEF At
<1>6. QED
  BY <1>1, <1>4, <1>5

LEMMA FrameDel ==
    ASSUME NEW b, NEW s, IsStore(s), Frame(b, s), NEW T \in Tables, NEW keys
    PROVE  Frame(b, table_del_all(s, T, keys))
<1> DEFINE p == table_del_all(s, T, keys)
<1>1. /\ \A U \in Tables : U # T => p[U] = s[U]
      /\ \A j, y : At(p[T], j, y) <=> At(s[T], j, y) /\ j \notin keys
      /\ \A U, j : <<U, j>> \in p.wrote <=> <<U, j>> \in s.wrote \/ (U = T /\ j \in keys /\ Has(s, T, j))
  BY DelAll DEF DelOf
<1> HIDE DEF p
<1>2. SUFFICES ASSUME NEW U \in Tables, NEW j, NEW y, <<U, j>> \notin p.wrote
               PROVE  At(p[U], j, y) <=> At(b[U], j, y)
  BY DEF Frame, p
<1>3. <<U, j>> \notin s.wrote /\ ~(U = T /\ j \in keys /\ Has(s, T, j))
  BY <1>1, <1>2
<1>4. At(s[U], j, y) <=> At(b[U], j, y)
  BY <1>3 DEF Frame
<1>5. At(s[T], j, y) => Has(s, T, j)
  BY HasAt
<1>6. QED
  BY <1>1, <1>3, <1>4, <1>5

\* One direction of the adjacency, against rows E and written keys W of the
\* type table.
Side(b, s, E, W, d, skew) ==
    /\ Cells(s, E, d)
    /\ Rules(s.wrote, s, W, d)
    /\ \A v \in Vertices : Comp(s, v, d) => Comp(b, v, d)
    /\ \A v \in Vertices : Has(s, "adj_state", <<v, d>>) => Has(b, "adj_state", <<v, d>>)
    /\ \A v \in Vertices : <<"adj_state", <<v, d>>>> \in s.wrote => Has(b, "adj_state", <<v, d>>)
    /\ \A v \in Vertices : <<v, d>> \notin skew => Exact(s, v, d)

Base(b, s) == IsStore(s) /\ CapOK(cap, s) /\ Finite(s) /\ Frame(b, s)

LEMMA TableNames ==
    /\ "existence" \in Tables /\ "adj_state" \in Tables /\ "adj_edge" \in Tables
    /\ "edge_index" \in Tables /\ "etype" \in Tables /\ "eprop" \in Tables /\ "eidx" \in Tables
    /\ "OUT" \in Directions /\ "IN" \in Directions
BY DEF Tables, Directions

\* Two stores that are the same in one direction.
SameSide(s, p, d) ==
    /\ \A v \in Vertices :
          /\ \A y : At(s.adj_state, <<v, d>>, y) <=> At(p.adj_state, <<v, d>>, y)
          /\ <<"adj_state", <<v, d>>>> \in s.wrote <=> <<"adj_state", <<v, d>>>> \in p.wrote
          /\ Alive(s, v) <=> Alive(p, v)
    /\ \A v, n \in Vertices, q \in Nat :
          /\ \A y : At(s.adj_edge, <<v, d, n, q>>, y) <=> At(p.adj_edge, <<v, d, n, q>>, y)
          /\ \A y : At(s.edge_index, <<v, d, n, q>>, y) <=> At(p.edge_index, <<v, d, n, q>>, y)
          /\ <<"adj_edge", <<v, d, n, q>>>> \in s.wrote <=> <<"adj_edge", <<v, d, n, q>>>> \in p.wrote
          /\ <<"edge_index", <<v, d, n, q>>>> \in s.wrote <=> <<"edge_index", <<v, d, n, q>>>> \in p.wrote

LEMMA KeysAtIs ==
    ASSUME NEW s, IsStore(s), NEW v \in Vertices, NEW d \in Directions, NEW key
    PROVE  key \in KeysAt(s, v, d) <=>
             \E n \in Vertices, q \in Nat : key = <<v, d, n, q>> /\ Has(s, "adj_edge", key)
<1>1. ASSUME NEW r \in s.adj_edge, r.k[1] = v, r.k[2] = d, r.k = key
      PROVE  \E n \in Vertices, q \in Nat : key = <<v, d, n, q>> /\ Has(s, "adj_edge", key)
  <2>1. r \in [k : AdjKeys, x : Nat]
    BY RowShape, TableNames DEF RowsOf
  <2>2. r.k[3] \in Vertices /\ r.k[4] \in Nat /\ key = <<v, d, r.k[3], r.k[4]>>
    BY <1>1, <2>1 DEF AdjKeys
  <2>3. Has(s, "adj_edge", key)
    BY <1>1 DEF Has
  <2>4. QED
    BY <2>2, <2>3
<1>2. ASSUME NEW n \in Vertices, NEW q \in Nat, key = <<v, d, n, q>>, Has(s, "adj_edge", key)
      PROVE  key \in KeysAt(s, v, d)
  <2>1. PICK r \in s.adj_edge : r.k = key
    BY <1>2 DEF Has
  <2>2. r.k[1] = v /\ r.k[2] = d
    BY <1>2, <2>1
  <2>3. QED
    BY <2>1, <2>2 DEF KeysAt
<1>3. QED
  BY <1>1, <1>2 DEF KeysAt

LEMMA SideSame ==
    ASSUME NEW b, NEW s, NEW p, NEW E, NEW W, NEW d \in Directions, NEW skew,
           IsStore(s), IsStore(p), SameSide(s, p, d), Side(b, s, E, W, d, skew)
    PROVE  Side(b, p, E, W, d, skew)
<1>1. \A v \in Vertices : Comp(p, v, d) <=> Comp(s, v, d)
  BY DEF Comp, SameSide
<1>2. \A v \in Vertices : Has(p, "adj_state", <<v, d>>) <=> Has(s, "adj_state", <<v, d>>)
  BY HasAt, TableNames DEF SameSide
<1>3. Cells(p, E, d)
  <2> SUFFICES ASSUME NEW v \in Vertices, NEW n \in Vertices, NEW q \in Nat, NEW x \in Nat
               PROVE  CellOK(p, E, d, v, n, q, x)
    BY DEF Cells
  <2>1. /\ At(s.adj_edge, <<v, d, n, q>>, x) <=> At(p.adj_edge, <<v, d, n, q>>, x)
        /\ At(s.edge_index, <<v, d, n, q>>, x) <=> At(p.edge_index, <<v, d, n, q>>, x)
        /\ Alive(s, v) <=> Alive(p, v)
    BY DEF SameSide
  <2>2. QED
    BY <1>1, <2>1 DEF Side, Cells, CellOK
<1>4. Rules(p.wrote, p, W, d)
  <2> SUFFICES ASSUME NEW v \in Vertices, NEW n \in Vertices, NEW q \in Nat
               PROVE  RuleOK(p.wrote, p, W, d, v, n, q)
    BY DEF Rules
  <2>1. RuleOK(s.wrote, s, W, d, v, n, q)
    BY DEF Side, Rules
  <2>2. Lost(s, d, v, n, q) => Lost(p, d, v, n, q)
    BY <1>1 DEF Lost, SameSide
  <2>3. QED
    BY <1>1, <2>1, <2>2 DEF RuleOK, SameSide
<1>5. ASSUME NEW v \in Vertices PROVE KeysAt(p, v, d) = KeysAt(s, v, d)
  <2>1. \A n \in Vertices, q \in Nat : Has(p, "adj_edge", <<v, d, n, q>>) <=> Has(s, "adj_edge", <<v, d, n, q>>)
    BY HasAt, TableNames DEF SameSide
  <2>2. \A key : key \in KeysAt(p, v, d) <=> key \in KeysAt(s, v, d)
    BY KeysAtIs, <2>1
  <2>3. QED
    BY <2>2
<1>6. \A v \in Vertices : Exact(s, v, d) => Exact(p, v, d)
  BY <1>5 DEF Exact, SameSide
<1>7. \A v \in Vertices : <<"adj_state", <<v, d>>>> \in s.wrote <=> <<"adj_state", <<v, d>>>> \in p.wrote
  BY DEF SameSide
<1>8. QED
  BY <1>1, <1>2, <1>3, <1>4, <1>6, <1>7 DEF Side

-----------------------------------------------------------------------------
(* Inserting into an adjacency *)

LEMMA EKeyFacts ==
    ASSUME NEW d \in Directions, NEW v \in Vertices, NEW n \in Vertices, NEW q \in Nat
    PROVE  /\ EKey(d, v, n, q) \in EdgeKeys
           /\ <<v, d, n, q>> \in AdjKeys /\ <<v, d>> \in Vertices \X Directions
BY DEF EKey, EdgeKeys, AdjKeys

LEMMA EKeySame ==
    ASSUME NEW d \in Directions, NEW v, NEW n, NEW q, NEW v2, NEW n2, NEW q2
    PROVE  <<v2, d, n2, q2>> = <<v, d, n, q>> <=> EKey(d, v, n, q) = EKey(d, v2, n2, q2)
BY DEF EKey

LEMMA AdjStateRow ==
    ASSUME NEW s, IsStore(s), NEW v, NEW d, NEW y, At(s.adj_state, <<v, d>>, y)
    PROVE  /\ y \in AdjStates
           /\ y.state = "COMPLETE" => y = Complete(y.count) /\ y.count \in Nat
           /\ getAdjacencyState(s, v, d) = y
<1>1. [k |-> <<v, d>>, x |-> y] \in s.adj_state
  BY DEF At
<1>2. [k |-> <<v, d>>, x |-> y] \in [k : Vertices \X Directions, x : AdjStates]
  BY <1>1, RowShape, TableNames DEF RowsOf
<1>3. y \in AdjStates
  BY <1>2
<1>4. Has(s, "adj_state", <<v, d>>)
  BY <1>1 DEF Has
<1>5. \A r \in s.adj_state : r.k = <<v, d>> => r = [k |-> <<v, d>>, x |-> y]
  BY <1>1, TableNames DEF IsStore
<1> DEFINE row == CHOOSE r \in s["adj_state"] : r.k = <<v, d>>
<1>6. row \in s.adj_state /\ row.k = <<v, d>>
  BY <1>1
<1> HIDE DEF row
<1>7. getAdjacencyState(s, v, d) = y
  <2>1. row = [k |-> <<v, d>>, x |-> y]
    BY <1>5, <1>6
  <2>2. row.x = y
    BY <2>1
  <2>3. table_get(s, "adj_state", <<v, d>>) = y
    BY <2>2 DEF table_get, row
  <2>4. QED
    BY <1>4, <2>3 DEF getAdjacencyState
<1>8. QED
  BY <1>3, <1>7 DEF AdjStates, Complete

LEMMA CachedIs ==
    ASSUME cap \in Nat, NEW s, IsStore(s), CapOK(cap, s), NEW v \in Vertices, NEW d \in Directions
    PROVE  /\ Cached(s, v, d) <=> Comp(s, v, d)
           /\ Cached(s, v, d) => /\ getAdjacencyState(s, v, d).count \in Nat
                                 /\ At(s.adj_state, <<v, d>>, Complete(getAdjacencyState(s, v, d).count))
<1>1. CASE ~Has(s, "adj_state", <<v, d>>)
  <2>1. getAdjacencyState(s, v, d).state = "none"
    BY <1>1 DEF getAdjacencyState
  <2>2. ~Comp(s, v, d)
    BY <1>1, HasAt, TableNames DEF Comp
  <2>3. QED
    BY <2>1, <2>2 DEF Cached
<1>2. CASE Has(s, "adj_state", <<v, d>>)
  <2>1. PICK y : At(s.adj_state, <<v, d>>, y)
    BY <1>2, HasAt, TableNames
  <2>2. /\ y \in AdjStates
        /\ y.state = "COMPLETE" => y = Complete(y.count) /\ y.count \in Nat
        /\ getAdjacencyState(s, v, d) = y
    BY <2>1, AdjStateRow
  <2>3. cap > 0
    BY <2>1 DEF CapOK, At
  <2>4. Cached(s, v, d) <=> y.state = "COMPLETE"
    BY <2>2, <2>3 DEF Cached
  <2>5. ASSUME NEW n \in Nat, At(s.adj_state, <<v, d>>, Complete(n)) PROVE y.state = "COMPLETE"
    <3>1. y = Complete(n)
      BY <2>1, <2>5, AtFunctional, TableNames
    <3>2. QED
      BY <3>1 DEF Complete
  <2>6. y.state = "COMPLETE" => Comp(s, v, d)
    BY <2>1, <2>2 DEF Comp
  <2>7. QED
    BY <2>1, <2>2, <2>4, <2>5, <2>6 DEF Comp
<1>3. QED
  BY <1>1, <1>2

\* The tables beside the adjacency.
AdjOnly(s, p) ==
    \A T \in {"existence", "etype", "eprop", "eidx"} :
        p[T] = s[T] /\ \A j : <<T, j>> \in p.wrote <=> <<T, j>> \in s.wrote

\* A step from s to p in direction d of the adjacency, after which it agrees
\* with the rows E and the written keys W of the type table.
AdjStep(b, s, p, E, W, d, skew) ==
    /\ Base(b, p) /\ Side(b, p, E, W, d, skew) /\ AdjOnly(s, p)
    /\ \A d2 \in Directions : d2 # d => SameSide(s, p, d2)
    /\ s.wrote \subseteq p.wrote

\* A row put into the type table.
Added(E, E1, key, val) == \A j, y : At(E1, j, y) <=> IF j = key THEN y = val ELSE At(E, j, y)

\* An edge that goes to edge_index.
LEMMA InsertPlain ==
    ASSUME cap \in Nat, NEW b, NEW s, Base(b, s), NEW E, NEW W, NEW skew,
           NEW v \in Vertices, NEW d \in Directions, NEW n \in Vertices, NEW q \in Nat, NEW e \in Nat,
           Side(b, s, E, W, d, skew), ~Comp(s, v, d),
           NEW E1, Added(E, E1, EKey(d, v, n, q), e)
    PROVE  AdjStep(b, s, table_put(s, "edge_index", <<v, d, n, q>>, e), E1, W \cup {EKey(d, v, n, q)}, d, skew)
<1> DEFINE p == table_put(s, "edge_index", <<v, d, n, q>>, e)
<1>1. IsStore(s) /\ CapOK(cap, s) /\ Finite(s) /\ Frame(b, s)
  BY DEF Base
<1>2. [k |-> <<v, d, n, q>>, x |-> e] \in RowsOf("edge_index")
  BY EKeyFacts DEF RowsOf
<1>3. /\ IsStore(p)
      /\ \A U \in Tables : U # "edge_index" => p[U] = s[U]
      /\ \A j, y : At(p.edge_index, j, y) <=> IF j = <<v, d, n, q>> THEN y = e ELSE At(s.edge_index, j, y)
      /\ p.wrote = s.wrote \cup {<<"edge_index", <<v, d, n, q>>>>}
      /\ p.edge_index \subseteq s.edge_index \cup {[k |-> <<v, d, n, q>>, x |-> e]}
  <2>1. PutOf(s, p, "edge_index", <<v, d, n, q>>, e)
    BY <1>1, <1>2, Put, TableNames
  <2>2. QED
    BY <2>1 DEF PutOf
<1>4. Frame(b, p)
  BY <1>1, <1>2, FramePut, TableNames
<1> HIDE DEF p
<1>5. p.adj_state = s.adj_state /\ p.adj_edge = s.adj_edge /\ p.existence = s.existence
  BY <1>3, TableNames
<1>6. \A v2, d2 : (Comp(p, v2, d2) <=> Comp(s, v2, d2)) /\ KeysAt(p, v2, d2) = KeysAt(s, v2, d2)
        /\ (Has(p, "adj_state", <<v2, d2>>) <=> Has(s, "adj_state", <<v2, d2>>)) /\ (Alive(p, v2) <=> Alive(s, v2))
  BY <1>5 DEF Comp, KeysAt, Has, Alive
<1>7. Base(b, p)
  <2>1. IsFiniteSet(s.edge_index \cup {[k |-> <<v, d, n, q>>, x |-> e]})
    BY <1>1, FS_AddElement DEF Finite
  <2>2. Finite(p)
    BY <1>1, <1>3, <1>5, <2>1, FS_Subset DEF Finite
  <2>3. QED
    BY <1>1, <1>3, <1>4, <1>5, <2>2 DEF Base, CapOK
<1>8. AdjOnly(s, p)
  BY <1>3, TableNames DEF AdjOnly
<1>9. ASSUME NEW d2 \in Directions, d2 # d PROVE SameSide(s, p, d2)
  <2>1. \A v2, n2 \in Vertices, q2 \in Nat : <<v2, d2, n2, q2>> # <<v, d, n, q>>
    BY <1>9
  <2>2. QED
    BY <1>3, <1>5, <1>6, <2>1 DEF SameSide
<1>10. Cells(p, E1, d)
  <2> SUFFICES ASSUME NEW v2 \in Vertices, NEW n2 \in Vertices, NEW q2 \in Nat, NEW y \in Nat
               PROVE  CellOK(p, E1, d, v2, n2, q2, y)
    BY DEF Cells
  <2>1. CellOK(s, E, d, v2, n2, q2, y)
    BY DEF Side, Cells
  <2>2. <<v2, d, n2, q2>> = <<v, d, n, q>> <=> EKey(d, v, n, q) = EKey(d, v2, n2, q2)
    BY EKeySame
  <2>3. At(p.edge_index, <<v2, d, n2, q2>>, y) <=>
          IF <<v2, d, n2, q2>> = <<v, d, n, q>> THEN y = e ELSE At(s.edge_index, <<v2, d, n2, q2>>, y)
    BY <1>3
  <2>4. At(E1, EKey(d, v2, n2, q2), y) <=>
          IF <<v2, d, n2, q2>> = <<v, d, n, q>> THEN y = e ELSE At(E, EKey(d, v2, n2, q2), y)
    BY <2>2 DEF Added
  <2>5. <<v2, d, n2, q2>> = <<v, d, n, q>> => v2 = v
    OBVIOUS
  <2>6. QED
    BY <1>5, <1>6, <2>1, <2>3, <2>4, <2>5 DEF CellOK
<1>11. Rules(p.wrote, p, W \cup {EKey(d, v, n, q)}, d)
  <2> SUFFICES ASSUME NEW v2 \in Vertices, NEW n2 \in Vertices, NEW q2 \in Nat
               PROVE  RuleOK(p.wrote, p, W \cup {EKey(d, v, n, q)}, d, v2, n2, q2)
    BY DEF Rules
  <2>1. RuleOK(s.wrote, s, W, d, v2, n2, q2)
    BY DEF Side, Rules
  <2>2. <<v2, d, n2, q2>> = <<v, d, n, q>> <=> EKey(d, v, n, q) = EKey(d, v2, n2, q2)
    BY EKeySame
  <2>3. /\ <<"adj_edge", <<v2, d, n2, q2>>>> \in p.wrote <=> <<"adj_edge", <<v2, d, n2, q2>>>> \in s.wrote
        /\ <<"adj_state", <<v2, d>>>> \in p.wrote <=> <<"adj_state", <<v2, d>>>> \in s.wrote
        /\ <<"edge_index", <<v2, d, n2, q2>>>> \in p.wrote <=>
             <<"edge_index", <<v2, d, n2, q2>>>> \in s.wrote \/ <<v2, d, n2, q2>> = <<v, d, n, q>>
    BY <1>3
  <2>4. <<v2, d, n2, q2>> = <<v, d, n, q>> => v2 = v
    OBVIOUS
  <2>5. Lost(s, d, v2, n2, q2) => Lost(p, d, v2, n2, q2) \/ <<v2, d, n2, q2>> = <<v, d, n, q>>
    BY <1>3, <1>6 DEF Lost
  <2>6. QED
    BY <1>6, <2>1, <2>2, <2>3, <2>4, <2>5 DEF RuleOK
<1>12. \A v2 \in Vertices : <<"adj_state", <<v2, d>>>> \in p.wrote => <<"adj_state", <<v2, d>>>> \in s.wrote
  BY <1>3
<1>13. Side(b, p, E1, W \cup {EKey(d, v, n, q)}, d, skew)
  BY <1>5, <1>6, <1>10, <1>11, <1>12 DEF Side, Exact
<1>14. QED
  BY <1>3, <1>7, <1>8, <1>9, <1>13 DEF p, AdjStep

LEMMA KeysFinite ==
    ASSUME NEW s, IsStore(s), Finite(s), NEW v \in Vertices, NEW d \in Directions
    PROVE  IsFiniteSet(KeysAt(s, v, d)) /\ Cardinality(KeysAt(s, v, d)) \in Nat
<1> DEFINE rows == {p \in s.adj_edge : p.k[1] = v /\ p.k[2] = d}
           image == {r.k : r \in rows}
           f == [r \in rows |-> r.k]
<1>1. IsFiniteSet(rows)
  BY FS_Subset DEF Finite
<1> HIDE DEF rows
<1>2. IsFiniteSet(image)
  <2>1. f \in Surjection(rows, image)
    BY DEF Surjection
  <2>2. QED
    BY <1>1, <2>1, FS_Surjection
<1>3. image = KeysAt(s, v, d)
  BY DEF KeysAt, rows
<1>4. QED
  BY <1>2, <1>3, FS_CardinalityType

\* The cached edges of an end move to edge_index.
LEMMA Promote ==
    ASSUME cap \in Nat, NEW b, NEW s, Base(b, s), NEW E, NEW W, NEW skew,
           NEW v \in Vertices, NEW d \in Directions,
           Side(b, s, E, W, d, skew), Comp(s, v, d)
    PROVE  LET p == promoteAdjacency(s, v, d) IN
           AdjStep(b, s, p, E, W, d, skew) /\ <<"adj_state", <<v, d>>>> \in p.wrote /\ ~Comp(p, v, d)
<1> DEFINE moved == {r \in s.adj_edge : r.k[1] = v /\ r.k[2] = d}
           keys == {r.k : r \in moved}
           s1 == table_put_all(s, "edge_index", moved)
           s2 == table_del_all(s1, "adj_edge", keys)
           p == table_put(s2, "adj_state", <<v, d>>, Overflow)
<1>1. IsStore(s) /\ CapOK(cap, s) /\ Finite(s) /\ Frame(b, s)
  BY DEF Base
<1>2. moved \subseteq RowsOf("edge_index") /\ Functional(moved)
  <2>1. s.adj_edge \subseteq [k : AdjKeys, x : Nat]
    BY <1>1, TableNames DEF IsStore, RowsOf
  <2>2. \A r, q \in s.adj_edge : r.k = q.k => r = q
    BY <1>1, TableNames DEF IsStore
  <2>3. QED
    BY <2>1, <2>2 DEF RowsOf, Functional
<1> HIDE DEF moved
<1>3. /\ IsStore(s1)
      /\ \A U \in Tables : U # "edge_index" => s1[U] = s[U]
      /\ \A r : r \in s1["edge_index"] <=> r \in moved \/ (r \in s["edge_index"] /\ \A q \in moved : q.k # r.k)
      /\ s1.wrote = s.wrote \cup {<<"edge_index", q.k>> : q \in moved}
      /\ Frame(b, s1)
  <2>1. PutAllOf(s, s1, "edge_index", moved)
    BY <1>1, <1>2, PutAll, TableNames
  <2>2. Frame(b, s1)
    BY <1>1, <1>2, FramePutAll, TableNames
  <2>3. QED
    BY <2>1, <2>2 DEF PutAllOf
<1> HIDE DEF s1, keys
<1>4. /\ IsStore(s2)
      /\ \A U \in Tables : U # "adj_edge" => s2[U] = s1[U]
      /\ \A j, y : At(s2["adj_edge"], j, y) <=> At(s1["adj_edge"], j, y) /\ j \notin keys
      /\ \A U, j : <<U, j>> \in s2.wrote <=> <<U, j>> \in s1.wrote \/ (U = "adj_edge" /\ j \in keys /\ Has(s1, "adj_edge", j))
      /\ s2["adj_edge"] \subseteq s1["adj_edge"]
      /\ Frame(b, s2)
  <2>1. DelOf(s1, s2, "adj_edge", keys)
    BY <1>3, DelAll, TableNames
  <2>2. Frame(b, s2)
    BY <1>3, FrameDel, TableNames
  <2>3. QED
    BY <2>1, <2>2 DEF DelOf
<1> HIDE DEF s2
<1>5. /\ IsStore(p)
      /\ \A U \in Tables : U # "adj_state" => p[U] = s2[U]
      /\ \A j, y : At(p["adj_state"], j, y) <=> IF j = <<v, d>> THEN y = Overflow ELSE At(s2["adj_state"], j, y)
      /\ \A j : Has(p, "adj_state", j) <=> j = <<v, d>> \/ Has(s2, "adj_state", j)
      /\ p.wrote = s2.wrote \cup {<<"adj_state", <<v, d>>>>}
      /\ Frame(b, p)
  <2>1. [k |-> <<v, d>>, x |-> Overflow] \in RowsOf("adj_state")
    BY DEF RowsOf, Overflow, AdjStates
  <2>2. PutOf(s2, p, "adj_state", <<v, d>>, Overflow)
    BY <1>4, <2>1, Put, TableNames
  <2>3. Frame(b, p)
    BY <1>4, <2>1, FramePut, TableNames
  <2>4. QED
    BY <2>2, <2>3 DEF PutOf
<1> HIDE DEF p
<1>6. /\ p["adj_edge"] = s2["adj_edge"] /\ p["edge_index"] = s1["edge_index"]
      /\ \A U \in {"existence", "etype", "eprop", "eidx"} : p[U] = s[U]
      /\ s2["adj_state"] = s["adj_state"] /\ s1["adj_edge"] = s["adj_edge"]
  BY <1>3, <1>4, <1>5, TableNames
\* The keys that move, and the rows.
<1>7. \A j : j \in keys <=> Has(s, "adj_edge", j) /\ j[1] = v /\ j[2] = d
  BY DEF keys, moved, Has
<1>8. \A j, y : [k |-> j, x |-> y] \in moved <=> At(s["adj_edge"], j, y) /\ j[1] = v /\ j[2] = d
  BY DEF moved, At
<1>9. \A j : (\E q \in moved : q.k = j) <=> j \in keys
  BY DEF keys
<1>10. \A j, y : At(p["edge_index"], j, y) <=>
          \/ At(s["adj_edge"], j, y) /\ j[1] = v /\ j[2] = d
          \/ At(s["edge_index"], j, y) /\ j \notin keys
  <2> SUFFICES ASSUME NEW j, NEW y
      PROVE At(p["edge_index"], j, y) <=>
              \/ At(s["adj_edge"], j, y) /\ j[1] = v /\ j[2] = d
              \/ At(s["edge_index"], j, y) /\ j \notin keys
    OBVIOUS
  <2> DEFINE r == [k |-> j, x |-> y]
  <2>1. r.k = j
    OBVIOUS
  <2>2. r \in p["edge_index"] <=> r \in moved \/ (r \in s["edge_index"] /\ \A q \in moved : q.k # r.k)
    BY <1>3, <1>6
  <2>3. (\A q \in moved : q.k # r.k) <=> j \notin keys
    BY <1>9, <2>1
  <2>4. QED
    BY <1>8, <2>2, <2>3 DEF At
<1>11. \A j, y : At(p["adj_edge"], j, y) <=> At(s["adj_edge"], j, y) /\ j \notin keys
  BY <1>4, <1>6
<1>12. /\ ~Comp(p, v, d)
       /\ \A v2, d2 : <<v2, d2>> # <<v, d>> => (Comp(p, v2, d2) <=> Comp(s, v2, d2))
       /\ \A v2, d2 : <<v2, d2>> # <<v, d>> => (Has(p, "adj_state", <<v2, d2>>) <=> Has(s, "adj_state", <<v2, d2>>))
  <2>1. \A n : Overflow # Complete(n)
    BY DEF Overflow, Complete
  <2>2. \A n : ~At(p["adj_state"], <<v, d>>, Complete(n))
    BY <1>5, <2>1
  <2>3. \A v2, d2, y : <<v2, d2>> # <<v, d>> => (At(p["adj_state"], <<v2, d2>>, y) <=> At(s["adj_state"], <<v2, d2>>, y))
    BY <1>5, <1>6
  <2>4. QED
    BY <1>1, <1>5, <2>2, <2>3, HasAt, TableNames DEF Comp
<1>13. \A j : <<"edge_index", j>> \in p.wrote <=> <<"edge_index", j>> \in s.wrote \/ j \in keys
  BY <1>3, <1>4, <1>5, <1>9
<1>14. \A j : <<"adj_edge", j>> \in p.wrote <=> <<"adj_edge", j>> \in s.wrote \/ j \in keys
  <2>1. \A j : Has(s1, "adj_edge", j) <=> Has(s, "adj_edge", j)
    BY <1>6 DEF Has
  <2>2. QED
    BY <1>3, <1>4, <1>5, <1>7, <2>1
<1>15. \A j : <<"adj_state", j>> \in p.wrote <=> <<"adj_state", j>> \in s.wrote \/ j = <<v, d>>
  BY <1>3, <1>4, <1>5
<1>16. Base(b, p)
  <2>1. IsFiniteSet(moved)
    BY <1>1, FS_Subset DEF Finite, moved
  <2>2. IsFiniteSet(s.edge_index \cup moved)
    BY <1>1, <2>1, FS_Union DEF Finite
  <2>3. p["edge_index"] \subseteq s.edge_index \cup moved
    BY <1>3, <1>6
  <2>4. p["adj_edge"] \subseteq s.adj_edge
    BY <1>4, <1>6
  <2>5. Finite(p)
    BY <1>1, <2>2, <2>3, <2>4, FS_Subset DEF Finite
  <2>6. cap # 0
    BY <1>1 DEF CapOK, Comp, At
  <2>7. QED
    BY <1>5, <2>5, <2>6 DEF Base, CapOK
<1>17. AdjOnly(s, p)
  BY <1>3, <1>4, <1>5, <1>6 DEF AdjOnly
<1>18. \A v2, n2, q2, d2 : <<v2, d2, n2, q2>> \in keys => v2 = v /\ d2 = d
  BY <1>7
<1>19. ASSUME NEW d2 \in Directions, d2 # d PROVE SameSide(s, p, d2)
  <2>1. \A v2 : <<v2, d2>> # <<v, d>>
    BY <1>19
  <2>2. \A v2, n2, q2 : <<v2, d2, n2, q2>> \notin keys /\ <<v2, d2, n2, q2>>[2] # d
    BY <1>19, <1>18
  <2>3. \A v2, y : At(p["adj_state"], <<v2, d2>>, y) <=> At(s["adj_state"], <<v2, d2>>, y)
    BY <1>5, <1>6, <2>1
  <2>4. \A v2 : Alive(p, v2) <=> Alive(s, v2)
    BY <1>6 DEF Alive
  <2>5. QED
    BY <1>10, <1>11, <1>13, <1>14, <1>15, <2>1, <2>2, <2>3, <2>4 DEF SameSide
<1>20. ASSUME NEW v2 \in Vertices, NEW n2 \in Vertices, NEW q2 \in Nat, NEW y \in Nat
       PROVE  CellOK(p, E, d, v2, n2, q2, y)
  <2> DEFINE j == <<v2, d, n2, q2>>
  <2>1. CellOK(s, E, d, v2, n2, q2, y)
    BY DEF Side, Cells
  <2>2. j[1] = v2 /\ j[2] = d
    OBVIOUS
  <2>3. CASE v2 = v
    <3>1. At(p["adj_edge"], j, y) => FALSE
      <4>1. At(s["adj_edge"], j, y) => Has(s, "adj_edge", j)
        BY <1>1, HasAt, TableNames
      <4>2. QED
        BY <1>7, <1>11, <2>2, <2>3, <4>1
    <3>2. At(p["edge_index"], j, y) <=> At(s["adj_edge"], j, y)
      BY <1>10, <2>1, <2>2, <2>3 DEF CellOK
    <3>3. QED
      BY <1>12, <2>1, <2>3, <3>1, <3>2 DEF CellOK
  <2>4. CASE v2 # v
    <3>1. j \notin keys
      BY <1>18, <2>4
    <3>2. At(p["adj_edge"], j, y) <=> At(s["adj_edge"], j, y)
      BY <1>11, <3>1
    <3>3. At(p["edge_index"], j, y) <=> At(s["edge_index"], j, y)
      BY <1>10, <2>2, <2>4, <3>1
    <3>4. Comp(p, v2, d) <=> Comp(s, v2, d)
      BY <1>12, <2>4
    <3>5. Alive(p, v2) <=> Alive(s, v2)
      BY <1>6 DEF Alive
    <3>6. QED
      BY <2>1, <3>2, <3>3, <3>4, <3>5 DEF CellOK
  <2>5. QED
    BY <2>3, <2>4
<1>21. ASSUME NEW v2 \in Vertices, NEW n2 \in Vertices, NEW q2 \in Nat
       PROVE  RuleOK(p.wrote, p, W, d, v2, n2, q2)
  <2> DEFINE j == <<v2, d, n2, q2>>
  <2>1. RuleOK(s.wrote, s, W, d, v2, n2, q2)
    BY DEF Side, Rules
  <2>2. CASE v2 = v
    BY <1>15, <2>2 DEF RuleOK
  <2>3. CASE v2 # v
    <3>1. j \notin keys /\ <<v2, d>> # <<v, d>>
      BY <1>18, <2>3
    <3>2. Comp(p, v2, d) <=> Comp(s, v2, d)
      BY <1>12, <3>1
    <3>3. /\ <<"edge_index", j>> \in p.wrote <=> <<"edge_index", j>> \in s.wrote
          /\ <<"adj_edge", j>> \in p.wrote <=> <<"adj_edge", j>> \in s.wrote
          /\ <<"adj_state", <<v2, d>>>> \in p.wrote <=> <<"adj_state", <<v2, d>>>> \in s.wrote
      BY <1>13, <1>14, <1>15, <3>1
    <3>4. j[1] # v
      BY <2>3
    <3>5. \A y : At(p["edge_index"], j, y) => At(s["edge_index"], j, y)
      BY <1>10, <3>1, <3>4
    <3>6. Lost(s, d, v2, n2, q2) => Lost(p, d, v2, n2, q2)
      BY <1>6, <3>2, <3>5 DEF Lost, Alive
    <3>7. QED
      BY <2>1, <3>2, <3>3, <3>6 DEF RuleOK
  <2>4. QED
    BY <2>2, <2>3
<1>22. ASSUME NEW v2 \in Vertices, <<v2, d>> \notin skew PROVE Exact(p, v2, d)
  <2>1. CASE v2 = v
    BY <1>12, <2>1 DEF Exact, Comp
  <2>2. CASE v2 # v
    <3>1. \A n2, q2 : <<v2, d, n2, q2>> \notin keys
      BY <1>18, <2>2
    <3>2. \A n2, q2 : Has(p, "adj_edge", <<v2, d, n2, q2>>) <=> Has(s, "adj_edge", <<v2, d, n2, q2>>)
      BY <1>1, <1>5, <1>11, <3>1, HasAt, TableNames
    <3>3. \A j : j \in KeysAt(p, v2, d) <=> j \in KeysAt(s, v2, d)
      BY <1>1, <1>5, <3>2, KeysAtIs
    <3>4. KeysAt(p, v2, d) = KeysAt(s, v2, d)
      BY <3>3
    <3>5. <<v2, d>> # <<v, d>>
      BY <2>2
    <3>6. \A n : At(p["adj_state"], <<v2, d>>, Complete(n)) <=> At(s["adj_state"], <<v2, d>>, Complete(n))
      BY <1>5, <1>6, <3>5
    <3>7. Exact(s, v2, d)
      BY <1>22 DEF Side
    <3>8. QED
      BY <3>4, <3>6, <3>7 DEF Exact
  <2>3. QED
    BY <2>1, <2>2
<1>23. ASSUME NEW v2 \in Vertices
       PROVE  /\ Comp(p, v2, d) => Comp(b, v2, d)
              /\ Has(p, "adj_state", <<v2, d>>) => Has(b, "adj_state", <<v2, d>>)
              /\ <<"adj_state", <<v2, d>>>> \in p.wrote => Has(b, "adj_state", <<v2, d>>)
  <2>1. Comp(p, v2, d) => Comp(s, v2, d)
    BY <1>12
  <2>2. Has(s, "adj_state", <<v, d>>)
    BY <1>1, HasAt, TableNames DEF Comp
  <2>3. Has(p, "adj_state", <<v2, d>>) => Has(s, "adj_state", <<v2, d>>)
    BY <1>12, <2>2
  <2>4. <<"adj_state", <<v2, d>>>> \in p.wrote => <<"adj_state", <<v2, d>>>> \in s.wrote \/ v2 = v
    BY <1>15
  <2>5. QED
    BY <2>1, <2>2, <2>3, <2>4 DEF Side
<1>24. Side(b, p, E, W, d, skew)
  BY <1>20, <1>21, <1>22, <1>23 DEF Side, Cells, Rules
<1>25. s.wrote \subseteq p.wrote /\ <<"adj_state", <<v, d>>>> \in p.wrote
  <2>1. s.wrote \subseteq s1.wrote
    BY <1>3
  <2>2. p = table_put(s2, "adj_state", <<v, d>>, Overflow) /\ s2 = table_del_all(s1, "adj_edge", keys)
    BY DEF p, s2
  <2>3. s1.wrote \subseteq s2.wrote
    <3>1. "wrote" \in DOMAIN s1 /\ "adj_edge" # "wrote"
      BY <1>3 DEF IsStore
    <3>2. QED
      BY <2>2, <3>1 DEF table_del_all
  <2>4. QED
    BY <1>5, <2>1, <2>3
<1>26. p = promoteAdjacency(s, v, d)
  BY DEF p, s2, s1, keys, moved, promoteAdjacency
<1>27. QED
  BY <1>12, <1>16, <1>17, <1>19, <1>24, <1>25, <1>26 DEF AdjStep

\* An edge that goes to the cache, with its counter.
LEMMA InsertCached ==
    ASSUME cap \in Nat, NEW b, NEW s, Base(b, s), NEW E, NEW W, NEW skew,
           NEW v \in Vertices, NEW d \in Directions, NEW n \in Vertices, NEW q \in Nat, NEW e \in Nat,
           Side(b, s, E, W, d, skew), NEW c \in Nat, At(s.adj_state, <<v, d>>, Complete(c)),
           NEW E1, Added(E, E1, EKey(d, v, n, q), e),
           <<v, d>> \in skew \/ \A val \in Nat : ~At(E, EKey(d, v, n, q), val)
    PROVE  LET p == table_put(table_put(s, "adj_edge", <<v, d, n, q>>, e), "adj_state", <<v, d>>, Complete(c + 1)) IN
           AdjStep(b, s, p, E1, W \cup {EKey(d, v, n, q)}, d, skew) /\ <<"adj_state", <<v, d>>>> \in p.wrote
<1> DEFINE key == <<v, d, n, q>>
           end == <<v, d>>
           new == Complete(c + 1)
           s1 == table_put(s, "adj_edge", key, e)
           p == table_put(s1, "adj_state", end, new)
<1>1. IsStore(s) /\ CapOK(cap, s) /\ Finite(s) /\ Frame(b, s) /\ Comp(s, v, d)
  BY DEF Base, Comp
<1>2. [k |-> key, x |-> e] \in RowsOf("adj_edge") /\ [k |-> end, x |-> new] \in RowsOf("adj_state")
  BY EKeyFacts DEF RowsOf, Complete, AdjStates
<1>3. key[1] = v /\ key[2] = d
  OBVIOUS
<1> HIDE DEF key, end, new
<1>17. Frame(b, s1)
  BY <1>1, <1>2, FramePut, TableNames
<1>4. /\ IsStore(s1)
      /\ \A U \in Tables : U # "adj_edge" => s1[U] = s[U]
      /\ \A j, y : At(s1["adj_edge"], j, y) <=> IF j = key THEN y = e ELSE At(s["adj_edge"], j, y)
      /\ \A j : Has(s1, "adj_edge", j) <=> j = key \/ Has(s, "adj_edge", j)
      /\ s1.wrote = s.wrote \cup {<<"adj_edge", key>>}
      /\ s1["adj_edge"] \subseteq s["adj_edge"] \cup {[k |-> key, x |-> e]}
  <2>1. PutOf(s, s1, "adj_edge", key, e)
    BY <1>1, <1>2, Put, TableNames
  <2>2. QED
    BY <2>1 DEF PutOf
<1> HIDE DEF s1
<1>18. Frame(b, p)
  BY <1>2, <1>4, <1>17, FramePut, TableNames
<1>5. /\ IsStore(p)
      /\ \A U \in Tables : U # "adj_state" => p[U] = s1[U]
      /\ \A j, y : At(p["adj_state"], j, y) <=> IF j = end THEN y = new ELSE At(s1["adj_state"], j, y)
      /\ \A j : Has(p, "adj_state", j) <=> j = end \/ Has(s1, "adj_state", j)
      /\ p.wrote = s1.wrote \cup {<<"adj_state", end>>}
  <2>1. PutOf(s1, p, "adj_state", end, new)
    BY <1>2, <1>4, Put, TableNames
  <2>2. QED
    BY <2>1 DEF PutOf
<1> HIDE DEF p
<1>6. /\ p["adj_edge"] = s1["adj_edge"] /\ p["edge_index"] = s["edge_index"]
      /\ \A U \in {"existence", "etype", "eprop", "eidx"} : p[U] = s[U]
      /\ s1["adj_state"] = s["adj_state"]
  BY <1>4, <1>5, TableNames
<1>7. \A v2, d2 : /\ Comp(p, v2, d2) <=> Comp(s, v2, d2)
                  /\ Has(p, "adj_state", <<v2, d2>>) <=> Has(s, "adj_state", <<v2, d2>>)
  <2> SUFFICES ASSUME NEW v2, NEW d2
               PROVE  /\ Comp(p, v2, d2) <=> Comp(s, v2, d2)
                      /\ Has(p, "adj_state", <<v2, d2>>) <=> Has(s, "adj_state", <<v2, d2>>)
    OBVIOUS
  <2>1. CASE <<v2, d2>> = end
    <3>1. v2 = v /\ d2 = d
      BY <2>1 DEF end
    <3>2. At(p["adj_state"], <<v, d>>, Complete(c + 1)) /\ c + 1 \in Nat
      BY <1>5 DEF end, new
    <3>3. Comp(p, v, d)
      BY <3>2 DEF Comp
    <3>4. Has(s, "adj_state", <<v, d>>) /\ Has(p, "adj_state", <<v, d>>)
      BY <1>1, <1>5, <3>2, HasAt, TableNames
    <3>5. QED
      BY <1>1, <3>1, <3>3, <3>4
  <2>2. CASE <<v2, d2>> # end
    <3>1. \A y : At(p["adj_state"], <<v2, d2>>, y) <=> At(s["adj_state"], <<v2, d2>>, y)
      BY <1>5, <1>6, <2>2
    <3>2. Has(s1, "adj_state", <<v2, d2>>) <=> Has(s, "adj_state", <<v2, d2>>)
      BY <1>6 DEF Has
    <3>3. QED
      BY <1>5, <2>2, <3>1, <3>2 DEF Comp
  <2>3. QED
    BY <2>1, <2>2
<1>20. \A v2 : Alive(p, v2) <=> Alive(s, v2)
  BY <1>6 DEF Alive
<1>8. Base(b, p)
  <2>1. IsFiniteSet(s.adj_edge \cup {[k |-> key, x |-> e]})
    BY <1>1, FS_AddElement DEF Finite
  <2>2. Finite(p)
    BY <1>1, <1>4, <1>6, <2>1, FS_Subset DEF Finite
  <2>3. cap # 0
    BY <1>1 DEF CapOK, At
  <2>4. QED
    BY <1>5, <1>18, <2>2, <2>3 DEF Base, CapOK
<1>9. AdjOnly(s, p)
  BY <1>4, <1>5, <1>6 DEF AdjOnly
<1>10. ASSUME NEW d2 \in Directions, d2 # d PROVE SameSide(s, p, d2)
  <2>1. \A v2, n2, q2 : <<v2, d2, n2, q2>> # key /\ <<v2, d2>> # end
    BY <1>10 DEF key, end
  <2>2. QED
    BY <1>4, <1>5, <1>6, <1>20, <2>1 DEF SameSide
<1>11. ASSUME NEW v2 \in Vertices, NEW n2 \in Vertices, NEW q2 \in Nat, NEW y \in Nat
       PROVE  CellOK(p, E1, d, v2, n2, q2, y)
  <2>1. CellOK(s, E, d, v2, n2, q2, y)
    BY DEF Side, Cells
  <2>2. <<v2, d, n2, q2>> = key <=> EKey(d, v, n, q) = EKey(d, v2, n2, q2)
    BY EKeySame DEF key
  <2>3. At(p["adj_edge"], <<v2, d, n2, q2>>, y) <=>
          IF <<v2, d, n2, q2>> = key THEN y = e ELSE At(s["adj_edge"], <<v2, d, n2, q2>>, y)
    BY <1>4, <1>6
  <2>4. At(E1, EKey(d, v2, n2, q2), y) <=>
          IF <<v2, d, n2, q2>> = key THEN y = e ELSE At(E, EKey(d, v2, n2, q2), y)
    BY <2>2 DEF Added
  <2>5. <<v2, d, n2, q2>> = key => v2 = v
    BY DEF key
  <2>6. QED
    BY <1>1, <1>6, <1>7, <1>20, <2>1, <2>3, <2>4, <2>5 DEF CellOK
<1>12. ASSUME NEW v2 \in Vertices, NEW n2 \in Vertices, NEW q2 \in Nat
       PROVE  RuleOK(p.wrote, p, W \cup {EKey(d, v, n, q)}, d, v2, n2, q2)
  <2>1. RuleOK(s.wrote, s, W, d, v2, n2, q2)
    BY DEF Side, Rules
  <2>2. <<v2, d, n2, q2>> = key <=> EKey(d, v, n, q) = EKey(d, v2, n2, q2)
    BY EKeySame DEF key
  <2>3. /\ <<"adj_edge", <<v2, d, n2, q2>>>> \in p.wrote <=>
             <<"adj_edge", <<v2, d, n2, q2>>>> \in s.wrote \/ <<v2, d, n2, q2>> = key
        /\ <<"adj_state", <<v2, d>>>> \in p.wrote <=> <<"adj_state", <<v2, d>>>> \in s.wrote \/ <<v2, d>> = end
        /\ <<"edge_index", <<v2, d, n2, q2>>>> \in p.wrote <=> <<"edge_index", <<v2, d, n2, q2>>>> \in s.wrote
    BY <1>4, <1>5
  <2>4. (<<v2, d, n2, q2>> = key => v2 = v) /\ (<<v2, d>> = end <=> v2 = v)
    BY DEF key, end
  <2>5. Lost(s, d, v2, n2, q2) => Lost(p, d, v2, n2, q2)
    BY <1>6, <1>7, <1>20 DEF Lost
  <2>6. QED
    BY <1>7, <2>1, <2>2, <2>3, <2>4, <2>5 DEF RuleOK
<1>13. ASSUME NEW v2 \in Vertices, <<v2, d>> \notin skew PROVE Exact(p, v2, d)
  <2>1. Exact(s, v2, d)
    BY <1>13 DEF Side
  <2>2. \A j : j \in KeysAt(p, v2, d) <=> j \in KeysAt(s, v2, d) \/ (v2 = v /\ j = key)
    <3> SUFFICES ASSUME NEW j
                 PROVE  j \in KeysAt(p, v2, d) <=> j \in KeysAt(s, v2, d) \/ (v2 = v /\ j = key)
      OBVIOUS
    <3>1. Has(p, "adj_edge", j) <=> j = key \/ Has(s, "adj_edge", j)
      BY <1>4, <1>6 DEF Has
    <3>2. (\E n2 \in Vertices, q2 \in Nat : j = <<v2, d, n2, q2>>) /\ j = key => v2 = v
      BY DEF key
    <3>3. v2 = v /\ j = key => \E n2 \in Vertices, q2 \in Nat : j = <<v2, d, n2, q2>>
      BY DEF key
    <3>4. j \in KeysAt(p, v2, d) <=> \E n2 \in Vertices, q2 \in Nat : j = <<v2, d, n2, q2>> /\ Has(p, "adj_edge", j)
      BY <1>5, KeysAtIs
    <3>5. j \in KeysAt(s, v2, d) <=> \E n2 \in Vertices, q2 \in Nat : j = <<v2, d, n2, q2>> /\ Has(s, "adj_edge", j)
      BY <1>1, KeysAtIs
    <3>6. QED
      BY <3>1, <3>2, <3>3, <3>4, <3>5
  <2>3. CASE v2 = v
    <3>1. KeysAt(p, v, d) = KeysAt(s, v, d) \cup {key}
      BY <2>2, <2>3
    <3>2. \A val : ~At(s["adj_edge"], key, val)
      <4> SUFFICES ASSUME NEW val, At(s["adj_edge"], key, val) PROVE FALSE
        OBVIOUS
      <4>1. val \in Nat
        BY <1>1, RowShape, TableNames DEF At, RowsOf
      <4>2. CellOK(s, E, d, v, n, q, val)
        BY <4>1 DEF Side, Cells
      <4>3. QED
        BY <1>1, <1>13, <2>3, <4>1, <4>2 DEF CellOK, key
    <3>3. ~Has(s, "adj_edge", key)
      BY <1>1, <3>2, HasAt, TableNames
    <3>4. key \notin KeysAt(s, v, d)
      BY <1>1, <3>3, KeysAtIs
    <3>5. c = Cardinality(KeysAt(s, v, d))
      BY <2>1, <2>3 DEF Exact
    <3>6. Cardinality(KeysAt(p, v, d)) = c + 1
      BY <1>1, <3>1, <3>4, <3>5, KeysFinite, FS_AddElement
    <3>7. ASSUME NEW m \in Nat, At(p["adj_state"], <<v, d>>, Complete(m)) PROVE m = c + 1
      <4>1. Complete(m) = Complete(c + 1)
        BY <1>5, <3>7 DEF end, new
      <4>2. Complete(m).count = Complete(c + 1).count
        BY <4>1
      <4>3. QED
        BY <4>2 DEF Complete
    <3>8. QED
      BY <2>3, <3>6, <3>7 DEF Exact
  <2>4. CASE v2 # v
    <3>1. KeysAt(p, v2, d) = KeysAt(s, v2, d)
      BY <2>2, <2>4
    <3>2. <<v2, d>> # end
      BY <2>4 DEF end
    <3>3. \A m : At(p["adj_state"], <<v2, d>>, Complete(m)) <=> At(s["adj_state"], <<v2, d>>, Complete(m))
      BY <1>5, <1>6, <3>2
    <3>4. QED
      BY <2>1, <3>1, <3>3 DEF Exact
  <2>5. QED
    BY <2>3, <2>4
<1>21. ASSUME NEW v2 \in Vertices, <<"adj_state", <<v2, d>>>> \in p.wrote PROVE Has(b, "adj_state", <<v2, d>>)
  <2>1. <<"adj_state", <<v2, d>>>> \in s.wrote \/ v2 = v
    BY <1>4, <1>5, <1>21 DEF end
  <2>2. Has(s, "adj_state", <<v, d>>)
    BY <1>1, HasAt, TableNames
  <2>3. QED
    BY <2>1, <2>2 DEF Side
<1>14. Side(b, p, E1, W \cup {EKey(d, v, n, q)}, d, skew)
  BY <1>7, <1>11, <1>12, <1>13, <1>21 DEF Side, Cells, Rules
<1>15. s.wrote \subseteq p.wrote /\ <<"adj_state", <<v, d>>>> \in p.wrote
  BY <1>4, <1>5 DEF end
<1>16. p = table_put(table_put(s, "adj_edge", <<v, d, n, q>>, e), "adj_state", <<v, d>>, Complete(c + 1))
  BY DEF p, s1, key, end, new
<1>19. QED
  BY <1>8, <1>9, <1>10, <1>14, <1>15, <1>16 DEF AdjStep

LEMMA AdjOnlyTwice ==
    ASSUME NEW s, NEW p, NEW z, AdjOnly(s, p), AdjOnly(p, z)
    PROVE  AdjOnly(s, z)
BY DEF AdjOnly

LEMMA SameSideTwice ==
    ASSUME NEW s, NEW p, NEW z, NEW d, SameSide(s, p, d), SameSide(p, z, d)
    PROVE  SameSide(s, z, d)
<1>1. \A v \in Vertices :
        /\ \A y : At(s.adj_state, <<v, d>>, y) <=> At(z.adj_state, <<v, d>>, y)
        /\ <<"adj_state", <<v, d>>>> \in s.wrote <=> <<"adj_state", <<v, d>>>> \in z.wrote
        /\ Alive(s, v) <=> Alive(z, v)
  BY DEF SameSide
<1>2. \A v, n \in Vertices, q \in Nat :
        /\ \A y : At(s.adj_edge, <<v, d, n, q>>, y) <=> At(z.adj_edge, <<v, d, n, q>>, y)
        /\ \A y : At(s.edge_index, <<v, d, n, q>>, y) <=> At(z.edge_index, <<v, d, n, q>>, y)
        /\ <<"adj_edge", <<v, d, n, q>>>> \in s.wrote <=> <<"adj_edge", <<v, d, n, q>>>> \in z.wrote
        /\ <<"edge_index", <<v, d, n, q>>>> \in s.wrote <=> <<"edge_index", <<v, d, n, q>>>> \in z.wrote
  BY DEF SameSide
<1>3. QED
  BY <1>1, <1>2 DEF SameSide

LEMMA InsertAdjacency ==
    ASSUME cap \in Nat, NEW b, NEW s, Base(b, s), NEW E, NEW W, NEW skew,
           NEW v \in Vertices, NEW d \in Directions, NEW n \in Vertices, NEW q \in Nat, NEW e \in Nat,
           Side(b, s, E, W, d, skew),
           NEW E1, Added(E, E1, EKey(d, v, n, q), e),
           <<v, d>> \in skew \/ \A val \in Nat : ~At(E, EKey(d, v, n, q), val)
    PROVE  /\ AdjStep(b, s, insertAdjacencyEdge(s, v, d, n, q, e), E1, W \cup {EKey(d, v, n, q)}, d, skew)
           /\ Comp(s, v, d) => <<"adj_state", <<v, d>>>> \in insertAdjacencyEdge(s, v, d, n, q, e).wrote
<1> DEFINE p == insertAdjacencyEdge(s, v, d, n, q, e)
           W1 == W \cup {EKey(d, v, n, q)}
           c == getAdjacencyState(s, v, d).count
<1>1. IsStore(s) /\ CapOK(cap, s)
  BY DEF Base
<1>2. Cached(s, v, d) <=> Comp(s, v, d)
  BY <1>1, CachedIs
<1>3. Cached(s, v, d) => c \in Nat /\ At(s.adj_state, <<v, d>>, Complete(c))
  BY <1>1, CachedIs
<1>4. CASE ~Comp(s, v, d)
  <2>1. p = table_put(s, "edge_index", <<v, d, n, q>>, e)
    BY <1>2, <1>4 DEF insertAdjacencyEdge
  <2>2. AdjStep(b, s, table_put(s, "edge_index", <<v, d, n, q>>, e), E1, W1, d, skew)
    BY <1>4, InsertPlain
  <2>3. QED
    BY <1>4, <2>1, <2>2
<1>5. CASE Comp(s, v, d) /\ c >= cap
  <2> DEFINE m == promoteAdjacency(s, v, d)
             z == table_put(m, "edge_index", <<v, d, n, q>>, e)
  <2>1. p = z
    BY <1>2, <1>5 DEF insertAdjacencyEdge
  <2>2. AdjStep(b, s, m, E, W, d, skew) /\ <<"adj_state", <<v, d>>>> \in m.wrote /\ ~Comp(m, v, d)
    BY <1>5, Promote
  <2> HIDE DEF m
  <2>3. Base(b, m) /\ Side(b, m, E, W, d, skew)
    BY <2>2 DEF AdjStep
  <2>4. AdjStep(b, m, z, E1, W1, d, skew)
    BY <2>2, <2>3, InsertPlain
  <2> HIDE DEF z
  <2>5. AdjStep(b, s, z, E1, W1, d, skew)
    BY <2>2, <2>4, AdjOnlyTwice, SameSideTwice DEF AdjStep
  <2>6. <<"adj_state", <<v, d>>>> \in z.wrote
    BY <2>2, <2>4 DEF AdjStep
  <2>7. QED
    BY <2>1, <2>5, <2>6
<1>6. CASE Comp(s, v, d) /\ ~(c >= cap)
  <2> DEFINE z == table_put(table_put(s, "adj_edge", <<v, d, n, q>>, e), "adj_state", <<v, d>>, Complete(c + 1))
  <2>1. p = z
    BY <1>2, <1>6 DEF insertAdjacencyEdge
  <2>2. c \in Nat /\ At(s.adj_state, <<v, d>>, Complete(c))
    BY <1>2, <1>3, <1>6
  <2> HIDE DEF c
  <2>3. AdjStep(b, s, z, E1, W1, d, skew) /\ <<"adj_state", <<v, d>>>> \in z.wrote
    BY <2>2, InsertCached
  <2>4. QED
    BY <2>1, <2>3
<1>7. QED
  BY <1>4, <1>5, <1>6

-----------------------------------------------------------------------------
(* Deleting from an adjacency *)

TKeys(es) == {<<e.s, e.t, e.q>> : e \in es}

\* The rows of some keys taken from the type table.
Removed(E, E1, W, W1, K) ==
    /\ \A j, y : At(E1, j, y) <=> At(E, j, y) /\ j \notin K
    /\ \A j \in EdgeKeys : j \in W1 <=> j \in W \/ (j \in K /\ \E y \in Nat : At(E, j, y))

Ends(es, d) == {EndOf(e, d) : e \in es}

LEMMA KeyAtIs ==
    ASSUME NEW es, es \subseteq Edges, NEW d \in Directions, NEW v, NEW n, NEW q
    PROVE  /\ <<v, d, n, q>> \in {KeyAt(e, d) : e \in es} <=> EKey(d, v, n, q) \in TKeys(es)
           /\ \A e \in es : KeyAt(e, d)[1] = EndOf(e, d) /\ KeyAt(e, d) \in AdjKeys /\ KeyAt(e, d)[2] = d
           /\ \A e \in es : EndOf(e, d) \in Vertices
<1>1. ASSUME NEW e \in es PROVE KeyAt(e, d) = <<v, d, n, q>> <=> <<e.s, e.t, e.q>> = EKey(d, v, n, q)
  BY DEF KeyAt, EKey, Edges, Directions
<1>2. \A e \in es : /\ KeyAt(e, d)[1] = EndOf(e, d) /\ KeyAt(e, d) \in AdjKeys /\ KeyAt(e, d)[2] = d
                    /\ EndOf(e, d) \in Vertices
  BY DEF KeyAt, EndOf, Edges, AdjKeys
<1>3. QED
  BY <1>1, <1>2 DEF TKeys

LEMMA KeyImageFinite ==
    ASSUME NEW es, IsFiniteSet(es), NEW d, NEW P
    PROVE  IsFiniteSet({KeyAt(e, d) : e \in es}) /\ IsFiniteSet({k \in {KeyAt(e, d) : e \in es} : k[1] = P})
<1> DEFINE image == {KeyAt(e, d) : e \in es}
           f == [e \in es |-> KeyAt(e, d)]
<1>1. f \in Surjection(es, image)
  BY DEF Surjection
<1> HIDE DEF f
<1>2. IsFiniteSet(image)
  BY <1>1, FS_Surjection
<1> HIDE DEF image
<1>3. IsFiniteSet({k \in image : k[1] = P})
  BY <1>2, FS_Subset
<1>4. QED
  BY <1>2, <1>3 DEF image

LEMMA DeleteAdjacency ==
    ASSUME cap \in Nat, NEW b, NEW s, Base(b, s), NEW E, NEW W, NEW skew, NEW d \in Directions,
           Side(b, s, E, W, d, skew), NEW es, es \subseteq Edges, IsFiniteSet(es),
           NEW E1, NEW W1, Removed(E, E1, W, W1, TKeys(es)),
           \A e \in es : Comp(s, EndOf(e, d), d) =>
              <<EndOf(e, d), d>> \in skew \/ Has(s, "adj_edge", KeyAt(e, d))
    PROVE  /\ AdjStep(b, s, deleteAdjacencyEdge(s, d, es), E1, W1, d, skew)
           /\ \A v \in Vertices : Comp(deleteAdjacencyEdge(s, d, es), v, d) <=> Comp(s, v, d)
<1> DEFINE cached == {e \in es : Cached(s, EndOf(e, d), d)}
           keys == {KeyAt(e, d) : e \in cached}
           plain == {KeyAt(e, d) : e \in es \ cached}
           At1(v) == {k \in keys : k[1] = v}
           count(v) == getAdjacencyState(s, v, d).count
           Low(v) == Complete(IF count(v) > Cardinality(At1(v)) THEN count(v) - Cardinality(At1(v)) ELSE 0)
           rows == {[k |-> <<EndOf(e, d), d>>, x |-> Low(EndOf(e, d))] : e \in cached}
           s1 == table_del_all(s, "adj_edge", keys)
           s2 == table_del_all(s1, "edge_index", plain)
           p == table_put_all(s2, "adj_state", rows)
<1>1. IsStore(s) /\ CapOK(cap, s) /\ Finite(s) /\ Frame(b, s)
  BY DEF Base
<1>2. p = deleteAdjacencyEdge(s, d, es)
  BY DEF deleteAdjacencyEdge
<1>3. \A e \in es : EndOf(e, d) \in Vertices /\ (e \in cached <=> Comp(s, EndOf(e, d), d))
  BY <1>1, CachedIs, KeyAtIs
<1>4. \A e \in cached : count(EndOf(e, d)) \in Nat /\ At(s.adj_state, <<EndOf(e, d), d>>, Complete(count(EndOf(e, d))))
  <2> SUFFICES ASSUME NEW e \in cached
      PROVE count(EndOf(e, d)) \in Nat /\ At(s.adj_state, <<EndOf(e, d), d>>, Complete(count(EndOf(e, d))))
    OBVIOUS
  <2>1. EndOf(e, d) \in Vertices /\ Cached(s, EndOf(e, d), d)
    BY <1>3
  <2>2. QED
    BY <1>1, <2>1, CachedIs
<1>5. IsFiniteSet(cached) /\ cached \subseteq es
  BY FS_Subset
<1> HIDE DEF cached
<1>6. \A v : IsFiniteSet(At1(v)) /\ Cardinality(At1(v)) \in Nat
  <2> SUFFICES ASSUME NEW v PROVE IsFiniteSet(At1(v)) /\ Cardinality(At1(v)) \in Nat
    OBVIOUS
  <2>3. IsFiniteSet(keys)
    BY <1>5, KeyImageFinite
  <2> HIDE DEF keys
  <2>1. IsFiniteSet(At1(v))
    BY <2>3, FS_Subset
  <2>2. QED
    BY <2>1, FS_CardinalityType
<1>7. \A v, n, q : <<v, d, n, q>> \in keys <=> v \in Vertices /\ Comp(s, v, d) /\ EKey(d, v, n, q) \in TKeys(es)
  <2> SUFFICES ASSUME NEW v, NEW n, NEW q
      PROVE <<v, d, n, q>> \in keys <=> v \in Vertices /\ Comp(s, v, d) /\ EKey(d, v, n, q) \in TKeys(es)
    OBVIOUS
  <2>1. <<v, d, n, q>>[1] = v
    OBVIOUS
  <2>2. \A e \in es : KeyAt(e, d) = <<v, d, n, q>> => EndOf(e, d) = v
    BY <2>1, KeyAtIs
  <2>3. <<v, d, n, q>> \in {KeyAt(e, d) : e \in es} <=> EKey(d, v, n, q) \in TKeys(es)
    BY KeyAtIs
  <2>4. QED
    BY <1>3, <1>5, <2>2, <2>3
<1>8. \A v, n, q : <<v, d, n, q>> \in plain <=> v \in Vertices /\ ~Comp(s, v, d) /\ EKey(d, v, n, q) \in TKeys(es)
  <2> SUFFICES ASSUME NEW v, NEW n, NEW q
      PROVE <<v, d, n, q>> \in plain <=> v \in Vertices /\ ~Comp(s, v, d) /\ EKey(d, v, n, q) \in TKeys(es)
    OBVIOUS
  <2>1. <<v, d, n, q>>[1] = v
    OBVIOUS
  <2>2. \A e \in es : KeyAt(e, d) = <<v, d, n, q>> => EndOf(e, d) = v
    BY <2>1, KeyAtIs
  <2>3. <<v, d, n, q>> \in {KeyAt(e, d) : e \in es} <=> EKey(d, v, n, q) \in TKeys(es)
    BY KeyAtIs
  <2>4. QED
    BY <1>3, <1>5, <2>2, <2>3
<1>9. \A j : j \in keys \/ j \in plain => j[2] = d
  BY <1>5, KeyAtIs
<1>10. \A v : (\E e \in cached : EndOf(e, d) = v) <=> v \in Ends(cached, d)
  BY DEF Ends
<1>11. \A v \in Ends(cached, d) : Low(v) \in AdjStates /\ Low(v).state = "COMPLETE" /\ \E m \in Nat : Low(v) = Complete(m)
  <2> SUFFICES ASSUME NEW v \in Ends(cached, d)
      PROVE Low(v) \in AdjStates /\ Low(v).state = "COMPLETE" /\ \E m \in Nat : Low(v) = Complete(m)
    OBVIOUS
  <2>1. count(v) \in Nat /\ Cardinality(At1(v)) \in Nat
    BY <1>4, <1>6 DEF Ends
  <2> DEFINE m == IF count(v) > Cardinality(At1(v)) THEN count(v) - Cardinality(At1(v)) ELSE 0
  <2>2. m \in Nat
    <3> HIDE DEF At1, count
    <3> QED
      BY <2>1
  <2>3. Low(v) = Complete(m)
    OBVIOUS
  <2> HIDE DEF m
  <2>4. Complete(m) \in AdjStates /\ Complete(m).state = "COMPLETE"
    BY <2>2 DEF Complete, AdjStates
  <2> HIDE DEF Low
  <2>5. QED
    BY <2>2, <2>3, <2>4
<1>12. rows \subseteq RowsOf("adj_state") /\ Functional(rows)
  <2>1. \A e \in cached : EndOf(e, d) \in Ends(cached, d) /\ EndOf(e, d) \in Vertices
    BY <1>3, <1>5 DEF Ends
  <2> HIDE DEF Low
  <2>2. Functional(rows)
    <3> SUFFICES ASSUME NEW e \in cached, NEW f \in cached, <<EndOf(e, d), d>> = <<EndOf(f, d), d>>
                 PROVE  [k |-> <<EndOf(e, d), d>>, x |-> Low(EndOf(e, d))] = [k |-> <<EndOf(f, d), d>>, x |-> Low(EndOf(f, d))]
      BY DEF Functional
    <3>1. EndOf(e, d) = EndOf(f, d)
      OBVIOUS
    <3>2. QED
      BY <3>1
  <2>3. \A e \in cached : [k |-> <<EndOf(e, d), d>>, x |-> Low(EndOf(e, d))] \in RowsOf("adj_state")
    BY <1>11, <2>1 DEF RowsOf
  <2>4. QED
    BY <2>2, <2>3
<1> HIDE DEF Low
<1>13. \A v2, d2, y : [k |-> <<v2, d2>>, x |-> y] \in rows <=> d2 = d /\ v2 \in Ends(cached, d) /\ y = Low(v2)
  <2> SUFFICES ASSUME NEW v2, NEW d2, NEW y
      PROVE [k |-> <<v2, d2>>, x |-> y] \in rows <=> d2 = d /\ v2 \in Ends(cached, d) /\ y = Low(v2)
    OBVIOUS
  <2>1. ASSUME [k |-> <<v2, d2>>, x |-> y] \in rows PROVE d2 = d /\ v2 \in Ends(cached, d) /\ y = Low(v2)
    <3>1. PICK e \in cached : [k |-> <<v2, d2>>, x |-> y] = [k |-> <<EndOf(e, d), d>>, x |-> Low(EndOf(e, d))]
      BY <2>1
    <3>2. <<v2, d2>> = <<EndOf(e, d), d>> /\ y = Low(EndOf(e, d))
      BY <3>1
    <3>3. v2 = EndOf(e, d) /\ d2 = d
      BY <3>2
    <3>4. QED
      BY <3>2, <3>3 DEF Ends
  <2>2. ASSUME d2 = d, v2 \in Ends(cached, d), y = Low(v2) PROVE [k |-> <<v2, d2>>, x |-> y] \in rows
    <3>1. PICK e \in cached : v2 = EndOf(e, d)
      BY <2>2 DEF Ends
    <3>2. QED
      BY <2>2, <3>1
  <2>3. QED
    BY <2>1, <2>2
<1>14. \A v2, d2 : (\E r \in rows : r.k = <<v2, d2>>) <=> d2 = d /\ v2 \in Ends(cached, d)
  <2> SUFFICES ASSUME NEW v2, NEW d2
      PROVE (\E r \in rows : r.k = <<v2, d2>>) <=> d2 = d /\ v2 \in Ends(cached, d)
    OBVIOUS
  <2>1. ASSUME NEW r \in rows, r.k = <<v2, d2>> PROVE d2 = d /\ v2 \in Ends(cached, d)
    <3>1. PICK e \in cached : r = [k |-> <<EndOf(e, d), d>>, x |-> Low(EndOf(e, d))]
      BY <2>1
    <3>2. <<v2, d2>> = <<EndOf(e, d), d>>
      BY <2>1, <3>1
    <3>3. v2 = EndOf(e, d) /\ d2 = d
      BY <3>2
    <3>4. QED
      BY <3>3 DEF Ends
  <2>2. ASSUME d2 = d, v2 \in Ends(cached, d) PROVE \E r \in rows : r.k = <<v2, d2>>
    <3>1. [k |-> <<v2, d2>>, x |-> Low(v2)] \in rows
      BY <1>13, <2>2
    <3>2. [k |-> <<v2, d2>>, x |-> Low(v2)].k = <<v2, d2>>
      OBVIOUS
    <3>3. QED
      BY <3>1, <3>2
  <2>3. QED
    BY <2>1, <2>2
<1>15. \A r \in rows : r.k[2] = d
  OBVIOUS
<1> HIDE DEF keys, plain, rows
<1>16. DelOf(s, s1, "adj_edge", keys) /\ Frame(b, s1)
  BY <1>1, DelAll, FrameDel, TableNames
<1> HIDE DEF s1
<1>17. DelOf(s1, s2, "edge_index", plain) /\ Frame(b, s2)
  <2>1. IsStore(s1)
    BY <1>16 DEF DelOf
  <2>2. QED
    BY <1>16, <2>1, DelAll, FrameDel, TableNames
<1> HIDE DEF s2
<1>18. PutAllOf(s2, p, "adj_state", rows) /\ Frame(b, p)
  <2>1. IsStore(s2)
    BY <1>17 DEF DelOf
  <2>2. QED
    BY <1>12, <1>17, <2>1, PutAll, FramePutAll, TableNames
<1> HIDE DEF p
<1>19. /\ IsStore(p)
       /\ p["adj_edge"] = s1["adj_edge"] /\ p["edge_index"] = s2["edge_index"]
       /\ s2["adj_state"] = s["adj_state"] /\ s1["edge_index"] = s["edge_index"]
       /\ \A U \in {"existence", "etype", "eprop", "eidx"} : p[U] = s[U]
  BY <1>16, <1>17, <1>18, TableNames DEF DelOf, PutAllOf
<1>20. \A j, y : At(p["adj_edge"], j, y) <=> At(s["adj_edge"], j, y) /\ j \notin keys
  BY <1>16, <1>19 DEF DelOf
<1>21. \A j, y : At(p["edge_index"], j, y) <=> At(s["edge_index"], j, y) /\ j \notin plain
  BY <1>17, <1>19 DEF DelOf
<1>22. \A v2, d2, y : At(p["adj_state"], <<v2, d2>>, y) <=>
          IF d2 = d /\ v2 \in Ends(cached, d) THEN y = Low(v2) ELSE At(s["adj_state"], <<v2, d2>>, y)
  <2> SUFFICES ASSUME NEW v2, NEW d2, NEW y
      PROVE At(p["adj_state"], <<v2, d2>>, y) <=>
              IF d2 = d /\ v2 \in Ends(cached, d) THEN y = Low(v2) ELSE At(s["adj_state"], <<v2, d2>>, y)
    OBVIOUS
  <2> DEFINE r == [k |-> <<v2, d2>>, x |-> y]
  <2>1. r \in p["adj_state"] <=> r \in rows \/ (r \in s["adj_state"] /\ \A z \in rows : z.k # r.k)
    BY <1>18, <1>19 DEF PutAllOf
  <2>2. (\A z \in rows : z.k # r.k) <=> ~(d2 = d /\ v2 \in Ends(cached, d))
    BY <1>14
  <2>3. QED
    BY <1>13, <2>1, <2>2 DEF At
<1>23. \A j : <<"adj_edge", j>> \in p.wrote <=> <<"adj_edge", j>> \in s.wrote \/ (j \in keys /\ Has(s, "adj_edge", j))
  BY <1>16, <1>17, <1>18 DEF DelOf, PutAllOf
<1>24. \A j : <<"edge_index", j>> \in p.wrote <=> <<"edge_index", j>> \in s.wrote \/ (j \in plain /\ Has(s, "edge_index", j))
  <2>1. \A j : Has(s1, "edge_index", j) <=> Has(s, "edge_index", j)
    BY <1>19 DEF Has
  <2>2. QED
    BY <1>16, <1>17, <1>18, <2>1 DEF DelOf, PutAllOf
<1>25. \A v2, d2 : <<"adj_state", <<v2, d2>>>> \in p.wrote <=>
           <<"adj_state", <<v2, d2>>>> \in s.wrote \/ (d2 = d /\ v2 \in Ends(cached, d))
  <2> SUFFICES ASSUME NEW v2, NEW d2
      PROVE <<"adj_state", <<v2, d2>>>> \in p.wrote <=>
              <<"adj_state", <<v2, d2>>>> \in s.wrote \/ (d2 = d /\ v2 \in Ends(cached, d))
    OBVIOUS
  <2> DEFINE j == <<v2, d2>>
  <2>1. (\E r \in rows : r.k = j) <=> d2 = d /\ v2 \in Ends(cached, d)
    BY <1>14
  <2> HIDE DEF j
  <2>2. p.wrote = s2.wrote \cup {<<"adj_state", r.k>> : r \in rows}
    BY <1>18 DEF PutAllOf
  <2>3. <<"adj_state", j>> \in p.wrote <=> <<"adj_state", j>> \in s2.wrote \/ \E r \in rows : r.k = j
    BY <2>2
  <2>4. <<"adj_state", j>> \in s2.wrote <=> <<"adj_state", j>> \in s.wrote
    BY <1>16, <1>17 DEF DelOf
  <2>5. QED
    BY <2>1, <2>3, <2>4 DEF j
<1>26. s.wrote \subseteq p.wrote
  BY <1>16, <1>17, <1>18 DEF DelOf, PutAllOf
<1>27. \A v2 \in Vertices : v2 \in Ends(cached, d) => Comp(s, v2, d)
  BY <1>3, <1>5 DEF Ends
<1>28. ASSUME NEW v2, NEW d2
       PROVE  /\ Comp(p, v2, d2) <=> Comp(s, v2, d2)
              /\ Has(p, "adj_state", <<v2, d2>>) <=> Has(s, "adj_state", <<v2, d2>>)
  <2>1. CASE d2 = d /\ v2 \in Ends(cached, d)
    <3>1. PICK m \in Nat : Low(v2) = Complete(m)
      BY <1>11, <2>1
    <3>2. At(p["adj_state"], <<v2, d2>>, Complete(m))
      BY <1>22, <2>1, <3>1
    <3>3. v2 \in Vertices /\ Comp(s, v2, d)
      BY <1>3, <1>5, <2>1 DEF Ends
    <3>4. Has(s, "adj_state", <<v2, d2>>)
      BY <1>1, <2>1, <3>3, HasAt, TableNames DEF Comp
    <3>5. Has(p, "adj_state", <<v2, d2>>)
      BY <1>19, <3>2, HasAt, TableNames
    <3>6. QED
      BY <2>1, <3>2, <3>3, <3>4, <3>5 DEF Comp
  <2>2. CASE ~(d2 = d /\ v2 \in Ends(cached, d))
    <3>1. \A y : At(p["adj_state"], <<v2, d2>>, y) <=> At(s["adj_state"], <<v2, d2>>, y)
      BY <1>22, <2>2
    <3>2. QED
      BY <1>1, <1>19, <3>1, HasAt, TableNames DEF Comp
  <2>3. QED
    BY <2>1, <2>2
<1>37. \A v2 : Alive(p, v2) <=> Alive(s, v2)
  BY <1>19 DEF Alive
<1>29. Base(b, p)
  <2>1. Finite(p)
    BY <1>1, <1>16, <1>17, <1>19, FS_Subset DEF Finite, DelOf
  <2>2. cap = 0 => p["adj_state"] = {}
    <3> SUFFICES ASSUME cap = 0, NEW r \in p["adj_state"] PROVE FALSE
      OBVIOUS
    <3>1. s["adj_state"] = {}
      BY <1>1 DEF CapOK
    <3>2. r \in rows
      BY <1>18, <1>19, <3>1 DEF PutAllOf
    <3>3. cached = {}
      BY <1>4, <3>1 DEF At
    <3>4. QED
      BY <3>2, <3>3 DEF rows
  <2>3. QED
    BY <1>18, <1>19, <2>1, <2>2 DEF Base, CapOK
<1>30. AdjOnly(s, p)
  BY <1>16, <1>17, <1>18, <1>19 DEF AdjOnly, DelOf, PutAllOf
<1>31. ASSUME NEW d2 \in Directions, d2 # d PROVE SameSide(s, p, d2)
  <2>1. \A v2, n2, q2 : <<v2, d2, n2, q2>> \notin keys /\ <<v2, d2, n2, q2>> \notin plain
    BY <1>9, <1>31
  <2>2. QED
    BY <1>20, <1>21, <1>22, <1>23, <1>24, <1>25, <1>31, <1>37, <2>1 DEF SameSide
<1>32. ASSUME NEW v2 \in Vertices, NEW n2 \in Vertices, NEW q2 \in Nat, NEW y \in Nat
       PROVE  CellOK(p, E1, d, v2, n2, q2, y)
  <2> DEFINE j == <<v2, d, n2, q2>>
             k2 == EKey(d, v2, n2, q2)
  <2>1. CellOK(s, E, d, v2, n2, q2, y)
    BY DEF Side, Cells
  <2>2. At(E1, k2, y) <=> At(E, k2, y) /\ k2 \notin TKeys(es)
    BY DEF Removed
  <2>3. (j \in keys <=> Comp(s, v2, d) /\ k2 \in TKeys(es)) /\ (j \in plain <=> ~Comp(s, v2, d) /\ k2 \in TKeys(es))
    BY <1>7, <1>8
  <2>4. At(p["adj_edge"], j, y) <=> At(s["adj_edge"], j, y) /\ j \notin keys
    BY <1>20
  <2>5. At(p["edge_index"], j, y) <=> At(s["edge_index"], j, y) /\ j \notin plain
    BY <1>21
  <2>6. QED
    BY <1>28, <1>37, <2>1, <2>2, <2>3, <2>4, <2>5 DEF CellOK
<1>33. ASSUME NEW v2 \in Vertices, NEW n2 \in Vertices, NEW q2 \in Nat
       PROVE  RuleOK(p.wrote, p, W1, d, v2, n2, q2)
  <2> DEFINE j == <<v2, d, n2, q2>>
             k2 == EKey(d, v2, n2, q2)
  <2>1. RuleOK(s.wrote, s, W, d, v2, n2, q2)
    BY DEF Side, Rules
  <2>2. (j \in keys <=> Comp(s, v2, d) /\ k2 \in TKeys(es)) /\ (j \in plain <=> ~Comp(s, v2, d) /\ k2 \in TKeys(es))
    BY <1>7, <1>8
  <2>3. k2 \in W1 <=> k2 \in W \/ (k2 \in TKeys(es) /\ \E y \in Nat : At(E, k2, y))
    BY EKeyFacts DEF Removed
  <2>4. Comp(s, v2, d) /\ k2 \in TKeys(es) => v2 \in Ends(cached, d)
    <3>1. ASSUME Comp(s, v2, d), k2 \in TKeys(es) PROVE j \in keys
      BY <2>2, <3>1
    <3>2. ASSUME j \in keys PROVE v2 \in Ends(cached, d)
      <4>1. PICK e \in cached : j = KeyAt(e, d)
        BY <3>2 DEF keys
      <4>2. j[1] = v2 /\ j[1] = EndOf(e, d)
        BY <1>5, <4>1, KeyAtIs
      <4>3. QED
        BY <4>2 DEF Ends
    <3>3. QED
      BY <3>1, <3>2
  <2>5. ~Comp(s, v2, d) => /\ Has(s, "edge_index", j) => \E y \in Nat : At(E, k2, y)
                           /\ (\E y \in Nat : At(E, k2, y)) => Has(s, "edge_index", j) \/ ~Alive(s, v2)
    <3>1. \A y \in Nat : CellOK(s, E, d, v2, n2, q2, y)
      BY DEF Side, Cells
    <3>2. \A y : At(s["edge_index"], j, y) => y \in Nat
      BY <1>1, RowShape, TableNames DEF At, RowsOf
    <3>3. Has(s, "edge_index", j) <=> \E y : At(s["edge_index"], j, y)
      BY <1>1, HasAt, TableNames
    <3>4. QED
      BY <3>1, <3>2, <3>3 DEF CellOK
  <2>6. <<"adj_edge", j>> \in p.wrote <=> <<"adj_edge", j>> \in s.wrote \/ (j \in keys /\ Has(s, "adj_edge", j))
    BY <1>23
  <2>7. <<"edge_index", j>> \in p.wrote <=> <<"edge_index", j>> \in s.wrote \/ (j \in plain /\ Has(s, "edge_index", j))
    BY <1>24
  <2>8. <<"adj_state", <<v2, d>>>> \in p.wrote <=> <<"adj_state", <<v2, d>>>> \in s.wrote \/ v2 \in Ends(cached, d)
    BY <1>25
  <2> HIDE DEF j, k2
  <2>9. <<"adj_edge", j>> \in p.wrote => <<"adj_state", <<v2, d>>>> \in p.wrote
    BY <2>1, <2>2, <2>4, <2>6, <2>8 DEF RuleOK, j
  <2>10. ASSUME <<"adj_state", <<v2, d>>>> \notin p.wrote
         PROVE  /\ <<"edge_index", j>> \in p.wrote => k2 \in W1 /\ ~Comp(p, v2, d)
                /\ k2 \in W1 => <<"edge_index", j>> \in p.wrote \/ Lost(p, d, v2, n2, q2)
    <3>1. <<"adj_state", <<v2, d>>>> \notin s.wrote /\ v2 \notin Ends(cached, d)
      BY <2>8, <2>10
    <3>2. /\ <<"edge_index", j>> \in s.wrote => k2 \in W /\ ~Comp(s, v2, d)
          /\ k2 \in W => <<"edge_index", j>> \in s.wrote \/ Lost(s, d, v2, n2, q2)
      BY <2>1, <3>1 DEF RuleOK, j, k2
    <3>3. Comp(p, v2, d) <=> Comp(s, v2, d)
      BY <1>28
    <3>7. Lost(s, d, v2, n2, q2) => Lost(p, d, v2, n2, q2)
      BY <1>21, <1>37, <3>3 DEF Lost
    <3>8. ~Comp(s, v2, d) /\ ~Alive(s, v2) /\ ~Has(s, "edge_index", j) => Lost(p, d, v2, n2, q2)
      <4>1. ~Has(s, "edge_index", j) => \A y : ~At(s["edge_index"], j, y)
        BY <1>1, HasAt, TableNames
      <4>2. QED
        BY <1>21, <1>37, <3>3, <4>1 DEF Lost, j
    <3>4. CASE Comp(s, v2, d)
      <4>1. ~Lost(s, d, v2, n2, q2)
        BY <3>4 DEF Lost
      <4>2. QED
        BY <2>2, <2>3, <2>4, <2>7, <3>1, <3>2, <3>4, <4>1
    <3>5. CASE ~Comp(s, v2, d)
      BY <2>2, <2>3, <2>5, <2>7, <3>2, <3>3, <3>5, <3>7, <3>8
    <3>6. QED
      BY <3>4, <3>5
  <2>11. QED
    BY <2>9, <2>10 DEF RuleOK, j, k2
<1>34. ASSUME NEW v2 \in Vertices, <<v2, d>> \notin skew PROVE Exact(p, v2, d)
  <2>1. Exact(s, v2, d)
    BY <1>34 DEF Side
  <2>2. \A j : j \in KeysAt(p, v2, d) <=> j \in KeysAt(s, v2, d) /\ j \notin keys
    <3>1. \A j : Has(p, "adj_edge", j) <=> Has(s, "adj_edge", j) /\ j \notin keys
      BY <1>1, <1>19, <1>20, HasAt, TableNames
    <3>2. QED
      BY <1>1, <1>19, <3>1, KeysAtIs
  <2>3. CASE v2 \in Ends(cached, d)
    <3> DEFINE R == At1(v2)
               c == count(v2)
    <3>1. c \in Nat /\ At(s.adj_state, <<v2, d>>, Complete(c))
      BY <1>4, <2>3 DEF Ends
    <3>2. c = Cardinality(KeysAt(s, v2, d))
      BY <2>1, <3>1 DEF Exact
    <3>3. ASSUME NEW j \in R PROVE j \in KeysAt(s, v2, d)
      <4>1. PICK e \in cached : j = KeyAt(e, d)
        BY DEF keys
      <4>2. e \in es /\ EndOf(e, d) = v2 /\ j \in AdjKeys /\ j[2] = d
        BY <1>5, <4>1, KeyAtIs
      <4>3. Has(s, "adj_edge", j)
        BY <1>3, <1>34, <4>1, <4>2
      <4>4. j = <<v2, d, j[3], j[4]>> /\ j[3] \in Vertices /\ j[4] \in Nat
        BY <3>3, <4>2 DEF AdjKeys
      <4>5. QED
        BY <1>1, <4>3, <4>4, KeysAtIs
    <3>4. KeysAt(p, v2, d) = KeysAt(s, v2, d) \ R
      <4>1. \A j \in KeysAt(s, v2, d) : j[1] = v2
        BY <1>1, KeysAtIs
      <4>2. QED
        BY <2>2, <4>1
    <3>5. R \subseteq KeysAt(s, v2, d)
      BY <3>3
    <3>6. Cardinality(R) \in Nat /\ IsFiniteSet(R)
      BY <1>6
    <3> HIDE DEF R, c
    <3>7. Cardinality(R) <= c
      BY <1>1, <3>2, <3>5, KeysFinite, FS_Subset
    <3>8. KeysAt(s, v2, d) \cap R = R
      BY <3>5
    <3>9. Cardinality(KeysAt(p, v2, d)) = c - Cardinality(R)
      BY <1>1, <3>2, <3>4, <3>6, <3>8, KeysFinite, FS_Difference
    <3>10. Low(v2) = Complete(IF c > Cardinality(R) THEN c - Cardinality(R) ELSE 0)
      BY DEF Low, c, R
    <3>11. ASSUME NEW m \in Nat, At(p["adj_state"], <<v2, d>>, Complete(m)) PROVE m = c - Cardinality(R)
      <4>1. Complete(m) = Low(v2)
        BY <1>22, <2>3, <3>11
      <4>2. m = IF c > Cardinality(R) THEN c - Cardinality(R) ELSE 0
        BY <3>10, <4>1 DEF Complete
      <4>3. QED
        BY <3>1, <3>6, <3>7, <4>2
    <3>12. QED
      BY <3>9, <3>11 DEF Exact
  <2>4. CASE v2 \notin Ends(cached, d)
    <3>1. ASSUME NEW j \in KeysAt(s, v2, d), j \in keys PROVE FALSE
      <4>1. PICK e \in cached : j = KeyAt(e, d)
        BY <3>1 DEF keys
      <4>2. j[1] = EndOf(e, d)
        BY <1>5, <4>1, KeyAtIs
      <4>3. j[1] = v2
        BY <1>1, KeysAtIs
      <4>4. QED
        BY <2>4, <4>2, <4>3 DEF Ends
    <3>2. KeysAt(p, v2, d) = KeysAt(s, v2, d)
      BY <2>2, <3>1
    <3>3. \A m : At(p["adj_state"], <<v2, d>>, Complete(m)) <=> At(s["adj_state"], <<v2, d>>, Complete(m))
      BY <1>22, <2>4
    <3>4. QED
      BY <2>1, <3>2, <3>3 DEF Exact
  <2>5. QED
    BY <2>3, <2>4
<1>38. ASSUME NEW v2 \in Vertices, <<"adj_state", <<v2, d>>>> \in p.wrote PROVE Has(b, "adj_state", <<v2, d>>)
  <2>1. <<"adj_state", <<v2, d>>>> \in s.wrote \/ Comp(s, v2, d)
    BY <1>25, <1>27, <1>38
  <2>2. Comp(s, v2, d) => Has(s, "adj_state", <<v2, d>>)
    BY <1>1, HasAt, TableNames DEF Comp
  <2>3. QED
    BY <2>1, <2>2 DEF Side
<1>35. Side(b, p, E1, W1, d, skew)
  BY <1>28, <1>32, <1>33, <1>34, <1>38 DEF Side, Cells, Rules
<1>36. QED
  BY <1>2, <1>26, <1>28, <1>29, <1>30, <1>31, <1>35 DEF AdjStep

-----------------------------------------------------------------------------
(* Inserting and deleting edges and vertices *)

\* Both directions agree with the type table.
Struct(b, s, skew) == Base(b, s) /\ \A d \in Directions : Side(b, s, s.etype, WK(s.wrote), d, skew)

\* The same vertices, with the same adjacency.
SameAdj(s, p) ==
    \A T \in {"existence", "adj_state", "adj_edge", "edge_index"} :
        p[T] = s[T] /\ \A j : <<T, j>> \in p.wrote <=> <<T, j>> \in s.wrote

LEMMA SameAdjSides ==
    ASSUME NEW s, NEW p, SameAdj(s, p), NEW d
    PROVE  SameSide(s, p, d)
BY DEF SameAdj, SameSide, Alive

LEMMA SameAdjBase ==
    ASSUME NEW b, NEW s, NEW p, Base(b, s), SameAdj(s, p), IsStore(p), Frame(b, p)
    PROVE  Base(b, p)
BY DEF Base, SameAdj, CapOK, Finite

LEMMA StructSame ==
    ASSUME NEW b, NEW s, NEW p, NEW skew, Struct(b, s, skew), SameAdj(s, p), IsStore(p), Frame(b, p),
           p.etype = s.etype, \A j : <<"etype", j>> \in p.wrote <=> <<"etype", j>> \in s.wrote
    PROVE  Struct(b, p, skew)
<1>1. Base(b, p)
  BY SameAdjBase DEF Struct
<1>2. WK(p.wrote) = WK(s.wrote)
  BY DEF WK
<1>3. ASSUME NEW d \in Directions PROVE Side(b, p, p.etype, WK(p.wrote), d, skew)
  <2>1. SameSide(s, p, d)
    BY SameAdjSides
  <2>2. Side(b, s, s.etype, WK(s.wrote), d, skew) /\ IsStore(s)
    BY DEF Struct, Base
  <2>3. Side(b, p, s.etype, WK(s.wrote), d, skew)
    BY <2>1, <2>2, SideSame
  <2>4. QED
    BY <1>2, <2>3
<1>4. QED
  BY <1>1, <1>3 DEF Struct

\* What inserting an edge does.
InsertOf(s, p, e, src, dst, q) ==
    /\ Added(s.etype, p.etype, <<src, dst, q>>, e)
    /\ \A j : <<"etype", j>> \in p.wrote <=> <<"etype", j>> \in s.wrote \/ j = <<src, dst, q>>
    /\ \A j : Has(p, "eprop", j) <=> Has(s, "eprop", j) \/ j = e
    /\ \A j : <<"eprop", j>> \in p.wrote <=> <<"eprop", j>> \in s.wrote \/ j = e
    /\ \A T \in {"existence", "eidx"} : p[T] = s[T] /\ \A j : <<T, j>> \in p.wrote <=> <<T, j>> \in s.wrote
    /\ s.wrote \subseteq p.wrote
    /\ Comp(s, src, "OUT") => <<"adj_state", <<src, "OUT">>>> \in p.wrote
    /\ Comp(s, dst, "IN") => <<"adj_state", <<dst, "IN">>>> \in p.wrote

LEMMA InsertEdgeOp ==
    ASSUME cap \in Nat, NEW b, NEW s, NEW skew, Struct(b, s, skew),
           NEW src \in Vertices, NEW dst \in Vertices, NEW q \in Nat, NEW e \in Nat,
           (<<src, "OUT">> \in skew /\ <<dst, "IN">> \in skew) \/ ~Has(s, "etype", <<src, dst, q>>)
    PROVE  Struct(b, insertEdge(s, e, src, dst, q), skew) /\ InsertOf(s, insertEdge(s, e, src, dst, q), e, src, dst, q)
<1> DEFINE key == <<src, dst, q>>
           s1 == table_put(s, "etype", key, e)
           s2 == table_put(s1, "eprop", e, 0)
           s3 == insertAdjacencyEdge(s2, src, "OUT", dst, q, e)
           p == insertAdjacencyEdge(s3, dst, "IN", src, q, e)
           W == WK(s.wrote)
           E1 == s1.etype
<1>1. p = insertEdge(s, e, src, dst, q)
  BY DEF insertEdge
<1>2. Base(b, s) /\ IsStore(s) /\ Frame(b, s)
  BY DEF Struct, Base
<1>3. /\ [k |-> key, x |-> e] \in RowsOf("etype") /\ [k |-> e, x |-> 0] \in RowsOf("eprop")
      /\ key = EKey("OUT", src, dst, q) /\ key = EKey("IN", dst, src, q) /\ key \in EdgeKeys
  BY DEF RowsOf, EKey, EdgeKeys
<1> HIDE DEF key
<1>4. PutOf(s, s1, "etype", key, e) /\ Frame(b, s1)
  BY <1>2, <1>3, Put, FramePut, TableNames
<1> HIDE DEF s1
<1>5. PutOf(s1, s2, "eprop", e, 0) /\ Frame(b, s2)
  <2>1. IsStore(s1)
    BY <1>4 DEF PutOf
  <2>2. QED
    BY <1>3, <1>4, <2>1, Put, FramePut, TableNames
<1> HIDE DEF s2
<1>6. IsStore(s2) /\ SameAdj(s, s2)
  BY <1>4, <1>5, TableNames DEF PutOf, SameAdj
<1>7. Base(b, s2)
  BY <1>2, <1>5, <1>6, SameAdjBase
<1>8. \A d \in Directions : Side(b, s2, s.etype, W, d, skew)
  BY <1>2, <1>6, SameAdjSides, SideSame DEF Struct
<1>9. Added(s.etype, E1, key, e)
  BY <1>4 DEF PutOf, Added
<1>10. \A val \in Nat : ~Has(s, "etype", key) => ~At(s.etype, key, val)
  BY <1>2, HasAt, TableNames
<1>11. s2.etype = E1
  BY <1>5, TableNames DEF PutOf
<1> HIDE DEF W, E1
<1>12. /\ AdjStep(b, s2, s3, E1, W \cup {key}, "OUT", skew)
       /\ Comp(s2, src, "OUT") => <<"adj_state", <<src, "OUT">>>> \in s3.wrote
  <2>1. Side(b, s2, s.etype, W, "OUT", skew)
    BY <1>8, TableNames
  <2>2. <<src, "OUT">> \in skew \/ \A val \in Nat : ~At(s.etype, EKey("OUT", src, dst, q), val)
    BY <1>3, <1>10 DEF key
  <2>3. Added(s.etype, E1, EKey("OUT", src, dst, q), e)
    BY <1>3, <1>9
  <2>4. /\ AdjStep(b, s2, s3, E1, W \cup {EKey("OUT", src, dst, q)}, "OUT", skew)
        /\ Comp(s2, src, "OUT") => <<"adj_state", <<src, "OUT">>>> \in s3.wrote
    BY <1>7, <2>1, <2>2, <2>3, InsertAdjacency, TableNames
  <2>5. QED
    BY <1>3, <2>4
<1> HIDE DEF s3
<1>13. Base(b, s3) /\ SameSide(s2, s3, "IN") /\ AdjOnly(s2, s3) /\ Side(b, s3, E1, W \cup {key}, "OUT", skew)
         /\ s2.wrote \subseteq s3.wrote /\ IsStore(s3)
  BY <1>12, TableNames DEF AdjStep, Base
<1>14. /\ AdjStep(b, s3, p, E1, W \cup {key}, "IN", skew)
       /\ Comp(s3, dst, "IN") => <<"adj_state", <<dst, "IN">>>> \in p.wrote
  <2>1. Side(b, s3, s.etype, W, "IN", skew)
    BY <1>6, <1>8, <1>13, SideSame, TableNames
  <2>2. <<dst, "IN">> \in skew \/ \A val \in Nat : ~At(s.etype, EKey("IN", dst, src, q), val)
    BY <1>3, <1>10 DEF key
  <2>3. Added(s.etype, E1, EKey("IN", dst, src, q), e)
    BY <1>3, <1>9
  <2>4. /\ AdjStep(b, s3, p, E1, W \cup {EKey("IN", dst, src, q)}, "IN", skew)
        /\ Comp(s3, dst, "IN") => <<"adj_state", <<dst, "IN">>>> \in p.wrote
    BY <1>13, <2>1, <2>2, <2>3, InsertAdjacency, TableNames
  <2>5. QED
    BY <1>3, <2>4
<1> HIDE DEF p
<1>15. Base(b, p) /\ IsStore(p) /\ AdjOnly(s3, p) /\ SameSide(s3, p, "OUT") /\ s3.wrote \subseteq p.wrote
  BY <1>14, TableNames DEF AdjStep, Base
<1>16. Side(b, p, E1, W \cup {key}, "OUT", skew)
  BY <1>13, <1>15, SideSame, TableNames
<1>17. Side(b, p, E1, W \cup {key}, "IN", skew)
  BY <1>14 DEF AdjStep
<1>18. p.etype = E1 /\ \A j : <<"etype", j>> \in p.wrote <=> <<"etype", j>> \in s.wrote \/ j = key
  BY <1>4, <1>5, <1>11, <1>13, <1>15 DEF AdjOnly, PutOf
<1>19. WK(p.wrote) = W \cup {key}
  BY <1>3, <1>18 DEF WK, W
<1>20. Struct(b, p, skew)
  BY <1>15, <1>16, <1>17, <1>18, <1>19 DEF Struct, Directions
<1>21. \A j : /\ Has(p, "eprop", j) <=> Has(s, "eprop", j) \/ j = e
              /\ <<"eprop", j>> \in p.wrote <=> <<"eprop", j>> \in s.wrote \/ j = e
  <2>1. p["eprop"] = s2["eprop"] /\ s1["eprop"] = s["eprop"]
    BY <1>4, <1>13, <1>15, TableNames DEF AdjOnly, PutOf
  <2>2. \A j : Has(p, "eprop", j) <=> Has(s2, "eprop", j)
    BY <2>1 DEF Has
  <2>3. \A j : Has(s1, "eprop", j) <=> Has(s, "eprop", j)
    BY <2>1 DEF Has
  <2>4. QED
    BY <1>4, <1>5, <1>13, <1>15, <2>2, <2>3 DEF AdjOnly, PutOf
<1>22. \A T \in {"existence", "eidx"} : p[T] = s[T] /\ \A j : <<T, j>> \in p.wrote <=> <<T, j>> \in s.wrote
  BY <1>4, <1>5, <1>13, <1>15, TableNames DEF AdjOnly, PutOf
<1>23. s.wrote \subseteq p.wrote
  BY <1>4, <1>5, <1>13, <1>15 DEF PutOf
<1>24. Comp(s, src, "OUT") => <<"adj_state", <<src, "OUT">>>> \in p.wrote
  BY <1>6, <1>12, <1>15 DEF Comp, SameAdj
<1>25. Comp(s, dst, "IN") => <<"adj_state", <<dst, "IN">>>> \in p.wrote
  BY <1>6, <1>13, <1>14 DEF Comp, SameAdj, SameSide
<1>26. InsertOf(s, p, e, src, dst, q)
  BY <1>9, <1>18, <1>21, <1>22, <1>23, <1>24, <1>25 DEF InsertOf, key
<1>27. QED
  BY <1>1, <1>20, <1>26

LEMMA SideRows ==
    ASSUME NEW b, NEW s, NEW d \in Directions, NEW skew, NEW E, NEW W, Side(b, s, E, W, d, skew),
           NEW E1, NEW W1, \A j, y : At(E1, j, y) <=> At(E, j, y), \A j \in EdgeKeys : j \in W1 <=> j \in W
    PROVE  Side(b, s, E1, W1, d, skew)
<1>1. Cells(s, E1, d)
  BY DEF Side, Cells, CellOK
<1>2. Rules(s.wrote, s, W1, d)
  <2> SUFFICES ASSUME NEW v \in Vertices, NEW n \in Vertices, NEW q \in Nat
               PROVE  RuleOK(s.wrote, s, W1, d, v, n, q)
    BY DEF Rules
  <2>1. RuleOK(s.wrote, s, W, d, v, n, q)
    BY DEF Side, Rules
  <2>2. EKey(d, v, n, q) \in W1 <=> EKey(d, v, n, q) \in W
    BY EKeyFacts
  <2>3. QED
    BY <2>1, <2>2 DEF RuleOK
<1>3. QED
  BY <1>1, <1>2 DEF Side

\* What deleting edges does.
DeleteOf(s, p, es) ==
    /\ \A j, y : At(p.etype, j, y) <=> At(s.etype, j, y) /\ j \notin TKeys(es)
    /\ \A j : <<"etype", j>> \in p.wrote <=> <<"etype", j>> \in s.wrote \/ (j \in TKeys(es) /\ Has(s, "etype", j))
    /\ \A j : Has(p, "eprop", j) <=> Has(s, "eprop", j) /\ j \notin {e.e : e \in es}
    /\ \A j : <<"eprop", j>> \in p.wrote <=> <<"eprop", j>> \in s.wrote \/ (j \in {e.e : e \in es} /\ Has(s, "eprop", j))
    /\ \A T \in {"existence", "eidx"} : p[T] = s[T] /\ \A j : <<T, j>> \in p.wrote <=> <<T, j>> \in s.wrote
    /\ s.wrote \subseteq p.wrote
    /\ \A d \in Directions, v \in Vertices : Comp(p, v, d) <=> Comp(s, v, d)

\* The counters that may go wrong are in skew.
Counted(s, es, skew) ==
    \A d \in Directions, e \in es : Comp(s, EndOf(e, d), d) =>
        <<EndOf(e, d), d>> \in skew \/ Has(s, "adj_edge", KeyAt(e, d))

LEMMA DeleteEdgeOp ==
    ASSUME cap \in Nat, NEW b, NEW s, NEW skew, Struct(b, s, skew),
           NEW es, es \subseteq Edges, IsFiniteSet(es), Counted(s, es, skew)
    PROVE  Struct(b, deleteEdge(s, es), skew) /\ DeleteOf(s, deleteEdge(s, es), es)
<1> DEFINE K == TKeys(es)
           ids == {e.e : e \in es}
           s1 == deleteAdjacencyEdge(s, "OUT", es)
           s2 == deleteAdjacencyEdge(s1, "IN", es)
           s3 == table_del_all(s2, "etype", K)
           p == table_del_all(s3, "eprop", ids)
           W == WK(s.wrote)
           E1 == {r \in s.etype : r.k \notin K}
           W1 == W \cup {j \in EdgeKeys : j \in K /\ Has(s, "etype", j)}
<1>1. p = deleteEdge(s, es)
  BY DEF deleteEdge, TKeys
<1>2. Base(b, s) /\ IsStore(s) /\ Frame(b, s)
  BY DEF Struct, Base
<1>3. Removed(s.etype, E1, W, W1, K)
  <2>1. \A j, y : At(E1, j, y) <=> At(s.etype, j, y) /\ j \notin K
    BY DEF At
  <2>2. \A j : Has(s, "etype", j) <=> \E y \in Nat : At(s.etype, j, y)
    <3>1. \A j, y : At(s["etype"], j, y) => y \in Nat
      BY <1>2, RowShape, TableNames DEF At, RowsOf
    <3>2. \A j : Has(s, "etype", j) <=> \E y : At(s["etype"], j, y)
      BY <1>2, HasAt, TableNames
    <3>3. QED
      BY <3>1, <3>2
  <2> HIDE DEF E1
  <2>3. QED
    BY <2>1, <2>2 DEF Removed
<1> HIDE DEF W, E1, W1, K, ids
<1>4. /\ AdjStep(b, s, s1, E1, W1, "OUT", skew)
      /\ \A v \in Vertices : Comp(s1, v, "OUT") <=> Comp(s, v, "OUT")
  <2>1. Side(b, s, s.etype, W, "OUT", skew)
    BY TableNames DEF Struct, W
  <2>2. \A e \in es : Comp(s, EndOf(e, "OUT"), "OUT") =>
              <<EndOf(e, "OUT"), "OUT">> \in skew \/ Has(s, "adj_edge", KeyAt(e, "OUT"))
    BY TableNames DEF Counted
  <2>3. Removed(s.etype, E1, W, W1, TKeys(es))
    BY <1>3 DEF K
  <2>4. QED
    BY <1>2, <2>1, <2>2, <2>3, DeleteAdjacency, TableNames
<1> HIDE DEF s1
<1>5. Base(b, s1) /\ SameSide(s, s1, "IN") /\ AdjOnly(s, s1) /\ Side(b, s1, E1, W1, "OUT", skew)
         /\ s.wrote \subseteq s1.wrote /\ IsStore(s1)
  BY <1>4, TableNames DEF AdjStep, Base
<1>6. \A v \in Vertices : Comp(s1, v, "IN") <=> Comp(s, v, "IN")
  BY <1>5 DEF Comp, SameSide
<1>7. /\ AdjStep(b, s1, s2, E1, W1, "IN", skew)
      /\ \A v \in Vertices : Comp(s2, v, "IN") <=> Comp(s1, v, "IN")
  <2>1. Side(b, s1, s.etype, W, "IN", skew)
    BY <1>2, <1>5, SideSame, TableNames DEF Struct, W
  <2>2. ASSUME NEW e \in es, Comp(s1, EndOf(e, "IN"), "IN")
        PROVE  <<EndOf(e, "IN"), "IN">> \in skew \/ Has(s1, "adj_edge", KeyAt(e, "IN"))
    <3>1. EndOf(e, "IN") = e.t /\ KeyAt(e, "IN") = <<e.t, "IN", e.s, e.q>>
             /\ e.t \in Vertices /\ e.s \in Vertices /\ e.q \in Nat
      BY DEF EndOf, KeyAt, Edges
    <3>2. Comp(s, EndOf(e, "IN"), "IN")
      BY <1>6, <2>2, <3>1
    <3>3. <<EndOf(e, "IN"), "IN">> \in skew \/ Has(s, "adj_edge", KeyAt(e, "IN"))
      BY <3>2, TableNames DEF Counted
    <3>4. \A y : At(s["adj_edge"], KeyAt(e, "IN"), y) <=> At(s1["adj_edge"], KeyAt(e, "IN"), y)
      BY <1>5, <3>1 DEF SameSide
    <3>5. Has(s, "adj_edge", KeyAt(e, "IN")) <=> Has(s1, "adj_edge", KeyAt(e, "IN"))
      BY <1>2, <1>5, <3>4, HasAt, TableNames
    <3>6. QED
      BY <3>3, <3>5
  <2>3. Removed(s.etype, E1, W, W1, TKeys(es))
    BY <1>3 DEF K
  <2>4. QED
    BY <1>5, <2>1, <2>2, <2>3, DeleteAdjacency, TableNames
<1> HIDE DEF s2
<1>8. Base(b, s2) /\ SameSide(s1, s2, "OUT") /\ AdjOnly(s1, s2) /\ Side(b, s2, E1, W1, "IN", skew)
         /\ s1.wrote \subseteq s2.wrote /\ IsStore(s2) /\ Frame(b, s2)
  BY <1>7, TableNames DEF AdjStep, Base
<1>9. Side(b, s2, E1, W1, "OUT", skew)
  BY <1>5, <1>8, SideSame, TableNames
<1>10. \A d \in Directions, v \in Vertices : Comp(s2, v, d) <=> Comp(s, v, d)
  <2>1. \A v \in Vertices : Comp(s2, v, "OUT") <=> Comp(s1, v, "OUT")
    BY <1>8 DEF Comp, SameSide
  <2>2. QED
    BY <1>4, <1>6, <1>7, <2>1 DEF Directions
<1>11. DelOf(s2, s3, "etype", K) /\ Frame(b, s3)
  BY <1>8, DelAll, FrameDel, TableNames
<1> HIDE DEF s3
<1>12. DelOf(s3, p, "eprop", ids) /\ Frame(b, p)
  <2>1. IsStore(s3)
    BY <1>11 DEF DelOf
  <2>2. QED
    BY <1>11, <2>1, DelAll, FrameDel, TableNames
<1> HIDE DEF p
<1>13. IsStore(p) /\ SameAdj(s2, p)
  BY <1>11, <1>12, TableNames DEF DelOf, SameAdj
<1>14. AdjOnly(s, s2)
  BY <1>5, <1>8, AdjOnlyTwice
<1>15. \A j, y : At(p.etype, j, y) <=> At(s.etype, j, y) /\ j \notin K
  <2>1. p["etype"] = s3["etype"] /\ s2["etype"] = s["etype"]
    BY <1>12, <1>14, TableNames DEF DelOf, AdjOnly
  <2>2. QED
    BY <1>11, <2>1 DEF DelOf
<1>16. \A j : <<"etype", j>> \in p.wrote <=> <<"etype", j>> \in s.wrote \/ (j \in K /\ Has(s, "etype", j))
  <2>1. \A j : Has(s2, "etype", j) <=> Has(s, "etype", j)
    BY <1>14 DEF AdjOnly, Has
  <2>2. \A j : <<"etype", j>> \in s2.wrote <=> <<"etype", j>> \in s.wrote
    BY <1>14 DEF AdjOnly
  <2>3. \A j : <<"etype", j>> \in s3.wrote <=> <<"etype", j>> \in s2.wrote \/ (j \in K /\ Has(s2, "etype", j))
    BY <1>11 DEF DelOf
  <2>4. \A j : <<"etype", j>> \in p.wrote <=> <<"etype", j>> \in s3.wrote
    BY <1>12 DEF DelOf
  <2>5. QED
    BY <2>1, <2>2, <2>3, <2>4
<1>17. \A j : /\ Has(p, "eprop", j) <=> Has(s, "eprop", j) /\ j \notin ids
              /\ <<"eprop", j>> \in p.wrote <=> <<"eprop", j>> \in s.wrote \/ (j \in ids /\ Has(s, "eprop", j))
  <2>1. s3["eprop"] = s["eprop"]
    BY <1>11, <1>14, TableNames DEF DelOf, AdjOnly
  <2>2. \A j : Has(s3, "eprop", j) <=> Has(s, "eprop", j)
    BY <2>1 DEF Has
  <2>3. QED
    BY <1>11, <1>12, <1>14, <2>2 DEF DelOf, AdjOnly
<1>18. \A T \in {"existence", "eidx"} : p[T] = s[T] /\ \A j : <<T, j>> \in p.wrote <=> <<T, j>> \in s.wrote
  BY <1>11, <1>12, <1>14, TableNames DEF DelOf, AdjOnly
<1>19. s.wrote \subseteq p.wrote
  BY <1>5, <1>8, <1>11, <1>12 DEF DelOf
<1>20. \A d \in Directions, v \in Vertices : Comp(p, v, d) <=> Comp(s, v, d)
  BY <1>10, <1>13 DEF Comp, SameAdj
<1>21. DeleteOf(s, p, es)
  BY <1>15, <1>16, <1>17, <1>18, <1>19, <1>20 DEF DeleteOf, K, ids
<1>22. Base(b, p)
  BY <1>8, <1>12, <1>13, SameAdjBase
<1>23. ASSUME NEW d \in Directions PROVE Side(b, p, p.etype, WK(p.wrote), d, skew)
  <2>1. Side(b, s2, E1, W1, d, skew)
    BY <1>8, <1>9 DEF Directions
  <2>2. Side(b, p, E1, W1, d, skew)
    BY <1>8, <1>13, <2>1, SameAdjSides, SideSame
  <2>3. \A j, y : At(p.etype, j, y) <=> At(E1, j, y)
    BY <1>3, <1>15 DEF Removed
  <2>4. \A j \in EdgeKeys : j \in WK(p.wrote) <=> j \in W1
    BY <1>16 DEF WK, W1, W
  <2>5. QED
    BY <2>2, <2>3, <2>4, SideRows
<1>24. QED
  BY <1>1, <1>21, <1>22, <1>23 DEF Struct

\* What deleting vertices does.
VertexGone(s, p, vs) ==
    /\ \A T \in {"etype", "eprop", "eidx"} : p[T] = s[T] /\ \A j : <<T, j>> \in p.wrote <=> <<T, j>> \in s.wrote
    /\ \A u : Has(p, "existence", u) <=> Has(s, "existence", u) /\ u \notin vs
    /\ \A u : <<"existence", u>> \in p.wrote <=> <<"existence", u>> \in s.wrote \/ (u \in vs /\ Has(s, "existence", u))
    /\ \A v \in vs, d \in Directions : Has(s, "adj_state", <<v, d>>) => <<"adj_state", <<v, d>>>> \in p.wrote
    /\ \A v \in vs, d \in Directions : ~Has(p, "adj_state", <<v, d>>)
    /\ \A u \in Vertices, d \in Directions : Comp(p, u, d) => Comp(s, u, d)
    /\ s.wrote \subseteq p.wrote

LEMMA DeleteVertexOp ==
    ASSUME cap \in Nat, NEW b, NEW s, NEW skew, Struct(b, s, skew), NEW vs \in SUBSET Vertices
    PROVE  Struct(b, deleteVertex(s, vs), skew) /\ VertexGone(s, deleteVertex(s, vs), vs)
<1> DEFINE ks == UNION {Scanned(s, "adj_state", 1, v) : v \in vs}
           ke == UNION {Scanned(s, "adj_edge", 1, v) : v \in vs}
           s1 == table_del_all(s, "adj_state", ks)
           s2 == table_del_all(s1, "adj_edge", ke)
           p == table_del_all(s2, "existence", vs)
<1>1. p = deleteVertex(s, vs)
  BY DEF deleteVertex
<1>2. Base(b, s) /\ IsStore(s) /\ Frame(b, s) /\ Finite(s) /\ CapOK(cap, s)
  BY DEF Struct, Base
<1>3. \A u, d : Has(s, "adj_state", <<u, d>>) => (<<u, d>> \in ks <=> u \in vs)
  BY DEF Scanned, Has
<1>4. \A u, d, n, q : Has(s, "adj_edge", <<u, d, n, q>>) => (<<u, d, n, q>> \in ke <=> u \in vs)
  BY DEF Scanned, Has
<1> HIDE DEF ks, ke
<1>7. DelOf(s, s1, "adj_state", ks) /\ Frame(b, s1)
  BY <1>2, DelAll, FrameDel, TableNames
<1> HIDE DEF s1
<1>8. DelOf(s1, s2, "adj_edge", ke) /\ Frame(b, s2)
  <2>1. IsStore(s1)
    BY <1>7 DEF DelOf
  <2>2. QED
    BY <1>7, <2>1, DelAll, FrameDel, TableNames
<1> HIDE DEF s2
<1>9. DelOf(s2, p, "existence", vs) /\ Frame(b, p)
  <2>1. IsStore(s2)
    BY <1>8 DEF DelOf
  <2>2. QED
    BY <1>8, <2>1, DelAll, FrameDel, TableNames
<1> HIDE DEF p
<1>10. /\ IsStore(p) /\ p["adj_state"] = s1["adj_state"] /\ p["adj_edge"] = s2["adj_edge"]
       /\ s1["adj_edge"] = s["adj_edge"] /\ p["edge_index"] = s["edge_index"]
       /\ p["etype"] = s["etype"] /\ p["eprop"] = s["eprop"] /\ p["eidx"] = s["eidx"]
       /\ s2["existence"] = s["existence"]
  BY <1>7, <1>8, <1>9, TableNames DEF DelOf
<1>11. \A u, d, y : At(p["adj_state"], <<u, d>>, y) <=> At(s["adj_state"], <<u, d>>, y) /\ u \notin vs
  <2>1. \A u, d, y : At(s["adj_state"], <<u, d>>, y) => Has(s, "adj_state", <<u, d>>)
    BY <1>2, HasAt, TableNames
  <2>2. \A j, y : At(p["adj_state"], j, y) <=> At(s["adj_state"], j, y) /\ j \notin ks
    BY <1>7, <1>10 DEF DelOf
  <2>3. QED
    BY <1>3, <2>1, <2>2
<1>14. \A u, d, n, q, y : At(p["adj_edge"], <<u, d, n, q>>, y) <=> At(s["adj_edge"], <<u, d, n, q>>, y) /\ u \notin vs
  <2>1. \A u, d, n, q, y : At(s["adj_edge"], <<u, d, n, q>>, y) => Has(s, "adj_edge", <<u, d, n, q>>)
    BY <1>2, HasAt, TableNames
  <2>2. \A j, y : At(p["adj_edge"], j, y) <=> At(s["adj_edge"], j, y) /\ j \notin ke
    BY <1>8, <1>10 DEF DelOf
  <2>3. QED
    BY <1>4, <2>1, <2>2
<1>15. \A u, d : <<"adj_state", <<u, d>>>> \in p.wrote <=>
          <<"adj_state", <<u, d>>>> \in s.wrote \/ (u \in vs /\ Has(s, "adj_state", <<u, d>>))
  <2>1. \A j : <<"adj_state", j>> \in s1.wrote <=> <<"adj_state", j>> \in s.wrote \/ (j \in ks /\ Has(s, "adj_state", j))
    BY <1>7 DEF DelOf
  <2>2. \A j : <<"adj_state", j>> \in p.wrote <=> <<"adj_state", j>> \in s1.wrote
    BY <1>8, <1>9 DEF DelOf
  <2>3. QED
    BY <1>3, <2>1, <2>2
<1>16. \A u, d, n, q : <<"adj_edge", <<u, d, n, q>>>> \in p.wrote <=>
          <<"adj_edge", <<u, d, n, q>>>> \in s.wrote \/ (u \in vs /\ Has(s, "adj_edge", <<u, d, n, q>>))
  <2>1. \A j : <<"adj_edge", j>> \in s1.wrote <=> <<"adj_edge", j>> \in s.wrote
    BY <1>7 DEF DelOf
  <2>2. \A j : <<"adj_edge", j>> \in s2.wrote <=> <<"adj_edge", j>> \in s1.wrote \/ (j \in ke /\ Has(s1, "adj_edge", j))
    BY <1>8 DEF DelOf
  <2>3. \A j : <<"adj_edge", j>> \in p.wrote <=> <<"adj_edge", j>> \in s2.wrote
    BY <1>9 DEF DelOf
  <2>4. \A j : Has(s1, "adj_edge", j) <=> Has(s, "adj_edge", j)
    BY <1>10 DEF Has
  <2>5. QED
    BY <1>4, <2>1, <2>2, <2>3, <2>4
<1>17. \A T \in {"edge_index", "etype", "eprop", "eidx"} : \A j : <<T, j>> \in p.wrote <=> <<T, j>> \in s.wrote
  BY <1>7, <1>8, <1>9 DEF DelOf
<1>18. \A u \in Vertices, d \in Directions :
          /\ Comp(p, u, d) <=> Comp(s, u, d) /\ u \notin vs
          /\ Has(p, "adj_state", <<u, d>>) <=> Has(s, "adj_state", <<u, d>>) /\ u \notin vs
  <2>1. \A j : Has(p, "adj_state", j) <=> \E y : At(p["adj_state"], j, y)
    BY <1>10, HasAt, TableNames
  <2>2. \A j : Has(s, "adj_state", j) <=> \E y : At(s["adj_state"], j, y)
    BY <1>2, HasAt, TableNames
  <2>3. QED
    BY <1>11, <2>1, <2>2 DEF Comp
<1>24. \A u : Alive(p, u) <=> Alive(s, u) /\ u \notin vs
  BY <1>9, <1>10 DEF DelOf, Alive
<1>19. Base(b, p)
  <2>1. p["adj_edge"] \subseteq s["adj_edge"] /\ p["adj_state"] \subseteq s["adj_state"]
    BY <1>7, <1>8, <1>10 DEF DelOf
  <2>2. Finite(p)
    BY <1>2, <1>10, <2>1, FS_Subset DEF Finite
  <2>3. CapOK(cap, p)
    BY <1>2, <2>1 DEF CapOK
  <2>4. QED
    BY <1>9, <1>10, <2>2, <2>3 DEF Base
<1>20. ASSUME NEW d \in Directions PROVE Side(b, p, p.etype, WK(p.wrote), d, skew)
  <2>0. Side(b, s, s.etype, WK(s.wrote), d, skew)
    BY DEF Struct
  <2>1. WK(p.wrote) = WK(s.wrote)
    BY <1>17 DEF WK
  <2>2. ASSUME NEW u \in Vertices, NEW n \in Vertices, NEW q \in Nat, NEW y \in Nat
        PROVE  CellOK(p, p.etype, d, u, n, q, y)
    <3>1. CellOK(s, s.etype, d, u, n, q, y)
      BY <2>0 DEF Side, Cells
    <3>2. QED
      BY <1>10, <1>14, <1>18, <1>24, <3>1 DEF CellOK
  <2>3. ASSUME NEW u \in Vertices, NEW n \in Vertices, NEW q \in Nat
        PROVE  RuleOK(p.wrote, p, WK(p.wrote), d, u, n, q)
    <3>1. RuleOK(s.wrote, s, WK(s.wrote), d, u, n, q)
      BY <2>0 DEF Side, Rules
    <3>2. /\ <<"adj_edge", <<u, d, n, q>>>> \in p.wrote =>
               <<"adj_edge", <<u, d, n, q>>>> \in s.wrote \/ (u \in vs /\ Has(s, "adj_edge", <<u, d, n, q>>))
          /\ <<"edge_index", <<u, d, n, q>>>> \in p.wrote <=> <<"edge_index", <<u, d, n, q>>>> \in s.wrote
          /\ <<"adj_state", <<u, d>>>> \in p.wrote <=>
               <<"adj_state", <<u, d>>>> \in s.wrote \/ (u \in vs /\ Has(s, "adj_state", <<u, d>>))
      BY <1>15, <1>16, <1>17
    <3>3. Comp(p, u, d) => Comp(s, u, d)
      BY <1>18
    <3>4. Has(s, "adj_edge", <<u, d, n, q>>) => Has(s, "adj_state", <<u, d>>)
      <4>1. \A y : At(s["adj_edge"], <<u, d, n, q>>, y) => y \in Nat
        BY <1>2, RowShape, TableNames DEF At, RowsOf
      <4>2. \A y \in Nat : At(s["adj_edge"], <<u, d, n, q>>, y) => Comp(s, u, d)
        BY <2>0 DEF Side, Cells, CellOK
      <4>3. Comp(s, u, d) => Has(s, "adj_state", <<u, d>>)
        BY <1>2, HasAt, TableNames DEF Comp
      <4>4. QED
        BY <1>2, <4>1, <4>2, <4>3, HasAt, TableNames
    <3>5. Lost(s, d, u, n, q) => Lost(p, d, u, n, q)
      BY <1>10, <1>24, <3>3 DEF Lost
    <3>6. QED
      BY <2>1, <3>1, <3>2, <3>3, <3>4, <3>5 DEF RuleOK
  <2>4. ASSUME NEW u \in Vertices, <<u, d>> \notin skew PROVE Exact(p, u, d)
    <3>1. Exact(s, u, d)
      BY <2>0, <2>4 DEF Side
    <3>2. CASE u \in vs
      BY <1>11, <3>2 DEF Exact
    <3>3. CASE u \notin vs
      <4>1. \A n \in Vertices, q \in Nat : Has(p, "adj_edge", <<u, d, n, q>>) <=> Has(s, "adj_edge", <<u, d, n, q>>)
        BY <1>2, <1>10, <1>14, <3>3, HasAt, TableNames
      <4>2. \A key : key \in KeysAt(p, u, d) <=> key \in KeysAt(s, u, d)
        BY <1>2, <1>10, <4>1, KeysAtIs
      <4>3. KeysAt(p, u, d) = KeysAt(s, u, d)
        BY <4>2
      <4>4. QED
        BY <1>11, <3>1, <3>3, <4>3 DEF Exact
    <3>4. QED
      BY <3>2, <3>3
  <2>5. /\ \A u \in Vertices : Comp(p, u, d) => Comp(b, u, d)
        /\ \A u \in Vertices : Has(p, "adj_state", <<u, d>>) => Has(b, "adj_state", <<u, d>>)
        /\ \A u \in Vertices : <<"adj_state", <<u, d>>>> \in p.wrote => Has(b, "adj_state", <<u, d>>)
    BY <1>15, <1>18, <2>0 DEF Side
  <2>6. QED
    BY <2>2, <2>3, <2>4, <2>5 DEF Side, Cells, Rules
<1>21. Struct(b, p, skew)
  BY <1>19, <1>20 DEF Struct
<1>22. VertexGone(s, p, vs)
  <2>1. \A u : Has(p, "existence", u) <=> Has(s, "existence", u) /\ u \notin vs
    <3>1. \A u : Has(s2, "existence", u) <=> Has(s, "existence", u)
      BY <1>10 DEF Has
    <3>2. QED
      BY <1>9, <3>1 DEF DelOf
  <2>2. \A u : <<"existence", u>> \in p.wrote <=> <<"existence", u>> \in s.wrote \/ (u \in vs /\ Has(s, "existence", u))
    <3>1. \A u : Has(s2, "existence", u) <=> Has(s, "existence", u)
      BY <1>10 DEF Has
    <3>2. \A u : <<"existence", u>> \in s2.wrote <=> <<"existence", u>> \in s.wrote
      BY <1>7, <1>8 DEF DelOf
    <3>3. \A u : <<"existence", u>> \in p.wrote <=> <<"existence", u>> \in s2.wrote \/ (u \in vs /\ Has(s2, "existence", u))
      BY <1>9 DEF DelOf
    <3>4. QED
      BY <3>1, <3>2, <3>3
  <2>3. s.wrote \subseteq p.wrote
    BY <1>7, <1>8, <1>9 DEF DelOf
  <2>4. QED
    BY <1>10, <1>15, <1>17, <1>18, <2>1, <2>2, <2>3 DEF VertexGone
<1>23. QED
  BY <1>1, <1>21, <1>22

-----------------------------------------------------------------------------
(* From the view of a statement to the store after its commit *)

LEMMA CommitShape ==
    ASSUME NEW b, IsStore(b), NEW s, IsStore(s)
    PROVE  /\ IsStore(CommitInto(b, s)) /\ CommitInto(b, s).wrote = {}
           /\ \A T \in Tables : \A key, val : At(CommitInto(b, s)[T], key, val) <=>
                 IF <<T, key>> \in s.wrote THEN At(s[T], key, val) ELSE At(b[T], key, val)
<1> DEFINE c == CommitInto(b, s)
<1>1. DOMAIN b = Tables \cup {"wrote"} /\ "wrote" \notin Tables
  BY DEF IsStore, Tables
<1>2. DOMAIN c = Tables \cup {"wrote"} /\ c.wrote = {}
  BY <1>1 DEF CommitInto
<1>3. \A T \in Tables : c[T] = {r \in b[T] : <<T, r.k>> \notin s.wrote} \cup {r \in s[T] : <<T, r.k>> \in s.wrote}
  BY <1>1 DEF CommitInto
<1> HIDE DEF c
<1>4. \A T \in Tables : c[T] \subseteq RowsOf(T)
  BY <1>3 DEF IsStore
<1>5. ASSUME NEW T \in Tables, NEW r \in c[T], NEW q \in c[T], r.k = q.k PROVE r = q
  <2>1. CASE <<T, r.k>> \in s.wrote
    BY <1>3, <1>5, <2>1 DEF IsStore
  <2>2. CASE <<T, r.k>> \notin s.wrote
    BY <1>3, <1>5, <2>2 DEF IsStore
  <2>3. QED
    BY <2>1, <2>2
<1>6. IsStore(c)
  BY <1>2, <1>4, <1>5 DEF IsStore
<1>7. ASSUME NEW T \in Tables, NEW key, NEW val
      PROVE  At(c[T], key, val) <=> IF <<T, key>> \in s.wrote THEN At(s[T], key, val) ELSE At(b[T], key, val)
  <2>1. [k |-> key, x |-> val].k = key
    OBVIOUS
  <2>2. QED
    BY <1>3, <2>1 DEF At
<1>8. QED
  BY <1>2, <1>6, <1>7 DEF c

\* The same rows.
SameTables(s, p) == IsStore(s) /\ IsStore(p) /\ \A T \in Tables : p[T] = s[T]

LEMMA AfterSame ==
    ASSUME NEW b, IsStore(b), NEW s, IsStore(s), Frame(b, s)
    PROVE  SameTables(s, CommitInto(b, s))
<1> DEFINE c == CommitInto(b, s)
<1>1. /\ IsStore(c)
      /\ \A T \in Tables : \A key, val : At(c[T], key, val) <=>
            IF <<T, key>> \in s.wrote THEN At(s[T], key, val) ELSE At(b[T], key, val)
  BY CommitShape
<1> HIDE DEF c
<1>2. ASSUME NEW T \in Tables PROVE c[T] = s[T]
  <2>1. \A key, val : At(c[T], key, val) <=> At(s[T], key, val)
    BY <1>1 DEF Frame
  <2>2. QED
    BY <1>1, <2>1, SameRows
<1>3. QED
  BY <1>1, <1>2 DEF SameTables, c

LEMMA SameTablesInv ==
    ASSUME NEW s, NEW p, SameTables(s, p), NEW c, NEW nv, NEW skew, NEW gone, NEW lap, NEW ack, NEW drop,
           NEW strike, StoreInv(c, s, nv, skew, gone, lap, ack, drop, strike)
    PROVE  StoreInv(c, p, nv, skew, gone, lap, ack, drop, strike)
<1>1. /\ p["existence"] = s["existence"] /\ p["adj_state"] = s["adj_state"] /\ p["adj_edge"] = s["adj_edge"]
      /\ p["edge_index"] = s["edge_index"] /\ p["etype"] = s["etype"] /\ p["eprop"] = s["eprop"]
      /\ p["eidx"] = s["eidx"]
  BY TableNames DEF SameTables
<1>2. \A v, d : Comp(p, v, d) <=> Comp(s, v, d)
  BY <1>1 DEF Comp
<1>3. \A T \in Tables : \A j : Has(p, T, j) <=> Has(s, T, j)
  BY DEF SameTables, Has
<1>4. IsStore(p) /\ CapOK(c, p) /\ Below(p, nv)
  BY <1>1, <1>3, TableNames DEF StoreInv, SameTables, CapOK, Below
<1>10. \A v : Alive(p, v) <=> Alive(s, v)
  BY <1>1 DEF Alive
<1>11. Standing(p)
  BY <1>3, <1>10, TableNames DEF StoreInv, Standing
<1>5. Sound(p)
  <2> SUFFICES ASSUME NEW d \in Directions, NEW v \in Vertices, NEW n \in Vertices, NEW q \in Nat, NEW x \in Nat
               PROVE  CellOK(p, p.etype, d, v, n, q, x)
    BY DEF Sound, Cells
  <2>1. CellOK(s, s.etype, d, v, n, q, x)
    BY DEF StoreInv, Sound, Cells
  <2>2. QED
    BY <1>1, <1>2, <1>10, <2>1 DEF CellOK
<1>6. Finite(p) /\ Counting(p, skew)
  BY <1>1 DEF StoreInv, Finite, Counting, Exact, KeysAt
<1>7. Indexed(p, gone)
  BY <1>3, TableNames DEF StoreInv, Indexed
<1>8. Attached(p, lap) /\ Kept(p, ack, drop, strike)
  BY <1>1, <1>3, TableNames DEF StoreInv, Attached, Kept
<1>9. QED
  BY <1>4, <1>5, <1>6, <1>7, <1>8, <1>11 DEF StoreInv

LEMMA SameTablesBorn ==
    ASSUME NEW s, NEW p, SameTables(s, p), NEW w, NEW v
    PROVE  Born(w, p, v) <=> Born(w, s, v)
BY TableNames DEF Born, SameTables, Has

LEMMA SameTablesWrites ==
    ASSUME NEW s, NEW p, SameTables(s, p), NEW w, NEW b, NEW did, NEW gone, NEW n,
           TxWrites(w, b, s, did, gone, n)
    PROVE  TxWrites(w, b, p, did, gone, n)
<1>1. /\ p["adj_state"] = s["adj_state"] /\ p["etype"] = s["etype"] /\ p["existence"] = s["existence"]
      /\ p["edge_index"] = s["edge_index"]
  BY TableNames DEF SameTables
<1>2. \A v, d : Comp(p, v, d) <=> Comp(s, v, d)
  BY <1>1 DEF Comp
<1>3. \A T \in Tables : \A j : Has(p, T, j) <=> Has(s, T, j)
  BY DEF SameTables, Has
<1>4. \A v : Born(w, p, v) <=> Born(w, s, v)
  BY SameTablesBorn
<1>11. \A d, v, z, q : Lost(p, d, v, z, q) <=> Lost(s, d, v, z, q)
  BY <1>1, <1>2 DEF Lost, Alive
<1>5. \A d \in Directions : Rules(w, p, WK(w), d)
  <2> SUFFICES ASSUME NEW d \in Directions, NEW v \in Vertices, NEW z \in Vertices, NEW q \in Nat
               PROVE  RuleOK(w, p, WK(w), d, v, z, q)
    BY DEF Rules
  <2>1. RuleOK(w, s, WK(w), d, v, z, q)
    BY DEF TxWrites, Rules
  <2>2. (Comp(p, v, d) <=> Comp(s, v, d)) /\ (Lost(p, d, v, z, q) <=> Lost(s, d, v, z, q))
    BY <1>2, <1>11
  <2>3. QED
    BY <2>1, <2>2 DEF RuleOK
<1>6. Grows(w, b, p) /\ StateRule(w, b, p)
  BY <1>2, <1>3, <1>4, TableNames DEF TxWrites, Grows, StateRule
<1>7. InsertRule(w, p, did.ins)
  BY <1>1 DEF TxWrites, InsertRule
<1>8. KillRule(w, b, p, did.kill)
  BY <1>3, TableNames DEF TxWrites, KillRule
<1>9. BornRule(w, b, p)
  BY <1>4 DEF TxWrites, BornRule
<1>10. QED
  BY <1>5, <1>6, <1>7, <1>8, <1>9 DEF TxWrites

LEMMA StoreInvMore ==
    ASSUME NEW c, NEW s, NEW nv \in Nat, NEW nv2 \in Nat, nv <= nv2, NEW skew, NEW gone, NEW lap, NEW lap2,
           lap \subseteq lap2, NEW ack, NEW drop, NEW strike,
           StoreInv(c, s, nv, skew, gone, lap, ack, drop, strike)
    PROVE  StoreInv(c, s, nv2, skew, gone, lap2, ack, drop, strike)
<1>0. MaxVertex \in Nat
  BY EdgeStoreAssumption
<1>1. \A v \in Vertices : v < nv => v < nv2
  BY <1>0 DEF Vertices
<1>2. \A k \in EdgeKeys : k[1] \in Vertices /\ k[2] \in Vertices
  BY DEF EdgeKeys
<1>3. Below(s, nv2)
  BY <1>1, <1>2 DEF StoreInv, Below
<1>4. Attached(s, lap2)
  BY DEF StoreInv, Attached
<1>5. QED
  BY <1>3, <1>4 DEF StoreInv

LEMMA TxWritesMore ==
    ASSUME NEW w, NEW b, NEW s, NEW did, NEW gone, NEW n \in Nat, NEW n2 \in Nat, n <= n2,
           TxWrites(w, b, s, did, gone, n)
    PROVE  TxWrites(w, b, s, did, gone, n2)
<1>0. MaxVertex \in Nat
  BY EdgeStoreAssumption
<1>1. \A v \in Vertices : v < n => v < n2
  BY <1>0 DEF Vertices
<1>2. \A k \in WK(w) : k[1] \in Vertices /\ k[2] \in Vertices
  BY DEF EdgeKeys, WK
<1>3. QED
  BY <1>1, <1>2 DEF TxWrites

LEMMA CommitAt ==
    ASSUME NEW b, IsStore(b), NEW s, NEW T \in Tables, NEW key, NEW val
    PROVE  At(CommitInto(b, s)[T], key, val) <=>
              IF <<T, key>> \in s.wrote THEN At(s[T], key, val) ELSE At(b[T], key, val)
<1>1. T \in DOMAIN b /\ T # "wrote"
  BY DEF IsStore, Tables
<1>2. CommitInto(b, s)[T] = {r \in b[T] : <<T, r.k>> \notin s.wrote} \cup {r \in s[T] : <<T, r.k>> \in s.wrote}
  BY <1>1 DEF CommitInto
<1>3. [k |-> key, x |-> val].k = key
  OBVIOUS
<1>4. QED
  BY <1>2, <1>3 DEF At

\* A transaction that inserts an edge and one that deletes its end wrote the
\* state of the end both, unless the overlap is recorded.
LEMMA Lapping ==
    ASSUME IsStore(db), NEW w, NEW s, NEW did, IsStore(s), IsDid(did),
           \A v \in Vertices, d \in Directions : \A y : <<"adj_state", <<v, d>>>> \notin w =>
               (At(s.adj_state, <<v, d>>, y) <=> At(db.adj_state, <<v, d>>, y)),
           \A d \in Directions : Rules(w, s, WK(w), d), InsertRule(w, s, did.ins),
           NEW w2, NEW s2, NEW did2, IsDid(did2), KillRule(w2, db, s2, did2.kill),
           w \cap w2 = {}, NEW i \in did.ins, NEW v \in did2.kill, v = i.s \/ v = i.t
    PROVE  <<i.e, v>> \in Laps(did, did2)
<1>1. i \in Edges /\ v \in Vertices /\ i.s \in Vertices /\ i.t \in Vertices /\ i.q \in Nat
  BY DEF IsDid, Edges
<1>2. ASSUME NEW d \in Directions, Comp(db, v, d) PROVE <<"adj_state", <<v, d>>>> \notin w
  <2>1. Has(db, "adj_state", <<v, d>>)
    BY <1>2, HasAt, TableNames DEF Comp
  <2>2. <<"adj_state", <<v, d>>>> \in w2
    BY <2>1 DEF KillRule
  <2>3. QED
    BY <2>2
<1>3. ASSUME NEW d \in Directions, NEW n \in Vertices, EKey(d, v, n, i.q) = <<i.s, i.t, i.q>>, Comp(db, v, d)
      PROVE  FALSE
  <2>1. <<"adj_state", <<v, d>>>> \notin w
    BY <1>2, <1>3
  <2>2. EKey(d, v, n, i.q) \in WK(w)
    BY <1>3 DEF InsertRule
  <2>3. RuleOK(w, s, WK(w), d, v, n, i.q)
    BY <1>1 DEF Rules
  <2>4. ~Comp(s, v, d)
    BY <2>1, <2>2, <2>3 DEF RuleOK, Lost
  <2>5. Comp(s, v, d)
    BY <1>1, <1>3, <2>1 DEF Comp
  <2>6. QED
    BY <2>4, <2>5
<1>4. \A d \in Directions : ~Comp(db, v, d) => Unguarded(db, v, d)
  <2> SUFFICES ASSUME NEW d \in Directions, ~Unguarded(db, v, d) PROVE Comp(db, v, d)
    OBVIOUS
  <2>1. getAdjacencyState(db, v, d).state = "COMPLETE"
    BY DEF Unguarded
  <2>2. Has(db, "adj_state", <<v, d>>)
    BY <2>1 DEF getAdjacencyState
  <2>3. PICK y : At(db.adj_state, <<v, d>>, y)
    BY <2>2, HasAt, TableNames
  <2>4. y = Complete(y.count) /\ y.count \in Nat
    BY <2>1, <2>3, AdjStateRow
  <2>5. QED
    BY <2>3, <2>4 DEF Comp
<1>5. v = i.s => Unguarded(db, v, "OUT")
  BY <1>1, <1>3, <1>4, TableNames DEF EKey
<1>6. v = i.t => Unguarded(db, v, "IN")
  BY <1>1, <1>3, <1>4, TableNames DEF EKey
<1>7. Meets(i, v)
  BY <1>5, <1>6 DEF Meets
<1>8. QED
  BY <1>7 DEF Laps

-----------------------------------------------------------------------------
(* Statements *)

\* What a statement that leaves view and did behind has to show.
Ready(s, did, nv, ne) ==
    /\ Frame(db, s) /\ IsDid(did)
    /\ \A i \in did.ins : i.e < ne
    /\ StoreInv(cap, s, nv, skewed \cup did.skew, ghosts \cup did.ghost, lapped \cup did.left,
                acked \cup did.ins, dropped \cup did.del, struck \cup did.strike)
    /\ TxWrites(s.wrote, db, s, did, ghosts \cup did.ghost, nv)
    /\ \A v \in Vertices : Born(s.wrote, s, v) => v >= nextV
    /\ \A k \in WK(s.wrote) : (Has(db, "existence", k[1]) /\ Has(db, "existence", k[2])) \/ Has(db, "etype", k)

LEMMA RunKeeps ==
    ASSUME IInv, NEW t \in Txns, NEW view, NEW did, Run(t, view, did),
           nextV' \in Nat, nextV' >= nextV, nextE' \in Nat, nextE' >= nextE,
           Ready(view, did, nextV', nextE')
    PROVE  IInv'
<1>1. /\ cap' = cap /\ db' = db /\ acked' = acked /\ dropped' = dropped /\ ghosts' = ghosts /\ skewed' = skewed
      /\ struck' = struck /\ events' = events + 1 /\ lapped \subseteq lapped' /\ lapped \cup did.left \subseteq lapped' /\ ~tx[t].on
      /\ tx' = [tx EXCEPT ![t] = [on |-> TRUE, view |-> view, did |-> did]]
      /\ \A o \in Open : view.wrote \cap tx[o].view.wrote = {}
      /\ \A o \in Open : Laps(did, tx[o].did) \subseteq lapped' /\ Laps(tx[o].did, did) \subseteq lapped'
  BY DEF Run, WriteConflict
<1>2. TypeOK /\ nextV \in Nat /\ nextE \in Nat /\ IsStore(db) /\ DOMAIN tx = Txns
  BY DEF IInv, TypeOK
<1>3. /\ tx'[t] = [on |-> TRUE, view |-> view, did |-> did]
      /\ \A o \in Txns : o # t => tx'[o] = tx[o]
      /\ DOMAIN tx' = Txns
  BY <1>1, <1>2
<1>4. TypeOK'
  <2>1. cap' \in Nat /\ nextV' \in Nat \ {0} /\ nextE' \in Nat \ {0} /\ events' \in Nat
    BY <1>1, <1>2 DEF TypeOK
  <2>2. \A o \in Txns : tx'[o].on \in BOOLEAN
    <3>1. \A o \in Txns : tx[o].on \in BOOLEAN
      BY <1>2 DEF TypeOK
    <3>2. tx'[t].on = TRUE
      BY <1>3
    <3>3. ASSUME NEW o \in Txns PROVE tx'[o].on \in BOOLEAN
      <4>1. CASE o = t
        BY <3>2, <4>1
      <4>2. CASE o # t
        BY <1>3, <3>1, <4>2
      <4>3. QED
        BY <4>1, <4>2
    <3>4. QED
      BY <3>3
  <2>3. IsStore(db') /\ db'.wrote = {} /\ acked' \subseteq Edges
    BY <1>1, <1>2 DEF TypeOK
  <2>4. QED
    BY <1>3, <2>1, <2>2, <2>3 DEF TypeOK
<1>5. \A o : o \in Open' <=> o = t \/ o \in Open
  BY <1>3 DEF Open
<1>6. t \notin Open
  BY <1>1 DEF Open
<1> DEFINE c == CommitInto(db, view)
<1>7. SameTables(view, c)
  <2>1. IsStore(view) /\ Frame(db, view)
    BY DEF Ready, StoreInv
  <2>2. QED
    BY <1>2, <2>1, AfterSame
<1>8. /\ StoreInv(cap, c, nextV', skewed \cup did.skew, ghosts \cup did.ghost, lapped \cup did.left,
                  acked \cup did.ins, dropped \cup did.del, struck \cup did.strike)
      /\ TxWrites(view.wrote, db, c, did, ghosts \cup did.ghost, nextV')
      /\ IsDid(did) /\ \A i \in did.ins : i.e < nextE'
  BY <1>7, SameTablesInv, SameTablesWrites DEF Ready
<1>9. After(t)' = c /\ \A o \in Open : After(o)' = After(o)
  BY <1>1, <1>3, <1>6 DEF After, Open
<1>10. \A a \in acked' : a.e < nextE'
  BY <1>1, <1>2 DEF IInv, TypeOK, Edges
<1>11. StoreInv(cap', db', nextV', skewed', ghosts', lapped', acked', dropped', struck')
  <2>1. StoreInv(cap, db, nextV, skewed, ghosts, lapped, acked, dropped, struck)
    BY DEF IInv
  <2>2. StoreInv(cap, db, nextV', skewed, ghosts, lapped', acked, dropped, struck)
    BY <1>1, <1>2, <2>1, StoreInvMore
  <2>3. QED
    BY <1>1, <2>2
<1>12. TxInv(t)'
  <2>1. StoreInv(cap, c, nextV', skewed \cup did.skew, ghosts \cup did.ghost, lapped',
                  acked \cup did.ins, dropped \cup did.del, struck \cup did.strike)
    BY <1>1, <1>2, <1>8, StoreInvMore
  <2> HIDE DEF c
  <2>2. QED
    BY <1>1, <1>3, <1>8, <1>9, <2>1 DEF TxInv
<1> HIDE DEF c
<1>13. ASSUME NEW o \in Open PROVE TxInv(o)'
  <2>1. TxInv(o) /\ tx'[o] = tx[o] /\ After(o)' = After(o)
    BY <1>3, <1>6, <1>9 DEF IInv, Open
  <2> DEFINE d == tx[o].did
  <2>2. /\ IsDid(d) /\ \A i \in d.ins : i.e < nextE
        /\ StoreInv(cap, After(o), nextV, skewed \cup d.skew, ghosts \cup d.ghost, lapped,
                acked \cup d.ins, dropped \cup d.del, struck \cup d.strike)
        /\ TxWrites(tx[o].view.wrote, db, After(o), d, ghosts \cup d.ghost, nextV)
    BY <2>1 DEF TxInv
  <2> HIDE DEF d
  <2>3. StoreInv(cap, After(o), nextV', skewed \cup d.skew, ghosts \cup d.ghost, lapped',
                acked \cup d.ins, dropped \cup d.del, struck \cup d.strike)
    BY <1>1, <1>2, <2>2, StoreInvMore
  <2>4. TxWrites(tx[o].view.wrote, db, After(o), d, ghosts \cup d.ghost, nextV')
    BY <1>2, <2>2, TxWritesMore
  <2>5. \A i \in d.ins : i.e < nextE'
    BY <1>2, <2>2 DEF IsDid, Edges
  <2>6. QED
    BY <1>1, <2>1, <2>2, <2>3, <2>4, <2>5 DEF TxInv, d
<1>14. ASSUME NEW o \in Open
       PROVE  /\ Apart(view.wrote, c, did, tx[o].view.wrote, tx[o].did, lapped')
              /\ Apart(tx[o].view.wrote, After(o), tx[o].did, view.wrote, did, lapped')
  <2> DEFINE w == view.wrote
             u == tx[o].view.wrote
             d == tx[o].did
             a == After(o)
  <2>1. TxInv(o)
    BY DEF IInv
  <2>2. /\ IsDid(d) /\ IsStore(a) /\ TxWrites(u, db, a, d, ghosts \cup d.ghost, nextV)
    BY <2>1 DEF TxInv, StoreInv
  <2>3. w \cap u = {}
    BY <1>1
  <2>4. \A v \in Vertices, e \in Directions : \A y :
            /\ <<"adj_state", <<v, e>>>> \notin w => (At(c["adj_state"], <<v, e>>, y) <=> At(db["adj_state"], <<v, e>>, y))
            /\ <<"adj_state", <<v, e>>>> \notin u => (At(a["adj_state"], <<v, e>>, y) <=> At(db["adj_state"], <<v, e>>, y))
    BY <1>2, CommitAt, TableNames DEF After, c
  <2> HIDE DEF w, u, d, a
  <2>5. TxWrites(w, db, c, did, ghosts \cup did.ghost, nextV') /\ IsStore(c) /\ IsDid(did)
    BY <1>8 DEF w, StoreInv
  <2>6. ASSUME NEW i \in did.ins, NEW v \in d.kill, v = i.s \/ v = i.t PROVE <<i.e, v>> \in lapped'
    <3>1. <<i.e, v>> \in Laps(did, d)
      BY <1>2, <2>2, <2>3, <2>4, <2>5, <2>6, Lapping DEF TxWrites
    <3>2. QED
      BY <1>1, <3>1 DEF d
  <2>7. ASSUME NEW i \in d.ins, NEW v \in did.kill, v = i.s \/ v = i.t PROVE <<i.e, v>> \in lapped'
    <3>1. <<i.e, v>> \in Laps(d, did)
      BY <1>2, <2>2, <2>3, <2>4, <2>5, <2>7, Lapping DEF TxWrites
    <3>2. QED
      BY <1>1, <3>1 DEF d
  <2>8. ASSUME NEW v \in Vertices, Born(w, c, v), NEW k \in WK(u) PROVE k[1] # v /\ k[2] # v
    <3>1. v >= nextV
      BY <1>7, <2>8, SameTablesBorn DEF Ready, w
    <3>2. k[1] < nextV /\ k[2] < nextV
      BY <2>2 DEF TxWrites
    <3>3. MaxVertex \in Nat
      BY EdgeStoreAssumption
    <3>4. QED
      BY <1>2, <3>1, <3>2, <3>3 DEF Vertices
  <2>9. ASSUME NEW v \in Vertices, Born(u, a, v), NEW k \in WK(w) PROVE k[1] # v /\ k[2] # v
    <3>1. (Has(db, "existence", k[1]) /\ Has(db, "existence", k[2])) \/ Has(db, "etype", k)
      BY DEF Ready, w
    <3>2. ~Has(db, "existence", v) /\ (Has(db, "etype", k) => k[1] # v /\ k[2] # v)
      BY <2>2, <2>9 DEF TxWrites, BornRule, WK
    <3>3. QED
      BY <3>1, <3>2
  <2>10. QED
    BY <2>3, <2>6, <2>7, <2>8, <2>9 DEF Apart, w, u, d, a
<1>15. ASSUME NEW z \in Open', NEW o \in Open', z # o
       PROVE  Apart(tx'[z].view.wrote, After(z)', tx'[z].did, tx'[o].view.wrote, tx'[o].did, lapped')
  <2>1. CASE z = t
    BY <1>3, <1>5, <1>6, <1>9, <1>14, <1>15, <2>1 DEF Open
  <2>2. CASE o = t
    BY <1>3, <1>5, <1>6, <1>9, <1>14, <1>15, <2>2 DEF Open
  <2>3. CASE z # t /\ o # t
    <3>1. z \in Open /\ o \in Open
      BY <1>5, <2>3
    <3>2. Apart(tx[z].view.wrote, After(z), tx[z].did, tx[o].view.wrote, tx[o].did, lapped)
      BY <1>15, <3>1 DEF IInv
    <3>3. Apart(tx[z].view.wrote, After(z), tx[z].did, tx[o].view.wrote, tx[o].did, lapped')
      BY <1>1, <3>2 DEF Apart
    <3>4. tx'[z] = tx[z] /\ tx'[o] = tx[o] /\ After(z)' = After(z)
      BY <1>3, <1>9, <2>3, <3>1 DEF Open
    <3>5. QED
      BY <3>3, <3>4
  <2>4. QED
    BY <2>1, <2>2, <2>3
<1>16. \A o \in Open' : TxInv(o)'
  BY <1>5, <1>12, <1>13
<1>17. QED
  BY <1>4, <1>10, <1>11, <1>15, <1>16 DEF IInv

LEMMA DbStruct ==
    ASSUME IInv, NEW skew, skewed \subseteq skew
    PROVE  Struct(db, db, skew) /\ IsStore(db) /\ db.wrote = {} /\ cap \in Nat
<1>1. TypeOK /\ StoreInv(cap, db, nextV, skewed, ghosts, lapped, acked, dropped, struck)
  BY DEF IInv
<1>2. IsStore(db) /\ db.wrote = {} /\ cap \in Nat
  BY <1>1 DEF TypeOK
<1>3. Base(db, db)
  BY <1>1 DEF Base, StoreInv, Frame
<1>4. WK(db.wrote) = {}
  BY <1>2 DEF WK
<1>5. ASSUME NEW d \in Directions PROVE Side(db, db, db.etype, WK(db.wrote), d, skew)
  <2>1. Rules(db.wrote, db, WK(db.wrote), d)
    BY <1>2, <1>4 DEF Rules, RuleOK
  <2>5. \A v \in Vertices : <<"adj_state", <<v, d>>>> \notin db.wrote
    BY <1>2
  <2>2. Cells(db, db.etype, d)
    BY <1>1 DEF StoreInv, Sound
  <2>3. \A v \in Vertices : <<v, d>> \notin skew => Exact(db, v, d)
    BY <1>1 DEF StoreInv, Counting
  <2>4. QED
    BY <2>1, <2>2, <2>3, <2>5 DEF Side
<1>6. QED
  BY <1>2, <1>3, <1>5 DEF Struct

\* What a statement that creates no vertex does to vertices, edges, properties
\* and the index.
Vertexwise(s, kill, left) ==
    /\ \A v : Has(s, "existence", v) <=> Has(db, "existence", v) /\ v \notin kill
    /\ \A v : <<"existence", v>> \in s.wrote <=> v \in kill
    /\ \A v \in kill, d \in Directions : Has(db, "adj_state", <<v, d>>) => <<"adj_state", <<v, d>>>> \in s.wrote
    /\ \A v \in kill, d \in Directions : ~Has(s, "adj_state", <<v, d>>)
    /\ \A k \in EdgeKeys, x \in Nat : At(s.etype, k, x) =>
          \A v \in {k[1], k[2]} : v \in kill => <<x, v>> \in left

Edgewise(s, did) ==
    /\ \A i \in did.ins : <<i.s, i.t, i.q>> \in WK(s.wrote)
    /\ \A k \in WK(s.wrote) : (Has(db, "existence", k[1]) /\ Has(db, "existence", k[2])) \/ Has(db, "etype", k)
    /\ \A k \in WK(s.wrote), x \in Nat : At(s.etype, k, x) =>
          /\ [e |-> x, s |-> k[1], t |-> k[2], q |-> k[3]] \in did.ins
          /\ Has(db, "existence", k[1]) /\ Has(db, "existence", k[2])
    /\ \A k \in WK(s.wrote), x \in Nat : At(db.etype, k, x) =>
          x \in did.del \/ x \in did.strike \/ \E i \in did.ins : k = <<i.s, i.t, i.q>>
    /\ \A i \in did.ins : (i.e \in did.del \/ At(s.etype, <<i.s, i.t, i.q>>, i.e)) /\ i.e = nextE

LEMMA AliveIs ==
    ASSUME NEW s, IsStore(s), NEW v
    PROVE  Has(s, "existence", v) <=> Alive(s, v)
<1>1. "existence" \in Tables /\ RowsOf("existence") = [k : Vertices, x : {0}]
  BY DEF Tables, RowsOf
<1>2. s["existence"] \subseteq [k : Vertices, x : {0}]
  BY <1>1 DEF IsStore
<1>3. \A y : At(s["existence"], v, y) => y = 0
  <2> SUFFICES ASSUME NEW y, At(s["existence"], v, y) PROVE y = 0
    OBVIOUS
  <2>1. [k |-> v, x |-> y] \in [k : Vertices, x : {0}]
    BY <1>2 DEF At
  <2>2. QED
    BY <2>1
<1>4. QED
  BY <1>1, <1>3, HasAt DEF Alive

LEMMA EdgeStatement ==
    ASSUME IInv, NEW s, NEW did, NEW ne \in Nat, nextE <= ne, did.ins # {} => nextE < ne, IsDid(did),
           Struct(db, s, skewed \cup did.skew), Vertexwise(s, did.kill, did.left), Edgewise(s, did),
           Indexed(s, ghosts \cup did.ghost), IndexWrites(s.wrote, ghosts \cup did.ghost)
    PROVE  Ready(s, did, nextV, ne)
<1>1. /\ TypeOK /\ StoreInv(cap, db, nextV, skewed, ghosts, lapped, acked, dropped, struck)
      /\ nextE \in Nat /\ nextV \in Nat /\ IsStore(db) /\ acked \subseteq Edges /\ \A a \in acked : a.e < nextE
  BY DEF IInv, TypeOK
<1>2. Frame(db, s) /\ IsStore(s) /\ CapOK(cap, s) /\ Finite(s)
  BY DEF Struct, Base
<1>3. /\ Sound(s) /\ \A d \in Directions : Rules(s.wrote, s, WK(s.wrote), d)
      /\ Counting(s, skewed \cup did.skew)
      /\ \A v \in Vertices, d \in Directions : Comp(s, v, d) => Comp(db, v, d)
      /\ \A v \in Vertices, d \in Directions : Has(s, "adj_state", <<v, d>>) => Has(db, "adj_state", <<v, d>>)
      /\ \A v \in Vertices, d \in Directions : <<"adj_state", <<v, d>>>> \in s.wrote => Has(db, "adj_state", <<v, d>>)
  BY DEF Struct, Side, Sound, Counting
<1>4. \A v : ~Born(s.wrote, s, v)
  BY DEF Born, Vertexwise
<1>5. Grows(s.wrote, db, s) /\ BornRule(s.wrote, db, s) /\ StateRule(s.wrote, db, s)
  BY <1>3, <1>4 DEF Grows, BornRule, StateRule
<1>21. Standing(s)
  <2> SUFFICES ASSUME NEW v \in Vertices, NEW d \in Directions, Has(s, "adj_state", <<v, d>>) PROVE Alive(s, v)
    BY DEF Standing
  <2>1. Has(db, "adj_state", <<v, d>>) /\ Standing(db)
    BY <1>1, <1>3 DEF StoreInv
  <2>2. Has(db, "existence", v)
    BY <1>1, <2>1, AliveIs DEF Standing
  <2>3. v \notin did.kill
    BY DEF Vertexwise
  <2>4. Has(s, "existence", v)
    BY <2>2, <2>3 DEF Vertexwise
  <2>5. QED
    BY <1>2, <2>4, AliveIs
<1>6. KillRule(s.wrote, db, s, did.kill)
  BY DEF KillRule, Vertexwise
<1>7. InsertRule(s.wrote, s, did.ins)
  BY DEF InsertRule, Edgewise
<1>8. \A k \in EdgeKeys : k \notin WK(s.wrote) => <<"etype", k>> \notin s.wrote
  BY DEF WK
<1>9. \A k \in EdgeKeys : \A x : k \notin WK(s.wrote) => (At(s["etype"], k, x) <=> At(db["etype"], k, x))
  BY <1>2, <1>8, TableNames DEF Frame
<1>10. \A k \in EdgeKeys : Has(db, "etype", k) => k[1] < nextV /\ k[2] < nextV
  BY <1>1 DEF StoreInv, Below
<1>11. \A v \in Vertices : Has(db, "existence", v) => v < nextV
  BY <1>1 DEF StoreInv, Below
<1>12. \A k \in EdgeKeys : k[1] \in Vertices /\ k[2] \in Vertices
  BY DEF EdgeKeys
<1>13. \A k \in WK(s.wrote) : k[1] < nextV /\ k[2] < nextV
  BY <1>10, <1>11, <1>12 DEF Edgewise, WK
<1>14. Below(s, nextV)
  <2>1. ASSUME NEW k \in EdgeKeys, Has(s, "etype", k) PROVE k[1] < nextV /\ k[2] < nextV
    <3>1. CASE k \in WK(s.wrote)
      BY <1>13, <3>1
    <3>2. CASE k \notin WK(s.wrote)
      <4>1. Has(db, "etype", k)
        BY <1>1, <1>2, <1>9, <2>1, <3>2, HasAt, TableNames
      <4>2. QED
        BY <1>10, <4>1
    <3>3. QED
      BY <3>1, <3>2
  <2>2. \A v \in Vertices : Has(s, "existence", v) => v < nextV
    BY <1>11 DEF Vertexwise
  <2>3. \A v \in Vertices, d \in Directions : Has(s, "adj_state", <<v, d>>) => v < nextV
    BY <1>1, <1>3 DEF StoreInv, Below
  <2>4. QED
    BY <2>1, <2>2, <2>3 DEF Below
<1>15. Attached(s, lapped \cup did.left)
  <2> SUFFICES ASSUME NEW k \in EdgeKeys, NEW x \in Nat, At(s.etype, k, x), NEW v \in {k[1], k[2]}
               PROVE  Has(s, "existence", v) \/ <<x, v>> \in lapped \cup did.left
    BY DEF Attached
  <2>1. CASE v \in did.kill
    BY <2>1 DEF Vertexwise
  <2>2. CASE v \notin did.kill /\ k \in WK(s.wrote)
    BY <2>2 DEF Edgewise, Vertexwise
  <2>3. CASE v \notin did.kill /\ k \notin WK(s.wrote)
    <3>1. At(db["etype"], k, x)
      BY <1>9, <2>3
    <3>2. Has(db, "existence", v) \/ <<x, v>> \in lapped
      BY <1>1, <3>1 DEF StoreInv, Attached
    <3>3. QED
      BY <2>3, <3>2 DEF Vertexwise
  <2>4. QED
    BY <2>1, <2>2, <2>3
<1>16. Kept(s, acked \cup did.ins, dropped \cup did.del, struck \cup did.strike)
  <2> SUFFICES ASSUME NEW a \in acked \cup did.ins, a.e \notin dropped, a.e \notin did.del,
                      a.e \notin struck, a.e \notin did.strike, ~At(s.etype, <<a.s, a.t, a.q>>, a.e)
               PROVE  \E i \in acked \cup did.ins : i.e # a.e /\ i.s = a.s /\ i.t = a.t /\ i.q = a.q
    BY DEF Kept
  <2>1. a \in acked
    BY DEF Edgewise
  <2> DEFINE k == <<a.s, a.t, a.q>>
  <2>2. k \in EdgeKeys /\ a.e \in Nat /\ a.e < nextE
    BY <1>1, <2>1 DEF Edges, EdgeKeys
  <2>3. At(db.etype, k, a.e) \/ \E i \in acked : i.e # a.e /\ i.s = a.s /\ i.t = a.t /\ i.q = a.q
    BY <1>1, <2>1 DEF StoreInv, Kept
  <2>4. CASE At(db.etype, k, a.e)
    <3>1. k \in WK(s.wrote)
      BY <1>9, <2>2, <2>4
    <3> HIDE DEF k
    <3>2. PICK i \in did.ins : k = <<i.s, i.t, i.q>>
      BY <2>2, <2>4, <3>1 DEF Edgewise
    <3>3. i.e = nextE
      BY DEF Edgewise
    <3>4. i.s = a.s /\ i.t = a.t /\ i.q = a.q
      BY <3>2 DEF k
    <3>5. i.e # a.e
      BY <1>1, <2>2, <3>3
    <3>6. QED
      BY <3>4, <3>5
  <2>5. QED
    BY <2>3, <2>4
<1>17. \A i \in did.ins : i.e < ne
  BY <1>1 DEF Edgewise
<1>18. StoreInv(cap, s, nextV, skewed \cup did.skew, ghosts \cup did.ghost, lapped \cup did.left,
                acked \cup did.ins, dropped \cup did.del, struck \cup did.strike)
  BY <1>2, <1>3, <1>14, <1>15, <1>16, <1>21 DEF StoreInv
<1>19. TxWrites(s.wrote, db, s, did, ghosts \cup did.ghost, nextV)
  BY <1>3, <1>5, <1>6, <1>7, <1>13 DEF TxWrites
<1>20. QED
  BY <1>2, <1>4, <1>17, <1>18, <1>19 DEF Ready, Edgewise

LEMMA PutBeside ==
    ASSUME NEW b, NEW s, NEW skew, Struct(b, s, skew), NEW T \in {"eprop", "eidx"}, NEW key, NEW val,
           [k |-> key, x |-> val] \in RowsOf(T)
    PROVE  Struct(b, table_put(s, T, key, val), skew) /\ PutOf(s, table_put(s, T, key, val), T, key, val)
<1> DEFINE p == table_put(s, T, key, val)
<1>1. IsStore(s) /\ Frame(b, s) /\ T \in Tables
  BY TableNames DEF Struct, Base
<1>2. PutOf(s, p, T, key, val) /\ Frame(b, p)
  BY <1>1, Put, FramePut
<1> HIDE DEF p
<1>3. IsStore(p) /\ SameAdj(s, p) /\ p["etype"] = s["etype"]
  BY <1>2, TableNames DEF PutOf, SameAdj
<1>4. \A j : <<"etype", j>> \in p.wrote <=> <<"etype", j>> \in s.wrote
  BY <1>2 DEF PutOf
<1>5. Struct(b, p, skew)
  BY <1>2, <1>3, <1>4, StructSame
<1>6. QED
  BY <1>2, <1>5 DEF p

LEMMA DelBeside ==
    ASSUME NEW b, NEW s, NEW skew, Struct(b, s, skew), NEW T \in {"eprop", "eidx"}, NEW key
    PROVE  Struct(b, table_del(s, T, key), skew) /\ DelOf(s, table_del(s, T, key), T, {key})
<1> DEFINE p == table_del_all(s, T, {key})
<1>0. p = table_del(s, T, key)
  BY DEF table_del
<1>1. IsStore(s) /\ Frame(b, s) /\ T \in Tables
  BY TableNames DEF Struct, Base
<1>2. DelOf(s, p, T, {key}) /\ Frame(b, p)
  BY <1>1, DelAll, FrameDel
<1> HIDE DEF p
<1>3. IsStore(p) /\ SameAdj(s, p) /\ p["etype"] = s["etype"]
  BY <1>2, TableNames DEF DelOf, SameAdj
<1>4. \A j : <<"etype", j>> \in p.wrote <=> <<"etype", j>> \in s.wrote
  BY <1>2 DEF DelOf
<1>5. Struct(b, p, skew)
  BY <1>2, <1>3, <1>4, StructSame
<1>6. QED
  BY <1>0, <1>2, <1>5

\* An edge inserted into the committed store, with its index entry.
Creation(s, src, dst, q) ==
    /\ Added(db.etype, s.etype, <<src, dst, q>>, nextE)
    /\ \A j : <<"etype", j>> \in s.wrote <=> j = <<src, dst, q>>
    /\ \A T \in {"eprop", "eidx"} : \A j : Has(s, T, j) <=> Has(db, T, j) \/ j = nextE
    /\ \A T \in {"eprop", "eidx"} : \A j : <<T, j>> \in s.wrote <=> j = nextE
    /\ \A j : (Has(s, "existence", j) <=> Has(db, "existence", j)) /\ <<"existence", j>> \notin s.wrote

LEMMA Creates ==
    ASSUME IInv, NEW skew, skewed \subseteq skew, NEW src \in Vertices, NEW dst \in Vertices, NEW q \in Nat,
           NEW load \in Payloads, Recounted(src, dst, q) \subseteq skew
    PROVE  /\ Struct(db, table_put(insertEdge(db, nextE, src, dst, q), "eidx", nextE, load), skew)
           /\ Creation(table_put(insertEdge(db, nextE, src, dst, q), "eidx", nextE, load), src, dst, q)
<1> DEFINE m == insertEdge(db, nextE, src, dst, q)
           s == table_put(m, "eidx", nextE, load)
<1>1. Struct(db, db, skew) /\ IsStore(db) /\ db.wrote = {} /\ cap \in Nat
  BY DbStruct
<1>2. nextE \in Nat
  BY DEF IInv, TypeOK
<1>3. (<<src, "OUT">> \in skew /\ <<dst, "IN">> \in skew) \/ ~Has(db, "etype", <<src, dst, q>>)
  BY DEF Recounted
<1>4. Struct(db, m, skew) /\ InsertOf(db, m, nextE, src, dst, q)
  BY <1>1, <1>2, <1>3, InsertEdgeOp
<1> HIDE DEF m
<1>5. [k |-> nextE, x |-> load] \in RowsOf("eidx")
  BY <1>2 DEF RowsOf
<1>6. Struct(db, s, skew) /\ PutOf(m, s, "eidx", nextE, load)
  BY <1>4, <1>5, PutBeside
<1> HIDE DEF s
<1>7. s["etype"] = m["etype"] /\ s["eprop"] = m["eprop"] /\ s["existence"] = m["existence"]
        /\ m["eidx"] = db["eidx"] /\ m["existence"] = db["existence"]
  BY <1>4, <1>6, TableNames DEF PutOf, InsertOf
<1>8. Added(db.etype, s.etype, <<src, dst, q>>, nextE)
  BY <1>4, <1>7 DEF InsertOf
<1>9. \A T, j : <<T, j>> \in s.wrote <=> <<T, j>> \in m.wrote \/ (T = "eidx" /\ j = nextE)
  BY <1>6 DEF PutOf
<1>10. \A j : <<"etype", j>> \in s.wrote <=> j = <<src, dst, q>>
  BY <1>1, <1>4, <1>9 DEF InsertOf
<1>11. \A j : (<<"eprop", j>> \in s.wrote <=> j = nextE) /\ (<<"eidx", j>> \in s.wrote <=> j = nextE)
                /\ <<"existence", j>> \notin s.wrote
  <2>1. \A j : <<"eprop", j>> \in m.wrote <=> j = nextE
    BY <1>1, <1>4 DEF InsertOf
  <2>2. \A T \in {"existence", "eidx"} : \A j : <<T, j>> \notin m.wrote
    BY <1>1, <1>4 DEF InsertOf
  <2>3. \A j : <<"existence", j>> \notin m.wrote /\ <<"eidx", j>> \notin m.wrote
    BY <2>2
  <2>4. \A j : <<"eprop", j>> \in s.wrote <=> <<"eprop", j>> \in m.wrote
    BY <1>9
  <2>5. \A j : <<"existence", j>> \in s.wrote <=> <<"existence", j>> \in m.wrote
    BY <1>9
  <2>6. \A j : <<"eidx", j>> \in s.wrote <=> <<"eidx", j>> \in m.wrote \/ j = nextE
    BY <1>9
  <2>7. QED
    BY <2>1, <2>3, <2>4, <2>5, <2>6
<1>12. \A j : Has(s, "eidx", j) <=> Has(db, "eidx", j) \/ j = nextE
  <2>1. \A j : Has(m, "eidx", j) <=> Has(db, "eidx", j)
    BY <1>7 DEF Has
  <2>2. QED
    BY <1>6, <2>1 DEF PutOf
<1>13. \A j : Has(s, "eprop", j) <=> Has(db, "eprop", j) \/ j = nextE
  <2>1. \A j : Has(s, "eprop", j) <=> Has(m, "eprop", j)
    BY <1>7 DEF Has
  <2>2. QED
    BY <1>4, <2>1 DEF InsertOf
<1>14. \A j : Has(s, "existence", j) <=> Has(db, "existence", j)
  BY <1>7 DEF Has
<1>15. Creation(s, src, dst, q)
  BY <1>8, <1>10, <1>11, <1>12, <1>13, <1>14 DEF Creation
<1>16. QED
  BY <1>6, <1>15 DEF s, m

LEMMA CreateReady ==
    ASSUME IInv, NEW src \in Vertices, NEW dst \in Vertices, NEW q \in Nat, Live(src), Live(dst),
           NEW load \in Payloads
    PROVE  Ready(table_put(insertEdge(db, nextE, src, dst, q), "eidx", nextE, load),
                 [Nothing EXCEPT !.ins = {[e |-> nextE, s |-> src, t |-> dst, q |-> q]},
                                 !.skew = Recounted(src, dst, q)], nextV, nextE + 1)
<1> DEFINE s == table_put(insertEdge(db, nextE, src, dst, q), "eidx", nextE, load)
           i == [e |-> nextE, s |-> src, t |-> dst, q |-> q]
           did == [Nothing EXCEPT !.ins = {i}, !.skew = Recounted(src, dst, q)]
           key == <<src, dst, q>>
<1>1. nextE \in Nat /\ i \in Edges /\ key \in EdgeKeys /\ i.e = nextE /\ <<i.s, i.t, i.q>> = key
        /\ key[1] = src /\ key[2] = dst /\ key[3] = q
  BY DEF IInv, TypeOK, Edges, EdgeKeys
<1>2. /\ did.ins = {i} /\ did.kill = {} /\ did.skew = Recounted(src, dst, q) /\ did.ghost = {} /\ did.del = {}
      /\ did.strike = {} /\ did.left = {} /\ DOMAIN did = {"ins", "del", "ghost", "skew", "strike", "kill", "left"}
  BY DEF Nothing
<1> HIDE DEF did
<1>3. Struct(db, s, skewed \cup did.skew) /\ Creation(s, src, dst, q)
  BY <1>2, Creates
<1> HIDE DEF s
<1>4. IsDid(did)
  BY <1>1, <1>2 DEF IsDid
<1>5. \A T \in {"eprop", "eidx"} : \A j : Has(s, T, j) <=> Has(db, T, j) \/ j = nextE
  BY <1>3 DEF Creation
<1>6. Indexed(s, ghosts \cup did.ghost)
  BY <1>2, <1>5 DEF Indexed, IInv, StoreInv
<1>7. IndexWrites(s.wrote, ghosts \cup did.ghost)
  BY <1>3 DEF Creation, IndexWrites
<1>8. Vertexwise(s, did.kill, did.left)
  BY <1>2, <1>3 DEF Creation, Vertexwise
<1>9. WK(s.wrote) = {key}
  BY <1>1, <1>3 DEF Creation, WK
<1>10. At(s.etype, key, nextE) /\ \A x : At(s.etype, key, x) => x = nextE
  BY <1>3 DEF Creation, Added
<1> HIDE DEF key
<1>11. Edgewise(s, did)
  <2>1. Has(db, "existence", key[1]) /\ Has(db, "existence", key[2])
    BY <1>1 DEF Live
  <2>2. i = [e |-> nextE, s |-> key[1], t |-> key[2], q |-> key[3]]
    BY <1>1
  <2> HIDE DEF i
  <2>3. \A k \in WK(s.wrote), x \in Nat : At(s.etype, k, x) =>
          [e |-> x, s |-> k[1], t |-> k[2], q |-> k[3]] \in did.ins
    BY <1>2, <1>9, <1>10, <2>2
  <2>4. QED
    BY <1>1, <1>2, <1>9, <1>10, <2>1, <2>3 DEF Edgewise
<1>12. nextE <= nextE + 1 /\ nextE < nextE + 1 /\ nextE + 1 \in Nat
  BY <1>1
<1>13. QED
  BY <1>3, <1>4, <1>6, <1>7, <1>8, <1>11, <1>12, EdgeStatement DEF s, did

\* One relationship value deleted, with the index entries of its stored values.
Deletion(m, p, e) ==
    /\ \A j, y : At(p.etype, j, y) <=> At(m.etype, j, y) /\ j # <<e.s, e.t, e.q>>
    /\ \A j : <<"etype", j>> \in p.wrote <=>
          <<"etype", j>> \in m.wrote \/ (j = <<e.s, e.t, e.q>> /\ Has(m, "etype", j))
    /\ \A j : Has(p, "eprop", j) <=> Has(m, "eprop", j) /\ j # e.e
    /\ \A j : <<"eprop", j>> \in p.wrote <=> <<"eprop", j>> \in m.wrote \/ (j = e.e /\ Has(m, "eprop", j))
    /\ \A j : Has(p, "eidx", j) <=> Has(m, "eidx", j) /\ ~(j = e.e /\ Has(m, "eprop", j))
    /\ \A j : <<"eidx", j>> \in p.wrote <=>
          <<"eidx", j>> \in m.wrote \/ (j = e.e /\ Has(m, "eprop", j) /\ Has(m, "eidx", j))
    /\ \A j : /\ Has(p, "existence", j) <=> Has(m, "existence", j)
              /\ <<"existence", j>> \in p.wrote <=> <<"existence", j>> \in m.wrote

LEMMA DeleteOneOp ==
    ASSUME cap \in Nat, NEW b, NEW m, NEW skew, Struct(b, m, skew), NEW e \in Edges, Uncounted(m, e) \subseteq skew
    PROVE  Struct(b, DeleteOne(m, e), skew) /\ Deletion(m, DeleteOne(m, e), e)
<1> DEFINE n == deleteEdgeIndexEntries(m, e.e)
           p == deleteEdge(n, {e})
           key == <<e.s, e.t, e.q>>
<1>1. p = DeleteOne(m, e)
  BY DEF DeleteOne
<1>2. /\ Struct(b, n, skew) /\ IsStore(n)
      /\ \A T \in Tables : T # "eidx" => n[T] = m[T]
      /\ \A T \in Tables : \A j : T # "eidx" => (<<T, j>> \in n.wrote <=> <<T, j>> \in m.wrote)
      /\ \A j : Has(n, "eidx", j) <=> Has(m, "eidx", j) /\ ~(j = e.e /\ Has(m, "eprop", j))
      /\ \A j : <<"eidx", j>> \in n.wrote <=>
            <<"eidx", j>> \in m.wrote \/ (j = e.e /\ Has(m, "eprop", j) /\ Has(m, "eidx", j))
  <2>1. CASE Has(m, "eprop", e.e)
    <3> DEFINE z == table_del(m, "eidx", e.e)
    <3>1. n = z
      BY <2>1 DEF deleteEdgeIndexEntries
    <3>2. Struct(b, z, skew) /\ DelOf(m, z, "eidx", {e.e})
      BY DelBeside
    <3> HIDE DEF z, n
    <3>3. /\ IsStore(z)
          /\ \A T \in Tables : T # "eidx" => z[T] = m[T]
          /\ \A j : Has(z, "eidx", j) <=> Has(m, "eidx", j) /\ j # e.e
          /\ \A T, j : <<T, j>> \in z.wrote <=> <<T, j>> \in m.wrote \/ (T = "eidx" /\ j = e.e /\ Has(m, "eidx", j))
      BY <3>2 DEF DelOf
    <3>4. \A T \in Tables : \A j : T # "eidx" => (<<T, j>> \in z.wrote <=> <<T, j>> \in m.wrote)
      BY <3>3
    <3>5. \A j : <<"eidx", j>> \in z.wrote <=> <<"eidx", j>> \in m.wrote \/ (j = e.e /\ Has(m, "eidx", j))
      BY <3>3
    <3>6. QED
      BY <2>1, <3>1, <3>2, <3>3, <3>4, <3>5
  <2>2. CASE ~Has(m, "eprop", e.e)
    <3>1. n = m
      BY <2>2 DEF deleteEdgeIndexEntries
    <3>2. QED
      BY <2>2, <3>1 DEF Struct, Base
  <2>3. QED
    BY <2>1, <2>2
<1>3. IsStore(m) /\ CapOK(cap, m)
  BY DEF Struct, Base
<1> HIDE DEF n
<1>4. n["adj_state"] = m["adj_state"] /\ n["adj_edge"] = m["adj_edge"] /\ n["etype"] = m["etype"]
        /\ n["eprop"] = m["eprop"] /\ n["existence"] = m["existence"]
  BY <1>2, TableNames
<1>5. Counted(n, {e}, skew)
  <2> SUFFICES ASSUME NEW d \in Directions, Comp(n, EndOf(e, d), d), ~Has(n, "adj_edge", KeyAt(e, d))
               PROVE  <<EndOf(e, d), d>> \in skew
    BY DEF Counted
  <2>1. EndOf(e, d) \in Vertices
    BY DEF EndOf, Edges
  <2>2. Comp(m, EndOf(e, d), d) /\ ~Has(m, "adj_edge", KeyAt(e, d))
    BY <1>4 DEF Comp, Has
  <2>3. Cached(m, EndOf(e, d), d)
    BY <1>3, <2>1, <2>2, CachedIs
  <2>4. <<EndOf(e, d), d>> \in Uncounted(m, e)
    BY <2>2, <2>3 DEF Uncounted
  <2>5. QED
    BY <2>4
<1>6. Struct(b, p, skew) /\ DeleteOf(n, p, {e})
  <2>1. {e} \subseteq Edges /\ IsFiniteSet({e})
    BY FS_Singleton
  <2>2. QED
    BY <1>2, <1>5, <2>1, DeleteEdgeOp
<1> HIDE DEF p
<1>7. TKeys({e}) = {key} /\ {x.e : x \in {e}} = {e.e}
  BY DEF TKeys
<1> HIDE DEF key
<1>8. \A j : /\ Has(n, "etype", j) <=> Has(m, "etype", j)
             /\ Has(n, "eprop", j) <=> Has(m, "eprop", j)
             /\ Has(n, "existence", j) <=> Has(m, "existence", j)
             /\ <<"etype", j>> \in n.wrote <=> <<"etype", j>> \in m.wrote
             /\ <<"eprop", j>> \in n.wrote <=> <<"eprop", j>> \in m.wrote
             /\ <<"existence", j>> \in n.wrote <=> <<"existence", j>> \in m.wrote
  BY <1>2, <1>4, TableNames DEF Has
<1>9. \A T \in {"existence", "eidx"} : p[T] = n[T] /\ \A j : <<T, j>> \in p.wrote <=> <<T, j>> \in n.wrote
  BY <1>6 DEF DeleteOf
<1>10. \A j : /\ Has(p, "existence", j) <=> Has(n, "existence", j)
              /\ <<"existence", j>> \in p.wrote <=> <<"existence", j>> \in n.wrote
              /\ Has(p, "eidx", j) <=> Has(n, "eidx", j)
              /\ <<"eidx", j>> \in p.wrote <=> <<"eidx", j>> \in n.wrote
  BY <1>9 DEF Has
<1>11. \A j, y : At(p.etype, j, y) <=> At(m.etype, j, y) /\ j # key
  BY <1>4, <1>6, <1>7 DEF DeleteOf
<1>12. \A j : <<"etype", j>> \in p.wrote <=> <<"etype", j>> \in m.wrote \/ (j = key /\ Has(m, "etype", j))
  BY <1>6, <1>7, <1>8 DEF DeleteOf
<1>13. \A j : /\ Has(p, "eprop", j) <=> Has(m, "eprop", j) /\ j # e.e
              /\ <<"eprop", j>> \in p.wrote <=> <<"eprop", j>> \in m.wrote \/ (j = e.e /\ Has(m, "eprop", j))
  BY <1>6, <1>7, <1>8 DEF DeleteOf
<1>14. Deletion(m, p, e)
  BY <1>2, <1>8, <1>10, <1>11, <1>12, <1>13 DEF Deletion, key
<1>15. QED
  BY <1>1, <1>6, <1>14

\* The edge a row of the adjacency stands for.
Scan(d, v, r) ==
    IF d = "OUT" THEN [e |-> r.x, s |-> v, t |-> r.k[3], q |-> r.k[4]]
                 ELSE [e |-> r.x, s |-> r.k[3], t |-> v, q |-> r.k[4]]

ScanRows(s, v, d) == {r \in (IF Cached(s, v, d) THEN s.adj_edge ELSE s.edge_index) : r.k[1] = v /\ r.k[2] = d}

LEMMA ScanFinite ==
    ASSUME NEW s, Finite(s), NEW v, NEW d
    PROVE  IsFiniteSet(scanEdges(s, v, d)) /\ scanEdges(s, v, d) = {Scan(d, v, r) : r \in ScanRows(s, v, d)}
<1> DEFINE rows == ScanRows(s, v, d)
           image == {Scan(d, v, r) : r \in rows}
           f == [r \in rows |-> Scan(d, v, r)]
<1>1. scanEdges(s, v, d) = image
  BY DEF scanEdges, Scan, ScanRows
<1>2. IsFiniteSet(rows)
  <2>1. CASE Cached(s, v, d)
    <3>1. rows \subseteq s.adj_edge
      BY <2>1 DEF ScanRows
    <3>2. QED
      BY <3>1, FS_Subset DEF Finite
  <2>2. CASE ~Cached(s, v, d)
    <3>1. rows \subseteq s.edge_index
      BY <2>2 DEF ScanRows
    <3>2. QED
      BY <3>1, FS_Subset DEF Finite
  <2>3. QED
    BY <2>1, <2>2
<1> HIDE DEF rows
<1>3. f \in Surjection(rows, image)
  BY DEF Surjection
<1> HIDE DEF f
<1>4. IsFiniteSet(image)
  BY <1>2, <1>3, FS_Surjection
<1>5. QED
  BY <1>1, <1>4 DEF rows

\* A vertex that exists has a row for every edge it is an end of.
LEMMA ScanIs ==
    ASSUME cap \in Nat, NEW s, IsStore(s), CapOK(cap, s), NEW d \in Directions, Cells(s, s.etype, d),
           NEW v \in Vertices, Alive(s, v), NEW e
    PROVE  e \in scanEdges(s, v, d) <=>
              e \in Edges /\ EndOf(e, d) = v /\ At(s.etype, <<e.s, e.t, e.q>>, e.e)
<1> DEFINE R == IF Cached(s, v, d) THEN s["adj_edge"] ELSE s["edge_index"]
<1>1. Cached(s, v, d) <=> Comp(s, v, d)
  BY CachedIs
<1>2. \A n \in Vertices, q \in Nat, x \in Nat : At(R, <<v, d, n, q>>, x) <=> At(s["etype"], EKey(d, v, n, q), x)
  BY <1>1 DEF Cells, CellOK
<1>3. \A r \in R : r = [k |-> r.k, x |-> r.x] /\ r \in [k : AdjKeys, x : Nat]
  BY RowShape, TableNames DEF RowsOf
<1>4. e \in scanEdges(s, v, d) <=> \E r \in R : r.k[1] = v /\ r.k[2] = d /\ e = Scan(d, v, r)
  BY DEF scanEdges, Scan
<1> HIDE DEF R
<1>5. ASSUME NEW r \in R, r.k[1] = v, r.k[2] = d, e = Scan(d, v, r)
      PROVE  e \in Edges /\ EndOf(e, d) = v /\ At(s.etype, <<e.s, e.t, e.q>>, e.e)
  <2> DEFINE n == r.k[3]
             q == r.k[4]
  <2>1. r.k = <<v, d, n, q>> /\ n \in Vertices /\ q \in Nat /\ r.x \in Nat
    BY <1>3, <1>5 DEF AdjKeys
  <2>2. At(R, <<v, d, n, q>>, r.x)
    BY <1>3, <2>1 DEF At
  <2>3. At(s["etype"], EKey(d, v, n, q), r.x)
    BY <1>2, <2>1, <2>2
  <2>4. e.e = r.x /\ <<e.s, e.t, e.q>> = EKey(d, v, n, q) /\ e \in Edges /\ EndOf(e, d) = v
    BY <1>5, <2>1 DEF Scan, EKey, Edges, EndOf
  <2>5. QED
    BY <2>3, <2>4
<1>6. ASSUME e \in Edges, EndOf(e, d) = v, At(s.etype, <<e.s, e.t, e.q>>, e.e)
      PROVE  \E r \in R : r.k[1] = v /\ r.k[2] = d /\ e = Scan(d, v, r)
  <2> DEFINE n == IF d = "OUT" THEN e.t ELSE e.s
             r == [k |-> <<v, d, n, e.q>>, x |-> e.e]
  <2>1. n \in Vertices /\ e.q \in Nat /\ e.e \in Nat /\ <<e.s, e.t, e.q>> = EKey(d, v, n, e.q)
    BY <1>6 DEF Edges, EndOf, EKey
  <2>2. At(R, <<v, d, n, e.q>>, e.e)
    BY <1>2, <1>6, <2>1
  <2>3. r \in R /\ r.k[1] = v /\ r.k[2] = d /\ r.k[3] = n /\ r.k[4] = e.q /\ r.x = e.e
    BY <2>2 DEF At
  <2>4. e = [e |-> e.e, s |-> e.s, t |-> e.t, q |-> e.q]
    BY <1>6 DEF Edges
  <2>5. IF d = "OUT" THEN e.s = v /\ n = e.t ELSE e.t = v /\ n = e.s
    BY <1>6 DEF EndOf
  <2> HIDE DEF n, r
  <2>6. e = Scan(d, v, r)
    BY <2>3, <2>4, <2>5 DEF Scan
  <2>7. QED
    BY <2>3, <2>6
<1>7. QED
  BY <1>4, <1>5, <1>6

LEMMA StructScan ==
    ASSUME cap \in Nat, NEW b, NEW s, NEW skew, Struct(b, s, skew), NEW v \in Vertices, Alive(s, v),
           NEW d \in Directions
    PROVE  /\ scanEdges(s, v, d) \subseteq Edges /\ IsFiniteSet(scanEdges(s, v, d))
           /\ \A e : e \in scanEdges(s, v, d) <=>
                 e \in Edges /\ EndOf(e, d) = v /\ At(s.etype, <<e.s, e.t, e.q>>, e.e)
           /\ Counted(s, scanEdges(s, v, d), skew)
<1> DEFINE es == scanEdges(s, v, d)
<1>1. IsStore(s) /\ CapOK(cap, s) /\ Finite(s) /\ \A c \in Directions : Cells(s, s.etype, c)
  BY DEF Struct, Base, Side
<1>2. \A e : e \in es <=> e \in Edges /\ EndOf(e, d) = v /\ At(s.etype, <<e.s, e.t, e.q>>, e.e)
  BY <1>1, ScanIs
<1>3. IsFiniteSet(es)
  BY <1>1, ScanFinite
<1> HIDE DEF es
<1>4. ASSUME NEW c \in Directions, NEW e \in es, Comp(s, EndOf(e, c), c) PROVE Has(s, "adj_edge", KeyAt(e, c))
  <2> DEFINE n == IF c = "OUT" THEN e.t ELSE e.s
             u == EndOf(e, c)
  <2>1. u \in Vertices /\ n \in Vertices /\ e.q \in Nat /\ e.e \in Nat /\ At(s.etype, <<e.s, e.t, e.q>>, e.e)
    BY <1>2 DEF Edges, EndOf
  <2>2. KeyAt(e, c) = <<u, c, n, e.q>> /\ EKey(c, u, n, e.q) = <<e.s, e.t, e.q>>
    BY DEF KeyAt, EndOf, EKey
  <2> HIDE DEF n, u
  <2>3. CellOK(s, s.etype, c, u, n, e.q, e.e)
    BY <1>1, <2>1 DEF Cells
  <2>4. At(s["adj_edge"], <<u, c, n, e.q>>, e.e)
    BY <1>4, <2>1, <2>2, <2>3 DEF CellOK, u
  <2>5. QED
    BY <1>1, <2>2, <2>4, HasAt, TableNames
<1>5. Counted(s, es, skew)
  BY <1>4 DEF Counted
<1>6. QED
  BY <1>2, <1>3, <1>5 DEF es

\* What a scan of the type table finds is an edge.
LEMMA TypeScan ==
    ASSUME NEW s, IsStore(s), NEW e
    PROVE  e \in scanEdgesByType(s) <=> e \in Edges /\ At(s.etype, <<e.s, e.t, e.q>>, e.e)
<1> DEFINE Found(r) == [e |-> r.x, s |-> r.k[1], t |-> r.k[2], q |-> r.k[3]]
<1>1. \A r \in s["etype"] : r = [k |-> r.k, x |-> r.x] /\ r.k \in EdgeKeys /\ r.x \in Nat
  BY RowShape, TableNames DEF RowsOf
<1>2. e \in scanEdgesByType(s) <=> \E r \in s["etype"] : e = Found(r)
  BY DEF scanEdgesByType
<1>3. ASSUME NEW r \in s["etype"], e = Found(r) PROVE e \in Edges /\ At(s.etype, <<e.s, e.t, e.q>>, e.e)
  <2>1. r.k = <<r.k[1], r.k[2], r.k[3]>> /\ r.k[1] \in Vertices /\ r.k[2] \in Vertices /\ r.k[3] \in Nat /\ r.x \in Nat
    BY <1>1 DEF EdgeKeys
  <2>2. e \in Edges
    BY <1>3, <2>1 DEF Edges
  <2>3. <<e.s, e.t, e.q>> = r.k /\ e.e = r.x
    BY <1>3, <2>1
  <2>4. QED
    BY <1>1, <2>2, <2>3 DEF At
<1>4. ASSUME e \in Edges, At(s.etype, <<e.s, e.t, e.q>>, e.e) PROVE \E r \in s["etype"] : e = Found(r)
  <2> DEFINE r == [k |-> <<e.s, e.t, e.q>>, x |-> e.e]
  <2>1. r \in s["etype"]
    BY <1>4 DEF At
  <2>2. e = Found(r)
    BY <1>4 DEF Edges
  <2>3. QED
    BY <2>1, <2>2
<1>5. QED
  BY <1>2, <1>3, <1>4

\* The edges left behind at a vertex are exempted.
Left(s, v, left) ==
    \A k \in EdgeKeys, x \in Nat : At(s.etype, k, x) /\ v \in {k[1], k[2]} => <<x, v>> \in left

LEMMA AllLeft ==
    ASSUME NEW s, NEW v, NEW left,
           \A e \in Edges : At(s.etype, <<e.s, e.t, e.q>>, e.e) /\ v \in {e.s, e.t} => <<e.e, v>> \in left
    PROVE  Left(s, v, left)
<1> SUFFICES ASSUME NEW j \in EdgeKeys, NEW y \in Nat, At(s.etype, j, y), v \in {j[1], j[2]} PROVE <<y, v>> \in left
  BY DEF Left
<1> DEFINE e == [e |-> y, s |-> j[1], t |-> j[2], q |-> j[3]]
<1>1. e \in Edges /\ <<e.s, e.t, e.q>> = j /\ e.e = y /\ e.s = j[1] /\ e.t = j[2]
  BY DEF EdgeKeys, Edges
<1> HIDE DEF e
<1>2. QED
  BY <1>1

LeftBy(s, id, vs) == {<<f.e, u>> : f \in scanEdgesByType(s), u \in vs} \cap ({id} \X vs)

\* Where DELETE r, a found no other edge, what is left has the id of r.
LEMMA NamedLeft ==
    ASSUME cap \in Nat, NEW b, NEW s, NEW skew, Struct(b, s, skew), NEW id, NEW vs \in SUBSET Vertices, NEW v \in vs,
           Alive(s, v), \A d \in Directions : \A f \in scanEdges(s, v, d) : f.e = id
    PROVE  Left(s, v, LeftBy(s, id, vs))
<1> DEFINE left == LeftBy(s, id, vs)
<1>1. IsStore(s)
  BY DEF Struct, Base
<1>2. ASSUME NEW e \in Edges, At(s.etype, <<e.s, e.t, e.q>>, e.e), v \in {e.s, e.t} PROVE <<e.e, v>> \in left
  <2>1. \E d \in Directions : EndOf(e, d) = v
    BY <1>2, TableNames DEF EndOf
  <2>2. PICK d \in Directions : EndOf(e, d) = v
    BY <2>1
  <2>3. e \in scanEdges(s, v, d)
    BY <1>2, <2>2, StructScan
  <2>4. e.e = id
    BY <2>3
  <2>5. e \in scanEdgesByType(s)
    BY <1>1, <1>2, TypeScan
  <2>6. QED
    BY <2>4, <2>5 DEF LeftBy
<1> HIDE DEF left
<1>3. Left(s, v, left)
  BY <1>2, AllLeft
<1>4. QED
  BY <1>3 DEF left

\* A statement that ends with the vertices it names.
LEMMA KillReady ==
    ASSUME IInv, NEW m, NEW did, NEW vs \in SUBSET Vertices, NEW ne \in Nat, nextE <= ne, did.ins # {} => nextE < ne,
           IsDid(did), did.kill = vs, \A v \in vs : Live(v),
           Struct(db, m, skewed \cup did.skew), Vertexwise(m, {}, {}), Edgewise(m, did),
           Indexed(m, ghosts \cup did.ghost), IndexWrites(m.wrote, ghosts \cup did.ghost),
           \A v \in vs : Left(m, v, did.left)
    PROVE  Ready(deleteVertex(m, vs), did, nextV, ne)
<1> DEFINE s == deleteVertex(m, vs)
<1>1. IsStore(db) /\ cap \in Nat /\ nextE \in Nat
  BY DEF IInv, TypeOK
<1>2. Struct(db, s, skewed \cup did.skew) /\ VertexGone(m, s, vs)
  BY <1>1, DeleteVertexOp
<1> HIDE DEF s
<1>3. /\ \A T \in {"etype", "eprop", "eidx"} : s[T] = m[T] /\ \A j : <<T, j>> \in s.wrote <=> <<T, j>> \in m.wrote
      /\ \A u : Has(s, "existence", u) <=> Has(m, "existence", u) /\ u \notin vs
      /\ \A u : <<"existence", u>> \in s.wrote <=> <<"existence", u>> \in m.wrote \/ (u \in vs /\ Has(m, "existence", u))
      /\ \A v \in vs, d \in Directions : Has(m, "adj_state", <<v, d>>) => <<"adj_state", <<v, d>>>> \in s.wrote
      /\ \A v \in vs, d \in Directions : ~Has(s, "adj_state", <<v, d>>)
      /\ m.wrote \subseteq s.wrote
  BY <1>2 DEF VertexGone
<1>4. s["etype"] = m["etype"] /\ s["eprop"] = m["eprop"] /\ s["eidx"] = m["eidx"]
  BY <1>3
<1>5. \A j : /\ <<"etype", j>> \in s.wrote <=> <<"etype", j>> \in m.wrote
             /\ <<"eprop", j>> \in s.wrote <=> <<"eprop", j>> \in m.wrote
             /\ <<"eidx", j>> \in s.wrote <=> <<"eidx", j>> \in m.wrote
  BY <1>3
<1>6. Indexed(s, ghosts \cup did.ghost)
  BY <1>4 DEF Indexed, Has
<1>7. IndexWrites(s.wrote, ghosts \cup did.ghost)
  BY <1>5 DEF IndexWrites
<1>8. WK(s.wrote) = WK(m.wrote)
  BY <1>5 DEF WK
<1>9. Edgewise(s, did)
  BY <1>4, <1>8 DEF Edgewise
<1>10. ASSUME NEW v \in vs, NEW d \in Directions, Has(db, "adj_state", <<v, d>>)
       PROVE  <<"adj_state", <<v, d>>>> \in s.wrote
  <2>1. CASE <<"adj_state", <<v, d>>>> \in m.wrote
    BY <1>3, <2>1
  <2>2. CASE <<"adj_state", <<v, d>>>> \notin m.wrote
    <3>1. Frame(db, m) /\ IsStore(m)
      BY DEF Struct, Base
    <3>2. \A y : At(m["adj_state"], <<v, d>>, y) <=> At(db["adj_state"], <<v, d>>, y)
      BY <2>2, <3>1, TableNames DEF Frame
    <3>3. Has(m, "adj_state", <<v, d>>)
      BY <1>1, <1>10, <3>1, <3>2, HasAt, TableNames
    <3>4. QED
      BY <1>3, <3>3
  <2>3. QED
    BY <2>1, <2>2
<1>11. Vertexwise(s, did.kill, did.left)
  <2>1. \A u : (Has(m, "existence", u) <=> Has(db, "existence", u)) /\ <<"existence", u>> \notin m.wrote
    BY DEF Vertexwise
  <2>2. \A u : Has(s, "existence", u) <=> Has(db, "existence", u) /\ u \notin did.kill
    BY <1>3, <2>1
  <2>3. \A u : <<"existence", u>> \in s.wrote <=> u \in did.kill
    BY <1>3, <2>1 DEF Live
  <2>4. ASSUME NEW k \in EdgeKeys, NEW x \in Nat, At(s.etype, k, x), NEW v \in {k[1], k[2]}, v \in did.kill
        PROVE  <<x, v>> \in did.left
    BY <1>4, <2>4 DEF Left
  <2>5. QED
    BY <1>3, <1>10, <2>2, <2>3, <2>4 DEF Vertexwise
<1>12. Ready(s, did, nextV, ne)
  BY <1>2, <1>6, <1>7, <1>9, <1>11, EdgeStatement
<1>13. QED
  BY <1>12 DEF s

LEMMA DeleteReady ==
    ASSUME IInv, NEW e \in Edges, NEW vs \in SUBSET Vertices, \A v \in vs : Live(v), OnlyEdge(DeleteOne(db, e), e, vs)
    PROVE  Ready(DeleteAll(db, e, vs), Deleted(db, e, vs), nextV, nextE)
<1> DEFINE s == DeleteOne(db, e)
           did == Deleted(db, e, vs)
           key == <<e.s, e.t, e.q>>
<1>1. /\ did.ins = {} /\ did.kill = vs /\ did.skew = Uncounted(db, e) /\ did.ghost = {} /\ did.del = {e.e}
      /\ did.strike = Mistaken(db, e)
      /\ did.left = LeftBy(s, e.e, vs)
      /\ DOMAIN did = {"ins", "del", "ghost", "skew", "strike", "kill", "left"}
  BY DEF Nothing, Deleted, LeftBy
<1> HIDE DEF did
<1>2. Struct(db, db, skewed \cup did.skew) /\ IsStore(db) /\ db.wrote = {} /\ cap \in Nat
  BY DbStruct
<1>3. Struct(db, s, skewed \cup did.skew) /\ Deletion(db, s, e)
  BY <1>1, <1>2, DeleteOneOp
<1> HIDE DEF s
<1>4. IsDid(did)
  BY <1>1 DEF IsDid
<1>5. Indexed(db, ghosts) /\ nextE \in Nat
  BY DEF IInv, StoreInv, TypeOK
<1>6. \A j : /\ Has(s, "eprop", j) <=> Has(db, "eprop", j) /\ j # e.e
             /\ <<"eprop", j>> \in s.wrote <=> j = e.e /\ Has(db, "eprop", j)
             /\ Has(s, "eidx", j) <=> Has(db, "eidx", j) /\ ~(j = e.e /\ Has(db, "eprop", j))
             /\ <<"eidx", j>> \in s.wrote <=> j = e.e /\ Has(db, "eprop", j) /\ Has(db, "eidx", j)
  BY <1>2, <1>3 DEF Deletion
<1>7. Indexed(s, ghosts \cup did.ghost) /\ IndexWrites(s.wrote, ghosts \cup did.ghost)
  BY <1>1, <1>5, <1>6 DEF Indexed, IndexWrites
<1>8. Vertexwise(s, {}, {})
  BY <1>2, <1>3 DEF Vertexwise, Deletion
<1>9. /\ \A k \in WK(s.wrote) : k = key /\ Has(db, "etype", k)
      /\ \A x : ~At(s.etype, key, x)
  BY <1>2, <1>3 DEF Deletion, WK
<1>10. \A x \in Nat : At(db.etype, key, x) => x = e.e \/ x \in Mistaken(db, e)
  <2> SUFFICES ASSUME NEW x \in Nat, At(db.etype, key, x), x # e.e PROVE x \in Mistaken(db, e)
    OBVIOUS
  <2> DEFINE r == [k |-> key, x |-> x]
  <2>1. r \in db.etype /\ r.k = key /\ r.x = x
    BY DEF At
  <2> HIDE DEF r
  <2>2. QED
    BY <2>1 DEF Mistaken
<1> HIDE DEF key
<1>11. Edgewise(s, did)
  BY <1>1, <1>9, <1>10 DEF Edgewise
<1>12. ASSUME NEW v \in vs PROVE Left(s, v, did.left)
  <2>1. IsStore(s) /\ Has(s, "existence", v)
    BY <1>3, <1>8 DEF Struct, Base, Vertexwise, Live
  <2>2. Alive(s, v)
    BY <2>1, AliveIs
  <2>3. \A d \in Directions : \A f \in scanEdges(s, v, d) : f.e = e.e
    BY DEF OnlyEdge, s
  <2>4. QED
    BY <1>1, <1>2, <1>3, <2>2, <2>3, NamedLeft
<1>13. Ready(deleteVertex(s, vs), did, nextV, nextE)
  BY <1>1, <1>3, <1>4, <1>5, <1>7, <1>8, <1>11, <1>12, KillReady
<1>14. QED
  BY <1>13 DEF s, did, DeleteAll

LEMMA CreateDeleteReady ==
    ASSUME IInv, NEW src \in Vertices, NEW dst \in Vertices, Live(src), Live(dst), NEW vs \in SUBSET {src, dst},
           LET row == [e |-> nextE, s |-> src, t |-> dst, q |-> 0]
           IN OnlyEdge(DeleteOne(CreateOne(db, nextE, src, dst), row), row, vs)
    PROVE  LET row == [e |-> nextE, s |-> src, t |-> dst, q |-> 0]
               made == CreateOne(db, nextE, src, dst)
           IN Ready(DeleteAll(made, row, vs),
                    [Deleted(made, row, vs) EXCEPT !.ins = {[row EXCEPT !.q = nextE]},
                                                   !.skew = @ \cup Recounted(src, dst, nextE)], nextV, nextE + 1)
<1> DEFINE row == [e |-> nextE, s |-> src, t |-> dst, q |-> 0]
           made == CreateOne(db, nextE, src, dst)
           s == DeleteOne(made, row)
           i == [row EXCEPT !.q = nextE]
           did == [Deleted(made, row, vs) EXCEPT !.ins = {i}, !.skew = @ \cup Recounted(src, dst, nextE)]
           key == <<src, dst, nextE>>
           old == <<src, dst, 0>>
           load == <<src, dst, 0>>
<1>1. /\ nextE \in Nat /\ nextE # 0 /\ i \in Edges /\ row \in Edges /\ key \in EdgeKeys /\ old \in EdgeKeys /\ key # old
      /\ i.e = nextE /\ <<i.s, i.t, i.q>> = key /\ row.e = nextE /\ <<row.s, row.t, row.q>> = old
      /\ key[1] = src /\ key[2] = dst /\ key[3] = nextE /\ old[1] = src /\ old[2] = dst
      /\ i = [e |-> nextE, s |-> src, t |-> dst, q |-> nextE] /\ load \in Payloads
  BY DEF IInv, TypeOK, Edges, EdgeKeys, Payloads
<1>2. /\ did.ins = {i} /\ did.kill = vs /\ did.skew = Uncounted(made, row) \cup Recounted(src, dst, nextE)
      /\ did.ghost = {} /\ did.del = {nextE}
      /\ did.strike = Mistaken(made, row)
      /\ did.left = LeftBy(s, nextE, vs)
      /\ DOMAIN did = {"ins", "del", "ghost", "skew", "strike", "kill", "left"}
  BY <1>1 DEF Nothing, Deleted, LeftBy
<1>21. \A v \in vs, d \in Directions : \A f \in scanEdges(s, v, d) : f.e = nextE
  BY DEF OnlyEdge
<1> HIDE DEF did, i
<1>3. IsStore(db) /\ db.wrote = {} /\ cap \in Nat
  BY DbStruct
<1>4. Struct(db, made, skewed \cup did.skew) /\ Creation(made, src, dst, nextE)
  <2>1. made = table_put(insertEdge(db, nextE, src, dst, nextE), "eidx", nextE, load)
    BY DEF CreateOne
  <2> HIDE DEF made, load
  <2>2. Recounted(src, dst, nextE) \subseteq skewed \cup did.skew
    BY <1>2
  <2>3. QED
    BY <1>1, <2>1, <2>2, Creates
<1> HIDE DEF made
<1>5. Struct(db, s, skewed \cup did.skew) /\ Deletion(made, s, row)
  <2>1. Uncounted(made, row) \subseteq skewed \cup did.skew
    BY <1>2
  <2> HIDE DEF row
  <2>2. QED
    BY <1>1, <1>3, <1>4, <2>1, DeleteOneOp
<1> HIDE DEF s, row
<1>6. IsDid(did)
  BY <1>1, <1>2 DEF IsDid
<1>7. Indexed(db, ghosts)
  BY DEF IInv, StoreInv
<1>8. /\ \A T \in {"eprop", "eidx"} : \A j : Has(made, T, j) <=> Has(db, T, j) \/ j = nextE
      /\ \A T \in {"eprop", "eidx"} : \A j : <<T, j>> \in made.wrote <=> j = nextE
  BY <1>4 DEF Creation
<1>9. \A j : /\ Has(s, "eprop", j) <=> Has(db, "eprop", j) /\ j # nextE
             /\ Has(s, "eidx", j) <=> Has(db, "eidx", j) /\ j # nextE
             /\ <<"eprop", j>> \in s.wrote <=> j = nextE
             /\ <<"eidx", j>> \in s.wrote <=> j = nextE
  <2>1. \A j : /\ Has(made, "eprop", j) <=> Has(db, "eprop", j) \/ j = nextE
               /\ Has(made, "eidx", j) <=> Has(db, "eidx", j) \/ j = nextE
               /\ <<"eprop", j>> \in made.wrote <=> j = nextE
               /\ <<"eidx", j>> \in made.wrote <=> j = nextE
    BY <1>8
  <2>2. \A j : Has(s, "eprop", j) <=> Has(made, "eprop", j) /\ j # nextE
    BY <1>1, <1>5 DEF Deletion
  <2>3. \A j : <<"eprop", j>> \in s.wrote <=> <<"eprop", j>> \in made.wrote \/ (j = nextE /\ Has(made, "eprop", j))
    BY <1>1, <1>5 DEF Deletion
  <2>4. \A j : Has(s, "eidx", j) <=> Has(made, "eidx", j) /\ ~(j = nextE /\ Has(made, "eprop", j))
    BY <1>1, <1>5 DEF Deletion
  <2>5. \A j : <<"eidx", j>> \in s.wrote <=>
            <<"eidx", j>> \in made.wrote \/ (j = nextE /\ Has(made, "eprop", j) /\ Has(made, "eidx", j))
    BY <1>1, <1>5 DEF Deletion
  <2>6. QED
    BY <2>1, <2>2, <2>3, <2>4, <2>5
<1>10. Indexed(s, ghosts \cup did.ghost) /\ IndexWrites(s.wrote, ghosts \cup did.ghost)
  BY <1>2, <1>7, <1>9 DEF Indexed, IndexWrites
<1>11. Vertexwise(s, {}, {})
  <2>1. \A v : (Has(made, "existence", v) <=> Has(db, "existence", v)) /\ <<"existence", v>> \notin made.wrote
    BY <1>4 DEF Creation
  <2>2. \A v : (Has(s, "existence", v) <=> Has(made, "existence", v)) /\ (<<"existence", v>> \in s.wrote <=> <<"existence", v>> \in made.wrote)
    BY <1>5 DEF Deletion
  <2>3. QED
    BY <2>1, <2>2 DEF Vertexwise
<1>12. /\ \A j, y : At(made.etype, j, y) <=> IF j = key THEN y = nextE ELSE At(db.etype, j, y)
       /\ \A j : <<"etype", j>> \in made.wrote <=> j = key
  BY <1>4 DEF Creation, Added
<1>13. /\ \A j, y : At(s.etype, j, y) <=> At(made.etype, j, y) /\ j # old
       /\ \A j : <<"etype", j>> \in s.wrote <=> <<"etype", j>> \in made.wrote \/ (j = old /\ Has(made, "etype", j))
  BY <1>1, <1>5 DEF Deletion
<1> HIDE DEF key, old
<1>14. /\ \A k \in WK(s.wrote) : k = key \/ k = old
       /\ key \in WK(s.wrote)
  BY <1>1, <1>12, <1>13 DEF WK
<1>15. At(s.etype, key, nextE) /\ (\A x : At(s.etype, key, x) => x = nextE) /\ \A x : ~At(s.etype, old, x)
  BY <1>1, <1>12, <1>13
<1>16. \A x \in Nat : At(db.etype, old, x) => x = nextE \/ x \in Mistaken(made, row)
  <2> SUFFICES ASSUME NEW x \in Nat, At(db.etype, old, x), x # nextE PROVE x \in Mistaken(made, row)
    OBVIOUS
  <2> DEFINE r == [k |-> old, x |-> x]
  <2>1. r \in made.etype /\ r.k = old /\ r.x = x
    BY <1>1, <1>12 DEF At
  <2> HIDE DEF r
  <2>2. QED
    BY <1>1, <2>1 DEF Mistaken
<1>17. Edgewise(s, did)
  <2>1. Has(db, "existence", key[1]) /\ Has(db, "existence", key[2]) /\ Has(db, "existence", old[1]) /\ Has(db, "existence", old[2])
    BY <1>1 DEF Live
  <2>2. i = [e |-> nextE, s |-> key[1], t |-> key[2], q |-> key[3]]
    BY <1>1
  <2>3. \A k \in WK(s.wrote), x \in Nat : At(s.etype, k, x) =>
          [e |-> x, s |-> k[1], t |-> k[2], q |-> k[3]] \in did.ins
    BY <1>2, <1>14, <1>15, <2>2
  <2>4. \A k \in WK(s.wrote), x \in Nat : At(db.etype, k, x) =>
          x \in did.del \/ x \in did.strike \/ \E z \in did.ins : k = <<z.s, z.t, z.q>>
    BY <1>1, <1>2, <1>14, <1>16
  <2>5. \A k \in WK(s.wrote) : Has(db, "existence", k[1]) /\ Has(db, "existence", k[2])
    BY <1>14, <2>1
  <2>6. QED
    BY <1>1, <1>2, <1>14, <1>15, <2>3, <2>4, <2>5 DEF Edgewise
<1>18. nextE <= nextE + 1 /\ nextE < nextE + 1 /\ nextE + 1 \in Nat
  BY <1>1
<1>22. vs \in SUBSET Vertices /\ \A v \in vs : Live(v)
  OBVIOUS
<1>23. ASSUME NEW v \in vs PROVE Left(s, v, did.left)
  <2>1. IsStore(s) /\ Has(s, "existence", v)
    BY <1>5, <1>11, <1>22 DEF Struct, Base, Vertexwise, Live
  <2>2. Alive(s, v)
    BY <2>1, AliveIs
  <2>3. QED
    BY <1>2, <1>3, <1>5, <1>21, <1>22, <2>2, NamedLeft
<1>19. Ready(deleteVertex(s, vs), did, nextV, nextE + 1)
  BY <1>2, <1>5, <1>6, <1>10, <1>11, <1>17, <1>18, <1>22, <1>23, KillReady
<1>20. QED
  BY <1>19 DEF s, did, i, made, row, DeleteAll

LEMMA SetReady ==
    ASSUME IInv, NEW e \in Nat
    PROVE  Ready(table_put(table_put(deleteEdgeIndexEntries(db, e), "eprop", e, 0), "eidx", e, <<0, 0, 0>>),
                 Nothing, nextV, nextE)
<1> DEFINE n == deleteEdgeIndexEntries(db, e)
           m == table_put(n, "eprop", e, 0)
           s == table_put(m, "eidx", e, <<0, 0, 0>>)
<1>1. /\ Nothing.ins = {} /\ Nothing.kill = {} /\ Nothing.skew = {} /\ Nothing.ghost = {} /\ Nothing.del = {}
      /\ Nothing.strike = {} /\ DOMAIN Nothing = {"ins", "del", "ghost", "skew", "strike", "kill", "left"}
  BY DEF Nothing
<1>2. Struct(db, db, skewed) /\ IsStore(db) /\ db.wrote = {} /\ cap \in Nat
  BY DbStruct
<1>3. /\ Struct(db, n, skewed)
      /\ \A T \in Tables : T # "eidx" => n[T] = db[T]
      /\ \A T, j : <<T, j>> \in n.wrote => T = "eidx" /\ j = e
      /\ \A j : j # e => (Has(n, "eidx", j) <=> Has(db, "eidx", j))
  <2>1. CASE Has(db, "eprop", e)
    <3> DEFINE z == table_del(db, "eidx", e)
    <3>1. n = z
      BY <2>1 DEF deleteEdgeIndexEntries
    <3>2. Struct(db, z, skewed) /\ DelOf(db, z, "eidx", {e})
      BY <1>2, DelBeside
    <3> HIDE DEF z, n
    <3>3. QED
      BY <1>2, <3>1, <3>2 DEF DelOf
  <2>2. CASE ~Has(db, "eprop", e)
    <3>1. n = db
      BY <2>2 DEF deleteEdgeIndexEntries
    <3>2. QED
      BY <1>2, <3>1
  <2>3. QED
    BY <2>1, <2>2
<1> HIDE DEF n
<1>4. [k |-> e, x |-> 0] \in RowsOf("eprop") /\ [k |-> e, x |-> <<0, 0, 0>>] \in RowsOf("eidx")
  BY DEF RowsOf, Payloads
<1>5. Struct(db, m, skewed) /\ PutOf(n, m, "eprop", e, 0)
  BY <1>3, <1>4, PutBeside
<1> HIDE DEF m
<1>6. Struct(db, s, skewed) /\ PutOf(m, s, "eidx", e, <<0, 0, 0>>)
  BY <1>4, <1>5, PutBeside
<1> HIDE DEF s
<1>7. \A T, j : <<T, j>> \in s.wrote <=> <<T, j>> \in n.wrote \/ (T = "eprop" /\ j = e) \/ (T = "eidx" /\ j = e)
  <2>1. s.wrote = n.wrote \cup {<<"eprop", e>>} \cup {<<"eidx", e>>}
    BY <1>5, <1>6 DEF PutOf
  <2>2. QED
    BY <2>1
<1>8. \A j : (<<"eprop", j>> \in s.wrote <=> j = e) /\ (<<"eidx", j>> \in s.wrote <=> j = e)
               /\ <<"etype", j>> \notin s.wrote /\ <<"existence", j>> \notin s.wrote
  BY <1>3, <1>7
<1>9. s["existence"] = db["existence"] /\ s["eprop"] = m["eprop"] /\ m["eidx"] = n["eidx"] /\ n["eprop"] = db["eprop"]
  BY <1>3, <1>5, <1>6, TableNames DEF PutOf
<1>10. \A j : (Has(s, "eidx", j) <=> j = e \/ Has(db, "eidx", j)) /\ (Has(s, "eprop", j) <=> j = e \/ Has(db, "eprop", j))
  <2>1. \A j : (Has(s, "eprop", j) <=> Has(m, "eprop", j)) /\ (Has(m, "eidx", j) <=> Has(n, "eidx", j))
                 /\ (Has(n, "eprop", j) <=> Has(db, "eprop", j))
    BY <1>9 DEF Has
  <2>2. QED
    BY <1>3, <1>5, <1>6, <2>1 DEF PutOf
<1>11. Indexed(s, ghosts \cup Nothing.ghost) /\ IndexWrites(s.wrote, ghosts \cup Nothing.ghost)
  BY <1>1, <1>8, <1>10 DEF Indexed, IndexWrites, IInv, StoreInv
<1>12. Vertexwise(s, Nothing.kill, Nothing.left)
  BY <1>1, <1>8, <1>9 DEF Vertexwise, Has
<1>13. Edgewise(s, Nothing)
  BY <1>1, <1>8 DEF Edgewise, WK
<1>14. IsDid(Nothing) /\ nextE \in Nat /\ skewed \cup Nothing.skew = skewed
  BY <1>1 DEF IsDid, IInv, TypeOK
<1>15. Ready(s, Nothing, nextV, nextE)
  BY <1>1, <1>6, <1>11, <1>12, <1>13, <1>14, EdgeStatement
<1>16. QED
  BY <1>15 DEF s, m, n

LEMMA RemoveReady ==
    ASSUME IInv, NEW e \in Nat, Has(db, "eprop", e)
    PROVE  Ready(table_del(table_del(db, "eprop", e), "eidx", e), Nothing, nextV, nextE)
<1> DEFINE m == table_del(db, "eprop", e)
           s == table_del(m, "eidx", e)
<1>1. /\ Nothing.ins = {} /\ Nothing.kill = {} /\ Nothing.skew = {} /\ Nothing.ghost = {} /\ Nothing.del = {}
      /\ Nothing.strike = {} /\ DOMAIN Nothing = {"ins", "del", "ghost", "skew", "strike", "kill", "left"}
  BY DEF Nothing
<1>2. Struct(db, db, skewed) /\ IsStore(db) /\ db.wrote = {} /\ cap \in Nat
  BY DbStruct
<1>3. Struct(db, m, skewed) /\ DelOf(db, m, "eprop", {e})
  BY <1>2, DelBeside
<1> HIDE DEF m
<1>4. Struct(db, s, skewed) /\ DelOf(m, s, "eidx", {e})
  BY <1>3, DelBeside
<1> HIDE DEF s
<1>5. s["existence"] = db["existence"] /\ s["eprop"] = m["eprop"] /\ m["eidx"] = db["eidx"]
  BY <1>3, <1>4, TableNames DEF DelOf
<1>6. \A j : (Has(s, "eprop", j) <=> Has(m, "eprop", j)) /\ (Has(m, "eidx", j) <=> Has(db, "eidx", j))
               /\ (Has(s, "existence", j) <=> Has(db, "existence", j))
  BY <1>5 DEF Has
<1>7. \A j : (Has(s, "eprop", j) <=> Has(db, "eprop", j) /\ j # e) /\ (Has(s, "eidx", j) <=> Has(db, "eidx", j) /\ j # e)
  BY <1>3, <1>4, <1>6 DEF DelOf
<1>8. \A T, j : <<T, j>> \in m.wrote <=> T = "eprop" /\ j = e
  BY <1>2, <1>3 DEF DelOf
<1>9. \A T, j : <<T, j>> \in s.wrote <=> <<T, j>> \in m.wrote \/ (T = "eidx" /\ j = e /\ Has(db, "eidx", e))
  BY <1>4, <1>6 DEF DelOf
<1>10. \A j : (<<"eprop", j>> \in s.wrote <=> j = e) /\ (<<"eidx", j>> \in s.wrote <=> j = e /\ Has(db, "eidx", e))
               /\ <<"etype", j>> \notin s.wrote /\ <<"existence", j>> \notin s.wrote
  BY <1>8, <1>9
<1>11. Indexed(db, ghosts)
  BY DEF IInv, StoreInv
<1>12. Indexed(s, ghosts \cup Nothing.ghost) /\ IndexWrites(s.wrote, ghosts \cup Nothing.ghost)
  BY <1>1, <1>7, <1>10, <1>11 DEF Indexed, IndexWrites
<1>13. Vertexwise(s, Nothing.kill, Nothing.left)
  BY <1>1, <1>6, <1>10 DEF Vertexwise
<1>14. Edgewise(s, Nothing)
  BY <1>1, <1>10 DEF Edgewise, WK
<1>15. IsDid(Nothing) /\ nextE \in Nat /\ skewed \cup Nothing.skew = skewed
  BY <1>1 DEF IsDid, IInv, TypeOK
<1>16. Ready(s, Nothing, nextV, nextE)
  BY <1>1, <1>4, <1>12, <1>13, <1>14, <1>15, EdgeStatement
<1>17. QED
  BY <1>16 DEF s, m

LEMMA DeleteVertexReady ==
    ASSUME IInv, NEW v \in Vertices, Live(v), scanEdges(db, v, "OUT") = {}, scanEdges(db, v, "IN") = {}
    PROVE  Ready(deleteVertex(db, {v}), [Nothing EXCEPT !.kill = {v}], nextV, nextE)
<1> DEFINE did == [Nothing EXCEPT !.kill = {v}]
<1>1. /\ did.ins = {} /\ did.kill = {v} /\ did.skew = {} /\ did.ghost = {} /\ did.left = {}
      /\ DOMAIN did = {"ins", "del", "ghost", "skew", "strike", "kill", "left"}
  BY DEF Nothing
<1> HIDE DEF did
<1>2. Struct(db, db, skewed) /\ IsStore(db) /\ db.wrote = {} /\ cap \in Nat
  BY DbStruct
<1>11. Alive(db, v)
  BY <1>2, AliveIs DEF Live
<1>3. \A d \in Directions : \A e : e \in scanEdges(db, v, d) <=>
                 e \in Edges /\ EndOf(e, d) = v /\ At(db.etype, <<e.s, e.t, e.q>>, e.e)
  BY <1>2, <1>11, StructScan
<1>4. \A e \in Edges : At(db.etype, <<e.s, e.t, e.q>>, e.e) => e.s # v /\ e.t # v
  BY <1>3, TableNames DEF EndOf
<1>5. Left(db, v, did.left)
  BY <1>4, AllLeft
<1>6. IsDid(did)
  BY <1>1 DEF IsDid
<1>7. WK(db.wrote) = {}
  BY <1>2 DEF WK
<1>8. Indexed(db, ghosts)
  BY DEF IInv, StoreInv
<1>9. Indexed(db, ghosts \cup did.ghost) /\ IndexWrites(db.wrote, ghosts \cup did.ghost)
  BY <1>1, <1>2, <1>8 DEF IndexWrites
<1>10. Vertexwise(db, {}, {}) /\ Edgewise(db, did)
  BY <1>1, <1>2, <1>7 DEF Vertexwise, Edgewise
<1>12. Struct(db, db, skewed \cup did.skew) /\ nextE \in Nat /\ nextE <= nextE
  BY <1>1, DbStruct DEF IInv, TypeOK
<1>13. {v} \in SUBSET Vertices /\ \A u \in {v} : Live(u) /\ Left(db, u, did.left)
  BY <1>5
<1>14. Ready(deleteVertex(db, {v}), did, nextV, nextE)
  BY <1>1, <1>6, <1>9, <1>10, <1>12, <1>13, KillReady
<1>15. QED
  BY <1>14 DEF did

LEMMA DetachReady ==
    ASSUME IInv, NEW v \in Vertices, Live(v)
    PROVE  LET out == scanEdges(db, v, "OUT")
               mid == deleteEdge(db, out)
               in == scanEdges(mid, v, "IN")
           IN Ready(deleteVertex(deleteEdge(mid, in), {v}),
                    [Nothing EXCEPT !.kill = {v}, !.del = {e.e : e \in out \cup in},
                                    !.ghost = {e.e : e \in out \cup in}], nextV, nextE)
<1> DEFINE out == scanEdges(db, v, "OUT")
           mid == deleteEdge(db, out)
           in == scanEdges(mid, v, "IN")
           m == deleteEdge(mid, in)
           ids == {e.e : e \in out \cup in}
           did == [Nothing EXCEPT !.kill = {v}, !.del = ids, !.ghost = ids]
<1>1. /\ did.ins = {} /\ did.kill = {v} /\ did.skew = {} /\ did.ghost = ids /\ did.del = ids /\ did.left = {}
      /\ DOMAIN did = {"ins", "del", "ghost", "skew", "strike", "kill", "left"}
  BY DEF Nothing
<1> HIDE DEF did
<1>2. Struct(db, db, skewed) /\ IsStore(db) /\ db.wrote = {} /\ cap \in Nat
  BY DbStruct
<1>20. Alive(db, v)
  BY <1>2, AliveIs DEF Live
<1>3. /\ out \subseteq Edges /\ IsFiniteSet(out) /\ Counted(db, out, skewed)
      /\ \A e : e \in out <=> e \in Edges /\ EndOf(e, "OUT") = v /\ At(db.etype, <<e.s, e.t, e.q>>, e.e)
  BY <1>2, <1>20, StructScan, TableNames
<1> HIDE DEF out
<1>4. Struct(db, mid, skewed) /\ DeleteOf(db, mid, out)
  BY <1>2, <1>3, DeleteEdgeOp
<1> HIDE DEF mid
<1>21. Alive(mid, v)
  BY <1>4, <1>20 DEF DeleteOf, Alive
<1>5. /\ in \subseteq Edges /\ IsFiniteSet(in) /\ Counted(mid, in, skewed)
      /\ \A e : e \in in <=> e \in Edges /\ EndOf(e, "IN") = v /\ At(mid.etype, <<e.s, e.t, e.q>>, e.e)
  BY <1>2, <1>4, <1>21, StructScan, TableNames
<1> HIDE DEF in
<1>6. Struct(db, m, skewed) /\ DeleteOf(mid, m, in)
  BY <1>2, <1>4, <1>5, DeleteEdgeOp
<1> HIDE DEF m
<1>7. \A j, y : /\ At(mid.etype, j, y) <=> At(db.etype, j, y) /\ j \notin TKeys(out)
                /\ At(m.etype, j, y) <=> At(mid.etype, j, y) /\ j \notin TKeys(in)
  BY <1>4, <1>6 DEF DeleteOf
<1>8. Left(m, v, did.left)
  <2>1. ASSUME NEW e \in Edges, At(m.etype, <<e.s, e.t, e.q>>, e.e) PROVE e.s # v /\ e.t # v
    <3> DEFINE k == <<e.s, e.t, e.q>>
    <3>1. At(mid.etype, k, e.e) /\ At(db.etype, k, e.e) /\ k \notin TKeys(out) /\ k \notin TKeys(in)
      BY <1>7, <2>1
    <3>2. e \notin out /\ e \notin in
      BY <3>1 DEF TKeys
    <3>3. QED
      BY <1>3, <1>5, <3>1, <3>2 DEF EndOf
  <2>2. QED
    BY <2>1, AllLeft
<1>9. \A j : /\ Has(m, "existence", j) <=> Has(db, "existence", j)
             /\ <<"existence", j>> \notin m.wrote
             /\ Has(m, "eidx", j) <=> Has(db, "eidx", j)
             /\ <<"eidx", j>> \notin m.wrote
  <2>1. \A T \in {"existence", "eidx"} : mid[T] = db[T] /\ \A j : <<T, j>> \in mid.wrote <=> <<T, j>> \in db.wrote
    BY <1>4 DEF DeleteOf
  <2>2. \A T \in {"existence", "eidx"} : m[T] = mid[T] /\ \A j : <<T, j>> \in m.wrote <=> <<T, j>> \in mid.wrote
    BY <1>6 DEF DeleteOf
  <2>3. m["existence"] = db["existence"] /\ m["eidx"] = db["eidx"]
    BY <2>1, <2>2
  <2>4. \A j : <<"existence", j>> \notin m.wrote /\ <<"eidx", j>> \notin m.wrote
    BY <1>2, <2>1, <2>2
  <2>5. QED
    BY <2>3, <2>4 DEF Has
<1>10. \A j : j \notin ids => (Has(m, "eprop", j) <=> Has(db, "eprop", j)) /\ <<"eprop", j>> \notin m.wrote
  <2>1. \A j : j \notin ids => j \notin {e.e : e \in out} /\ j \notin {e.e : e \in in}
    OBVIOUS
  <2>2. \A j : j \notin {e.e : e \in out} => (Has(mid, "eprop", j) <=> Has(db, "eprop", j)) /\ <<"eprop", j>> \notin mid.wrote
    BY <1>2, <1>4 DEF DeleteOf
  <2>3. \A j : j \notin {e.e : e \in in} => (Has(m, "eprop", j) <=> Has(mid, "eprop", j))
                   /\ (<<"eprop", j>> \in m.wrote <=> <<"eprop", j>> \in mid.wrote)
    BY <1>6 DEF DeleteOf
  <2> HIDE DEF ids
  <2>4. QED
    BY <2>1, <2>2, <2>3
<1>11. \A e \in out \cup in : e.e \in ids /\ At(db.etype, <<e.s, e.t, e.q>>, e.e)
  BY <1>3, <1>5, <1>7
<1>12. Indexed(db, ghosts)
  BY DEF IInv, StoreInv
<1> HIDE DEF ids
<1>13. Indexed(m, ghosts \cup did.ghost) /\ IndexWrites(m.wrote, ghosts \cup did.ghost)
  BY <1>1, <1>9, <1>10, <1>12 DEF Indexed, IndexWrites
<1>14. ASSUME NEW k \in WK(m.wrote) PROVE k \in TKeys(out) \/ k \in TKeys(in)
  <2>1. <<"etype", k>> \in m.wrote
    BY DEF WK
  <2>2. <<"etype", k>> \in mid.wrote \/ k \in TKeys(in)
    BY <1>6, <2>1 DEF DeleteOf
  <2>3. <<"etype", k>> \in mid.wrote => k \in TKeys(out)
    BY <1>2, <1>4 DEF DeleteOf
  <2>4. QED
    BY <2>2, <2>3
<1>15. ASSUME NEW k \in WK(m.wrote)
       PROVE  /\ Has(db, "etype", k)
              /\ \A x : ~At(m.etype, k, x)
              /\ \A x : At(db.etype, k, x) => x \in did.del
  <2>1. PICK e \in out \cup in : k = <<e.s, e.t, e.q>>
    BY <1>14 DEF TKeys
  <2>2. At(db["etype"], k, e.e) /\ e.e \in ids
    BY <1>11, <2>1
  <2>3. \A x : At(db["etype"], k, x) => x = e.e
    BY <1>2, <2>2, AtFunctional, TableNames
  <2>4. Has(db, "etype", k)
    BY <1>2, <2>2, HasAt, TableNames
  <2>5. \A x : ~At(m.etype, k, x)
    BY <1>7, <1>14
  <2>6. QED
    BY <1>1, <2>2, <2>3, <2>4, <2>5
<1>16. IsDid(did)
  BY <1>1 DEF IsDid
<1>17. Vertexwise(m, {}, {}) /\ Edgewise(m, did)
  BY <1>1, <1>9, <1>15 DEF Vertexwise, Edgewise
<1>18. Struct(db, m, skewed \cup did.skew) /\ nextE \in Nat /\ nextE <= nextE
  BY <1>1, <1>6 DEF IInv, TypeOK
<1>22. {v} \in SUBSET Vertices /\ \A u \in {v} : Live(u) /\ Left(m, u, did.left)
  BY <1>8
<1>23. Ready(deleteVertex(m, {v}), did, nextV, nextE)
  BY <1>1, <1>13, <1>16, <1>17, <1>18, <1>22, KillReady
<1>19. QED
  BY <1>23 DEF m, did, ids, in, mid, out

-----------------------------------------------------------------------------
(* Creating vertices *)

\* What inserting a vertex does.
VertexNew(s, p, v) ==
    /\ IsStore(p)
    /\ \A T \in Tables \ {"existence", "adj_state"} : p[T] = s[T]
    /\ \A T \in Tables \ {"existence", "adj_state"} : \A j : <<T, j>> \in p.wrote <=> <<T, j>> \in s.wrote
    /\ \A j : Has(p, "existence", j) <=> Has(s, "existence", j) \/ j = v
    /\ \A j : <<"existence", j>> \in p.wrote <=> <<"existence", j>> \in s.wrote \/ j = v
    /\ \A u, d, y : At(p.adj_state, <<u, d>>, y) <=>
          IF cap # 0 /\ u = v /\ d \in Directions THEN y = Complete(0) ELSE At(s.adj_state, <<u, d>>, y)
    /\ \A u, d : <<"adj_state", <<u, d>>>> \in p.wrote <=>
          <<"adj_state", <<u, d>>>> \in s.wrote \/ (cap # 0 /\ u = v /\ d \in Directions)
    /\ cap = 0 => p.adj_state = s.adj_state

LEMMA InsertVertexOp ==
    ASSUME cap \in Nat, NEW b, NEW s, IsStore(s), Frame(b, s), NEW v \in Vertices
    PROVE  VertexNew(s, insertVertex(s, v), v) /\ Frame(b, insertVertex(s, v))
<1> DEFINE s1 == table_put(s, "existence", v, 0)
           s2 == table_put(s1, "adj_state", <<v, "OUT">>, Complete(0))
           s3 == table_put(s2, "adj_state", <<v, "IN">>, Complete(0))
<1>1. /\ [k |-> v, x |-> 0] \in RowsOf("existence")
      /\ [k |-> <<v, "OUT">>, x |-> Complete(0)] \in RowsOf("adj_state")
      /\ [k |-> <<v, "IN">>, x |-> Complete(0)] \in RowsOf("adj_state")
  BY DEF RowsOf, Complete, AdjStates, Directions
<1>2. PutOf(s, s1, "existence", v, 0)
  BY <1>1, Put, TableNames
<1>3. Frame(b, s1)
  BY <1>1, FramePut, TableNames
<1>4. s1 = insertVertex(s, v) \/ cap # 0
  BY DEF insertVertex
<1>5. s3 = insertVertex(s, v) \/ cap = 0
  BY DEF insertVertex
<1> HIDE DEF s1
<1>6. /\ IsStore(s1) /\ \A T \in Tables : T # "existence" => s1[T] = s[T]
      /\ \A T, j : <<T, j>> \in s1.wrote <=> <<T, j>> \in s.wrote \/ (T = "existence" /\ j = v)
      /\ \A j : Has(s1, "existence", j) <=> Has(s, "existence", j) \/ j = v
  BY <1>2 DEF PutOf
<1>7. CASE cap = 0
  <2>1. s1["adj_state"] = s["adj_state"]
    BY <1>6, TableNames
  <2>2. /\ \A T \in Tables \ {"existence", "adj_state"} : s1[T] = s[T]
        /\ \A T \in Tables \ {"existence", "adj_state"} : \A j : <<T, j>> \in s1.wrote <=> <<T, j>> \in s.wrote
    BY <1>6
  <2>3. \A j : <<"existence", j>> \in s1.wrote <=> <<"existence", j>> \in s.wrote \/ j = v
    BY <1>6
  <2>4. \A j : <<"adj_state", j>> \in s1.wrote <=> <<"adj_state", j>> \in s.wrote
    BY <1>6
  <2>5. VertexNew(s, s1, v)
    BY <1>6, <1>7, <2>1, <2>2, <2>3, <2>4 DEF VertexNew
  <2>6. QED
    BY <1>3, <1>4, <1>7, <2>5
<1>8. CASE cap # 0
  <2>1. PutOf(s1, s2, "adj_state", <<v, "OUT">>, Complete(0))
    BY <1>1, <1>6, Put, TableNames
  <2>2. Frame(b, s2)
    BY <1>1, <1>3, <1>6, FramePut, TableNames
  <2> HIDE DEF s2
  <2>3. IsStore(s2)
    BY <2>1 DEF PutOf
  <2>4. PutOf(s2, s3, "adj_state", <<v, "IN">>, Complete(0))
    BY <1>1, <2>3, Put, TableNames
  <2>5. Frame(b, s3)
    BY <1>1, <2>2, <2>3, FramePut, TableNames
  <2> HIDE DEF s3
  <2>6. IsStore(s3) /\ \A T \in Tables : T # "adj_state" => s3[T] = s1[T]
    BY <2>1, <2>4 DEF PutOf
  <2>7. s3.wrote = s1.wrote \cup {<<"adj_state", <<v, "OUT">>>>} \cup {<<"adj_state", <<v, "IN">>>>}
    BY <2>1, <2>4 DEF PutOf
  <2>8. \A T, j : <<T, j>> \in s3.wrote <=> <<T, j>> \in s1.wrote \/ (T = "adj_state" /\ j \in {<<v, "OUT">>, <<v, "IN">>})
    BY <2>7
  <2>9. /\ \A T \in Tables \ {"existence", "adj_state"} : s3[T] = s[T]
        /\ s3["existence"] = s1["existence"] /\ s1["adj_state"] = s["adj_state"]
    BY <1>6, <2>6, TableNames
  <2>10. \A T \in Tables \ {"existence", "adj_state"} : \A j : <<T, j>> \in s3.wrote <=> <<T, j>> \in s.wrote
    BY <1>6, <2>8
  <2>11. \A j : Has(s3, "existence", j) <=> Has(s, "existence", j) \/ j = v
    BY <1>6, <2>9 DEF Has
  <2>12. \A j : <<"existence", j>> \in s3.wrote <=> <<"existence", j>> \in s.wrote \/ j = v
    <3>1. \A j : <<"existence", j>> \in s3.wrote <=> <<"existence", j>> \in s1.wrote
      BY <2>8
    <3>2. \A j : <<"existence", j>> \in s1.wrote <=> <<"existence", j>> \in s.wrote \/ j = v
      BY <1>6
    <3>3. QED
      BY <3>1, <3>2
  <2>13. \A u, d : <<u, d>> \in {<<v, "OUT">>, <<v, "IN">>} <=> u = v /\ d \in Directions
    BY DEF Directions
  <2>14. \A u, d : <<"adj_state", <<u, d>>>> \in s3.wrote <=> <<"adj_state", <<u, d>>>> \in s.wrote \/ (u = v /\ d \in Directions)
    <3>1. \A j : <<"adj_state", j>> \in s3.wrote <=> <<"adj_state", j>> \in s1.wrote \/ j \in {<<v, "OUT">>, <<v, "IN">>}
      BY <2>8
    <3>2. \A j : <<"adj_state", j>> \in s1.wrote <=> <<"adj_state", j>> \in s.wrote
      BY <1>6
    <3>3. QED
      BY <2>13, <3>1, <3>2
  <2>15. \A j, y : At(s3["adj_state"], j, y) <=>
            IF j \in {<<v, "OUT">>, <<v, "IN">>} THEN y = Complete(0) ELSE At(s["adj_state"], j, y)
    BY <2>1, <2>4, <2>9 DEF PutOf
  <2>16. \A u, d, y : At(s3["adj_state"], <<u, d>>, y) <=>
            IF u = v /\ d \in Directions THEN y = Complete(0) ELSE At(s["adj_state"], <<u, d>>, y)
    BY <2>13, <2>15
  <2>17. VertexNew(s, s3, v)
    BY <1>8, <2>6, <2>9, <2>10, <2>11, <2>12, <2>14, <2>16 DEF VertexNew
  <2>18. QED
    BY <1>5, <1>8, <2>5, <2>17
<1>9. QED
  BY <1>7, <1>8

\* A vertex whose id was not handed out keeps the invariant of the store.
LEMMA VertexNewInv ==
    ASSUME cap \in Nat, NEW s, NEW p, NEW v \in Vertices, VertexNew(s, p, v), NEW nv \in Nat, nv <= v,
           NEW skew, NEW gone, NEW lap, NEW ack, NEW drop, NEW strike,
           StoreInv(cap, s, nv, skew, gone, lap, ack, drop, strike)
    PROVE  StoreInv(cap, p, v + 1, skew, gone, lap, ack, drop, strike)
<1>1. /\ p["adj_edge"] = s["adj_edge"] /\ p["edge_index"] = s["edge_index"] /\ p["etype"] = s["etype"]
      /\ p["eprop"] = s["eprop"] /\ p["eidx"] = s["eidx"]
  BY TableNames DEF VertexNew
<1>2. IsStore(p) /\ IsStore(s) /\ MaxVertex \in Nat /\ v \in Nat /\ Vertices \subseteq Nat
  BY EdgeStoreAssumption DEF VertexNew, StoreInv, Vertices
<1>3. \A u \in Vertices, d \in Directions : u # v =>
         /\ Comp(p, u, d) <=> Comp(s, u, d)
         /\ Has(p, "adj_state", <<u, d>>) <=> Has(s, "adj_state", <<u, d>>)
  <2>1. \A u, d, y : u # v => (At(p["adj_state"], <<u, d>>, y) <=> At(s["adj_state"], <<u, d>>, y))
    BY DEF VertexNew
  <2>2. QED
    BY <1>2, <2>1, HasAt, TableNames DEF Comp
<1>16. \A u : Alive(p, u) <=> Alive(s, u) \/ u = v
  <2>1. \A u : Has(p, "existence", u) <=> Has(s, "existence", u) \/ u = v
    BY DEF VertexNew
  <2>2. QED
    BY <1>2, <2>1, AliveIs
<1>17. Standing(p)
  BY <1>3, <1>16 DEF StoreInv, Standing
<1>4. \A k \in EdgeKeys : k[1] \in Nat /\ k[2] \in Nat
  BY <1>2 DEF EdgeKeys
<1>5. \A k \in EdgeKeys : \A x : At(s["etype"], k, x) => k[1] # v /\ k[2] # v /\ k[1] < nv /\ k[2] < nv
  <2>1. \A k \in EdgeKeys : \A x : At(s["etype"], k, x) => Has(s, "etype", k)
    BY <1>2, HasAt, TableNames
  <2>2. \A k \in EdgeKeys : Has(s, "etype", k) => k[1] < nv /\ k[2] < nv
    BY DEF StoreInv, Below
  <2>3. QED
    BY <1>2, <1>4, <2>1, <2>2
<1>6. \A d \in Directions, n \in Vertices, q \in Nat, x \in Nat :
         /\ ~At(s["etype"], EKey(d, v, n, q), x) /\ ~At(s["adj_edge"], <<v, d, n, q>>, x)
         /\ ~At(s["edge_index"], <<v, d, n, q>>, x)
  <2> SUFFICES ASSUME NEW d \in Directions, NEW n \in Vertices, NEW q \in Nat, NEW x \in Nat
               PROVE  /\ ~At(s["etype"], EKey(d, v, n, q), x) /\ ~At(s["adj_edge"], <<v, d, n, q>>, x)
                      /\ ~At(s["edge_index"], <<v, d, n, q>>, x)
    OBVIOUS
  <2>1. EKey(d, v, n, q)[1] = v \/ EKey(d, v, n, q)[2] = v
    BY DEF EKey
  <2>2. EKey(d, v, n, q) \in EdgeKeys
    BY EKeyFacts
  <2>3. ~At(s["etype"], EKey(d, v, n, q), x)
    BY <1>5, <2>1, <2>2
  <2>4. CellOK(s, s.etype, d, v, n, q, x)
    BY DEF StoreInv, Sound, Cells
  <2>5. QED
    BY <2>3, <2>4 DEF CellOK
<1>7. Sound(p)
  <2> SUFFICES ASSUME NEW d \in Directions, NEW u \in Vertices, NEW n \in Vertices, NEW q \in Nat, NEW x \in Nat
               PROVE  CellOK(p, p.etype, d, u, n, q, x)
    BY DEF Sound, Cells
  <2>1. CASE u = v
    BY <1>1, <1>6, <2>1 DEF CellOK
  <2>2. CASE u # v
    <3>1. CellOK(s, s.etype, d, u, n, q, x)
      BY DEF StoreInv, Sound, Cells
    <3>2. QED
      BY <1>1, <1>3, <1>16, <2>2, <3>1 DEF CellOK
  <2>3. QED
    BY <2>1, <2>2
<1>8. CapOK(cap, p)
  BY DEF CapOK, VertexNew, StoreInv
<1>9. Below(p, v + 1)
  <2>1. \A u \in Vertices : Has(p, "existence", u) => u < v + 1
    <3>1. \A u \in Vertices : Has(s, "existence", u) => u < nv
      BY DEF StoreInv, Below
    <3>2. \A u \in Vertices : Has(p, "existence", u) => Has(s, "existence", u) \/ u = v
      BY DEF VertexNew
    <3>3. QED
      BY <1>2, <3>1, <3>2
  <2>2. \A u \in Vertices, d \in Directions : Has(p, "adj_state", <<u, d>>) => u < v + 1
    <3>1. \A u \in Vertices, d \in Directions : Has(s, "adj_state", <<u, d>>) => u < nv
      BY DEF StoreInv, Below
    <3>2. \A u \in Vertices, d \in Directions : Has(p, "adj_state", <<u, d>>) => Has(s, "adj_state", <<u, d>>) \/ u = v
      BY <1>3
    <3>3. QED
      BY <1>2, <3>1, <3>2
  <2>3. \A k \in EdgeKeys : Has(p, "etype", k) => k[1] < v + 1 /\ k[2] < v + 1
    <3>1. \A k \in EdgeKeys : Has(s, "etype", k) => k[1] < nv /\ k[2] < nv
      BY DEF StoreInv, Below
    <3>2. \A k : Has(p, "etype", k) <=> Has(s, "etype", k)
      BY <1>1 DEF Has
    <3>3. QED
      BY <1>2, <1>4, <3>1, <3>2
  <2>4. QED
    BY <2>1, <2>2, <2>3 DEF Below
<1>10. Finite(p)
  BY <1>1 DEF StoreInv, Finite
<1>11. ASSUME NEW u \in Vertices, NEW d \in Directions, <<u, d>> \notin skew PROVE Exact(p, u, d)
  <2>1. Exact(s, u, d)
    BY <1>11 DEF StoreInv, Counting
  <2>2. KeysAt(p, u, d) = KeysAt(s, u, d)
    BY <1>1 DEF KeysAt
  <2>3. CASE u = v /\ cap # 0
    <3>1. \A key : key \notin KeysAt(s, v, d)
      <4>1. \A n \in Vertices, q \in Nat : ~Has(s, "adj_edge", <<v, d, n, q>>)
        <5>1. \A j, y : At(s["adj_edge"], j, y) => y \in Nat
          BY <1>2, RowShape, TableNames DEF At, RowsOf
        <5>2. QED
          BY <1>2, <1>6, <5>1, HasAt, TableNames
      <4>2. QED
        BY <1>2, <4>1, KeysAtIs
    <3>2. Cardinality(KeysAt(p, u, d)) = 0
      BY <2>2, <2>3, <3>1, FS_EmptySet
    <3>3. \A n \in Nat : At(p.adj_state, <<u, d>>, Complete(n)) => Complete(n) = Complete(0)
      BY <2>3 DEF VertexNew
    <3>4. \A n \in Nat : Complete(n) = Complete(0) => n = 0
      BY DEF Complete
    <3>5. QED
      BY <3>2, <3>3, <3>4 DEF Exact
  <2>4. CASE ~(u = v /\ cap # 0)
    <3>1. \A y : At(p.adj_state, <<u, d>>, y) <=> At(s.adj_state, <<u, d>>, y)
      BY <2>4 DEF VertexNew
    <3>2. QED
      BY <2>1, <2>2, <3>1 DEF Exact
  <2>5. QED
    BY <2>3, <2>4
<1>12. Indexed(p, gone)
  BY <1>1 DEF StoreInv, Indexed, Has
<1>13. Attached(p, lap)
  BY <1>1 DEF StoreInv, Attached, VertexNew
<1>14. Kept(p, ack, drop, strike)
  BY <1>1 DEF StoreInv, Kept
<1>15. QED
  BY <1>2, <1>7, <1>8, <1>9, <1>10, <1>11, <1>12, <1>13, <1>14, <1>17 DEF StoreInv, Counting

LEMMA CreateVertexReady ==
    ASSUME IInv, nextV <= MaxVertex
    PROVE  Ready(insertVertex(db, nextV), Nothing, nextV + 1, nextE)
<1> DEFINE s == insertVertex(db, nextV)
<1>1. /\ Nothing.ins = {} /\ Nothing.kill = {} /\ Nothing.skew = {} /\ Nothing.ghost = {} /\ Nothing.del = {}
      /\ Nothing.strike = {} /\ Nothing.left = {} /\ DOMAIN Nothing = {"ins", "del", "ghost", "skew", "strike", "kill", "left"}
  BY DEF Nothing
<1>2. /\ IsStore(db) /\ db.wrote = {} /\ cap \in Nat /\ nextV \in Nat /\ nextV \in Vertices /\ nextV <= nextV
      /\ StoreInv(cap, db, nextV, skewed, ghosts, lapped, acked, dropped, struck)
  BY EdgeStoreAssumption DEF IInv, TypeOK, Vertices
<1>3. Frame(db, db)
  BY DEF Frame
<1>4. VertexNew(db, s, nextV) /\ Frame(db, s)
  BY <1>2, <1>3, InsertVertexOp
<1> HIDE DEF s
<1>5. StoreInv(cap, s, nextV + 1, skewed, ghosts, lapped, acked, dropped, struck)
  BY <1>2, <1>4, VertexNewInv
<1>6. StoreInv(cap, s, nextV + 1, skewed \cup Nothing.skew, ghosts \cup Nothing.ghost, lapped \cup Nothing.left,
               acked \cup Nothing.ins, dropped \cup Nothing.del, struck \cup Nothing.strike)
  <2>1. /\ skewed \cup Nothing.skew = skewed /\ ghosts \cup Nothing.ghost = ghosts /\ acked \cup Nothing.ins = acked
        /\ dropped \cup Nothing.del = dropped /\ struck \cup Nothing.strike = struck
        /\ lapped \cup Nothing.left = lapped
    BY <1>1
  <2>2. QED
    BY <1>5, <2>1
<1>7. /\ \A j : <<"existence", j>> \in s.wrote <=> j = nextV
      /\ Has(s, "existence", nextV)
  BY <1>2, <1>4 DEF VertexNew
<1>8. \A T \in Tables \ {"existence", "adj_state"} : \A j : <<T, j>> \notin s.wrote
  BY <1>2, <1>4 DEF VertexNew
<1>9. \A j : /\ <<"etype", j>> \notin s.wrote /\ <<"adj_edge", j>> \notin s.wrote /\ <<"edge_index", j>> \notin s.wrote
             /\ <<"eprop", j>> \notin s.wrote /\ <<"eidx", j>> \notin s.wrote
  BY <1>8, TableNames
<1>10. WK(s.wrote) = {}
  BY <1>9 DEF WK
<1>11. \A d \in Directions : Rules(s.wrote, s, WK(s.wrote), d)
  BY <1>9, <1>10 DEF Rules, RuleOK
<1>12. \A v : Born(s.wrote, s, v) <=> v = nextV
  BY <1>7 DEF Born
<1>13. Grows(s.wrote, db, s)
  <2>1. \A u, d, y : u # nextV => (At(s["adj_state"], <<u, d>>, y) <=> At(db["adj_state"], <<u, d>>, y))
    BY <1>4 DEF VertexNew
  <2>2. IsStore(s)
    BY <1>4 DEF VertexNew
  <2>3. QED
    BY <1>2, <1>12, <2>1, <2>2, HasAt, TableNames DEF Grows, Comp
<1>20. StateRule(s.wrote, db, s)
  <2>1. \A u, d : <<"adj_state", <<u, d>>>> \in s.wrote => u = nextV
    BY <1>2, <1>4 DEF VertexNew
  <2>2. QED
    BY <1>12, <2>1 DEF StateRule
<1>14. IndexWrites(s.wrote, ghosts \cup Nothing.ghost) /\ InsertRule(s.wrote, s, Nothing.ins)
  BY <1>1, <1>9, <1>10 DEF IndexWrites, InsertRule
<1>15. KillRule(s.wrote, db, s, Nothing.kill)
  BY <1>1, <1>7 DEF KillRule
<1>16. BornRule(s.wrote, db, s)
  <2>1. Below(db, nextV) /\ ~(nextV < nextV)
    BY <1>2 DEF StoreInv
  <2>2. ~Has(db, "existence", nextV)
    BY <1>2, <2>1 DEF Below
  <2>3. \A d \in Directions : ~Has(db, "adj_state", <<nextV, d>>)
    BY <1>2, <2>1 DEF Below
  <2>4. \A k \in EdgeKeys : Has(db, "etype", k) => k[1] # nextV /\ k[2] # nextV
    BY <1>2, <2>1 DEF Below
  <2>5. QED
    BY <1>12, <2>2, <2>3, <2>4 DEF BornRule
<1>17. TxWrites(s.wrote, db, s, Nothing, ghosts \cup Nothing.ghost, nextV + 1)
  BY <1>10, <1>11, <1>13, <1>14, <1>15, <1>16, <1>20 DEF TxWrites
<1>18. IsDid(Nothing)
  BY <1>1 DEF IsDid
<1>19. QED
  BY <1>1, <1>2, <1>4, <1>6, <1>10, <1>12, <1>17, <1>18 DEF Ready, s

-----------------------------------------------------------------------------
(* The initial state *)

LEMMA InitInv ==
    ASSUME Init
    PROVE  IInv
<1> DEFINE empty == [t \in Tables \cup {"wrote"} |-> {}]
           s1 == insertVertex(empty, 1)
           s2 == insertVertex(s1, 2)
<1>1. /\ cap \in Nat /\ db = CommitInto(empty, s2) /\ tx = [t \in Txns |-> NoTx] /\ nextV = 3 /\ nextE = 1
      /\ events = 0 /\ acked = {} /\ dropped = {} /\ ghosts = {} /\ skewed = {} /\ struck = {} /\ lapped = {}
  BY EdgeStoreAssumption DEF Init
<1>2. 1 \in Vertices /\ 2 \in Vertices
  BY EdgeStoreAssumption DEF Vertices
<1>3. IsStore(empty) /\ \A T \in Tables : empty[T] = {}
  BY DEF IsStore
<1> HIDE DEF empty
<1>4. Frame(empty, empty)
  BY DEF Frame
<1>5. VertexNew(empty, s1, 1) /\ Frame(empty, s1)
  BY <1>1, <1>2, <1>3, <1>4, InsertVertexOp
<1> HIDE DEF s1
<1>6. IsStore(s1)
  BY <1>5 DEF VertexNew
<1>7. VertexNew(s1, s2, 2) /\ Frame(empty, s2)
  BY <1>1, <1>2, <1>5, <1>6, InsertVertexOp
<1> HIDE DEF s2
<1>8. StoreInv(cap, empty, 1, {}, {}, {}, {}, {}, {})
  <2>1. /\ empty["existence"] = {} /\ empty["adj_state"] = {} /\ empty["adj_edge"] = {} /\ empty["edge_index"] = {}
        /\ empty["etype"] = {} /\ empty["eprop"] = {} /\ empty["eidx"] = {}
    BY <1>3, TableNames
  <2>2. CapOK(cap, empty) /\ Below(empty, 1) /\ Standing(empty)
    BY <2>1 DEF CapOK, Below, Standing, Has
  <2>3. Sound(empty)
    BY <2>1 DEF Sound, Cells, CellOK, Comp, At
  <2>4. Finite(empty)
    BY <2>1, FS_EmptySet DEF Finite
  <2>5. Counting(empty, {})
    BY <2>1 DEF Counting, Exact, At
  <2>6. Indexed(empty, {}) /\ Attached(empty, {}) /\ Kept(empty, {}, {}, {})
    BY <2>1 DEF Indexed, Attached, Kept, Has, At
  <2>7. QED
    BY <1>3, <2>2, <2>3, <2>4, <2>5, <2>6 DEF StoreInv
<1>9. StoreInv(cap, s1, 2, {}, {}, {}, {}, {}, {})
  <2>1. StoreInv(cap, s1, 1 + 1, {}, {}, {}, {}, {}, {})
    <3>1. 1 <= 1 /\ 1 \in Nat
      OBVIOUS
    <3>2. QED
      BY <1>1, <1>2, <1>5, <1>8, <3>1, VertexNewInv
  <2>2. 1 + 1 = 2
    OBVIOUS
  <2>3. QED
    BY <2>1, <2>2
<1>10. StoreInv(cap, s2, 3, {}, {}, {}, {}, {}, {})
  <2>1. StoreInv(cap, s2, 2 + 1, {}, {}, {}, {}, {}, {})
    <3>1. 2 <= 2 /\ 2 \in Nat
      OBVIOUS
    <3>2. QED
      BY <1>1, <1>2, <1>7, <1>9, <3>1, VertexNewInv
  <2>2. 2 + 1 = 3
    OBVIOUS
  <2>3. QED
    BY <2>1, <2>2
<1>11. IsStore(s2)
  BY <1>7 DEF VertexNew
<1>12. SameTables(s2, db) /\ db.wrote = {}
  BY <1>1, <1>3, <1>7, <1>11, AfterSame, CommitShape
<1>13. StoreInv(cap, db, nextV, skewed, ghosts, lapped, acked, dropped, struck)
  BY <1>1, <1>10, <1>12, SameTablesInv
<1>14. \A t \in Txns : tx[t] = NoTx /\ tx[t].on = FALSE
  BY <1>1 DEF NoTx
<1>15. TypeOK
  <2>1. IsStore(db)
    BY <1>12 DEF SameTables
  <2>2. \A t \in Txns : tx[t].on \in BOOLEAN
    BY <1>14
  <2>3. QED
    BY <1>1, <1>12, <2>1, <2>2 DEF TypeOK
<1>16. Open = {}
  BY <1>14 DEF Open
<1>17. QED
  BY <1>1, <1>13, <1>15, <1>16 DEF IInv

-----------------------------------------------------------------------------
(* Two transactions that commit one after the other: b is the store before,  *)
(* m and p what either commit alone makes of it, c what both do; w and u are *)
(* the keys the transactions wrote.                                          *)

MixAt(b, m, p, c, w, u, T, key, val) ==
    /\ <<T, key>> \notin w => (At(m[T], key, val) <=> At(b[T], key, val)) /\ (At(c[T], key, val) <=> At(p[T], key, val))
    /\ <<T, key>> \notin u => (At(p[T], key, val) <=> At(b[T], key, val)) /\ (At(c[T], key, val) <=> At(m[T], key, val))

Mix(b, m, p, c, w, u) ==
    /\ IsStore(b) /\ IsStore(m) /\ IsStore(p) /\ IsStore(c)
    /\ w \cap u = {}
    /\ \A T \in Tables : \A key, val : MixAt(b, m, p, c, w, u, T, key, val)

Pair(b, m, p, c, w, u, did, did2, gone, gone2, n, lap) ==
    /\ Mix(b, m, p, c, w, u)
    /\ TxWrites(w, b, m, did, gone, n) /\ TxWrites(u, b, p, did2, gone2, n)
    /\ Apart(w, m, did, u, did2, lap) /\ Apart(u, p, did2, w, did, lap)
    /\ IsDid(did) /\ IsDid(did2)
    /\ Standing(b) /\ Standing(m) /\ Standing(p)

LEMMA PairTurned ==
    ASSUME NEW b, NEW m, NEW p, NEW c, NEW w, NEW u, NEW did, NEW did2, NEW gone, NEW gone2, NEW n, NEW lap,
           Pair(b, m, p, c, w, u, did, did2, gone, gone2, n, lap)
    PROVE  Pair(b, p, m, c, u, w, did2, did, gone2, gone, n, lap)
<1>1. Mix(b, p, m, c, u, w)
  BY DEF Pair, Mix, MixAt
<1>2. QED
  BY <1>1 DEF Pair

HasMix(b, m, p, c, w, u, T, key) ==
    /\ <<T, key>> \notin w => (Has(m, T, key) <=> Has(b, T, key)) /\ (Has(c, T, key) <=> Has(p, T, key))
    /\ <<T, key>> \notin u => (Has(p, T, key) <=> Has(b, T, key)) /\ (Has(c, T, key) <=> Has(m, T, key))

CompMix(b, m, p, c, w, u, v, d) ==
    /\ <<"adj_state", <<v, d>>>> \notin w => (Comp(m, v, d) <=> Comp(b, v, d)) /\ (Comp(c, v, d) <=> Comp(p, v, d))
    /\ <<"adj_state", <<v, d>>>> \notin u => (Comp(p, v, d) <=> Comp(b, v, d)) /\ (Comp(c, v, d) <=> Comp(m, v, d))

LEMMA MixHas ==
    ASSUME NEW b, NEW m, NEW p, NEW c, NEW w, NEW u, Mix(b, m, p, c, w, u), NEW T \in Tables, NEW key
    PROVE  HasMix(b, m, p, c, w, u, T, key)
<1>1. \A val : MixAt(b, m, p, c, w, u, T, key, val)
  BY DEF Mix
<1>2. /\ Has(b, T, key) <=> \E val : At(b[T], key, val)
      /\ Has(m, T, key) <=> \E val : At(m[T], key, val)
      /\ Has(p, T, key) <=> \E val : At(p[T], key, val)
      /\ Has(c, T, key) <=> \E val : At(c[T], key, val)
  BY HasAt DEF Mix
<1>3. QED
  BY <1>1, <1>2 DEF MixAt, HasMix

LEMMA MixComp ==
    ASSUME NEW b, NEW m, NEW p, NEW c, NEW w, NEW u, Mix(b, m, p, c, w, u), NEW v, NEW d
    PROVE  CompMix(b, m, p, c, w, u, v, d)
<1>1. \A val : MixAt(b, m, p, c, w, u, "adj_state", <<v, d>>, val)
  BY TableNames DEF Mix
<1>2. QED
  BY <1>1 DEF MixAt, Comp, CompMix

\* Where one transaction wrote an edge but not the state of its end, the end
\* is not cached, whoever commits.
LEMMA MixPlain ==
    ASSUME NEW b, NEW m, NEW p, NEW c, NEW w, NEW u, NEW did, NEW did2, NEW gone, NEW gone2, NEW n, NEW lap,
           Pair(b, m, p, c, w, u, did, did2, gone, gone2, n, lap),
           NEW d \in Directions, NEW v \in Vertices, NEW x \in Vertices, NEW q \in Nat,
           <<"adj_state", <<v, d>>>> \notin u, EKey(d, v, x, q) \in WK(u)
    PROVE  ~Comp(p, v, d) /\ ~Comp(m, v, d) /\ ~Comp(c, v, d)
<1>1. RuleOK(u, p, WK(u), d, v, x, q)
  BY DEF Pair, TxWrites, Rules
<1>2. ~Comp(p, v, d)
  BY <1>1 DEF RuleOK, Lost
<1>3. (Comp(p, v, d) <=> Comp(b, v, d)) /\ (Comp(c, v, d) <=> Comp(m, v, d))
  BY MixComp DEF Pair, CompMix
<1>4. EKey(d, v, x, q)[1] = v \/ EKey(d, v, x, q)[2] = v
  BY DEF EKey
<1>5. ~Born(w, m, v)
  BY <1>4 DEF Pair, Apart
<1>6. Comp(m, v, d) => Comp(b, v, d)
  BY <1>5 DEF Pair, TxWrites, Grows
<1>7. QED
  BY <1>2, <1>3, <1>6

LEMMA MixAlive ==
    ASSUME NEW b, NEW m, NEW p, NEW c, NEW w, NEW u, Mix(b, m, p, c, w, u), NEW v
    PROVE  /\ <<"existence", v>> \notin w => (Alive(m, v) <=> Alive(b, v)) /\ (Alive(c, v) <=> Alive(p, v))
           /\ <<"existence", v>> \notin u => (Alive(p, v) <=> Alive(b, v)) /\ (Alive(c, v) <=> Alive(m, v))
           /\ <<"existence", v>> \notin w \/ <<"existence", v>> \notin u
<1>1. MixAt(b, m, p, c, w, u, "existence", v, 0) /\ w \cap u = {}
  BY TableNames DEF Mix
<1>2. QED
  BY <1>1 DEF MixAt, Alive

\* The other commit does not bring the ends of a written edge to life.
LEMMA MixEnd ==
    ASSUME NEW b, NEW m, NEW p, NEW c, NEW w, NEW u, NEW did, NEW did2, NEW gone, NEW gone2, NEW n, NEW lap,
           Pair(b, m, p, c, w, u, did, did2, gone, gone2, n, lap),
           NEW d \in Directions, NEW v \in Vertices, NEW x \in Vertices, NEW q \in Nat, EKey(d, v, x, q) \in WK(u)
    PROVE  ~Born(w, m, v) /\ (Alive(c, v) => Alive(p, v))
<1>1. EKey(d, v, x, q)[1] = v \/ EKey(d, v, x, q)[2] = v
  BY DEF EKey
<1>2. ~Born(w, m, v)
  BY <1>1 DEF Pair, Apart
<1>3. Alive(m, v) => <<"existence", v>> \notin w
  BY <1>2, AliveIs DEF Born, Pair, Mix
<1>4. QED
  BY <1>2, <1>3, MixAlive DEF Pair

\* What a deleted vertex lost does not come back with the other commit.
LEMMA MixLost ==
    ASSUME NEW b, NEW m, NEW p, NEW c, NEW w, NEW u, NEW did, NEW did2, NEW gone, NEW gone2, NEW n, NEW lap,
           Pair(b, m, p, c, w, u, did, did2, gone, gone2, n, lap),
           NEW d \in Directions, NEW v \in Vertices, NEW x \in Vertices, NEW q \in Nat,
           <<"adj_state", <<v, d>>>> \notin u, EKey(d, v, x, q) \in WK(u), <<"edge_index", <<v, d, x, q>>>> \notin u
    PROVE  Lost(p, d, v, x, q) /\ Lost(c, d, v, x, q)
<1> DEFINE j == <<v, d, x, q>>
           k == EKey(d, v, x, q)
<1>1. Mix(b, m, p, c, w, u) /\ w \cap u = {} /\ IsStore(b) /\ IsStore(m) /\ IsStore(p)
  BY DEF Pair, Mix
<1>2. RuleOK(u, p, WK(u), d, v, x, q) /\ RuleOK(w, m, WK(w), d, v, x, q)
  BY DEF Pair, TxWrites, Rules
<1>3. Lost(p, d, v, x, q)
  BY <1>2 DEF RuleOK
<1>4. ~Comp(c, v, d)
  BY MixPlain
<1>5. ~Born(w, m, v) /\ (Alive(c, v) => Alive(p, v))
  BY MixEnd
<1>6. ~Alive(p, v)
  BY <1>3 DEF Lost
<1>7. ~Has(b, "adj_state", <<v, d>>)
  <2>1. CASE ~Alive(b, v)
    BY <2>1 DEF Pair, Standing
  <2>2. CASE Alive(b, v)
    <3>1. <<"existence", v>> \in u
      BY <1>1, <1>6, <2>2, MixAlive
    <3>2. ~Has(p, "existence", v)
      BY <1>1, <1>6, AliveIs
    <3>3. v \in did2.kill
      BY <3>1, <3>2 DEF Pair, TxWrites, KillRule
    <3>4. QED
      BY <3>3 DEF Pair, TxWrites, KillRule
  <2>3. QED
    BY <2>1, <2>2
<1>8. <<"adj_state", <<v, d>>>> \notin w
  BY <1>5, <1>7 DEF Pair, TxWrites, StateRule
<1>9. k \notin WK(w)
  BY <1>1 DEF WK
<1>10. <<"edge_index", j>> \notin w
  BY <1>2, <1>8, <1>9 DEF RuleOK
<1>11. ASSUME NEW y PROVE ~At(c.edge_index, j, y)
  <2>1. MixAt(b, m, p, c, w, u, "edge_index", j, y)
    BY <1>1, TableNames DEF Mix
  <2>2. ~At(p["edge_index"], j, y)
    BY <1>3 DEF Lost
  <2>3. QED
    BY <1>10, <2>1, <2>2 DEF MixAt
<1>12. QED
  BY <1>3, <1>4, <1>5, <1>6, <1>11 DEF Lost

LEMMA MixStanding ==
    ASSUME NEW b, NEW m, NEW p, NEW c, NEW w, NEW u, NEW did, NEW did2, NEW gone, NEW gone2, NEW n, NEW lap,
           Pair(b, m, p, c, w, u, did, did2, gone, gone2, n, lap),
           NEW d \in Directions, NEW v \in Vertices, <<"adj_state", <<v, d>>>> \notin u, Has(c, "adj_state", <<v, d>>)
    PROVE  Alive(c, v)
<1>1. Mix(b, m, p, c, w, u) /\ IsStore(b) /\ IsStore(m) /\ IsStore(p)
  BY DEF Pair, Mix
<1>2. Has(m, "adj_state", <<v, d>>)
  BY <1>1, MixHas, TableNames DEF HasMix
<1>3. Alive(m, v)
  BY <1>2 DEF Pair, Standing
<1>4. CASE <<"existence", v>> \notin u
  BY <1>1, <1>3, <1>4, MixAlive
<1>5. CASE <<"existence", v>> \in u
  <2>1. <<"existence", v>> \notin w /\ (Alive(c, v) <=> Alive(p, v))
    BY <1>1, <1>5, MixAlive
  <2>2. Has(b, "adj_state", <<v, d>>)
    BY <1>2, <2>1 DEF Pair, TxWrites, Grows, Born
  <2>3. v \notin did2.kill
    BY <2>2 DEF Pair, TxWrites, KillRule
  <2>4. Has(p, "existence", v)
    BY <1>5, <2>3 DEF Pair, TxWrites, KillRule
  <2>5. QED
    BY <1>1, <2>1, <2>4, AliveIs
<1>6. QED
  BY <1>4, <1>5

LEMMA MixCell ==
    ASSUME NEW b, NEW m, NEW p, NEW c, NEW w, NEW u, NEW did, NEW did2, NEW gone, NEW gone2, NEW n, NEW lap,
           Pair(b, m, p, c, w, u, did, did2, gone, gone2, n, lap), Sound(m), Sound(p),
           NEW d \in Directions, NEW v \in Vertices, NEW x \in Vertices, NEW q \in Nat, NEW y \in Nat,
           <<"adj_state", <<v, d>>>> \notin u
    PROVE  CellOK(c, c.etype, d, v, x, q, y)
<1> DEFINE j == <<v, d, x, q>>
           k == EKey(d, v, x, q)
<1>1. CellOK(m, m.etype, d, v, x, q, y) /\ CellOK(p, p.etype, d, v, x, q, y)
  BY DEF Sound, Cells
<1>2. RuleOK(u, p, WK(u), d, v, x, q)
  BY DEF Pair, TxWrites, Rules
<1>3. /\ MixAt(b, m, p, c, w, u, "adj_edge", j, y) /\ MixAt(b, m, p, c, w, u, "edge_index", j, y)
      /\ MixAt(b, m, p, c, w, u, "etype", k, y)
  BY TableNames DEF Pair, Mix
<1>4. k \in EdgeKeys
  BY EKeyFacts
<1>5. k \in WK(u) <=> <<"etype", k>> \in u
  BY <1>4 DEF WK
<1>6. <<"adj_edge", j>> \notin u /\ (<<"edge_index", j>> \in u => k \in WK(u))
  BY <1>2 DEF RuleOK
<1>7. Comp(c, v, d) <=> Comp(m, v, d)
  BY MixComp DEF Pair, CompMix
<1>8. Mix(b, m, p, c, w, u) /\ w \cap u = {} /\ IsStore(b) /\ IsStore(p)
  BY DEF Pair, Mix
<1>12. At(c["adj_edge"], j, y) <=> At(m["adj_edge"], j, y)
  BY <1>3, <1>6 DEF MixAt
<1>9. CASE k \notin WK(u)
  <2>1. /\ At(c["edge_index"], j, y) <=> At(m["edge_index"], j, y)
        /\ At(c["etype"], k, y) <=> At(m["etype"], k, y)
    BY <1>3, <1>5, <1>6, <1>9 DEF MixAt
  <2>2. ASSUME Alive(c, v), ~Alive(m, v) PROVE ~At(m["etype"], k, y)
    <3>1. <<"existence", v>> \in u /\ Alive(p, v)
      BY <1>8, <2>2, MixAlive
    <3>2. Born(u, p, v)
      BY <1>8, <3>1, AliveIs DEF Born
    <3>3. k[1] = v \/ k[2] = v
      BY DEF EKey
    <3>4. ~Has(b, "etype", k)
      BY <1>4, <3>2, <3>3 DEF Pair, TxWrites, BornRule
    <3>5. k \notin WK(w)
      BY <3>2, <3>3 DEF Pair, Apart
    <3>6. <<"etype", k>> \notin w
      BY <1>4, <3>5 DEF WK
    <3>7. ~At(b["etype"], k, y)
      BY <1>8, <3>4, HasAt, TableNames
    <3>8. QED
      BY <1>3, <3>6, <3>7 DEF MixAt
  <2>3. QED
    BY <1>1, <1>7, <1>12, <2>1, <2>2 DEF CellOK
<1>10. CASE k \in WK(u) /\ <<"edge_index", j>> \in u
  <2>1. ~Comp(p, v, d) /\ ~Comp(m, v, d) /\ ~Comp(c, v, d)
    BY <1>10, MixPlain
  <2>2. <<"etype", k>> \notin w /\ <<"edge_index", j>> \notin w
    BY <1>5, <1>8, <1>10
  <2>3. /\ At(c["edge_index"], j, y) <=> At(p["edge_index"], j, y)
        /\ At(c["etype"], k, y) <=> At(p["etype"], k, y)
    BY <1>3, <2>2 DEF MixAt
  <2>4. Alive(c, v) => Alive(p, v)
    BY <1>10, MixEnd
  <2>5. QED
    BY <1>1, <1>12, <2>1, <2>3, <2>4 DEF CellOK
<1>13. CASE k \in WK(u) /\ <<"edge_index", j>> \notin u
  <2>1. ~Comp(m, v, d) /\ ~Comp(c, v, d)
    BY <1>13, MixPlain
  <2>2. Lost(c, d, v, x, q)
    BY <1>13, MixLost
  <2>3. ~Alive(c, v) /\ ~At(c.edge_index, j, y)
    BY <2>2 DEF Lost
  <2>4. QED
    BY <1>1, <1>12, <2>1, <2>3 DEF CellOK
<1>11. QED
  BY <1>9, <1>10, <1>13

LEMMA MixExact ==
    ASSUME NEW b, NEW m, NEW p, NEW c, NEW w, NEW u, NEW did, NEW did2, NEW gone, NEW gone2, NEW n, NEW lap,
           Pair(b, m, p, c, w, u, did, did2, gone, gone2, n, lap),
           NEW d \in Directions, NEW v \in Vertices, <<"adj_state", <<v, d>>>> \notin u, Exact(m, v, d)
    PROVE  Exact(c, v, d)
<1>1. \A x \in Vertices, q \in Nat : <<"adj_edge", <<v, d, x, q>>>> \notin u
  BY DEF Pair, TxWrites, Rules, RuleOK
<1>2. \A x \in Vertices, q \in Nat : Has(c, "adj_edge", <<v, d, x, q>>) <=> Has(m, "adj_edge", <<v, d, x, q>>)
  BY <1>1, MixHas, TableNames DEF Pair, HasMix
<1>3. \A key : key \in KeysAt(c, v, d) <=> key \in KeysAt(m, v, d)
  <2>1. IsStore(c) /\ IsStore(m)
    BY DEF Pair, Mix
  <2>2. QED
    BY <1>2, <2>1, KeysAtIs
<1>4. KeysAt(c, v, d) = KeysAt(m, v, d)
  BY <1>3
<1>5. \A y : MixAt(b, m, p, c, w, u, "adj_state", <<v, d>>, y)
  BY TableNames DEF Pair, Mix
<1>6. \A y : At(c["adj_state"], <<v, d>>, y) <=> At(m["adj_state"], <<v, d>>, y)
  BY <1>5 DEF MixAt
<1>7. QED
  BY <1>4, <1>6 DEF Exact

LEMMA MixAttached ==
    ASSUME NEW b, NEW m, NEW p, NEW c, NEW w, NEW u, NEW did, NEW did2, NEW gone, NEW gone2, NEW n, NEW lap,
           Pair(b, m, p, c, w, u, did, did2, gone, gone2, n, lap), Attached(m, lap), Attached(p, lap),
           NEW k \in EdgeKeys, NEW x \in Nat, At(c.etype, k, x), NEW v, v = k[1] \/ v = k[2], k \notin WK(u)
    PROVE  Has(c, "existence", v) \/ <<x, v>> \in lap
<1>1. <<"etype", k>> \notin u /\ (k \in WK(w) <=> <<"etype", k>> \in w)
  BY DEF WK
<1>2. MixAt(b, m, p, c, w, u, "etype", k, x)
  BY TableNames DEF Pair, Mix
<1>3. At(m["etype"], k, x)
  BY <1>1, <1>2 DEF MixAt
<1>4. Has(m, "existence", v) \/ <<x, v>> \in lap
  BY <1>3 DEF Attached
<1>5. /\ <<"existence", v>> \notin u => (Has(c, "existence", v) <=> Has(m, "existence", v))
      /\ <<"existence", v>> \notin w => (Has(c, "existence", v) <=> Has(p, "existence", v))
  BY MixHas, TableNames DEF Pair, HasMix
<1>6. w \cap u = {} /\ v \in Vertices
  BY DEF Pair, Mix, EdgeKeys
<1>7. CASE <<"existence", v>> \notin u
  BY <1>4, <1>5, <1>7
<1>8. CASE <<"existence", v>> \in u /\ Has(p, "existence", v)
  BY <1>5, <1>6, <1>8
<1>9. CASE <<"existence", v>> \in u /\ ~Has(p, "existence", v)
  <2>1. v \in did2.kill
    BY <1>6, <1>9 DEF Pair, TxWrites, KillRule
  <2>2. CASE k \in WK(w)
    <3> DEFINE i == [e |-> x, s |-> k[1], t |-> k[2], q |-> k[3]]
    <3>1. i \in did.ins
      BY <1>3, <2>2 DEF Pair, TxWrites, InsertRule
    <3>2. i.e = x /\ (v = i.s \/ v = i.t)
      OBVIOUS
    <3> HIDE DEF i
    <3>3. <<i.e, v>> \in lap
      BY <2>1, <3>1, <3>2 DEF Pair, Apart
    <3>4. QED
      BY <3>2, <3>3
  <2>3. CASE k \notin WK(w)
    <3>1. At(p["etype"], k, x)
      BY <1>1, <1>2, <2>3 DEF MixAt
    <3>2. QED
      BY <1>9, <3>1 DEF Attached
  <2>4. QED
    BY <2>2, <2>3
<1>10. QED
  BY <1>7, <1>8, <1>9

KeptAt(s, a, ack, drop, strike) ==
    a.e \in drop \/ At(s.etype, <<a.s, a.t, a.q>>, a.e) \/ a.e \in strike
      \/ \E z \in ack : z.e # a.e /\ z.s = a.s /\ z.t = a.t /\ z.q = a.q

LEMMA MixKept ==
    ASSUME NEW b, NEW m, NEW p, NEW c, NEW w, NEW u, NEW did, NEW did2, NEW gone, NEW gone2, NEW n, NEW lap,
           Pair(b, m, p, c, w, u, did, did2, gone, gone2, n, lap),
           NEW ack, NEW drop, NEW strike, ack \subseteq Edges,
           Kept(m, ack \cup did.ins, drop, strike),
           NEW a, a \in ack \/ a \in did.ins \/ a \in did2.ins, <<a.s, a.t, a.q>> \notin WK(u)
    PROVE  KeptAt(c, a, ack \cup did.ins, drop, strike)
<1> DEFINE k == <<a.s, a.t, a.q>>
<1>1. a \in ack \cup did.ins
  BY DEF Pair, TxWrites, InsertRule
<1>2. k \in EdgeKeys
  BY <1>1 DEF Pair, IsDid, Edges, EdgeKeys
<1>3. <<"etype", k>> \notin u
  BY <1>2 DEF WK
<1>4. MixAt(b, m, p, c, w, u, "etype", k, a.e)
  BY TableNames DEF Pair, Mix
<1>5. At(m["etype"], k, a.e) => At(c["etype"], k, a.e)
  BY <1>3, <1>4 DEF MixAt
<1>6. QED
  BY <1>1, <1>5 DEF Kept, KeptAt

LEMMA MixStore ==
    ASSUME NEW b, NEW m, NEW p, NEW c, NEW w, NEW u, NEW did, NEW did2, NEW gone, NEW gone2, NEW n, NEW lap,
           Pair(b, m, p, c, w, u, did, did2, gone, gone2, n, lap),
           NEW cc, NEW ack, ack \subseteq Edges, NEW skew, NEW skew2, NEW drop, NEW drop2, NEW strike, NEW strike2,
           StoreInv(cc, m, n, skew, gone, lap, ack \cup did.ins, drop, strike),
           StoreInv(cc, p, n, skew2, gone2, lap, ack \cup did2.ins, drop2, strike2)
    PROVE  StoreInv(cc, c, n, skew \cup skew2, gone \cup gone2, lap, ack \cup did.ins \cup did2.ins,
                    drop \cup drop2, strike \cup strike2)
<1>1. /\ Mix(b, m, p, c, w, u) /\ IsStore(m) /\ IsStore(p) /\ IsStore(c) /\ w \cap u = {}
      /\ Pair(b, p, m, c, u, w, did2, did, gone2, gone, n, lap)
  BY PairTurned DEF Pair, Mix
<1>2. ASSUME NEW T \in Tables, NEW r \in c[T] PROVE r \in m[T] \cup p[T]
  <2>1. r = [k |-> r.k, x |-> r.x]
    BY <1>1, RowShape
  <2>2. At(c[T], r.k, r.x)
    BY <2>1 DEF At
  <2>3. MixAt(b, m, p, c, w, u, T, r.k, r.x)
    BY <1>1 DEF Mix
  <2>4. <<T, r.k>> \notin w \/ <<T, r.k>> \notin u
    BY <1>1
  <2>5. At(m[T], r.k, r.x) \/ At(p[T], r.k, r.x)
    BY <2>2, <2>3, <2>4 DEF MixAt
  <2>6. QED
    BY <2>1, <2>5 DEF At
<1>3. \A T \in Tables : \A j : Has(c, T, j) => Has(m, T, j) \/ Has(p, T, j)
  BY <1>2 DEF Has
<1>4. CapOK(cc, c)
  <2>1. c["adj_state"] \subseteq m["adj_state"] \cup p["adj_state"]
    BY <1>2, TableNames
  <2>2. QED
    BY <2>1 DEF StoreInv, CapOK
<1>5. Below(c, n)
  BY <1>3, TableNames DEF StoreInv, Below
<1>6. Finite(c)
  <2>1. /\ c["adj_edge"] \subseteq m["adj_edge"] \cup p["adj_edge"]
        /\ c["edge_index"] \subseteq m["edge_index"] \cup p["edge_index"]
    BY <1>2, TableNames
  <2>2. IsFiniteSet(m["adj_edge"] \cup p["adj_edge"]) /\ IsFiniteSet(m["edge_index"] \cup p["edge_index"])
    BY FS_Union DEF StoreInv, Finite
  <2>3. QED
    BY <2>1, <2>2, FS_Subset DEF Finite
<1>7. Sound(c)
  <2> SUFFICES ASSUME NEW d \in Directions, NEW v \in Vertices, NEW x \in Vertices, NEW q \in Nat, NEW y \in Nat
               PROVE  CellOK(c, c.etype, d, v, x, q, y)
    BY DEF Sound, Cells
  <2>1. Sound(m) /\ Sound(p)
    BY DEF StoreInv
  <2>2. CASE <<"adj_state", <<v, d>>>> \notin u
    BY <2>1, <2>2, MixCell
  <2>3. CASE <<"adj_state", <<v, d>>>> \notin w
    BY <1>1, <2>1, <2>3, MixCell
  <2>4. QED
    BY <1>1, <2>2, <2>3
<1>14. Standing(c)
  <2> SUFFICES ASSUME NEW v \in Vertices, NEW d \in Directions, Has(c, "adj_state", <<v, d>>) PROVE Alive(c, v)
    BY DEF Standing
  <2>1. CASE <<"adj_state", <<v, d>>>> \notin u
    BY <2>1, MixStanding
  <2>2. CASE <<"adj_state", <<v, d>>>> \notin w
    BY <1>1, <2>2, MixStanding
  <2>3. QED
    BY <1>1, <2>1, <2>2
<1>8. Counting(c, skew \cup skew2)
  <2> SUFFICES ASSUME NEW d \in Directions, NEW v \in Vertices, <<v, d>> \notin skew \cup skew2
               PROVE  Exact(c, v, d)
    BY DEF Counting
  <2>1. Exact(m, v, d) /\ Exact(p, v, d)
    BY DEF StoreInv, Counting
  <2>2. CASE <<"adj_state", <<v, d>>>> \notin u
    BY <2>1, <2>2, MixExact
  <2>3. CASE <<"adj_state", <<v, d>>>> \notin w
    BY <1>1, <2>1, <2>3, MixExact
  <2>4. QED
    BY <1>1, <2>2, <2>3
<1>9. Indexed(c, gone \cup gone2)
  <2> SUFFICES ASSUME NEW e \in Nat, e \notin gone, e \notin gone2
               PROVE  Has(c, "eidx", e) <=> Has(c, "eprop", e)
    BY DEF Indexed
  <2>1. (Has(m, "eidx", e) <=> Has(m, "eprop", e)) /\ (Has(p, "eidx", e) <=> Has(p, "eprop", e))
    BY DEF StoreInv, Indexed
  <2>2. (<<"eidx", e>> \in w <=> <<"eprop", e>> \in w) /\ (<<"eidx", e>> \in u <=> <<"eprop", e>> \in u)
    BY DEF Pair, TxWrites, IndexWrites
  <2>3. /\ <<"eidx", e>> \notin w => (Has(c, "eidx", e) <=> Has(p, "eidx", e))
        /\ <<"eidx", e>> \notin u => (Has(c, "eidx", e) <=> Has(m, "eidx", e))
        /\ <<"eprop", e>> \notin w => (Has(c, "eprop", e) <=> Has(p, "eprop", e))
        /\ <<"eprop", e>> \notin u => (Has(c, "eprop", e) <=> Has(m, "eprop", e))
    BY <1>1, MixHas, TableNames DEF HasMix
  <2>4. <<"eidx", e>> \notin w \/ <<"eidx", e>> \notin u
    BY <1>1
  <2>5. QED
    BY <2>1, <2>2, <2>3, <2>4
<1>10. \A k \in EdgeKeys : k \notin WK(w) \/ k \notin WK(u)
  BY <1>1 DEF WK
<1>11. Attached(c, lap)
  <2> SUFFICES ASSUME NEW k \in EdgeKeys, NEW x \in Nat, At(c.etype, k, x), NEW v \in {k[1], k[2]}
               PROVE  Has(c, "existence", v) \/ <<x, v>> \in lap
    BY DEF Attached
  <2>1. Attached(m, lap) /\ Attached(p, lap)
    BY DEF StoreInv
  <2>2. CASE k \notin WK(u)
    BY <2>1, <2>2, MixAttached
  <2>3. CASE k \notin WK(w)
    BY <1>1, <2>1, <2>3, MixAttached
  <2>4. QED
    BY <1>10, <2>2, <2>3
<1>12. Kept(c, ack \cup did.ins \cup did2.ins, drop \cup drop2, strike \cup strike2)
  <2> SUFFICES ASSUME NEW a \in ack \cup did.ins \cup did2.ins
               PROVE  KeptAt(c, a, ack \cup did.ins \cup did2.ins, drop \cup drop2, strike \cup strike2)
    BY DEF Kept, KeptAt
  <2>1. Kept(m, ack \cup did.ins, drop, strike) /\ Kept(p, ack \cup did2.ins, drop2, strike2)
    BY DEF StoreInv
  <2>2. CASE <<a.s, a.t, a.q>> \notin WK(u)
    <3>1. KeptAt(c, a, ack \cup did.ins, drop, strike)
      BY <2>1, <2>2, MixKept
    <3>2. QED
      BY <3>1 DEF KeptAt
  <2>3. CASE <<a.s, a.t, a.q>> \notin WK(w)
    <3>1. KeptAt(c, a, ack \cup did2.ins, drop2, strike2)
      BY <1>1, <2>1, <2>3, MixKept
    <3>2. QED
      BY <3>1 DEF KeptAt
  <2>4. <<a.s, a.t, a.q>> \in EdgeKeys
    BY DEF Pair, IsDid, Edges, EdgeKeys
  <2>5. QED
    BY <1>10, <2>2, <2>3, <2>4
<1>13. QED
  BY <1>1, <1>4, <1>5, <1>6, <1>7, <1>8, <1>9, <1>11, <1>12, <1>14 DEF StoreInv

LEMMA MixBorn ==
    ASSUME NEW b, NEW m, NEW p, NEW c, NEW w, NEW u, Mix(b, m, p, c, w, u), NEW v
    PROVE  Born(u, c, v) <=> Born(u, p, v)
<1>1. <<"existence", v>> \notin w => (Has(c, "existence", v) <=> Has(p, "existence", v))
  BY MixHas, TableNames DEF HasMix
<1>2. QED
  BY <1>1 DEF Born, Mix

LEMMA MixWrites ==
    ASSUME NEW b, NEW m, NEW p, NEW c, NEW w, NEW u, NEW did, NEW did2, NEW gone, NEW gone2, NEW n, NEW lap,
           Pair(b, m, p, c, w, u, did, did2, gone, gone2, n, lap)
    PROVE  TxWrites(u, m, c, did2, gone \cup gone2, n)
<1>1. Mix(b, m, p, c, w, u) /\ IsStore(m) /\ IsStore(p) /\ IsStore(c) /\ IsStore(b) /\ w \cap u = {}
  BY DEF Pair, Mix
<1>2. \A v : Born(u, c, v) <=> Born(u, p, v)
  BY <1>1, MixBorn
<1>3. TxWrites(w, b, m, did, gone, n) /\ TxWrites(u, b, p, did2, gone2, n)
  BY DEF Pair
<1>4. \A T \in Tables : \A j :
         /\ <<T, j>> \notin w => (Has(m, T, j) <=> Has(b, T, j)) /\ (Has(c, T, j) <=> Has(p, T, j))
         /\ <<T, j>> \notin u => (Has(p, T, j) <=> Has(b, T, j)) /\ (Has(c, T, j) <=> Has(m, T, j))
  <2>1. \A T \in Tables : \A j : HasMix(b, m, p, c, w, u, T, j)
    BY <1>1, MixHas
  <2>2. QED
    BY <2>1 DEF HasMix
<1>5. \A v, d :
         /\ <<"adj_state", <<v, d>>>> \notin w => (Comp(m, v, d) <=> Comp(b, v, d)) /\ (Comp(c, v, d) <=> Comp(p, v, d))
         /\ <<"adj_state", <<v, d>>>> \notin u => (Comp(p, v, d) <=> Comp(b, v, d)) /\ (Comp(c, v, d) <=> Comp(m, v, d))
  <2>1. \A v, d : CompMix(b, m, p, c, w, u, v, d)
    BY <1>1, MixComp
  <2>2. QED
    BY <2>1 DEF CompMix
<1>6. ASSUME NEW d \in Directions PROVE Rules(u, c, WK(u), d)
  <2> SUFFICES ASSUME NEW v \in Vertices, NEW x \in Vertices, NEW q \in Nat
               PROVE  RuleOK(u, c, WK(u), d, v, x, q)
    BY DEF Rules
  <2>1. RuleOK(u, p, WK(u), d, v, x, q)
    BY <1>3 DEF TxWrites, Rules
  <2>2. <<"adj_state", <<v, d>>>> \notin u /\ EKey(d, v, x, q) \in WK(u) => ~Comp(c, v, d)
    BY MixPlain
  <2>3. <<"adj_state", <<v, d>>>> \notin u /\ EKey(d, v, x, q) \in WK(u) =>
          <<"edge_index", <<v, d, x, q>>>> \in u \/ Lost(c, d, v, x, q)
    BY MixLost
  <2>4. QED
    BY <2>1, <2>2, <2>3 DEF RuleOK
<1>7. Grows(u, m, c)
  <2> SUFFICES ASSUME NEW v \in Vertices, NEW d \in Directions, ~Born(u, c, v)
               PROVE  /\ Comp(c, v, d) => Comp(m, v, d)
                      /\ Has(c, "adj_state", <<v, d>>) => Has(m, "adj_state", <<v, d>>)
    BY DEF Grows
  <2>1. /\ Comp(p, v, d) => Comp(b, v, d)
        /\ Has(p, "adj_state", <<v, d>>) => Has(b, "adj_state", <<v, d>>)
    BY <1>2, <1>3 DEF TxWrites, Grows
  <2>2. <<"adj_state", <<v, d>>>> \notin w \/ <<"adj_state", <<v, d>>>> \notin u
    BY <1>1
  <2>3. QED
    BY <1>4, <1>5, <2>1, <2>2, TableNames
<1>13. StateRule(u, m, c)
  <2> SUFFICES ASSUME NEW v \in Vertices, NEW d \in Directions, <<"adj_state", <<v, d>>>> \in u
               PROVE  Has(m, "adj_state", <<v, d>>) \/ Born(u, c, v)
    BY DEF StateRule
  <2>1. Has(b, "adj_state", <<v, d>>) \/ Born(u, p, v)
    BY <1>3 DEF TxWrites, StateRule
  <2>2. <<"adj_state", <<v, d>>>> \notin w
    BY <1>1
  <2>3. QED
    BY <1>2, <1>4, <2>1, <2>2, TableNames
<1>8. IndexWrites(u, gone \cup gone2)
  BY <1>3 DEF TxWrites, IndexWrites
<1>9. InsertRule(u, c, did2.ins)
  <2>1. ASSUME NEW k \in WK(u), NEW x \in Nat, At(c.etype, k, x)
        PROVE  [e |-> x, s |-> k[1], t |-> k[2], q |-> k[3]] \in did2.ins
    <3>1. <<"etype", k>> \notin w
      BY <1>1 DEF WK
    <3>2. MixAt(b, m, p, c, w, u, "etype", k, x)
      BY <1>1, TableNames DEF Mix
    <3>3. At(p["etype"], k, x)
      BY <2>1, <3>1, <3>2 DEF MixAt
    <3>4. QED
      BY <1>3, <3>3 DEF TxWrites, InsertRule
  <2>2. QED
    BY <1>3, <2>1 DEF TxWrites, InsertRule
<1>10. KillRule(u, m, c, did2.kill)
  <2>1. \A v : <<"existence", v>> \in u => (Has(c, "existence", v) <=> Has(p, "existence", v)) /\ ~Born(w, m, v)
    BY <1>1, <1>4, TableNames DEF Born
  <2>2. ASSUME NEW v \in did2.kill, NEW d \in Directions, Has(m, "adj_state", <<v, d>>)
        PROVE  <<"adj_state", <<v, d>>>> \in u
    <3>1. <<"existence", v>> \in u /\ v \in Vertices
      BY <1>3 DEF TxWrites, KillRule, Pair, IsDid
    <3>2. Has(b, "adj_state", <<v, d>>)
      BY <1>3, <2>1, <2>2, <3>1 DEF TxWrites, Grows
    <3>3. QED
      BY <1>3, <3>2 DEF TxWrites, KillRule
  <2>3. QED
    BY <1>3, <2>1, <2>2 DEF TxWrites, KillRule
<1>11. BornRule(u, m, c)
  <2> SUFFICES ASSUME NEW v \in Vertices, Born(u, c, v)
               PROVE  /\ ~Has(m, "existence", v)
                      /\ \A d \in Directions : ~Has(m, "adj_state", <<v, d>>)
                      /\ \A k \in EdgeKeys : Has(m, "etype", k) => k[1] # v /\ k[2] # v
    BY DEF BornRule
  <2>1. Born(u, p, v)
    BY <1>2
  <2>2. /\ ~Has(b, "existence", v)
        /\ \A d \in Directions : ~Has(b, "adj_state", <<v, d>>)
        /\ \A k \in EdgeKeys : Has(b, "etype", k) => k[1] # v /\ k[2] # v
    BY <1>3, <2>1 DEF TxWrites, BornRule
  <2>3. <<"existence", v>> \notin w
    BY <1>1 DEF Born
  <2>4. ~Has(m, "existence", v)
    BY <1>4, <2>2, <2>3, TableNames
  <2>5. ~Born(w, m, v)
    BY <2>3 DEF Born
  <2>6. \A d \in Directions : ~Has(m, "adj_state", <<v, d>>)
    BY <1>3, <2>2, <2>5 DEF TxWrites, Grows
  <2>7. ASSUME NEW k \in EdgeKeys, Has(m, "etype", k) PROVE k[1] # v /\ k[2] # v
    <3>1. CASE k \in WK(w)
      BY <2>1, <3>1 DEF Pair, Apart
    <3>2. CASE k \notin WK(w)
      <4>1. <<"etype", k>> \notin w
        BY <3>2 DEF WK
      <4>2. Has(b, "etype", k)
        BY <1>4, <2>7, <4>1, TableNames
      <4>3. QED
        BY <2>2, <4>2
    <3>3. QED
      BY <3>1, <3>2
  <2>8. QED
    BY <2>4, <2>6, <2>7
<1>12. QED
  BY <1>3, <1>6, <1>7, <1>8, <1>9, <1>10, <1>11, <1>13 DEF TxWrites

LEMMA MixOf ==
    ASSUME NEW b, IsStore(b), NEW x, NEW y, x.wrote \cap y.wrote = {},
           IsStore(CommitInto(b, x)), IsStore(CommitInto(b, y))
    PROVE  Mix(b, CommitInto(b, x), CommitInto(b, y), CommitInto(CommitInto(b, x), y), x.wrote, y.wrote)
<1> DEFINE m == CommitInto(b, x)
           p == CommitInto(b, y)
           c == CommitInto(m, y)
<1>1. \A T \in Tables : \A key, val :
         /\ At(m[T], key, val) <=> IF <<T, key>> \in x.wrote THEN At(x[T], key, val) ELSE At(b[T], key, val)
         /\ At(p[T], key, val) <=> IF <<T, key>> \in y.wrote THEN At(y[T], key, val) ELSE At(b[T], key, val)
  BY CommitAt
<1> HIDE DEF m
<1>2. \A T \in Tables : \A key, val : At(c[T], key, val) <=> IF <<T, key>> \in y.wrote THEN At(y[T], key, val) ELSE At(m[T], key, val)
  BY CommitAt DEF m
<1>3. \A T \in Tables : \A key, val : MixAt(b, m, p, c, x.wrote, y.wrote, T, key, val)
  <2> HIDE DEF p, c
  <2> SUFFICES ASSUME NEW T \in Tables, NEW key, NEW val PROVE MixAt(b, m, p, c, x.wrote, y.wrote, T, key, val)
    OBVIOUS
  <2>1. <<T, key>> \notin x.wrote \/ <<T, key>> \notin y.wrote
    OBVIOUS
  <2>2. QED
    BY <1>1, <1>2, <2>1 DEF MixAt
<1>4. IsStore(c)
  <2>1. DOMAIN m = Tables \cup {"wrote"} /\ DOMAIN b = Tables \cup {"wrote"} /\ "wrote" \notin Tables
    BY DEF IsStore, m, Tables
  <2>2. DOMAIN c = Tables \cup {"wrote"}
    BY <2>1 DEF CommitInto
  <2>3. \A T \in Tables :
          /\ c[T] = {r \in m[T] : <<T, r.k>> \notin y.wrote} \cup {r \in y[T] : <<T, r.k>> \in y.wrote}
          /\ p[T] = {r \in b[T] : <<T, r.k>> \notin y.wrote} \cup {r \in y[T] : <<T, r.k>> \in y.wrote}
    BY <2>1 DEF CommitInto
  <2>4. IsStore(m) /\ IsStore(p)
    BY DEF m
  <2> HIDE DEF c, p
  <2>5. \A T \in Tables : \A r \in c[T] : IF <<T, r.k>> \in y.wrote THEN r \in p[T] ELSE r \in m[T]
    BY <2>3
  <2>6. \A T \in Tables : c[T] \subseteq RowsOf(T)
    BY <2>4, <2>5 DEF IsStore
  <2>7. ASSUME NEW T \in Tables, NEW r \in c[T], NEW q \in c[T], r.k = q.k PROVE r = q
    BY <2>4, <2>5, <2>7 DEF IsStore
  <2>8. QED
    BY <2>2, <2>6, <2>7 DEF IsStore
<1>5. QED
  BY <1>3, <1>4 DEF Mix, m

-----------------------------------------------------------------------------
(* Commit and rollback *)

LEMMA CommitKeeps ==
    ASSUME IInv, NEW t \in Txns, Commit(t)
    PROVE  IInv'
<1> DEFINE dt == tx[t].did
           w == tx[t].view.wrote
           m == After(t)
<1>1. /\ tx[t].on /\ t \in Open /\ db' = m /\ acked' = acked \cup dt.ins /\ dropped' = dropped \cup dt.del
      /\ ghosts' = ghosts \cup dt.ghost /\ skewed' = skewed \cup dt.skew /\ struck' = struck \cup dt.strike
      /\ tx' = [tx EXCEPT ![t] = NoTx]
      /\ cap' = cap /\ nextV' = nextV /\ nextE' = nextE /\ events' = events /\ lapped' = lapped
  BY DEF Commit, Open, After
<1>2. TypeOK /\ IsStore(db) /\ DOMAIN tx = Txns /\ acked \subseteq Edges
  BY DEF IInv, TypeOK
<1>3. TxInv(t)
  BY <1>1 DEF IInv
<1>4. /\ IsDid(dt) /\ \A i \in dt.ins : i.e < nextE
      /\ StoreInv(cap, m, nextV, skewed \cup dt.skew, ghosts \cup dt.ghost, lapped,
                  acked \cup dt.ins, dropped \cup dt.del, struck \cup dt.strike)
      /\ TxWrites(w, db, m, dt, ghosts \cup dt.ghost, nextV) /\ IsStore(m)
  BY <1>3 DEF TxInv, StoreInv
<1>5. /\ tx'[t] = NoTx /\ tx'[t].on = FALSE
      /\ \A o \in Txns : o # t => tx'[o] = tx[o]
      /\ DOMAIN tx' = Txns
  BY <1>1, <1>2 DEF NoTx
<1>6. \A o : o \in Open' <=> o \in Open /\ o # t
  BY <1>5 DEF Open
<1>7. m.wrote = {}
  <2>1. "wrote" \in DOMAIN db
    BY <1>2 DEF IsStore
  <2>2. QED
    BY <2>1 DEF After, CommitInto
<1>8. \A o \in Open' : tx'[o] = tx[o] /\ After(o)' = CommitInto(m, tx[o].view)
  BY <1>1, <1>5, <1>6 DEF After, Open
<1> HIDE DEF m
<1>9. TypeOK'
  <2>1. \A o \in Txns : tx'[o].on \in BOOLEAN
    <3> SUFFICES ASSUME NEW o \in Txns PROVE tx'[o].on \in BOOLEAN
      OBVIOUS
    <3>1. CASE o = t
      BY <1>5, <3>1
    <3>2. CASE o # t
      BY <1>2, <1>5, <3>2 DEF TypeOK
    <3>3. QED
      BY <3>1, <3>2
  <2>2. IsStore(db') /\ db'.wrote = {} /\ acked' \subseteq Edges
    BY <1>1, <1>2, <1>4, <1>7 DEF IsDid
  <2>3. cap' \in Nat /\ nextV' \in Nat \ {0} /\ nextE' \in Nat \ {0} /\ events' \in Nat
    BY <1>1, <1>2 DEF TypeOK
  <2>4. QED
    BY <1>5, <2>1, <2>2, <2>3 DEF TypeOK
<1>10. \A a \in acked' : a.e < nextE'
  BY <1>1, <1>4 DEF IInv
<1>11. StoreInv(cap', db', nextV', skewed', ghosts', lapped', acked', dropped', struck')
  BY <1>1, <1>4
<1>12. ASSUME NEW o \in Open, o # t
       PROVE  Pair(db, m, After(o), CommitInto(m, tx[o].view), w, tx[o].view.wrote, dt, tx[o].did,
                   ghosts \cup dt.ghost, ghosts \cup tx[o].did.ghost, nextV, lapped)
  <2>1. TxInv(o) /\ IsStore(After(o)) /\ IsDid(tx[o].did)
    BY DEF IInv, TxInv, StoreInv
  <2>2. /\ Apart(w, m, dt, tx[o].view.wrote, tx[o].did, lapped)
        /\ Apart(tx[o].view.wrote, After(o), tx[o].did, w, dt, lapped)
    BY <1>1, <1>12 DEF IInv, m
  <2>3. w \cap tx[o].view.wrote = {}
    BY <2>2 DEF Apart
  <2>4. Mix(db, m, After(o), CommitInto(m, tx[o].view), w, tx[o].view.wrote)
    BY <1>2, <1>4, <2>1, <2>3, MixOf DEF m, After
  <2>5. TxWrites(tx[o].view.wrote, db, After(o), tx[o].did, ghosts \cup tx[o].did.ghost, nextV)
    BY <2>1 DEF TxInv
  <2>7. Standing(db) /\ Standing(m) /\ Standing(After(o))
    BY <1>4, <2>1 DEF IInv, TxInv, StoreInv
  <2>6. QED
    BY <1>4, <2>1, <2>2, <2>4, <2>5, <2>7 DEF Pair
<1> HIDE DEF dt, w
<1>13. ASSUME NEW o \in Open, o # t PROVE TxInv(o)'
  <2> DEFINE d == tx[o].did
             u == tx[o].view.wrote
             c == CommitInto(m, tx[o].view)
  <2>1. /\ IsDid(d) /\ \A i \in d.ins : i.e < nextE
        /\ StoreInv(cap, After(o), nextV, skewed \cup d.skew, ghosts \cup d.ghost, lapped,
                acked \cup d.ins, dropped \cup d.del, struck \cup d.strike)
    BY DEF IInv, TxInv
  <2>2. tx'[o] = tx[o] /\ After(o)' = c
    BY <1>6, <1>8, <1>13
  <2>3. Pair(db, m, After(o), c, w, u, dt, d, ghosts \cup dt.ghost, ghosts \cup d.ghost, nextV, lapped)
    BY <1>12, <1>13
  <2> HIDE DEF d, u, c
  <2> DEFINE sk == skewed \cup dt.skew
             sk2 == skewed \cup d.skew
             gh == ghosts \cup dt.ghost
             gh2 == ghosts \cup d.ghost
             dr == dropped \cup dt.del
             dr2 == dropped \cup d.del
             st == struck \cup dt.strike
             st2 == struck \cup d.strike
  <2>a. /\ StoreInv(cap, m, nextV, sk, gh, lapped, acked \cup dt.ins, dr, st)
        /\ StoreInv(cap, After(o), nextV, sk2, gh2, lapped, acked \cup d.ins, dr2, st2)
        /\ Pair(db, m, After(o), c, w, u, dt, d, gh, gh2, nextV, lapped)
        /\ acked \subseteq Edges
    BY <1>2, <1>4, <2>1, <2>3
  <2>4. StoreInv(cap, c, nextV, sk \cup sk2, gh \cup gh2, lapped, acked \cup dt.ins \cup d.ins,
                 dr \cup dr2, st \cup st2)
    <3> HIDE DEF sk, sk2, gh, gh2, dr, dr2, st, st2
    <3>1. QED
      BY ONLY <2>a, MixStore
  <2>5. TxWrites(u, m, c, d, (ghosts \cup dt.ghost) \cup (ghosts \cup d.ghost), nextV)
    BY <2>3, MixWrites
  <2>6. /\ (skewed \cup dt.skew) \cup (skewed \cup d.skew) = skewed' \cup d.skew
        /\ (ghosts \cup dt.ghost) \cup (ghosts \cup d.ghost) = ghosts' \cup d.ghost
        /\ acked \cup dt.ins \cup d.ins = acked' \cup d.ins
        /\ (dropped \cup dt.del) \cup (dropped \cup d.del) = dropped' \cup d.del
        /\ (struck \cup dt.strike) \cup (struck \cup d.strike) = struck' \cup d.strike
    BY <1>1
  <2>7. StoreInv(cap', c, nextV', skewed' \cup d.skew, ghosts' \cup d.ghost, lapped', acked' \cup d.ins,
                 dropped' \cup d.del, struck' \cup d.strike)
    BY <1>1, <2>4, <2>6
  <2>8. TxWrites(u, db', c, d, ghosts' \cup d.ghost, nextV')
    BY <1>1, <2>5, <2>6
  <2>9. tx'[o].did = d /\ tx'[o].view.wrote = u
    BY <2>2 DEF d, u
  <2>10. \A i \in d.ins : i.e < nextE'
    BY <1>1, <2>1
  <2>11. QED
    BY <2>1, <2>2, <2>7, <2>8, <2>9, <2>10 DEF TxInv
<1>14. ASSUME NEW o \in Open, NEW z \in Open, o # t, z # t, o # z
       PROVE  Apart(tx[o].view.wrote, CommitInto(m, tx[o].view), tx[o].did, tx[z].view.wrote, tx[z].did, lapped)
  <2>1. Apart(tx[o].view.wrote, After(o), tx[o].did, tx[z].view.wrote, tx[z].did, lapped)
    BY <1>14 DEF IInv
  <2>2. Mix(db, m, After(o), CommitInto(m, tx[o].view), w, tx[o].view.wrote)
    BY <1>12, <1>14 DEF Pair
  <2>3. \A v : Born(tx[o].view.wrote, CommitInto(m, tx[o].view), v) <=> Born(tx[o].view.wrote, After(o), v)
    BY <2>2, MixBorn
  <2>4. QED
    BY <2>1, <2>3 DEF Apart
<1>15. ASSUME NEW o \in Open', NEW z \in Open', o # z
       PROVE  Apart(tx'[o].view.wrote, After(o)', tx'[o].did, tx'[z].view.wrote, tx'[z].did, lapped')
  <2>1. o \in Open /\ z \in Open /\ o # t /\ z # t
    BY <1>6
  <2>2. tx'[o] = tx[o] /\ tx'[z] = tx[z] /\ After(o)' = CommitInto(m, tx[o].view)
    BY <1>8
  <2>3. QED
    BY <1>1, <1>14, <1>15, <2>1, <2>2
<1>16. \A o \in Open' : TxInv(o)'
  BY <1>6, <1>13
<1>17. QED
  BY <1>9, <1>10, <1>11, <1>15, <1>16 DEF IInv

LEMMA RollbackKeeps ==
    ASSUME IInv, NEW t \in Txns, Rollback(t)
    PROVE  IInv'
<1>1. /\ tx' = [tx EXCEPT ![t] = NoTx]
      /\ cap' = cap /\ db' = db /\ nextV' = nextV /\ nextE' = nextE /\ events' = events
      /\ acked' = acked /\ dropped' = dropped /\ ghosts' = ghosts /\ skewed' = skewed /\ struck' = struck
      /\ lapped' = lapped
  BY DEF Rollback, history
<1>2. TypeOK /\ DOMAIN tx = Txns
  BY DEF IInv, TypeOK
<1>3. /\ tx'[t].on = FALSE
      /\ \A o \in Txns : o # t => tx'[o] = tx[o]
      /\ DOMAIN tx' = Txns
  BY <1>1, <1>2 DEF NoTx
<1>4. \A o : o \in Open' <=> o \in Open /\ o # t
  BY <1>3 DEF Open
<1>5. \A o \in Open' : tx'[o] = tx[o] /\ After(o)' = After(o) /\ o \in Open
  BY <1>1, <1>3, <1>4 DEF After, Open
<1>6. TypeOK'
  <2>1. \A o \in Txns : tx'[o].on \in BOOLEAN
    <3> SUFFICES ASSUME NEW o \in Txns PROVE tx'[o].on \in BOOLEAN
      OBVIOUS
    <3>1. CASE o = t
      BY <1>3, <3>1
    <3>2. CASE o # t
      BY <1>2, <1>3, <3>2 DEF TypeOK
    <3>3. QED
      BY <3>1, <3>2
  <2>2. QED
    BY <1>1, <1>2, <1>3, <2>1 DEF TypeOK
<1>7. ASSUME NEW o \in Open' PROVE TxInv(o)'
  <2>1. TxInv(o) /\ tx'[o] = tx[o] /\ After(o)' = After(o)
    BY <1>5 DEF IInv
  <2>2. QED
    BY <1>1, <2>1 DEF TxInv
<1>8. ASSUME NEW o \in Open', NEW z \in Open', o # z
      PROVE  Apart(tx'[o].view.wrote, After(o)', tx'[o].did, tx'[z].view.wrote, tx'[z].did, lapped')
  <2>1. Apart(tx[o].view.wrote, After(o), tx[o].did, tx[z].view.wrote, tx[z].did, lapped)
    BY <1>5, <1>8 DEF IInv
  <2>2. QED
    BY <1>1, <1>5, <2>1
<1>9. StoreInv(cap', db', nextV', skewed', ghosts', lapped', acked', dropped', struck') /\ \A a \in acked' : a.e < nextE'
  BY <1>1 DEF IInv
<1>10. QED
  BY <1>6, <1>7, <1>8, <1>9 DEF IInv

-----------------------------------------------------------------------------
(* The steps *)

\* The statements that create.
LEMMA CreatingKeeps ==
    ASSUME IInv, NEW t \in Txns,
           \/ CreateVertex(t)
           \/ \E v, w \in Vertices : CreateEdge(t, v, w) \/ \E vs \in SUBSET {v, w} : CreateAndDelete(t, v, w, vs)
           \/ \E v, w \in Vertices, i \in Places : BatchInsertEdges(t, v, w, i)
    PROVE  IInv'
<1>1. nextV \in Nat /\ nextE \in Nat /\ Places \subseteq Nat
  BY EdgeStoreAssumption DEF IInv, TypeOK
<1>2. CASE CreateVertex(t)
  <2>1. /\ nextV <= MaxVertex /\ Run(t, insertVertex(db, nextV), Nothing) /\ nextV' = nextV + 1 /\ nextE' = nextE
    BY <1>2 DEF CreateVertex
  <2>2. Ready(insertVertex(db, nextV), Nothing, nextV', nextE')
    BY <2>1, CreateVertexReady
  <2>3. nextV' \in Nat /\ nextV' >= nextV /\ nextE' \in Nat /\ nextE' >= nextE
    BY <1>1, <2>1
  <2>4. QED
    BY <2>1, <2>2, <2>3, RunKeeps
<1>3. ASSUME NEW v \in Vertices, NEW w \in Vertices, CreateEdge(t, v, w) PROVE IInv'
  <2> DEFINE view == CreateOne(db, nextE, v, w)
             did == [Nothing EXCEPT !.ins = {[e |-> nextE, s |-> v, t |-> w, q |-> nextE]},
                                    !.skew = Recounted(v, w, nextE)]
  <2>1. Live(v) /\ Live(w) /\ Run(t, view, did) /\ nextE' = nextE + 1 /\ nextV' = nextV
    BY <1>3 DEF CreateEdge
  <2>2. <<v, w, 0>> \in Payloads
    BY DEF Payloads
  <2>3. Ready(view, did, nextV, nextE + 1)
    BY <1>1, <2>1, <2>2, CreateReady DEF CreateOne
  <2>4. Ready(view, did, nextV', nextE')
    BY <2>1, <2>3
  <2>5. nextV' \in Nat /\ nextV' >= nextV /\ nextE' \in Nat /\ nextE' >= nextE
    BY <1>1, <2>1
  <2> HIDE DEF view, did
  <2>6. QED
    BY <2>1, <2>4, <2>5, RunKeeps
<1>4. ASSUME NEW v \in Vertices, NEW w \in Vertices, NEW vs \in SUBSET {v, w}, CreateAndDelete(t, v, w, vs) PROVE IInv'
  <2> DEFINE row == [e |-> nextE, s |-> v, t |-> w, q |-> 0]
             made == CreateOne(db, nextE, v, w)
             view == DeleteAll(made, row, vs)
             did == [Deleted(made, row, vs) EXCEPT !.ins = {[row EXCEPT !.q = nextE]},
                                                   !.skew = @ \cup Recounted(v, w, nextE)]
  <2>1. /\ Live(v) /\ Live(w) /\ OnlyEdge(DeleteOne(made, row), row, vs)
        /\ Run(t, view, did) /\ nextE' = nextE + 1 /\ nextV' = nextV
    BY <1>4 DEF CreateAndDelete
  <2>2. Ready(view, did, nextV, nextE + 1)
    BY <2>1, CreateDeleteReady
  <2> HIDE DEF view, did
  <2>3. Ready(view, did, nextV', nextE')
    BY <2>1, <2>2
  <2>4. nextV' \in Nat /\ nextV' >= nextV /\ nextE' \in Nat /\ nextE' >= nextE
    BY <1>1, <2>1
  <2>5. QED
    BY <2>1, <2>3, <2>4, RunKeeps
<1>5. ASSUME NEW v \in Vertices, NEW w \in Vertices, NEW i \in Places, BatchInsertEdges(t, v, w, i) PROVE IInv'
  <2> DEFINE view == table_put(insertEdge(db, nextE, v, w, i), "eidx", nextE, <<0, 0, 0>>)
             did == [Nothing EXCEPT !.ins = {[e |-> nextE, s |-> v, t |-> w, q |-> i]},
                                    !.skew = Recounted(v, w, i)]
  <2>1. Live(v) /\ Live(w) /\ Run(t, view, did) /\ nextE' = nextE + 1 /\ nextV' = nextV
    BY <1>5 DEF BatchInsertEdges
  <2>2. <<0, 0, 0>> \in Payloads /\ i \in Nat
    BY <1>1 DEF Payloads
  <2>3. Ready(view, did, nextV, nextE + 1)
    BY <2>1, <2>2, CreateReady
  <2> HIDE DEF view, did
  <2>4. Ready(view, did, nextV', nextE')
    BY <2>1, <2>3
  <2>5. nextV' \in Nat /\ nextV' >= nextV /\ nextE' \in Nat /\ nextE' >= nextE
    BY <1>1, <2>1
  <2>6. QED
    BY <2>1, <2>4, <2>5, RunKeeps
<1>6. QED
  BY <1>2, <1>3, <1>4, <1>5

\* A statement that hands out no id.
LEMMA PlainKeeps ==
    ASSUME IInv, NEW t \in Txns, NEW view, NEW did, Run(t, view, did), UNCHANGED <<nextV, nextE>>,
           Ready(view, did, nextV, nextE)
    PROVE  IInv'
<1>1. nextV' = nextV /\ nextE' = nextE /\ nextV' \in Nat /\ nextV' >= nextV /\ nextE' \in Nat /\ nextE' >= nextE
  BY DEF IInv, TypeOK
<1>2. Ready(view, did, nextV', nextE')
  BY <1>1
<1>3. QED
  BY <1>1, <1>2, RunKeeps

\* The statements that delete a vertex.
LEMMA DeletingKeeps ==
    ASSUME IInv, NEW t \in Txns, NEW v \in Vertices, DeleteVertexStmt(t, v) \/ DetachDelete(t, v)
    PROVE  IInv'
<1>1. CASE DeleteVertexStmt(t, v)
  <2>1. /\ Live(v) /\ scanEdges(db, v, "OUT") = {} /\ scanEdges(db, v, "IN") = {}
        /\ Run(t, deleteVertex(db, {v}), [Nothing EXCEPT !.kill = {v}]) /\ UNCHANGED <<nextV, nextE>>
    BY <1>1 DEF DeleteVertexStmt
  <2>2. Ready(deleteVertex(db, {v}), [Nothing EXCEPT !.kill = {v}], nextV, nextE)
    BY <2>1, DeleteVertexReady
  <2>3. QED
    BY <2>1, <2>2, PlainKeeps
<1>2. CASE DetachDelete(t, v)
  <2> DEFINE out == scanEdges(db, v, "OUT")
             mid == deleteEdge(db, out)
             in == scanEdges(mid, v, "IN")
             view == deleteVertex(deleteEdge(mid, in), {v})
             did == [Nothing EXCEPT !.kill = {v}, !.del = {e.e : e \in out \cup in},
                                    !.ghost = {e.e : e \in out \cup in}]
  <2>1. Live(v) /\ Run(t, view, did) /\ UNCHANGED <<nextV, nextE>>
    BY <1>2 DEF DetachDelete
  <2>2. Ready(view, did, nextV, nextE)
    BY <2>1, DetachReady
  <2> HIDE DEF view, did
  <2>3. QED
    BY <2>1, <2>2, PlainKeeps
<1>3. QED
  BY <1>1, <1>2

\* The statements about an edge.
LEMMA EdgewiseKeeps ==
    ASSUME IInv, NEW t \in Txns,
           \/ \E e \in scanEdgesByType(db) :
                \/ SetProperty(t, e) \/ RemoveProperty(t, e)
                \/ \E vs \in SUBSET {v \in {e.s, e.t} : Live(v)} : DeleteEdgeStmt(t, e, vs)
           \/ \E r \in db.eidx, vs \in SUBSET {v \in Vertices : Live(v)} : DeleteByIndex(t, r, vs)
    PROVE  IInv'
<1>1. IsStore(db)
  BY DEF IInv, TypeOK
<1>2. \A e \in scanEdgesByType(db) : e \in Edges
  BY <1>1, TypeScan
<1>3. ASSUME NEW e \in Edges, NEW vs \in SUBSET Vertices, \A v \in vs : Live(v), OnlyEdge(DeleteOne(db, e), e, vs),
             Run(t, DeleteAll(db, e, vs), Deleted(db, e, vs)), UNCHANGED <<nextV, nextE>>
      PROVE  IInv'
  <2>1. Ready(DeleteAll(db, e, vs), Deleted(db, e, vs), nextV, nextE)
    BY <1>3, DeleteReady
  <2>2. QED
    BY <1>3, <2>1, PlainKeeps
<1>4. ASSUME NEW e \in scanEdgesByType(db), NEW vs \in SUBSET {v \in {e.s, e.t} : Live(v)}, DeleteEdgeStmt(t, e, vs)
      PROVE  IInv'
  <2>1. e \in Edges /\ vs \in SUBSET Vertices /\ \A v \in vs : Live(v)
    BY <1>2 DEF Edges
  <2>2. /\ OnlyEdge(DeleteOne(db, e), e, vs)
        /\ Run(t, DeleteAll(db, e, vs), Deleted(db, e, vs)) /\ UNCHANGED <<nextV, nextE>>
    BY <1>4 DEF DeleteEdgeStmt
  <2>3. QED
    BY <1>3, <2>1, <2>2
<1>5. ASSUME NEW e \in scanEdgesByType(db), SetProperty(t, e) PROVE IInv'
  <2> DEFINE view == table_put(table_put(deleteEdgeIndexEntries(db, e.e), "eprop", e.e, 0), "eidx", e.e, <<0, 0, 0>>)
  <2>1. Run(t, view, Nothing) /\ UNCHANGED <<nextV, nextE>> /\ e.e \in Nat
    BY <1>2, <1>5 DEF SetProperty, Edges
  <2>2. Ready(view, Nothing, nextV, nextE)
    BY <2>1, SetReady
  <2> HIDE DEF view
  <2>3. QED
    BY <2>1, <2>2, PlainKeeps
<1>6. ASSUME NEW e \in scanEdgesByType(db), RemoveProperty(t, e) PROVE IInv'
  <2> DEFINE view == table_del(table_del(db, "eprop", e.e), "eidx", e.e)
  <2>1. Run(t, view, Nothing) /\ UNCHANGED <<nextV, nextE>> /\ Has(db, "eprop", e.e) /\ e.e \in Nat
    BY <1>2, <1>6 DEF RemoveProperty, Edges
  <2>2. Ready(view, Nothing, nextV, nextE)
    BY <2>1, RemoveReady
  <2> HIDE DEF view
  <2>3. QED
    BY <2>1, <2>2, PlainKeeps
<1>7. ASSUME NEW r \in db.eidx, NEW vs \in SUBSET {v \in Vertices : Live(v)}, DeleteByIndex(t, r, vs) PROVE IInv'
  <2> DEFINE e == [e |-> r.k, s |-> r.x[1], t |-> r.x[2], q |-> r.x[3]]
  <2>1. /\ e.s # 0 /\ OnlyEdge(DeleteOne(db, e), e, vs)
        /\ Run(t, DeleteAll(db, e, vs), Deleted(db, e, vs)) /\ UNCHANGED <<nextV, nextE>>
    BY <1>7 DEF DeleteByIndex
  <2>2. r.k \in Nat /\ r.x \in Payloads
    BY <1>1, RowShape, TableNames DEF RowsOf
  <2>3. r.x \in Vertices \X Vertices \X {0}
    BY <2>1, <2>2 DEF Payloads
  <2>4. e \in Edges
    BY <2>2, <2>3 DEF Edges
  <2> HIDE DEF e
  <2>6. vs \in SUBSET Vertices /\ \A v \in vs : Live(v)
    OBVIOUS
  <2>5. QED
    BY <1>3, <2>1, <2>4, <2>6
<1>8. QED
  BY <1>4, <1>5, <1>6, <1>7

\* Every step keeps the invariant.
LEMMA NextKeeps ==
    ASSUME IInv, [Next]_vars
    PROVE  IInv'
<1>1. ASSUME NEW t \in Txns, Commit(t) PROVE IInv'
  BY <1>1, CommitKeeps
<1>2. ASSUME NEW t \in Txns, Rollback(t) PROVE IInv'
  BY <1>2, RollbackKeeps
<1>3. CASE UNCHANGED vars
  <2>1. /\ cap' = cap /\ db' = db /\ tx' = tx /\ nextV' = nextV /\ nextE' = nextE /\ events' = events
        /\ acked' = acked /\ dropped' = dropped /\ ghosts' = ghosts /\ skewed' = skewed /\ struck' = struck
        /\ lapped' = lapped
    BY <1>3 DEF vars
  <2>2. Open' = Open /\ \A t \in Open : After(t)' = After(t)
    BY <2>1 DEF Open, After
  <2>3. \A t \in Open : TxInv(t)' <=> TxInv(t)
    BY <2>1, <2>2 DEF TxInv
  <2>4. TypeOK' <=> TypeOK
    BY <2>1 DEF TypeOK
  <2>5. QED
    BY <2>1, <2>2, <2>3, <2>4 DEF IInv
<1>4. CASE Next
  BY <1>1, <1>2, <1>4, CreatingKeeps, DeletingKeeps, EdgewiseKeeps DEF Next
<1>5. QED
  BY <1>3, <1>4

\* A cached end has as many keys as a scan finds edges.
LEMMA ScanCount ==
    ASSUME cap \in Nat, NEW s, IsStore(s), Finite(s), NEW v \in Vertices, NEW d \in Directions, Cached(s, v, d)
    PROVE  Cardinality(scanEdges(s, v, d)) = Cardinality(KeysAt(s, v, d))
<1> DEFINE rows == ScanRows(s, v, d)
           keys == {r.k : r \in rows}
           edges == {Scan(d, v, r) : r \in rows}
           f == [r \in rows |-> r.k]
           g == [r \in rows |-> Scan(d, v, r)]
<1>1. rows = {p \in s["adj_edge"] : p.k[1] = v /\ p.k[2] = d}
  BY DEF ScanRows
<1>2. scanEdges(s, v, d) = edges
  BY ScanFinite
<1>3. KeysAt(s, v, d) = keys
  BY <1>1 DEF KeysAt
<1>4. IsFiniteSet(rows)
  BY <1>1, FS_Subset DEF Finite
<1>5. \A r \in rows : /\ r = [k |-> r.k, x |-> r.x] /\ r.k = <<v, d, r.k[3], r.k[4]>>
  <2> SUFFICES ASSUME NEW r \in rows PROVE r = [k |-> r.k, x |-> r.x] /\ r.k = <<v, d, r.k[3], r.k[4]>>
    OBVIOUS
  <2>1. r \in s["adj_edge"] /\ r.k[1] = v /\ r.k[2] = d
    BY <1>1
  <2>2. r = [k |-> r.k, x |-> r.x] /\ r.k \in AdjKeys
    BY <2>1, RowShape, TableNames DEF RowsOf
  <2>3. QED
    BY <2>1, <2>2 DEF AdjKeys
<1>6. \A r, q \in rows : r.k = q.k => r = q
  BY <1>1, TableNames DEF IsStore
<1> HIDE DEF rows
<1>7. ASSUME NEW r \in rows, NEW q \in rows, Scan(d, v, r) = Scan(d, v, q) PROVE r = q
  <2>1. r.k[3] = q.k[3] /\ r.k[4] = q.k[4]
    BY <1>7 DEF Scan, Directions
  <2>2. r.k = q.k
    BY <1>5, <2>1
  <2>3. QED
    BY <1>6, <2>2
<1>8. f \in Surjection(rows, keys) /\ f \in Injection(rows, keys)
  BY <1>6 DEF Surjection, Injection, IsInjective
<1>9. g \in Surjection(rows, edges) /\ g \in Injection(rows, edges)
  BY <1>7 DEF Surjection, Injection, IsInjective
<1> HIDE DEF f, g, keys, edges
<1>10. Cardinality(keys) = Cardinality(rows)
  BY <1>4, <1>8, FS_Surjection
<1>11. Cardinality(edges) = Cardinality(rows)
  BY <1>4, <1>9, FS_Surjection
<1>12. QED
  BY <1>2, <1>3, <1>10, <1>11

-----------------------------------------------------------------------------
(* The theorems *)

\* Every reachable state satisfies IInv: the statements that write edges and
\* vertices through SyncGraphDataStore, their commits and rollbacks keep it.
THEOREM Invariance == Spec => []IInv
<1>1. Init => IInv
  BY InitInv
<1>2. IInv /\ [Next]_vars => IInv'
  BY NextKeeps
<1>3. QED
  BY <1>1, <1>2, PTL DEF Spec

\* Every table of the store holds rows of its kind, one row for each key, and
\* the acknowledged inserts are edges between vertices that were handed out.
THEOREM TypeCorrect == Spec => []TypeOK
<1>1. IInv => TypeOK
  BY DEF IInv
<1>2. QED
  BY <1>1, Invariance, PTL

\* At every vertex that exists the type table and the adjacency of either
\* direction, kept in vertex_data or in edge_index, are one set of edges:
\* insertAdjacencyEdge, promoteAdjacency and deleteAdjacencyEdge never lose or
\* double one, whatever commits together.
THEOREM OneSetOfEdges == Spec => []EndpointsAgree
<1>1. IInv => EndpointsAgree
  <2> SUFFICES ASSUME IInv PROVE EndpointsAgree
    OBVIOUS
  <2>1. cap \in Nat /\ IsStore(db) /\ CapOK(cap, db) /\ \A d \in Directions : Cells(db, db.etype, d)
    BY DEF IInv, TypeOK, StoreInv, Sound
  <2>2. ASSUME NEW v \in Vertices, NEW d \in Directions, Live(v), NEW e
        PROVE  e \in scanEdges(db, v, d) <=> e \in {f \in scanEdgesByType(db) : EndOf(f, d) = v}
    <3>1. Alive(db, v)
      BY <2>1, <2>2, AliveIs DEF Live
    <3>2. e \in scanEdges(db, v, d) <=>
             e \in Edges /\ EndOf(e, d) = v /\ At(db.etype, <<e.s, e.t, e.q>>, e.e)
      BY <2>1, <3>1, ScanIs
    <3>3. e \in scanEdgesByType(db) <=> e \in Edges /\ At(db.etype, <<e.s, e.t, e.q>>, e.e)
      BY <2>1, TypeScan
    <3>4. QED
      BY <3>2, <3>3
  <2>3. ASSUME NEW v \in Vertices, NEW d \in Directions, Live(v)
        PROVE  scanEdges(db, v, d) = {f \in scanEdgesByType(db) : EndOf(f, d) = v}
    BY <2>2, <2>3
  <2>4. QED
    BY <2>3 DEF EndpointsAgree
<1>2. QED
  BY <1>1, Invariance, PTL

\* countDegree, which answers from the counter of a cached adjacency, is the
\* number of edges scanEdges finds, at every end no delete miscounted.
THEOREM DegreesCount == Spec => []DegreeIsExact
<1>1. IInv => DegreeIsExact
  <2> SUFFICES ASSUME IInv, NEW v \in Vertices, NEW d \in Directions, <<v, d>> \notin skewed
               PROVE  countDegree(db, v, d) = Cardinality(scanEdges(db, v, d))
    BY DEF DegreeIsExact
  <2>1. cap \in Nat /\ IsStore(db) /\ CapOK(cap, db) /\ Finite(db) /\ Exact(db, v, d)
    BY DEF IInv, TypeOK, StoreInv, Counting
  <2>2. CASE Cached(db, v, d)
    <3> DEFINE n == getAdjacencyState(db, v, d).count
    <3>1. n \in Nat /\ At(db.adj_state, <<v, d>>, Complete(n))
      BY <2>1, <2>2, CachedIs
    <3>2. n = Cardinality(KeysAt(db, v, d))
      BY <2>1, <3>1 DEF Exact
    <3>3. Cardinality(scanEdges(db, v, d)) = Cardinality(KeysAt(db, v, d))
      BY <2>1, <2>2, ScanCount
    <3>4. countDegree(db, v, d) = n
      BY <2>2 DEF countDegree
    <3>5. QED
      BY <3>2, <3>3, <3>4
  <2>3. CASE ~Cached(db, v, d)
    BY <2>3 DEF countDegree
  <2>4. QED
    BY <2>2, <2>3
<1>2. QED
  BY <1>1, Invariance, PTL

\* DELETE and DETACH DELETE leave no edge of the vertex behind, except for an
\* insert that overlapped them at an end whose adjacency is in edge_index, and
\* for an edge that the same DELETE named and did not find.
THEOREM NothingDangles == Spec => []NoDanglingEdge
<1>1. IInv => NoDanglingEdge
  <2> SUFFICES ASSUME IInv, NEW e \in scanEdgesByType(db), NEW v \in Vertices, v \in {e.s, e.t}, ~Live(v)
               PROVE  <<e.e, v>> \in lapped
    BY DEF NoDanglingEdge
  <2> DEFINE k == <<e.s, e.t, e.q>>
  <2>1. IsStore(db) /\ Attached(db, lapped)
    BY DEF IInv, StoreInv
  <2>2. e \in Edges /\ At(db.etype, k, e.e)
    BY <2>1, TypeScan
  <2>3. k \in EdgeKeys /\ e.e \in Nat /\ k[1] = e.s /\ k[2] = e.t
    BY <2>2 DEF Edges, EdgeKeys
  <2> HIDE DEF k
  <2>4. Has(db, "existence", v) \/ <<e.e, v>> \in lapped
    BY <2>1, <2>2, <2>3 DEF Attached
  <2>5. QED
    BY <2>4 DEF Live
<1>2. QED
  BY <1>1, Invariance, PTL

\* An acknowledged insert is stored until a DELETE names the edge; it can only
\* be lost to another acknowledged insert, or a DELETE, under the same key.
THEOREM AcknowledgedIsKept == Spec => []KeptUnlessOverwritten
<1>1. IInv => KeptUnlessOverwritten
  <2> SUFFICES ASSUME IInv, NEW a \in acked, a.e \notin dropped, a \notin scanEdgesByType(db)
               PROVE  a.e \in struck \/ \E b \in acked : b.e # a.e /\ b.s = a.s /\ b.t = a.t /\ b.q = a.q
    BY DEF KeptUnlessOverwritten
  <2>1. IsStore(db) /\ a \in Edges /\ Kept(db, acked, dropped, struck)
    BY DEF IInv, TypeOK, StoreInv
  <2>2. ~At(db.etype, <<a.s, a.t, a.q>>, a.e)
    BY <2>1, TypeScan
  <2>3. QED
    BY <2>1, <2>2 DEF Kept
<1>2. QED
  BY <1>1, Invariance, PTL

\* The edge index has an entry for an edge exactly when the edge has a stored
\* value, DETACH DELETE's leftovers aside.
THEOREM IndexFollows == Spec => []IndexAgrees
<1>1. IInv => IndexAgrees
  <2> SUFFICES ASSUME IInv PROVE IndexAgrees
    OBVIOUS
  <2>1. IsStore(db) /\ Indexed(db, ghosts)
    BY DEF IInv, StoreInv
  <2>2. (\A r \in db["eidx"] : r.k \in Nat) /\ (\A r \in db["eprop"] : r.k \in Nat)
    <3>1. ASSUME NEW r \in db["eidx"] PROVE r.k \in Nat
      BY <2>1, RowShape, TableNames DEF RowsOf
    <3>2. ASSUME NEW r \in db["eprop"] PROVE r.k \in Nat
      BY <2>1, RowShape, TableNames DEF RowsOf
    <3>3. QED
      BY <3>1, <3>2
  <2>3. ASSUME NEW e PROVE e \in {r.k : r \in db["eidx"]} \ ghosts <=> e \in {r.k : r \in db["eprop"]} \ ghosts
    BY <2>1, <2>2 DEF Indexed, Has
  <2>4. {r.k : r \in db["eidx"]} \ ghosts = {r.k : r \in db["eprop"]} \ ghosts
    BY <2>3
  <2>5. QED
    BY <2>4 DEF IndexAgrees
<1>2. QED
  BY <1>1, Invariance, PTL
=============================================================================
