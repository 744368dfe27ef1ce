------------------------- MODULE VertexStoreProofs --------------------------
(***************************************************************************)
(* Proofs about VertexStore: label scans, the summary and the index tell   *)
(* the same story as the rows of a vertex, for every number of vertices,   *)
(* labels, values and overlapping transactions.                            *)
(*                                                                         *)
(* The invariant is IInv.  A statement only writes rows of one vertex      *)
(* (Frame), so that its commit replaces the rows of that vertex by the     *)
(* statement's where no other transaction was on it; what overlapping      *)
(* transactions may do to one vertex is bounded by the two label tables    *)
(* being written together and by the summary that each of them deletes.    *)
(***************************************************************************)
EXTENDS VertexStore, WellFoundedInduction, TLAPS

-----------------------------------------------------------------------------
(* Tables *)

\* One value for each key.
Functional(rows) == \A r, q \in rows : r.k = q.k => r = q

LEMMA PutFacts ==
    ASSUME NEW s, IsStore(s), NEW T \in Tables, NEW rows, rows \subseteq RowsOf(T), Functional(rows)
    PROVE  LET p == table_put_all(s, T, rows) IN
           /\ IsStore(p)
           /\ p[T] = {r \in s[T] : \A q \in rows : q.k # r.k} \cup rows
           /\ \A U \in Tables : U # T => p[U] = s[U]
           /\ p.wrote = s.wrote \cup {<<T, q.k>> : q \in rows}
<1> DEFINE p == table_put_all(s, T, rows)
<1>1. DOMAIN s = Tables \cup {"wrote"} /\ T # "wrote" /\ T \in DOMAIN s /\ "wrote" \in DOMAIN s
  BY DEF IsStore, Tables
<1>2. /\ p[T] = {r \in s[T] : \A q \in rows : q.k # r.k} \cup rows
      /\ \A U \in Tables : U # T => p[U] = s[U]
      /\ p.wrote = s.wrote \cup {<<T, q.k>> : q \in rows}
      /\ DOMAIN p = Tables \cup {"wrote"}
  BY <1>1 DEF table_put_all, Tables
<1> HIDE DEF p
<1>3. \A U \in Tables : p[U] \subseteq RowsOf(U)
  BY <1>2 DEF IsStore
<1>4. ASSUME NEW U \in Tables, NEW r \in p[U], NEW q \in p[U], r.k = q.k PROVE r = q
  <2>1. CASE U # T
    BY <1>2, <1>4, <2>1 DEF IsStore
  <2>2. CASE U = T
    BY <1>2, <1>4, <2>2 DEF IsStore, Functional
  <2>3. QED
    BY <2>1, <2>2
<1>5. IsStore(p)
  BY <1>2, <1>3, <1>4 DEF IsStore
<1>6. QED
  BY <1>2, <1>5 DEF p

LEMMA DelFacts ==
    ASSUME NEW s, IsStore(s), NEW T \in Tables, NEW keys
    PROVE  LET p == table_del_all(s, T, keys) IN
           /\ IsStore(p)
           /\ p[T] = {r \in s[T] : r.k \notin keys}
           /\ \A U \in Tables : U # T => p[U] = s[U]
           /\ p.wrote = s.wrote \cup {<<T, r.k>> : r \in {q \in s[T] : q.k \in keys}}
<1> DEFINE p == table_del_all(s, T, keys)
<1>1. DOMAIN s = Tables \cup {"wrote"} /\ T # "wrote" /\ T \in DOMAIN s /\ "wrote" \in DOMAIN s
  BY DEF IsStore, Tables
<1>2. /\ p[T] = {r \in s[T] : r.k \notin keys}
      /\ \A U \in Tables : U # T => p[U] = s[U]
      /\ p.wrote = s.wrote \cup {<<T, r.k>> : r \in {q \in s[T] : q.k \in keys}}
      /\ DOMAIN p = Tables \cup {"wrote"}
  BY <1>1 DEF table_del_all, Tables
<1> HIDE DEF p
<1>3. IsStore(p)
  BY <1>2 DEF IsStore
<1>4. QED
  BY <1>2, <1>3 DEF p

-----------------------------------------------------------------------------
(* Writing rows of one vertex *)

Frame(s0, s, v) == IsStore(s) /\ WritesOnly(s, v) /\ SameUnwritten(s0, s, v)

LEMMA FramePut ==
    ASSUME NEW s0, NEW s, NEW v \in Vertices, Frame(s0, s, v),
           NEW T \in Tables, NEW rows, rows \subseteq RowsOf(T), Functional(rows),
           \A q \in rows : OwnerOf(T, q.k) = v
    PROVE  Frame(s0, table_put_all(s, T, rows), v)
<1> DEFINE p == table_put_all(s, T, rows)
<1>1. IsStore(s)
  BY DEF Frame
<1>2. /\ IsStore(p)
      /\ p[T] = {r \in s[T] : \A q \in rows : q.k # r.k} \cup rows
      /\ \A U \in Tables : U # T => p[U] = s[U]
      /\ p.wrote = s.wrote \cup {<<T, q.k>> : q \in rows}
  BY <1>1, PutFacts
<1> HIDE DEF p
<1>3. WritesOnly(p, v)
  BY <1>2 DEF WritesOnly, Frame
<1>4. SameUnwritten(s0, p, v)
  <2> SUFFICES ASSUME NEW U \in Tables
      PROVE /\ \A r \in p[U] : OwnerOf(U, r.k) = v /\ <<U, r.k>> \notin p.wrote => r \in s0[U]
            /\ \A r \in s0[U] : OwnerOf(U, r.k) = v /\ <<U, r.k>> \notin p.wrote => r \in p[U]
    BY DEF SameUnwritten
  <2>1. CASE U # T
    BY <1>2, <2>1 DEF SameUnwritten, Frame
  <2>2. CASE U = T
    BY <1>2, <2>2 DEF SameUnwritten, Frame
  <2>3. QED
    BY <2>1, <2>2
<1>5. QED
  BY <1>2, <1>3, <1>4 DEF Frame, p

LEMMA FrameDel ==
    ASSUME NEW s0, NEW s, NEW v \in Vertices, Frame(s0, s, v),
           NEW T \in Tables, NEW keys, \A k \in keys : OwnerOf(T, k) = v
    PROVE  Frame(s0, table_del_all(s, T, keys), v)
<1> DEFINE p == table_del_all(s, T, keys)
<1>1. IsStore(s)
  BY DEF Frame
<1>2. /\ IsStore(p)
      /\ p[T] = {r \in s[T] : r.k \notin keys}
      /\ \A U \in Tables : U # T => p[U] = s[U]
      /\ p.wrote = s.wrote \cup {<<T, r.k>> : r \in {q \in s[T] : q.k \in keys}}
  BY <1>1, DelFacts
<1> HIDE DEF p
<1>3. WritesOnly(p, v)
  BY <1>2 DEF WritesOnly, Frame
<1>4. SameUnwritten(s0, p, v)
  <2> SUFFICES ASSUME NEW U \in Tables
      PROVE /\ \A r \in p[U] : OwnerOf(U, r.k) = v /\ <<U, r.k>> \notin p.wrote => r \in s0[U]
            /\ \A r \in s0[U] : OwnerOf(U, r.k) = v /\ <<U, r.k>> \notin p.wrote => r \in p[U]
    BY DEF SameUnwritten
  <2>1. CASE U # T
    BY <1>2, <2>1 DEF SameUnwritten, Frame
  <2>2. CASE U = T
    BY <1>2, <2>2 DEF SameUnwritten, Frame
  <2>3. QED
    BY <2>1, <2>2
<1>5. QED
  BY <1>2, <1>3, <1>4 DEF Frame, p

-----------------------------------------------------------------------------
(* Kinds of rows *)

LEMMA Kinds ==
    /\ Anon \in Labels /\ Null \notin Values /\ UserLabels \subseteq Labels /\ Labels \subseteq Nat
    /\ 1 \in UserLabels /\ 1 # Anon /\ Anon \notin UserLabels
    /\ \A v \in Vertices, l \in Labels :
        /\ [k |-> <<v, l>>, x |-> 0] \in RowsOf("label") /\ [k |-> <<l, v>>, x |-> 0] \in RowsOf("fwd")
        /\ OwnerOf("label", <<v, l>>) = v /\ OwnerOf("fwd", <<l, v>>) = v /\ OwnerOf("prop", <<v, l>>) = v
        /\ <<v, l>> \in KeysOf["label"] /\ <<l, v>> \in KeysOf["fwd"] /\ <<v, l>> \in KeysOf["prop"]
    /\ \A v \in Vertices, l \in Labels, x \in Values : [k |-> <<v, l>>, x |-> x] \in RowsOf("prop")
    /\ \A v \in Vertices, x \in Values :
        [k |-> <<x, v>>, x |-> 0] \in RowsOf("vidx") /\ OwnerOf("vidx", <<x, v>>) = v
    /\ \A v \in Vertices :
        /\ [k |-> v, x |-> 0] \in RowsOf("existence")
        /\ OwnerOf("existence", v) = v /\ OwnerOf("summary", v) = v /\ v \in KeysOf["summary"]
    /\ \A v \in Vertices : \A x \in SUBSET (Labels \X (Values \cup {Null})) : [k |-> v, x |-> x] \in RowsOf("summary")
BY VertexStoreAssumption DEF Labels, Anon, Null, RowsOf, KeysOf, ValuesOf, OwnerOf

LEMMA RowShapes ==
    ASSUME NEW s, IsStore(s)
    PROVE  /\ \A r \in s.label : \E v \in Vertices, l \in Labels : r = [k |-> <<v, l>>, x |-> 0]
           /\ \A r \in s.fwd : \E v \in Vertices, l \in Labels : r = [k |-> <<l, v>>, x |-> 0]
           /\ \A r \in s.prop : \E v \in Vertices, l \in Labels, x \in Values : r = [k |-> <<v, l>>, x |-> x]
           /\ \A r \in s.vidx : \E v \in Vertices, x \in Values : r = [k |-> <<x, v>>, x |-> 0]
           /\ \A r \in s.existence : \E v \in Vertices : r = [k |-> v, x |-> 0]
           /\ \A r \in s.summary : r.k \in Vertices
<1>1. \A T \in Tables : s[T] \subseteq RowsOf(T)
  BY DEF IsStore
<1>2. /\ s.label \subseteq RowsOf("label") /\ s.fwd \subseteq RowsOf("fwd") /\ s.prop \subseteq RowsOf("prop")
      /\ s.vidx \subseteq RowsOf("vidx") /\ s.existence \subseteq RowsOf("existence") /\ s.summary \subseteq RowsOf("summary")
  BY <1>1 DEF Tables
<1>3. \A r \in s.label : \E v \in Vertices, l \in Labels : r = [k |-> <<v, l>>, x |-> 0]
  BY <1>2 DEF RowsOf, KeysOf, ValuesOf
<1>4. \A r \in s.fwd : \E v \in Vertices, l \in Labels : r = [k |-> <<l, v>>, x |-> 0]
  BY <1>2 DEF RowsOf, KeysOf, ValuesOf
<1>5. \A r \in s.prop : \E v \in Vertices, l \in Labels, x \in Values : r = [k |-> <<v, l>>, x |-> x]
  BY <1>2 DEF RowsOf, KeysOf, ValuesOf
<1>6. \A r \in s.vidx : \E v \in Vertices, x \in Values : r = [k |-> <<x, v>>, x |-> 0]
  BY <1>2 DEF RowsOf, KeysOf, ValuesOf
<1>7. \A r \in s.existence : \E v \in Vertices : r = [k |-> v, x |-> 0]
  BY <1>2 DEF RowsOf, KeysOf, ValuesOf
<1>8. \A r \in s.summary : r.k \in Vertices
  BY <1>2 DEF RowsOf, KeysOf, ValuesOf
<1>9. QED
  BY <1>3, <1>4, <1>5, <1>6, <1>7, <1>8

\* What the rows of a vertex say, in terms of keys.
LEMMA LabelIsRow ==
    ASSUME NEW s, IsStore(s), NEW v, NEW l
    PROVE  /\ l \in getVertexLabels(s, v) <=> Has(s, "label", <<v, l>>)
           /\ l \in getVertexLabels(s, v) => l \in Labels
           /\ v \in scanVerticesByLabel(s, l) <=> Has(s, "fwd", <<l, v>>)
BY RowShapes DEF getVertexLabels, scanVerticesByLabel, Has

LEMMA PropertyIsRow ==
    ASSUME NEW s, IsStore(s), NEW v, NEW l
    PROVE  /\ getVertexProperty(s, v, l) \in Values \cup {Null}
           /\ getVertexProperty(s, v, l) # Null <=> Has(s, "prop", <<v, l>>)
           /\ \A x : [k |-> <<v, l>>, x |-> x] \in s.prop => getVertexProperty(s, v, l) = x
           /\ getVertexProperty(s, v, l) # Null => [k |-> <<v, l>>, x |-> getVertexProperty(s, v, l)] \in s.prop
<1>1. CASE ~Has(s, "prop", <<v, l>>)
  BY <1>1 DEF getVertexProperty, Has
<1>2. CASE Has(s, "prop", <<v, l>>)
  <2>1. PICK r \in s.prop : r.k = <<v, l>>
    BY <1>2 DEF Has
  <2>2. \A q \in s.prop : q.k = <<v, l>> => q = r
    BY <2>1 DEF IsStore, Tables
  <2>3. (CHOOSE q \in s.prop : q.k = <<v, l>>) = r
    BY <2>1, <2>2
  <2>4. getVertexProperty(s, v, l) = r.x
    BY <1>2, <2>3 DEF getVertexProperty, table_get
  <2>5. r.x \in Values /\ r = [k |-> <<v, l>>, x |-> r.x]
    BY <2>1, RowShapes
  <2>6. QED
    BY <1>2, <2>2, <2>4, <2>5, Kinds
<1>3. QED
  BY <1>1, <1>2

-----------------------------------------------------------------------------
(* The two label tables *)

LEMMA AgreeSame ==
    ASSUME NEW s, LabelsAgree(s), NEW p, p.label = s.label, p.fwd = s.fwd,
           \A v \in Vertices, l \in Labels :
               /\ <<"label", <<v, l>>>> \in p.wrote <=> <<"label", <<v, l>>>> \in s.wrote
               /\ <<"fwd", <<l, v>>>> \in p.wrote <=> <<"fwd", <<l, v>>>> \in s.wrote
    PROVE  LabelsAgree(p)
BY DEF LabelsAgree, Has

LEMMA AgreePut ==
    ASSUME NEW s, IsStore(s), LabelsAgree(s), NEW p, NEW v \in Vertices, NEW LS \in SUBSET Labels,
           \A w \in Vertices, l \in Labels :
               /\ Has(p, "label", <<w, l>>) <=> Has(s, "label", <<w, l>>) \/ (w = v /\ l \in LS)
               /\ Has(p, "fwd", <<l, w>>) <=> Has(s, "fwd", <<l, w>>) \/ (w = v /\ l \in LS)
               /\ <<"label", <<w, l>>>> \in p.wrote <=> <<"label", <<w, l>>>> \in s.wrote \/ (w = v /\ l \in LS)
               /\ <<"fwd", <<l, w>>>> \in p.wrote <=> <<"fwd", <<l, w>>>> \in s.wrote \/ (w = v /\ l \in LS)
    PROVE  LabelsAgree(p)
BY DEF LabelsAgree

LEMMA AgreeDel ==
    ASSUME NEW s, IsStore(s), LabelsAgree(s), NEW p, NEW v \in Vertices, NEW LS \in SUBSET Labels,
           \A w \in Vertices, l \in Labels :
               /\ Has(p, "label", <<w, l>>) <=> Has(s, "label", <<w, l>>) /\ ~(w = v /\ l \in LS)
               /\ Has(p, "fwd", <<l, w>>) <=> Has(s, "fwd", <<l, w>>) /\ ~(w = v /\ l \in LS)
               /\ <<"label", <<w, l>>>> \in p.wrote <=>
                    <<"label", <<w, l>>>> \in s.wrote \/ (w = v /\ l \in LS /\ Has(s, "label", <<w, l>>))
               /\ <<"fwd", <<l, w>>>> \in p.wrote <=>
                    <<"fwd", <<l, w>>>> \in s.wrote \/ (w = v /\ l \in LS /\ Has(s, "fwd", <<l, w>>))
    PROVE  LabelsAgree(p)
BY DEF LabelsAgree

-----------------------------------------------------------------------------
(* The operations of SyncGraphDataStore *)

\* s was reached from the snapshot s0 by writing rows of v.
Good(s0, s, v) == Frame(s0, s, v) /\ LabelsAgree(s)

\* The summary is still the snapshot's only where no label or value changed.
Told(s, v) == Has(s, "summary", v) => ~Changed(s, v) /\ <<"summary", v>> \notin s.wrote

LEMMA GoodPut ==
    ASSUME NEW s0, NEW s, NEW v \in Vertices, Good(s0, s, v), NEW T \in Tables, T \notin {"label", "fwd"},
           NEW rows, rows \subseteq RowsOf(T), Functional(rows), \A q \in rows : OwnerOf(T, q.k) = v
    PROVE  /\ Good(s0, table_put_all(s, T, rows), v)
           /\ \A r : r \in table_put_all(s, T, rows)[T] <=> (r \in s[T] /\ \A q \in rows : q.k # r.k) \/ r \in rows
           /\ \A U \in Tables : U # T => table_put_all(s, T, rows)[U] = s[U]
           /\ \A U \in Tables : \A k : <<U, k>> \in table_put_all(s, T, rows).wrote <=>
                                     <<U, k>> \in s.wrote \/ (U = T /\ \E q \in rows : q.k = k)
<1> DEFINE p == table_put_all(s, T, rows)
<1>1. /\ Frame(s0, p, v)
      /\ p[T] = {r \in s[T] : \A q \in rows : q.k # r.k} \cup rows
      /\ \A U \in Tables : U # T => p[U] = s[U]
      /\ p.wrote = s.wrote \cup {<<T, q.k>> : q \in rows}
  BY FramePut, PutFacts DEF Good, Frame
<1> HIDE DEF p
<1>2. LabelsAgree(p)
  BY <1>1, AgreeSame DEF Good, Tables
<1>3. \A U \in Tables : \A k : <<U, k>> \in p.wrote <=> <<U, k>> \in s.wrote \/ (U = T /\ \E q \in rows : q.k = k)
  BY <1>1
<1>4. \A r : r \in p[T] <=> (r \in s[T] /\ \A q \in rows : q.k # r.k) \/ r \in rows
  BY <1>1
<1>5. Good(s0, p, v)
  BY <1>1, <1>2 DEF Good
<1>6. QED
  BY <1>1, <1>3, <1>4, <1>5 DEF p

LEMMA GoodDel ==
    ASSUME NEW s0, NEW s, NEW v \in Vertices, Good(s0, s, v), NEW T \in Tables, T \notin {"label", "fwd"},
           NEW keys, \A k \in keys : OwnerOf(T, k) = v
    PROVE  /\ Good(s0, table_del_all(s, T, keys), v)
           /\ \A r : r \in table_del_all(s, T, keys)[T] <=> r \in s[T] /\ r.k \notin keys
           /\ \A U \in Tables : U # T => table_del_all(s, T, keys)[U] = s[U]
           /\ \A U \in Tables : \A k : <<U, k>> \in table_del_all(s, T, keys).wrote <=>
                                     <<U, k>> \in s.wrote \/ (U = T /\ k \in keys /\ Has(s, T, k))
<1> DEFINE p == table_del_all(s, T, keys)
<1>1. /\ Frame(s0, p, v)
      /\ p[T] = {r \in s[T] : r.k \notin keys}
      /\ \A U \in Tables : U # T => p[U] = s[U]
      /\ p.wrote = s.wrote \cup {<<T, r.k>> : r \in {q \in s[T] : q.k \in keys}}
  BY FrameDel, DelFacts DEF Good, Frame
<1> HIDE DEF p
<1>2. LabelsAgree(p)
  BY <1>1, AgreeSame DEF Good, Tables
<1>3. \A U \in Tables : \A k : <<U, k>> \in p.wrote <=> <<U, k>> \in s.wrote \/ (U = T /\ k \in keys /\ Has(s, T, k))
  BY <1>1 DEF Has
<1>4. \A r : r \in p[T] <=> r \in s[T] /\ r.k \notin keys
  BY <1>1
<1>5. Good(s0, p, v)
  BY <1>1, <1>2 DEF Good
<1>6. QED
  BY <1>1, <1>3, <1>4, <1>5 DEF p

\* Every operation ends with the deletion of the summary.
LEMMA DropSummary ==
    ASSUME NEW s0, NEW s, NEW v \in Vertices, Good(s0, s, v)
    PROVE  /\ Good(s0, table_del(s, "summary", v), v) /\ ~Has(table_del(s, "summary", v), "summary", v)
           /\ Told(table_del(s, "summary", v), v)
           /\ \A U \in Tables : U # "summary" => table_del(s, "summary", v)[U] = s[U]
           /\ \A U \in Tables : \A k : U # "summary" => (<<U, k>> \in table_del(s, "summary", v).wrote <=> <<U, k>> \in s.wrote)
<1>1. "summary" \in Tables /\ "summary" \notin {"label", "fwd"} /\ \A k \in {v} : OwnerOf("summary", k) = v
  BY Kinds DEF Tables
<1>2. QED
  BY <1>1, GoodDel DEF table_del, Told, Has

LEMMA PutPropertyOp ==
    ASSUME NEW s0, NEW s, NEW v \in Vertices, NEW l \in Labels, NEW x \in Values, Good(s0, s, v),
           NEW p, p = putVertexProperty(s, v, l, x)
    PROVE  /\ Good(s0, p, v) /\ Told(p, v)
           /\ p.existence = s.existence /\ p.label = s.label /\ p.vidx = s.vidx
           /\ \A r : r \in p.prop <=> (r \in s.prop /\ r.k # <<v, l>>) \/ r = [k |-> <<v, l>>, x |-> x]
<1> DEFINE row == [k |-> <<v, l>>, x |-> x]
           rows == {row}
           q == table_put_all(s, "prop", rows)
<1>1. row.k = <<v, l>> /\ row \in RowsOf("prop") /\ OwnerOf("prop", <<v, l>>) = v
  BY Kinds
<1>2. "prop" \in Tables /\ "prop" \notin {"label", "fwd"}
  BY DEF Tables
<1> HIDE DEF row
<1>3. rows \subseteq RowsOf("prop") /\ Functional(rows) /\ \A r \in rows : OwnerOf("prop", r.k) = v
  BY <1>1 DEF Functional
<1>8. \A r : r \in rows <=> r = row
  OBVIOUS
<1>5. p = table_del(q, "summary", v)
  BY DEF putVertexProperty, table_put, row
<1> HIDE DEF rows
<1>4. /\ Good(s0, q, v)
      /\ \A r : r \in q["prop"] <=> (r \in s["prop"] /\ \A y \in rows : y.k # r.k) \/ r \in rows
      /\ \A U \in Tables : U # "prop" => q[U] = s[U]
  BY <1>2, <1>3, GoodPut
<1> HIDE DEF q
<1>6. Good(s0, p, v) /\ Told(p, v) /\ \A U \in Tables : U # "summary" => p[U] = q[U]
  BY <1>4, <1>5, DropSummary
<1>7. QED
  BY <1>1, <1>4, <1>6, <1>8 DEF row, Tables

LEMMA DeletePropertiesOp ==
    ASSUME NEW s0, NEW s, NEW v \in Vertices, NEW LS \in SUBSET Labels, Good(s0, s, v), Told(s, v),
           NEW p, p = deleteVertexProperties(s, v, LS)
    PROVE  /\ Good(s0, p, v) /\ Told(p, v)
           /\ p.existence = s.existence /\ p.label = s.label /\ p.vidx = s.vidx
           /\ \A r : r \in p.prop <=> r \in s.prop /\ \A l \in LS : r.k # <<v, l>>
<1>1. CASE LS = {}
  BY <1>1 DEF deleteVertexProperties
<1>2. CASE LS # {}
  <2> DEFINE keys == {<<v, l>> : l \in LS}
             q == table_del_all(s, "prop", keys)
  <2>1. \A l \in LS : OwnerOf("prop", <<v, l>>) = v
    BY Kinds
  <2>2. \A k \in keys : OwnerOf("prop", k) = v
    BY <2>1
  <2>3. "prop" \in Tables /\ "prop" \notin {"label", "fwd"}
    BY DEF Tables
  <2>4. /\ Good(s0, q, v)
        /\ \A r : r \in q["prop"] <=> r \in s["prop"] /\ r.k \notin keys
        /\ \A U \in Tables : U # "prop" => q[U] = s[U]
    BY <2>2, <2>3, GoodDel
  <2>5. p = table_del(q, "summary", v)
    BY <1>2 DEF deleteVertexProperties
  <2> HIDE DEF q
  <2>6. Good(s0, p, v) /\ Told(p, v) /\ \A U \in Tables : U # "summary" => p[U] = q[U]
    BY <2>4, <2>5, DropSummary
  <2>7. QED
    BY <2>4, <2>6 DEF Tables
<1>3. QED
  BY <1>1, <1>2

\* What changes index entries changes nothing else.
OnlyEntries(s, p) ==
    /\ p.existence = s.existence /\ p.label = s.label /\ p.prop = s.prop /\ p.summary = s.summary
    /\ \A U \in Tables : \A k : U # "vidx" => (<<U, k>> \in p.wrote <=> <<U, k>> \in s.wrote)

LEMMA DeleteEntriesOp ==
    ASSUME NEW s0, NEW s, NEW v \in Vertices, NEW es, es \subseteq Values \X {v}, Good(s0, s, v), Told(s, v),
           NEW p, p = deleteEntries(s, es)
    PROVE  /\ Good(s0, p, v) /\ Told(p, v) /\ OnlyEntries(s, p)
           /\ \A r : r \in p.vidx <=> r \in s.vidx /\ r.k \notin es
<1>1. "vidx" \in Tables /\ "vidx" \notin {"label", "fwd"}
  BY DEF Tables
<1>2. \A e \in es : OwnerOf("vidx", e) = v
  BY DEF OwnerOf
<1>3. /\ Good(s0, p, v)
      /\ \A r : r \in p["vidx"] <=> r \in s["vidx"] /\ r.k \notin es
      /\ \A U \in Tables : U # "vidx" => p[U] = s[U]
      /\ \A U \in Tables : \A k : <<U, k>> \in p.wrote <=> <<U, k>> \in s.wrote \/ (U = "vidx" /\ k \in es /\ Has(s, "vidx", k))
  BY <1>1, <1>2, GoodDel DEF deleteEntries
<1>4. OnlyEntries(s, p)
  BY <1>3 DEF OnlyEntries, Tables
<1>5. Told(p, v)
  BY <1>4 DEF Told, Has, Changed, Tables, OnlyEntries
<1>6. QED
  BY <1>3, <1>4, <1>5

LEMMA PutEntriesOp ==
    ASSUME NEW s0, NEW s, NEW v \in Vertices, NEW es, es \subseteq Values \X {v}, Good(s0, s, v),
           NEW p, p = putEntries(s, es)
    PROVE  /\ Good(s0, p, v) /\ (Told(s, v) => Told(p, v)) /\ OnlyEntries(s, p)
           /\ \A r : r \in p.vidx <=> (r \in s.vidx /\ r.k \notin es) \/ \E e \in es : r = [k |-> e, x |-> 0]
<1> DEFINE rows == {[k |-> e, x |-> 0] : e \in es}
<1>1. "vidx" \in Tables /\ "vidx" \notin {"label", "fwd"}
  BY DEF Tables
<1>2. \A e \in es : OwnerOf("vidx", e) = v /\ [k |-> e, x |-> 0] \in RowsOf("vidx")
  BY DEF OwnerOf, RowsOf, KeysOf, ValuesOf
<1>3. rows \subseteq RowsOf("vidx") /\ Functional(rows) /\ \A q \in rows : OwnerOf("vidx", q.k) = v
  BY <1>2 DEF Functional
<1>4. p = table_put_all(s, "vidx", rows)
  BY DEF putEntries
<1>5. /\ \A r : r \in rows <=> \E e \in es : r = [k |-> e, x |-> 0]
      /\ \A k : k \in es <=> \E q \in rows : q.k = k
  <2>1. \A r : r \in rows <=> \E e \in es : r = [k |-> e, x |-> 0]
    OBVIOUS
  <2>2. ASSUME NEW k \in es PROVE \E q \in rows : q.k = k
    <3>1. [k |-> k, x |-> 0] \in rows /\ [k |-> k, x |-> 0].k = k
      BY <2>2
    <3>2. QED
      BY <3>1
  <2>3. ASSUME NEW q \in rows PROVE q.k \in es
    BY <2>1, <2>3
  <2>4. QED
    BY <2>1, <2>2, <2>3
<1> HIDE DEF rows
<1>6. /\ Good(s0, p, v)
      /\ \A r : r \in p["vidx"] <=> (r \in s["vidx"] /\ \A q \in rows : q.k # r.k) \/ r \in rows
      /\ \A U \in Tables : U # "vidx" => p[U] = s[U]
      /\ \A U \in Tables : \A k : <<U, k>> \in p.wrote <=> <<U, k>> \in s.wrote \/ (U = "vidx" /\ \E q \in rows : q.k = k)
  BY <1>1, <1>3, <1>4, GoodPut
<1>7. OnlyEntries(s, p)
  BY <1>6 DEF OnlyEntries, Tables
<1>8. Told(s, v) => Told(p, v)
  BY <1>7 DEF Told, Has, Changed, Tables, OnlyEntries
<1>9. QED
  BY <1>5, <1>6, <1>7, <1>8

\* p has the rows s has, and writes no others, in all tables but the label tables.
OnlyLabels(s, p) ==
    \A U \in Tables \ {"label", "fwd"} :
        p[U] = s[U] /\ \A k : <<U, k>> \in p.wrote <=> <<U, k>> \in s.wrote

LEMMA PutLabels ==
    ASSUME NEW s0, NEW s, NEW v \in Vertices, Good(s0, s, v), NEW LS \in SUBSET Labels,
           NEW p, p = putLabels(s, v, LS)
    PROVE  /\ Good(s0, p, v) /\ OnlyLabels(s, p)
           /\ \A w \in Vertices, l \in Labels : Has(p, "label", <<w, l>>) <=> Has(s, "label", <<w, l>>) \/ (w = v /\ l \in LS)
           /\ \A l \in LS : <<"label", <<v, l>>>> \in p.wrote /\ <<"fwd", <<l, v>>>> \in p.wrote
<1> DEFINE L == LabelRows(v, LS)
           F == ForwardRows(v, LS)
           q == table_put_all(s, "label", L)
<1>0. /\ \A r : r \in L <=> \E l \in LS : r = [k |-> <<v, l>>, x |-> 0]
      /\ \A r : r \in F <=> \E l \in LS : r = [k |-> <<l, v>>, x |-> 0]
      /\ p = table_put_all(q, "fwd", F)
  BY DEF LabelRows, ForwardRows, putLabels
<1> HIDE DEF L, F
<1>1. "label" \in Tables /\ "fwd" \in Tables
  BY DEF Tables
<1>2. \A l \in LS : /\ [k |-> <<v, l>>, x |-> 0] \in RowsOf("label") /\ [k |-> <<l, v>>, x |-> 0] \in RowsOf("fwd")
                    /\ OwnerOf("label", <<v, l>>) = v /\ OwnerOf("fwd", <<l, v>>) = v
  BY Kinds
<1>3. /\ L \subseteq RowsOf("label") /\ Functional(L) /\ \A r \in L : OwnerOf("label", r.k) = v
      /\ F \subseteq RowsOf("fwd") /\ Functional(F) /\ \A r \in F : OwnerOf("fwd", r.k) = v
  <2>1. ASSUME NEW r \in L PROVE r \in RowsOf("label") /\ OwnerOf("label", r.k) = v /\ r = [k |-> r.k, x |-> 0]
    <3>1. PICK l \in LS : r = [k |-> <<v, l>>, x |-> 0]
      BY <1>0
    <3>2. r.k = <<v, l>>
      BY <3>1
    <3>3. QED
      BY <1>2, <3>1, <3>2
  <2>2. ASSUME NEW r \in F PROVE r \in RowsOf("fwd") /\ OwnerOf("fwd", r.k) = v /\ r = [k |-> r.k, x |-> 0]
    <3>1. PICK l \in LS : r = [k |-> <<l, v>>, x |-> 0]
      BY <1>0
    <3>2. r.k = <<l, v>>
      BY <3>1
    <3>3. QED
      BY <1>2, <3>1, <3>2
  <2>3. \A r, o \in L : r.k = o.k => r = o
    BY <2>1
  <2>4. \A r, o \in F : r.k = o.k => r = o
    BY <2>2
  <2>5. QED
    BY <2>1, <2>2, <2>3, <2>4 DEF Functional
<1>4. /\ \A k : (\E r \in L : r.k = k) <=> (\E l \in LS : k = <<v, l>>)
      /\ \A k : (\E r \in F : r.k = k) <=> (\E l \in LS : k = <<l, v>>)
  <2>1. \A l \in LS : /\ [k |-> <<v, l>>, x |-> 0] \in L /\ [k |-> <<v, l>>, x |-> 0].k = <<v, l>>
                      /\ [k |-> <<l, v>>, x |-> 0] \in F /\ [k |-> <<l, v>>, x |-> 0].k = <<l, v>>
    BY <1>0
  <2>2. \A r \in L : \E l \in LS : r.k = <<v, l>>
    BY <1>0
  <2>3. \A r \in F : \E l \in LS : r.k = <<l, v>>
    BY <1>0
  <2>4. \A k : (\E r \in L : r.k = k) <=> (\E l \in LS : k = <<v, l>>)
    BY <2>1, <2>2
  <2>5. \A k : (\E r \in F : r.k = k) <=> (\E l \in LS : k = <<l, v>>)
    BY <2>1, <2>3
  <2>6. QED
    BY <2>4, <2>5
<1>5. /\ Frame(s0, q, v)
      /\ q["label"] = {r \in s["label"] : \A y \in L : y.k # r.k} \cup L
      /\ \A U \in Tables : U # "label" => q[U] = s[U]
      /\ q.wrote = s.wrote \cup {<<"label", y.k>> : y \in L}
  <2>1. IsStore(s) /\ Frame(s0, s, v)
    BY DEF Good, Frame
  <2>2. Frame(s0, q, v)
    BY <1>1, <1>3, <2>1, FramePut
  <2>3. QED
    BY <1>1, <1>3, <2>1, <2>2, PutFacts
<1>6. p = table_put_all(q, "fwd", F)
  BY <1>0
<1> HIDE DEF q
<1>7. /\ Frame(s0, p, v)
      /\ p["fwd"] = {r \in q["fwd"] : \A y \in F : y.k # r.k} \cup F
      /\ \A U \in Tables : U # "fwd" => p[U] = q[U]
      /\ p.wrote = q.wrote \cup {<<"fwd", y.k>> : y \in F}
  <2>1. IsStore(q)
    BY <1>5 DEF Frame
  <2>2. Frame(s0, p, v)
    BY <1>1, <1>3, <1>5, <1>6, FramePut
  <2>3. QED
    BY <1>1, <1>3, <1>6, <2>1, <2>2, PutFacts
<1>8. OnlyLabels(s, p)
  BY <1>5, <1>7 DEF OnlyLabels, Tables
<1>9. \A k : /\ Has(p, "label", k) <=> Has(s, "label", k) \/ \E l \in LS : k = <<v, l>>
             /\ Has(p, "fwd", k) <=> Has(s, "fwd", k) \/ \E l \in LS : k = <<l, v>>
  <2>1. /\ \A r : r \in p["label"] <=> (r \in s["label"] /\ \A y \in L : y.k # r.k) \/ r \in L
        /\ \A r : r \in p["fwd"] <=> (r \in s["fwd"] /\ \A y \in F : y.k # r.k) \/ r \in F
    BY <1>1, <1>5, <1>7
  <2>2. QED
    BY <1>4, <2>1 DEF Has
<1>10. \A k : /\ <<"label", k>> \in p.wrote <=> <<"label", k>> \in s.wrote \/ \E l \in LS : k = <<v, l>>
              /\ <<"fwd", k>> \in p.wrote <=> <<"fwd", k>> \in s.wrote \/ \E l \in LS : k = <<l, v>>
  <2>1. \A k : /\ <<"label", k>> \in p.wrote <=> <<"label", k>> \in s.wrote \/ \E r \in L : r.k = k
               /\ <<"fwd", k>> \in p.wrote <=> <<"fwd", k>> \in s.wrote \/ \E r \in F : r.k = k
    BY <1>5, <1>7
  <2>2. TAKE k
  <2>3. <<"label", k>> \in p.wrote <=> <<"label", k>> \in s.wrote \/ \E l \in LS : k = <<v, l>>
    <3>1. (\E r \in L : r.k = k) <=> (\E l \in LS : k = <<v, l>>)
      BY <1>4
    <3>2. <<"label", k>> \in p.wrote <=> <<"label", k>> \in s.wrote \/ \E r \in L : r.k = k
      BY <2>1
    <3>3. QED
      BY <3>1, <3>2
  <2>4. <<"fwd", k>> \in p.wrote <=> <<"fwd", k>> \in s.wrote \/ \E l \in LS : k = <<l, v>>
    BY <1>4, <2>1
  <2>5. QED
    BY <2>3, <2>4
<1>11. \A w \in Vertices, l \in Labels :
               /\ Has(p, "label", <<w, l>>) <=> Has(s, "label", <<w, l>>) \/ (w = v /\ l \in LS)
               /\ Has(p, "fwd", <<l, w>>) <=> Has(s, "fwd", <<l, w>>) \/ (w = v /\ l \in LS)
               /\ <<"label", <<w, l>>>> \in p.wrote <=> <<"label", <<w, l>>>> \in s.wrote \/ (w = v /\ l \in LS)
               /\ <<"fwd", <<l, w>>>> \in p.wrote <=> <<"fwd", <<l, w>>>> \in s.wrote \/ (w = v /\ l \in LS)
  <2>1. \A w, l : (\E m \in LS : <<w, l>> = <<v, m>>) <=> w = v /\ l \in LS
    OBVIOUS
  <2>3. \A w, l : (\E m \in LS : <<l, w>> = <<m, v>>) <=> w = v /\ l \in LS
    OBVIOUS
  <2>2. TAKE w \in Vertices, l \in Labels
  <2>4. Has(p, "label", <<w, l>>) <=> Has(s, "label", <<w, l>>) \/ (w = v /\ l \in LS)
    BY <2>1, <1>9
  <2>5. Has(p, "fwd", <<l, w>>) <=> Has(s, "fwd", <<l, w>>) \/ (w = v /\ l \in LS)
    BY <2>3, <1>9
  <2>6. <<"label", <<w, l>>>> \in p.wrote <=> <<"label", <<w, l>>>> \in s.wrote \/ (w = v /\ l \in LS)
    <3>1. <<"label", <<w, l>>>> \in p.wrote <=> <<"label", <<w, l>>>> \in s.wrote \/ \E m \in LS : <<w, l>> = <<v, m>>
      BY <1>10
    <3>2. QED
      BY <3>1, <2>1
  <2>7. <<"fwd", <<l, w>>>> \in p.wrote <=> <<"fwd", <<l, w>>>> \in s.wrote \/ (w = v /\ l \in LS)
    BY <2>3, <1>10
  <2>8. QED
    BY <2>4, <2>5, <2>6, <2>7
<1>12. LabelsAgree(p)
  BY <1>11, AgreePut DEF Good, Frame
<1>13. QED
  BY <1>7, <1>8, <1>11, <1>12 DEF Good

LEMMA DelLabels ==
    ASSUME NEW s0, NEW s, NEW v \in Vertices, Good(s0, s, v), NEW LS \in SUBSET Labels,
           NEW L, \A k : k \in L <=> \E l \in LS : k = <<v, l>>,
           NEW F, \A k : k \in F <=> \E l \in LS : k = <<l, v>>,
           NEW p, \/ p = table_del_all(table_del_all(s, "label", L), "fwd", F)
                  \/ p = table_del_all(table_del_all(s, "fwd", F), "label", L)
    PROVE  /\ Good(s0, p, v) /\ OnlyLabels(s, p)
           /\ \A w \in Vertices, l \in Labels : Has(p, "label", <<w, l>>) <=> Has(s, "label", <<w, l>>) /\ ~(w = v /\ l \in LS)
<1>1. "label" \in Tables /\ "fwd" \in Tables
  BY DEF Tables
<1>2. (\A k \in L : OwnerOf("label", k) = v) /\ (\A k \in F : OwnerOf("fwd", k) = v)
  BY DEF OwnerOf
<1>3. /\ Frame(s0, p, v)
      /\ \A r : r \in p["label"] <=> r \in s["label"] /\ r.k \notin L
      /\ \A r : r \in p["fwd"] <=> r \in s["fwd"] /\ r.k \notin F
      /\ \A U \in Tables \ {"label", "fwd"} : p[U] = s[U]
      /\ p.wrote = (s.wrote \cup {<<"label", r.k>> : r \in {q \in s["label"] : q.k \in L}})
                      \cup {<<"fwd", r.k>> : r \in {q \in s["fwd"] : q.k \in F}}
  <2>1. CASE p = table_del_all(table_del_all(s, "label", L), "fwd", F)
    <3> DEFINE q == table_del_all(s, "label", L)
    <3>1. /\ Frame(s0, q, v)
          /\ q["label"] = {r \in s["label"] : r.k \notin L}
          /\ \A U \in Tables : U # "label" => q[U] = s[U]
          /\ q.wrote = s.wrote \cup {<<"label", r.k>> : r \in {y \in s["label"] : y.k \in L}}
      BY <1>1, <1>2, FrameDel, DelFacts DEF Good, Frame
    <3>2. p = table_del_all(q, "fwd", F)
      BY <2>1
    <3> HIDE DEF q
    <3>3. /\ Frame(s0, p, v)
          /\ p["fwd"] = {r \in q["fwd"] : r.k \notin F}
          /\ \A U \in Tables : U # "fwd" => p[U] = q[U]
          /\ p.wrote = q.wrote \cup {<<"fwd", r.k>> : r \in {y \in q["fwd"] : y.k \in F}}
      BY <1>1, <1>2, <3>1, <3>2, FrameDel, DelFacts DEF Frame
    <3>4. q["fwd"] = s["fwd"]
      BY <1>1, <3>1
    <3>5. QED
      BY <1>1, <3>1, <3>3, <3>4
  <2>2. CASE p = table_del_all(table_del_all(s, "fwd", F), "label", L)
    <3> DEFINE q == table_del_all(s, "fwd", F)
    <3>1. /\ Frame(s0, q, v)
          /\ q["fwd"] = {r \in s["fwd"] : r.k \notin F}
          /\ \A U \in Tables : U # "fwd" => q[U] = s[U]
          /\ q.wrote = s.wrote \cup {<<"fwd", r.k>> : r \in {y \in s["fwd"] : y.k \in F}}
      BY <1>1, <1>2, FrameDel, DelFacts DEF Good, Frame
    <3>2. p = table_del_all(q, "label", L)
      BY <2>2
    <3> HIDE DEF q
    <3>3. /\ Frame(s0, p, v)
          /\ p["label"] = {r \in q["label"] : r.k \notin L}
          /\ \A U \in Tables : U # "label" => p[U] = q[U]
          /\ p.wrote = q.wrote \cup {<<"label", r.k>> : r \in {y \in q["label"] : y.k \in L}}
      BY <1>1, <1>2, <3>1, <3>2, FrameDel, DelFacts DEF Frame
    <3>4. q["label"] = s["label"]
      BY <1>1, <3>1
    <3>5. QED
      BY <1>1, <3>1, <3>3, <3>4
  <2>3. QED
    BY <2>1, <2>2
<1>4. OnlyLabels(s, p)
  BY <1>3 DEF OnlyLabels, Tables
<1>5. \A k : /\ Has(p, "label", k) <=> Has(s, "label", k) /\ k \notin L
             /\ Has(p, "fwd", k) <=> Has(s, "fwd", k) /\ k \notin F
             /\ <<"label", k>> \in p.wrote <=> <<"label", k>> \in s.wrote \/ (k \in L /\ Has(s, "label", k))
             /\ <<"fwd", k>> \in p.wrote <=> <<"fwd", k>> \in s.wrote \/ (k \in F /\ Has(s, "fwd", k))
  BY <1>3 DEF Has
<1>6. \A w \in Vertices, l \in Labels :
               /\ Has(p, "label", <<w, l>>) <=> Has(s, "label", <<w, l>>) /\ ~(w = v /\ l \in LS)
               /\ Has(p, "fwd", <<l, w>>) <=> Has(s, "fwd", <<l, w>>) /\ ~(w = v /\ l \in LS)
               /\ <<"label", <<w, l>>>> \in p.wrote <=>
                    <<"label", <<w, l>>>> \in s.wrote \/ (w = v /\ l \in LS /\ Has(s, "label", <<w, l>>))
               /\ <<"fwd", <<l, w>>>> \in p.wrote <=>
                    <<"fwd", <<l, w>>>> \in s.wrote \/ (w = v /\ l \in LS /\ Has(s, "fwd", <<l, w>>))
  <2>1. \A w, l : (\E m \in LS : <<w, l>> = <<v, m>>) <=> w = v /\ l \in LS
    OBVIOUS
  <2>3. \A w, l : (\E m \in LS : <<l, w>> = <<m, v>>) <=> w = v /\ l \in LS
    OBVIOUS
  <2>4. \A w, l : (<<w, l>> \in L <=> w = v /\ l \in LS) /\ (<<l, w>> \in F <=> w = v /\ l \in LS)
    BY <2>1, <2>3
  <2>2. QED
    BY <2>1, <2>3, <2>4, <1>5
<1>7. LabelsAgree(p)
  BY <1>6, AgreeDel DEF Good, Frame
<1>8. QED
  BY <1>3, <1>4, <1>6, <1>7 DEF Good

LEMMA AddLabelOp ==
    ASSUME NEW s0, NEW s, NEW v \in Vertices, NEW l \in Labels, Good(s0, s, v),
           NEW p, p = addVertexLabel(s, v, l)
    PROVE  /\ Good(s0, p, v) /\ Told(p, v)
           /\ p.existence = s.existence /\ p.prop = s.prop /\ p.vidx = s.vidx
           /\ \A m : m \in getVertexLabels(p, v) <=> m \in getVertexLabels(s, v) \/ m = l
<1> DEFINE LS == {l}
           q == putLabels(s, v, LS)
<1>1. p = table_del(q, "summary", v)
  BY DEF addVertexLabel
<1>2. LS \in SUBSET Labels /\ \A m : m \in LS <=> m = l
  OBVIOUS
<1> HIDE DEF LS
<1>3. /\ Good(s0, q, v) /\ OnlyLabels(s, q)
      /\ \A w \in Vertices, m \in Labels : Has(q, "label", <<w, m>>) <=> Has(s, "label", <<w, m>>) \/ (w = v /\ m \in LS)
  BY <1>2, PutLabels
<1> HIDE DEF q
<1>4. Good(s0, p, v) /\ Told(p, v) /\ \A U \in Tables : U # "summary" => p[U] = q[U]
  BY <1>1, <1>3, DropSummary
<1>5. p.existence = s.existence /\ p.prop = s.prop /\ p.vidx = s.vidx /\ p.label = q.label
  BY <1>3, <1>4 DEF OnlyLabels, Tables
<1>6. IsStore(p) /\ IsStore(s)
  BY <1>4 DEF Good, Frame
<1>7. \A m \in Labels : Has(p, "label", <<v, m>>) <=> Has(s, "label", <<v, m>>) \/ m = l
  BY <1>2, <1>3, <1>5 DEF Has
<1>8. \A m : m \in getVertexLabels(p, v) <=> m \in getVertexLabels(s, v) \/ m = l
  BY <1>6, <1>7, LabelIsRow
<1>9. QED
  BY <1>4, <1>5, <1>8

LEMMA RemoveLabelOp ==
    ASSUME NEW s0, NEW s, NEW v \in Vertices, NEW l \in Labels, Good(s0, s, v),
           NEW p, p = removeVertexLabel(s, v, l)
    PROVE  /\ Good(s0, p, v) /\ Told(p, v)
           /\ p.existence = s.existence /\ p.vidx = s.vidx
           /\ \A r : r \in p.prop <=> r \in s.prop /\ r.k # <<v, l>>
           /\ \A m : m \in getVertexLabels(p, v) <=> m \in getVertexLabels(s, v) /\ m # l
<1> DEFINE LS == {l}
           L == {<<v, l>>}
           F == {<<l, v>>}
           q == table_del_all(table_del_all(s, "label", L), "fwd", F)
           u == table_del_all(q, "prop", L)
<1>1. p = table_del(u, "summary", v)
  BY DEF removeVertexLabel, table_del
<1>2. /\ LS \in SUBSET Labels
      /\ \A k : k \in L <=> \E m \in LS : k = <<v, m>>
      /\ \A k : k \in F <=> \E m \in LS : k = <<m, v>>
  OBVIOUS
<1>3. \A k \in L : OwnerOf("prop", k) = v
  BY DEF OwnerOf
<1>20. \A m : m \in LS <=> m = l
  OBVIOUS
<1> HIDE DEF LS, L, F
<1>4. /\ Good(s0, q, v) /\ OnlyLabels(s, q)
      /\ \A w \in Vertices, m \in Labels : Has(q, "label", <<w, m>>) <=> Has(s, "label", <<w, m>>) /\ ~(w = v /\ m \in LS)
  BY <1>2, DelLabels
<1> HIDE DEF q
<1>5. "prop" \in Tables /\ "prop" \notin {"label", "fwd"}
  BY DEF Tables
<1>6. /\ Good(s0, u, v)
      /\ \A r : r \in u["prop"] <=> r \in q["prop"] /\ r.k \notin L
      /\ \A U \in Tables : U # "prop" => u[U] = q[U]
  BY <1>3, <1>4, <1>5, GoodDel
<1> HIDE DEF u
<1>7. Good(s0, p, v) /\ Told(p, v) /\ \A U \in Tables : U # "summary" => p[U] = u[U]
  BY <1>1, <1>6, DropSummary
<1>8. p.existence = s.existence /\ p.prop = u.prop /\ q.prop = s.prop /\ p.vidx = s.vidx /\ p.label = q.label
  BY <1>4, <1>6, <1>7 DEF OnlyLabels, Tables
<1>9. \A r : r \in p.prop <=> r \in s.prop /\ r.k # <<v, l>>
  BY <1>6, <1>8 DEF L
<1>10. IsStore(p) /\ IsStore(s)
  BY <1>7 DEF Good, Frame
<1>11. \A m \in Labels : Has(p, "label", <<v, m>>) <=> Has(s, "label", <<v, m>>) /\ m # l
  BY <1>4, <1>8, <1>20 DEF Has
<1>12. \A m : m \in getVertexLabels(p, v) <=> m \in getVertexLabels(s, v) /\ m # l
  BY <1>10, <1>11, LabelIsRow
<1>13. QED
  BY <1>7, <1>8, <1>9, <1>12

LEMMA DeleteVertexOp ==
    ASSUME NEW s0, NEW s, NEW v \in Vertices, Good(s0, s, v), NEW p, p = deleteVertex(s, v)
    PROVE  /\ Good(s0, p, v) /\ Told(p, v) /\ p.vidx = s.vidx
           /\ \A r \in p.prop : r.k[1] # v
           /\ getVertexLabels(p, v) = {}
<1> DEFINE LS == getVertexLabels(s, v)
           L == Scanned(s, "label", 1, v)
           F == {<<l, v>> : l \in LS}
           P == Scanned(s, "prop", 1, v)
           a == table_del_all(table_del_all(s, "fwd", F), "label", L)
           b == table_del_all(a, "prop", P)
           c == table_del_all(b, "existence", {v})
<1>1. p = table_del(c, "summary", v)
  BY DEF deleteVertex, table_del
<1>2. IsStore(s)
  BY DEF Good, Frame
<1>3. LS \in SUBSET Labels
  BY <1>2, LabelIsRow
<1>4. \A k : k \in L <=> \E l \in LS : k = <<v, l>>
  BY <1>2, RowShapes DEF Scanned, getVertexLabels
<1>5. \A k : k \in F <=> \E l \in LS : k = <<l, v>>
  OBVIOUS
<1>6. \A k : k \in P <=> Has(s, "prop", k) /\ k[1] = v
  BY DEF Scanned, Has
<1> HIDE DEF LS, L, F, P
<1>7. /\ Good(s0, a, v) /\ OnlyLabels(s, a)
      /\ \A w \in Vertices, l \in Labels : Has(a, "label", <<w, l>>) <=> Has(s, "label", <<w, l>>) /\ ~(w = v /\ l \in LS)
  BY <1>3, <1>4, <1>5, DelLabels
<1> HIDE DEF a
<1>8. /\ "prop" \in Tables /\ "prop" \notin {"label", "fwd"} /\ \A k \in P : OwnerOf("prop", k) = v
      /\ "existence" \in Tables /\ "existence" \notin {"label", "fwd"} /\ \A k \in {v} : OwnerOf("existence", k) = v
  BY <1>6 DEF Tables, OwnerOf
<1>9. /\ Good(s0, b, v)
      /\ \A r : r \in b["prop"] <=> r \in a["prop"] /\ r.k \notin P
      /\ \A U \in Tables : U # "prop" => b[U] = a[U]
  BY <1>7, <1>8, GoodDel
<1> HIDE DEF b
<1>10. Good(s0, c, v) /\ \A U \in Tables : U # "existence" => c[U] = b[U]
  BY <1>8, <1>9, GoodDel
<1> HIDE DEF c
<1>11. Good(s0, p, v) /\ Told(p, v) /\ \A U \in Tables : U # "summary" => p[U] = c[U]
  BY <1>1, <1>10, DropSummary
<1>12. p.vidx = s.vidx /\ p.label = a.label /\ p.prop = b.prop /\ a.prop = s.prop
  BY <1>7, <1>9, <1>10, <1>11 DEF OnlyLabels, Tables
<1>13. \A r \in p.prop : r.k[1] # v
  BY <1>6, <1>9, <1>12 DEF Has
<1>14. getVertexLabels(p, v) = {}
  <2>1. IsStore(p)
    BY <1>11 DEF Good, Frame
  <2>2. ASSUME NEW l \in getVertexLabels(p, v) PROVE FALSE
    <3>1. l \in Labels /\ Has(a, "label", <<v, l>>)
      BY <2>1, <2>2, <1>12, LabelIsRow DEF Has
    <3>2. Has(s, "label", <<v, l>>) /\ l \notin LS
      BY <1>7, <3>1
    <3>3. QED
      BY <1>2, <3>2, LabelIsRow DEF LS
  <2>3. QED
    BY <2>2
<1>15. QED
  BY <1>11, <1>12, <1>13, <1>14

LEMMA GoodStart ==
    ASSUME NEW s, IsStore(s), LabelsAgree(s), s.wrote = {}, NEW v \in Vertices
    PROVE  Good(s, s, v) /\ Told(s, v)
BY DEF Good, Frame, WritesOnly, SameUnwritten, Told, Changed

\* Labels and values of a new vertex: one value for each label.
LabelProps(props) ==
    /\ props \subseteq Labels \X (Values \cup {Null})
    /\ \A a, b \in props : a[1] = b[1] => a = b

LEMMA InsertVertexOp ==
    ASSUME NEW s, IsStore(s), LabelsAgree(s), s.wrote = {}, NEW v \in Vertices, NoRows(s, v),
           NEW props, LabelProps(props), NEW p, p = insertVertex(s, v, props)
    PROVE  /\ Good(s, p, v) /\ p.vidx = s.vidx /\ Has(p, "existence", v)
           /\ \A l : l \in getVertexLabels(p, v) <=> \E a \in props : a[1] = l
           /\ \A a \in props : getVertexProperty(p, v, a[1]) = a[2]
           /\ \A r \in p.prop : r.k[1] = v => \E a \in props : r.k[2] = a[1]
           /\ SummaryTells(p, v)
<1> DEFINE E == {[k |-> v, x |-> 0]}
           LS == {a[1] : a \in props}
           P == PropertyRows(v, props)
           S == {[k |-> v, x |-> props]}
           a1 == table_put_all(s, "existence", E)
           a2 == putLabels(a1, v, LS)
           a3 == table_put_all(a2, "prop", P)
<1>1. ~Has(s, "summary", v)
  BY DEF NoRows, Has, OwnerOf, Tables
<1>2. p = table_put_all(a3, "summary", S)
  BY <1>1 DEF insertVertex, table_put
<1>3. Good(s, s, v)
  BY GoodStart
<1>4. /\ "existence" \in Tables /\ "existence" \notin {"label", "fwd"}
      /\ "prop" \in Tables /\ "prop" \notin {"label", "fwd"}
      /\ "summary" \in Tables /\ "summary" \notin {"label", "fwd"}
  BY DEF Tables
<1>5. E \subseteq RowsOf("existence") /\ Functional(E) /\ (\A q \in E : OwnerOf("existence", q.k) = v)
      /\ \A r : r \in E <=> r = [k |-> v, x |-> 0]
  BY Kinds DEF Functional
<1>6. S \subseteq RowsOf("summary") /\ Functional(S) /\ (\A q \in S : OwnerOf("summary", q.k) = v)
      /\ \A r : r \in S <=> r = [k |-> v, x |-> props]
  <2>1. props \in SUBSET (Labels \X (Values \cup {Null}))
    BY DEF LabelProps
  <2>2. [k |-> v, x |-> props] \in RowsOf("summary") /\ OwnerOf("summary", v) = v
    BY <2>1, Kinds
  <2>3. QED
    BY <2>2 DEF Functional
<1>7. \A a \in props : a = <<a[1], a[2]>> /\ a[1] \in Labels /\ a[2] \in Values \cup {Null}
  BY DEF LabelProps
<1>8. LS \in SUBSET Labels /\ \A l : l \in LS <=> \E a \in props : a[1] = l
  BY <1>7
<1>9. \A r : r \in P <=> \E a \in props : a[2] # Null /\ r = [k |-> <<v, a[1]>>, x |-> a[2]]
  BY DEF PropertyRows
<1> HIDE DEF E, LS, P, S
<1>10. P \subseteq RowsOf("prop") /\ Functional(P) /\ \A q \in P : OwnerOf("prop", q.k) = v
  <2>1. ASSUME NEW r \in P
        PROVE  r \in RowsOf("prop") /\ OwnerOf("prop", r.k) = v
    <3>1. PICK a \in props : a[2] # Null /\ r = [k |-> <<v, a[1]>>, x |-> a[2]]
      BY <1>9, <2>1
    <3>2. a[1] \in Labels /\ a[2] \in Values /\ r.k = <<v, a[1]>>
      BY <1>7, <3>1
    <3>3. QED
      BY <3>1, <3>2, Kinds
  <2>2. ASSUME NEW r \in P, NEW q \in P, r.k = q.k PROVE r = q
    <3>1. PICK a \in props : a[2] # Null /\ r = [k |-> <<v, a[1]>>, x |-> a[2]]
      BY <1>9, <2>2
    <3>2. PICK b \in props : b[2] # Null /\ q = [k |-> <<v, b[1]>>, x |-> b[2]]
      BY <1>9, <2>2
    <3>3. a[1] = b[1]
      BY <2>2, <3>1, <3>2
    <3>4. QED
      BY <3>1, <3>2, <3>3 DEF LabelProps
  <2>3. QED
    BY <2>1, <2>2 DEF Functional
<1>11. /\ Good(s, a1, v)
       /\ \A r : r \in a1["existence"] <=> (r \in s["existence"] /\ \A q \in E : q.k # r.k) \/ r \in E
       /\ \A U \in Tables : U # "existence" => a1[U] = s[U]
  BY <1>3, <1>4, <1>5, GoodPut
<1> HIDE DEF a1
<1>12. /\ Good(s, a2, v) /\ OnlyLabels(a1, a2)
       /\ \A w \in Vertices, l \in Labels : Has(a2, "label", <<w, l>>) <=> Has(a1, "label", <<w, l>>) \/ (w = v /\ l \in LS)
  BY <1>8, <1>11, PutLabels
<1> HIDE DEF a2
<1>13. /\ Good(s, a3, v)
       /\ \A r : r \in a3["prop"] <=> (r \in a2["prop"] /\ \A q \in P : q.k # r.k) \/ r \in P
       /\ \A U \in Tables : U # "prop" => a3[U] = a2[U]
  BY <1>4, <1>10, <1>12, GoodPut
<1> HIDE DEF a3
<1>14. /\ Good(s, p, v)
       /\ \A r : r \in p["summary"] <=> (r \in a3["summary"] /\ \A q \in S : q.k # r.k) \/ r \in S
       /\ \A U \in Tables : U # "summary" => p[U] = a3[U]
  BY <1>2, <1>4, <1>6, <1>13, GoodPut
<1>15. IsStore(p)
  BY <1>14 DEF Good, Frame
<1>16. p.vidx = s.vidx /\ Has(p, "existence", v)
  <2>1. p.vidx = s.vidx /\ p["existence"] = a1["existence"]
    BY <1>11, <1>12, <1>13, <1>14 DEF OnlyLabels, Tables
  <2>2. [k |-> v, x |-> 0] \in p["existence"] /\ [k |-> v, x |-> 0].k = v
    BY <1>5, <1>11, <2>1
  <2>3. QED
    BY <2>1, <2>2 DEF Has
<1>17. \A l : l \in getVertexLabels(p, v) <=> \E a \in props : a[1] = l
  <2>1. \A l \in Labels : Has(p, "label", <<v, l>>) <=> Has(s, "label", <<v, l>>) \/ l \in LS
    <3>1. p["label"] = a2["label"] /\ a1["label"] = s["label"]
      BY <1>11, <1>13, <1>14 DEF Tables
    <3>2. QED
      BY <1>12, <3>1 DEF Has
  <2>2. \A l \in Labels : ~Has(s, "label", <<v, l>>)
    BY DEF NoRows, Has, OwnerOf, Tables
  <2>3. QED
    BY <1>8, <1>15, <2>1, <2>2, LabelIsRow
<1>18. \A r : r \in p.prop /\ r.k[1] = v <=> r \in P
  <2>1. \A r \in s.prop : r.k[1] # v
    BY DEF NoRows, OwnerOf, Tables
  <2>2. p.prop = a3.prop /\ a2.prop = s.prop
    BY <1>11, <1>12, <1>14 DEF OnlyLabels, Tables
  <2>3. \A r \in P : r.k[1] = v
    BY <1>9
  <2>4. QED
    BY <1>13, <2>1, <2>2, <2>3
<1>19. ASSUME NEW a \in props PROVE getVertexProperty(p, v, a[1]) = a[2]
  <2>1. CASE a[2] # Null
    <3>1. [k |-> <<v, a[1]>>, x |-> a[2]] \in p.prop
      BY <1>9, <1>18, <2>1
    <3>2. QED
      BY <1>15, <3>1, PropertyIsRow
  <2>2. CASE a[2] = Null
    <3>1. ASSUME Has(p, "prop", <<v, a[1]>>) PROVE FALSE
      <4>1. PICK r \in p.prop : r.k = <<v, a[1]>>
        BY <3>1 DEF Has
      <4>2. PICK b \in props : b[2] # Null /\ r = [k |-> <<v, b[1]>>, x |-> b[2]]
        BY <1>9, <1>18, <4>1
      <4>3. b[1] = a[1]
        BY <4>1, <4>2
      <4>4. QED
        BY <2>2, <4>2, <4>3 DEF LabelProps
    <3>2. QED
      BY <1>15, <2>2, <3>1, PropertyIsRow
  <2>3. QED
    BY <2>1, <2>2
<1>20. \A r \in p.prop : r.k[1] = v => \E a \in props : r.k[2] = a[1]
  BY <1>9, <1>18
<1>21. SummaryTells(p, v)
  <2>1. \A r \in p.summary : r.k = v => r = [k |-> v, x |-> props]
    <3>1. \E q \in S : q.k = v
      <4>1. [k |-> v, x |-> props] \in S /\ [k |-> v, x |-> props].k = v
        BY <1>6
      <4>2. QED
        BY <4>1
    <3>2. QED
      BY <1>6, <1>14, <3>1
  <2>2. [k |-> v, x |-> props] \in p.summary
    BY <1>6, <1>14
  <2>3. table_get(p, "summary", v) = props
    BY <2>1, <2>2 DEF table_get
  <2>4. Canonical(p, v) = props
    <3>1. \A a \in props : a \in Canonical(p, v)
      BY <1>7, <1>17, <1>19 DEF Canonical
    <3>2. ASSUME NEW c \in Canonical(p, v) PROVE c \in props
      <4>1. PICK l \in getVertexLabels(p, v) : c = <<l, getVertexProperty(p, v, l)>>
        BY <3>2 DEF Canonical
      <4>2. PICK a \in props : a[1] = l
        BY <1>17, <4>1
      <4>3. QED
        BY <1>7, <1>19, <4>1, <4>2
    <3>3. QED
      BY <3>1, <3>2
  <2>5. QED
    BY <2>3, <2>4 DEF SummaryTells
<1>22. QED
  BY <1>14, <1>16, <1>17, <1>19, <1>20, <1>21

-----------------------------------------------------------------------------
(* Stores with the same rows of a vertex *)

SameRowsIn(a, b, v, ts) == \A T \in ts : \A r : OwnerOf(T, r.k) = v => (r \in a[T] <=> r \in b[T])
SameRows(a, b, v) == SameRowsIn(a, b, v, Tables)

LEMMA SameLabels ==
    ASSUME NEW a, NEW b, NEW v, NEW ts, IsStore(a), IsStore(b), SameRowsIn(a, b, v, ts), "label" \in ts
    PROVE  getVertexLabels(a, v) = getVertexLabels(b, v)
<1>1. \A r : r.k[1] = v => (r \in a.label <=> r \in b.label)
  BY DEF SameRowsIn, OwnerOf
<1>2. QED
  BY <1>1 DEF getVertexLabels

LEMMA SameValues ==
    ASSUME NEW a, NEW b, NEW v, NEW ts, IsStore(a), IsStore(b), SameRowsIn(a, b, v, ts), "prop" \in ts, NEW l
    PROVE  /\ getVertexProperty(a, v, l) = getVertexProperty(b, v, l)
           /\ Has(a, "prop", <<v, l>>) <=> Has(b, "prop", <<v, l>>)
<1>1. \A r : r.k = <<v, l>> => (r \in a.prop <=> r \in b.prop)
  BY DEF SameRowsIn, OwnerOf
<1>2. Has(a, "prop", <<v, l>>) <=> Has(b, "prop", <<v, l>>)
  BY <1>1 DEF Has
<1>3. CASE Has(a, "prop", <<v, l>>)
  <2>1. PICK r \in a.prop : r.k = <<v, l>>
    BY <1>3 DEF Has
  <2>2. r \in b.prop /\ r = [k |-> <<v, l>>, x |-> r.x]
    BY <1>1, <2>1, RowShapes
  <2>3. QED
    BY <1>2, <2>1, <2>2, PropertyIsRow
<1>4. CASE ~Has(a, "prop", <<v, l>>)
  BY <1>2, <1>4, PropertyIsRow
<1>5. QED
  BY <1>2, <1>3, <1>4

LEMMA SameSummary ==
    ASSUME NEW a, NEW b, NEW v, IsStore(a), IsStore(b), SameRowsIn(a, b, v, {"label", "prop", "summary"}),
           SummaryTells(a, v)
    PROVE  SummaryTells(b, v)
<1> SUFFICES ASSUME Has(b, "summary", v) PROVE table_get(b, "summary", v) = Canonical(b, v)
  BY DEF SummaryTells
<1>1. \A r : r.k = v => (r \in a.summary <=> r \in b.summary)
  BY DEF SameRowsIn, OwnerOf
<1>2. PICK r \in b.summary : r.k = v
  BY DEF Has
<1>3. r \in a.summary /\ Has(a, "summary", v)
  BY <1>1, <1>2 DEF Has
<1>4. (\A q \in a.summary : q.k = v => q = r) /\ (\A q \in b.summary : q.k = v => q = r)
  BY <1>2, <1>3 DEF IsStore, Tables
<1>5. table_get(a, "summary", v) = r.x /\ table_get(b, "summary", v) = r.x
  BY <1>2, <1>3, <1>4 DEF table_get
<1>6. Canonical(a, v) = Canonical(b, v)
  <2>1. getVertexLabels(a, v) = getVertexLabels(b, v)
    BY SameLabels
  <2>2. ASSUME NEW l PROVE getVertexProperty(a, v, l) = getVertexProperty(b, v, l)
    <3> DEFINE ts == {"label", "prop", "summary"}
    <3>1. "prop" \in ts /\ SameRowsIn(a, b, v, ts)
      OBVIOUS
    <3> HIDE DEF ts
    <3>2. /\ getVertexProperty(a, v, l) = getVertexProperty(b, v, l)
          /\ Has(a, "prop", <<v, l>>) <=> Has(b, "prop", <<v, l>>)
      BY <3>1, SameValues
    <3>3. QED
      BY <3>2
  <2>3. QED
    BY <2>1, <2>2 DEF Canonical
<1>7. QED
  BY <1>3, <1>5, <1>6 DEF SummaryTells

LEMMA SameKept ==
    ASSUME NEW a, NEW b, NEW v, IsStore(a), IsStore(b), SameRows(a, b, v)
    PROVE  /\ NoRows(a, v) => NoRows(b, v)
           /\ GoneHasNoLabel(a, v) => GoneHasNoLabel(b, v)
           /\ \A defs : Kept(a, defs, v) => Kept(b, defs, v)
<1>1. SameRowsIn(a, b, v, Tables) /\ "label" \in Tables /\ "prop" \in Tables
  BY DEF SameRows, Tables
<1>2. getVertexLabels(a, v) = getVertexLabels(b, v)
  BY <1>1, SameLabels
<1>3. \A l : /\ getVertexProperty(a, v, l) = getVertexProperty(b, v, l)
             /\ Has(a, "prop", <<v, l>>) <=> Has(b, "prop", <<v, l>>)
  BY <1>1, SameValues
<1>4. NoRows(a, v) => NoRows(b, v)
  BY <1>1 DEF SameRowsIn, NoRows
<1>5. GoneHasNoLabel(a, v) => GoneHasNoLabel(b, v)
  <2>1. \A r : r.k = v => (r \in a.existence <=> r \in b.existence)
    BY <1>1 DEF SameRowsIn, OwnerOf, Tables
  <2>2. QED
    BY <1>2, <2>1 DEF GoneHasNoLabel, Has
<1>6. ASSUME NEW defs, Kept(a, defs, v) PROVE Kept(b, defs, v)
  <2>1. EntriesOf(a, v) = EntriesOf(b, v)
    <3>1. \A r : r.k[2] = v => (r \in a.vidx <=> r \in b.vidx)
      BY <1>1 DEF SameRowsIn, OwnerOf, Tables
    <3>2. QED
      BY <3>1 DEF EntriesOf
  <2>2. collectVertexIndexEntries(a, defs, v) = collectVertexIndexEntries(b, defs, v)
    BY <1>2, <1>3 DEF collectVertexIndexEntries
  <2>3. \A r \in b.prop : r.k[1] = v => r \in a.prop
    BY <1>1 DEF SameRowsIn, OwnerOf
  <2>4. QED
    BY <1>2, <1>3, <1>6, <2>1, <2>2, <2>3 DEF Kept
<1>7. QED
  BY <1>4, <1>5, <1>6

\* More definitions change nothing, since every value is under one that was
\* there.
LEMMA KeptMore ==
    ASSUME NEW s, IsStore(s), NEW v, NEW defs, NEW more, defs \subseteq more, Kept(s, defs, v)
    PROVE  Kept(s, more, v)
<1> DEFINE labels == getVertexLabels(s, v) \cup {Anon}
           few == {getVertexProperty(s, v, l) : l \in labels \cap defs}
           all == {getVertexProperty(s, v, l) : l \in labels \cap more}
<1>1. ASSUME NEW l \in labels \cap more, getVertexProperty(s, v, l) # Null PROVE l \in defs
  <2>1. [k |-> <<v, l>>, x |-> getVertexProperty(s, v, l)] \in s.prop
    BY <1>1, PropertyIsRow
  <2>2. QED
    BY <2>1 DEF Kept
<1>2. few \ {Null} = all \ {Null}
  BY <1>1
<1>3. collectVertexIndexEntries(s, defs, v) = Entries(labels, few, v)
  BY DEF collectVertexIndexEntries
<1>4. collectVertexIndexEntries(s, more, v) = Entries(labels, all, v)
  BY DEF collectVertexIndexEntries
<1>5. Entries(labels, few, v) = Entries(labels, all, v)
  BY <1>2 DEF Entries
<1>6. QED
  BY <1>3, <1>4, <1>5 DEF Kept

-----------------------------------------------------------------------------
(* A statement keeps the invariant *)

\* What a statement leaves in its view.
StatementOK(s, v, blur, defs) ==
    /\ v \in Vertices /\ blur \subseteq {v} /\ decl \subseteq defs /\ defs \subseteq Labels
    /\ Good(db, s, v) /\ SummaryTells(s, v)
    /\ Has(s, "summary", v) /\ <<"summary", v>> \in s.wrote => v = nextV
    /\ Has(db, "summary", v) /\ Changed(s, v) => <<"summary", v>> \in s.wrote
    /\ v \notin lapped => GoneHasNoLabel(s, v)
    /\ v \notin lapped \cup unkept \cup blur => Kept(s, defs, v)

LEMMA RunKeeps ==
    ASSUME IInv, NEW t \in Txns, NEW s, NEW v, NEW blur, NEW defs,
           StatementOK(s, v, blur, defs), Run(t, s, v, blur, defs),
           \/ v = nextV /\ nextV' = nextV + 1
           \/ ~NoRows(db, v) /\ nextV' = nextV
    PROVE  IInv'
<1>1. /\ TypeOK /\ StoreInv /\ \A o \in Open : TxInv(o)
      /\ v \in Vertices /\ IsStore(db) /\ IsStore(s) /\ DOMAIN tx = Txns
      /\ db' = db /\ uniq' = uniq /\ unkept' = unkept /\ decl' = defs /\ decl \subseteq decl' /\ lapped \subseteq lapped'
      /\ t \notin Open
      /\ nextV \in 1..(MaxVertex + 1) /\ MaxVertex \in Nat
  BY VertexStoreAssumption DEF IInv, Run, StatementOK, Good, Frame, TypeOK, Open
<1>2. /\ tx' = [tx EXCEPT ![t] = [on |-> TRUE, view |-> s, v |-> v, blur |-> blur]]
      /\ DOMAIN tx' = Txns
      /\ tx'[t].on = TRUE /\ tx'[t].view = s /\ tx'[t].v = v /\ tx'[t].blur = blur
      /\ \A o \in Txns : o # t => tx'[o] = tx[o]
  BY <1>1 DEF Run
<1>3. Open' = Open \cup {t} /\ Open \subseteq Txns
  BY <1>2 DEF Open
<1>4. /\ v < nextV' /\ nextV <= nextV' /\ nextV' \in 1..(MaxVertex + 1)
      /\ v = nextV \/ ~NoRows(db, v)
  BY <1>1 DEF StoreInv, Vertices
<1>5. v \in lapped' <=> v \in lapped \/ \E o \in Open : tx[o].v = v
  BY DEF Run
<1>6. TypeOK'
  <2>1. \A o \in Txns : IsTx(tx[o])'
    BY <1>1, <1>2 DEF TypeOK, IsTx, NoTx, StatementOK
  <2>2. events' \in Nat /\ lapped' \subseteq Vertices /\ decl' \subseteq Labels /\ unkept' \subseteq Vertices
    BY <1>1 DEF TypeOK, Run, StatementOK
  <2>3. QED
    BY <1>1, <1>2, <1>4, <2>1, <2>2 DEF TypeOK
<1>7. StoreInv'
  <2>1. LabelsAgree(db)'
    BY <1>1 DEF StoreInv
  <2>2. ASSUME NEW w \in Vertices
        PROVE  /\ w >= nextV' => NoRows(db', w)
               /\ SummaryTells(db', w)
               /\ w \notin lapped' => GoneHasNoLabel(db', w)
               /\ w \notin lapped' \cup unkept' => Kept(db', decl', w)
    <3>1. w \notin lapped' \cup unkept' => Kept(db', decl', w)
      BY <1>1, KeptMore DEF StoreInv
    <3>2. w >= nextV' => NoRows(db', w)
      BY <1>1, <1>4 DEF StoreInv, Vertices
    <3>3. QED
      BY <1>1, <3>1, <3>2 DEF StoreInv
  <2>3. QED
    BY <2>1, <2>2 DEF StoreInv
<1>8. TxInv(t)'
  <2>1. Has(s, "summary", v) /\ <<"summary", v>> \in s.wrote => MadeIt(t)'
    <3> SUFFICES ASSUME Has(s, "summary", v), <<"summary", v>> \in s.wrote PROVE MadeIt(t)'
      OBVIOUS
    <3>1. v = nextV /\ NoRows(db, v)
      BY <1>1 DEF StatementOK, StoreInv, Vertices
    <3>2. \A o \in Open : tx[o].v < nextV
      BY <1>1 DEF TxInv
    <3>3. \A o \in Open' : o # t => tx'[o].v # tx'[t].v
      <4>1. ASSUME NEW o \in Open PROVE tx[o].v # v
        BY <1>1, <3>1, <3>2, <4>1
      <4>2. QED
        BY <1>2, <1>3, <4>1
    <3>4. \A T \in Tables : \A r \in s[T] : OwnerOf(T, r.k) = v => <<T, r.k>> \in s.wrote
      BY <3>1 DEF StatementOK, Good, Frame, SameUnwritten, NoRows
    <3>5. QED
      BY <1>1, <1>2, <3>1, <3>3, <3>4 DEF MadeIt, Alone
  <2>2. v \notin lapped' => SameUnwritten(db, s, v) /\ Alone(t)' /\ GoneHasNoLabel(s, v)
    <3> SUFFICES ASSUME v \notin lapped' PROVE SameUnwritten(db, s, v) /\ Alone(t)' /\ GoneHasNoLabel(s, v)
      OBVIOUS
    <3>1. SameUnwritten(db, s, v) /\ GoneHasNoLabel(s, v)
      BY <1>5 DEF StatementOK, Good, Frame
    <3>2. \A o \in Open' : o # t => tx'[o].v # v
      BY <1>2, <1>3, <1>5
    <3>3. QED
      BY <1>2, <3>1, <3>2 DEF Alone
  <2>3. v \notin lapped' \cup unkept' \cup blur => Kept(s, decl', v)
    BY <1>1 DEF StatementOK
  <2>4. LabelsAgree(s) /\ WritesOnly(s, v) /\ SummaryTells(s, v)
    BY DEF StatementOK, Good, Frame
  <2>5. Has(db', "summary", v) /\ Changed(s, v) => <<"summary", v>> \in s.wrote
    BY <1>1 DEF StatementOK
  <2>6. QED
    BY <1>1, <1>2, <1>4, <2>1, <2>2, <2>3, <2>4, <2>5 DEF TxInv
<1>9. ASSUME NEW o \in Open PROVE TxInv(o)'
  <2>1. o # t /\ o \in Txns /\ tx'[o] = tx[o] /\ TxInv(o) /\ tx[o].v < nextV /\ tx[o].v \in Vertices /\ IsStore(tx[o].view)
    BY <1>1, <1>2, <1>3, <1>9 DEF TxInv, TypeOK, IsTx, NoTx, Open
  <2>2. Alone(o) /\ tx[o].v # v => Alone(o)'
    BY <1>2, <1>3, <2>1 DEF Alone
  <2>3. tx[o].v \notin lapped' => tx[o].v # v
    BY <1>5, <1>9
  <2>4. MadeIt(o) => MadeIt(o)'
    <3> SUFFICES ASSUME MadeIt(o) PROVE MadeIt(o)'
      OBVIOUS
    <3>1. NoRows(db, tx[o].v) /\ Alone(o)
      BY DEF MadeIt
    <3>2. tx[o].v # v
      BY <1>1, <1>4, <2>1, <3>1
    <3>3. QED
      BY <1>1, <2>1, <2>2, <3>1, <3>2 DEF MadeIt
  <2>5. tx[o].v \notin lapped' \cup unkept' \cup tx[o].blur => Kept(tx[o].view, decl', tx[o].v)
    BY <1>1, <2>1, KeptMore DEF TxInv
  <2>6. tx[o].v \notin lapped' => SameUnwritten(db, tx[o].view, tx[o].v) /\ Alone(o)' /\ GoneHasNoLabel(tx[o].view, tx[o].v)
    BY <1>1, <2>1, <2>2, <2>3 DEF TxInv
  <2>7. tx[o].v < nextV'
    BY <1>1, <1>4, <2>1 DEF Vertices
  <2>8. /\ LabelsAgree(tx[o].view) /\ WritesOnly(tx[o].view, tx[o].v) /\ SummaryTells(tx[o].view, tx[o].v)
        /\ Has(tx[o].view, "summary", tx[o].v) /\ <<"summary", tx[o].v>> \in tx[o].view.wrote => MadeIt(o)'
        /\ Has(db, "summary", tx[o].v) /\ Changed(tx[o].view, tx[o].v) => <<"summary", tx[o].v>> \in tx[o].view.wrote
    BY <2>1, <2>4 DEF TxInv
  <2>9. QED
    BY <1>1, <2>1, <2>5, <2>6, <2>7, <2>8 DEF TxInv
<1>10. QED
  BY <1>3, <1>6, <1>7, <1>8, <1>9 DEF IInv

-----------------------------------------------------------------------------
(* The end of a transaction *)

LEMMA CommitFacts ==
    ASSUME NEW d, IsStore(d), NEW s, IsStore(s), LabelsAgree(d), LabelsAgree(s), NEW c, c = CommitInto(d, s)
    PROVE  /\ IsStore(c) /\ c.wrote = {} /\ LabelsAgree(c)
           /\ \A T \in Tables : \A r :
                r \in c[T] <=> (r \in d[T] /\ <<T, r.k>> \notin s.wrote) \/ (r \in s[T] /\ <<T, r.k>> \in s.wrote)
<1>1. DOMAIN d = Tables \cup {"wrote"} /\ "wrote" \notin Tables
  BY DEF IsStore, Tables
<1>2. DOMAIN c = Tables \cup {"wrote"} /\ c.wrote = {}
  BY <1>1 DEF CommitInto
<1>3. \A T \in Tables : \A r :
         r \in c[T] <=> (r \in d[T] /\ <<T, r.k>> \notin s.wrote) \/ (r \in s[T] /\ <<T, r.k>> \in s.wrote)
  BY <1>1 DEF CommitInto
<1>4. IsStore(c)
  <2>1. \A T \in Tables : c[T] \subseteq RowsOf(T)
    BY <1>3 DEF IsStore
  <2>2. \A T \in Tables : \A r, q \in c[T] : r.k = q.k => r = q
    BY <1>3 DEF IsStore
  <2>3. QED
    BY <1>2, <2>1, <2>2 DEF IsStore
<1>5. \A T \in Tables : \A k : Has(c, T, k) <=> IF <<T, k>> \in s.wrote THEN Has(s, T, k) ELSE Has(d, T, k)
  BY <1>3 DEF Has
<1>6. LabelsAgree(c)
  <2>1. "label" \in Tables /\ "fwd" \in Tables
    BY DEF Tables
  <2>2. ASSUME NEW v \in Vertices, NEW l \in Labels
        PROVE  Has(c, "label", <<v, l>>) <=> Has(c, "fwd", <<l, v>>)
    <3>1. /\ Has(d, "label", <<v, l>>) <=> Has(d, "fwd", <<l, v>>)
          /\ Has(s, "label", <<v, l>>) <=> Has(s, "fwd", <<l, v>>)
          /\ <<"label", <<v, l>>>> \in s.wrote <=> <<"fwd", <<l, v>>>> \in s.wrote
      BY DEF LabelsAgree
    <3>2. QED
      BY <1>5, <2>1, <3>1
  <2>3. QED
    BY <1>2, <2>2 DEF LabelsAgree
<1>7. QED
  BY <1>2, <1>3, <1>4, <1>6

LEMMA CommitKeeps ==
    ASSUME IInv, NEW t \in Txns, Commit(t)
    PROVE  IInv'
<1> DEFINE s == tx[t].view
           v == tx[t].v
<1>1. /\ TypeOK /\ StoreInv /\ t \in Open /\ \A o \in Open : TxInv(o)
      /\ \A o \in Open : o \in Txns /\ IsStore(tx[o].view) /\ tx[o].v \in Vertices /\ tx[o].blur \subseteq {tx[o].v}
      /\ IsStore(db) /\ LabelsAgree(db) /\ DOMAIN tx = Txns
  BY DEF IInv, Commit, TypeOK, StoreInv, IsTx, NoTx, Open
<1>2. /\ db' = CommitInto(db, s) /\ unkept' = unkept \cup tx[t].blur /\ tx' = [tx EXCEPT ![t] = NoTx]
      /\ uniq' = uniq /\ decl' = decl /\ nextV' = nextV /\ events' = events /\ lapped' = lapped
  BY DEF Commit
<1>3. tx'[t] = NoTx /\ DOMAIN tx' = Txns /\ \A o \in Txns : o # t => tx'[o] = tx[o]
  BY <1>1, <1>2
<1>4. Open' = Open \ {t}
  BY <1>3 DEF Open, NoTx
<1>5. /\ v < nextV /\ LabelsAgree(s) /\ WritesOnly(s, v) /\ SummaryTells(s, v) /\ IsStore(s) /\ v \in Vertices
      /\ Has(s, "summary", v) /\ <<"summary", v>> \in s.wrote => MadeIt(t)
      /\ Has(db, "summary", v) /\ Changed(s, v) => <<"summary", v>> \in s.wrote
      /\ v \notin lapped => SameUnwritten(db, s, v) /\ Alone(t) /\ GoneHasNoLabel(s, v)
      /\ v \notin lapped \cup unkept \cup tx[t].blur => Kept(s, decl, v)
  BY <1>1 DEF TxInv
<1> HIDE DEF s, v
<1>6. /\ IsStore(db') /\ db'.wrote = {} /\ LabelsAgree(db')
      /\ \A T \in Tables : \A r :
           r \in db'[T] <=> (r \in db[T] /\ <<T, r.k>> \notin s.wrote) \/ (r \in s[T] /\ <<T, r.k>> \in s.wrote)
  BY <1>1, <1>2, <1>5, CommitFacts
<1>7. \A T \in Tables : \A r : r \in db[T] \/ r \in s[T] => r.k \in KeysOf[T]
  BY <1>1, <1>5 DEF IsStore, RowsOf
<1>8. ASSUME NEW w, w # v PROVE SameRows(db, db', w)
  <2>1. ASSUME NEW T \in Tables, NEW r, OwnerOf(T, r.k) = w PROVE r \in db[T] <=> r \in db'[T]
    <3>1. r \in db[T] \/ r \in s[T] => <<T, r.k>> \notin s.wrote
      BY <1>5, <1>7, <1>8, <2>1 DEF WritesOnly
    <3>2. QED
      BY <1>6, <3>1
  <2>2. QED
    BY <2>1 DEF SameRows, SameRowsIn
<1>9. SameUnwritten(db, s, v) => SameRows(s, db', v)
  BY <1>6 DEF SameUnwritten, SameRows, SameRowsIn
<1>10. MadeIt(t) => SameRows(s, db', v) /\ Alone(t)
  <2> SUFFICES ASSUME MadeIt(t) PROVE SameRows(s, db', v) /\ Alone(t)
    OBVIOUS
  <2>1. NoRows(db, v) /\ Alone(t) /\ \A T \in Tables : \A r \in s[T] : OwnerOf(T, r.k) = v => <<T, r.k>> \in s.wrote
    BY DEF MadeIt, s, v
  <2>2. QED
    BY <1>6, <2>1 DEF SameRows, SameRowsIn, NoRows
<1>11. Has(db', "summary", v) => (Has(db, "summary", v) /\ <<"summary", v>> \notin s.wrote) \/ MadeIt(t)
  <2>1. "summary" \in Tables
    BY DEF Tables
  <2>2. QED
    BY <1>5, <1>6, <2>1 DEF Has
<1>12. TypeOK'
  <2>1. \A o \in Txns : IsTx(tx[o])'
    BY <1>1, <1>3 DEF TypeOK, IsTx
  <2>2. unkept' \subseteq Vertices
    BY <1>1, <1>2 DEF TypeOK
  <2>3. QED
    BY <1>1, <1>2, <1>3, <1>6, <2>1, <2>2 DEF TypeOK
<1>13. SummaryTells(db', v)
  <2>1. CASE ~Has(db', "summary", v)
    BY <2>1 DEF SummaryTells
  <2>2. CASE MadeIt(t)
    <3>1. SameRowsIn(s, db', v, {"label", "prop", "summary"})
      BY <1>10, <2>2 DEF SameRows, SameRowsIn, Tables
    <3>2. QED
      BY <1>5, <1>6, <3>1, SameSummary
  <2>3. CASE Has(db, "summary", v) /\ <<"summary", v>> \notin s.wrote
    <3>1. \A l \in Labels : <<"label", <<v, l>>>> \notin s.wrote /\ <<"prop", <<v, l>>>> \notin s.wrote
      BY <1>5, <2>3 DEF Changed
    <3>2. ASSUME NEW T \in {"label", "prop", "summary"}, NEW r, OwnerOf(T, r.k) = v
          PROVE  r \in db[T] <=> r \in db'[T]
      <4>1. T \in Tables
        BY <3>2 DEF Tables
      <4>2. ASSUME r \in db[T] \/ r \in s[T] PROVE <<T, r.k>> \notin s.wrote
        <5>1. r.k \in KeysOf[T]
          BY <1>7, <4>1, <4>2
        <5>2. CASE T = "summary"
          BY <2>3, <3>2, <5>2 DEF OwnerOf
        <5>3. CASE T = "label"
          <6>1. r.k \in Vertices \X Labels /\ r.k[1] = v
            BY <3>2, <5>1, <5>3 DEF OwnerOf, KeysOf
          <6>2. r.k = <<v, r.k[2]>> /\ r.k[2] \in Labels
            BY <6>1
          <6>3. QED
            BY <3>1, <5>3, <6>2
        <5>4. CASE T = "prop"
          <6>1. r.k \in Vertices \X Labels /\ r.k[1] = v
            BY <3>2, <5>1, <5>4 DEF OwnerOf, KeysOf
          <6>2. r.k = <<v, r.k[2]>> /\ r.k[2] \in Labels
            BY <6>1
          <6>3. QED
            BY <3>1, <5>4, <6>2
        <5>5. QED
          BY <3>2, <5>2, <5>3, <5>4
      <4>3. QED
        BY <1>6, <4>1, <4>2
    <3>3. SameRowsIn(db, db', v, {"label", "prop", "summary"})
      BY <3>2 DEF SameRowsIn
    <3>4. SummaryTells(db, v)
      BY <1>1, <1>5 DEF StoreInv
    <3>5. QED
      BY <1>1, <1>6, <3>3, <3>4, SameSummary
  <2>4. QED
    BY <1>11, <2>1, <2>2, <2>3
<1>14. ASSUME NEW w \in Vertices
       PROVE  /\ w >= nextV => NoRows(db', w)
              /\ SummaryTells(db', w)
              /\ w \notin lapped => GoneHasNoLabel(db', w)
              /\ w \notin lapped \cup unkept' => Kept(db', decl, w)
  <2>1. CASE w = v
    <3>1. ~(w >= nextV)
      BY <1>1, <1>5, <2>1 DEF Vertices, TypeOK
    <3>2. w \notin lapped => GoneHasNoLabel(db', w)
      BY <1>5, <1>6, <1>9, <2>1, SameKept
    <3>3. w \notin lapped \cup unkept' => Kept(db', decl, w)
      BY <1>2, <1>5, <1>6, <1>9, <2>1, SameKept
    <3>4. QED
      BY <1>13, <2>1, <3>1, <3>2, <3>3
  <2>2. CASE w # v
    <3>1. SameRows(db, db', w)
      BY <1>8, <2>2
    <3>2. SameRowsIn(db, db', w, {"label", "prop", "summary"})
      BY <3>1 DEF SameRows, SameRowsIn, Tables
    <3>3. SummaryTells(db', w)
      BY <1>1, <1>6, <3>2, SameSummary DEF StoreInv
    <3>4. w >= nextV => NoRows(db', w)
      BY <1>1, <1>6, <3>1, SameKept DEF StoreInv
    <3>5. w \notin lapped => GoneHasNoLabel(db', w)
      BY <1>1, <1>6, <3>1, SameKept DEF StoreInv
    <3>6. w \notin lapped \cup unkept' => Kept(db', decl, w)
      BY <1>1, <1>2, <1>6, <3>1, SameKept DEF StoreInv
    <3>7. QED
      BY <3>3, <3>4, <3>5, <3>6
  <2>3. QED
    BY <2>1, <2>2
<1>15. StoreInv'
  BY <1>2, <1>6, <1>14 DEF StoreInv
<1>16. ASSUME NEW o \in Open, o # t PROVE TxInv(o)'
  <2> DEFINE u == tx[o].view
             w == tx[o].v
  <2>1. tx'[o] = tx[o] /\ IsStore(u) /\ w \in Vertices
    BY <1>1, <1>3, <1>16
  <2>2. /\ w < nextV /\ LabelsAgree(u) /\ WritesOnly(u, w) /\ SummaryTells(u, w)
        /\ Has(u, "summary", w) /\ <<"summary", w>> \in u.wrote => MadeIt(o)
        /\ Has(db, "summary", w) /\ Changed(u, w) => <<"summary", w>> \in u.wrote
        /\ w \notin lapped => SameUnwritten(db, u, w) /\ Alone(o) /\ GoneHasNoLabel(u, w)
        /\ w \notin lapped \cup unkept \cup tx[o].blur => Kept(u, decl, w)
    BY <1>1, <1>16 DEF TxInv
  <2>3. Alone(o) => Alone(o)' /\ w # v
    BY <1>1, <1>3, <1>4, <1>16 DEF Alone, v
  <2>4. Alone(t) => w # v
    BY <1>16 DEF Alone, v
  <2>5. MadeIt(o) => MadeIt(o)'
    <3> SUFFICES ASSUME MadeIt(o) PROVE MadeIt(o)'
      OBVIOUS
    <3>1. NoRows(db, w) /\ Alone(o) /\ \A T \in Tables : \A r \in u[T] : OwnerOf(T, r.k) = w => <<T, r.k>> \in u.wrote
      BY DEF MadeIt
    <3>2. NoRows(db', w)
      BY <1>1, <1>6, <1>8, <2>3, <3>1, SameKept
    <3>3. QED
      BY <2>1, <2>3, <3>1, <3>2 DEF MadeIt
  <2>6. Has(db', "summary", w) /\ Changed(u, w) => <<"summary", w>> \in u.wrote
    <3>1. CASE w # v
      <4>1. \A r : r.k = w => (r \in db.summary <=> r \in db'.summary)
        BY <1>8, <3>1 DEF SameRows, SameRowsIn, OwnerOf, Tables
      <4>2. QED
        BY <2>2, <4>1 DEF Has
    <3>2. CASE w = v
      BY <1>10, <1>11, <2>2, <2>4, <3>2
    <3>3. QED
      BY <3>1, <3>2
  <2>7. w \notin lapped => SameUnwritten(db', u, w) /\ Alone(o)' /\ GoneHasNoLabel(u, w)
    <3> SUFFICES ASSUME w \notin lapped PROVE SameUnwritten(db', u, w) /\ Alone(o)' /\ GoneHasNoLabel(u, w)
      OBVIOUS
    <3>1. SameUnwritten(db, u, w) /\ SameRows(db, db', w)
      BY <1>8, <2>2, <2>3
    <3>2. SameUnwritten(db', u, w)
      BY <3>1 DEF SameUnwritten, SameRows, SameRowsIn
    <3>3. QED
      BY <2>2, <2>3, <3>2
  <2>8. w \notin lapped \cup unkept' \cup tx[o].blur => Kept(u, decl, w)
    BY <1>2, <2>2
  <2>9. QED
    BY <1>2, <2>1, <2>2, <2>5, <2>6, <2>7, <2>8 DEF TxInv
<1>17. QED
  BY <1>4, <1>12, <1>15, <1>16 DEF IInv

LEMMA RollbackKeeps ==
    ASSUME IInv, NEW t \in Txns, Rollback(t)
    PROVE  IInv'
<1>1. /\ TypeOK /\ StoreInv /\ t \in Open /\ \A o \in Open : TxInv(o)
      /\ DOMAIN tx = Txns /\ tx' = [tx EXCEPT ![t] = NoTx]
      /\ db' = db /\ unkept' = unkept /\ uniq' = uniq /\ decl' = decl /\ nextV' = nextV /\ events' = events /\ lapped' = lapped
  BY DEF IInv, Rollback, Open, TypeOK
<1>2. tx'[t] = NoTx /\ DOMAIN tx' = Txns /\ \A o \in Txns : o # t => tx'[o] = tx[o]
  BY <1>1
<1>3. Open' = Open \ {t} /\ Open \subseteq Txns
  BY <1>2 DEF Open, NoTx
<1>4. TypeOK'
  BY <1>1, <1>2 DEF TypeOK, IsTx
<1>5. StoreInv'
  BY <1>1 DEF StoreInv
<1>6. ASSUME NEW o \in Open, o # t PROVE TxInv(o)'
  <2>1. tx'[o] = tx[o] /\ TxInv(o)
    BY <1>1, <1>2, <1>3, <1>6
  <2>2. Alone(o) => Alone(o)'
    BY <1>2, <1>3, <1>6 DEF Alone
  <2>3. MadeIt(o) => MadeIt(o)'
    BY <1>1, <2>1, <2>2 DEF MadeIt
  <2>4. QED
    BY <1>1, <2>1, <2>2, <2>3 DEF TxInv
<1>7. QED
  BY <1>3, <1>4, <1>5, <1>6 DEF IInv

-----------------------------------------------------------------------------
(* Labels a statement picks *)

LEMMA LeastIn ==
    ASSUME NEW S, S \subseteq Labels, S # {}
    PROVE  Least(S) \in S
<1> DEFINE R == {ss \in Nat \X Nat : ss[1] < ss[2]}
<1>1. IsWellFoundedOn(R, Nat)
  BY NatLessThanWellFounded DEF OpToRel
<1>2. S \subseteq Nat
  BY Kinds
<1> HIDE DEF R
<1>3. PICK x \in S : \A y \in S : ~(<<y, x>> \in R)
  BY <1>1, <1>2, WFMin
<1>4. ASSUME NEW y \in S PROVE x <= y
  <2>1. x \in Nat /\ y \in Nat /\ <<y, x>> \notin R
    BY <1>2, <1>3, <1>4
  <2>2. ~(y < x)
    BY <2>1 DEF R
  <2>3. QED
    BY <2>1, <2>2
<1>5. QED
  BY <1>4 DEF Least

LEMMA TheOne ==
    ASSUME NEW S, Single(S)
    PROVE  S = {The(S)}
BY DEF Single, The

LEMMA RowIsLabels ==
    ASSUME IInv, NEW v \in Vertices
    PROVE  Row(v) = getVertexLabels(db, v) /\ Row(v) \subseteq Labels
<1>1. IsStore(db) /\ SummaryTells(db, v)
  BY DEF IInv, TypeOK, StoreInv
<1>2. {p[1] : p \in Canonical(db, v)} = getVertexLabels(db, v)
  <2>1. ASSUME NEW l \in getVertexLabels(db, v) PROVE l \in {p[1] : p \in Canonical(db, v)}
    <3>1. <<l, getVertexProperty(db, v, l)>> \in Canonical(db, v) /\ <<l, getVertexProperty(db, v, l)>>[1] = l
      BY <2>1 DEF Canonical
    <3>2. QED
      BY <3>1
  <2>2. ASSUME NEW p \in Canonical(db, v) PROVE p[1] \in getVertexLabels(db, v)
    BY <2>2 DEF Canonical
  <2>3. QED
    BY <2>1, <2>2
<1>3. QED
  BY <1>1, <1>2, LabelIsRow DEF Row, getVertexLabelsBatch, SummaryTells

\* Where SET n.p = x writes: nowhere, or at one label.
LEMMA WriteAtOne ==
    ASSUME IInv, NEW row, row \subseteq Labels
    PROVE  /\ WriteAt(row) \subseteq Labels
           /\ WriteAt(row) # {} => WriteAt(row) = {The(WriteAt(row))} /\ The(WriteAt(row)) \in Labels
           /\ Anon \in WriteAt(row) => WriteAt(row) = {Anon}
<1>1. decl \subseteq Labels /\ Anon \in Labels
  BY Kinds DEF IInv, TypeOK
<1>2. WriteAt(row) = {} \/ \E l \in Labels : WriteAt(row) = {l}
  <2>1. CASE Single(row \cap decl)
    BY <1>1, <2>1 DEF WriteAt, Single
  <2>2. CASE ~Single(row \cap decl) /\ row \cap decl # {}
    BY <2>2 DEF WriteAt
  <2>3. CASE ~Single(row \cap decl) /\ row \cap decl = {} /\ row \ {Anon} # {}
    <3>1. Least(row \ {Anon}) \in row
      BY <2>3, LeastIn
    <3>2. WriteAt(row) = {Least(row \ {Anon})}
      BY <2>3 DEF WriteAt
    <3>3. QED
      BY <3>1, <3>2
  <2>4. CASE ~Single(row \cap decl) /\ row \cap decl = {} /\ row \ {Anon} = {}
    BY <1>1, <2>4 DEF WriteAt
  <2>5. QED
    BY <2>1, <2>2, <2>3, <2>4
<1>3. QED
  BY <1>2, TheOne DEF Single

-----------------------------------------------------------------------------
(* Index entries of a vertex *)

LEMMA CollectTyped ==
    ASSUME NEW s, IsStore(s), NEW defs, NEW v
    PROVE  collectVertexIndexEntries(s, defs, v) \subseteq Values \X {v}
<1> DEFINE labels == getVertexLabels(s, v) \cup {Anon}
           values == {getVertexProperty(s, v, l) : l \in labels \cap defs}
<1>1. values \subseteq Values \cup {Null}
  BY PropertyIsRow
<1>2. Entries(labels, values, v) \subseteq Values \X {v}
  BY <1>1 DEF Entries
<1>3. QED
  BY <1>2 DEF collectVertexIndexEntries

\* Only label and property rows count.
LEMMA CollectSame ==
    ASSUME NEW s, NEW p, p.label = s.label, p.prop = s.prop, NEW defs, NEW v
    PROVE  /\ collectVertexIndexEntries(p, defs, v) = collectVertexIndexEntries(s, defs, v)
           /\ getVertexLabels(p, v) = getVertexLabels(s, v)
           /\ \A l : getVertexProperty(p, v, l) = getVertexProperty(s, v, l)
<1>1. getVertexLabels(p, v) = getVertexLabels(s, v)
  BY DEF getVertexLabels
<1>2. \A l : getVertexProperty(p, v, l) = getVertexProperty(s, v, l)
  BY DEF getVertexProperty, Has, table_get
<1>3. QED
  BY <1>1, <1>2 DEF collectVertexIndexEntries

\* What the rows of v must be like for its entries to be right.
RowsKept(s, defs, v) ==
    /\ \A r \in s.prop : r.k[1] = v => r.k[2] \in defs
    /\ \A r \in s.prop : r.k = <<v, Anon>> => Anon \in getVertexLabels(s, v)

LEMMA KeptIs ==
    ASSUME NEW s, NEW p, NEW defs, NEW v, p.label = s.label, p.prop = s.prop, RowsKept(s, defs, v),
           EntriesOf(p, v) = collectVertexIndexEntries(s, defs, v)
    PROVE  Kept(p, defs, v)
BY CollectSame DEF Kept, RowsKept, Has

LEMMA KeptRows ==
    ASSUME NEW s, NEW defs, NEW v, Kept(s, defs, v)
    PROVE  RowsKept(s, defs, v) /\ EntriesOf(s, v) = collectVertexIndexEntries(s, defs, v)
BY DEF Kept, RowsKept, Has

LEMMA ReindexOp ==
    ASSUME NEW s0, NEW old, IsStore(old), NEW new, NEW v \in Vertices, Good(s0, new, v), Told(new, v),
           NEW olddefs, NEW newdefs, NEW r, r = Reindex(old, new, olddefs, newdefs, v), NEW p, p = r.s
    PROVE  /\ Good(s0, p, v) /\ Told(p, v)
           /\ p.existence = new.existence /\ p.label = new.label /\ p.prop = new.prop
           /\ r.ok /\ EntriesOf(new, v) = collectVertexIndexEntries(old, olddefs, v) =>
                EntriesOf(p, v) = collectVertexIndexEntries(new, newdefs, v)
<1> DEFINE was == collectVertexIndexEntries(old, olddefs, v)
           es == collectVertexIndexEntries(new, newdefs, v)
           q == deleteEntries(new, was)
           u == putEntries(q, es)
<1>1. IsStore(new)
  BY DEF Good, Frame
<1>2. was \subseteq Values \X {v} /\ es \subseteq Values \X {v}
  BY <1>1, CollectTyped
<1>3. r.ok = Free(q, es) /\ p = IF Free(q, es) THEN u ELSE q
  BY DEF Reindex
<1> HIDE DEF was, es
<1>4. /\ Good(s0, q, v) /\ Told(q, v) /\ OnlyEntries(new, q)
      /\ \A y : y \in q.vidx <=> y \in new.vidx /\ y.k \notin was
  BY <1>2, DeleteEntriesOp
<1> HIDE DEF q
<1>5. /\ Good(s0, u, v) /\ Told(u, v) /\ OnlyEntries(q, u)
      /\ \A y : y \in u.vidx <=> (y \in q.vidx /\ y.k \notin es) \/ \E e \in es : y = [k |-> e, x |-> 0]
  BY <1>2, <1>4, PutEntriesOp
<1> HIDE DEF u
<1>6. /\ Good(s0, p, v) /\ Told(p, v)
      /\ p.existence = new.existence /\ p.label = new.label /\ p.prop = new.prop
  BY <1>3, <1>4, <1>5 DEF OnlyEntries
<1>7. ASSUME r.ok, EntriesOf(new, v) = was PROVE EntriesOf(p, v) = es
  <2>1. p = u
    BY <1>3, <1>7
  <2>2. \A y \in q.vidx : y.k[2] # v
    BY <1>4, <1>7 DEF EntriesOf
  <2>3. ASSUME NEW e \in es PROVE e \in EntriesOf(p, v)
    <3>1. [k |-> e, x |-> 0] \in p.vidx /\ [k |-> e, x |-> 0].k = e /\ e[2] = v
      BY <1>2, <1>5, <2>1, <2>3
    <3>2. QED
      BY <3>1 DEF EntriesOf
  <2>4. ASSUME NEW e \in EntriesOf(p, v) PROVE e \in es
    <3>1. PICK y \in p.vidx : y.k = e /\ y.k[2] = v
      BY <2>4 DEF EntriesOf
    <3>2. QED
      BY <1>5, <2>1, <2>2, <3>1
  <2>5. QED
    BY <2>3, <2>4
<1>8. QED
  BY <1>6, <1>7 DEF was, es

\* A statement that keeps or deletes the summary.
LEMMA PlainStatement ==
    ASSUME IInv, NEW v \in Vertices, NEW s, NEW blur, blur \subseteq {v}, NEW defs, decl \subseteq defs, defs \subseteq Labels,
           Good(db, s, v), Told(s, v),
           v \notin lapped => GoneHasNoLabel(s, v),
           v \notin lapped \cup unkept \cup blur => Kept(s, defs, v)
    PROVE  StatementOK(s, v, blur, defs)
<1>1. IsStore(db) /\ IsStore(s) /\ SameUnwritten(db, s, v) /\ SummaryTells(db, v)
  BY DEF IInv, TypeOK, StoreInv, Good, Frame
<1>2. SummaryTells(s, v)
  <2>1. CASE ~Has(s, "summary", v)
    BY <2>1 DEF SummaryTells
  <2>2. CASE Has(s, "summary", v)
    <3>1. \A l \in Labels : <<"label", <<v, l>>>> \notin s.wrote /\ <<"prop", <<v, l>>>> \notin s.wrote
      BY <2>2 DEF Told, Changed
    <3>2. <<"summary", v>> \notin s.wrote
      BY <2>2 DEF Told
    <3>3. ASSUME NEW T \in {"label", "prop", "summary"}, NEW r, OwnerOf(T, r.k) = v
          PROVE  r \in db[T] <=> r \in s[T]
      <4>1. T \in Tables
        BY <3>3 DEF Tables
      <4>2. ASSUME r \in db[T] \/ r \in s[T] PROVE <<T, r.k>> \notin s.wrote
        <5>1. r.k \in KeysOf[T]
          BY <1>1, <4>1, <4>2 DEF IsStore, RowsOf
        <5>2. CASE T = "summary"
          BY <3>2, <3>3, <5>2 DEF OwnerOf
        <5>3. CASE T \in {"label", "prop"}
          <6>1. r.k \in Vertices \X Labels /\ r.k[1] = v
            BY <3>3, <5>1, <5>3 DEF OwnerOf, KeysOf
          <6>2. r.k = <<v, r.k[2]>> /\ r.k[2] \in Labels
            BY <6>1
          <6>3. QED
            BY <3>1, <5>3, <6>2
        <5>4. QED
          BY <3>3, <5>2, <5>3
      <4>3. QED
        BY <1>1, <3>3, <4>1, <4>2 DEF SameUnwritten
    <3>4. SameRowsIn(db, s, v, {"label", "prop", "summary"})
      BY <3>3 DEF SameRowsIn
    <3>5. QED
      BY <1>1, <3>4, SameSummary
  <2>3. QED
    BY <2>1, <2>2
<1>3. Has(db, "summary", v) /\ Changed(s, v) => <<"summary", v>> \in s.wrote
  <2> SUFFICES ASSUME Has(db, "summary", v), Changed(s, v), <<"summary", v>> \notin s.wrote PROVE FALSE
    OBVIOUS
  <2>1. PICK r \in db.summary : r.k = v
    BY DEF Has
  <2>2. r \in s.summary
    BY <1>1, <2>1, Kinds DEF SameUnwritten, Tables
  <2>3. Has(s, "summary", v)
    BY <2>1, <2>2 DEF Has
  <2>4. QED
    BY <2>3 DEF Told
<1>4. Has(s, "summary", v) /\ <<"summary", v>> \in s.wrote => v = nextV
  BY DEF Told
<1>5. QED
  BY <1>2, <1>3, <1>4 DEF StatementOK

-----------------------------------------------------------------------------
(* SET and REMOVE on a live vertex *)

\* The statement has run on a vertex with rows.
LEMMA StatementKeeps ==
    ASSUME IInv, NEW t \in Txns, NEW v \in Vertices, Live(v), NEW s, NEW blur, NEW defs,
           StatementOK(s, v, blur, defs), Run(t, s, v, blur, defs), nextV' = nextV
    PROVE  IInv'
<1>1. ~NoRows(db, v)
  <2>1. PICK r \in db.existence : r.k = v
    BY DEF Live, Has
  <2>2. "existence" \in Tables /\ OwnerOf("existence", r.k) = v
    BY <2>1 DEF Tables, OwnerOf
  <2>3. QED
    BY <2>1, <2>2 DEF NoRows
<1>2. QED
  BY <1>1, RunKeeps

LEMMA ReindexStatement ==
    ASSUME IInv, NEW v \in Vertices, Live(v), NEW s, NEW defs, decl \subseteq defs, defs \subseteq Labels,
           Good(db, s, v), Told(s, v), s.existence = db.existence, s.vidx = db.vidx,
           RowsKept(db, decl, v) => RowsKept(s, defs, v),
           NEW r, r = Reindex(db, s, decl, defs, v), NEW blur, blur \subseteq {v}, blur = {} => r.ok
    PROVE  StatementOK(r.s, v, blur, defs)
<1>1. IsStore(db) /\ StoreInv
  BY DEF IInv, TypeOK
<1> DEFINE p == r.s
<1>2. /\ Good(db, p, v) /\ Told(p, v)
      /\ p.existence = s.existence /\ p.label = s.label /\ p.prop = s.prop
      /\ r.ok /\ EntriesOf(s, v) = collectVertexIndexEntries(db, decl, v) =>
           EntriesOf(p, v) = collectVertexIndexEntries(s, defs, v)
  BY <1>1, ReindexOp
<1> HIDE DEF p
<1>3. GoneHasNoLabel(p, v)
  BY <1>2 DEF GoneHasNoLabel, Live, Has
<1>4. ASSUME v \notin lapped \cup unkept \cup blur PROVE Kept(p, defs, v)
  <2>1. Kept(db, decl, v) /\ r.ok
    BY <1>1, <1>4 DEF StoreInv
  <2>2. RowsKept(s, defs, v) /\ EntriesOf(db, v) = collectVertexIndexEntries(db, decl, v)
    BY <2>1, KeptRows
  <2>3. EntriesOf(s, v) = EntriesOf(db, v)
    BY DEF EntriesOf
  <2>4. QED
    BY <1>2, <2>1, <2>2, <2>3, KeptIs
<1>5. StatementOK(p, v, blur, defs)
  BY <1>2, <1>3, <1>4, PlainStatement
<1>6. QED
  BY <1>5 DEF p

\* Rows of the vertex are deleted, its labels stay.
LEMMA FewerRowsKept ==
    ASSUME NEW s, NEW p, NEW v, NEW defs, RowsKept(s, defs, v), p.label = s.label, \A r \in p.prop : r \in s.prop
    PROVE  RowsKept(p, defs, v)
<1>1. getVertexLabels(p, v) = getVertexLabels(s, v)
  BY DEF getVertexLabels
<1>2. QED
  BY <1>1 DEF RowsKept

LEMMA Snapshot ==
    ASSUME IInv, NEW v \in Vertices
    PROVE  Good(db, db, v) /\ Told(db, v) /\ decl \subseteq Labels /\ IsStore(db)
BY GoodStart DEF IInv, TypeOK, StoreInv

LEMMA DeletePropertiesStatement ==
    ASSUME IInv, NEW t \in Txns, NEW v \in Vertices, Live(v), NEW LS \in SUBSET Labels,
           NEW r, r = Reindex(db, deleteVertexProperties(db, v, LS), decl, decl, v),
           NEW blur, blur \subseteq {v}, blur = {} => r.ok, Run(t, r.s, v, blur, decl), nextV' = nextV
    PROVE  IInv'
<1> DEFINE s == deleteVertexProperties(db, v, LS)
<1>1. Good(db, db, v) /\ Told(db, v) /\ decl \subseteq Labels /\ IsStore(db)
  BY Snapshot
<1>2. /\ Good(db, s, v) /\ Told(s, v)
      /\ s.existence = db.existence /\ s.label = db.label /\ s.vidx = db.vidx
      /\ \A q : q \in s.prop <=> q \in db.prop /\ \A l \in LS : q.k # <<v, l>>
  BY <1>1, DeletePropertiesOp
<1>3. r = Reindex(db, s, decl, decl, v)
  OBVIOUS
<1> HIDE DEF s
<1>4. RowsKept(db, decl, v) => RowsKept(s, decl, v)
  BY <1>2, FewerRowsKept
<1>5. StatementOK(r.s, v, blur, decl)
  BY <1>1, <1>2, <1>3, <1>4, ReindexStatement
<1>6. QED
  BY <1>5, StatementKeeps

LEMMA DeleteNothing ==
    ASSUME NEW s, NEW v
    PROVE  deleteVertexProperties(s, v, {}) = s
BY DEF deleteVertexProperties

LEMMA SetNullKeeps ==
    ASSUME IInv, NEW t \in Txns, NEW v \in Vertices, SetNull(t, v)
    PROVE  IInv'
<1> DEFINE matches == Row(v) \cap decl
           LS == IF Single(matches) THEN {The(matches)} ELSE {}
           r == Reindex(db, deleteVertexProperties(db, v, LS), decl, decl, v)
<1>1. Row(v) \subseteq Labels
  BY RowIsLabels
<1>2. LS \in SUBSET Labels
  BY <1>1, TheOne
<1>3. deleteVertexProperties(db, v, LS) =
        IF Single(matches) THEN deleteVertexProperty(db, v, The(matches)) ELSE db
  BY DeleteNothing DEF deleteVertexProperty
<1> DEFINE lost == IF r.ok THEN {} ELSE {v}
<1>4. Live(v) /\ Run(t, r.s, v, lost, decl) /\ nextV' = nextV
  BY <1>3 DEF SetNull
<1> HIDE DEF LS
<1>5. lost \subseteq {v} /\ (lost = {} => r.ok)
  OBVIOUS
<1> HIDE DEF lost
<1>6. QED
  BY <1>2, <1>4, <1>5, DeletePropertiesStatement

LEMMA SetAddNullKeeps ==
    ASSUME IInv, NEW t \in Txns, NEW v \in Vertices, SetAddNull(t, v)
    PROVE  IInv'
<1> DEFINE matches == Row(v) \cap decl
           LS == IF Anon \in decl THEN IF matches = {} THEN {Anon} ELSE {}
                 ELSE IF Single(matches) THEN {The(matches)} ELSE {}
           r == Reindex(db, deleteVertexProperties(db, v, LS), decl, decl, v)
<1>1. Row(v) \subseteq Labels /\ Anon \in Labels
  BY RowIsLabels, Kinds
<1>2. LS \in SUBSET Labels
  BY <1>1, TheOne
<1>3. deleteVertexProperties(db, v, LS) =
        IF Anon \in decl
        THEN IF matches = {} THEN deleteVertexProperty(db, v, Anon) ELSE db
        ELSE IF Single(matches) THEN deleteVertexProperty(db, v, The(matches)) ELSE db
  BY DeleteNothing DEF deleteVertexProperty
<1>4. Live(v) /\ r.ok /\ Run(t, r.s, v, {}, decl) /\ nextV' = nextV
  BY <1>3 DEF SetAddNull
<1> HIDE DEF LS
<1> DEFINE none == {}
<1>5. none \subseteq {v} /\ Run(t, r.s, v, none, decl)
  BY <1>4
<1> HIDE DEF none
<1>6. QED
  BY <1>2, <1>4, <1>5, DeletePropertiesStatement

LEMMA RemovePropertyKeeps ==
    ASSUME IInv, NEW t \in Txns, NEW v \in Vertices, NEW named, RemoveProperty(t, v, named)
    PROVE  IInv'
<1> DEFINE LS == IF named # {} THEN named ELSE IF Row(v) \cap decl # {} THEN Row(v) \cap decl ELSE decl \cap {Anon}
           r == Reindex(db, deleteVertexProperties(db, v, LS), decl, decl, v)
           blur == IF r.ok THEN {} ELSE {v}
<1>1. decl \subseteq Labels
  BY Snapshot
<1>2. Live(v) /\ named \subseteq decl /\ Run(t, r.s, v, blur, decl) /\ nextV' = nextV
  BY DEF RemoveProperty
<1>3. LS \in SUBSET Labels
  BY <1>1, <1>2
<1>4. blur \subseteq {v} /\ (blur = {} => r.ok)
  OBVIOUS
<1> HIDE DEF LS, blur
<1>5. QED
  BY <1>2, <1>3, <1>4, DeletePropertiesStatement

LEMMA SetStrongKeeps ==
    ASSUME IInv, NEW t \in Txns, NEW v \in Vertices, NEW l \in UserLabels, NEW x \in Values \cup {Null}, SetStrong(t, v, l, x)
    PROVE  IInv'
<1> DEFINE s == IF x = Null THEN deleteVertexProperty(db, v, l) ELSE putVertexProperty(db, v, l, x)
           r == Reindex(db, s, decl, decl, v)
           one == {l}
           none == {}
<1>1. l \in Labels /\ l # Anon /\ one \in SUBSET Labels /\ none \subseteq {v}
  BY Kinds
<1>2. Live(v) /\ l \in decl /\ r.ok /\ Run(t, r.s, v, none, decl) /\ nextV' = nextV
  BY DEF SetStrong
<1>3. Good(db, db, v) /\ Told(db, v) /\ decl \subseteq Labels /\ IsStore(db)
  BY Snapshot
<1>4. CASE x = Null
  <2>1. r = Reindex(db, deleteVertexProperties(db, v, one), decl, decl, v)
    BY <1>4 DEF deleteVertexProperty
  <2> HIDE DEF r, none, one
  <2>2. QED
    BY <1>1, <1>2, <2>1, DeletePropertiesStatement
<1>5. CASE x # Null
  <2>1. x \in Values /\ s = putVertexProperty(db, v, l, x) /\ r = Reindex(db, s, decl, decl, v)
    BY <1>5
  <2> HIDE DEF s, r, none
  <2>2. /\ Good(db, s, v) /\ Told(s, v)
        /\ s.existence = db.existence /\ s.label = db.label /\ s.vidx = db.vidx
        /\ \A q : q \in s.prop <=> (q \in db.prop /\ q.k # <<v, l>>) \/ q = [k |-> <<v, l>>, x |-> x]
    BY <1>1, <1>3, <2>1, PutPropertyOp
  <2>3. RowsKept(db, decl, v) => RowsKept(s, decl, v)
    <3> SUFFICES ASSUME RowsKept(db, decl, v) PROVE RowsKept(s, decl, v)
      OBVIOUS
    <3>1. getVertexLabels(s, v) = getVertexLabels(db, v)
      BY <2>2 DEF getVertexLabels
    <3>2. \A q \in s.prop : q.k[1] = v => q.k[2] \in decl
      BY <1>2, <2>2 DEF RowsKept
    <3>3. \A q \in s.prop : q.k = <<v, Anon>> => Anon \in getVertexLabels(s, v)
      BY <1>1, <2>2, <3>1 DEF RowsKept
    <3>4. QED
      BY <3>2, <3>3 DEF RowsKept
  <2>4. StatementOK(r.s, v, none, decl)
    BY <1>1, <1>2, <1>3, <2>1, <2>2, <2>3, ReindexStatement
  <2>5. QED
    BY <1>2, <2>4, StatementKeeps
<1>6. QED
  BY <1>4, <1>5

\* SET n.p = x from a store in which values of v may be gone already.
LEMMA PutConvenienceOp ==
    ASSUME IInv, NEW v \in Vertices, NEW s, Good(db, s, v), Told(s, v), s.label = db.label, NEW x \in Values,
           NEW w, w = PutConvenience(s, v, Row(v), x), NEW p, p = w.s
    PROVE  /\ Good(db, p, v) /\ Told(p, v)
           /\ p.existence = s.existence /\ p.vidx = s.vidx
           /\ decl \subseteq w.defs /\ w.defs \subseteq Labels
           /\ RowsKept(s, decl, v) => RowsKept(p, w.defs, v)
<1> DEFINE row == Row(v)
           at == WriteAt(row)
           labelled == IF at = {Anon} /\ Anon \notin row THEN addVertexLabel(s, v, Anon) ELSE s
<1>1. /\ row \subseteq Labels /\ row = getVertexLabels(db, v) /\ Anon \in Labels
      /\ decl \subseteq Labels /\ at \subseteq Labels /\ getVertexLabels(s, v) = row
  BY RowIsLabels, WriteAtOne, Snapshot, Kinds DEF getVertexLabels
<1>2. w.defs = decl \cup at /\ p = IF at = {} THEN s ELSE putVertexProperty(labelled, v, The(at), x)
  BY DEF PutConvenience
<1> HIDE DEF row, at
<1>3. /\ Good(db, labelled, v) /\ Told(labelled, v)
      /\ labelled.existence = s.existence /\ labelled.prop = s.prop /\ labelled.vidx = s.vidx
      /\ \A m \in row : m \in getVertexLabels(labelled, v)
      /\ at = {Anon} => Anon \in getVertexLabels(labelled, v)
  <2>1. CASE at = {Anon} /\ Anon \notin row
    <3>1. labelled = addVertexLabel(s, v, Anon)
      BY <2>1
    <3> HIDE DEF labelled
    <3>2. QED
      BY <1>1, <3>1, AddLabelOp
  <2>2. CASE ~(at = {Anon} /\ Anon \notin row)
    <3>1. labelled = s
      BY <2>2
    <3> HIDE DEF labelled
    <3>2. QED
      BY <1>1, <2>2, <3>1
  <2>3. QED
    BY <2>1, <2>2
<1> HIDE DEF labelled
<1>4. CASE at = {}
  <2>1. p = s /\ w.defs = decl
    BY <1>2, <1>4
  <2>2. QED
    BY <1>1, <2>1
<1>5. CASE at # {}
  <2> DEFINE l == The(at)
  <2>1. at = {l} /\ l \in Labels /\ p = putVertexProperty(labelled, v, l, x) /\ l \in w.defs
    BY <1>1, <1>2, <1>5, WriteAtOne DEF at, row
  <2> HIDE DEF l
  <2>2. /\ Good(db, p, v) /\ Told(p, v)
        /\ p.existence = labelled.existence /\ p.label = labelled.label /\ p.vidx = labelled.vidx
        /\ \A r : r \in p.prop <=> (r \in labelled.prop /\ r.k # <<v, l>>) \/ r = [k |-> <<v, l>>, x |-> x]
    BY <1>3, <2>1, PutPropertyOp
  <2>3. ASSUME RowsKept(s, decl, v) PROVE RowsKept(p, w.defs, v)
    <3>1. getVertexLabels(p, v) = getVertexLabels(labelled, v)
      BY <2>2 DEF getVertexLabels
    <3>2. ASSUME NEW q \in p.prop, q.k[1] = v PROVE q.k[2] \in w.defs
      <4>1. CASE q \in s.prop
        BY <1>2, <2>3, <3>2, <4>1 DEF RowsKept
      <4>2. CASE q = [k |-> <<v, l>>, x |-> x]
        BY <2>1, <4>2
      <4>3. QED
        BY <1>3, <2>2, <3>2, <4>1, <4>2
    <3>3. ASSUME NEW q \in p.prop, q.k = <<v, Anon>> PROVE Anon \in getVertexLabels(p, v)
      <4>1. CASE l = Anon
        BY <1>3, <2>1, <3>1, <4>1
      <4>2. CASE l # Anon
        <5>1. q \in s.prop
          BY <1>3, <2>2, <3>3, <4>2
        <5>2. Anon \in row
          BY <1>1, <2>3, <3>3, <5>1 DEF RowsKept
        <5>3. QED
          BY <1>3, <3>1, <5>2
      <4>3. QED
        BY <4>1, <4>2
    <3>4. QED
      BY <3>2, <3>3 DEF RowsKept
  <2>4. QED
    BY <1>1, <1>2, <1>3, <2>2, <2>3
<1>6. QED
  BY <1>4, <1>5

LEMMA SetPropertyKeeps ==
    ASSUME IInv, NEW t \in Txns, NEW v \in Vertices, NEW x \in Values, SetProperty(t, v, x)
    PROVE  IInv'
<1> DEFINE w == PutConvenience(db, v, Row(v), x)
           s == w.s
           r == Reindex(db, s, decl, w.defs, v)
           lost == IF r.ok THEN {} ELSE {v}
<1>1. /\ Live(v) /\ Run(t, r.s, v, lost, w.defs) /\ nextV' = nextV
      /\ lost \subseteq {v} /\ (lost = {} => r.ok)
  BY DEF SetProperty
<1>2. Good(db, db, v) /\ Told(db, v) /\ decl \subseteq Labels /\ IsStore(db)
  BY Snapshot
<1> HIDE DEF w, lost
<1>3. /\ Good(db, s, v) /\ Told(s, v) /\ s.existence = db.existence /\ s.vidx = db.vidx
      /\ decl \subseteq w.defs /\ w.defs \subseteq Labels
      /\ RowsKept(db, decl, v) => RowsKept(s, w.defs, v)
  BY <1>2, PutConvenienceOp DEF w
<1> HIDE DEF s
<1>4. StatementOK(r.s, v, lost, w.defs)
  BY <1>1, <1>3, ReindexStatement
<1>5. QED
  BY <1>1, <1>4, StatementKeeps

LEMMA SetReplaceKeeps ==
    ASSUME IInv, NEW t \in Txns, NEW v \in Vertices, NEW x \in Values \cup {Null}, SetReplace(t, v, x)
    PROVE  IInv'
<1> DEFINE set == {l \in getVertexLabels(db, v) \cup {Anon} : getVertexProperty(db, v, l) # Null}
           bare == deleteVertexProperties(db, v, set)
           w == IF x = Null THEN [s |-> bare, defs |-> decl] ELSE PutConvenience(bare, v, Row(v), x)
           s == w.s
           r == Reindex(db, s, decl, w.defs, v)
           none == {}
<1>1. Live(v) /\ r.ok /\ Run(t, r.s, v, none, w.defs) /\ nextV' = nextV /\ none \subseteq {v}
  BY DEF SetReplace
<1>2. Good(db, db, v) /\ Told(db, v) /\ decl \subseteq Labels /\ IsStore(db)
  BY Snapshot
<1>3. set \in SUBSET Labels
  BY <1>2, LabelIsRow, Kinds
<1> HIDE DEF set, none
<1>4. /\ Good(db, bare, v) /\ Told(bare, v)
      /\ bare.existence = db.existence /\ bare.label = db.label /\ bare.vidx = db.vidx
      /\ \A q : q \in bare.prop <=> q \in db.prop /\ \A l \in set : q.k # <<v, l>>
  BY <1>2, <1>3, DeletePropertiesOp
<1>5. RowsKept(db, decl, v) => RowsKept(bare, decl, v)
  BY <1>4, FewerRowsKept
<1> HIDE DEF bare
<1>6. /\ Good(db, s, v) /\ Told(s, v) /\ s.existence = db.existence /\ s.vidx = db.vidx
      /\ decl \subseteq w.defs /\ w.defs \subseteq Labels
      /\ RowsKept(db, decl, v) => RowsKept(s, w.defs, v)
  <2>1. CASE x = Null
    <3>1. s = bare /\ w.defs = decl
      BY <2>1
    <3>2. QED
      BY <1>2, <1>4, <1>5, <3>1
  <2>2. CASE x # Null
    <3>1. x \in Values /\ w = PutConvenience(bare, v, Row(v), x)
      BY <2>2
    <3> HIDE DEF w
    <3>2. /\ Good(db, s, v) /\ Told(s, v) /\ s.existence = bare.existence /\ s.vidx = bare.vidx
          /\ decl \subseteq w.defs /\ w.defs \subseteq Labels
          /\ RowsKept(bare, decl, v) => RowsKept(s, w.defs, v)
      BY <1>4, <3>1, PutConvenienceOp
    <3>3. QED
      BY <1>4, <1>5, <3>2
  <2>3. QED
    BY <2>1, <2>2
<1> HIDE DEF w, s
<1>7. StatementOK(r.s, v, none, w.defs)
  BY <1>1, <1>6, ReindexStatement
<1>8. QED
  BY <1>1, <1>7, StatementKeeps DEF s

\* __anon__ counts for the entries of a vertex that does not have it.
LEMMA CollectAnon ==
    ASSUME NEW s, NEW p, p.prop = s.prop, NEW v, NEW defs,
           getVertexLabels(p, v) \cup {Anon} = getVertexLabels(s, v) \cup {Anon}
    PROVE  collectVertexIndexEntries(p, defs, v) = collectVertexIndexEntries(s, defs, v)
<1>1. \A l : getVertexProperty(p, v, l) = getVertexProperty(s, v, l)
  BY DEF getVertexProperty, Has, table_get
<1>2. QED
  BY <1>1 DEF collectVertexIndexEntries

LEMMA SetLabelsKeeps ==
    ASSUME IInv, NEW t \in Txns, NEW v \in Vertices, NEW l \in UserLabels, SetLabels(t, v, l)
    PROVE  IInv'
<1> DEFINE new == addVertexLabel(db, v, l)
           es == collectVertexIndexEntries(new, decl, v)
           was == collectVertexIndexEntries(db, decl, v)
           p == putEntries(new, es)
           blur == IF was \ es = {} THEN {} ELSE {v}
<1>1. Live(v) /\ Run(t, p, v, blur, decl) /\ nextV' = nextV
  BY DEF SetLabels
<1>2. Good(db, db, v) /\ Told(db, v) /\ decl \subseteq Labels /\ IsStore(db) /\ l \in Labels
  BY Snapshot, Kinds
<1>3. blur \subseteq {v} /\ (blur = {} => was \subseteq es)
  OBVIOUS
<1>4. /\ Good(db, new, v) /\ Told(new, v)
      /\ new.existence = db.existence /\ new.prop = db.prop /\ new.vidx = db.vidx
      /\ \A m : m \in getVertexLabels(new, v) <=> m \in getVertexLabels(db, v) \/ m = l
  BY <1>2, AddLabelOp
<1> HIDE DEF new, blur
<1>5. es \subseteq Values \X {v}
  BY <1>4, CollectTyped DEF Good, Frame
<1> HIDE DEF es, was
<1>6. /\ Good(db, p, v) /\ Told(p, v) /\ OnlyEntries(new, p)
      /\ \A r : r \in p.vidx <=> (r \in new.vidx /\ r.k \notin es) \/ \E e \in es : r = [k |-> e, x |-> 0]
  BY <1>4, <1>5, PutEntriesOp
<1> HIDE DEF p
<1>7. GoneHasNoLabel(p, v)
  BY <1>1, <1>4, <1>6 DEF GoneHasNoLabel, Live, Has, OnlyEntries
<1>8. ASSUME v \notin lapped \cup unkept \cup blur PROVE Kept(p, decl, v)
  <2>1. Kept(db, decl, v) /\ was \subseteq es
    BY <1>3, <1>8 DEF IInv, StoreInv
  <2>2. RowsKept(db, decl, v) /\ EntriesOf(db, v) = was
    BY <2>1, KeptRows DEF was
  <2>3. RowsKept(new, decl, v)
    BY <1>4, <2>2 DEF RowsKept
  <2>4. ASSUME NEW e \in EntriesOf(p, v) PROVE e \in es
    <3>1. PICK r \in p.vidx : r.k = e /\ r.k[2] = v
      BY <2>4 DEF EntriesOf
    <3>2. CASE r \in db.vidx
      BY <2>1, <2>2, <3>1, <3>2 DEF EntriesOf
    <3>3. CASE r \notin db.vidx
      BY <1>4, <1>6, <3>1, <3>3
    <3>4. QED
      BY <3>2, <3>3
  <2>5. ASSUME NEW e \in es PROVE e \in EntriesOf(p, v)
    <3>1. [k |-> e, x |-> 0] \in p.vidx /\ [k |-> e, x |-> 0].k = e /\ e[2] = v
      BY <1>5, <1>6, <2>5
    <3>2. QED
      BY <3>1 DEF EntriesOf
  <2>6. EntriesOf(p, v) = collectVertexIndexEntries(new, decl, v)
    BY <2>4, <2>5 DEF es
  <2>7. QED
    BY <1>6, <2>3, <2>6, KeptIs DEF OnlyEntries
<1>9. StatementOK(p, v, blur, decl)
  BY <1>2, <1>3, <1>6, <1>7, <1>8, PlainStatement
<1>10. QED
  BY <1>1, <1>9, StatementKeeps

LEMMA DeleteVertexKeeps ==
    ASSUME IInv, NEW t \in Txns, NEW v \in Vertices, DeleteVertexStmt(t, v)
    PROVE  IInv'
<1> DEFINE was == collectVertexIndexEntries(db, decl, v)
           q == deleteEntries(db, was)
           p == deleteVertex(q, v)
           none == {}
<1>1. Live(v) /\ Run(t, p, v, none, decl) /\ nextV' = nextV /\ none \subseteq {v}
  BY DEF DeleteVertexStmt
<1>2. Good(db, db, v) /\ Told(db, v) /\ decl \subseteq Labels /\ IsStore(db) /\ Anon # 1
  BY Snapshot, Kinds
<1>3. was \subseteq Values \X {v}
  BY <1>2, CollectTyped
<1> HIDE DEF was, none
<1>4. Good(db, q, v) /\ \A r : r \in q.vidx <=> r \in db.vidx /\ r.k \notin was
  BY <1>2, <1>3, DeleteEntriesOp
<1> HIDE DEF q
<1>5. /\ Good(db, p, v) /\ Told(p, v) /\ p.vidx = q.vidx
      /\ \A r \in p.prop : r.k[1] # v
      /\ getVertexLabels(p, v) = {}
  BY <1>4, DeleteVertexOp
<1> HIDE DEF p
<1>6. GoneHasNoLabel(p, v)
  BY <1>5 DEF GoneHasNoLabel
<1>7. ASSUME v \notin lapped \cup unkept PROVE Kept(p, decl, v)
  <2>1. EntriesOf(db, v) = was
    BY <1>7, KeptRows DEF IInv, StoreInv, was
  <2>2. EntriesOf(p, v) = {}
    BY <1>4, <1>5, <2>1 DEF EntriesOf
  <2>3. collectVertexIndexEntries(p, decl, v) = {}
    BY <1>2, <1>5 DEF collectVertexIndexEntries, Entries
  <2>4. RowsKept(p, decl, v)
    BY <1>5 DEF RowsKept
  <2>5. QED
    BY <2>2, <2>3, <2>4, KeptIs
<1>8. StatementOK(p, v, none, decl)
  BY <1>1, <1>2, <1>5, <1>6, <1>7, PlainStatement
<1>9. QED
  BY <1>1, <1>8, StatementKeeps

\* REMOVE n:L: what the store is like when the label's rows are gone and the
\* entries are updated, and when __anon__ is added.
LEMMA WithoutLabelOp ==
    ASSUME IInv, NEW v \in Vertices, NEW l \in UserLabels, NEW w, w = WithoutLabel(v, l), NEW p, p = w.s
    PROVE  /\ Good(db, p, v) /\ Told(p, v) /\ p.existence = db.existence
           /\ \A m : m \in getVertexLabels(p, v) <=>
                m \in getVertexLabels(db, v) \ {l} \/
                  (m = Anon /\ (Moved(v, l) \/ getVertexLabels(db, v) \subseteq {l}))
           /\ ~Moved(v, l) => w.defs = decl /\ \A r : r \in p.prop <=> r \in db.prop /\ r.k # <<v, l>>
           /\ Moved(v, l) =>
                /\ w.defs = decl \cup {Anon}
                /\ \A r : r \in p.prop <=>
                     \/ r \in db.prop /\ r.k # <<v, l>> /\ r.k # <<v, Anon>>
                     \/ r = [k |-> <<v, Anon>>, x |-> getVertexProperty(db, v, l)]
           /\ w.ok /\ EntriesOf(db, v) = collectVertexIndexEntries(db, decl, v) =>
                EntriesOf(p, v) = collectVertexIndexEntries(p, decl, v)
<1> DEFINE x == getVertexProperty(db, v, l)
           moved == IF Moved(v, l) THEN putVertexProperty(db, v, Anon, x) ELSE db
           gone == removeVertexLabel(moved, v, l)
           r == Reindex(db, gone, decl, decl, v)
           q == r.s
           rest == Row(v) \ {l}
           added == (rest = {} \/ Moved(v, l)) /\ Anon \notin rest
<1>1. /\ Good(db, db, v) /\ Told(db, v) /\ decl \subseteq Labels /\ IsStore(db)
      /\ l \in Labels /\ l # Anon /\ Anon \in Labels
      /\ Row(v) = getVertexLabels(db, v)
  BY Snapshot, Kinds, RowIsLabels
<1>2. /\ w.ok = r.ok /\ w.defs = IF Moved(v, l) THEN decl \cup {Anon} ELSE decl
      /\ p = IF added THEN addVertexLabel(q, v, Anon) ELSE q
  BY DEF WithoutLabel
<1>3. Moved(v, l) => x \in Values
  BY <1>1, PropertyIsRow DEF Moved
<1> HIDE DEF x
<1>4. /\ Good(db, moved, v) /\ Told(moved, v)
      /\ moved.existence = db.existence /\ moved.label = db.label /\ moved.vidx = db.vidx
      /\ ~Moved(v, l) => moved.prop = db.prop
      /\ Moved(v, l) => \A y : y \in moved.prop <=> (y \in db.prop /\ y.k # <<v, Anon>>) \/ y = [k |-> <<v, Anon>>, x |-> x]
  <2>1. CASE Moved(v, l)
    <3>1. moved = putVertexProperty(db, v, Anon, x)
      BY <2>1
    <3> HIDE DEF moved
    <3>2. QED
      BY <1>1, <1>3, <2>1, <3>1, PutPropertyOp
  <2>2. CASE ~Moved(v, l)
    <3>1. moved = db
      BY <2>2
    <3>2. QED
      BY <1>1, <2>2, <3>1
  <2>3. QED
    BY <2>1, <2>2
<1> HIDE DEF moved
<1>5. /\ Good(db, gone, v) /\ Told(gone, v)
      /\ gone.existence = moved.existence /\ gone.vidx = moved.vidx
      /\ \A y : y \in gone.prop <=> y \in moved.prop /\ y.k # <<v, l>>
      /\ \A m : m \in getVertexLabels(gone, v) <=> m \in getVertexLabels(moved, v) /\ m # l
  BY <1>1, <1>4, RemoveLabelOp
<1> HIDE DEF gone
<1>6. getVertexLabels(moved, v) = Row(v)
  BY <1>1, <1>4 DEF getVertexLabels
<1>7. /\ Good(db, q, v) /\ Told(q, v)
      /\ q.existence = gone.existence /\ q.label = gone.label /\ q.prop = gone.prop
      /\ r.ok /\ EntriesOf(gone, v) = collectVertexIndexEntries(db, decl, v) =>
           EntriesOf(q, v) = collectVertexIndexEntries(gone, decl, v)
  BY <1>1, <1>5, ReindexOp
<1> HIDE DEF r
<1>8. \A m : m \in getVertexLabels(q, v) <=> m \in rest
  BY <1>5, <1>6, <1>7 DEF getVertexLabels
<1>9. EntriesOf(gone, v) = EntriesOf(db, v)
  BY <1>4, <1>5 DEF EntriesOf
<1> HIDE DEF q, rest
<1>10. /\ Good(db, p, v) /\ Told(p, v)
       /\ p.existence = q.existence /\ p.prop = q.prop /\ p.vidx = q.vidx
       /\ \A m : m \in getVertexLabels(p, v) <=> m \in rest \/ (m = Anon /\ added)
  <2>1. CASE added
    <3>1. p = addVertexLabel(q, v, Anon)
      BY <1>2, <2>1
    <3> HIDE DEF added
    <3>2. QED
      BY <1>1, <1>7, <1>8, <2>1, <3>1, AddLabelOp
  <2>2. CASE ~added
    BY <1>2, <1>7, <1>8, <2>2
  <2>3. QED
    BY <2>1, <2>2
<1>11. \A m : m \in getVertexLabels(p, v) <=>
         m \in getVertexLabels(db, v) \ {l} \/ (m = Anon /\ (Moved(v, l) \/ getVertexLabels(db, v) \subseteq {l}))
  <2>1. rest = getVertexLabels(db, v) \ {l} /\ (rest = {} <=> getVertexLabels(db, v) \subseteq {l})
    BY <1>1 DEF rest
  <2>2. QED
    BY <1>10, <2>1
<1>12. ~Moved(v, l) => w.defs = decl /\ \A y : y \in p.prop <=> y \in db.prop /\ y.k # <<v, l>>
  BY <1>2, <1>4, <1>5, <1>7, <1>10
<1>13. ASSUME Moved(v, l)
       PROVE  /\ w.defs = decl \cup {Anon}
              /\ \A y : y \in p.prop <=>
                   \/ y \in db.prop /\ y.k # <<v, l>> /\ y.k # <<v, Anon>>
                   \/ y = [k |-> <<v, Anon>>, x |-> x]
  <2>1. [k |-> <<v, Anon>>, x |-> x].k # <<v, l>>
    BY <1>1
  <2>2. QED
    BY <1>2, <1>4, <1>5, <1>7, <1>10, <1>13, <2>1
<1>14. ASSUME w.ok, EntriesOf(db, v) = collectVertexIndexEntries(db, decl, v)
       PROVE  EntriesOf(p, v) = collectVertexIndexEntries(p, decl, v)
  <2>1. EntriesOf(q, v) = collectVertexIndexEntries(gone, decl, v)
    BY <1>2, <1>7, <1>9, <1>14
  <2>2. EntriesOf(p, v) = EntriesOf(q, v)
    BY <1>10 DEF EntriesOf
  <2>3. getVertexLabels(p, v) \cup {Anon} = getVertexLabels(gone, v) \cup {Anon}
    <3>1. getVertexLabels(gone, v) = getVertexLabels(q, v)
      BY <1>7 DEF getVertexLabels
    <3>2. QED
      BY <1>8, <1>10, <3>1
  <2>4. p.prop = gone.prop
    BY <1>7, <1>10
  <2>5. QED
    BY <2>1, <2>2, <2>3, <2>4, CollectAnon
<1>15. QED
  BY <1>4, <1>5, <1>7, <1>10, <1>11, <1>12, <1>13, <1>14 DEF x

LEMMA RemoveLabelKeeps ==
    ASSUME IInv, NEW t \in Txns, NEW v \in Vertices, NEW l \in UserLabels, RemoveLabel(t, v, l)
    PROVE  IInv'
<1> DEFINE w == WithoutLabel(v, l)
           p == w.s
           labels == getVertexLabels(db, v)
           blur == IF w.ok /\ w.defs = decl THEN {} ELSE {v}
<1>1. Live(v) /\ Run(t, p, v, blur, w.defs) /\ nextV' = nextV
  BY DEF RemoveLabel
<1>2. blur \subseteq {v} /\ (blur = {} => w.ok /\ w.defs = decl)
  OBVIOUS
<1>3. decl \subseteq Labels /\ IsStore(db) /\ l # Anon /\ Anon \in Labels
  BY Snapshot, Kinds
<1> HIDE DEF w, blur
<1>4. /\ Good(db, p, v) /\ Told(p, v) /\ p.existence = db.existence
      /\ \A m : m \in getVertexLabels(p, v) <=>
           m \in labels \ {l} \/ (m = Anon /\ (Moved(v, l) \/ labels \subseteq {l}))
      /\ ~Moved(v, l) => w.defs = decl /\ \A r : r \in p.prop <=> r \in db.prop /\ r.k # <<v, l>>
      /\ Moved(v, l) =>
           /\ w.defs = decl \cup {Anon}
           /\ \A r : r \in p.prop <=>
                \/ r \in db.prop /\ r.k # <<v, l>> /\ r.k # <<v, Anon>>
                \/ r = [k |-> <<v, Anon>>, x |-> getVertexProperty(db, v, l)]
      /\ w.ok /\ EntriesOf(db, v) = collectVertexIndexEntries(db, decl, v) =>
           EntriesOf(p, v) = collectVertexIndexEntries(p, decl, v)
  BY WithoutLabelOp DEF w
<1> HIDE DEF p
<1>5. GoneHasNoLabel(p, v)
  BY <1>1, <1>4 DEF GoneHasNoLabel, Live, Has
<1>6. ASSUME v \notin lapped \cup unkept \cup blur PROVE Kept(p, w.defs, v)
  <2>1. Kept(db, decl, v) /\ w.ok /\ w.defs = decl
    BY <1>2, <1>6 DEF IInv, StoreInv
  <2>2. RowsKept(db, decl, v) /\ EntriesOf(p, v) = collectVertexIndexEntries(p, decl, v)
    BY <1>4, <2>1, KeptRows
  <2>3. ASSUME NEW r \in p.prop, r.k[1] = v PROVE r.k[2] \in decl
    <3>1. CASE r \in db.prop
      BY <2>2, <2>3, <3>1 DEF RowsKept
    <3>2. CASE r \notin db.prop
      <4>1. Moved(v, l) /\ r = [k |-> <<v, Anon>>, x |-> getVertexProperty(db, v, l)] /\ Anon \in decl
        BY <1>4, <2>1, <2>3, <3>2
      <4>2. QED
        BY <4>1
    <3>3. QED
      BY <3>1, <3>2
  <2>4. ASSUME NEW r \in p.prop, r.k = <<v, Anon>> PROVE Anon \in getVertexLabels(p, v)
    <3>1. CASE Moved(v, l)
      BY <1>4, <3>1
    <3>2. CASE ~Moved(v, l)
      BY <1>3, <1>4, <2>2, <2>4, <3>2 DEF RowsKept
    <3>3. QED
      BY <3>1, <3>2
  <2>5. RowsKept(p, decl, v)
    BY <2>3, <2>4 DEF RowsKept
  <2>6. QED
    BY <2>1, <2>2, <2>5, KeptIs
<1>7. decl \subseteq w.defs /\ w.defs \subseteq Labels
  BY <1>3, <1>4
<1>8. StatementOK(p, v, blur, w.defs)
  BY <1>2, <1>4, <1>5, <1>6, <1>7, PlainStatement
<1>9. QED
  BY <1>1, <1>8, StatementKeeps

-----------------------------------------------------------------------------
(* CREATE, the batch import and MERGE *)

LEMMA NextVertex ==
    ASSUME IInv, nextV <= MaxVertex
    PROVE  /\ nextV \in Vertices /\ NoRows(db, nextV) /\ Good(db, db, nextV) /\ Told(db, nextV)
           /\ IsStore(db) /\ LabelsAgree(db) /\ db.wrote = {} /\ decl \subseteq Labels
<1>1. nextV \in Vertices
  BY VertexStoreAssumption DEF IInv, TypeOK, Vertices
<1>2. nextV >= nextV
  BY <1>1 DEF Vertices
<1>3. QED
  BY <1>1, <1>2, Snapshot DEF IInv, TypeOK, StoreInv

\* The entries computed from the pattern are the ones the rows call for.
LEMMA CollectFromProps ==
    ASSUME NEW s, IsStore(s), NEW v \in Vertices, NEW defs, NEW props, LabelProps(props),
           \A l : l \in getVertexLabels(s, v) <=> \E a \in props : a[1] = l,
           \A a \in props : getVertexProperty(s, v, a[1]) = a[2],
           \A r \in s.prop : r.k[1] = v => \E a \in props : r.k[2] = a[1]
    PROVE  collectVertexIndexEntriesFromLabelProps(defs, props, v) = collectVertexIndexEntries(s, defs, v)
<1> DEFINE own == {a[1] : a \in props}
           vals == {a[2] : a \in {q \in props : q[1] \in defs}}
           labels == getVertexLabels(s, v) \cup {Anon}
           values == {getVertexProperty(s, v, l) : l \in labels \cap defs}
<1>1. 1 \in own <=> 1 \in labels
  BY Kinds
<1>2. vals \ {Null} = values \ {Null}
  <2>1. ASSUME NEW y \in vals, y # Null PROVE y \in values
    <3>1. PICK a \in props : a[1] \in defs /\ a[2] = y
      BY <2>1
    <3>2. a[1] \in labels /\ getVertexProperty(s, v, a[1]) = y
      BY <3>1
    <3>3. QED
      BY <3>1, <3>2
  <2>2. ASSUME NEW y \in values, y # Null PROVE y \in vals
    <3>1. PICK l \in labels \cap defs : y = getVertexProperty(s, v, l)
      BY <2>2
    <3>2. \E a \in props : a[1] = l
      <4>1. [k |-> <<v, l>>, x |-> y] \in s.prop
        BY <2>2, <3>1, PropertyIsRow
      <4>2. [k |-> <<v, l>>, x |-> y].k[1] = v /\ [k |-> <<v, l>>, x |-> y].k[2] = l
        OBVIOUS
      <4>3. QED
        BY <4>1, <4>2
    <3>3. PICK a \in props : a[1] = l
      BY <3>2
    <3>4. a[2] = y /\ a[1] \in defs
      BY <3>1, <3>3
    <3>5. QED
      BY <3>4
  <2>3. QED
    BY <2>1, <2>2
<1>3. Entries(own, vals, v) = Entries(labels, values, v)
  BY <1>1, <1>2 DEF Entries
<1>4. QED
  BY <1>3 DEF collectVertexIndexEntries, collectVertexIndexEntriesFromLabelProps

\* A new vertex, with its index entries or without.
LEMMA NewVertexOp ==
    ASSUME NEW s0, IsStore(s0), LabelsAgree(s0), s0.wrote = {}, NEW v \in Vertices, NoRows(s0, v),
           NEW props, LabelProps(props), NEW defs, NEW s, s = insertVertex(s0, v, props),
           NEW es, es = collectVertexIndexEntriesFromLabelProps(defs, props, v),
           NEW p, p = s \/ p = putEntries(s, es)
    PROVE  /\ Good(s0, p, v) /\ SummaryTells(p, v) /\ GoneHasNoLabel(p, v)
           /\ p = putEntries(s, es) /\ (\A a \in props : a[2] # Null => a[1] \in defs) => Kept(p, defs, v)
<1>1. /\ Good(s0, s, v) /\ s.vidx = s0.vidx /\ Has(s, "existence", v)
      /\ \A l : l \in getVertexLabels(s, v) <=> \E a \in props : a[1] = l
      /\ \A a \in props : getVertexProperty(s, v, a[1]) = a[2]
      /\ \A r \in s.prop : r.k[1] = v => \E a \in props : r.k[2] = a[1]
      /\ SummaryTells(s, v)
  BY InsertVertexOp
<1>2. IsStore(s)
  BY <1>1 DEF Good, Frame
<1>3. es = collectVertexIndexEntries(s, defs, v) /\ es \subseteq Values \X {v}
  BY <1>1, <1>2, CollectFromProps, CollectTyped
<1> DEFINE u == putEntries(s, es)
<1>4. /\ Good(s0, u, v) /\ OnlyEntries(s, u)
      /\ \A r : r \in u.vidx <=> (r \in s.vidx /\ r.k \notin es) \/ \E e \in es : r = [k |-> e, x |-> 0]
  BY <1>1, <1>3, PutEntriesOp
<1>5. p = s \/ p = u
  OBVIOUS
<1>6. Good(s0, p, v) /\ p.existence = s.existence /\ p.label = s.label /\ p.prop = s.prop /\ p.summary = s.summary
  BY <1>1, <1>4, <1>5 DEF OnlyEntries
<1>7. SummaryTells(p, v)
  <2>1. SameRowsIn(s, p, v, {"label", "prop", "summary"})
    BY <1>6 DEF SameRowsIn
  <2>2. QED
    BY <1>1, <1>2, <1>6, <2>1, SameSummary DEF Good, Frame
<1>8. GoneHasNoLabel(p, v)
  BY <1>1, <1>6 DEF GoneHasNoLabel, Has
<1>9. ASSUME p = u, \A a \in props : a[2] # Null => a[1] \in defs PROVE Kept(p, defs, v)
  <2>1. \A r \in s0.vidx : r.k[2] # v
    BY DEF NoRows, OwnerOf, Tables
  <2>2. EntriesOf(p, v) = es
    <3>1. ASSUME NEW e \in EntriesOf(p, v) PROVE e \in es
      <4>1. PICK r \in p.vidx : r.k = e /\ r.k[2] = v
        BY <3>1 DEF EntriesOf
      <4> HIDE DEF u
      <4>2. QED
        BY <1>1, <1>4, <1>9, <2>1, <4>1
    <3>2. ASSUME NEW e \in es PROVE e \in EntriesOf(p, v)
      <4> HIDE DEF u
      <4>1. [k |-> e, x |-> 0] \in p.vidx /\ [k |-> e, x |-> 0].k = e /\ e[2] = v
        BY <1>3, <1>4, <1>9, <3>2
      <4>2. QED
        BY <4>1 DEF EntriesOf
    <3>3. QED
      BY <3>1, <3>2
  <2>3. ASSUME NEW r \in s.prop, r.k[1] = v PROVE r.k[2] \in defs
    <3>1. PICK a \in props : r.k[2] = a[1]
      BY <1>1, <2>3
    <3>2. PICK w \in Vertices, l \in Labels, x \in Values : r = [k |-> <<w, l>>, x |-> x]
      BY <1>2, <2>3, RowShapes
    <3>3. w = v /\ l = a[1]
      BY <2>3, <3>1, <3>2
    <3>4. [k |-> <<v, l>>, x |-> x] \in s.prop
      BY <2>3, <3>2, <3>3
    <3>5. getVertexProperty(s, v, l) = x
      BY <1>2, <3>4, PropertyIsRow
    <3>6. a[2] # Null
      BY <1>1, <3>2, <3>3, <3>5, Kinds
    <3>7. QED
      BY <1>9, <3>1, <3>6
  <2>4. ASSUME NEW r \in s.prop, r.k = <<v, Anon>> PROVE Anon \in getVertexLabels(s, v)
    <3>1. r.k[1] = v /\ r.k[2] = Anon
      BY <2>4
    <3>2. QED
      BY <1>1, <2>4, <3>1
  <2>5. RowsKept(s, defs, v)
    BY <2>3, <2>4 DEF RowsKept
  <2>6. QED
    BY <1>3, <1>6, <2>2, <2>5, KeptIs
<1>10. QED
  BY <1>6, <1>7, <1>8, <1>9

LEMMA NewVertexStatement ==
    ASSUME IInv, nextV <= MaxVertex, NEW props, LabelProps(props), NEW defs, decl \subseteq defs, defs \subseteq Labels,
           NEW blur, blur \subseteq {nextV}, NEW s, s = insertVertex(db, nextV, props),
           NEW es, es = collectVertexIndexEntriesFromLabelProps(defs, props, nextV),
           NEW p, p = s \/ p = putEntries(s, es),
           blur = {} => p = putEntries(s, es) /\ \A a \in props : a[2] # Null => a[1] \in defs
    PROVE  StatementOK(p, nextV, blur, defs)
<1>1. nextV \in Vertices /\ NoRows(db, nextV) /\ IsStore(db) /\ LabelsAgree(db) /\ db.wrote = {}
  BY NextVertex
<1>2. /\ Good(db, p, nextV) /\ SummaryTells(p, nextV) /\ GoneHasNoLabel(p, nextV)
      /\ p = putEntries(s, es) /\ (\A a \in props : a[2] # Null => a[1] \in defs) => Kept(p, defs, nextV)
  BY <1>1, NewVertexOp
<1>3. ~Has(db, "summary", nextV)
  <2> SUFFICES ASSUME NEW r \in db.summary, r.k = nextV PROVE FALSE
    BY DEF Has
  <2>1. "summary" \in Tables /\ OwnerOf("summary", r.k) = nextV
    BY DEF Tables, OwnerOf
  <2>2. QED
    BY <1>1, <2>1 DEF NoRows
<1>4. nextV \notin lapped \cup unkept \cup blur => Kept(p, defs, nextV)
  <2> SUFFICES ASSUME nextV \notin blur PROVE Kept(p, defs, nextV)
    OBVIOUS
  <2>1. blur = {}
    OBVIOUS
  <2>2. QED
    BY <1>2, <2>1
<1>5. QED
  BY <1>1, <1>2, <1>3, <1>4 DEF StatementOK

LEMMA CreatePropsTyped ==
    ASSUME IInv, NEW labels \in SUBSET UserLabels, NEW x \in Values \cup {Null},
           NEW first, first \in (IF labels = {} THEN {Anon} ELSE labels),
           NEW made, made = CreateProps(labels, first, x)
    PROVE  /\ LabelProps(made.props) /\ decl \subseteq made.defs /\ made.defs \subseteq Labels
           /\ \A a \in made.props : a[2] # Null => a[1] \in made.defs
<1> DEFINE own == IF labels = {} THEN {Anon} ELSE labels
           at == IF x = Null THEN {} ELSE IF own \cap decl # {} THEN own \cap decl ELSE {first}
<1>1. own \subseteq Labels /\ first \in own /\ decl \subseteq Labels
  BY Kinds DEF IInv, TypeOK
<1>2. at \subseteq Labels
  BY <1>1
<1>3. made.defs = decl \cup at /\ made.props = {<<l, IF l \in at THEN x ELSE Null>> : l \in own}
  BY DEF CreateProps
<1> HIDE DEF own, at
<1>4. \A a \in made.props : a[1] \in own /\ a[2] \in Values \cup {Null} /\ a = <<a[1], IF a[1] \in at THEN x ELSE Null>>
  BY <1>3
<1>5. LabelProps(made.props)
  BY <1>1, <1>4 DEF LabelProps
<1>6. \A a \in made.props : a[2] # Null => a[1] \in at
  BY <1>3
<1>7. QED
  BY <1>1, <1>2, <1>3, <1>5, <1>6

LEMMA CreateNodeKeeps ==
    ASSUME IInv, NEW t \in Txns, NEW labels \in SUBSET UserLabels, NEW x \in Values \cup {Null}, NEW first,
           CreateNode(t, labels, first, x)
    PROVE  IInv'
<1> DEFINE made == CreateProps(labels, first, x)
           props == made.props
           defs == made.defs
           es == collectVertexIndexEntriesFromLabelProps(defs, props, nextV)
           s == insertVertex(db, nextV, props)
           p == IF Free(db, es) THEN putEntries(s, es) ELSE db
           none == {}
<1>1. /\ nextV <= MaxVertex /\ first \in (IF labels = {} THEN {Anon} ELSE labels)
      /\ Run(t, p, nextV, none, defs) /\ nextV' = nextV + 1 /\ none \subseteq {nextV}
  BY DEF CreateNode
<1>2. /\ LabelProps(props) /\ decl \subseteq defs /\ defs \subseteq Labels
      /\ \A a \in props : a[2] # Null => a[1] \in defs
  BY <1>1, CreatePropsTyped
<1>3. nextV \in Vertices /\ NoRows(db, nextV) /\ Good(db, db, nextV) /\ Told(db, nextV) /\ IsStore(db)
  BY <1>1, NextVertex
<1> HIDE DEF none, made
<1>4. StatementOK(p, nextV, none, defs)
  <2>1. CASE Free(db, es)
    <3>1. p = putEntries(s, es)
      BY <2>1
    <3> HIDE DEF p, es, s, props, defs
    <3>2. QED
      BY <1>1, <1>2, <3>1, NewVertexStatement DEF es, s
  <2>2. CASE ~Free(db, es)
    <3>1. p = db
      BY <2>2
    <3> HIDE DEF p, props, defs
    <3>2. /\ nextV \notin lapped => GoneHasNoLabel(db, nextV)
          /\ nextV \notin lapped \cup unkept => Kept(db, defs, nextV)
      BY <1>2, <1>3, KeptMore DEF IInv, StoreInv
    <3>3. QED
      BY <1>1, <1>2, <1>3, <3>1, <3>2, PlainStatement
  <2>3. QED
    BY <2>1, <2>2
<1> HIDE DEF p, defs
<1>5. QED
  BY <1>1, <1>4, RunKeeps

LEMMA BatchInsertKeeps ==
    ASSUME IInv, NEW t \in Txns, NEW l \in UserLabels, NEW extra \in SUBSET UserLabels, NEW x \in Values,
           BatchInsertVertices(t, l, extra, x)
    PROVE  IInv'
<1> DEFINE props == {<<l, x>>} \cup {<<e, Null>> : e \in extra \ {l}}
           es == collectVertexIndexEntriesFromLabelProps(decl, props, nextV)
           s == insertVertex(db, nextV, props)
           u == putEntries(s, es)
           free == Free(db, es)
           p == IF free THEN u ELSE s
           blur == IF free THEN {} ELSE {nextV}
<1>1. nextV <= MaxVertex /\ l \in decl /\ Run(t, p, nextV, blur, decl) /\ nextV' = nextV + 1
  BY DEF BatchInsertVertices
<1>2. blur \subseteq {nextV} /\ (blur = {} => p = u) /\ (p = s \/ p = u)
  OBVIOUS
<1>3. UserLabels \subseteq Labels /\ decl \subseteq Labels /\ Null \notin Values
  BY Kinds DEF IInv, TypeOK
<1>4. \A a \in props : (a[1] = l /\ a = <<l, x>>) \/ (a[1] \in extra \ {l} /\ a = <<a[1], Null>>)
  OBVIOUS
<1>5. \A a \in props : a \in Labels \X (Values \cup {Null})
  BY <1>3
<1> HIDE DEF props
<1>6. LabelProps(props)
  BY <1>4, <1>5 DEF LabelProps
<1>7. \A a \in props : a[2] # Null => a[1] \in decl
  BY <1>1, <1>4
<1> HIDE DEF p, blur
<1>8. StatementOK(p, nextV, blur, decl)
  BY <1>1, <1>2, <1>3, <1>6, <1>7, NewVertexStatement
<1>9. QED
  BY <1>1, <1>8, RunKeeps

LEMMA MergeTyped ==
    ASSUME IInv, NEW labels \in SUBSET UserLabels, NEW x \in Values \cup {Null}, NEW y \in Values \cup {Null}
    PROVE  /\ LabelProps(MergeProps(labels, x)) /\ MergeAt(labels) \in Labels
           /\ decl \subseteq MergeDefs(labels, x, y) /\ MergeDefs(labels, x, y) \subseteq Labels
<1>1. decl \subseteq Labels /\ labels \subseteq Labels /\ Anon \in Labels /\ Anon \notin labels
  BY Kinds DEF IInv, TypeOK
<1>2. MergeAt(labels) \in Labels
  <2>1. CASE labels \cap decl # {}
    <3>1. Least(labels \cap decl) \in labels \cap decl
      BY <1>1, <2>1, LeastIn
    <3>2. QED
      BY <1>1, <2>1, <3>1 DEF MergeAt
  <2>2. CASE labels \cap decl = {} /\ labels # {}
    <3>1. Least(labels) \in labels
      BY <1>1, <2>2, LeastIn
    <3>2. QED
      BY <1>1, <2>2, <3>1 DEF MergeAt
  <2>3. CASE labels = {}
    BY <1>1, <2>3 DEF MergeAt
  <2>4. QED
    BY <2>1, <2>2, <2>3
<1>3. LabelProps(MergeProps(labels, x))
  <2>1. CASE labels \cap decl # {}
    <3>1. MergeProps(labels, x) = {<<l, x>> : l \in labels}
      BY <2>1 DEF MergeProps
    <3>2. QED
      BY <1>1, <3>1 DEF LabelProps
  <2>2. CASE labels \cap decl = {}
    <3> DEFINE P == MergeProps(labels, x)
    <3>1. \A a \in P : \/ a[1] \in labels /\ a = <<a[1], Null>>
                       \/ a = <<Anon, x>> /\ a[1] = Anon
      BY <2>2 DEF MergeProps
    <3> HIDE DEF P
    <3>2. \A a \in P : a \in Labels \X (Values \cup {Null})
      BY <1>1, <3>1
    <3>3. \A a, b \in P : a[1] = b[1] => a = b
      BY <1>1, <3>1
    <3>4. QED
      BY <3>2, <3>3 DEF LabelProps, P
  <2>3. QED
    BY <2>1, <2>2
<1>4. QED
  BY <1>1, <1>2, <1>3 DEF MergeDefs

LEMMA MergeCreateKeeps ==
    ASSUME IInv, NEW t \in Txns, NEW labels \in SUBSET UserLabels, NEW x \in Values \cup {Null},
           NEW y \in Values \cup {Null}, MergeCreate(t, labels, x, y)
    PROVE  IInv'
<1> DEFINE props == MergeProps(labels, x)
           defs == MergeDefs(labels, x, y)
           l == MergeAt(labels)
           s == insertVertex(db, nextV, props)
           p == MergeSet(s, nextV, labels, y)
           blur == {nextV}
<1>1. nextV <= MaxVertex /\ Run(t, p, nextV, blur, defs) /\ nextV' = nextV + 1
  BY DEF MergeCreate
<1>2. LabelProps(props) /\ l \in Labels /\ decl \subseteq defs /\ defs \subseteq Labels
  BY MergeTyped
<1>3. blur # {} /\ blur \subseteq {nextV} /\ nextV \in blur
  OBVIOUS
<1>4. nextV \in Vertices /\ NoRows(db, nextV) /\ IsStore(db) /\ LabelsAgree(db) /\ db.wrote = {}
  BY <1>1, NextVertex
<1>5. (y = Null => p = s) /\ (y # Null => p = putVertexProperty(s, nextV, l, y))
  BY DEF MergeSet
<1> HIDE DEF props, defs, l, p, blur
<1>6. StatementOK(p, nextV, blur, defs)
  <2>1. CASE y = Null
    <3>1. p = s
      BY <1>5, <2>1
    <3>2. QED
      BY <1>1, <1>2, <1>3, <3>1, NewVertexStatement
  <2>2. CASE y # Null
    <3>1. Good(db, s, nextV) /\ Has(s, "existence", nextV)
      BY <1>2, <1>4, InsertVertexOp
    <3> HIDE DEF s
    <3>2. Good(db, p, nextV) /\ Told(p, nextV) /\ p.existence = s.existence
      BY <1>2, <1>4, <1>5, <2>2, <3>1, PutPropertyOp
    <3>3. GoneHasNoLabel(p, nextV)
      BY <3>1, <3>2 DEF GoneHasNoLabel, Has
    <3>4. QED
      BY <1>2, <1>3, <1>4, <3>2, <3>3, PlainStatement
  <2>3. QED
    BY <2>1, <2>2
<1>7. QED
  BY <1>1, <1>6, RunKeeps

LEMMA MatchedHasRows ==
    ASSUME IInv, NEW labels, NEW x, NEW v \in findMatchingNode(labels, x)
    PROVE  ~NoRows(db, v)
<1>1. v \in scanAllVertices(db) \/ \E l : v \in scanVerticesByLabel(db, l)
  BY DEF findMatchingNode
<1>2. CASE v \in scanAllVertices(db)
  <2>1. PICK r \in db.existence : r.k = v
    BY <1>2 DEF scanAllVertices
  <2>2. "existence" \in Tables /\ OwnerOf("existence", r.k) = v
    BY <2>1 DEF Tables, OwnerOf
  <2>3. QED
    BY <2>1, <2>2 DEF NoRows
<1>3. CASE \E l : v \in scanVerticesByLabel(db, l)
  <2>1. PICK r \in db.fwd : r.k[2] = v
    BY <1>3 DEF scanVerticesByLabel
  <2>2. "fwd" \in Tables /\ OwnerOf("fwd", r.k) = v
    BY <2>1 DEF Tables, OwnerOf
  <2>3. QED
    BY <2>1, <2>2 DEF NoRows
<1>4. QED
  BY <1>1, <1>2, <1>3

LEMMA MergeMatchKeeps ==
    ASSUME IInv, NEW t \in Txns, NEW v \in Vertices, NEW labels \in SUBSET UserLabels, NEW x \in Values \cup {Null},
           NEW y \in Values \cup {Null}, MergeMatch(t, v, labels, x, y)
    PROVE  IInv'
<1> DEFINE defs == MergeDefs(labels, x, y)
           l == MergeAt(labels)
           p == MergeSet(db, v, labels, y)
           blur == IF y = Null THEN {} ELSE {v}
<1>1. Run(t, p, v, blur, defs) /\ nextV' = nextV /\ ~NoRows(db, v)
  BY MatchedHasRows DEF MergeMatch
<1>2. l \in Labels /\ decl \subseteq defs /\ defs \subseteq Labels
  BY MergeTyped
<1>3. blur \subseteq {v} /\ (y # Null => v \in blur)
  OBVIOUS
<1>4. Good(db, db, v) /\ Told(db, v) /\ IsStore(db)
  BY Snapshot
<1>5. (y = Null => p = db) /\ (y # Null => p = putVertexProperty(db, v, l, y))
  BY DEF MergeSet
<1>6. /\ v \notin lapped => GoneHasNoLabel(db, v)
      /\ v \notin lapped \cup unkept => Kept(db, defs, v)
  BY <1>2, <1>4, KeptMore DEF IInv, StoreInv
<1> HIDE DEF defs, l, p, blur
<1>7. StatementOK(p, v, blur, defs)
  <2>1. CASE y = Null
    <3>1. p = db
      BY <1>5, <2>1
    <3>2. QED
      BY <1>2, <1>3, <1>4, <1>6, <3>1, PlainStatement
  <2>2. CASE y # Null
    <3>1. Good(db, p, v) /\ Told(p, v) /\ p.existence = db.existence /\ p.label = db.label
      BY <1>2, <1>4, <1>5, <2>2, PutPropertyOp
    <3>2. v \notin lapped => GoneHasNoLabel(p, v)
      BY <1>6, <3>1 DEF GoneHasNoLabel, Has, getVertexLabels
    <3>3. QED
      BY <1>2, <1>3, <2>2, <3>1, <3>2, PlainStatement
  <2>3. QED
    BY <2>1, <2>2
<1>8. QED
  BY <1>1, <1>7, RunKeeps

-----------------------------------------------------------------------------
(* The invariant *)

\* A committed CREATE of a vertex that had no rows.
LEMMA CreatedOp ==
    ASSUME NEW s, IsStore(s), LabelsAgree(s), s.wrote = {}, NEW v \in Vertices, NoRows(s, v),
           NEW props, LabelProps(props), \A a \in props : a[2] # Null => a[1] \in decl,
           NEW c, c = Created(s, v, props)
    PROVE  /\ IsStore(c) /\ c.wrote = {} /\ LabelsAgree(c)
           /\ SummaryTells(c, v) /\ GoneHasNoLabel(c, v) /\ Kept(c, decl, v)
           /\ \A w : w # v => SameRows(s, c, w)
<1> DEFINE es == collectVertexIndexEntriesFromLabelProps(decl, props, v)
           n == insertVertex(s, v, props)
           p == putEntries(n, es)
<1>1. c = CommitInto(s, p)
  BY DEF Created
<1> HIDE DEF n, es
<1>2. /\ Good(s, p, v) /\ SummaryTells(p, v) /\ GoneHasNoLabel(p, v)
      /\ (\A a \in props : a[2] # Null => a[1] \in decl) => Kept(p, decl, v)
  BY NewVertexOp DEF n, es
<1>3. Kept(p, decl, v) /\ IsStore(p) /\ WritesOnly(p, v) /\ SameUnwritten(s, p, v) /\ LabelsAgree(p)
  BY <1>2 DEF Good, Frame
<1> HIDE DEF p
<1>4. /\ IsStore(c) /\ c.wrote = {} /\ LabelsAgree(c)
      /\ \A T \in Tables : \A r :
           r \in c[T] <=> (r \in s[T] /\ <<T, r.k>> \notin p.wrote) \/ (r \in p[T] /\ <<T, r.k>> \in p.wrote)
  BY <1>1, <1>3, CommitFacts
<1>5. SameRows(p, c, v)
  BY <1>3, <1>4 DEF SameUnwritten, SameRows, SameRowsIn
<1>6. SameRowsIn(p, c, v, {"label", "prop", "summary"})
  BY <1>5 DEF SameRows, SameRowsIn, Tables
<1>7. SummaryTells(c, v) /\ GoneHasNoLabel(c, v) /\ Kept(c, decl, v)
  BY <1>2, <1>3, <1>4, <1>5, <1>6, SameSummary, SameKept
<1>8. ASSUME NEW w, w # v PROVE SameRows(s, c, w)
  <2> SUFFICES ASSUME NEW T \in Tables, NEW r, OwnerOf(T, r.k) = w PROVE r \in s[T] <=> r \in c[T]
    BY DEF SameRows, SameRowsIn
  <2>1. r \in s[T] \/ r \in p[T] => r.k \in KeysOf[T]
    BY <1>3 DEF IsStore, RowsOf
  <2>2. r \in s[T] \/ r \in p[T] => <<T, r.k>> \notin p.wrote
    BY <1>3, <1>8, <2>1 DEF WritesOnly
  <2>3. QED
    BY <1>4, <2>2
<1>9. QED
  BY <1>4, <1>7, <1>8

LEMMA NoRowsKept ==
    ASSUME NEW s, NEW v \in Vertices, NoRows(s, v)
    PROVE  SummaryTells(s, v) /\ GoneHasNoLabel(s, v) /\ Kept(s, decl, v)
<1>1. /\ \A r \in s.label : r.k[1] # v
      /\ \A r \in s.prop : r.k[1] # v
      /\ \A r \in s.summary : r.k # v
      /\ \A r \in s.vidx : r.k[2] # v
  BY DEF NoRows, OwnerOf, Tables
<1>2. getVertexLabels(s, v) = {} /\ EntriesOf(s, v) = {} /\ ~Has(s, "summary", v)
  BY <1>1 DEF getVertexLabels, EntriesOf, Has
<1>3. collectVertexIndexEntries(s, decl, v) = {}
  BY <1>2, Kinds DEF collectVertexIndexEntries, Entries
<1>4. RowsKept(s, decl, v)
  BY <1>1 DEF RowsKept
<1>5. QED
  BY <1>2, <1>3, <1>4, KeptIs DEF SummaryTells, GoneHasNoLabel

\* The store with its first vertex, or with two alike.
LEMMA InitHolds == Init => IInv
<1> SUFFICES ASSUME Init PROVE IInv
  OBVIOUS
<1> DEFINE empty == [n \in Tables \cup {"wrote"} |-> {}]
<1>1. PICK labels \in SUBSET UserLabels, x \in Values \cup {Null} :
        \E first \in (IF labels = {} THEN {Anon} ELSE labels) :
          LET own == IF labels = {} THEN {Anon} ELSE labels
              props == {<<l, IF l = first THEN x ELSE Null>> : l \in own}
              one == Created(empty, 1, props)
          IN /\ decl = IF x = Null THEN {} ELSE {first}
             /\ \/ db = one /\ nextV = 2
                \/ MaxVertex > 1 /\ db = Created(one, 2, props) /\ nextV = 3
  BY DEF Init
<1> DEFINE own == IF labels = {} THEN {Anon} ELSE labels
<1>2. PICK first \in own :
          LET props == {<<l, IF l = first THEN x ELSE Null>> : l \in own}
              one == Created(empty, 1, props)
          IN /\ decl = IF x = Null THEN {} ELSE {first}
             /\ \/ db = one /\ nextV = 2
                \/ MaxVertex > 1 /\ db = Created(one, 2, props) /\ nextV = 3
  BY <1>1
<1> DEFINE props == {<<l, IF l = first THEN x ELSE Null>> : l \in own}
           one == Created(empty, 1, props)
           two == Created(one, 2, props)
<1>3. /\ decl = IF x = Null THEN {} ELSE {first}
      /\ (db = one /\ nextV = 2) \/ (MaxVertex > 1 /\ db = two /\ nextV = 3)
  BY <1>2
<1>4. own \subseteq Labels /\ first \in Labels /\ 1 \in Vertices /\ MaxVertex \in Nat \ {0}
  BY <1>2, Kinds, VertexStoreAssumption DEF Vertices
<1>5. LabelProps(props) /\ \A a \in props : a[2] # Null => a[1] \in decl
  <2>1. \A a \in props : a[1] \in own /\ a = <<a[1], IF a[1] = first THEN x ELSE Null>>
    OBVIOUS
  <2> HIDE DEF props
  <2>2. QED
    BY <1>3, <1>4, <2>1 DEF LabelProps
<1>6. /\ \A T \in Tables : empty[T] = {}
      /\ empty.wrote = {} /\ empty.label = {} /\ empty.fwd = {} /\ DOMAIN empty = Tables \cup {"wrote"}
  BY DEF Tables
<1> HIDE DEF own, props, empty
<1>7. IsStore(empty) /\ LabelsAgree(empty) /\ \A v \in Vertices : NoRows(empty, v)
  BY <1>6 DEF IsStore, LabelsAgree, Has, NoRows
<1>8. /\ IsStore(one) /\ one.wrote = {} /\ LabelsAgree(one)
      /\ SummaryTells(one, 1) /\ GoneHasNoLabel(one, 1) /\ Kept(one, decl, 1)
      /\ \A w : w # 1 => SameRows(empty, one, w)
  BY <1>4, <1>5, <1>6, <1>7, CreatedOp
<1> HIDE DEF one
<1>9. ASSUME NEW v \in Vertices, v # 1 PROVE NoRows(one, v)
  BY <1>7, <1>8, <1>9, SameKept
<1>10. /\ IsStore(db) /\ db.wrote = {} /\ LabelsAgree(db)
       /\ \A v \in Vertices :
            (v >= nextV => NoRows(db, v)) /\ SummaryTells(db, v) /\ GoneHasNoLabel(db, v) /\ Kept(db, decl, v)
       /\ nextV \in 1..(MaxVertex + 1)
  <2>1. CASE db = one /\ nextV = 2
    <3>1. ASSUME NEW v \in Vertices
          PROVE  /\ v >= nextV => NoRows(db, v)
                 /\ SummaryTells(db, v) /\ GoneHasNoLabel(db, v) /\ Kept(db, decl, v)
      <4>1. CASE v = 1
        BY <1>8, <2>1, <4>1
      <4>2. CASE v # 1
        BY <1>9, <2>1, <4>2, NoRowsKept
      <4>3. QED
        BY <4>1, <4>2
    <3>2. QED
      BY <1>4, <1>8, <2>1, <3>1
  <2>2. CASE MaxVertex > 1 /\ db = two /\ nextV = 3
    <3>1. 2 \in Vertices /\ NoRows(one, 2)
      BY <1>4, <1>9, <2>2 DEF Vertices
    <3>2. /\ IsStore(two) /\ two.wrote = {} /\ LabelsAgree(two)
          /\ SummaryTells(two, 2) /\ GoneHasNoLabel(two, 2) /\ Kept(two, decl, 2)
          /\ \A w : w # 2 => SameRows(one, two, w)
      BY <1>5, <1>8, <3>1, CreatedOp
    <3> HIDE DEF two
    <3>3. ASSUME NEW v \in Vertices
          PROVE  /\ v >= nextV => NoRows(db, v)
                 /\ SummaryTells(db, v) /\ GoneHasNoLabel(db, v) /\ Kept(db, decl, v)
      <4>1. CASE v = 1
        <5>1. SameRows(one, two, 1)
          BY <3>2
        <5>2. SameRowsIn(one, two, 1, {"label", "prop", "summary"})
          BY <5>1 DEF SameRows, SameRowsIn, Tables
        <5>3. QED
          BY <1>4, <1>8, <2>2, <3>2, <4>1, <5>1, <5>2, SameSummary, SameKept
      <4>2. CASE v = 2
        BY <2>2, <3>2, <4>2
      <4>3. CASE v # 1 /\ v # 2
        <5>1. NoRows(two, v)
          BY <1>8, <1>9, <3>2, <4>3, SameKept
        <5>2. QED
          BY <2>2, <5>1, NoRowsKept
      <4>4. QED
        BY <4>1, <4>2, <4>3
    <3>4. QED
      BY <1>4, <2>2, <3>2, <3>3
  <2>3. QED
    BY <1>3, <2>1, <2>2
<1>11. /\ uniq \in BOOLEAN /\ events = 0 /\ unkept = {} /\ lapped = {} /\ tx = [t \in Txns |-> NoTx]
  BY DEF Init
<1>12. StoreInv
  <2> SUFFICES ASSUME NEW v \in Vertices
               PROVE  /\ v >= nextV => NoRows(db, v)
                      /\ SummaryTells(db, v) /\ GoneHasNoLabel(db, v) /\ Kept(db, decl, v)
    BY <1>10 DEF StoreInv
  <2>1. (v >= nextV => NoRows(db, v)) /\ SummaryTells(db, v) /\ GoneHasNoLabel(db, v) /\ Kept(db, decl, v)
    BY <1>10
  <2>2. QED
    BY <2>1
<1>13. Open = {} /\ DOMAIN tx = Txns /\ \A t \in Txns : IsTx(tx[t])
  BY <1>11 DEF Open, NoTx, IsTx
<1>14. decl \subseteq Labels
  BY <1>3, <1>4
<1>15. TypeOK
  BY <1>10, <1>11, <1>13, <1>14 DEF TypeOK
<1>16. QED
  BY <1>12, <1>13, <1>15 DEF IInv

LEMMA NextKeeps == IInv /\ [Next]_vars => IInv'
<1> SUFFICES ASSUME IInv, [Next]_vars PROVE IInv'
  OBVIOUS
<1>1. CASE UNCHANGED vars
  <2>1. /\ uniq' = uniq /\ decl' = decl /\ db' = db /\ tx' = tx /\ nextV' = nextV /\ events' = events
        /\ unkept' = unkept /\ lapped' = lapped
    BY <1>1 DEF vars
  <2>2. TypeOK'
    BY <2>1 DEF IInv, TypeOK
  <2>3. StoreInv'
    BY <2>1 DEF IInv, StoreInv
  <2>4. Open' = Open
    BY <2>1 DEF Open
  <2>5. \A t \in Open : TxInv(t) => TxInv(t)'
    BY <2>1, <2>4 DEF TxInv, MadeIt, Alone
  <2>6. QED
    BY <2>2, <2>3, <2>4, <2>5 DEF IInv
<1>2. CASE Next
  <2>1. PICK t \in Txns :
        \/ Commit(t) \/ Rollback(t)
        \/ \E labels \in SUBSET UserLabels, x \in Values \cup {Null} :
             \/ \E first \in Labels : CreateNode(t, labels, first, x)
             \/ \E y \in Values \cup {Null} :
                  \/ MergeCreate(t, labels, x, y)
                  \/ \E v \in Vertices : MergeMatch(t, v, labels, x, y)
        \/ \E l \in UserLabels, extra \in SUBSET UserLabels, x \in Values : BatchInsertVertices(t, l, extra, x)
        \/ \E v \in Vertices, l \in UserLabels : SetLabels(t, v, l) \/ RemoveLabel(t, v, l)
        \/ \E v \in Vertices : SetNull(t, v) \/ SetAddNull(t, v) \/ DeleteVertexStmt(t, v)
        \/ \E v \in Vertices, named \in {{}} \cup {{l} : l \in UserLabels} : RemoveProperty(t, v, named)
        \/ \E v \in Vertices, x \in Values : SetProperty(t, v, x)
        \/ \E v \in Vertices, x \in Values \cup {Null} : SetReplace(t, v, x)
        \/ \E v \in Vertices, l \in UserLabels, x \in Values \cup {Null} : SetStrong(t, v, l, x)
    BY <1>2 DEF Next
  <2>2. CASE Commit(t) \/ Rollback(t)
    BY <2>2, CommitKeeps, RollbackKeeps
  <2>3. CASE \E labels \in SUBSET UserLabels, x \in Values \cup {Null} : \E first \in Labels : CreateNode(t, labels, first, x)
    BY <2>3, CreateNodeKeeps
  <2>4. CASE \E labels \in SUBSET UserLabels, x \in Values \cup {Null}, y \in Values \cup {Null} : MergeCreate(t, labels, x, y)
    BY <2>4, MergeCreateKeeps
  <2>5. CASE \E labels \in SUBSET UserLabels, x \in Values \cup {Null}, y \in Values \cup {Null} :
               \E v \in Vertices : MergeMatch(t, v, labels, x, y)
    BY <2>5, MergeMatchKeeps
  <2>6. CASE \E l \in UserLabels, extra \in SUBSET UserLabels, x \in Values : BatchInsertVertices(t, l, extra, x)
    BY <2>6, BatchInsertKeeps
  <2>7. CASE \E v \in Vertices, l \in UserLabels : SetLabels(t, v, l) \/ RemoveLabel(t, v, l)
    BY <2>7, SetLabelsKeeps, RemoveLabelKeeps
  <2>8. CASE \E v \in Vertices : SetNull(t, v) \/ SetAddNull(t, v) \/ DeleteVertexStmt(t, v)
    BY <2>8, SetNullKeeps, SetAddNullKeeps, DeleteVertexKeeps
  <2>9. CASE \E v \in Vertices, named \in {{}} \cup {{l} : l \in UserLabels} : RemoveProperty(t, v, named)
    BY <2>9, RemovePropertyKeeps
  <2>10. CASE \E v \in Vertices, x \in Values : SetProperty(t, v, x)
    BY <2>10, SetPropertyKeeps
  <2>11. CASE \E v \in Vertices, x \in Values \cup {Null} : SetReplace(t, v, x)
    BY <2>11, SetReplaceKeeps
  <2>12. CASE \E v \in Vertices, l \in UserLabels, x \in Values \cup {Null} : SetStrong(t, v, l, x)
    BY <2>12, SetStrongKeeps
  <2>13. QED
    BY <2>1, <2>2, <2>3, <2>4, <2>5, <2>6, <2>7, <2>8, <2>9, <2>10, <2>11, <2>12
<1>3. QED
  BY <1>1, <1>2

\* Every reachable state satisfies IInv: the statements that write vertices
\* through SyncGraphDataStore, their commits and rollbacks keep it.
THEOREM Invariance == Spec => []IInv
<1>1. QED
  BY InitHolds, NextKeeps, PTL DEF Spec

\* Rows have the kinds the key codecs encode, one row for each key, and a
\* transaction writes rows of one vertex id that was handed out.
THEOREM TypeCorrect == Spec => []TypeOK
<1>1. IInv => TypeOK
  BY DEF IInv
<1>2. QED
  BY <1>1, Invariance, PTL

\* The label rows in vertex_data and the label_fwd tables tell the same labels,
\* and a vertex that deleteVertex removed has none unless a SET overlapped it.
THEOREM LabelScans == Spec => []LabelScanAgrees
<1>1. IInv => LabelScanAgrees
  <2> SUFFICES ASSUME IInv, NEW v \in Vertices, NEW l \in Labels
               PROVE  /\ l \in getVertexLabels(db, v) <=> v \in scanVerticesByLabel(db, l)
                      /\ ~Live(v) /\ v \notin lapped => l \notin getVertexLabels(db, v)
    BY DEF LabelScanAgrees
  <2>1. IsStore(db) /\ LabelsAgree(db) /\ (v \notin lapped => GoneHasNoLabel(db, v))
    BY DEF IInv, TypeOK, StoreInv
  <2>2. l \in getVertexLabels(db, v) <=> v \in scanVerticesByLabel(db, l)
    BY <2>1, LabelIsRow DEF LabelsAgree
  <2>3. QED
    BY <2>1, <2>2 DEF GoneHasNoLabel, Live
<1>2. QED
  BY <1>1, Invariance, PTL

\* A row of vertex_summary is what the label and property rows of vertex_data
\* say: every write path that could make it stale deletes it.
THEOREM Summaries == Spec => []SummaryAgrees
<1>1. IInv => SummaryAgrees
  BY DEF IInv, StoreInv, SummaryTells, SummaryAgrees
<1>2. QED
  BY <1>1, Invariance, PTL

\* For a vertex whose entries every statement maintained, alone on it, the
\* index holds exactly the entry that n.p calls for.
THEOREM IndexTells == Spec => []IndexKept
<1>1. IInv => IndexKept
  <2> SUFFICES ASSUME IInv, NEW v \in Vertices \ (unkept \cup lapped)
               PROVE  EntriesOf(db, v) = IF 1 \in getVertexLabels(db, v) /\ Single(Visible(db, decl, v))
                                         THEN {<<x, v>> : x \in Visible(db, decl, v)} ELSE {}
    BY DEF IndexKept, EntriesOf
  <2> DEFINE labels == getVertexLabels(db, v)
             values == {getVertexProperty(db, v, l) : l \in (labels \cup {Anon}) \cap decl}
  <2>1. Kept(db, decl, v)
    BY DEF IInv, StoreInv
  <2>2. Anon \notin labels => getVertexProperty(db, v, Anon) = Null
    BY <2>1 DEF Kept, getVertexProperty
  <2>3. values \ {Null} = Visible(db, decl, v)
    <3>1. ASSUME NEW l \in (labels \cup {Anon}) \cap decl, getVertexProperty(db, v, l) # Null PROVE l \in labels
      BY <2>2, <3>1
    <3>2. QED
      BY <3>1 DEF Visible
  <2>4. 1 \in labels \cup {Anon} <=> 1 \in labels
    BY Kinds
  <2>5. EntriesOf(db, v) = Entries(labels \cup {Anon}, values, v)
    BY <2>1 DEF Kept, collectVertexIndexEntries
  <2>6. QED
    BY <2>3, <2>4, <2>5 DEF Entries
<1>2. QED
  BY <1>1, Invariance, PTL

\* REMOVE n:L leaves what n.p reads when the labels agreed on it: the value
\* that RemovePhysicalOp moves to __anon__ is the one the others have.
THEOREM LabelRemoval == Spec => []LabelRemovalKeepsValue
<1>1. IInv => LabelRemovalKeepsValue
  <2> SUFFICES ASSUME IInv, NEW v \in Vertices, NEW l \in getVertexLabels(db, v) \ {Anon},
                      Single(Visible(db, decl, v))
               PROVE  Visible(WithoutLabel(v, l).s, WithoutLabel(v, l).defs, v) = Visible(db, decl, v)
    BY DEF LabelRemovalKeepsValue
  <2> DEFINE labels == getVertexLabels(db, v)
             w == WithoutLabel(v, l)
             p == w.s
             x == getVertexProperty(db, v, l)
  <2>1. l \in UserLabels /\ l # Anon /\ IsStore(db)
    BY LabelIsRow DEF IInv, TypeOK, Labels
  <2>2. /\ Good(db, p, v)
        /\ \A m : m \in getVertexLabels(p, v) <=>
             m \in labels \ {l} \/ (m = Anon /\ (Moved(v, l) \/ labels \subseteq {l}))
        /\ ~Moved(v, l) => w.defs = decl /\ \A r : r \in p.prop <=> r \in db.prop /\ r.k # <<v, l>>
        /\ Moved(v, l) =>
             /\ w.defs = decl \cup {Anon}
             /\ \A r : r \in p.prop <=>
                  \/ r \in db.prop /\ r.k # <<v, l>> /\ r.k # <<v, Anon>>
                  \/ r = [k |-> <<v, Anon>>, x |-> x]
    BY <2>1, WithoutLabelOp
  <2>3. IsStore(p)
    BY <2>2 DEF Good, Frame
  <2> HIDE DEF w
  <2>4. ASSUME NEW m, m # l, Moved(v, l) => m # Anon
        PROVE  getVertexProperty(p, v, m) = getVertexProperty(db, v, m)
    <3>1. <<v, m>> # <<v, l>> /\ (Moved(v, l) => <<v, m>> # <<v, Anon>>)
      BY <2>4
    <3>2. \A y : [k |-> <<v, m>>, x |-> y] \in p.prop <=> [k |-> <<v, m>>, x |-> y] \in db.prop
      <4>1. TAKE y
      <4>2. [k |-> <<v, m>>, x |-> y].k = <<v, m>>
        OBVIOUS
      <4>3. CASE Moved(v, l)
        <5>1. [k |-> <<v, m>>, x |-> y] # [k |-> <<v, Anon>>, x |-> x]
          BY <3>1, <4>3, <4>2
        <5>2. QED
          BY <2>2, <3>1, <4>2, <4>3, <5>1
      <4>4. CASE ~Moved(v, l)
        BY <2>2, <3>1, <4>2, <4>4
      <4>5. QED
        BY <4>3, <4>4
    <3> DEFINE b == getVertexProperty(p, v, m)
               a == getVertexProperty(db, v, m)
    <3>3. /\ b # Null => [k |-> <<v, m>>, x |-> b] \in p.prop
          /\ \A y : [k |-> <<v, m>>, x |-> y] \in p.prop => b = y
      BY <2>3, PropertyIsRow
    <3>4. /\ a # Null => [k |-> <<v, m>>, x |-> a] \in db.prop
          /\ \A y : [k |-> <<v, m>>, x |-> y] \in db.prop => a = y
      BY <2>1, PropertyIsRow
    <3> HIDE DEF a, b
    <3>5. a = b
      BY <3>2, <3>3, <3>4
    <3>6. QED
      BY <3>5 DEF a, b
  <2> HIDE DEF p
  <2>5. CASE ~Moved(v, l)
    <3>1. l \notin decl \/ x = Null
      BY <2>5 DEF Moved
    <3>2. \E m \in labels : m # l
      <4>1. PICK y \in Visible(db, decl, v) : TRUE
        BY DEF Single
      <4>2. PICK m \in labels \cap decl : getVertexProperty(db, v, m) = y /\ y # Null
        BY <4>1 DEF Visible
      <4>3. QED
        BY <3>1, <4>2
    <3>3. \A m : m \in getVertexLabels(p, v) <=> m \in labels /\ m # l
      BY <2>2, <2>5, <3>2
    <3>4. w.defs = decl
      BY <2>2, <2>5
    <3>5. ASSUME NEW y \in Visible(db, decl, v) PROVE y \in Visible(p, decl, v)
      <4>1. PICK m \in labels \cap decl : getVertexProperty(db, v, m) = y /\ y # Null
        BY <3>5 DEF Visible
      <4>2. m # l
        BY <3>1, <4>1
      <4>3. m \in getVertexLabels(p, v) \cap decl /\ getVertexProperty(p, v, m) = y
        BY <2>4, <2>5, <3>3, <4>1, <4>2
      <4>4. QED
        BY <4>1, <4>3 DEF Visible
    <3>6. ASSUME NEW y \in Visible(p, decl, v) PROVE y \in Visible(db, decl, v)
      <4>1. PICK m \in getVertexLabels(p, v) \cap decl : getVertexProperty(p, v, m) = y /\ y # Null
        BY <3>6 DEF Visible
      <4>2. m \in labels \cap decl /\ getVertexProperty(db, v, m) = y
        BY <2>4, <2>5, <3>3, <4>1
      <4>3. QED
        BY <4>1, <4>2 DEF Visible
    <3>7. QED
      BY <3>4, <3>5, <3>6 DEF p, w
  <2>6. CASE Moved(v, l)
    <3>1. l \in labels \cap decl /\ x # Null
      BY <2>6 DEF Moved
    <3>2. x \in Visible(db, decl, v)
      BY <3>1 DEF Visible
    <3>3. Visible(db, decl, v) = {x}
      BY <3>2 DEF Single
    <3>4. getVertexProperty(p, v, Anon) = x
      <4>1. [k |-> <<v, Anon>>, x |-> x] \in p.prop
        BY <2>2, <2>6
      <4>2. QED
        BY <2>3, <4>1, PropertyIsRow
    <3>5. Anon \in getVertexLabels(p, v) \cap w.defs
      BY <2>2, <2>6
    <3>6. x \in Visible(p, w.defs, v)
      BY <3>1, <3>4, <3>5 DEF Visible
    <3>7. ASSUME NEW y \in Visible(p, w.defs, v) PROVE y = x
      <4>1. PICK m \in getVertexLabels(p, v) \cap w.defs : getVertexProperty(p, v, m) = y /\ y # Null
        BY <3>7 DEF Visible
      <4>2. CASE m = Anon
        BY <3>4, <4>1, <4>2
      <4>3. CASE m # Anon
        <5>1. m \in labels \cap decl /\ m # l
          BY <2>2, <2>6, <4>1, <4>3
        <5>2. getVertexProperty(db, v, m) = y
          BY <2>4, <4>1, <4>3, <5>1
        <5>3. y \in Visible(db, decl, v)
          BY <4>1, <5>1, <5>2 DEF Visible
        <5>4. QED
          BY <3>3, <5>3
      <4>4. QED
        BY <4>2, <4>3
    <3>8. QED
      BY <3>3, <3>6, <3>7 DEF p, w
  <2>7. QED
    BY <2>5, <2>6
<1>2. QED
  BY <1>1, Invariance, PTL
=============================================================================
