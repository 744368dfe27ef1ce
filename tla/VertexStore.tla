---------------------------- MODULE VertexStore -----------------------------
(***************************************************************************)
(* Vertices in the data store: existence, label rows and their forward     *)
(* index, one property that several labels may declare, the cached summary *)
(* and one vertex index, under the statements that write them (CREATE,     *)
(* SET, REMOVE, DELETE, MERGE and the batch import) in overlapping          *)
(* transactions.                                                           *)
(*                                                                         *)
(* Label 0 is the internal __anon__; the index is on label 1 with a weak   *)
(* accessor on the property.  Value 0 is null.  A statement's copy of the  *)
(* definitions is taken when it runs; what a stale copy does to an index   *)
(* is IndexDdl's subject.  A statement that throws is rolled back, so its  *)
(* own repairs before the throw are not part of the model.                 *)
(***************************************************************************)
EXTENDS KvTables, Naturals

CONSTANTS
    UserLabels,  \* labels 1.. of the vertices
    Values,      \* non-null values of the property
    MaxVertex,   \* vertex ids, as nextVertexId hands them out
    Txns,        \* transactions that may be open together
    MaxEvents    \* statements of a behaviour

ASSUME VertexStoreAssumption ==
    /\ UserLabels \subseteq Nat \ {0} /\ 1 \in UserLabels
    /\ Values \subseteq Nat \ {0} /\ MaxVertex \in Nat \ {0} /\ MaxEvents \in Nat

VARIABLES
    uniq,      \* whether the index is unique
    decl,      \* labels whose definition has the property; not transactional
    db,        \* the committed store
    tx,        \* open transactions
    nextV,     \* next vertex id
    events,    \* statements so far
    unkept,    \* vertices whose index entries some statement did not maintain
    lapped     \* vertices written by two transactions at once

vars == <<uniq, decl, db, tx, nextV, events, unkept, lapped>>

Null == 0
Anon == 0
Labels == UserLabels \cup {Anon}
Vertices == 1..MaxVertex
Single(S) == \E x \in S : S = {x}
The(S) == CHOOSE x \in S : TRUE
Least(S) == CHOOSE x \in S : \A y \in S : x <= y
Tables == {"existence", "label", "fwd", "prop", "summary", "vidx"}

-----------------------------------------------------------------------------
(* SyncGraphDataStore *)

getVertexLabels(s, v) == {r.k[2] : r \in {q \in s.label : q.k[1] = v}}

getVertexProperty(s, v, l) == IF Has(s, "prop", <<v, l>>) THEN table_get(s, "prop", <<v, l>>) ELSE Null

\* A vertex as its canonical rows tell it: labels, and values by label.
Canonical(s, v) == {<<l, getVertexProperty(s, v, l)>> : l \in getVertexLabels(s, v)}

\* The labels a row of MATCH carries: from the summary when there is one.
getVertexLabelsBatch(s, v) ==
    IF Has(s, "summary", v) THEN {p[1] : p \in table_get(s, "summary", v)} ELSE getVertexLabels(s, v)

\* A label is a row under the vertex and one under the label.
LabelRows(v, labels) == {[k |-> <<v, l>>, x |-> 0] : l \in labels}
ForwardRows(v, labels) == {[k |-> <<l, v>>, x |-> 0] : l \in labels}
putLabels(s, v, labels) ==
    table_put_all(table_put_all(s, "label", LabelRows(v, labels)), "fwd", ForwardRows(v, labels))

PropertyRows(v, props) == {[k |-> <<v, p[1]>>, x |-> p[2]] : p \in {q \in props : q[2] # Null}}

insertVertex(s, v, props) ==
    LET here == table_put(s, "existence", v, 0)
        rows == table_put_all(putLabels(here, v, {p[1] : p \in props}), "prop", PropertyRows(v, props))
    IN IF Has(s, "summary", v) THEN table_del(rows, "summary", v) ELSE table_put(rows, "summary", v, props)

deleteVertex(s, v) ==
    LET fwd == table_del_all(s, "fwd", {<<l, v>> : l \in getVertexLabels(s, v)})
        labels == table_del_all(fwd, "label", Scanned(s, "label", 1, v))
        rows == table_del_all(labels, "prop", Scanned(s, "prop", 1, v))
    IN table_del(table_del(rows, "existence", v), "summary", v)

\* Bug: the summary is kept.
MutPutVertexProperty(s, v, l, x) == table_put(s, "prop", <<v, l>>, x)

putVertexProperty(s, v, l, x) == table_del(table_put(s, "prop", <<v, l>>, x), "summary", v)

\* One call of deleteVertexProperty for each label of a list.
deleteVertexProperties(s, v, labels) ==
    IF labels = {} THEN s
    ELSE table_del(table_del_all(s, "prop", {<<v, l>> : l \in labels}), "summary", v)

deleteVertexProperty(s, v, l) == deleteVertexProperties(s, v, {l})

addVertexLabel(s, v, l) == table_del(putLabels(s, v, {l}), "summary", v)

\* Bug: the row in the label's table stays.
MutRemoveVertexLabel(s, v, l) ==
    table_del(table_del(table_del(s, "label", <<v, l>>), "prop", <<v, l>>), "summary", v)

removeVertexLabel(s, v, l) ==
    LET rows == table_del(table_del(s, "label", <<v, l>>), "fwd", <<l, v>>)
    IN table_del(table_del(rows, "prop", <<v, l>>), "summary", v)

scanVerticesByLabel(s, l) == {r.k[2] : r \in {q \in s.fwd : q.k[1] = l}}

scanAllVertices(s) == {r.k : r \in s.existence}

\* No entry with this value, of whatever vertex.
checkUniqueConstraint(s, x) == ~uniq \/ \A r \in s.vidx : r.k[1] # x

-----------------------------------------------------------------------------
(* Index maintenance *)

\* The weak accessor: the value the labels agree on.
Entries(labels, values, v) ==
    IF 1 \in labels /\ Single(values \ {Null}) THEN {<<x, v>> : x \in values \ {Null}} ELSE {}

\* From the stored rows; __anon__ counts whether or not it is a label of v.
collectVertexIndexEntries(s, defs, v) ==
    LET labels == getVertexLabels(s, v) \cup {Anon}
    IN Entries(labels, {getVertexProperty(s, v, l) : l \in labels \cap defs}, v)

collectVertexIndexEntriesFromLabelProps(defs, props, v) ==
    Entries({p[1] : p \in props}, {p[2] : p \in {q \in props : q[1] \in defs}}, v)

deleteEntries(s, es) == table_del_all(s, "vidx", es)
Free(s, es) == \A e \in es : checkUniqueConstraint(s, e[1])
putEntries(s, es) == table_put_all(s, "vidx", {[k |-> e, x |-> 0] : e \in es})

\* Entries before and after a change of v; the new ones only while unique.
Reindex(old, new, olddefs, newdefs, v) ==
    LET without == deleteEntries(new, collectVertexIndexEntries(old, olddefs, v))
        es == collectVertexIndexEntries(new, newdefs, v)
    IN [ok |-> Free(without, es), s |-> IF Free(without, es) THEN putEntries(without, es) ELSE without]

-----------------------------------------------------------------------------
(* Transactions *)

NoTx == [on |-> FALSE]
Open == {t \in Txns : tx[t].on}

\* A statement in a transaction of its own.  blur: vertices whose entries it
\* does not maintain.  The definitions it extends stay extended.
Run(t, view, v, blur, defs) ==
    /\ ~tx[t].on /\ events < MaxEvents
    /\ \A o \in Open : ~WriteConflict(view, tx[o].view)
    /\ tx' = [tx EXCEPT ![t] = [on |-> TRUE, view |-> view, v |-> v, blur |-> blur]]
    /\ events' = events + 1
    /\ decl' = defs
    /\ lapped' = lapped \cup ({v} \cap {tx[o].v : o \in Open})
    /\ UNCHANGED <<uniq, db, unkept>>

Row(v) == getVertexLabelsBatch(db, v)
Live(v) == Has(db, "existence", v)

-----------------------------------------------------------------------------
(* CREATE and the batch import *)

\* Where CREATE puts the value: every label of the pattern that declares the
\* property; else it is registered on the first label, or on __anon__ when
\* there is none.
CreateProps(labels, first, x) ==
    LET own == IF labels = {} THEN {Anon} ELSE labels
        at == IF x = Null THEN {} ELSE IF own \cap decl # {} THEN own \cap decl ELSE {first}
    IN [defs |-> decl \cup at, props |-> {<<l, IF l \in at THEN x ELSE Null>> : l \in own}]

\* A value in use: the row is dropped, the statement succeeds.
CreateNode(t, labels, first, x) ==
    LET made == CreateProps(labels, first, x)
        es == collectVertexIndexEntriesFromLabelProps(made.defs, made.props, nextV)
    IN /\ nextV <= MaxVertex
       /\ first \in (IF labels = {} THEN {Anon} ELSE labels)
       /\ Run(t, IF Free(db, es) THEN putEntries(insertVertex(db, nextV, made.props), es) ELSE db,
              nextV, {}, made.defs)
       /\ nextV' = nextV + 1

\* One record of a batch for label l, with extra labels that get no values.
\* Its key is looked up first when the index is l's; a conflict found later
\* leaves the vertex without its entry.
BatchInsertVertices(t, l, extra, x) ==
    LET props == {<<l, x>>} \cup {<<e, Null>> : e \in extra \ {l}}
        es == collectVertexIndexEntriesFromLabelProps(decl, props, nextV)
        free == Free(db, es)
    IN /\ nextV <= MaxVertex /\ l \in decl
       /\ ~(l = 1 /\ uniq /\ ~free)
       /\ Run(t, IF free THEN putEntries(insertVertex(db, nextV, props), es) ELSE insertVertex(db, nextV, props),
              nextV, IF free THEN {} ELSE {nextV}, decl)
       /\ nextV' = nextV + 1

-----------------------------------------------------------------------------
(* SET *)

\* SET n:L.  The entries the vertex had are checked like new ones, its own
\* included, and one that no longer holds is not deleted.
SetLabels(t, v, l) ==
    LET new == addVertexLabel(db, v, l)
        es == collectVertexIndexEntries(new, decl, v)
        stays == collectVertexIndexEntries(db, decl, v) \ es
    IN /\ Live(v) /\ l \notin Row(v)
       /\ Free(new, es)
       /\ Run(t, putEntries(new, es), v, IF stays = {} THEN {} ELSE {v}, decl)
       /\ UNCHANGED nextV

\* Where SET n.p = x writes without naming a label: the one label that
\* declares p; the first user label, or __anon__, when none does; nowhere when
\* several do.
WriteAt(row) ==
    LET matches == row \cap decl
        user == row \ {Anon}
    IN IF Single(matches) THEN matches
       ELSE IF matches # {} THEN {}
       ELSE IF user # {} THEN {Least(user)} ELSE {Anon}

PutConvenience(s, v, row, x) ==
    LET at == WriteAt(row)
        labelled == IF at = {Anon} /\ Anon \notin row THEN addVertexLabel(s, v, Anon) ELSE s
    IN [s |-> IF at = {} THEN s ELSE putVertexProperty(labelled, v, The(at), x), defs |-> decl \cup at]

\* SET n.p = x, SET n += {p: x}.  A refused entry ends the statement only when
\* it has written: an ambiguous SET n.p has deleted the entry it had, does not
\* get it back while another vertex has the value, and goes on.
SetProperty(t, v, x) ==
    LET w == PutConvenience(db, v, Row(v), x)
        r == Reindex(db, w.s, decl, w.defs, v)
    IN /\ Live(v) /\ (r.ok \/ WriteAt(Row(v)) = {})
       /\ Run(t, r.s, v, IF r.ok THEN {} ELSE {v}, w.defs)
       /\ UNCHANGED nextV

\* SET n::L.p = x and SET n::L.p = null, whether or not L is a label of n.
SetStrong(t, v, l, x) ==
    LET s == IF x = Null THEN deleteVertexProperty(db, v, l) ELSE putVertexProperty(db, v, l, x)
        r == Reindex(db, s, decl, decl, v)
    IN /\ Live(v) /\ l \in decl /\ r.ok
       /\ Run(t, r.s, v, {}, decl)
       /\ UNCHANGED nextV

\* SET n.p = null: only where a single label declares p; otherwise nothing is
\* removed and a refused entry is lost, as in SetProperty.
SetNull(t, v) ==
    LET matches == Row(v) \cap decl
        s == IF Single(matches) THEN deleteVertexProperty(db, v, The(matches)) ELSE db
        r == Reindex(db, s, decl, decl, v)
    IN /\ Live(v) /\ (r.ok \/ ~Single(matches))
       /\ Run(t, r.s, v, IF r.ok THEN {} ELSE {v}, decl)
       /\ UNCHANGED nextV

\* SET n = {p: x}, or SET n = {} when x is null: all values go first.
SetReplace(t, v, x) ==
    LET set == {l \in getVertexLabels(db, v) \cup {Anon} : getVertexProperty(db, v, l) # Null}
        bare == deleteVertexProperties(db, v, set)
        w == IF x = Null THEN [s |-> bare, defs |-> decl] ELSE PutConvenience(bare, v, Row(v), x)
        r == Reindex(db, w.s, decl, w.defs, v)
    IN /\ Live(v) /\ r.ok
       /\ Run(t, r.s, v, {}, w.defs)
       /\ UNCHANGED nextV

\* SET n += {p: null}: __anon__ is looked at once more, so that a vertex with
\* that label and the property there has two matches and keeps the value.
SetAddNull(t, v) ==
    LET matches == Row(v) \cap decl
        s == IF Anon \in decl
             THEN IF matches = {} THEN deleteVertexProperty(db, v, Anon) ELSE db
             ELSE IF Single(matches) THEN deleteVertexProperty(db, v, The(matches)) ELSE db
        r == Reindex(db, s, decl, decl, v)
    IN /\ Live(v) /\ r.ok
       /\ Run(t, r.s, v, {}, decl)
       /\ UNCHANGED nextV

-----------------------------------------------------------------------------
(* REMOVE and DELETE *)

\* Bug: the value moves only with the last label.
MutMoved(v, l) == l \in decl /\ getVertexProperty(db, v, l) # Null /\ Row(v) \subseteq {l}

\* The label's value moves to __anon__ before the label's rows go.
Moved(v, l) == l \in decl /\ getVertexProperty(db, v, l) # Null

\* The new entries are computed with the definitions as they were, without
\* what the move has registered on __anon__; one that is not unique is left out.
WithoutLabel(v, l) ==
    LET moved == IF Moved(v, l) THEN putVertexProperty(db, v, Anon, getVertexProperty(db, v, l)) ELSE db
        r == Reindex(db, removeVertexLabel(moved, v, l), decl, decl, v)
        rest == Row(v) \ {l}
    IN [ok |-> r.ok, defs |-> IF Moved(v, l) THEN decl \cup {Anon} ELSE decl,
        s |-> IF (rest = {} \/ Moved(v, l)) /\ Anon \notin rest THEN addVertexLabel(r.s, v, Anon) ELSE r.s]

RemoveLabel(t, v, l) ==
    LET w == WithoutLabel(v, l)
    IN /\ Live(v)
       /\ Run(t, w.s, v, IF w.ok /\ w.defs = decl THEN {} ELSE {v}, w.defs)
       /\ UNCHANGED nextV

\* REMOVE n.p: from every label of the vertex that declares it; REMOVE n::L.p:
\* from L.
RemoveProperty(t, v, named) ==
    LET at == IF named # {} THEN named ELSE IF Row(v) \cap decl # {} THEN Row(v) \cap decl ELSE decl \cap {Anon}
        r == Reindex(db, deleteVertexProperties(db, v, at), decl, decl, v)
    IN /\ Live(v) /\ named \subseteq decl
       /\ Run(t, r.s, v, IF r.ok THEN {} ELSE {v}, decl)
       /\ UNCHANGED nextV

\* Bug: the index entries are forgotten.
MutDeleteVertexStmt(t, v) ==
    /\ Live(v)
    /\ Run(t, deleteVertex(db, v), v, {}, decl)
    /\ UNCHANGED nextV

DeleteVertexStmt(t, v) ==
    /\ Live(v)
    /\ Run(t, deleteVertex(deleteEntries(db, collectVertexIndexEntries(db, decl, v)), v), v, {}, decl)
    /\ UNCHANGED nextV

-----------------------------------------------------------------------------
(* MERGE (n:Labels {p: x}) ON CREATE SET n.p = y ON MATCH SET n.p = y *)

\* A value goes under every label of the pattern when one declares p, and
\* under __anon__ otherwise.
findMatchingNode(labels, x) ==
    LET all == IF labels = {} THEN scanVerticesByLabel(db, Anon)
               ELSE {v \in Vertices : \A l \in labels : v \in scanVerticesByLabel(db, l)}
        at == IF labels \cap decl # {} THEN labels ELSE {Anon}
    IN IF labels = {} /\ x = Null THEN scanAllVertices(db)
       ELSE IF x = Null THEN all
       ELSE {v \in all : \E l \in at : getVertexProperty(db, v, l) = x}

MergeProps(labels, x) ==
    IF labels \cap decl # {} THEN {<<l, x>> : l \in labels}
    ELSE {<<l, Null>> : l \in labels} \cup (IF labels = {} \/ x # Null THEN {<<Anon, x>>} ELSE {})

\* ON CREATE SET and ON MATCH SET: null is ignored, no entry is touched.
MergeAt(labels) ==
    IF labels \cap decl # {} THEN Least(labels \cap decl) ELSE IF labels # {} THEN Least(labels) ELSE Anon
MergeSet(s, v, labels, y) == IF y = Null THEN s ELSE putVertexProperty(s, v, MergeAt(labels), y)
MergeDefs(labels, x, y) ==
    decl \cup (IF y = Null THEN {} ELSE {MergeAt(labels), Anon})
         \cup (IF x # Null /\ labels \cap decl = {} THEN {Anon} ELSE {})

MergeCreate(t, labels, x, y) ==
    /\ nextV <= MaxVertex /\ findMatchingNode(labels, x) = {}
    /\ Run(t, MergeSet(insertVertex(db, nextV, MergeProps(labels, x)), nextV, labels, y), nextV, {nextV},
           MergeDefs(labels, x, y))
    /\ nextV' = nextV + 1

MergeMatch(t, v, labels, x, y) ==
    /\ v \in findMatchingNode(labels, x)
    /\ Run(t, MergeSet(db, v, labels, y), v, IF y = Null THEN {} ELSE {v}, MergeDefs(labels, x, y))
    /\ UNCHANGED nextV

-----------------------------------------------------------------------------

\* A vertex as a committed CREATE left it.
Created(s, v, props) ==
    CommitInto(s, putEntries(insertVertex(s, v, props), collectVertexIndexEntriesFromLabelProps(decl, props, v)))

\* One vertex, or two alike that overlapping CREATEs left: neither saw the
\* other's entry, so a unique index has both.
Init ==
    /\ uniq \in BOOLEAN
    /\ \E labels \in SUBSET UserLabels, x \in Values \cup {Null} :
         \E first \in (IF labels = {} THEN {Anon} ELSE labels) :
           LET own == IF labels = {} THEN {Anon} ELSE labels
               props == {<<l, IF l = first THEN x ELSE Null>> : l \in own}
               one == Created([n \in Tables \cup {"wrote"} |-> {}], 1, props)
           IN /\ decl = IF x = Null THEN {} ELSE {first}
              /\ \/ db = one /\ nextV = 2
                 \/ MaxVertex > 1 /\ db = Created(one, 2, props) /\ nextV = 3
    /\ tx = [t \in Txns |-> NoTx]
    /\ events = 0 /\ unkept = {} /\ lapped = {}

Commit(t) ==
    /\ tx[t].on
    /\ db' = CommitInto(db, tx[t].view)
    /\ unkept' = unkept \cup tx[t].blur
    /\ tx' = [tx EXCEPT ![t] = NoTx]
    /\ UNCHANGED <<uniq, decl, nextV, events, lapped>>

Rollback(t) ==
    /\ tx[t].on
    /\ tx' = [tx EXCEPT ![t] = NoTx]
    /\ UNCHANGED <<uniq, decl, db, nextV, events, unkept, lapped>>

Next ==
    \E t \in Txns :
        \/ Commit(t) \/ Rollback(t)
        \/ \E labels \in SUBSET UserLabels, x \in Values \cup {Null} :
             \/ \E first \in Labels : CreateNode(t, labels, first, x)
             \/ \E y \in Values \cup {Null} :
                  \/ MergeCreate(t, labels, x, y)
                  \/ \E v \in Vertices : MergeMatch(t, v, labels, x, y)
        \/ \E l \in UserLabels, extra \in SUBSET UserLabels, x \in Values : BatchInsertVertices(t, l, extra, x)
        \/ \E v \in Vertices, l \in UserLabels : SetLabels(t, v, l) \/ RemoveLabel(t, v, l)
        \/ \E v \in Vertices : SetNull(t, v) \/ SetAddNull(t, v) \/ DeleteVertexStmt(t, v)
        \/ \E v \in Vertices, named \in {{}} \cup {{l} : l \in UserLabels} : RemoveProperty(t, v, named)
        \/ \E v \in Vertices, x \in Values : SetProperty(t, v, x)
        \/ \E v \in Vertices, x \in Values \cup {Null} : SetReplace(t, v, x)
        \/ \E v \in Vertices, l \in UserLabels, x \in Values \cup {Null} : SetStrong(t, v, l, x)

Spec == Init /\ [][Next]_vars

-----------------------------------------------------------------------------
(* Properties *)

\* What n.p reads: the values under the labels of n that declare p.
Visible(s, defs, v) == {getVertexProperty(s, v, l) : l \in getVertexLabels(s, v) \cap defs} \ {Null}

\* A label scan finds exactly the vertices that have the label, and a vertex
\* that is gone has none, unless a SET overlapped its DELETE.
LabelScanAgrees ==
    \A v \in Vertices, l \in Labels :
        /\ l \in getVertexLabels(db, v) <=> v \in scanVerticesByLabel(db, l)
        /\ ~Live(v) /\ v \notin lapped => l \notin getVertexLabels(db, v)

\* A summary is only ever read instead of the rows, so it equals them, and every
\* write that makes it stale removes it.
SummaryAgrees ==
    \A v \in Vertices : Has(db, "summary", v) => table_get(db, "summary", v) = Canonical(db, v)

\* The index says what n.p says, for every vertex that no two overlapping
\* transactions and none of the statements that leave entries behind or out have
\* touched: MERGE, SET of a label that makes labels disagree, and, when an entry
\* is refused, batch import, REMOVE, and a SET n.p that is ambiguous.
IndexKept ==
    \A v \in Vertices \ (unkept \cup lapped) :
        {r.k : r \in {q \in db.vidx : q.k[2] = v}} =
            IF 1 \in getVertexLabels(db, v) /\ Single(Visible(db, decl, v))
            THEN {<<x, v>> : x \in Visible(db, decl, v)} ELSE {}

\* Properties belong to the vertex and not to a label (remove_physical_op.cpp:73):
\* REMOVE n:L leaves what n.p reads, as long as the labels agreed on it.  The
\* design document says the opposite: see RemoveCascades.
LabelRemovalKeepsValue ==
    \A v \in Vertices : \A l \in getVertexLabels(db, v) \ {Anon} :
        Live(v) /\ Single(Visible(db, decl, v)) =>
            LET w == WithoutLabel(v, l) IN Visible(w.s, w.defs, v) = Visible(db, decl, v)

\* docs/refactor/mixed-mode-design.md:267: REMOVE n:L also deletes the values under
\* L, and __anon__ keeps what it had.  Not so: they move to __anon__.
RemoveCascades ==
    \A v \in Vertices : \A l \in getVertexLabels(db, v) \ {Anon} :
        Live(v) => getVertexProperty(WithoutLabel(v, l).s, v, Anon) = getVertexProperty(db, v, Anon)

\* Every vertex with the label and the value is found through the index.
IndexFindsAll ==
    \A v \in Vertices \ lapped, x \in Values :
        1 \in getVertexLabels(db, v) /\ Visible(db, decl, v) = {x} => Has(db, "vidx", <<x, v>>)

-----------------------------------------------------------------------------
(* Inductive invariant *)

KeysOf ==
    [existence |-> Vertices, label |-> Vertices \X Labels, fwd |-> Labels \X Vertices,
     prop |-> Vertices \X Labels, summary |-> Vertices, vidx |-> Values \X Vertices]
ValuesOf ==
    [existence |-> {0}, label |-> {0}, fwd |-> {0}, prop |-> Values,
     summary |-> SUBSET (Labels \X (Values \cup {Null})), vidx |-> {0}]
RowsOf(T) == [k : KeysOf[T], x : ValuesOf[T]]

\* The vertex a key belongs to.
OwnerOf(T, k) ==
    IF T \in {"existence", "summary"} THEN k ELSE IF T \in {"label", "prop"} THEN k[1] ELSE k[2]

\* Rows of the right kind, one for each key.
IsStore(s) ==
    /\ DOMAIN s = Tables \cup {"wrote"}
    /\ \A T \in Tables : s[T] \subseteq RowsOf(T)
    /\ \A T \in Tables : \A r, q \in s[T] : r.k = q.k => r = q

IsTx(r) == r = NoTx \/ (r.on = TRUE /\ IsStore(r.view) /\ r.v \in Vertices /\ r.blur \subseteq {r.v})

TypeOK ==
    /\ uniq \in BOOLEAN /\ decl \subseteq Labels
    /\ IsStore(db) /\ db.wrote = {}
    /\ DOMAIN tx = Txns /\ \A t \in Txns : IsTx(tx[t])
    /\ nextV \in 1..(MaxVertex + 1) /\ events \in Nat
    /\ unkept \subseteq Vertices /\ lapped \subseteq Vertices

\* The two label tables are written together.
LabelsAgree(s) ==
    \A v \in Vertices, l \in Labels :
        /\ Has(s, "label", <<v, l>>) <=> Has(s, "fwd", <<l, v>>)
        /\ <<"label", <<v, l>>>> \in s.wrote <=> <<"fwd", <<l, v>>>> \in s.wrote

\* A transaction writes rows of one vertex.
WritesOnly(s, v) == \A T \in Tables : \A k \in KeysOf[T] : <<T, k>> \in s.wrote => OwnerOf(T, k) = v

NoRows(s, v) == \A T \in Tables : \A r \in s[T] : OwnerOf(T, r.k) # v

\* Outside what s wrote, it has the rows of v that s0 has.
SameUnwritten(s0, s, v) ==
    \A T \in Tables :
        /\ \A r \in s[T] : OwnerOf(T, r.k) = v /\ <<T, r.k>> \notin s.wrote => r \in s0[T]
        /\ \A r \in s0[T] : OwnerOf(T, r.k) = v /\ <<T, r.k>> \notin s.wrote => r \in s[T]

Changed(s, v) == \E l \in Labels : <<"label", <<v, l>>>> \in s.wrote \/ <<"prop", <<v, l>>>> \in s.wrote

SummaryTells(s, v) == Has(s, "summary", v) => table_get(s, "summary", v) = Canonical(s, v)

GoneHasNoLabel(s, v) == Has(s, "existence", v) \/ getVertexLabels(s, v) = {}

EntriesOf(s, v) == {r.k : r \in {q \in s.vidx : q.k[2] = v}}

\* The entries of v are those its rows call for; values are stored under labels
\* that declare the property, and under __anon__ only where v has it.
Kept(s, defs, v) ==
    /\ EntriesOf(s, v) = collectVertexIndexEntries(s, defs, v)
    /\ \A r \in s.prop : r.k[1] = v => r.k[2] \in defs
    /\ Has(s, "prop", <<v, Anon>>) => Anon \in getVertexLabels(s, v)

Alone(t) == \A o \in Open : o # t => tx[o].v # tx[t].v

\* A transaction that has stored a summary made the vertex: nothing of it is
\* committed and nobody else knows it.
MadeIt(t) ==
    LET s == tx[t].view v == tx[t].v IN
    /\ NoRows(db, v) /\ Alone(t)
    /\ \A T \in Tables : \A r \in s[T] : OwnerOf(T, r.k) = v => <<T, r.k>> \in s.wrote

TxInv(t) ==
    LET s == tx[t].view v == tx[t].v IN
    /\ v < nextV /\ LabelsAgree(s) /\ WritesOnly(s, v) /\ SummaryTells(s, v)
    /\ Has(s, "summary", v) /\ <<"summary", v>> \in s.wrote => MadeIt(t)
    /\ Has(db, "summary", v) /\ Changed(s, v) => <<"summary", v>> \in s.wrote
    /\ v \notin lapped => SameUnwritten(db, s, v) /\ Alone(t) /\ GoneHasNoLabel(s, v)
    /\ v \notin lapped \cup unkept \cup tx[t].blur => Kept(s, decl, v)

StoreInv ==
    /\ LabelsAgree(db)
    /\ \A v \in Vertices :
        /\ v >= nextV => NoRows(db, v)
        /\ SummaryTells(db, v)
        /\ v \notin lapped => GoneHasNoLabel(db, v)
        /\ v \notin lapped \cup unkept => Kept(db, decl, v)

IInv == TypeOK /\ StoreInv /\ \A t \in Open : TxInv(t)
=============================================================================
