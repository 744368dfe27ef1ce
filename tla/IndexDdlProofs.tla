--------------------------- MODULE IndexDdlProofs ---------------------------
(***************************************************************************)
(* Proofs about IndexDdl: what a PUBLIC index contains, for every number   *)
(* of entities, writers and concurrent CREATE INDEX statements.            *)
(*                                                                         *)
(* The invariant is IInv.  Its control part (IdInv, DefInv) says that an   *)
(* id stands for one index, published by its own build; its data part      *)
(* (DataInv) says of every index that is or may become the one in memory   *)
(* how far its entries agree with the values, depending on the scan and on *)
(* the transactions that are still open.  Steps that move only definitions *)
(* and statements keep the data part by ControlKeeps; the four that change *)
(* committed data are treated one by one.                                  *)
(***************************************************************************)
EXTENDS IndexDdl, FiniteSetTheorems, TLAPS

-----------------------------------------------------------------------------
(* Types *)

LEMMA RestTyped ==
    /\ NoIndex \in Definitions /\ NoTxn \in Txns
    /\ RestB \in Builds /\ RestD \in Drops /\ RestA \in Alters /\ RestW \in Writes
    /\ RestB.pc = "idle" /\ RestB.batch = {} /\ RestB.at = 1 /\ RestD.pc = "idle" /\ RestW.pc = "idle" /\ RestA.pc = "idle"
    /\ NoIndex.st = "none" /\ NoIndex.id = 0
<1>1. NoIndex \in Definitions /\ NoTxn \in Txns
  BY IndexDdlAssumption DEF NoIndex, Definitions, States, NoTxn, Txns
<1>2. RestB \in Builds
  BY <1>1, IndexDdlAssumption DEF RestB, Builds, BuildSteps
<1>3. RestD \in Drops /\ RestA \in Alters
  BY <1>1 DEF RestD, Drops, RestA, Alters
<1>4. RestW \in Writes
  BY <1>1, IndexDdlAssumption DEF RestW, Writes, Entities
<1>5. QED
  BY <1>1, <1>2, <1>3, <1>4 DEF RestB, RestD, RestW, RestA, NoIndex

\* Entries of an entity.
LEMMA EntryOfTyped ==
    ASSUME NEW x \in Values \cup {NoValue}, NEW e \in Entities
    PROVE  EntryOf(x, e) \subseteq Entries /\ \A p \in EntryOf(x, e) : p[1] = x /\ p[2] = e
BY DEF EntryOf, Entries

\* The finite batch of a build.
LEMMA BatchFinite ==
    ASSUME NEW S \in SUBSET Entities
    PROVE  IsFiniteSet(S) /\ Cardinality(S) \in Nat
<1>1. IsFiniteSet(1 .. MaxEntity)
  BY IndexDdlAssumption, FS_Interval, MaxEntity \in Int, 1 \in Int
<1>2. QED
  BY <1>1, FS_Subset, FS_CardinalityType DEF Entities

LEMMA EmptyBatch == Cardinality({}) <= BatchRows
BY FS_EmptySet, IndexDdlAssumption

\* An index that is a candidate is around.
LEMMA IdsAround ==
    ASSUME TypeOK, IdInv, DefInv
    PROVE  Ids \subseteq Around
<1>1. ASSUME NEW d \in Candidates, d.st # "none" PROVE d.id \in Around
  BY <1>1 DEF Candidates, Around, DefInv, IdInv
<1>2. QED
  BY <1>1 DEF Ids

\* The id of a candidate is one that CREATE INDEX gave.
LEMMA IdRange ==
    ASSUME IInv, ~blurred, NEW i \in Ids
    PROVE  i \in 1 .. MaxCreates /\ 1 \in 1 .. MaxCreates
<1>1. TypeOK /\ DefInv
  BY DEF IInv
<1>2. PICK d \in Candidates : d.st # "none" /\ d.id = i
  BY DEF Ids
<1>3. d \in Definitions /\ d.id # 0
  BY <1>1, <1>2 DEF Candidates, TypeOK, Drops, DefInv
<1>4. QED
  BY <1>2, <1>3, IndexDdlAssumption DEF Definitions

-----------------------------------------------------------------------------
(* Steps that change no committed data *)

\* The candidates of the next state are candidates, up to a change of state
\* that publishes nothing.
CandidatesKept ==
    \A d \in Candidates' :
        \/ d = NoIndex
        \/ \E c \in Candidates : /\ c.st # "none" /\ d.st # "none" /\ c.id = d.id /\ c.uniq = d.uniq
                                 /\ d.st = "PUBLIC" => c = d

\* Builds go on, towards the publication of what they began, or end.
BuildsKept ==
    \A b \in Builders : bld'[b].pc # "idle" =>
        /\ bld[b].pc # "idle" /\ bld'[b].def = bld[b].def
        /\ bld'[b].pc \in Unpublished => bld[b].pc \in Unpublished
        /\ bld'[b].pc \in {"persist", "publish"} => bld[b].pc = bld'[b].pc /\ bld'[b].before = bld[b].before

\* Writers go on with the definition they know.
WritersKept ==
    \A w \in Writers : wr'[w].pc # "idle" =>
        \/ wr[w].pc # "idle" /\ wr'[w].def = wr[w].def
        \/ wr'[w].def \in Candidates

LEMMA IdsKept ==
    ASSUME DefInv, CandidatesKept
    PROVE  Ids' \subseteq Ids
<1>1. ASSUME NEW d \in Candidates', d.st # "none" PROVE d.id \in Ids
  <2>1. d # NoIndex
    BY <1>1, RestTyped
  <2>2. PICK c \in Candidates : c.st # "none" /\ c.id = d.id
    BY <2>1 DEF CandidatesKept
  <2>3. QED
    BY <2>2 DEF Ids
<1>2. Ids' = {d.id : d \in {c \in Candidates' : c.st # "none"}}
  BY DEF Ids
<1>3. QED
  BY <1>1, <1>2

LEMMA DefKeeps ==
    ASSUME TypeOK, IdInv, DefInv, CandidatesKept, BuildsKept, WritersKept,
           IdInv',
           drp'.pc # "idle" => drp'.def.id \notin {0, mem'.id},
           drp'.pc = "table" => drp'.def.id # disk'.id
    PROVE  DefInv'
<1>1. \A d \in Candidates' : IF d.st = "none" THEN d = NoIndex ELSE d.id # 0
  BY RestTyped DEF DefInv, CandidatesKept
<1>2. \A d, c \in Candidates' : d.id = c.id => d.uniq = c.uniq
  BY RestTyped DEF DefInv, CandidatesKept
<1>3. ASSUME NEW d \in Candidates', NEW b \in Builders, bld'[b].pc # "idle", d.id = bld'[b].def.id
      PROVE  d.uniq = bld'[b].def.uniq /\ (bld'[b].pc \in Unpublished => d.st # "PUBLIC")
  <2>1. bld[b].pc # "idle" /\ bld'[b].def = bld[b].def /\ (bld'[b].pc \in Unpublished => bld[b].pc \in Unpublished)
    BY <1>3 DEF BuildsKept
  <2>2. bld[b].def.id # 0
    BY <2>1, next \in Nat DEF IdInv, TypeOK
  <2>3. PICK c \in Candidates : c.id = d.id /\ c.uniq = d.uniq /\ (d.st = "PUBLIC" => c = d)
    BY <1>3, <2>1, <2>2, RestTyped DEF CandidatesKept
  <2>4. QED
    BY <1>3, <2>1, <2>3 DEF DefInv
<1>4. ASSUME NEW d \in Candidates', NEW w \in Writers, d.st # "none", wr'[w].pc # "idle", d.id = wr'[w].def.id
      PROVE  d.uniq = wr'[w].def.uniq
  <2>1. PICK c \in Candidates : c.st # "none" /\ c.id = d.id /\ c.uniq = d.uniq
    BY <1>4, RestTyped DEF CandidatesKept
  <2>2. QED
    BY <1>4, <2>1 DEF DefInv, WritersKept
<1>5. ASSUME NEW b \in Builders, bld'[b].pc \in {"persist", "publish"}
      PROVE  /\ bld'[b].pc = "persist" => bld'[b].before = NoIndex
             /\ bld'[b].pc = "publish" => bld'[b].before.st \notin {"none", "PUBLIC"}
  <2>1. bld[b].pc = bld'[b].pc /\ bld'[b].before = bld[b].before
    BY <1>5 DEF BuildsKept
  <2>2. /\ bld[b].pc = "persist" => bld[b].before = NoIndex
        /\ bld[b].pc = "publish" => bld[b].before.st \notin {"none", "PUBLIC"}
    BY DEF DefInv
  <2>3. QED
    BY <2>1, <2>2
<1>6. QED
  BY <1>1, <1>2, <1>3, <1>4, <1>5 DEF DefInv

LEMMA DataKeeps ==
    ASSUME DefInv, DataInv, CandidatesKept,
           UNCHANGED <<kind, val, made, ents, together, unseen>>,
           \A b \in Builders : bld'[b].pc \in {"scan", "commit"} /\ bld'[b].def.id \in Ids =>
              bld'[b] = bld[b] \/ BuildOK(Now, bld'[b]),
           \A w \in Writers : wr'[w].pc = "done" /\ Live(wr'[w].def) /\ wr'[w].def.id \in Ids =>
              wr'[w] = wr[w] \/ WriteOK(Now, wr'[w])
    PROVE  DataInv'
<1>1. Now' = Now
  BY DEF Now
<1>2. Ids' \subseteq Ids
  BY IdsKept
<1>3. \A d \in Candidates' : d.st = "PUBLIC" => d \in Candidates
  BY RestTyped DEF CandidatesKept
<1>4. \A d \in Candidates' : d.st = "PUBLIC" => PublicOK(Now, d)
  BY <1>3 DEF DataInv
<1>5. \A b \in Builders : bld'[b].pc \in {"scan", "commit"} /\ bld'[b].def.id \in Ids' => BuildOK(Now, bld'[b])
  BY <1>2 DEF DataInv
<1>6. \A w \in Writers : wr'[w].pc = "done" /\ Live(wr'[w].def) /\ wr'[w].def.id \in Ids' => WriteOK(Now, wr'[w])
  BY <1>2 DEF DataInv
<1>7. QED
  BY <1>1, <1>4, <1>5, <1>6 DEF DataInv

\* A step that moves definitions and statements, and leaves the data alone.
LEMMA ControlKeeps ==
    ASSUME IInv, TypeOK', IdInv', WriteSetInv',
           UNCHANGED <<kind, val, made, ents, together, unseen>>,
           ~blurred' =>
              /\ ~blurred /\ CandidatesKept /\ BuildsKept /\ WritersKept
              /\ drp'.pc # "idle" => drp'.def.id \notin {0, mem'.id}
              /\ drp'.pc = "table" => drp'.def.id # disk'.id
              /\ DurableInv'
              /\ \A b \in Builders : bld'[b].pc \in {"scan", "commit"} /\ bld'[b].def.id \in Ids =>
                    bld'[b] = bld[b] \/ BuildOK(Now, bld'[b])
              /\ \A w \in Writers : wr'[w].pc = "done" /\ Live(wr'[w].def) /\ wr'[w].def.id \in Ids =>
                    wr'[w] = wr[w] \/ WriteOK(Now, wr'[w])
    PROVE  IInv'
<1>1. TypeOK /\ IdInv
  BY DEF IInv
<1>2. ASSUME ~blurred' PROVE DefInv' /\ DurableInv' /\ DataInv'
  <2>1. DefInv /\ DataInv
    BY <1>2 DEF IInv
  <2>2. DefInv'
    BY <1>1, <1>2, <2>1, DefKeeps
  <2>3. DataInv'
    BY <1>2, <2>1, DataKeeps
  <2>4. QED
    BY <1>2, <2>2, <2>3
<1>3. QED
  BY <1>2 DEF IInv

-----------------------------------------------------------------------------
(* Builds *)

\* The candidates of a state that does not change them.
LEMMA SameCandidates ==
    ASSUME DefInv, UNCHANGED <<mem, disk, drp>>
    PROVE  CandidatesKept
<1>1. Candidates' = Candidates
  BY DEF Candidates
<1>2. \A d \in Candidates : d.st # "none" \/ d = NoIndex
  BY DEF DefInv
<1>3. QED
  BY <1>1, <1>2 DEF CandidatesKept

\* A step of one build that leaves everything else alone.
LEMMA BuildMoves ==
    ASSUME IInv, NEW b \in Builders, NEW s \in Builds,
           bld' = [bld EXCEPT ![b] = s], Cardinality(s.batch) <= BatchRows,
           UNCHANGED <<meta, data, drp, alt, wr, history>>, used' \in Nat,
           bld[b].pc \in Unpublished, s.pc \in {"idle", "scan", "commit", "error"},
           s.pc # "idle" => s.def = bld[b].def,
           \A e \in s.batch : e < s.at,
           s.pc = "commit" => \A p \in s.txn.puts : p[2] \in s.batch /\ TableOf(s.def) \in made,
           ~blurred /\ s.pc \in {"scan", "commit"} /\ s.def.id \in Ids => BuildOK(Now, s)
    PROVE  IInv'
<1>1. TypeOK /\ IdInv /\ WriteSetInv /\ bld \in [Builders -> Builds]
  BY DEF IInv, TypeOK
<1>2. bld'[b] = s /\ \A c \in Builders : c # b => bld'[c] = bld[c]
  BY <1>1
<1>3. TypeOK'
  <2>1. bld' \in [Builders -> Builds]
    BY <1>1
  <2>2. \A c \in Builders : Cardinality(bld'[c].batch) <= BatchRows
    BY <1>1, <1>2 DEF TypeOK
  <2>3. QED
    BY <1>1, <2>1, <2>2 DEF TypeOK, meta, data, history
<1>4. bld[b].pc # "idle"
  BY DEF Unpublished
<1>5. IdInv'
  BY <1>1, <1>2, <1>4 DEF IdInv, meta
<1>6. WriteSetInv'
  BY <1>1, <1>2 DEF WriteSetInv, TableOf, meta, data
<1>7. ASSUME ~blurred'
      PROVE  /\ ~blurred /\ CandidatesKept /\ BuildsKept /\ WritersKept
             /\ drp'.pc # "idle" => drp'.def.id \notin {0, mem'.id}
             /\ drp'.pc = "table" => drp'.def.id # disk'.id
             /\ DurableInv'
             /\ \A c \in Builders : bld'[c].pc \in {"scan", "commit"} /\ bld'[c].def.id \in Ids =>
                   bld'[c] = bld[c] \/ BuildOK(Now, bld'[c])
             /\ \A w \in Writers : wr'[w].pc = "done" /\ Live(wr'[w].def) /\ wr'[w].def.id \in Ids =>
                   wr'[w] = wr[w] \/ WriteOK(Now, wr'[w])
  <2>1. ~blurred /\ DefInv /\ DurableInv
    BY <1>7 DEF history, IInv
  <2>2. CandidatesKept
    BY <2>1, SameCandidates DEF meta
  <2>3. BuildsKept
    BY <1>2, <1>4 DEF BuildsKept
  <2>4. WritersKept
    BY DEF WritersKept
  <2>5. DurableInv'
    BY <1>2, <2>1 DEF DurableInv, meta, Unpublished
  <2>6. \A c \in Builders : bld'[c].pc \in {"scan", "commit"} /\ bld'[c].def.id \in Ids =>
           bld'[c] = bld[c] \/ BuildOK(Now, bld'[c])
    BY <1>2, <2>1
  <2>7. QED
    BY <2>1, <2>2, <2>3, <2>4, <2>5, <2>6 DEF DefInv, meta
<1>8. UNCHANGED <<kind, val, made, ents, together, unseen>>
  BY DEF meta, data, history
<1>9. QED
  BY <1>3, <1>5, <1>6, <1>7, <1>8, ControlKeeps

\* The invariant of one build.
LEMMA OneBuild ==
    ASSUME IInv, NEW b \in Builders
    PROVE  /\ bld[b] \in Builds /\ bld[b].at \in Nat /\ bld[b].batch \subseteq Entities
           /\ Cardinality(bld[b].batch) <= BatchRows
           /\ \A e \in bld[b].batch : e < bld[b].at
           /\ val \in [Entities -> Values \cup {NoValue}] /\ used \in Nat
BY IndexDdlAssumption DEF IInv, TypeOK, WriteSetInv, Builds

LEMMA UsedTyped ==
    ASSUME used \in Nat, Event \/ Fault \/ UNCHANGED used
    PROVE  used' \in Nat
BY DEF Event, Fault

LEMMA ReturnsKeeps ==
    ASSUME IInv, NEW b \in Builders, CreateTableReturns(b)
    PROVE  IInv'
<1>1. /\ bld[b].pc = "table" /\ bld' = [bld EXCEPT ![b] = RestB]
      /\ UNCHANGED <<meta, data, drp, alt, wr, history>> /\ (Fault \/ UNCHANGED used)
  BY DEF CreateTableReturns, Return
<1>2. Cardinality(RestB.batch) <= BatchRows
  BY RestTyped, EmptyBatch
<1>3. used' \in Nat
  BY <1>1, OneBuild, UsedTyped
<1>4. bld[b].pc \in Unpublished
  BY <1>1 DEF Unpublished
<1>5. RestB \in Builds /\ RestB.pc = "idle" /\ RestB.batch = {}
  BY RestTyped
<1>6. QED
  BY <1>1, <1>2, <1>3, <1>4, <1>5, BuildMoves

LEMMA NoSessionsKeeps ==
    ASSUME IInv, NEW b \in Builders, NoSessions(b)
    PROVE  IInv'
<1> DEFINE s == [bld[b] EXCEPT !.pc = "error"]
<1>1. /\ bld[b].pc = "scan" /\ bld' = [bld EXCEPT ![b] = s]
      /\ UNCHANGED <<meta, data, drp, alt, wr, history>> /\ Fault
  BY DEF NoSessions, Goto
<1>2. used' \in Nat
  BY <1>1, OneBuild, UsedTyped
<1>3. s \in Builds /\ s.pc = "error" /\ s.def = bld[b].def /\ s.batch = bld[b].batch /\ s.at = bld[b].at
  BY OneBuild DEF Builds, BuildSteps
<1> HIDE DEF s
<1>4. QED
  BY <1>1, <1>2, <1>3, OneBuild, BuildMoves DEF Unpublished

LEMMA FlushCommitFailsKeeps ==
    ASSUME IInv, NEW b \in Builders, FlushCommitFails(b)
    PROVE  IInv'
<1> DEFINE s == [bld[b] EXCEPT !.pc = "error", !.batch = {}, !.txn = NoTxn]
<1>1. /\ bld[b].pc = "commit" /\ bld' = [bld EXCEPT ![b] = s]
      /\ UNCHANGED <<meta, data, drp, alt, wr, history>> /\ Fault
  BY DEF FlushCommitFails
<1>2. used' \in Nat
  BY <1>1, OneBuild, UsedTyped
<1>3. s \in Builds /\ s.pc = "error" /\ s.def = bld[b].def /\ s.batch = {}
  BY OneBuild, RestTyped DEF Builds, BuildSteps
<1>4. Cardinality(s.batch) <= BatchRows
  BY <1>3, EmptyBatch
<1> HIDE DEF s
<1>5. bld[b].pc \in Unpublished
  BY <1>1 DEF Unpublished
<1>6. QED
  BY <1>1, <1>2, <1>3, <1>4, <1>5, BuildMoves

\* The next entity joins the batch, or has no value and is left out.
LEMMA ScanKeeps ==
    ASSUME IInv, NEW b \in Builders, Scan(b)
    PROVE  IInv'
<1> DEFINE r == bld[b]
<1>1. PICK visit \in BOOLEAN :
        /\ visit \/ val[r.at] = NoValue
        /\ bld' = [bld EXCEPT ![b] = [r EXCEPT !.at = @ + 1, !.batch = IF visit THEN @ \cup {r.at} ELSE @]]
  BY DEF Scan
<1> DEFINE batch == IF visit THEN r.batch \cup {r.at} ELSE r.batch
           s == [r EXCEPT !.at = r.at + 1, !.batch = batch]
<1>2. /\ r.pc = "scan" /\ r.at \in Entities /\ Cardinality(r.batch) < BatchRows
      /\ UNCHANGED <<meta, data, drp, alt, wr, used, history>> /\ bld' = [bld EXCEPT ![b] = s]
  BY <1>1 DEF Scan
<1>3. /\ r \in Builds /\ r.at \in Nat /\ r.batch \subseteq Entities /\ used \in Nat
      /\ \A e \in r.batch : e < r.at
  BY OneBuild
<1>4. batch \subseteq Entities /\ Cardinality(batch) <= BatchRows
  <2>1. IsFiniteSet(r.batch) /\ Cardinality(r.batch) \in Nat /\ BatchRows \in Nat
    BY <1>3, BatchFinite, IndexDdlAssumption
  <2>2. Cardinality(r.batch \cup {r.at}) <= Cardinality(r.batch) + 1
    <3>1. Cardinality(r.batch \cup {r.at}) = IF r.at \in r.batch THEN Cardinality(r.batch) ELSE Cardinality(r.batch) + 1
      BY <2>1, FS_AddElement
    <3>2. QED
      BY <2>1, <3>1
  <2>3. IsFiniteSet(r.batch \cup {r.at}) /\ Cardinality(r.batch \cup {r.at}) \in Nat
    BY <1>2, <1>3, BatchFinite
  <2>4. QED
    BY <1>2, <1>3, <2>1, <2>2, <2>3
<1> HIDE DEF batch
<1>5. r.at + 1 \in 1 .. MaxEntity + 1
  BY <1>2, <1>3, IndexDdlAssumption DEF Entities
<1>6. s \in Builds /\ s.pc = "scan" /\ s.def = r.def /\ s.batch = batch /\ s.at = r.at + 1 /\ s.txn = r.txn
  BY <1>2, <1>3, <1>4, <1>5 DEF Builds
<1> HIDE DEF s
<1>7. \A e \in batch : e < r.at + 1
  BY <1>3, <1>4 DEF batch, Entities
<1>8. ASSUME ~blurred, s.def.id \in Ids PROVE BuildOK(Now, s)
  <2>1. BuildOK(Now, r)
    BY <1>2, <1>6, <1>8 DEF IInv, DataInv
  <2>2. ASSUME NEW e \in Entities, ~Marked(Now, r.def, e), e < r.at + 1, e \notin batch PROVE Exact(Now, r.def, e)
    <3>1. CASE e < r.at
      BY <2>1, <2>2, <3>1 DEF BuildOK, batch
    <3>2. CASE e = r.at
      <4>1. val[e] = NoValue
        BY <1>1, <2>2, <3>2 DEF batch
      <4>2. Mine(Now, r.def, e) = {} /\ EntryOf(Now.val[e], e) = {}
        BY <2>1, <2>2, <4>1 DEF BuildOK, EntryOf, Now
      <4>3. QED
        BY <4>2 DEF Exact
    <3>3. QED
      BY <1>3, <2>2, <3>1, <3>2 DEF Entities
  <2>3. QED
    BY <1>2, <1>6, <2>1, <2>2 DEF BuildOK
<1>9. QED
  BY <1>2, <1>3, <1>4, <1>6, <1>7, <1>8, BuildMoves DEF Unpublished

\* The values of a batch, and nothing else, are put into the index.
LEMMA FlushKeeps ==
    ASSUME IInv, NEW b \in Builders, Flush(b)
    PROVE  IInv'
<1> DEFINE r == bld[b]
           t == TableOf(r.def)
           new == UNION {EntryOf(val[e], e) : e \in r.batch}
           there == IF t \in made THEN ents[t] ELSE {}
           dup == r.def.uniq /\ \E p \in new, q \in new \cup there : p[1] = q[1] /\ (p[2] # q[2] \/ q \in there)
           bad == [r EXCEPT !.pc = "error", !.batch = {}]
           good == [r EXCEPT !.pc = "commit", !.txn = [puts |-> new, dels |-> {}]]
<1>1. /\ r.pc = "scan" /\ UNCHANGED <<meta, data, drp, alt, wr, used, history>>
      /\ \/ bld' = [bld EXCEPT ![b] = bad]
         \/ ~dup /\ (new # {} => t \in made) /\ bld' = [bld EXCEPT ![b] = good]
  BY DEF Flush
<1>2. /\ r \in Builds /\ r.at \in Nat /\ r.batch \subseteq Entities /\ used \in Nat
      /\ Cardinality(r.batch) <= BatchRows /\ (\A e \in r.batch : e < r.at)
      /\ val \in [Entities -> Values \cup {NoValue}]
  BY OneBuild
<1>3. r.pc \in Unpublished
  BY <1>1 DEF Unpublished
<1>4. CASE bld' = [bld EXCEPT ![b] = bad]
  <2>1. bad \in Builds /\ bad.pc = "error" /\ bad.def = r.def /\ bad.batch = {}
    BY <1>2 DEF Builds, BuildSteps
  <2>2. Cardinality(bad.batch) <= BatchRows
    BY <2>1, EmptyBatch
  <2> HIDE DEF bad
  <2>3. QED
    BY <1>1, <1>2, <1>3, <1>4, <2>1, <2>2, BuildMoves
<1>5. CASE ~dup /\ (new # {} => t \in made) /\ bld' = [bld EXCEPT ![b] = good]
  <2>1. \A e \in r.batch : EntryOf(val[e], e) \subseteq Entries /\ \A p \in EntryOf(val[e], e) : p[2] = e
    BY <1>2, EntryOfTyped
  <2>2. new \subseteq Entries /\ \A p \in new : p[2] \in r.batch
    BY <2>1
  <2>3. \A e \in r.batch : {p \in new : p[2] = e} = EntryOf(val[e], e)
    BY <2>1
  <2>4. ~blurred /\ r.def.id \in Ids => BuildOK(Now, r)
    BY <1>1 DEF IInv, DataInv
  <2>5. ASSUME r.def.uniq, TableIn(Now, r.def) \in Now.made
        PROVE  \A p \in new, q \in new \cup Now.ents[TableIn(Now, r.def)] : ClashExcused(Now, r.def, p, q)
    <3>1. TableIn(Now, r.def) = t /\ Now.made = made /\ Now.ents = ents
      BY DEF TableIn, TableOf, Now
    <3>2. there = ents[t]
      BY <2>5, <3>1
    <3> HIDE DEF new, there
    <3>3. \A p \in new, q \in new \cup ents[t] : ~(p[1] = q[1] /\ p[2] # q[2])
      BY <1>5, <2>5, <3>2
    <3>4. QED
      BY <3>1, <3>3 DEF ClashExcused
  <2>6. Now.val = val /\ \A p \in new : p[2] \in r.batch /\ TableOf(r.def) \in made
    BY <1>5, <2>2 DEF Now
  <2> HIDE DEF new
  <2>7. /\ good \in Builds /\ good.pc = "commit" /\ good.def = r.def /\ good.batch = r.batch /\ good.at = r.at
        /\ good.txn.puts = new
    BY <1>2, <2>2 DEF Builds, BuildSteps, Txns
  <2> HIDE DEF good
  <2>8. ~blurred /\ good.def.id \in Ids => BuildOK(Now, good)
    BY <1>1, <2>3, <2>4, <2>5, <2>6, <2>7 DEF BuildOK
  <2>9. QED
    BY <1>1, <1>2, <1>3, <1>5, <2>6, <2>7, <2>8, BuildMoves
<1>6. QED
  BY <1>1, <1>4, <1>5

-----------------------------------------------------------------------------
(* Writers *)

\* A step of one writer that leaves everything else alone.
LEMMA WriteMoves ==
    ASSUME IInv, NEW w \in Writers, NEW s \in Writes,
           wr' = [wr EXCEPT ![w] = s],
           UNCHANGED <<meta, data, bld, drp, alt, history>>, used' \in Nat,
           s.pc # "idle" => s.def = mem \/ (wr[w].pc # "idle" /\ s.def = wr[w].def),
           s.pc = "done" =>
              /\ s.txn.puts \subseteq EntryOf(s.new, s.e)
              /\ \A p \in s.txn.dels : p[2] = s.e
              /\ s.txn.puts \cup s.txn.dels # {} => TableOf(s.def) \in made
              /\ \A v \in Writers : v # w /\ wr[v].pc = "done" => wr[v].e # s.e,
           ~blurred /\ s.pc = "done" /\ Live(s.def) /\ s.def.id \in Ids => WriteOK(Now, s)
    PROVE  IInv'
<1>1. TypeOK /\ IdInv /\ WriteSetInv /\ wr \in [Writers -> Writes]
  BY DEF IInv, TypeOK
<1>2. wr'[w] = s /\ \A v \in Writers : v # w => wr'[v] = wr[v]
  BY <1>1
<1>3. TypeOK'
  <2>1. wr' \in [Writers -> Writes]
    BY <1>1
  <2>2. QED
    BY <1>1, <2>1 DEF TypeOK, meta, data, history
<1>4. IdInv'
  BY <1>1 DEF IdInv, meta
<1>5. WriteSetInv'
  BY <1>1, <1>2 DEF WriteSetInv, TableOf, meta, data
<1>6. ASSUME ~blurred'
      PROVE  /\ ~blurred /\ CandidatesKept /\ BuildsKept /\ WritersKept
             /\ drp'.pc # "idle" => drp'.def.id \notin {0, mem'.id}
             /\ drp'.pc = "table" => drp'.def.id # disk'.id
             /\ DurableInv'
             /\ \A c \in Builders : bld'[c].pc \in {"scan", "commit"} /\ bld'[c].def.id \in Ids =>
                   bld'[c] = bld[c] \/ BuildOK(Now, bld'[c])
             /\ \A v \in Writers : wr'[v].pc = "done" /\ Live(wr'[v].def) /\ wr'[v].def.id \in Ids =>
                   wr'[v] = wr[v] \/ WriteOK(Now, wr'[v])
  <2>1. ~blurred /\ DefInv /\ DurableInv
    BY <1>6 DEF history, IInv
  <2>2. CandidatesKept
    BY <2>1, SameCandidates DEF meta
  <2>3. BuildsKept
    BY DEF BuildsKept
  <2>4. WritersKept
    BY <1>2 DEF WritersKept, Candidates
  <2>5. DurableInv'
    BY <2>1 DEF DurableInv, meta
  <2>6. \A v \in Writers : wr'[v].pc = "done" /\ Live(wr'[v].def) /\ wr'[v].def.id \in Ids =>
           wr'[v] = wr[v] \/ WriteOK(Now, wr'[v])
    BY <1>2, <2>1
  <2>7. QED
    BY <2>1, <2>2, <2>3, <2>4, <2>5, <2>6 DEF DefInv, meta
<1>7. UNCHANGED <<kind, val, made, ents, together, unseen>>
  BY DEF meta, data, history
<1>8. QED
  BY <1>3, <1>4, <1>5, <1>6, <1>7, ControlKeeps

LEMMA PlanKeeps ==
    ASSUME IInv, NEW w \in Writers, Plan(w)
    PROVE  IInv'
<1>1. PICK e \in Entities, x \in Values \cup {NoValue} :
        wr' = [wr EXCEPT ![w] = [RestW EXCEPT !.pc = "planned", !.def = mem, !.e = e, !.new = x]]
  BY DEF Plan
<1> DEFINE s == [RestW EXCEPT !.pc = "planned", !.def = mem, !.e = e, !.new = x]
<1>2. UNCHANGED <<meta, data, bld, drp, alt, history>> /\ Event
  BY DEF Plan
<1>3. used \in Nat /\ mem \in Definitions
  BY DEF IInv, TypeOK
<1>4. s \in Writes /\ s.pc = "planned" /\ s.def = mem
  BY <1>3, RestTyped DEF Writes
<1>5. used' \in Nat
  BY <1>2, <1>3, UsedTyped
<1> HIDE DEF s
<1>6. wr' = [wr EXCEPT ![w] = s]
  BY <1>1 DEF s
<1>7. QED
  BY <1>2, <1>4, <1>5, <1>6, WriteMoves

LEMMA AbortKeeps ==
    ASSUME IInv, NEW w \in Writers, Abort(w)
    PROVE  IInv'
<1>1. wr' = [wr EXCEPT ![w] = RestW] /\ UNCHANGED <<meta, data, bld, drp, alt, history>> /\ Fault
  BY DEF Abort
<1>2. used' \in Nat
  BY <1>1, UsedTyped DEF IInv, TypeOK
<1>3. RestW \in Writes /\ RestW.pc = "idle"
  BY RestTyped
<1>4. QED
  BY <1>1, <1>2, <1>3, WriteMoves

\* A writer that has run puts the entry of the new value and takes the one of the
\* old value, as far as the index has it.
LEMMA ExecKeeps ==
    ASSUME IInv, NEW w \in Writers, Exec(w)
    PROVE  IInv'
<1> DEFINE r == wr[w]
           t == TableOf(r.def)
           old == IF Live(r.def) THEN EntryOf(val[r.e], r.e) ELSE {}
           new == IF Live(r.def) THEN EntryOf(r.new, r.e) ELSE {}
           there == IF t \in made THEN ents[t] ELSE {}
           dup == r.def.uniq /\ \E f \in Entities : <<r.new, f>> \in there \ old
           ins == IF dup THEN {} ELSE new
           s == [r EXCEPT !.pc = "done", !.txn = [puts |-> ins, dels |-> old \cap there]]
<1>1. /\ r.pc = "planned" /\ UNCHANGED <<meta, data, bld, drp, alt, used, history>>
      /\ \/ wr' = [wr EXCEPT ![w] = RestW]
         \/ /\ wr' = [wr EXCEPT ![w] = s]
            /\ ~(old \cup new # {} /\ t \notin made)
            /\ ~(dup /\ kind = "vertex")
            /\ PropOf(r.e) \notin Locked
  BY DEF Exec
<1>2. /\ r \in Writes /\ r.e \in Entities /\ r.new \in Values \cup {NoValue} /\ r.def \in Definitions
      /\ used \in Nat /\ val \in [Entities -> Values \cup {NoValue}] /\ val[r.e] \in Values \cup {NoValue}
      /\ ents \in [1 .. MaxCreates -> SUBSET Entries] /\ kind \in {"vertex", "edge"} /\ made \subseteq 1 .. MaxCreates
  BY IndexDdlAssumption DEF IInv, TypeOK, Writes
<1>3. CASE wr' = [wr EXCEPT ![w] = RestW]
  BY <1>1, <1>2, <1>3, RestTyped, WriteMoves
<1>4. CASE /\ wr' = [wr EXCEPT ![w] = s]
           /\ ~(old \cup new # {} /\ t \notin made)
           /\ ~(dup /\ kind = "vertex")
           /\ PropOf(r.e) \notin Locked
  <2>1. /\ EntryOf(val[r.e], r.e) \subseteq Entries /\ (\A p \in EntryOf(val[r.e], r.e) : p[2] = r.e)
        /\ EntryOf(r.new, r.e) \subseteq Entries /\ (\A p \in EntryOf(r.new, r.e) : p[1] = r.new /\ p[2] = r.e)
    BY <1>2, EntryOfTyped
  <2>2. ins \subseteq EntryOf(r.new, r.e) /\ old \subseteq EntryOf(val[r.e], r.e)
    OBVIOUS
  <2>3. ASSUME NEW v \in Writers, wr[v].pc = "done" PROVE wr[v].e # r.e
    <3>1. v \in ActiveW
      BY <2>3 DEF ActiveW
    <3>2. wr[v].txn.puts \cup wr[v].txn.dels \cup {PropOf(wr[v].e)} \subseteq Locked
      BY <3>1 DEF Locked
    <3>3. PropOf(wr[v].e) \in Locked
      BY <3>2
    <3>4. QED
      BY <1>4, <3>3
  <2>4. ASSUME ~blurred, Live(r.def), r.def.id \in Ids
        PROVE  /\ old \cap there = EntryOf(val[r.e], r.e) \cap ents[t]
               /\ ins = EntryOf(r.new, r.e) \/ (kind = "edge" /\ r.def.uniq /\ ins = {})
               /\ r.def.uniq => \A p \in ins, q \in ents[t] : ClashExcused(Now, r.def, p, q)
    <3>1. old = EntryOf(val[r.e], r.e) /\ new = EntryOf(r.new, r.e)
      BY <2>4
    <3>2. t \in 1 .. MaxCreates
      <4>1. r.def.id \in 1 .. MaxCreates /\ 1 \in 1 .. MaxCreates
        BY <2>4, IdRange
      <4>2. QED
        BY <4>1 DEF TableOf
    <3>3. there = ents[t]
      <4>1. t \notin made => ents[t] = {}
        BY <3>2 DEF IInv, TypeOK
      <4>2. QED
        BY <4>1
    <3>4. ins = EntryOf(r.new, r.e) \/ (kind = "edge" /\ r.def.uniq /\ ins = {})
      BY <1>2, <1>4, <3>1
    <3>5. ASSUME r.def.uniq, NEW p \in ins, NEW q \in ents[t], p[1] = q[1], p[2] # q[2] PROVE FALSE
      <4>1. ~dup /\ p[1] = r.new /\ p[2] = r.e
        BY <2>1, <2>2, <3>5
      <4>2. q \in Entries
        BY <1>2, <3>2
      <4>3. q[2] \in Entities /\ q = <<q[1], q[2]>>
        BY <4>2 DEF Entries
      <4>4. q = <<r.new, q[2]>> /\ q[2] # r.e
        BY <3>5, <4>1, <4>3
      <4>5. q \notin old
        BY <2>1, <3>1, <4>4
      <4>6. QED
        BY <3>3, <3>5, <4>1, <4>3, <4>4, <4>5
    <3>6. r.def.uniq => \A p \in ins, q \in ents[t] : ClashExcused(Now, r.def, p, q)
      BY <3>5 DEF ClashExcused
    <3>7. QED
      BY <3>1, <3>3, <3>4, <3>6
  <2>5. /\ old \cap there \subseteq EntryOf(val[r.e], r.e) /\ old \cap there \subseteq Entries
        /\ ins \cup (old \cap there) # {} => TableOf(r.def) \in made
    BY <1>4, <2>1, <2>2
  <2> HIDE DEF ins, old, there
  <2>6. /\ s \in Writes /\ s.pc = "done" /\ s.def = r.def /\ s.e = r.e /\ s.new = r.new
        /\ s.txn.puts = ins /\ s.txn.dels = old \cap there
    BY <1>2, <2>1, <2>2, <2>5 DEF Writes, Txns
  <2> HIDE DEF s
  <2>7. ~blurred /\ Live(s.def) /\ s.def.id \in Ids => WriteOK(Now, s)
    <3>1. TableIn(Now, r.def) = t /\ Now.ents = ents /\ Now.val = val /\ Now.kind = kind
      BY DEF TableIn, TableOf, Now
    <3>2. QED
      BY <2>4, <2>6, <3>1 DEF WriteOK
  <2>8. QED
    BY <1>1, <1>2, <1>4, <2>1, <2>2, <2>3, <2>5, <2>6, <2>7, WriteMoves
<1>5. QED
  BY <1>1, <1>3, <1>4

-----------------------------------------------------------------------------
(* Steps of the definition: persisting, failing, dropping, altering, restarting *)

\* A step that moves definitions, ends statements, and may take a build from its
\* first write to its table.
LEMMA MetaMoves ==
    ASSUME IInv, UNCHANGED <<kind, val, made, ents, together, unseen>>,
           up' \in BOOLEAN, blurred' \in BOOLEAN, used' \in Nat,
           mem' \in Definitions, disk' \in Definitions, drp' \in Drops, alt' \in Alters,
           next' \in 1 .. MaxCreates + 1, dNext' \in 1 .. MaxCreates + 1,
           bld' \in [Builders -> Builds], wr' \in [Writers -> Writes],
           \A b \in Builders : \/ bld'[b] = bld[b] \/ bld'[b] = RestB
                               \/ bld[b].pc = "persist" /\ bld'[b] = [bld[b] EXCEPT !.pc = "table"],
           \A w \in Writers : wr'[w] = wr[w] \/ wr'[w] = RestW,
           next' = next \/ \A b \in Builders : bld'[b].pc = "idle",
           up' \/ (drp'.pc = "idle" /\ \A b \in Builders : bld'[b].pc = "idle"),
           drp'.pc # "idle" => drp'.before = drp'.def,
           ~blurred' =>
              /\ ~blurred /\ CandidatesKept
              /\ drp'.pc # "idle" => drp'.def.id \notin {0, mem'.id}
              /\ drp'.pc = "table" => drp'.def.id # disk'.id
              /\ DurableInv'
    PROVE  IInv'
<1>1. TypeOK /\ IdInv /\ WriteSetInv /\ bld \in [Builders -> Builds]
  BY DEF IInv, TypeOK
<1>2. ASSUME NEW b \in Builders
      PROVE  /\ bld'[b].pc # "idle" => bld[b].pc # "idle" /\ bld'[b].def = bld[b].def
             /\ bld'[b] # bld[b] => bld'[b].pc \in {"idle", "table"}
             /\ bld'[b].pc = "table" => bld[b].pc \in {"persist", "table"}
             /\ bld'[b] = RestB \/ (bld'[b].batch = bld[b].batch /\ bld'[b].at = bld[b].at /\ bld'[b].txn = bld[b].txn)
  <2>1. bld[b] \in Builds
    BY <1>1
  <2>2. CASE bld'[b] = bld[b] \/ bld'[b] = RestB
    BY <2>2, RestTyped
  <2>3. CASE bld[b].pc = "persist" /\ bld'[b] = [bld[b] EXCEPT !.pc = "table"]
    BY <2>1, <2>3 DEF Builds
  <2>4. QED
    BY <2>2, <2>3
<1>3. TypeOK'
  <2>1. \A b \in Builders : Cardinality(bld'[b].batch) <= BatchRows
    BY <1>1, <1>2, RestTyped, EmptyBatch DEF TypeOK
  <2>2. QED
    BY <1>1, <2>1 DEF TypeOK
<1>4. IdInv'
  BY <1>1, <1>2 DEF IdInv
<1>5. WriteSetInv'
  <2>1. \A w \in Writers : wr'[w].pc = "done" => wr'[w] = wr[w]
    BY RestTyped
  <2>2. ASSUME NEW b \in Builders
        PROVE  /\ \A e \in bld'[b].batch : e < bld'[b].at
               /\ bld'[b].pc \in {"persist", "table"} => bld'[b].at = 1 /\ bld'[b].batch = {}
               /\ bld'[b].pc = "commit" =>
                     \A p \in bld'[b].txn.puts : p[2] \in bld'[b].batch /\ TableOf(bld'[b].def) \in made
    <3>1. /\ \A e \in bld[b].batch : e < bld[b].at
          /\ bld[b].pc \in {"persist", "table"} => bld[b].at = 1 /\ bld[b].batch = {}
          /\ bld[b].pc = "commit" => \A p \in bld[b].txn.puts : p[2] \in bld[b].batch /\ TableOf(bld[b].def) \in made
      BY <1>1 DEF WriteSetInv
    <3>2. QED
      BY <1>2, <3>1, RestTyped
  <2>3. QED
    BY <1>1, <2>1, <2>2 DEF WriteSetInv, TableOf
<1>6. BuildsKept
  BY <1>2 DEF BuildsKept, Unpublished
<1>7. WritersKept
  BY RestTyped DEF WritersKept
<1>8. \A b \in Builders : bld'[b].pc \in {"scan", "commit"} => bld'[b] = bld[b]
  BY <1>2
<1>9. \A w \in Writers : wr'[w].pc = "done" => wr'[w] = wr[w]
  BY RestTyped
<1>10. QED
  BY <1>3, <1>4, <1>5, <1>6, <1>7, <1>8, <1>9, ControlKeeps

\* The state that most of these steps leave as it is.
LEMMA Typed ==
    ASSUME IInv
    PROVE  /\ up \in BOOLEAN /\ blurred \in BOOLEAN /\ used \in Nat /\ mem \in Definitions /\ disk \in Definitions
           /\ drp \in Drops /\ alt \in Alters /\ next \in 1 .. MaxCreates + 1 /\ dNext \in 1 .. MaxCreates + 1
           /\ bld \in [Builders -> Builds] /\ wr \in [Writers -> Writes]
           /\ drp.pc # "idle" => drp.before = drp.def
           /\ ~up => drp.pc = "idle" /\ \A b \in Builders : bld[b].pc = "idle"
BY DEF IInv, TypeOK, IdInv

LEMMA FewerCandidates ==
    ASSUME DefInv, \A d \in Candidates' : d = NoIndex \/ d \in Candidates
    PROVE  CandidatesKept
<1>1. \A d \in Candidates : d.st # "none" \/ d = NoIndex
  BY DEF DefInv
<1>2. QED
  BY <1>1 DEF CandidatesKept

\* One build moves on to its table, or ends.
LEMMA OneEnds ==
    ASSUME IInv, NEW b \in Builders,
           \/ bld[b].pc = "persist" /\ bld' = [bld EXCEPT ![b] = [bld[b] EXCEPT !.pc = "table"]]
           \/ bld' = [bld EXCEPT ![b] = RestB]
    PROVE  /\ bld' \in [Builders -> Builds]
           /\ \A c \in Builders : \/ bld'[c] = bld[c] \/ bld'[c] = RestB
                                  \/ bld[c].pc = "persist" /\ bld'[c] = [bld[c] EXCEPT !.pc = "table"]
<1>1. bld \in [Builders -> Builds] /\ RestB \in Builds
  BY Typed, RestTyped
<1>2. [bld[b] EXCEPT !.pc = "table"] \in Builds
  BY <1>1 DEF Builds, BuildSteps
<1>3. QED
  BY <1>1, <1>2

LEMMA PersistIndexKeeps ==
    ASSUME IInv, NEW b \in Builders, PersistIndex(b)
    PROVE  IInv'
<1>1. /\ bld[b].pc = "persist" /\ disk' = mem /\ dNext' = next
      /\ bld' = [bld EXCEPT ![b] = [bld[b] EXCEPT !.pc = "table"]]
      /\ UNCHANGED <<kind, up, mem, next, val, made, ents, drp, alt, wr, used, together, unseen, blurred>>
  BY DEF PersistIndex, Goto, data, history
<1>2. up
  BY <1>1, Typed
<1>3. ASSUME ~blurred
      PROVE  /\ CandidatesKept
             /\ drp'.pc # "idle" => drp'.def.id \notin {0, mem'.id}
             /\ drp'.pc = "table" => drp'.def.id # disk'.id
             /\ DurableInv'
  <2>1. DefInv
    BY <1>3 DEF IInv
  <2>2. CandidatesKept
    BY <1>1, <2>1, FewerCandidates DEF Candidates
  <2>3. QED
    BY <1>1, <2>1, <2>2 DEF DefInv, DurableInv
<1>4. QED
  BY <1>1, <1>2, <1>3, Typed, OneEnds, MetaMoves

LEMMA PersistStateKeeps ==
    ASSUME IInv, NEW b \in Builders, PersistState(b)
    PROVE  IInv'
<1>1. /\ bld[b].pc = "publish" /\ disk' = mem /\ bld' = [bld EXCEPT ![b] = RestB]
      /\ UNCHANGED <<kind, up, mem, next, dNext, val, made, ents, drp, alt, wr, used, together, unseen, blurred>>
  BY DEF PersistState, Return, data, history
<1>2. up
  BY <1>1, Typed
<1>3. ASSUME ~blurred
      PROVE  /\ CandidatesKept
             /\ drp'.pc # "idle" => drp'.def.id \notin {0, mem'.id}
             /\ drp'.pc = "table" => drp'.def.id # disk'.id
             /\ DurableInv'
  <2>1. DefInv
    BY <1>3 DEF IInv
  <2>2. CandidatesKept
    BY <1>1, <2>1, FewerCandidates DEF Candidates
  <2>3. QED
    BY <1>1, <2>1, <2>2 DEF DefInv, DurableInv
<1>4. QED
  BY <1>1, <1>2, <1>3, Typed, OneEnds, MetaMoves

LEMMA CreateThrowsKeeps ==
    ASSUME IInv, NEW b \in Builders, CreateThrows(b)
    PROVE  IInv'
<1>1. /\ bld[b].pc = "persist" /\ mem' = bld[b].before /\ disk' \in {disk, mem} /\ bld' = [bld EXCEPT ![b] = RestB]
      /\ blurred' = (blurred \/ mem # bld[b].def) /\ Fault
      /\ UNCHANGED <<kind, up, next, dNext, val, made, ents, drp, alt, wr, together, unseen>>
  BY DEF CreateThrows, Return, data
<1>2. up /\ mem' \in Definitions /\ used' \in Nat
  BY <1>1, Typed, UsedTyped DEF Builds
<1>3. ASSUME ~blurred
      PROVE  /\ CandidatesKept
             /\ drp'.pc # "idle" => drp'.def.id \notin {0, mem'.id}
             /\ drp'.pc = "table" => drp'.def.id # disk'.id
             /\ DurableInv'
  <2>1. DefInv
    BY <1>3 DEF IInv
  <2>2. mem' = NoIndex /\ mem'.st = "none" /\ mem'.id = 0
    BY <1>1, <2>1, RestTyped DEF DefInv
  <2>3. CandidatesKept
    BY <1>1, <2>1, <2>2, FewerCandidates DEF Candidates
  <2>4. QED
    BY <1>1, <2>1, <2>2, <2>3 DEF DefInv, DurableInv
<1>4. QED
  BY <1>1, <1>2, <1>3, Typed, OneEnds, MetaMoves

\* The state goes back to what it was, which is not PUBLIC.
LEMMA PersistStateFailsKeeps ==
    ASSUME IInv, NEW b \in Builders, PersistStateFails(b)
    PROVE  IInv'
<1>1. /\ bld[b].pc = "publish" /\ mem' = (IF mem.st = "none" THEN mem ELSE [mem EXCEPT !.st = bld[b].before.st])
      /\ disk' \in {disk, mem} /\ bld' = [bld EXCEPT ![b] = RestB] /\ Fault
      /\ UNCHANGED <<kind, up, next, dNext, val, made, ents, drp, alt, wr, together, unseen, blurred>>
  BY DEF PersistStateFails, Return, data, history
<1>2. up /\ used' \in Nat
  BY <1>1, Typed, UsedTyped
<1>3. mem' \in Definitions /\ mem'.id = mem.id /\ mem'.uniq = mem.uniq /\ (mem.st = "none" => mem' = mem)
      /\ (mem.st # "none" => mem'.st = bld[b].before.st)
  BY <1>1, Typed DEF Builds, Definitions
<1>4. ASSUME ~blurred
      PROVE  /\ CandidatesKept
             /\ drp'.pc # "idle" => drp'.def.id \notin {0, mem'.id}
             /\ drp'.pc = "table" => drp'.def.id # disk'.id
             /\ DurableInv'
  <2>1. DefInv
    BY <1>4 DEF IInv
  <2>2. bld[b].before.st \notin {"none", "PUBLIC"}
    BY <1>1, <2>1 DEF DefInv
  <2>3. \A d \in Candidates' : d = mem' \/ d \in Candidates
    BY <1>1 DEF Candidates
  <2>4. \A d \in Candidates : d.st # "none" \/ d = NoIndex
    BY <2>1 DEF DefInv
  <2>5. mem \in Candidates
    BY DEF Candidates
  <2>6. CandidatesKept
    BY <1>3, <2>2, <2>3, <2>4, <2>5 DEF CandidatesKept
  <2>7. QED
    BY <1>1, <1>3, <2>1, <2>2, <2>6 DEF DefInv, DurableInv
<1>5. QED
  BY <1>1, <1>2, <1>3, <1>4, Typed, OneEnds, MetaMoves

\* What is dropped is a candidate until the definition without it is written.
LEMMA DropIndexKeeps ==
    ASSUME IInv, DropIndex
    PROVE  IInv'
<1>1. /\ up /\ drp.pc = "idle" /\ mem.st # "none" /\ Event /\ mem' = NoIndex
      /\ drp' = [pc |-> "persist", def |-> mem, before |-> mem]
      /\ UNCHANGED <<kind, up, disk, next, dNext, val, made, ents, bld, alt, wr, together, unseen, blurred>>
  BY DEF DropIndex, data, history
<1>2. used' \in Nat /\ drp' \in Drops /\ mem' \in Definitions
  BY <1>1, Typed, UsedTyped, RestTyped DEF Drops
<1>3. drp'.pc = "persist" /\ drp'.before = mem /\ drp'.def = mem
  BY <1>1
<1>4. ASSUME ~blurred
      PROVE  /\ CandidatesKept
             /\ drp'.pc # "idle" => drp'.def.id \notin {0, mem'.id}
             /\ drp'.pc = "table" => drp'.def.id # disk'.id
             /\ DurableInv'
  <2>1. DefInv
    BY <1>4 DEF IInv
  <2>2. CandidatesKept
    BY <1>1, <1>3, <2>1, FewerCandidates DEF Candidates
  <2>3. mem.id # 0
    BY <1>1, <2>1 DEF DefInv, Candidates
  <2>4. QED
    BY <1>1, <1>3, <2>2, <2>3, RestTyped DEF DurableInv
<1>5. QED
  BY <1>1, <1>2, <1>3, <1>4, Typed, MetaMoves

LEMMA DropPersistKeeps ==
    ASSUME IInv, DropPersist
    PROVE  IInv'
<1>1. /\ drp.pc = "persist" /\ disk' = mem /\ drp' = [drp EXCEPT !.pc = "table"]
      /\ UNCHANGED <<kind, up, mem, next, dNext, val, made, ents, bld, alt, wr, used, together, unseen, blurred>>
  BY DEF DropPersist, data, history
<1>2. /\ up /\ drp' \in Drops /\ drp'.pc = "table" /\ drp'.before = drp.before /\ drp'.def = drp.def
      /\ drp.before = drp.def
  BY <1>1, Typed DEF Drops
<1>3. ASSUME ~blurred
      PROVE  /\ CandidatesKept
             /\ drp'.pc # "idle" => drp'.def.id \notin {0, mem'.id}
             /\ drp'.pc = "table" => drp'.def.id # disk'.id
             /\ DurableInv'
  <2>1. DefInv
    BY <1>3 DEF IInv
  <2>2. CandidatesKept
    BY <1>1, <1>2, <2>1, FewerCandidates DEF Candidates
  <2>3. QED
    BY <1>1, <1>2, <2>1, <2>2 DEF DefInv, DurableInv
<1>4. QED
  BY <1>1, <1>2, <1>3, Typed, MetaMoves

LEMMA DropThrowsKeeps ==
    ASSUME IInv, DropThrows
    PROVE  IInv'
<1>1. /\ drp.pc = "persist" /\ Fault /\ mem' = drp.before /\ disk' \in {disk, mem} /\ drp' = RestD
      /\ blurred' = (blurred \/ mem # NoIndex \/ disk' # drp.before)
      /\ UNCHANGED <<kind, up, next, dNext, val, made, ents, bld, alt, wr, together, unseen>>
  BY DEF DropThrows, data
<1>2. up /\ used' \in Nat /\ mem' \in Definitions /\ drp' \in Drops /\ drp'.pc = "idle"
  BY <1>1, Typed, UsedTyped, RestTyped DEF Drops
<1>3. ASSUME ~blurred' PROVE ~blurred /\ CandidatesKept /\ DurableInv'
  <2>1. ~blurred /\ disk' = mem' /\ mem' = drp.before
    BY <1>1, <1>3, Typed
  <2>2. DefInv
    BY <2>1 DEF IInv
  <2>3. drp.before \in Candidates
    BY <1>1 DEF Candidates
  <2>4. Candidates' = {mem'}
    BY <1>2, <2>1 DEF Candidates
  <2>5. CandidatesKept
    BY <2>1, <2>2, <2>3, <2>4, FewerCandidates
  <2>6. QED
    BY <2>1, <2>5 DEF DurableInv
<1>4. QED
  BY <1>1, <1>2, <1>3, Typed, MetaMoves

LEMMA AlterKeeps ==
    ASSUME IInv, Alter
    PROVE  IInv'
<1>1. PICK v \in BOOLEAN : alt' = [pc |-> "persist", copy |-> mem, byValue |-> v]
  BY DEF Alter
<1>2. /\ Event
      /\ UNCHANGED <<kind, up, mem, disk, next, dNext, val, made, ents, bld, drp, wr, together, unseen, blurred>>
  BY DEF Alter, meta, data, history
<1>3. used' \in Nat /\ alt' \in Alters
  BY <1>1, <1>2, Typed, UsedTyped DEF Alters
<1>4. ASSUME ~blurred
      PROVE  /\ CandidatesKept
             /\ drp'.pc # "idle" => drp'.def.id \notin {0, mem'.id}
             /\ drp'.pc = "table" => drp'.def.id # disk'.id
             /\ DurableInv'
  <2>1. DefInv /\ DurableInv
    BY <1>4 DEF IInv
  <2>2. CandidatesKept
    BY <1>2, <2>1, SameCandidates
  <2>3. QED
    BY <1>2, <2>1, <2>2 DEF DefInv, DurableInv
<1>5. QED
  BY <1>2, <1>3, <1>4, Typed, MetaMoves

LEMMA AlterPersistKeeps ==
    ASSUME IInv, AlterPersist
    PROVE  IInv'
<1>1. /\ disk' \in {alt.copy, mem} /\ blurred' = (blurred \/ disk' # mem) /\ alt' = RestA
      /\ UNCHANGED <<kind, up, mem, next, dNext, val, made, ents, bld, drp, wr, used, together, unseen>>
  BY DEF AlterPersist, data
<1>2. disk' \in Definitions /\ alt' \in Alters
  BY <1>1, Typed, RestTyped DEF Alters
<1>3. ASSUME ~blurred'
      PROVE  /\ ~blurred /\ CandidatesKept
             /\ drp'.pc # "idle" => drp'.def.id \notin {0, mem'.id}
             /\ drp'.pc = "table" => drp'.def.id # disk'.id
             /\ DurableInv'
  <2>1. ~blurred /\ disk' = mem
    BY <1>1, <1>3, Typed
  <2>2. DefInv
    BY <2>1 DEF IInv
  <2>3. CandidatesKept
    BY <1>1, <2>1, <2>2, FewerCandidates DEF Candidates
  <2>4. QED
    BY <1>1, <2>1, <2>2, <2>3 DEF DefInv, DurableInv
<1>4. QED
  BY <1>1, <1>2, <1>3, Typed, MetaMoves

LEMMA AlterThrowsKeeps ==
    ASSUME IInv, AlterThrows
    PROVE  IInv'
<1>1. /\ mem' = alt.copy /\ disk' \in {disk, mem} /\ blurred' = (blurred \/ mem # alt.copy) /\ alt' = RestA /\ Fault
      /\ UNCHANGED <<kind, up, next, dNext, val, made, ents, bld, drp, wr, together, unseen>>
  BY DEF AlterThrows, data
<1>2. mem' \in Definitions /\ alt' \in Alters /\ used' \in Nat
  BY <1>1, Typed, RestTyped, UsedTyped DEF Alters
<1>3. ASSUME ~blurred'
      PROVE  /\ ~blurred /\ CandidatesKept
             /\ drp'.pc # "idle" => drp'.def.id \notin {0, mem'.id}
             /\ drp'.pc = "table" => drp'.def.id # disk'.id
             /\ DurableInv'
  <2>1. ~blurred /\ mem' = mem
    BY <1>1, <1>3, Typed
  <2>2. DefInv /\ DurableInv
    BY <2>1 DEF IInv
  <2>3. CandidatesKept
    BY <1>1, <2>1, <2>2, FewerCandidates DEF Candidates
  <2>4. QED
    BY <1>1, <2>1, <2>2, <2>3 DEF DefInv, DurableInv
<1>4. QED
  BY <1>1, <1>2, <1>3, Typed, MetaMoves

LEMMA CrashKeeps ==
    ASSUME IInv, Crash
    PROVE  IInv'
<1>1. /\ Event /\ up' = FALSE /\ mem' = NoIndex /\ next' = 1 /\ drp' = RestD /\ alt' = RestA
      /\ bld' = [b \in Builders |-> RestB] /\ wr' = [w \in Writers |-> RestW]
      /\ UNCHANGED <<kind, disk, dNext, val, made, ents, together, unseen, blurred>>
  BY DEF Crash, data, history
<1>2. /\ used' \in Nat /\ mem' \in Definitions /\ drp' \in Drops /\ alt' \in Alters /\ drp'.pc = "idle"
      /\ next' \in 1 .. MaxCreates + 1 /\ bld' \in [Builders -> Builds] /\ wr' \in [Writers -> Writes]
      /\ (\A b \in Builders : bld'[b] = RestB /\ bld'[b].pc = "idle") /\ \A w \in Writers : wr'[w] = RestW
  BY <1>1, Typed, RestTyped, UsedTyped, IndexDdlAssumption
<1>3. ASSUME ~blurred PROVE CandidatesKept /\ DurableInv'
  <2>1. DefInv
    BY <1>3 DEF IInv
  <2>2. CandidatesKept
    BY <1>1, <1>2, <2>1, FewerCandidates DEF Candidates
  <2>3. QED
    BY <1>1, <2>2, RestTyped DEF DurableInv
<1>4. QED
  BY <1>1, <1>2, <1>3, Typed, MetaMoves

LEMMA OpenKeeps ==
    ASSUME IInv, Open
    PROVE  IInv'
<1>1. /\ ~up /\ up' = TRUE /\ mem' = disk /\ next' = dNext
      /\ UNCHANGED <<kind, disk, dNext, val, made, ents, bld, drp, alt, wr, used, together, unseen, blurred>>
  BY DEF Open, data, history
<1>2. drp.pc = "idle" /\ \A b \in Builders : bld[b].pc = "idle"
  BY <1>1, Typed
<1>3. ASSUME ~blurred PROVE CandidatesKept /\ DurableInv'
  <2>1. DefInv
    BY <1>3 DEF IInv
  <2>2. CandidatesKept
    BY <1>1, <1>2, <2>1, FewerCandidates DEF Candidates
  <2>3. QED
    BY <1>1, <2>2 DEF DurableInv
<1>4. QED
  BY <1>1, <1>2, <1>3, Typed, MetaMoves

-----------------------------------------------------------------------------
(* A new index, and its publication *)

\* The id of a new index is not the id of any index, build or statement.
LEMMA CreateIndexKeeps ==
    ASSUME IInv, NEW b \in Builders, CreateIndex(b)
    PROVE  IInv'
<1>1. PICK u \in Uniques :
        /\ mem' = [st |-> "WRITE_ONLY", id |-> next, uniq |-> u]
        /\ bld' = [bld EXCEPT ![b] = [RestB EXCEPT !.pc = "persist", !.def = mem', !.before = mem]]
  BY DEF CreateIndex
<1> DEFINE s == [RestB EXCEPT !.pc = "persist", !.def = mem', !.before = mem]
<1>2. /\ up /\ bld[b].pc = "idle" /\ mem.st = "none" /\ next <= MaxCreates /\ Event /\ next' = next + 1
      /\ blurred' = (blurred \/ next \in Around \/ \E w \in Writers : wr[w].pc # "idle" /\ wr[w].def.id = next)
      /\ UNCHANGED <<kind, up, disk, dNext, val, made, ents, drp, alt, wr, together, unseen>>
  BY DEF CreateIndex, data
<1>3. TypeOK /\ IdInv /\ WriteSetInv /\ bld \in [Builders -> Builds] /\ used' \in Nat /\ next \in Nat \ {0}
      /\ mem \in Definitions /\ blurred \in BOOLEAN
  BY <1>2, UsedTyped, IndexDdlAssumption DEF IInv, TypeOK
<1>4. mem' \in Definitions /\ mem'.st = "WRITE_ONLY" /\ mem'.id = next /\ next' \in 1 .. MaxCreates + 1
  BY <1>1, <1>2, <1>3, IndexDdlAssumption DEF Definitions, States
<1>5. /\ s \in Builds /\ s.pc = "persist" /\ s.def = mem' /\ s.before = mem /\ s.batch = {} /\ s.at = 1
      /\ bld'[b] = s /\ bld' \in [Builders -> Builds] /\ \A c \in Builders : c # b => bld'[c] = bld[c]
  BY <1>1, <1>3, <1>4, RestTyped DEF Builds, BuildSteps
<1> HIDE DEF s
<1>6. TypeOK'
  <2>1. \A c \in Builders : Cardinality(bld'[c].batch) <= BatchRows
    BY <1>3, <1>5, EmptyBatch DEF TypeOK
  <2>2. QED
    BY <1>2, <1>3, <1>4, <1>5, <2>1 DEF TypeOK
<1>7. \A c \in Builders : c # b /\ bld[c].pc # "idle" => bld[c].def.id \in 1 .. (next - 1) /\ bld[c].def.id # next
  BY <1>3 DEF IdInv
<1>8. IdInv'
  <2>1. \A c \in Builders : bld'[c].pc # "idle" => bld'[c].def.id \in 1 .. (next' - 1)
    BY <1>2, <1>3, <1>4, <1>5, <1>7
  <2>2. QED
    BY <1>2, <1>3, <1>4, <1>5, <1>7, <2>1 DEF IdInv
<1>9. WriteSetInv'
  BY <1>2, <1>3, <1>5 DEF WriteSetInv, TableOf
<1>10. ASSUME ~blurred' PROVE DefInv' /\ DurableInv' /\ DataInv'
  <2>1. ~blurred /\ next \notin Around /\ \A w \in Writers : wr[w].pc # "idle" => wr[w].def.id # next
    BY <1>2, <1>3, <1>10
  <2>2. DefInv /\ DataInv
    BY <2>1 DEF IInv
  <2>3. \A d \in Candidates' : d = mem' \/ (d \in Candidates /\ d.id # next)
    BY <1>2, <1>3, <2>1 DEF Candidates, Around, IdInv
  <2>4. mem = NoIndex
    BY <1>2, <2>2 DEF DefInv, Candidates
  <2>5. \A d \in Candidates' : IF d.st = "none" THEN d = NoIndex ELSE d.id # 0
    BY <1>3, <1>4, <2>2, <2>3 DEF DefInv
  <2>6. \A d, c \in Candidates' : d.id = c.id => d.uniq = c.uniq
    BY <1>4, <2>2, <2>3 DEF DefInv
  <2>7. \A d \in Candidates', c \in Builders : bld'[c].pc # "idle" /\ d.id = bld'[c].def.id =>
          d.uniq = bld'[c].def.uniq /\ (bld'[c].pc \in Unpublished => d.st # "PUBLIC")
    BY <1>4, <1>5, <1>7, <2>2, <2>3 DEF DefInv
  <2>8. \A d \in Candidates', w \in Writers :
          d.st # "none" /\ wr'[w].pc # "idle" /\ d.id = wr'[w].def.id => d.uniq = wr'[w].def.uniq
    BY <1>2, <1>4, <2>1, <2>2, <2>3 DEF DefInv
  <2>9. ASSUME NEW c \in Builders
        PROVE  /\ bld'[c].pc = "persist" => bld'[c].before = NoIndex
               /\ bld'[c].pc = "publish" => bld'[c].before.st \notin {"none", "PUBLIC"}
    BY <1>5, <2>2, <2>4 DEF DefInv
  <2>10. drp'.pc # "idle" => drp'.def.id \notin {0, mem'.id}
    BY <1>2, <1>3, <1>4, <2>1, <2>2 DEF DefInv, Around
  <2>11. drp'.pc = "table" => drp'.def.id # disk'.id
    BY <1>2, <2>2 DEF DefInv
  <2>12. DefInv'
    BY <2>5, <2>6, <2>7, <2>8, <2>9, <2>10, <2>11 DEF DefInv
  <2>13. DurableInv'
    BY <1>4 DEF DurableInv
  <2>14. DataInv'
    <3>1. Now' = Now
      BY <1>2 DEF Now
    <3>2. \A i \in Ids' : i = next \/ i \in Ids
      <4>1. Ids' = {d.id : d \in {c \in Candidates' : c.st # "none"}}
        BY DEF Ids
      <4>2. QED
        BY <1>4, <2>3, <4>1 DEF Ids
    <3>3. \A d \in Candidates' : d.st = "PUBLIC" => PublicOK(Now, d)
      BY <1>4, <2>2, <2>3 DEF DataInv
    <3>4. \A c \in Builders : bld'[c].pc \in {"scan", "commit"} /\ bld'[c].def.id \in Ids' => BuildOK(Now, bld'[c])
      BY <1>5, <1>7, <2>2, <3>2 DEF DataInv
    <3>5. \A w \in Writers : wr'[w].pc = "done" /\ Live(wr'[w].def) /\ wr'[w].def.id \in Ids' => WriteOK(Now, wr'[w])
      BY <1>2, <2>1, <2>2, <3>2 DEF DataInv
    <3>6. QED
      BY <3>1, <3>3, <3>4, <3>5 DEF DataInv
  <2>15. QED
    BY <2>12, <2>13, <2>14
<1>11. QED
  BY <1>6, <1>8, <1>9, <1>10 DEF IInv

\* What an index contains depends on its id and on whether it is UNIQUE.
LEMMA SameIndex ==
    ASSUME NEW x, NEW d, NEW c, d.id = c.id, d.uniq = c.uniq, PublicOK(x, d)
    PROVE  PublicOK(x, c)
<1>1. TableIn(x, d) = TableIn(x, c)
  BY DEF TableIn
<1>2. Unique(x, c)
  BY <1>1 DEF PublicOK, Unique, ClashExcused
<1>3. QED
  BY <1>1, <1>2 DEF PublicOK, Marked, Exact, Mine

\* A build that has scanned everything leaves a complete index.
LEMMA SetStateKeeps ==
    ASSUME IInv, NEW b \in Builders, SetState(b)
    PROVE  IInv'
<1>1. /\ bld[b].pc = "error" \/ Scanned(b)
      /\ UNCHANGED <<kind, up, disk, next, dNext, val, made, ents, drp, alt, wr, used, together, unseen>>
  BY DEF SetState, data
<1>2. bld[b].pc \in Unpublished /\ bld[b].pc # "idle"
  BY <1>1 DEF Scanned, Unpublished
<1>3. TypeOK /\ IdInv /\ WriteSetInv /\ bld \in [Builders -> Builds] /\ mem \in Definitions /\ used \in Nat
      /\ blurred \in BOOLEAN
  BY DEF IInv, TypeOK
<1>4. CASE mem.st = "none"
  <2>1. bld' = [bld EXCEPT ![b] = RestB] /\ UNCHANGED <<mem, blurred>>
    BY <1>4 DEF SetState, Return
  <2>2. UNCHANGED <<meta, data, drp, alt, wr, history>> /\ used' \in Nat
    BY <1>1, <1>3, <2>1 DEF meta, data, history
  <2>3. RestB \in Builds /\ RestB.pc = "idle" /\ RestB.batch = {} /\ Cardinality(RestB.batch) <= BatchRows
    BY RestTyped, EmptyBatch
  <2>4. QED
    BY <1>2, <2>1, <2>2, <2>3, BuildMoves
<1>5. CASE mem.st # "none"
  <2> DEFINE st == IF bld[b].pc = "error" THEN "ERROR" ELSE "PUBLIC"
             s == [bld[b] EXCEPT !.pc = "publish", !.before = mem]
  <2>1. mem' = [mem EXCEPT !.st = st] /\ bld' = [bld EXCEPT ![b] = s] /\ blurred' = (blurred \/ mem.id # bld[b].def.id)
    BY <1>5 DEF SetState
  <2>2. mem' \in Definitions /\ mem'.st = st /\ mem'.id = mem.id /\ mem'.uniq = mem.uniq
    BY <1>3, <2>1 DEF Definitions, States
  <2>3. /\ s \in Builds /\ s.pc = "publish" /\ s.def = bld[b].def /\ s.before = mem
        /\ s.batch = bld[b].batch /\ s.at = bld[b].at
    BY <1>3 DEF Builds, BuildSteps
  <2>4. bld'[b] = s /\ bld' \in [Builders -> Builds] /\ \A c \in Builders : c # b => bld'[c] = bld[c]
    BY <1>3, <2>1, <2>3
  <2> HIDE DEF s
  <2>5. TypeOK'
    <3>1. \A c \in Builders : Cardinality(bld'[c].batch) <= BatchRows
      BY <1>3, <2>3, <2>4 DEF TypeOK
    <3>2. QED
      BY <1>1, <1>3, <2>1, <2>2, <2>4, <3>1 DEF TypeOK
  <2>6. IdInv'
    BY <1>1, <1>2, <1>3, <2>3, <2>4 DEF IdInv
  <2>7. WriteSetInv'
    BY <1>1, <1>3, <2>3, <2>4 DEF WriteSetInv, TableOf
  <2>8. ASSUME ~blurred' PROVE DefInv' /\ DurableInv' /\ DataInv'
    <3>1. ~blurred /\ mem.id = bld[b].def.id
      BY <1>3, <2>1, <2>8
    <3>2. DefInv /\ DataInv /\ mem \in Candidates
      BY <3>1 DEF IInv, Candidates
    <3>3. mem.st # "PUBLIC" /\ mem.uniq = bld[b].def.uniq /\ mem.id # 0
      BY <1>2, <1>5, <3>1, <3>2 DEF DefInv
    <3>4. \A d \in Candidates' : d = mem' \/ d \in Candidates
      BY <1>1 DEF Candidates
    <3>5. \A c \in Builders : c # b /\ bld[c].pc # "idle" => bld[c].def.id # mem.id
      BY <1>2, <1>3, <3>1 DEF IdInv
    <3>6. st \in {"ERROR", "PUBLIC"}
      OBVIOUS
    <3>7. \A d \in Candidates' : IF d.st = "none" THEN d = NoIndex ELSE d.id # 0
      BY <2>2, <3>2, <3>3, <3>4, <3>6 DEF DefInv
    <3>8. \A d, c \in Candidates' : d.id = c.id => d.uniq = c.uniq
      BY <2>2, <3>2, <3>4 DEF DefInv
    <3>9. \A d \in Candidates', c \in Builders : bld'[c].pc # "idle" /\ d.id = bld'[c].def.id =>
            d.uniq = bld'[c].def.uniq /\ (bld'[c].pc \in Unpublished => d.st # "PUBLIC")
      <4>1. s.pc \notin Unpublished
        BY <2>3 DEF Unpublished
      <4>2. QED
        BY <1>2, <2>2, <2>3, <2>4, <3>2, <3>3, <3>4, <3>5, <4>1 DEF DefInv
    <3>10. \A d \in Candidates', w \in Writers :
            d.st # "none" /\ wr'[w].pc # "idle" /\ d.id = wr'[w].def.id => d.uniq = wr'[w].def.uniq
      BY <1>1, <1>5, <2>2, <3>2, <3>4 DEF DefInv
    <3>11. ASSUME NEW c \in Builders
           PROVE  /\ bld'[c].pc = "persist" => bld'[c].before = NoIndex
                  /\ bld'[c].pc = "publish" => bld'[c].before.st \notin {"none", "PUBLIC"}
      BY <1>5, <2>3, <2>4, <3>2, <3>3 DEF DefInv
    <3>12. DefInv'
      BY <1>1, <2>2, <3>2, <3>7, <3>8, <3>9, <3>10, <3>11 DEF DefInv
    <3>13. DurableInv'
      BY <2>3, <2>4 DEF DurableInv
    <3>14. Now' = Now
      BY <1>1 DEF Now
    <3>15. Ids' \subseteq Ids
      <4>1. Ids' = {d.id : d \in {c \in Candidates' : c.st # "none"}}
        BY DEF Ids
      <4>2. QED
        BY <1>5, <2>2, <3>2, <3>4, <4>1 DEF Ids
    <3>16. mem'.st = "PUBLIC" => PublicOK(Now, mem')
      <4>1. SUFFICES ASSUME mem'.st = "PUBLIC" PROVE PublicOK(Now, mem')
        OBVIOUS
      <4>2. bld[b].pc = "scan" /\ bld[b].at \notin Entities /\ bld[b].batch = {}
        BY <1>1, <2>2, <4>1 DEF Scanned
      <4>3. bld[b].def.id \in Ids
        BY <1>5, <3>1, <3>2 DEF Ids
      <4>4. BuildOK(Now, bld[b])
        BY <3>2, <4>2, <4>3 DEF DataInv
      <4>5. bld[b].at \in 1 .. MaxEntity + 1
        BY <1>3 DEF Builds
      <4>6. \A e \in Entities : e < bld[b].at
        BY <4>2, <4>5, IndexDdlAssumption DEF Entities
      <4>7. PublicOK(Now, bld[b].def)
        BY <4>2, <4>4, <4>6 DEF BuildOK, PublicOK
      <4>8. QED
        BY <2>2, <3>1, <3>3, <4>7, SameIndex
    <3>17. \A d \in Candidates' : d.st = "PUBLIC" => PublicOK(Now, d)
      BY <3>2, <3>4, <3>16 DEF DataInv
    <3>18. \A c \in Builders : bld'[c].pc \in {"scan", "commit"} /\ bld'[c].def.id \in Ids' => BuildOK(Now, bld'[c])
      BY <2>3, <2>4, <3>2, <3>15 DEF DataInv
    <3>19. \A w \in Writers : wr'[w].pc = "done" /\ Live(wr'[w].def) /\ wr'[w].def.id \in Ids' => WriteOK(Now, wr'[w])
      BY <1>1, <3>2, <3>15 DEF DataInv
    <3>20. DataInv'
      BY <3>14, <3>17, <3>18, <3>19 DEF DataInv
    <3>21. QED
      BY <3>12, <3>13, <3>20
  <2>9. QED
    BY <2>5, <2>6, <2>7, <2>8 DEF IInv
<1>6. QED
  BY <1>4, <1>5

-----------------------------------------------------------------------------
(* Steps that change committed data, from a snapshot x to a snapshot y *)

\* Marks are never taken back.
Later(x, y) == y.kind = x.kind /\ x.together \subseteq y.together /\ x.unseen \subseteq y.unseen

LEMMA StillExcused ==
    ASSUME NEW x, NEW y, NEW d, NEW p, NEW q, Later(x, y), ClashExcused(x, d, p, q)
    PROVE  ClashExcused(y, d, p, q) /\ ClashExcused(y, d, q, p)
<1>1. {p[2], q[2]} = {q[2], p[2]}
  OBVIOUS
<1>2. QED
  BY <1>1 DEF Later, ClashExcused

LEMMA StillMarked ==
    ASSUME NEW x, NEW y, NEW d, NEW e, Later(x, y), ~Marked(y, d, e)
    PROVE  ~Marked(x, d, e)
BY DEF Later, Marked

\* An index whose table the step leaves alone.
LEMMA TableAlone ==
    ASSUME NEW x, NEW y, NEW d, Later(x, y), y.val = x.val,
           TableIn(x, d) \in x.made => TableIn(x, d) \in y.made,
           y.ents[TableIn(x, d)] = x.ents[TableIn(x, d)]
    PROVE  /\ PublicOK(x, d) => PublicOK(y, d)
           /\ \A s : s.def = d /\ BuildOK(x, s) => BuildOK(y, s)
           /\ \A s : s.def = d /\ WriteOK(x, s) => WriteOK(y, s)
<1>1. TableIn(y, d) = TableIn(x, d)
  BY DEF TableIn, Later
<1>2. \A p, q : ClashExcused(x, d, p, q) => ClashExcused(y, d, p, q)
  BY StillExcused
<1>3. \A e : ~Marked(y, d, e) => ~Marked(x, d, e)
  BY StillMarked
<1>4. \A e : Mine(y, d, e) = Mine(x, d, e)
  BY <1>1 DEF Mine
<1>5. \A e : Exact(x, d, e) => Exact(y, d, e)
  BY <1>4 DEF Exact, Later
<1>6. Unique(x, d) => Unique(y, d)
  BY <1>1, <1>2 DEF Unique
<1>7. PublicOK(x, d) => PublicOK(y, d)
  BY <1>1, <1>3, <1>5, <1>6 DEF PublicOK
<1>8. ASSUME NEW s, s.def = d, BuildOK(x, s) PROVE BuildOK(y, s)
  BY <1>1, <1>2, <1>3, <1>4, <1>5, <1>6, <1>8 DEF BuildOK
<1>9. ASSUME NEW s, s.def = d, WriteOK(x, s) PROVE WriteOK(y, s)
  BY <1>1, <1>2, <1>3, <1>9 DEF WriteOK, Later
<1>10. QED
  BY <1>7, <1>8, <1>9

\* An index for which the only entity that the step writes is marked.
LEMMA OneMarked ==
    ASSUME NEW x, NEW y, NEW d, NEW e, Later(x, y), y.made = x.made, <<d.id, e>> \in y.unseen,
           \A f \in Entities : f # e => y.val[f] = x.val[f],
           \A p : p[2] # e => (p \in y.ents[TableIn(x, d)] <=> p \in x.ents[TableIn(x, d)])
    PROVE  /\ PublicOK(x, d) => PublicOK(y, d)
           /\ \A s : s.def = d /\ BuildOK(x, s) => BuildOK(y, s)
           /\ \A s : s.def = d /\ s.e \in Entities /\ s.e # e /\ WriteOK(x, s) => WriteOK(y, s)
<1> DEFINE T == TableIn(x, d)
<1>1. TableIn(y, d) = T
  BY DEF TableIn, Later
<1>2. \A p, q : ClashExcused(x, d, p, q) => ClashExcused(y, d, p, q)
  BY StillExcused
<1>3. \A f : ~Marked(y, d, f) => ~Marked(x, d, f) /\ f # e
  BY StillMarked DEF Marked
<1>4. \A f : f # e => Mine(y, d, f) = Mine(x, d, f)
  BY <1>1 DEF Mine
<1>5. \A f \in Entities : f # e /\ Exact(x, d, f) => Exact(y, d, f)
  BY <1>4 DEF Exact, Later
<1>6. \A p, q : p[2] = e \/ q[2] = e => ClashExcused(y, d, p, q)
  BY DEF ClashExcused
<1>7. Unique(x, d) => Unique(y, d)
  BY <1>1, <1>2, <1>6 DEF Unique
<1>8. PublicOK(x, d) => PublicOK(y, d)
  BY <1>1, <1>3, <1>5, <1>7 DEF PublicOK
<1>9. ASSUME NEW s, s.def = d, BuildOK(x, s) PROVE BuildOK(y, s)
  <2>1. ASSUME s.pc = "commit", d.uniq, NEW p \in s.txn.puts, NEW q \in s.txn.puts \cup y.ents[T]
        PROVE  ClashExcused(y, d, p, q)
    <3>1. CASE q[2] = e
      BY <1>6, <3>1
    <3>2. CASE q[2] # e
      <4>1. q \in s.txn.puts \cup x.ents[T]
        BY <2>1, <3>2
      <4>2. ClashExcused(x, d, p, q)
        BY <1>9, <2>1, <4>1 DEF BuildOK
      <4>3. QED
        BY <1>2, <4>2
    <3>3. QED
      BY <3>1, <3>2
  <2>2. ASSUME NEW f \in Entities, ~Marked(y, d, f)
        PROVE  /\ Mine(y, d, f) \subseteq EntryOf(y.val[f], f)
               /\ f < s.at /\ f \notin s.batch => Exact(y, d, f)
               /\ s.pc = "commit" /\ f \in s.batch => {p \in s.txn.puts : p[2] = f} = EntryOf(y.val[f], f)
    <3>1. f # e /\ ~Marked(x, d, f) /\ y.val[f] = x.val[f]
      BY <1>3, <2>2
    <3>2. QED
      BY <1>4, <1>5, <1>9, <2>2, <3>1 DEF BuildOK
  <2>3. T \in y.made /\ Unique(y, d)
    BY <1>7, <1>9 DEF BuildOK
  <2> HIDE DEF T
  <2>4. QED
    BY <1>1, <1>9, <2>1, <2>2, <2>3 DEF BuildOK
<1>10. ASSUME NEW s, s.def = d, s.e \in Entities, s.e # e, WriteOK(x, s) PROVE WriteOK(y, s)
  <2>1. ASSUME ~Marked(y, d, s.e)
        PROVE  /\ s.txn.dels = EntryOf(y.val[s.e], s.e) \cap y.ents[T]
               /\ s.txn.puts = EntryOf(s.new, s.e) \/ (y.kind = "edge" /\ d.uniq /\ s.txn.puts = {})
    <3>1. /\ s.txn.dels = EntryOf(x.val[s.e], s.e) \cap x.ents[T] /\ y.val[s.e] = x.val[s.e]
          /\ s.txn.puts = EntryOf(s.new, s.e) \/ (y.kind = "edge" /\ d.uniq /\ s.txn.puts = {})
      BY <1>3, <1>10, <2>1 DEF WriteOK, Later
    <3>2. \A p \in EntryOf(x.val[s.e], s.e) : p[2] # e
      BY <1>10 DEF EntryOf
    <3>3. QED
      BY <3>1, <3>2
  <2>2. ASSUME d.uniq, NEW p \in s.txn.puts, NEW q \in y.ents[T] PROVE ClashExcused(y, d, p, q)
    <3>1. CASE q[2] = e
      BY <1>6, <3>1
    <3>2. CASE q[2] # e
      <4>1. q \in x.ents[T]
        BY <2>2, <3>2
      <4>2. ClashExcused(x, d, p, q)
        BY <1>10, <2>2, <4>1 DEF WriteOK
      <4>3. QED
        BY <1>2, <4>2
    <3>3. QED
      BY <3>1, <3>2
  <2> HIDE DEF T
  <2>3. QED
    BY <1>1, <1>10, <2>1, <2>2 DEF WriteOK
<1>11. QED
  BY <1>8, <1>9, <1>10

\* The index that the committing writer r maintains.
LEMMA OwnWrite ==
    ASSUME NEW x, NEW y, NEW d, NEW r, Later(x, y), y.made = x.made,
           r.def.id = d.id, r.def.uniq = d.uniq, WriteOK(x, r),
           r.txn.puts \subseteq EntryOf(r.new, r.e), \A p \in r.txn.dels : p[2] = r.e,
           y.val[r.e] = r.new, \A f \in Entities : f # r.e => y.val[f] = x.val[f],
           y.ents[TableIn(x, d)] = (x.ents[TableIn(x, d)] \ r.txn.dels) \cup r.txn.puts
    PROVE  /\ PublicOK(x, d) => PublicOK(y, d)
           /\ \A s : /\ s.def = d /\ BuildOK(x, s)
                     /\ s.pc = "commit" => /\ \A p \in s.txn.puts : p[2] \in s.batch
                                           /\ \A f \in s.batch : <<d.id, {r.e, f}>> \in y.together
                     => BuildOK(y, s)
           /\ \A s : /\ s.def = d /\ s.e \in Entities /\ s.e # r.e /\ WriteOK(x, s)
                     /\ \A p \in s.txn.puts : p[2] = s.e
                     /\ <<d.id, {r.e, s.e}>> \in y.together
                     => WriteOK(y, s)
<1> DEFINE T == TableIn(x, d)
           e == r.e
<1>1. TableIn(y, d) = T /\ TableIn(x, r.def) = T
  BY DEF TableIn, Later
<1>2. \A p, q : ClashExcused(x, d, p, q) => ClashExcused(y, d, p, q)
  BY StillExcused
<1>3. \A f : ~Marked(y, d, f) => ~Marked(x, d, f) /\ ~Marked(x, r.def, f)
  BY StillMarked DEF Marked
<1>4. \A p \in r.txn.puts : p[2] = e
  BY DEF EntryOf
<1>5. \A p : p[2] # e => (p \in y.ents[T] <=> p \in x.ents[T])
  BY <1>4
<1>6. \A f : f # e => Mine(y, d, f) = Mine(x, d, f)
  BY <1>1, <1>5 DEF Mine
<1>7. \A f \in Entities : f # e /\ Exact(x, d, f) => Exact(y, d, f)
  BY <1>6 DEF Exact, Later
<1>8. ASSUME ~Marked(y, d, e), Mine(x, d, e) \subseteq EntryOf(x.val[e], e)
      PROVE  Mine(y, d, e) = r.txn.puts /\ Exact(y, d, e)
  <2>1. r.txn.dels = EntryOf(x.val[e], e) \cap x.ents[T]
    BY <1>1, <1>3, <1>8 DEF WriteOK
  <2>2. r.txn.puts = EntryOf(r.new, e) \/ (x.kind = "edge" /\ d.uniq /\ r.txn.puts = {})
    BY <1>3, <1>8 DEF WriteOK
  <2>3. Mine(x, d, e) \subseteq r.txn.dels
    BY <1>8, <2>1 DEF Mine
  <2>4. Mine(y, d, e) = r.txn.puts
    BY <1>1, <1>4, <2>3 DEF Mine
  <2>5. QED
    BY <2>2, <2>4 DEF Exact, Later
<1>9. ASSUME Unique(x, d) PROVE Unique(y, d)
  <2>1. SUFFICES ASSUME d.uniq, NEW p \in y.ents[T], NEW q \in y.ents[T] PROVE ClashExcused(y, d, p, q)
    BY <1>1 DEF Unique
  <2>2. CASE p \in x.ents[T] /\ q \in x.ents[T]
    BY <1>2, <1>9, <2>1, <2>2 DEF Unique
  <2>3. CASE p \in r.txn.puts /\ q \in r.txn.puts
    BY <1>4, <2>3 DEF ClashExcused
  <2>4. ASSUME NEW a \in r.txn.puts, NEW c \in x.ents[T] PROVE ClashExcused(y, d, a, c) /\ ClashExcused(y, d, c, a)
    <3>1. ClashExcused(x, r.def, a, c)
      BY <1>1, <2>1, <2>4 DEF WriteOK
    <3>2. ClashExcused(x, d, a, c)
      BY <3>1 DEF ClashExcused
    <3>3. QED
      BY <3>2, StillExcused
  <2>5. QED
    BY <2>1, <2>2, <2>3, <2>4
<1>10. ASSUME PublicOK(x, d) PROVE PublicOK(y, d)
  <2>1. ASSUME NEW f \in Entities, ~Marked(y, d, f) PROVE Exact(y, d, f)
    <3>1. Exact(x, d, f)
      BY <1>3, <1>10, <2>1 DEF PublicOK
    <3>2. Mine(x, d, f) \subseteq EntryOf(x.val[f], f)
      BY <3>1 DEF Exact
    <3>3. QED
      BY <1>7, <1>8, <2>1, <3>1, <3>2
  <2>2. QED
    BY <1>1, <1>9, <1>10, <2>1 DEF PublicOK
<1>11. ASSUME NEW s, s.def = d, BuildOK(x, s),
              s.pc = "commit" => /\ \A p \in s.txn.puts : p[2] \in s.batch
                                 /\ \A f \in s.batch : <<d.id, {e, f}>> \in y.together
       PROVE  BuildOK(y, s)
  <2>1. ASSUME s.pc = "commit", d.uniq, NEW p \in s.txn.puts, NEW q \in s.txn.puts \cup y.ents[T]
        PROVE  ClashExcused(y, d, p, q)
    <3>1. CASE q \in r.txn.puts
      <4>1. q[2] = e /\ <<d.id, {e, p[2]}>> \in y.together /\ {e, p[2]} = {p[2], q[2]}
        BY <1>4, <1>11, <2>1, <3>1
      <4>2. QED
        BY <4>1 DEF ClashExcused
    <3>2. CASE q \in s.txn.puts \cup x.ents[T]
      BY <1>2, <1>11, <2>1, <3>2 DEF BuildOK
    <3>3. QED
      BY <2>1, <3>1, <3>2
  <2>2. ASSUME NEW f \in Entities, ~Marked(y, d, f)
        PROVE  /\ Mine(y, d, f) \subseteq EntryOf(y.val[f], f)
               /\ f < s.at /\ f \notin s.batch => Exact(y, d, f)
               /\ s.pc = "commit" /\ f \in s.batch => {p \in s.txn.puts : p[2] = f} = EntryOf(y.val[f], f)
    <3>1. ~Marked(x, d, f)
      BY <1>3, <2>2
    <3>2. CASE f # e
      BY <1>6, <1>7, <1>11, <2>2, <3>1, <3>2 DEF BuildOK
    <3>3. CASE f = e
      <4>1. Mine(x, d, e) \subseteq EntryOf(x.val[e], e)
        BY <1>11, <2>2, <3>1, <3>3 DEF BuildOK
      <4>2. Mine(y, d, e) = r.txn.puts /\ Exact(y, d, e)
        BY <1>8, <2>2, <3>3, <4>1
      <4>3. ~(s.pc = "commit" /\ f \in s.batch)
        BY <1>11, <2>2, <3>3, {e, e} = {e} DEF Marked
      <4>4. QED
        BY <3>3, <4>2, <4>3
    <3>4. QED
      BY <3>2, <3>3
  <2>3. T \in y.made /\ Unique(y, d)
    BY <1>9, <1>11 DEF BuildOK
  <2> HIDE DEF T
  <2>4. QED
    BY <1>1, <1>11, <2>1, <2>2, <2>3 DEF BuildOK
<1>12. ASSUME NEW s, s.def = d, s.e \in Entities, s.e # e, WriteOK(x, s), \A p \in s.txn.puts : p[2] = s.e,
              <<d.id, {e, s.e}>> \in y.together
       PROVE  WriteOK(y, s)
  <2>1. ASSUME ~Marked(y, d, s.e)
        PROVE  /\ s.txn.dels = EntryOf(y.val[s.e], s.e) \cap y.ents[T]
               /\ s.txn.puts = EntryOf(s.new, s.e) \/ (y.kind = "edge" /\ d.uniq /\ s.txn.puts = {})
    <3>1. /\ s.txn.dels = EntryOf(x.val[s.e], s.e) \cap x.ents[T] /\ y.val[s.e] = x.val[s.e]
          /\ s.txn.puts = EntryOf(s.new, s.e) \/ (y.kind = "edge" /\ d.uniq /\ s.txn.puts = {})
      BY <1>3, <1>12, <2>1 DEF WriteOK, Later
    <3>2. \A p \in EntryOf(x.val[s.e], s.e) : p[2] # e
      BY <1>12 DEF EntryOf
    <3>3. QED
      BY <1>5, <3>1, <3>2
  <2>2. ASSUME d.uniq, NEW p \in s.txn.puts, NEW q \in y.ents[T] PROVE ClashExcused(y, d, p, q)
    <3>1. CASE q \in r.txn.puts
      <4>1. q[2] = e /\ p[2] = s.e /\ {e, s.e} = {p[2], q[2]}
        BY <1>4, <1>12, <2>2, <3>1
      <4>2. QED
        BY <1>12, <4>1 DEF ClashExcused
    <3>2. CASE q \in x.ents[T]
      BY <1>2, <1>12, <2>2, <3>2 DEF WriteOK
    <3>3. QED
      BY <2>2, <3>1, <3>2
  <2> HIDE DEF T
  <2>3. QED
    BY <1>1, <1>12, <2>1, <2>2 DEF WriteOK
<1> HIDE DEF e
<1>13. QED
  BY <1>10, <1>11, <1>12 DEF e

\* The index that the committing batch of build r goes into.
LEMMA OwnFlush ==
    ASSUME NEW x, NEW y, NEW d, NEW r, NEW s, Later(x, y), y.made = x.made, y.val = x.val,
           r.def.id = d.id, r.pc = "commit", BuildOK(x, r), \A p \in r.txn.puts : p[2] \in r.batch,
           y.ents[TableIn(x, d)] = x.ents[TableIn(x, d)] \cup r.txn.puts
    PROVE  /\ s.def = r.def /\ s.pc = "scan" /\ s.at = r.at /\ s.batch = {} => BuildOK(y, s)
           /\ /\ s.def = d /\ WriteOK(x, s) /\ \A p \in s.txn.puts : p[2] = s.e
              /\ \A f \in r.batch : <<d.id, {f, s.e}>> \in y.together
              => WriteOK(y, s)
<1> DEFINE T == TableIn(x, d)
<1>1. TableIn(y, d) = T /\ TableIn(x, r.def) = T /\ TableIn(y, r.def) = T
  BY DEF TableIn, Later
<1>2. \A p, q : ClashExcused(x, d, p, q) => ClashExcused(y, d, p, q)
  BY StillExcused
<1>3. ASSUME s.def = r.def, s.pc = "scan", s.at = r.at, s.batch = {} PROVE BuildOK(y, s)
  <2>1. ASSUME NEW f \in Entities, ~Marked(y, r.def, f)
        PROVE  /\ Mine(y, r.def, f) \subseteq EntryOf(y.val[f], f)
               /\ f < r.at => Exact(y, r.def, f)
    <3>1. /\ ~Marked(x, r.def, f) /\ Mine(x, r.def, f) \subseteq EntryOf(x.val[f], f)
          /\ f < r.at /\ f \notin r.batch => Exact(x, r.def, f)
          /\ f \in r.batch => {p \in r.txn.puts : p[2] = f} = EntryOf(x.val[f], f)
      BY <2>1, StillMarked DEF BuildOK
    <3>2. Mine(y, r.def, f) = Mine(x, r.def, f) \cup {p \in r.txn.puts : p[2] = f}
      BY <1>1 DEF Mine
    <3>3. CASE f \in r.batch
      BY <3>1, <3>2, <3>3 DEF Exact
    <3>4. CASE f \notin r.batch
      <4>1. Mine(y, r.def, f) = Mine(x, r.def, f)
        BY <3>2, <3>4
      <4>2. QED
        BY <3>1, <3>4, <4>1 DEF Exact, Later
    <3>5. QED
      BY <3>3, <3>4
  <2>2. Unique(y, r.def)
    <3>1. SUFFICES ASSUME r.def.uniq, NEW p \in y.ents[T], NEW q \in y.ents[T] PROVE ClashExcused(y, r.def, p, q)
      BY <1>1 DEF Unique
    <3>2. CASE p \in x.ents[T] /\ q \in x.ents[T]
      <4>1. ClashExcused(x, r.def, p, q)
        BY <1>1, <3>1, <3>2 DEF BuildOK, Unique
      <4>2. QED
        BY <4>1, StillExcused
    <3>3. ASSUME NEW a \in r.txn.puts, NEW c \in r.txn.puts \cup x.ents[T]
          PROVE  ClashExcused(y, r.def, a, c) /\ ClashExcused(y, r.def, c, a)
      <4>1. ClashExcused(x, r.def, a, c)
        BY <1>1, <3>1, <3>3 DEF BuildOK
      <4>2. QED
        BY <4>1, StillExcused
    <3>4. QED
      BY <3>1, <3>2, <3>3
  <2>3. T \in y.made
    BY <1>1 DEF BuildOK
  <2> HIDE DEF T
  <2>4. QED
    BY <1>1, <1>3, <2>1, <2>2, <2>3 DEF BuildOK
<1>4. ASSUME s.def = d, WriteOK(x, s), \A p \in s.txn.puts : p[2] = s.e,
             \A f \in r.batch : <<d.id, {f, s.e}>> \in y.together
      PROVE  WriteOK(y, s)
  <2>1. ASSUME ~Marked(y, d, s.e)
        PROVE  /\ s.txn.dels = EntryOf(y.val[s.e], s.e) \cap y.ents[T]
               /\ s.txn.puts = EntryOf(s.new, s.e) \/ (y.kind = "edge" /\ d.uniq /\ s.txn.puts = {})
    <3>1. /\ s.txn.dels = EntryOf(x.val[s.e], s.e) \cap x.ents[T]
          /\ s.txn.puts = EntryOf(s.new, s.e) \/ (y.kind = "edge" /\ d.uniq /\ s.txn.puts = {})
      BY <1>4, <2>1, StillMarked DEF WriteOK, Later
    <3>2. s.e \notin r.batch
      BY <1>4, <2>1, {s.e, s.e} = {s.e} DEF Marked
    <3>3. \A p \in EntryOf(x.val[s.e], s.e) : p \notin r.txn.puts
      BY <3>2 DEF EntryOf
    <3>4. QED
      BY <3>1, <3>3
  <2>2. ASSUME d.uniq, NEW p \in s.txn.puts, NEW q \in y.ents[T] PROVE ClashExcused(y, d, p, q)
    <3>1. CASE q \in r.txn.puts
      <4>1. p[2] = s.e /\ <<d.id, {q[2], s.e}>> \in y.together /\ {q[2], s.e} = {p[2], q[2]}
        BY <1>4, <2>2, <3>1
      <4>2. QED
        BY <4>1 DEF ClashExcused
    <3>2. CASE q \in x.ents[T]
      BY <1>2, <1>4, <2>2, <3>2 DEF WriteOK
    <3>3. QED
      BY <2>2, <3>1, <3>2
  <2> HIDE DEF T
  <2>3. QED
    BY <1>1, <1>4, <2>1, <2>2 DEF WriteOK
<1>5. QED
  BY <1>3, <1>4

-----------------------------------------------------------------------------
(* The four steps that change committed data *)

\* Fields of the snapshot.
LEMMA Fields ==
    /\ Now.kind = kind /\ Now.val = val /\ Now.made = made /\ Now.ents = ents
    /\ Now.together = together /\ Now.unseen = unseen
    /\ Now'.kind = kind' /\ Now'.val = val' /\ Now'.made = made' /\ Now'.ents = ents'
    /\ Now'.together = together' /\ Now'.unseen = unseen'
    /\ \A d : TableIn(Now, d) = TableOf(d)
BY DEF Now, TableIn, TableOf

\* The data part follows from the parts about each index.
LEMMA DataFrom ==
    ASSUME \A d \in Candidates' : d.st = "PUBLIC" => PublicOK(Now', d),
           \A b \in Builders : bld'[b].pc \in {"scan", "commit"} /\ bld'[b].def.id \in Ids' => BuildOK(Now', bld'[b]),
           \A w \in Writers : wr'[w].pc = "done" /\ Live(wr'[w].def) /\ wr'[w].def.id \in Ids' => WriteOK(Now', wr'[w])
    PROVE  DataInv'
BY DEF DataInv

\* A build whose id is given has a table.
LEMMA BuildTable ==
    ASSUME IInv, NEW b \in Builders, bld[b].pc # "idle"
    PROVE  TableOf(bld[b].def) \in 1 .. MaxCreates
<1>1. bld[b].def.id \in 1 .. (next - 1) /\ next \in 1 .. MaxCreates + 1
  BY DEF IInv, TypeOK, IdInv
<1>2. bld[b].def.id \in 1 .. MaxCreates /\ 1 \in 1 .. MaxCreates
  BY <1>1, IndexDdlAssumption
<1>3. QED
  BY <1>2 DEF TableOf

\* A table that is adopted is empty, so its build starts with nothing.
LEMMA CreateTableKeeps ==
    ASSUME IInv, NEW b \in Builders, CreateTable(b)
    PROVE  IInv'
<1> DEFINE r == bld[b]
           t == TableOf(r.def)
           s == [r EXCEPT !.pc = "scan"]
<1>1. /\ r.pc = "table" /\ made' = made \cup {t} /\ blurred' = (blurred \/ ents[t] # {})
      /\ bld' = [bld EXCEPT ![b] = s]
      /\ UNCHANGED <<kind, up, mem, disk, next, dNext, val, ents, drp, alt, wr, used, together, unseen>>
  BY DEF CreateTable, Goto, meta
<1>2. /\ TypeOK /\ IdInv /\ WriteSetInv /\ bld \in [Builders -> Builds] /\ blurred \in BOOLEAN
      /\ r.at = 1 /\ r.batch = {} /\ t \in 1 .. MaxCreates /\ Cardinality(r.batch) <= BatchRows
  BY <1>1, BuildTable DEF IInv, TypeOK, WriteSetInv
<1>3. /\ s \in Builds /\ s.pc = "scan" /\ s.def = r.def /\ s.at = 1 /\ s.batch = {}
      /\ bld'[b] = s /\ bld' \in [Builders -> Builds] /\ \A c \in Builders : c # b => bld'[c] = bld[c]
  BY <1>1, <1>2 DEF Builds, BuildSteps
<1> HIDE DEF s
<1>4. TypeOK'
  <2>1. \A c \in Builders : Cardinality(bld'[c].batch) <= BatchRows
    BY <1>2, <1>3, EmptyBatch DEF TypeOK
  <2>2. made' \subseteq 1 .. MaxCreates /\ \A u \in 1 .. MaxCreates : u \notin made' => ents'[u] = {}
    BY <1>1, <1>2 DEF TypeOK
  <2>3. QED
    BY <1>1, <1>2, <1>3, <2>1, <2>2 DEF TypeOK
<1>5. IdInv'
  BY <1>1, <1>2, <1>3 DEF IdInv
<1>6. WriteSetInv'
  BY <1>1, <1>2, <1>3 DEF WriteSetInv, TableOf
<1>7. ASSUME ~blurred' PROVE DefInv' /\ DurableInv' /\ DataInv'
  <2>1. ~blurred /\ ents[t] = {}
    BY <1>1, <1>2, <1>7
  <2>2. DefInv /\ DurableInv /\ DataInv
    BY <2>1 DEF IInv
  <2>3. CandidatesKept /\ Candidates' = Candidates /\ Ids' = Ids
    BY <1>1, <2>2, SameCandidates DEF Candidates, Ids
  <2>4. BuildsKept /\ WritersKept
    BY <1>1, <1>3 DEF BuildsKept, WritersKept, Unpublished
  <2>5. DefInv'
    BY <1>1, <1>2, <1>5, <2>2, <2>3, <2>4, DefKeeps DEF DefInv
  <2>6. DurableInv'
    BY <1>1, <1>3, <2>2 DEF DurableInv
  <2>7. Later(Now, Now')
    BY <1>1, Fields DEF Later
  <2>8. ASSUME NEW d
        PROVE  /\ PublicOK(Now, d) => PublicOK(Now', d)
               /\ \A c : c.def = d /\ BuildOK(Now, c) => BuildOK(Now', c)
               /\ \A c : c.def = d /\ WriteOK(Now, c) => WriteOK(Now', c)
    BY <1>1, <2>7, Fields, TableAlone
  <2>9. BuildOK(Now', s)
    <3>1. TableIn(Now', s.def) = t /\ Now'.ents[t] = {} /\ t \in Now'.made
      BY <1>1, <1>3, <2>1, Fields DEF TableIn, TableOf
    <3>2. \A e : Mine(Now', s.def, e) = {}
      BY <3>1 DEF Mine
    <3>3. \A e \in Entities : ~(e < s.at)
      BY <1>3 DEF Entities
    <3>4. Unique(Now', s.def)
      BY <3>1 DEF Unique
    <3> HIDE DEF t
    <3>5. QED
      BY <1>3, <3>1, <3>2, <3>3, <3>4 DEF BuildOK
  <2>10. \A d \in Candidates' : d.st = "PUBLIC" => PublicOK(Now', d)
    BY <2>2, <2>3, <2>8 DEF DataInv
  <2>11. \A c \in Builders : bld'[c].pc \in {"scan", "commit"} /\ bld'[c].def.id \in Ids' => BuildOK(Now', bld'[c])
    BY <1>3, <2>2, <2>3, <2>8, <2>9 DEF DataInv
  <2>12. \A w \in Writers : wr'[w].pc = "done" /\ Live(wr'[w].def) /\ wr'[w].def.id \in Ids' => WriteOK(Now', wr'[w])
    BY <1>1, <2>2, <2>3, <2>8 DEF DataInv
  <2>13. QED
    BY <2>5, <2>6, <2>10, <2>11, <2>12, DataFrom
<1>8. QED
  BY <1>4, <1>5, <1>6, <1>7 DEF IInv

\* A scan that fails marks what it has not reached.
LEMMA ScanFailsKeeps ==
    ASSUME IInv, NEW b \in Builders, ScanFails(b)
    PROVE  IInv'
<1> DEFINE r == bld[b]
           s == [r EXCEPT !.at = MaxEntity + 1]
<1>1. /\ r.pc = "scan" /\ r.at \in Entities
      /\ together' = together \cup {<<r.def.id, {e}>> : e \in r.at .. MaxEntity}
      /\ bld' = [bld EXCEPT ![b] = s] /\ Fault
      /\ UNCHANGED <<kind, up, mem, disk, next, dNext, val, made, ents, drp, alt, wr, unseen, blurred>>
  BY DEF ScanFails, meta, data
<1>2. /\ TypeOK /\ IdInv /\ WriteSetInv /\ bld \in [Builders -> Builds]
      /\ r \in Builds /\ r.batch \subseteq Entities /\ Cardinality(r.batch) <= BatchRows
      /\ used' \in Nat
  BY <1>1, OneBuild, UsedTyped DEF IInv, TypeOK
<1>3. MaxEntity + 1 \in 1 .. MaxEntity + 1 /\ MaxEntity \in Nat
  BY IndexDdlAssumption
<1>4. /\ s \in Builds /\ s.pc = "scan" /\ s.def = r.def /\ s.at = MaxEntity + 1 /\ s.batch = r.batch
      /\ s.txn = r.txn
      /\ bld'[b] = s /\ bld' \in [Builders -> Builds] /\ \A c \in Builders : c # b => bld'[c] = bld[c]
  BY <1>1, <1>2, <1>3 DEF Builds
<1> HIDE DEF s
<1>5. TypeOK'
  <2>1. \A c \in Builders : Cardinality(bld'[c].batch) <= BatchRows
    BY <1>2, <1>4 DEF TypeOK
  <2>2. QED
    BY <1>1, <1>2, <1>4, <2>1 DEF TypeOK
<1>6. IdInv'
  BY <1>1, <1>2, <1>4 DEF IdInv
<1>7. WriteSetInv'
  <2>1. \A e \in s.batch : e < s.at
    BY <1>2, <1>3, <1>4 DEF Entities
  <2>2. QED
    BY <1>1, <1>2, <1>4, <2>1 DEF WriteSetInv, TableOf
<1>8. ASSUME ~blurred' PROVE DefInv' /\ DurableInv' /\ DataInv'
  <2>1. DefInv /\ DurableInv /\ DataInv
    BY <1>1, <1>8 DEF IInv
  <2>2. CandidatesKept /\ Candidates' = Candidates /\ Ids' = Ids
    BY <1>1, <2>1, SameCandidates DEF Candidates, Ids
  <2>3. BuildsKept /\ WritersKept
    BY <1>1, <1>4 DEF BuildsKept, WritersKept, Unpublished
  <2>4. DefInv'
    BY <1>1, <1>2, <1>6, <2>1, <2>2, <2>3, DefKeeps DEF DefInv
  <2>5. DurableInv'
    BY <1>1, <1>4, <2>1 DEF DurableInv
  <2>6. Later(Now, Now')
    BY <1>1, Fields DEF Later
  <2>7. ASSUME NEW d
        PROVE  /\ PublicOK(Now, d) => PublicOK(Now', d)
               /\ \A c : c.def = d /\ BuildOK(Now, c) => BuildOK(Now', c)
               /\ \A c : c.def = d /\ WriteOK(Now, c) => WriteOK(Now', c)
    BY <1>1, <2>6, Fields, TableAlone
  <2>8. ASSUME s.def.id \in Ids PROVE BuildOK(Now', s)
    <3>1. BuildOK(Now', r)
      BY <1>1, <1>4, <2>1, <2>7, <2>8 DEF DataInv
    <3>2. ASSUME NEW e \in Entities, ~Marked(Now', r.def, e) PROVE e < r.at
      <4>1. <<r.def.id, {e}>> \notin together'
        BY <3>2, Fields DEF Marked
      <4>2. e \notin r.at .. MaxEntity
        BY <1>1, <4>1
      <4>3. QED
        BY <1>1, <1>3, <4>2 DEF Entities
    <3>3. QED
      BY <1>1, <1>4, <3>1, <3>2 DEF BuildOK
  <2>9. \A d \in Candidates' : d.st = "PUBLIC" => PublicOK(Now', d)
    BY <2>1, <2>2, <2>7 DEF DataInv
  <2>10. \A c \in Builders : bld'[c].pc \in {"scan", "commit"} /\ bld'[c].def.id \in Ids' => BuildOK(Now', bld'[c])
    BY <1>4, <2>1, <2>2, <2>7, <2>8 DEF DataInv
  <2>11. \A w \in Writers : wr'[w].pc = "done" /\ Live(wr'[w].def) /\ wr'[w].def.id \in Ids' => WriteOK(Now', wr'[w])
    BY <1>1, <2>1, <2>2, <2>7 DEF DataInv
  <2>12. QED
    BY <2>4, <2>5, <2>9, <2>10, <2>11, DataFrom
<1>9. QED
  BY <1>5, <1>6, <1>7, <1>8 DEF IInv

\* The table that is dropped is not that of an index in memory or on disk.
LEMMA DropTableKeeps ==
    ASSUME IInv, DropTable
    PROVE  IInv'
<1> DEFINE t == TableOf(drp.def)
<1>1. /\ drp.pc = "table" /\ drp' = RestD
      /\ \/ UNCHANGED <<made, ents>>
         \/ kind = "vertex" /\ made' = made \ {t} /\ ents' = [ents EXCEPT ![t] = {}]
      /\ \/ made' = made
         \/ /\ \A w \in ActiveW : wr[w].txn # NoTxn => TableOf(wr[w].def) # t
            /\ \A b \in ActiveB : bld[b].txn # NoTxn => TableOf(bld[b].def) # t
      /\ UNCHANGED <<kind, up, mem, disk, next, dNext, val, bld, alt, wr, used, together, unseen, blurred>>
  BY DEF DropTable, meta, history
<1>2. TypeOK /\ IdInv /\ WriteSetInv /\ ents \in [1 .. MaxCreates -> SUBSET Entries] /\ drp'.pc = "idle" /\ drp' \in Drops
  BY <1>1, RestTyped DEF IInv, TypeOK
<1>3. TypeOK'
  <2>1. made' \subseteq 1 .. MaxCreates /\ ents' \in [1 .. MaxCreates -> SUBSET Entries]
        /\ \A u \in 1 .. MaxCreates : u \notin made' => ents'[u] = {}
    BY <1>1, <1>2 DEF TypeOK
  <2>2. QED
    BY <1>1, <1>2, <2>1 DEF TypeOK
<1>4. IdInv' /\ WriteSetInv'
  <2>1. \A w \in Writers : wr[w].pc = "done" /\ wr[w].txn.puts \cup wr[w].txn.dels # {} => TableOf(wr[w].def) \in made'
    BY <1>1, <1>2 DEF WriteSetInv, ActiveW, NoTxn
  <2>2. \A b \in Builders : bld[b].pc = "commit" => \A p \in bld[b].txn.puts : TableOf(bld[b].def) \in made'
    BY <1>1, <1>2 DEF WriteSetInv, ActiveB, NoTxn
  <2>3. WriteSetInv'
    BY <1>1, <1>2, <2>1, <2>2 DEF WriteSetInv, TableOf
  <2>4. QED
    BY <1>1, <1>2, <2>3 DEF IdInv
<1>5. ASSUME ~blurred' PROVE DefInv' /\ DurableInv' /\ DataInv'
  <2>1. ~blurred /\ DefInv /\ DurableInv /\ DataInv
    BY <1>1, <1>5 DEF IInv
  <2>2. Candidates = {mem, disk} /\ Candidates' = {mem, disk} /\ Ids' = Ids
    BY <1>1, <1>2 DEF Candidates, Ids
  <2>3. CandidatesKept
    BY <2>1, <2>2, FewerCandidates
  <2>4. BuildsKept /\ WritersKept
    BY <1>1 DEF BuildsKept, WritersKept
  <2>5. DefInv'
    BY <1>1, <1>2, <1>4, <2>1, <2>3, <2>4, DefKeeps DEF DefInv
  <2>6. DurableInv'
    BY <1>1, <2>1 DEF DurableInv
  <2>7. Later(Now, Now')
    BY <1>1, Fields DEF Later
  <2>8. ASSUME NEW d, d.id \in Ids
        PROVE  /\ PublicOK(Now, d) => PublicOK(Now', d)
               /\ \A c : c.def = d /\ BuildOK(Now, c) => BuildOK(Now', c)
               /\ \A c : c.def = d /\ WriteOK(Now, c) => WriteOK(Now', c)
    <3>1. d.id # drp.def.id /\ d.id \in 1 .. MaxCreates /\ 1 \in 1 .. MaxCreates
      <4>1. drp.def.id # mem.id /\ drp.def.id # disk.id
        BY <1>1, <2>1 DEF DefInv
      <4>2. \A i \in Ids : i \in {mem.id, disk.id}
        BY <2>2 DEF Ids
      <4>3. d.id \in 1 .. MaxCreates /\ 1 \in 1 .. MaxCreates
        BY <2>1, <2>8, IdRange
      <4>4. QED
        BY <2>8, <4>1, <4>2, <4>3
    <3>2. TableOf(d) \in 1 .. MaxCreates /\ (kind = "vertex" => TableOf(d) # t)
      BY <3>1 DEF TableOf
    <3> HIDE DEF t
    <3>3. ents'[TableOf(d)] = ents[TableOf(d)] /\ (TableOf(d) \in made => TableOf(d) \in made')
      BY <1>1, <1>2, <3>2
    <3>4. QED
      BY <1>1, <2>7, <3>3, Fields, TableAlone
  <2>9. \A d \in Candidates' : d.st = "PUBLIC" => PublicOK(Now', d)
    <3>1. \A d \in Candidates : d.st = "PUBLIC" => d.id \in Ids
      BY DEF Ids
    <3>2. QED
      BY <2>1, <2>2, <2>8, <3>1 DEF DataInv
  <2>10. \A c \in Builders : bld'[c].pc \in {"scan", "commit"} /\ bld'[c].def.id \in Ids' => BuildOK(Now', bld'[c])
    BY <1>1, <2>1, <2>2, <2>8 DEF DataInv
  <2>11. \A w \in Writers : wr'[w].pc = "done" /\ Live(wr'[w].def) /\ wr'[w].def.id \in Ids' => WriteOK(Now', wr'[w])
    BY <1>1, <2>1, <2>2, <2>8 DEF DataInv
  <2>12. QED
    BY <2>5, <2>6, <2>9, <2>10, <2>11, DataFrom
<1>6. QED
  BY <1>3, <1>4, <1>5 DEF IInv

\* The marks that a commit leaves: its entities with those of the open transactions.
LEMMA InPaired ==
    ASSUME NEW on, NEW ws, NEW bs, NEW i \in Around, NEW e \in on
    PROVE  /\ \A w \in ws : <<i, {e, wr[w].e}>> \in Paired(on, ws, bs)
           /\ \A b \in bs : \A f \in bld[b].batch : <<i, {e, f}>> \in Paired(on, ws, bs)
<1> DEFINE others == {wr[w].e : w \in ws} \cup UNION {bld[b].batch : b \in bs}
<1>1. \A w \in ws : wr[w].e \in others
  OBVIOUS
<1>2. \A b \in bs : bld[b].batch \subseteq others
  OBVIOUS
<1>3. Paired(on, ws, bs) = {<<k, {a, f}>> : k \in Around, a \in on, f \in others}
  BY DEF Paired
<1> HIDE DEF others
<1>4. \A f \in others : <<i, {e, f}>> \in Paired(on, ws, bs)
  BY <1>3
<1>5. QED
  BY <1>1, <1>2, <1>4

\* A batch reaches the table: it completes its own index and touches no other.
LEMMA FlushCommitKeeps ==
    ASSUME IInv, NEW b \in Builders, FlushCommit(b)
    PROVE  IInv'
<1> DEFINE r == bld[b]
           t == TableOf(r.def)
           P == r.txn.puts
           s == [r EXCEPT !.pc = "scan", !.batch = {}, !.txn = NoTxn]
<1>1. /\ r.pc = "commit" /\ Apply(t, P, {}) /\ bld' = [bld EXCEPT ![b] = s]
      /\ together' = together \cup Paired(r.batch, ActiveW, ActiveB \ {b})
      /\ blurred' = (blurred \/ (kind = "edge" /\ P # {} /\ Around \ {r.def.id} # {}))
      /\ UNCHANGED <<kind, up, mem, disk, next, dNext, val, made, drp, alt, wr, used, unseen>>
  BY DEF FlushCommit, meta
<1>2. /\ TypeOK /\ IdInv /\ WriteSetInv /\ bld \in [Builders -> Builds] /\ blurred \in BOOLEAN
      /\ ents \in [1 .. MaxCreates -> SUBSET Entries] /\ t \in 1 .. MaxCreates /\ r \in Builds /\ P \subseteq Entries
      /\ kind \in {"vertex", "edge"}
      /\ \A p \in P : p[2] \in r.batch
  BY <1>1, BuildTable, IndexDdlAssumption DEF IInv, TypeOK, WriteSetInv, Builds, Txns
<1>3. /\ s \in Builds /\ s.pc = "scan" /\ s.def = r.def /\ s.at = r.at /\ s.batch = {}
      /\ bld'[b] = s /\ bld' \in [Builders -> Builds] /\ \A c \in Builders : c # b => bld'[c] = bld[c]
  BY <1>1, <1>2, RestTyped DEF Builds, BuildSteps
<1> HIDE DEF s
<1>4. /\ ents' \in [1 .. MaxCreates -> SUBSET Entries] /\ ents'[t] = ents[t] \cup P
      /\ \A u \in 1 .. MaxCreates : u # t \/ P = {} => ents'[u] = ents[u]
  <2>1. CASE P = {}
    BY <1>1, <1>2, <2>1 DEF Apply
  <2>2. CASE P # {}
    <3>1. ents' = [ents EXCEPT ![t] = (@ \ {}) \cup P]
      BY <1>1, <2>2 DEF Apply
    <3> HIDE DEF t, P
    <3>2. QED
      BY <1>2, <2>2, <3>1
  <2>3. QED
    BY <2>1, <2>2
<1>5. ASSUME ~blurred PROVE r.def.id \in Ids => BuildOK(Now, r)
  BY <1>1, <1>5 DEF IInv, DataInv
<1>6. TypeOK'
  <2>1. \A c \in Builders : Cardinality(bld'[c].batch) <= BatchRows
    BY <1>2, <1>3, EmptyBatch DEF TypeOK
  <2>2. \A u \in 1 .. MaxCreates : u \notin made' => ents'[u] = {}
    <3>1. ASSUME NEW u \in 1 .. MaxCreates, u \notin made, u = t PROVE P = {}
      BY <1>1, <1>2, <3>1 DEF TypeOK, WriteSetInv
    <3>2. QED
      BY <1>1, <1>2, <1>4, <3>1 DEF TypeOK
  <2>3. QED
    BY <1>1, <1>2, <1>3, <1>4, <2>1, <2>2 DEF TypeOK
<1>7. IdInv'
  BY <1>1, <1>2, <1>3 DEF IdInv
<1>8. WriteSetInv'
  BY <1>1, <1>2, <1>3 DEF WriteSetInv, TableOf
<1>9. ASSUME ~blurred' PROVE DefInv' /\ DurableInv' /\ DataInv'
  <2>1. ~blurred /\ (kind = "edge" /\ P # {} => Around \ {r.def.id} = {})
    BY <1>1, <1>2, <1>9
  <2>2. DefInv /\ DurableInv /\ DataInv /\ Ids \subseteq Around
    BY <1>2, <2>1, IdsAround DEF IInv
  <2>3. CandidatesKept /\ Candidates' = Candidates /\ Ids' = Ids
    BY <1>1, <2>2, SameCandidates DEF Candidates, Ids
  <2>4. BuildsKept /\ WritersKept
    BY <1>1, <1>3 DEF BuildsKept, WritersKept, Unpublished
  <2>5. DefInv'
    BY <1>1, <1>2, <1>7, <2>2, <2>3, <2>4, DefKeeps DEF DefInv
  <2>6. DurableInv'
    BY <1>1, <1>3, <2>2 DEF DurableInv
  <2>7. Later(Now, Now')
    BY <1>1, Fields DEF Later
  <2>8. ASSUME NEW d, d.id \in Ids, d.id # r.def.id
        PROVE  /\ PublicOK(Now, d) => PublicOK(Now', d)
               /\ \A c : c.def = d /\ BuildOK(Now, c) => BuildOK(Now', c)
               /\ \A c : c.def = d /\ WriteOK(Now, c) => WriteOK(Now', c)
    <3>1. d.id \in 1 .. MaxCreates /\ 1 \in 1 .. MaxCreates /\ d.id \in Around \ {r.def.id}
      BY <2>1, <2>2, <2>8, IdRange
    <3>2. kind = "vertex" \/ P = {}
      BY <1>2, <2>1, <3>1
    <3>3. TableOf(d) \in 1 .. MaxCreates /\ (TableOf(d) # t \/ P = {})
      BY <2>8, <3>1, <3>2 DEF TableOf
    <3>4. ents'[TableOf(d)] = ents[TableOf(d)]
      BY <1>4, <3>3
    <3>5. QED
      BY <1>1, <2>7, <3>4, Fields, TableAlone
  <2>9. ASSUME r.def.id \in Ids, NEW w \in Writers, wr[w].pc = "done", NEW f \in r.batch
        PROVE  <<r.def.id, {f, wr[w].e}>> \in together'
    <3>1. r.def.id \in Around /\ w \in ActiveW
      BY <2>2, <2>9 DEF ActiveW
    <3>2. <<r.def.id, {f, wr[w].e}>> \in Paired(r.batch, ActiveW, ActiveB \ {b})
      BY <2>9, <3>1, InPaired
    <3>3. QED
      BY <1>1, <3>2
  <2>10. \A d \in Candidates' : d.st = "PUBLIC" => PublicOK(Now', d)
    <3>1. \A d \in Candidates : d.st = "PUBLIC" => d.id \in Ids /\ d.id # r.def.id
      BY <1>1, <2>2 DEF Ids, DefInv, Unpublished
    <3>2. QED
      BY <2>2, <2>3, <2>8, <3>1 DEF DataInv
  <2>11. ASSUME r.def.id \in Ids PROVE BuildOK(Now', s)
    <3>1. BuildOK(Now, r) /\ (\A p \in r.txn.puts : p[2] \in r.batch) /\ r.pc = "commit"
      BY <1>1, <1>2, <1>5, <2>1, <2>11
    <3>2. /\ Now'.ents[TableIn(Now, r.def)] = Now.ents[TableIn(Now, r.def)] \cup r.txn.puts
          /\ Now'.made = Now.made /\ Now'.val = Now.val
      BY <1>1, <1>4, Fields
    <3> HIDE DEF r
    <3>3. QED
      BY <1>3, <2>7, <3>1, <3>2, OwnFlush
  <2>12. ASSUME NEW c \in Builders, bld'[c].pc \in {"scan", "commit"}, bld'[c].def.id \in Ids'
         PROVE  BuildOK(Now', bld'[c])
    <3>1. CASE c = b
      BY <1>3, <2>3, <2>11, <2>12, <3>1
    <3>2. CASE c # b
      <4>1. bld'[c] = bld[c] /\ bld[c].def.id # r.def.id /\ BuildOK(Now, bld[c])
        BY <1>1, <1>2, <1>3, <2>2, <2>3, <2>12, <3>2 DEF IdInv, DataInv
      <4>2. QED
        BY <2>3, <2>8, <2>12, <4>1
    <3>3. QED
      BY <3>1, <3>2
  <2>13. ASSUME NEW w \in Writers, wr'[w].pc = "done", Live(wr'[w].def), wr'[w].def.id \in Ids'
         PROVE  WriteOK(Now', wr'[w])
    <3>1. wr' = wr /\ wr[w].def.id \in Ids /\ WriteOK(Now, wr[w])
      BY <1>1, <2>2, <2>3, <2>13 DEF DataInv
    <3>2. CASE wr[w].def.id = r.def.id
      <4>1. \A p \in wr[w].txn.puts : p[2] = wr[w].e
        BY <1>2, <2>13, <3>1 DEF WriteSetInv, EntryOf
      <4>2. TableOf(wr[w].def) = t
        BY <3>2 DEF TableOf
      <4>3. BuildOK(Now, r)
        BY <1>5, <2>1, <3>1, <3>2
      <4>4. \A f \in r.batch : <<wr[w].def.id, {f, wr[w].e}>> \in together'
        BY <2>9, <2>13, <3>1, <3>2
      <4>5. /\ Now'.ents[TableIn(Now, wr[w].def)] = Now.ents[TableIn(Now, wr[w].def)] \cup r.txn.puts
            /\ Now'.made = Now.made /\ Now'.val = Now.val /\ Now'.together = together'
        BY <1>1, <1>4, <4>2, Fields
      <4>6. r.pc = "commit" /\ \A p \in r.txn.puts : p[2] \in r.batch
        BY <1>1, <1>2
      <4> HIDE DEF r
      <4>7. WriteOK(Now', wr[w])
        BY <2>7, <3>1, <3>2, <4>1, <4>3, <4>4, <4>5, <4>6, OwnFlush
      <4>8. QED
        BY <3>1, <4>7
    <3>3. CASE wr[w].def.id # r.def.id
      BY <2>8, <3>1, <3>3
    <3>4. QED
      BY <3>2, <3>3
  <2>14. QED
    BY <2>5, <2>6, <2>10, <2>12, <2>13, DataFrom
<1>10. QED
  BY <1>6, <1>7, <1>8, <1>9 DEF IInv

\* A statement commits: it keeps the index it maintains in step with the value,
\* and its entity is marked for every other.
LEMMA CommitKeeps ==
    ASSUME IInv, NEW w \in Writers, Commit(w)
    PROVE  IInv'
<1> DEFINE r == wr[w]
           e == r.e
           t == TableOf(r.def)
           P == r.txn.puts
           D == r.txn.dels
<1>1. /\ r.pc = "done" /\ Apply(t, P, D) /\ wr' = [wr EXCEPT ![w] = RestW] /\ val' = [val EXCEPT ![e] = r.new]
      /\ together' = together \cup Paired({e}, ActiveW \ {w}, ActiveB)
      /\ unseen' = unseen \cup {<<i, e>> : i \in Around \ (IF Live(r.def) THEN {r.def.id} ELSE {})}
      /\ UNCHANGED <<kind, up, mem, disk, next, dNext, made, bld, drp, alt, used, blurred>>
  BY DEF Commit, meta
<1>2. /\ TypeOK /\ IdInv /\ WriteSetInv /\ wr \in [Writers -> Writes] /\ r \in Writes /\ e \in Entities
      /\ r.new \in Values \cup {NoValue} /\ val \in [Entities -> Values \cup {NoValue}]
      /\ ents \in [1 .. MaxCreates -> SUBSET Entries] /\ P \subseteq Entries /\ D \subseteq Entries
      /\ P \subseteq EntryOf(r.new, e) /\ (\A p \in D : p[2] = e)
      /\ P \cup D # {} => t \in made
  BY <1>1 DEF IInv, TypeOK, WriteSetInv, Writes, Txns
<1>3. /\ wr'[w] = RestW /\ wr'[w].pc = "idle" /\ wr' \in [Writers -> Writes] /\ \A v \in Writers : v # w => wr'[v] = wr[v]
      /\ val' \in [Entities -> Values \cup {NoValue}] /\ val'[e] = r.new /\ \A f \in Entities : f # e => val'[f] = val[f]
  BY <1>1, <1>2, RestTyped
<1>4. \A p \in P : p[2] = e
  BY <1>2 DEF EntryOf
<1>5. /\ ents' \in [1 .. MaxCreates -> SUBSET Entries]
      /\ \A u \in 1 .. MaxCreates : ents'[u] = IF u = t THEN (ents[u] \ D) \cup P ELSE ents[u]
  <2>1. CASE P \cup D = {}
    BY <1>1, <1>2, <2>1 DEF Apply
  <2>2. CASE P \cup D # {}
    <3>1. ents' = [ents EXCEPT ![t] = (@ \ D) \cup P]
      BY <1>1, <2>2 DEF Apply
    <3> HIDE DEF t, P, D
    <3>2. QED
      BY <1>2, <3>1
  <2>3. QED
    BY <2>1, <2>2
<1>6. TypeOK'
  <2>1. \A u \in 1 .. MaxCreates : u \notin made' => ents'[u] = {}
    <3> HIDE DEF t, P, D
    <3>1. QED
      BY <1>1, <1>2, <1>5 DEF TypeOK
  <2>2. QED
    BY <1>1, <1>2, <1>3, <1>5, <2>1 DEF TypeOK
<1>7. IdInv'
  BY <1>1, <1>2 DEF IdInv
<1>8. WriteSetInv'
  BY <1>1, <1>2, <1>3 DEF WriteSetInv, TableOf
<1>9. ASSUME ~blurred' PROVE DefInv' /\ DurableInv' /\ DataInv'
  <2>1. ~blurred /\ DefInv /\ DurableInv /\ DataInv /\ Ids \subseteq Around
    BY <1>1, <1>2, <1>9, IdsAround DEF IInv
  <2>2. CandidatesKept /\ Candidates' = Candidates /\ Ids' = Ids
    BY <1>1, <2>1, SameCandidates DEF Candidates, Ids
  <2>3. BuildsKept /\ WritersKept
    BY <1>1, <1>3 DEF BuildsKept, WritersKept
  <2>4. DefInv'
    BY <1>1, <1>2, <1>7, <2>1, <2>2, <2>3, DefKeeps DEF DefInv
  <2>5. DurableInv'
    BY <1>1, <2>1 DEF DurableInv
  <2>6. Later(Now, Now') /\ Now'.made = Now.made /\ Now'.val = val' /\ Now.val = val /\ Now'.together = together'
        /\ Now'.unseen = unseen'
    BY <1>1, Fields DEF Later
  <2>7. ASSUME NEW d, d.id \in Ids, TableIn(Now, d) = TableOf(d)
        PROVE  TableOf(d) \in 1 .. MaxCreates
    BY <2>1, <2>7, IdRange DEF TableOf
  \* an index that this statement does not maintain
  <2>8. ASSUME NEW d, d.id \in Ids, ~(Live(r.def) /\ r.def.id = d.id)
        PROVE  /\ PublicOK(Now, d) => PublicOK(Now', d)
               /\ \A s : s.def = d /\ BuildOK(Now, s) => BuildOK(Now', s)
               /\ \A s : s.def = d /\ s.e \in Entities /\ s.e # e /\ WriteOK(Now, s) => WriteOK(Now', s)
    <3>1. <<d.id, e>> \in unseen'
      <4>1. d.id \in Around \ (IF Live(r.def) THEN {r.def.id} ELSE {})
        BY <2>1, <2>8
      <4>2. QED
        BY <1>1, <4>1
    <3>2. TableIn(Now, d) = TableOf(d) /\ TableOf(d) \in 1 .. MaxCreates
      BY <2>7, <2>8, Fields
    <3>3. \A p : p[2] # e => (p \in ents'[TableOf(d)] <=> p \in ents[TableOf(d)])
      <4> HIDE DEF t, P, D, e
      <4>1. QED
        BY <1>2, <1>4, <1>5, <3>2
    <3>4. \A p : p[2] # e => (p \in Now'.ents[TableIn(Now, d)] <=> p \in Now.ents[TableIn(Now, d)])
      BY <3>2, <3>3, Fields
    <3>5. \A f \in Entities : f # e => Now'.val[f] = Now.val[f]
      BY <1>3, <2>6
    <3>6. <<d.id, e>> \in Now'.unseen
      BY <2>6, <3>1
    <3> HIDE DEF e
    <3>7. QED
      BY <2>6, <3>4, <3>5, <3>6, OneMarked
  \* the index that it does
  <2>9. ASSUME NEW d, d.id \in Ids, Live(r.def), r.def.id = d.id, r.def.uniq = d.uniq
        PROVE  /\ PublicOK(Now, d) => PublicOK(Now', d)
               /\ \A s : /\ s.def = d /\ BuildOK(Now, s)
                         /\ s.pc = "commit" => /\ \A p \in s.txn.puts : p[2] \in s.batch
                                               /\ \A f \in s.batch : <<d.id, {r.e, f}>> \in Now'.together
                         => BuildOK(Now', s)
               /\ \A s : /\ s.def = d /\ s.e \in Entities /\ s.e # r.e /\ WriteOK(Now, s)
                         /\ \A p \in s.txn.puts : p[2] = s.e
                         /\ <<d.id, {r.e, s.e}>> \in Now'.together
                         => WriteOK(Now', s)
    <3>1. WriteOK(Now, r)
      BY <1>1, <2>1, <2>9 DEF DataInv
    <3>2. TableIn(Now, d) = TableOf(d) /\ TableOf(d) \in 1 .. MaxCreates /\ TableOf(d) = t
      <4>1. TableIn(Now, d) = TableOf(d) /\ TableOf(d) = t
        BY <2>9, Fields DEF TableOf
      <4>2. QED
        BY <2>7, <2>9, <4>1
    <3>3. Now'.ents[TableIn(Now, d)] = (Now.ents[TableIn(Now, d)] \ r.txn.dels) \cup r.txn.puts
      <4>1. ents'[t] = (ents[t] \ D) \cup P
        BY <1>5, <3>2
      <4>2. QED
        BY <3>2, <4>1, Fields
    <3>4. Now'.val[r.e] = r.new /\ \A f \in Entities : f # r.e => Now'.val[f] = Now.val[f]
      BY <1>3, <2>6
    <3>5. r.txn.puts \subseteq EntryOf(r.new, r.e) /\ \A p \in r.txn.dels : p[2] = r.e
      BY <1>2
    <3> HIDE DEF r
    <3>6. QED
      BY <2>6, <2>9, <3>1, <3>3, <3>4, <3>5, OwnWrite
  <2>10. \A d \in Candidates : d.st # "none" => d.id \in Ids /\ (d.id = r.def.id => d.uniq = r.def.uniq)
    BY <1>1, <2>1 DEF DefInv, Ids
  <2>11. \A d \in Candidates' : d.st = "PUBLIC" => PublicOK(Now', d)
    <3>1. ASSUME NEW d \in Candidates, d.st = "PUBLIC" PROVE PublicOK(Now', d)
      <4>1. PublicOK(Now, d) /\ d.id \in Ids /\ (d.id = r.def.id => d.uniq = r.def.uniq)
        BY <2>1, <2>10, <3>1 DEF DataInv
      <4>2. QED
        BY <2>8, <2>9, <4>1
    <3>2. QED
      BY <2>2, <3>1
  <2>12. ASSUME NEW c \in Builders, bld'[c].pc \in {"scan", "commit"}, bld'[c].def.id \in Ids'
         PROVE  BuildOK(Now', bld'[c])
    <3>1. bld' = bld /\ bld[c].def.id \in Ids /\ BuildOK(Now, bld[c]) /\ bld[c].pc # "idle"
      BY <1>1, <2>1, <2>2, <2>12 DEF DataInv
    <3>2. PICK d \in Candidates : d.st # "none" /\ d.id = bld[c].def.id
      BY <3>1 DEF Ids
    <3>3. d.uniq = bld[c].def.uniq
      BY <2>1, <3>1, <3>2 DEF DefInv
    <3>4. CASE Live(r.def) /\ r.def.id = bld[c].def.id
      <4>1. ASSUME bld[c].pc = "commit"
            PROVE  /\ \A p \in bld[c].txn.puts : p[2] \in bld[c].batch
                   /\ \A f \in bld[c].batch : <<bld[c].def.id, {r.e, f}>> \in Now'.together
        <5>1. c \in ActiveB /\ bld[c].def.id \in Around
          BY <2>1, <3>1, <4>1 DEF ActiveB
        <5>2. \A f \in bld[c].batch : <<bld[c].def.id, {r.e, f}>> \in Paired({e}, ActiveW \ {w}, ActiveB)
          BY <5>1, InPaired
        <5>3. QED
          BY <1>1, <1>2, <2>6, <4>1, <5>2 DEF WriteSetInv
      <4>2. r.def.uniq = bld[c].def.uniq
        BY <2>10, <3>2, <3>3, <3>4
      <4>3. BuildOK(Now', bld[c])
        BY <2>9, <3>1, <3>4, <4>1, <4>2
      <4>4. QED
        BY <3>1, <4>3
    <3>5. CASE ~(Live(r.def) /\ r.def.id = bld[c].def.id)
      BY <2>8, <3>1, <3>5
    <3>6. QED
      BY <3>4, <3>5
  <2>13. ASSUME NEW v \in Writers, wr'[v].pc = "done", Live(wr'[v].def), wr'[v].def.id \in Ids'
         PROVE  WriteOK(Now', wr'[v])
    <3>1. v # w /\ wr'[v] = wr[v]
      BY <1>3, <2>13
    <3>2. wr[v].pc = "done" /\ wr[v].def.id \in Ids /\ WriteOK(Now, wr[v])
      BY <2>1, <2>2, <2>13, <3>1 DEF DataInv
    <3>3. wr[v].e \in Entities /\ wr[v].e # r.e /\ \A p \in wr[v].txn.puts : p[2] = wr[v].e
      BY <1>1, <1>2, <3>1, <3>2 DEF WriteSetInv, EntryOf, Writes
    <3>4. PICK d \in Candidates : d.st # "none" /\ d.id = wr[v].def.id
      BY <3>2 DEF Ids
    <3>5. d.uniq = wr[v].def.uniq
      BY <2>1, <3>2, <3>4 DEF DefInv
    <3>6. CASE Live(r.def) /\ r.def.id = wr[v].def.id
      <4>1. <<wr[v].def.id, {r.e, wr[v].e}>> \in Now'.together
        <5>1. v \in ActiveW \ {w} /\ wr[v].def.id \in Around
          BY <2>1, <3>1, <3>2 DEF ActiveW
        <5>2. <<wr[v].def.id, {r.e, wr[v].e}>> \in Paired({e}, ActiveW \ {w}, ActiveB)
          BY <5>1, InPaired
        <5>3. QED
          BY <1>1, <2>6, <5>2
      <4>2. r.def.uniq = wr[v].def.uniq
        BY <2>10, <3>4, <3>5, <3>6
      <4>3. WriteOK(Now', wr[v])
        BY <2>9, <3>2, <3>3, <3>6, <4>1, <4>2
      <4>4. QED
        BY <3>1, <4>3
    <3>7. CASE ~(Live(r.def) /\ r.def.id = wr[v].def.id)
      BY <2>8, <3>1, <3>2, <3>3, <3>7
    <3>8. QED
      BY <3>6, <3>7
  <2>14. QED
    BY <2>4, <2>5, <2>11, <2>12, <2>13, DataFrom
<1>10. QED
  BY <1>6, <1>7, <1>8, <1>9 DEF IInv

-----------------------------------------------------------------------------
(* The theorems *)

LEMMA Initial == Init => IInv
<1> SUFFICES ASSUME Init PROVE IInv
  OBVIOUS
<1>1. /\ mem = NoIndex /\ disk = NoIndex /\ drp = RestD /\ alt = RestA /\ up = TRUE /\ next = 1
      /\ \A b \in Builders : bld[b] = RestB
  BY DEF Init
<1>2. \A w \in Writers : wr[w] = RestW
  BY DEF Init
<1>3. TypeOK
  <2>1. \A b \in Builders : Cardinality(bld[b].batch) <= BatchRows
    BY <1>1, RestTyped, EmptyBatch
  <2>2. next \in 1 .. MaxCreates + 1 /\ dNext \in 1 .. MaxCreates + 1
    BY IndexDdlAssumption DEF Init
  <2>3. QED
    BY <2>1, <2>2, RestTyped DEF TypeOK, Init
<1>4. IdInv
  BY <1>1, RestTyped DEF IdInv
<1>5. WriteSetInv
  BY <1>1, <1>2, RestTyped DEF WriteSetInv
<1>6. Candidates = {NoIndex} /\ Ids = {}
  BY <1>1, RestTyped DEF Candidates, Ids
<1>7. DefInv
  BY <1>1, <1>2, <1>6, RestTyped DEF DefInv
<1>8. DurableInv
  BY <1>1, RestTyped DEF DurableInv
<1>9. DataInv
  BY <1>1, <1>2, <1>6, RestTyped DEF DataInv
<1>10. QED
  BY <1>3, <1>4, <1>5, <1>7, <1>8, <1>9 DEF IInv

LEMMA StutterKeeps ==
    ASSUME IInv, UNCHANGED vars
    PROVE  IInv'
<1>1. UNCHANGED <<kind, up, mem, disk, next, dNext, val, made, ents, bld, drp, alt, wr, used, together, unseen, blurred>>
  BY DEF vars, meta, data, history
<1>2. TypeOK /\ IdInv /\ WriteSetInv /\ (~blurred => DefInv /\ DurableInv /\ DataInv)
  BY DEF IInv
<1>3. TypeOK' /\ IdInv' /\ WriteSetInv'
  BY <1>1, <1>2 DEF TypeOK, IdInv, WriteSetInv, TableOf
<1>4. Candidates' = Candidates /\ Ids' = Ids /\ Now' = Now
  BY <1>1 DEF Candidates, Ids, Now
<1>5. ~blurred => DefInv' /\ DurableInv' /\ DataInv'
  BY <1>1, <1>2, <1>4 DEF DefInv, DurableInv, DataInv
<1>6. QED
  BY <1>1, <1>3, <1>5 DEF IInv

LEMMA Inductive ==
    ASSUME IInv, [Next]_vars
    PROVE  IInv'
<1>1. ASSUME NEW w \in Writers, Plan(w) \/ Exec(w) \/ Commit(w) \/ Abort(w) PROVE IInv'
  BY <1>1, PlanKeeps, ExecKeeps, CommitKeeps, AbortKeeps
<1>2. ASSUME NEW b \in Builders, CreateIndex(b) \/ Build(b) PROVE IInv'
  <2>1. CASE CreateIndex(b) \/ PersistIndex(b) \/ CreateThrows(b) \/ CreateTable(b) \/ CreateTableReturns(b)
    BY <2>1, CreateIndexKeeps, PersistIndexKeeps, CreateThrowsKeeps, CreateTableKeeps, ReturnsKeeps
  <2>2. CASE NoSessions(b) \/ Scan(b) \/ ScanFails(b) \/ Flush(b) \/ FlushCommit(b)
    BY <2>2, NoSessionsKeeps, ScanKeeps, ScanFailsKeeps, FlushKeeps, FlushCommitKeeps
  <2>3. CASE FlushCommitFails(b) \/ SetState(b) \/ PersistState(b) \/ PersistStateFails(b)
    BY <2>3, FlushCommitFailsKeeps, SetStateKeeps, PersistStateKeeps, PersistStateFailsKeeps
  <2>4. QED
    BY <1>2, <2>1, <2>2, <2>3 DEF Build
<1>3. ASSUME DropIndex \/ DropPersist \/ DropThrows \/ DropTable PROVE IInv'
  BY <1>3, DropIndexKeeps, DropPersistKeeps, DropThrowsKeeps, DropTableKeeps
<1>4. ASSUME Alter \/ AlterPersist \/ AlterThrows \/ Crash \/ Open PROVE IInv'
  BY <1>4, AlterKeeps, AlterPersistKeeps, AlterThrowsKeeps, CrashKeeps, OpenKeeps
<1>5. QED
  BY <1>1, <1>2, <1>3, <1>4, StutterKeeps DEF Next

\* Every reachable state of CREATE INDEX, DROP INDEX, ALTER LABEL and the writers
\* satisfies the inductive invariant.
THEOREM Invariance == Spec => []IInv
<1>1. Init => IInv
  BY Initial
<1>2. IInv /\ [Next]_vars => IInv'
  BY Inductive
<1>3. QED
  BY <1>1, <1>2, PTL DEF Spec

\* Every variable keeps its type, and a batch never outgrows
\* indexBackfillBatchRows().
THEOREM TypeCorrect == Spec => []TypeOK
<1>1. IInv => TypeOK
  BY DEF IInv
<1>2. QED
  BY <1>1, Invariance, PTL

\* A PUBLIC index has exactly the entries of the committed values, but for
\* entities whose batch overlapped another transaction, that were written by a
\* statement planned without the index (flush_batch and the write operators), or
\* that a failing scan did not reach.
THEOREM IndexIsExact == Spec => []ExactEntries
<1>1. ASSUME IInv, mem.st = "PUBLIC", ~blurred PROVE PublicOK(Now, mem)
  BY <1>1 DEF IInv, DataInv, Candidates
<1>2. ASSUME IInv PROVE ExactEntries
  <2>1. SUFFICES ASSUME mem.st = "PUBLIC", ~blurred
                 PROVE  /\ TableOf(mem) \in made
                        /\ \A e \in Entities : ~Marked(Now, mem, e) => Exact(Now, mem, e)
    BY Fields DEF ExactEntries, Marked, Exact, Mine
  <2>2. QED
    BY <1>1, <1>2, <2>1, Fields DEF PublicOK
<1>3. QED
  BY <1>2, Invariance, PTL

\* A PUBLIC UNIQUE index has one entity per value, unless the two were written by
\* transactions that overlapped, or one by a statement planned without the index
\* (checkUniqueConstraint reads a snapshot).
THEOREM UniquenessHolds == Spec => []UniqueUnlessTogether
<1>1. ASSUME IInv, mem.st = "PUBLIC", mem.uniq, ~blurred,
             NEW p \in ents[TableOf(mem)], NEW q \in ents[TableOf(mem)]
      PROVE  ClashExcused(Now, mem, p, q)
  <2>1. Unique(Now, mem)
    BY <1>1 DEF IInv, DataInv, Candidates, PublicOK
  <2>2. QED
    BY <1>1, <2>1, Fields DEF Unique
<1>2. ASSUME IInv PROVE UniqueUnlessTogether
  BY <1>1, <1>2, Fields DEF UniqueUnlessTogether, ClashExcused
<1>3. QED
  BY <1>2, Invariance, PTL

\* Once the statement that published it has returned, a PUBLIC index is PUBLIC on
\* disk (updateIndexState followed by persistLabelDef).
THEOREM PublicSurvives == Spec => []PublicIsDurable
<1>1. IInv => PublicIsDurable
  BY DEF IInv, DurableInv, PublicIsDurable
<1>2. QED
  BY <1>1, Invariance, PTL
=============================================================================
