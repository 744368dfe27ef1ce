----------------------------- MODULE IndexDdl -----------------------------
(***************************************************************************)
(* CREATE INDEX with its backfill, DROP INDEX, ALTER LABEL ADD and the     *)
(* write statements beside them, on one index of one label.                *)
(*                                                                         *)
(* The index lives in the label's definition: mem is the copy in           *)
(* AsyncGraphMetaStore::schema_, disk the persisted one.  Its entries are  *)
(* in a table of their own.  A statement copies the label definitions when *)
(* it is planned and maintains the indexes of that copy, in a transaction  *)
(* that begins later.  WiredTiger gives snapshot isolation: a transaction  *)
(* reads its snapshot and its own writes, and a write fails when another   *)
(* transaction, still active or committed since the snapshot, wrote the    *)
(* same key.  Deleting a key that does not exist writes nothing.           *)
(*                                                                         *)
(* An entity is a vertex or an edge; NoValue means that it does not exist  *)
(* or does not carry the indexed property.                                 *)
(***************************************************************************)
EXTENDS Naturals, FiniteSets

CONSTANTS
    MaxEntity,      \* ids of the label's vertices or edges: 1 .. MaxEntity
    Values,         \* values of the indexed property
    Writers,        \* write statements that may run at the same time
    Builders,       \* CREATE INDEX statements that may run at the same time
    IndexKinds,     \* subset of {"vertex", "edge"}: what the index is on
    Uniques,        \* subset of BOOLEAN: plain index, UNIQUE index
    BatchRows,      \* indexBackfillBatchRows()
    MaxCreates,     \* bound: CREATE INDEX statements
    MaxEvents,      \* bound: statements, crashes and failing storage calls together
    Faults          \* TRUE: a metadata write, table creation or commit may fail

NoValue == "none"
Entities == 1 .. MaxEntity

ASSUME IndexDdlAssumption ==
    /\ MaxEntity \in Nat \ {0}
    /\ NoValue \notin Values
    /\ IndexKinds \subseteq {"vertex", "edge"}
    /\ Uniques \subseteq BOOLEAN
    /\ BatchRows \in Nat \ {0}
    /\ MaxCreates \in Nat /\ MaxEvents \in Nat
    /\ Faults \in BOOLEAN

VARIABLES
    kind,           \* kind of the index, fixed
    up,             \* the store is open
    mem, disk,      \* the index in the label definition: [st, id, uniq]; an
                    \* edge index has no id, here it tells one CREATE from another
    next, dNext,    \* next_index_id in memory and in M|next_ids
    val,            \* committed property value of each entity
    made, ents,     \* index tables that exist, and their committed entries
    bld,            \* CREATE INDEX statements
    drp,            \* the DROP INDEX statement
    alt,            \* the ALTER LABEL statement
    wr,             \* write statements
    used,           \* events so far: what MaxEvents bounds
    together,       \* history: {e, f} written by overlapping transactions, {e} also
                    \* when the scan of the backfill ended before it reached e
    unseen,         \* history: written by a statement planned without this index
    blurred         \* history: the definition was overwritten by an older copy, a
                    \* build filled or ended another's index, a table with
                    \* entries was adopted, or an id was given again while the
                    \* index, its DROP or a statement that knows it is there

meta == <<kind, up, mem, disk, next, dNext>>
data == <<val, made, ents>>
history == <<together, unseen, blurred>>
vars == <<meta, data, bld, drp, alt, wr, used, history>>

-----------------------------------------------------------------------------
(* Types and initial state *)

States == {"none", "WRITE_ONLY", "PUBLIC", "ERROR"}
NoIndex == [st |-> "none", id |-> 0, uniq |-> FALSE]
Definitions == [st : States, id : 0 .. MaxCreates, uniq : BOOLEAN]
Entries == Values \X Entities
PropOf(e) == <<NoValue, e>>        \* the key of e's property; an entry's key is <<x, e>>
Keys == Entries \cup {PropOf(e) : e \in Entities}

\* vidxTableById: a table per index id; eidxTable: one for label and property.
TableOf(def) == IF kind = "vertex" THEN def.id ELSE 1

NoTxn == [puts |-> {}, dels |-> {}]
RestB == [pc |-> "idle", def |-> NoIndex, before |-> NoIndex, at |-> 1, batch |-> {}, txn |-> NoTxn]
RestD == [pc |-> "idle", def |-> NoIndex, before |-> NoIndex]
RestA == [pc |-> "idle", copy |-> NoIndex, byValue |-> FALSE]
RestW == [pc |-> "idle", def |-> NoIndex, new |-> NoValue, e |-> 1, txn |-> NoTxn]

Txns == [puts : SUBSET Entries, dels : SUBSET Entries]
BuildSteps == {"idle", "persist", "table", "scan", "commit", "error", "publish"}
Builds == [pc : BuildSteps, def : Definitions, before : Definitions, at : 1 .. MaxEntity + 1,
           batch : SUBSET Entities, txn : Txns]
Drops == [pc : {"idle", "persist", "table"}, def : Definitions, before : Definitions]
Alters == [pc : {"idle", "persist"}, copy : Definitions, byValue : BOOLEAN]
Writes == [pc : {"idle", "planned", "done"}, def : Definitions, new : Values \cup {NoValue}, e : Entities, txn : Txns]

\* Every variable has its type, and a pending batch is never larger than the
\* configured size.
TypeOK ==
    /\ kind \in IndexKinds /\ up \in BOOLEAN
    /\ mem \in Definitions /\ disk \in Definitions
    /\ next \in 1 .. MaxCreates + 1 /\ dNext \in 1 .. MaxCreates + 1
    /\ val \in [Entities -> Values \cup {NoValue}]
    /\ made \subseteq 1 .. MaxCreates
    /\ ents \in [1 .. MaxCreates -> SUBSET Entries]
    /\ \A t \in 1 .. MaxCreates : t \notin made => ents[t] = {}
    /\ bld \in [Builders -> Builds] /\ \A b \in Builders : Cardinality(bld[b].batch) <= BatchRows
    /\ drp \in Drops /\ alt \in Alters /\ wr \in [Writers -> Writes]
    /\ used \in Nat /\ blurred \in BOOLEAN

Init ==
    /\ kind \in IndexKinds /\ up = TRUE
    /\ mem = NoIndex /\ disk = NoIndex
    /\ next = 1 /\ dNext = 1
    /\ val \in [Entities -> Values \cup {NoValue}]
    /\ made = {} /\ ents = [t \in 1 .. MaxCreates |-> {}]
    /\ bld = [b \in Builders |-> RestB]
    /\ drp = RestD /\ alt = RestA
    /\ wr = [w \in Writers |-> RestW]
    /\ used = 0
    /\ together = {} /\ unseen = {} /\ blurred = FALSE

-----------------------------------------------------------------------------
(* Transactions.  The reads and writes of a transaction are one step, taken  *)
(* with its begin; it is active until its commit.  (Splitting the step would   *)
(* only add conflicts with what was committed since the begin.)                *)

ActiveW == {w \in Writers : wr[w].pc = "done"}
ActiveB == {b \in Builders : bld[b].pc = "commit"}

\* Keys written by the active transactions: writing one of them makes
\* WiredTiger return WT_ROLLBACK.
Locked == UNION {wr[w].txn.puts \cup wr[w].txn.dels \cup {PropOf(wr[w].e)} : w \in ActiveW}
            \cup UNION {bld[b].txn.puts : b \in ActiveB}

\* The indexes that are there, or would be again after a failing DROP or a crash.
Around == {mem.id, disk.id, drp.def.id} \ {0}

\* The entities that the transactions ws and bs write, paired with those of on.
Paired(on, ws, bs) ==
    LET others == {wr[w].e : w \in ws} \cup UNION {bld[b].batch : b \in bs}
    IN {<<i, {e, f}>> : i \in Around, e \in on, f \in others}

\* Something the environment does: a statement, a crash, a failing call.
Event == used < MaxEvents /\ used' = used + 1
Fault == Faults /\ Event

Apply(t, puts, dels) ==
    ents' = IF puts \cup dels = {} THEN ents ELSE [ents EXCEPT ![t] = (@ \ dels) \cup puts]

-----------------------------------------------------------------------------
(* Write statements: CREATE, SET, REMOVE, DELETE of one entity *)

Live(def) == def.st \in {"WRITE_ONLY", "PUBLIC"}

\* prepareStream copies the label definitions (listLabels), binds, and only
\* then takes a session and begins.
Plan(w) ==
    /\ up /\ wr[w].pc = "idle" /\ Event
    /\ \E e \in Entities, x \in Values \cup {NoValue} :
        wr' = [wr EXCEPT ![w] = [RestW EXCEPT !.pc = "planned", !.def = mem, !.e = e, !.new = x]]
    /\ UNCHANGED <<meta, data, bld, drp, alt, history>>

EntryOf(x, e) == IF x = NoValue THEN {} ELSE {<<x, e>>}

\* The operator deletes the entry of the old value, writes the property,
\* checks a UNIQUE index and inserts the entry of the new value.  A duplicate
\* makes the vertex path roll back and throw; the edge path skips the entry.
\* A failing call is remembered by the session and refuses the commit.
Exec(w) ==
    LET s == wr[w]
        t == TableOf(s.def)
        old == IF Live(s.def) THEN EntryOf(val[s.e], s.e) ELSE {}
        new == IF Live(s.def) THEN EntryOf(s.new, s.e) ELSE {}
        there == IF t \in made THEN ents[t] ELSE {}
        dup == s.def.uniq /\ \E f \in Entities : <<s.new, f>> \in there \ old
        ins == IF dup THEN {} ELSE new
        fails == \/ old \cup new # {} /\ t \notin made
                 \/ dup /\ kind = "vertex"
                 \/ ({PropOf(s.e)} \cup old \cup ins) \cap Locked # {}
    IN /\ s.pc = "planned"
       /\ wr' = [wr EXCEPT ![w] = IF fails THEN RestW
                 ELSE [s EXCEPT !.pc = "done", !.txn = [puts |-> ins, dels |-> old \cap there]]]
       /\ UNCHANGED <<meta, data, bld, drp, alt, used, history>>

Commit(w) ==
    LET s == wr[w] IN
    /\ s.pc = "done"
    /\ val' = [val EXCEPT ![s.e] = s.new]
    /\ Apply(TableOf(s.def), s.txn.puts, s.txn.dels)
    /\ wr' = [wr EXCEPT ![w] = RestW]
    /\ together' = together \cup Paired({s.e}, ActiveW \ {w}, ActiveB)
    /\ unseen' = unseen \cup {<<i, s.e>> : i \in Around \ (IF Live(s.def) THEN {s.def.id} ELSE {})}
    /\ UNCHANGED <<meta, made, bld, drp, alt, used, blurred>>

\* The commit fails, or the client gives the statement up.
Abort(w) ==
    /\ wr[w].pc = "done" /\ Fault
    /\ wr' = [wr EXCEPT ![w] = RestW]
    /\ UNCHANGED <<meta, data, bld, drp, alt, history>>

-----------------------------------------------------------------------------
(* CREATE INDEX: the definition *)

Goto(b, pc) == bld' = [bld EXCEPT ![b] = [@ EXCEPT !.pc = pc]]
Return(b) == bld' = [bld EXCEPT ![b] = RestB]

\* createVertexIndexWithAccessors / createEdgeIndex up to the first write: the
\* name and the accessors are new; the definition is visible at once.
CreateIndex(b) ==
    /\ up /\ bld[b].pc = "idle" /\ mem.st = "none"
    /\ next <= MaxCreates /\ Event
    /\ \E u \in Uniques :
        LET def == [st |-> "WRITE_ONLY", id |-> next, uniq |-> u] IN
        /\ mem' = def
        /\ bld' = [bld EXCEPT ![b] = [RestB EXCEPT !.pc = "persist", !.def = def, !.before = mem]]
    /\ next' = next + 1
    /\ blurred' = (blurred \/ next \in Around \/ \E w \in Writers : wr[w].pc # "idle" /\ wr[w].def.id = next)
    /\ UNCHANGED <<kind, up, disk, dNext, data, drp, alt, wr, together, unseen>>

\* persistLabelDef writes the definition as it is by then; saveNextIds follows.
PersistIndex(b) ==
    /\ bld[b].pc = "persist"
    /\ disk' = mem
    /\ dNext' = next
    /\ Goto(b, "table")
    /\ UNCHANGED <<kind, up, mem, next, data, drp, alt, wr, used, history>>

\* A write fails, before or after the label record: the copy of the whole label
\* taken at the start is put back into memory.
CreateThrows(b) ==
    /\ bld[b].pc = "persist" /\ Fault
    /\ mem' = bld[b].before
    /\ disk' \in {disk, mem}
    /\ blurred' = (blurred \/ mem # bld[b].def)
    /\ Return(b)
    /\ UNCHANGED <<kind, up, next, dNext, data, drp, alt, wr, together, unseen>>

\* ensure_tables leaves an existing table as it is.
CreateTable(b) ==
    LET t == TableOf(bld[b].def) IN
    /\ bld[b].pc = "table"
    /\ kind = "vertex" => mem.st # "none"
    /\ made' = made \cup {t}
    /\ blurred' = (blurred \/ ents[t] # {})
    /\ Goto(b, "scan")
    /\ UNCHANGED <<meta, val, ents, drp, alt, wr, used, together, unseen>>

\* Early returns that leave the definition WRITE_ONLY: the table cannot be made,
\* or the definition just written is gone.
CreateTableReturns(b) ==
    /\ bld[b].pc = "table"
    /\ IF kind = "vertex" /\ mem.st = "none" THEN UNCHANGED used ELSE Fault
    /\ Return(b)
    /\ UNCHANGED <<meta, data, drp, alt, wr, history>>

-----------------------------------------------------------------------------
(* CREATE INDEX: the backfill *)

\* The pool has no two sessions for the backfill.
NoSessions(b) ==
    /\ bld[b].pc = "scan" /\ bld[b].at = 1 /\ Fault
    /\ Goto(b, "error")
    /\ UNCHANGED <<meta, data, drp, alt, wr, history>>

\* The scan of the label table reads committed data, in the order of ids.  An
\* entity without a value may exist without the property or not exist.
Scan(b) ==
    LET s == bld[b] IN
    /\ s.pc = "scan" /\ s.at \in Entities /\ Cardinality(s.batch) < BatchRows
    /\ \E visit \in IF val[s.at] = NoValue THEN BOOLEAN ELSE {TRUE} :
        bld' = [bld EXCEPT ![b] = [s EXCEPT !.at = @ + 1, !.batch = IF visit THEN @ \cup {s.at} ELSE @]]
    /\ UNCHANGED <<meta, data, drp, alt, wr, used, history>>

\* The cursor fails to open or to advance: it turns invalid and the scan ends as
\* if there were no more.  The scan session remembers the error, but the backfill
\* never asks it: what was scanned is flushed and the index becomes PUBLIC.
ScanFails(b) ==
    LET s == bld[b] IN
    /\ s.pc = "scan" /\ s.at \in Entities /\ Cardinality(s.batch) < BatchRows /\ Fault
    /\ bld' = [bld EXCEPT ![b] = [s EXCEPT !.at = MaxEntity + 1]]
    /\ together' = together \cup {<<s.def.id, {e}>> : e \in s.at .. MaxEntity}
    /\ UNCHANGED <<meta, data, drp, alt, wr, unseen, blurred>>

\* Bug: a UNIQUE index is filled without a check.
MutFlush(b) ==
    LET s == bld[b]
        new == UNION {EntryOf(val[e], e) : e \in s.batch}
    IN /\ s.pc = "scan" /\ s.batch # {}
       /\ Cardinality(s.batch) = BatchRows \/ s.at \notin Entities
       /\ bld' = [bld EXCEPT ![b] = [s EXCEPT !.pc = "commit", !.txn = [puts |-> new, dels |-> {}]]]
       /\ UNCHANGED <<meta, data, drp, alt, wr, used, history>>

\* flush_batch: the values are read in the batch's transaction, a UNIQUE index
\* is checked, the entries are inserted.  A duplicate, a missing table or a
\* write conflict ends the backfill.
Flush(b) ==
    LET s == bld[b]
        t == TableOf(s.def)
        new == UNION {EntryOf(val[e], e) : e \in s.batch}
        there == IF t \in made THEN ents[t] ELSE {}
        dup == s.def.uniq /\ \E p \in new, q \in new \cup there :
                                p[1] = q[1] /\ (p[2] # q[2] \/ q \in there)
        fails == dup \/ new \cap Locked # {} \/ (new # {} /\ t \notin made)
    IN /\ s.pc = "scan" /\ s.batch # {}
       /\ Cardinality(s.batch) = BatchRows \/ s.at \notin Entities
       /\ bld' = [bld EXCEPT ![b] = IF fails THEN [s EXCEPT !.pc = "error", !.batch = {}]
                                    ELSE [s EXCEPT !.pc = "commit", !.txn = [puts |-> new, dels |-> {}]]]
       /\ UNCHANGED <<meta, data, drp, alt, wr, used, history>>

FlushCommit(b) ==
    LET s == bld[b] IN
    /\ s.pc = "commit"
    /\ Apply(TableOf(s.def), s.txn.puts, {})
    /\ bld' = [bld EXCEPT ![b] = [s EXCEPT !.pc = "scan", !.batch = {}, !.txn = NoTxn]]
    /\ together' = together \cup Paired(s.batch, ActiveW, ActiveB \ {b})
    /\ blurred' = (blurred \/ (kind = "edge" /\ s.txn.puts # {} /\ Around \ {s.def.id} # {}))
    /\ UNCHANGED <<meta, val, made, drp, alt, wr, used, unseen>>

\* Bug: the scan goes on after a batch that did not commit.
MutFlushCommitFails(b) ==
    /\ bld[b].pc = "commit" /\ Fault
    /\ bld' = [bld EXCEPT ![b] = [@ EXCEPT !.pc = "scan", !.batch = {}, !.txn = NoTxn]]
    /\ UNCHANGED <<meta, data, drp, alt, wr, history>>

FlushCommitFails(b) ==
    /\ bld[b].pc = "commit" /\ Fault
    /\ bld' = [bld EXCEPT ![b] = [@ EXCEPT !.pc = "error", !.batch = {}, !.txn = NoTxn]]
    /\ UNCHANGED <<meta, data, drp, alt, wr, history>>

Scanned(b) == bld[b].pc = "scan" /\ bld[b].at \notin Entities /\ bld[b].batch = {}

\* updateIndexState finds the index by its name; it may be gone, or another.
SetState(b) ==
    /\ bld[b].pc = "error" \/ Scanned(b)
    /\ IF mem.st = "none" THEN Return(b) /\ UNCHANGED <<mem, blurred>>
       ELSE /\ mem' = [mem EXCEPT !.st = IF bld[b].pc = "error" THEN "ERROR" ELSE "PUBLIC"]
            /\ bld' = [bld EXCEPT ![b] = [@ EXCEPT !.pc = "publish", !.before = mem]]
            /\ blurred' = (blurred \/ mem.id # bld[b].def.id)
    /\ UNCHANGED <<kind, up, disk, next, dNext, data, drp, alt, wr, used, together, unseen>>

\* Bug: the new state is not written.
MutPersistState(b) ==
    /\ bld[b].pc = "publish"
    /\ Return(b)
    /\ UNCHANGED <<meta, data, drp, alt, wr, used, history>>

PersistState(b) ==
    /\ bld[b].pc = "publish"
    /\ disk' = mem
    /\ Return(b)
    /\ UNCHANGED <<kind, up, mem, next, dNext, data, drp, alt, wr, used, history>>

PersistStateFails(b) ==
    /\ bld[b].pc = "publish" /\ Fault
    /\ mem' = IF mem.st = "none" THEN mem ELSE [mem EXCEPT !.st = bld[b].before.st]
    /\ disk' \in {disk, mem}
    /\ Return(b)
    /\ UNCHANGED <<kind, up, next, dNext, data, drp, alt, wr, history>>

-----------------------------------------------------------------------------
(* DROP INDEX *)

DropIndex ==
    /\ up /\ drp.pc = "idle" /\ mem.st # "none" /\ Event
    /\ drp' = [pc |-> "persist", def |-> mem, before |-> mem]
    /\ mem' = NoIndex
    /\ UNCHANGED <<kind, up, disk, next, dNext, data, bld, alt, wr, history>>

DropPersist ==
    /\ drp.pc = "persist"
    /\ disk' = mem
    /\ drp' = [drp EXCEPT !.pc = "table"]
    /\ UNCHANGED <<kind, up, mem, next, dNext, data, bld, alt, wr, used, history>>

DropThrows ==
    /\ drp.pc = "persist" /\ Fault
    /\ mem' = drp.before
    /\ disk' \in {disk, mem}
    /\ blurred' = (blurred \/ mem # NoIndex \/ disk' # drp.before)
    /\ drp' = RestD
    /\ UNCHANGED <<kind, up, next, dNext, data, bld, alt, wr, together, unseen>>

\* Only an index with an id has its table dropped, which an edge index has not;
\* the result is not looked at.  A table in use by a transaction cannot be
\* dropped.
DropTable ==
    LET t == TableOf(drp.def)
        busy == \/ \E w \in ActiveW : wr[w].txn # NoTxn /\ TableOf(wr[w].def) = t
                \/ \E b \in ActiveB : bld[b].txn # NoTxn /\ TableOf(bld[b].def) = t
    IN /\ drp.pc = "table"
       /\ \/ kind = "vertex" /\ ~busy /\ made' = made \ {t} /\ ents' = [ents EXCEPT ![t] = {}]
          \/ (kind = "edge" \/ busy) /\ UNCHANGED <<made, ents>>
       /\ drp' = RestD
       /\ UNCHANGED <<meta, val, bld, alt, wr, used, history>>

-----------------------------------------------------------------------------
(* ALTER LABEL ADD property: addVertexLabelProperties writes the definition  *)
(* as it is by then, the merge in createLabel the copy it took.  Both put    *)
(* the older copy back into memory when the write fails.                     *)

Alter ==
    /\ up /\ alt.pc = "idle" /\ Event
    /\ \E v \in BOOLEAN : alt' = [pc |-> "persist", copy |-> mem, byValue |-> v]
    /\ UNCHANGED <<meta, data, bld, drp, wr, history>>

AlterPersist ==
    /\ alt.pc = "persist"
    /\ disk' = IF alt.byValue THEN alt.copy ELSE mem
    /\ blurred' = (blurred \/ disk' # mem)
    /\ alt' = RestA
    /\ UNCHANGED <<kind, up, mem, next, dNext, data, bld, drp, wr, used, together, unseen>>

AlterThrows ==
    /\ alt.pc = "persist" /\ Fault
    /\ mem' = alt.copy
    /\ disk' \in {disk, mem}
    /\ blurred' = (blurred \/ mem # alt.copy)
    /\ alt' = RestA
    /\ UNCHANGED <<kind, up, next, dNext, data, bld, drp, wr, together, unseen>>

-----------------------------------------------------------------------------
(* Crash and restart *)

Crash ==
    /\ up /\ Event
    /\ up' = FALSE
    /\ mem' = NoIndex /\ next' = 1
    /\ bld' = [b \in Builders |-> RestB]
    /\ drp' = RestD /\ alt' = RestA
    /\ wr' = [w \in Writers |-> RestW]
    /\ UNCHANGED <<kind, disk, dNext, data, history>>

Open ==
    /\ ~up
    /\ up' = TRUE /\ mem' = disk /\ next' = dNext
    /\ UNCHANGED <<kind, disk, dNext, data, bld, drp, alt, wr, used, history>>

Build(b) ==
    \/ PersistIndex(b) \/ CreateThrows(b) \/ CreateTable(b) \/ CreateTableReturns(b)
    \/ NoSessions(b) \/ Scan(b) \/ ScanFails(b) \/ Flush(b) \/ FlushCommit(b)
    \/ FlushCommitFails(b) \/ SetState(b) \/ PersistState(b) \/ PersistStateFails(b)

Next ==
    \/ \E w \in Writers : Plan(w) \/ Exec(w) \/ Commit(w) \/ Abort(w)
    \/ \E b \in Builders : CreateIndex(b) \/ Build(b)
    \/ DropIndex \/ DropPersist \/ DropThrows \/ DropTable
    \/ Alter \/ AlterPersist \/ AlterThrows
    \/ Crash \/ Open

Spec == Init /\ [][Next]_vars

-----------------------------------------------------------------------------
(* Properties *)

\* A PUBLIC index, which the planner uses in place of a label scan, has exactly
\* one entry for each entity with a value, under that value, and none for the
\* others.  The exceptions are the gaps the backfill does not close: an entity
\* whose batch and another transaction overlapped, one written, once the index
\* existed, by a statement that was planned before, and one that the backfill did
\* not reach because its scan failed, which the statement does not notice.
\* (flush_batch against the maintenance in the write operators; a duplicate in
\* a UNIQUE edge index is left out by design.)
ExactEntries ==
    mem.st = "PUBLIC" /\ ~blurred =>
        /\ TableOf(mem) \in made
        /\ \A e \in Entities : <<mem.id, {e}>> \notin together /\ <<mem.id, e>> \notin unseen =>
            LET mine == {p \in ents[TableOf(mem)] : p[2] = e} IN
            \/ mine = EntryOf(val[e], e)
            \/ kind = "edge" /\ mem.uniq /\ mine = {}

\* A PUBLIC UNIQUE index holds one entity per value, unless the two were written
\* by transactions that overlapped: checkUniqueConstraint reads the snapshot and
\* the two entries are different keys, so WiredTiger sees no conflict.
UniqueUnlessTogether ==
    mem.st = "PUBLIC" /\ mem.uniq /\ ~blurred =>
        \A p, q \in ents[TableOf(mem)] :
            p[1] = q[1] /\ p[2] # q[2] =>
                \/ <<mem.id, {p[2], q[2]}>> \in together
                \/ \E e \in {p[2], q[2]} : <<mem.id, e>> \in unseen

\* What the server uses as PUBLIC is PUBLIC on disk once the statement that
\* published it has returned: a restart does not lose a finished index.
PublicIsDurable ==
    mem.st = "PUBLIC" /\ ~blurred /\ drp.pc = "idle" /\ (\A b \in Builders : bld[b].pc # "publish")
        => disk = mem

-----------------------------------------------------------------------------
(* The inductive invariant behind the three *)

\* The definitions that are, or may become, the one in memory: by a restart, or
\* by a DROP INDEX that fails.
Candidates == {mem, disk} \cup (IF drp.pc = "persist" THEN {drp.before} ELSE {})
Ids == {d.id : d \in {c \in Candidates : c.st # "none"}}

Unpublished == {"persist", "table", "scan", "commit", "error"}

\* CREATE INDEX statements have ids of their own, below the counter.
IdInv ==
    /\ \A b \in Builders : bld[b].pc # "idle" => bld[b].def.id \in 1 .. (next - 1)
    /\ \A b, c \in Builders : b # c /\ bld[b].pc # "idle" /\ bld[c].pc # "idle" => bld[b].def.id # bld[c].def.id
    /\ ~up => drp.pc = "idle" /\ \A b \in Builders : bld[b].pc = "idle"
    /\ drp.pc # "idle" => drp.before = drp.def

\* One id is one index, published by its own build and by nobody before.
DefInv ==
    /\ \A d \in Candidates : IF d.st = "none" THEN d = NoIndex ELSE d.id # 0
    /\ \A d, c \in Candidates : d.id = c.id => d.uniq = c.uniq
    /\ \A d \in Candidates, b \in Builders : bld[b].pc # "idle" /\ d.id = bld[b].def.id =>
          d.uniq = bld[b].def.uniq /\ (bld[b].pc \in Unpublished => d.st # "PUBLIC")
    /\ \A d \in Candidates, w \in Writers :
          d.st # "none" /\ wr[w].pc # "idle" /\ d.id = wr[w].def.id => d.uniq = wr[w].def.uniq
    /\ \A b \in Builders :
          /\ bld[b].pc = "persist" => bld[b].before = NoIndex
          /\ bld[b].pc = "publish" => bld[b].before.st \notin {"none", "PUBLIC"}
    /\ drp.pc # "idle" => drp.def.id \notin {0, mem.id}
    /\ drp.pc = "table" => drp.def.id # disk.id

\* Between two statements memory and disk agree on a PUBLIC index.
DurableInv == mem.st = "PUBLIC" /\ (\A b \in Builders : bld[b].pc # "publish") => disk = mem

\* Transactions write their own entities, no two writers the same, into tables
\* that exist: one in use is not dropped.
WriteSetInv ==
    /\ \A w \in Writers : wr[w].pc = "done" =>
          /\ wr[w].txn.puts \subseteq EntryOf(wr[w].new, wr[w].e)
          /\ \A p \in wr[w].txn.dels : p[2] = wr[w].e
          /\ wr[w].txn.puts \cup wr[w].txn.dels # {} => TableOf(wr[w].def) \in made
    /\ \A v, w \in Writers : v # w /\ wr[v].pc = "done" /\ wr[w].pc = "done" => wr[v].e # wr[w].e
    /\ \A b \in Builders :
          /\ \A e \in bld[b].batch : e < bld[b].at
          /\ bld[b].pc \in {"persist", "table"} => bld[b].at = 1 /\ bld[b].batch = {}
          /\ bld[b].pc = "commit" => \A p \in bld[b].txn.puts : p[2] \in bld[b].batch /\ TableOf(bld[b].def) \in made

\* What is committed, and what has been marked about it.
Now == [kind |-> kind, val |-> val, made |-> made, ents |-> ents, together |-> together, unseen |-> unseen]

TableIn(x, def) == IF x.kind = "vertex" THEN def.id ELSE 1
Mine(x, def, e) == {p \in x.ents[TableIn(x, def)] : p[2] = e}
Marked(x, def, e) == <<def.id, {e}>> \in x.together \/ <<def.id, e>> \in x.unseen
Exact(x, def, e) == Mine(x, def, e) = EntryOf(x.val[e], e) \/ (x.kind = "edge" /\ def.uniq /\ Mine(x, def, e) = {})

\* Entries of two entities under one value are excused by how they were written.
ClashExcused(x, def, p, q) ==
    p[1] = q[1] /\ p[2] # q[2] =>
        <<def.id, {p[2], q[2]}>> \in x.together \/ <<def.id, p[2]>> \in x.unseen \/ <<def.id, q[2]>> \in x.unseen
Unique(x, def) == def.uniq => \A p, q \in x.ents[TableIn(x, def)] : ClashExcused(x, def, p, q)

\* An index that is complete.
PublicOK(x, def) ==
    /\ TableIn(x, def) \in x.made
    /\ \A e \in Entities : ~Marked(x, def, e) => Exact(x, def, e)
    /\ Unique(x, def)

\* An index that a build is filling: complete behind the scan but for what a
\* failing scan has passed over, and ahead of it
\* nothing but what writers have put there; the pending batch agrees with the values.
BuildOK(x, s) ==
    /\ TableIn(x, s.def) \in x.made
    /\ \A e \in Entities : ~Marked(x, s.def, e) =>
          /\ Mine(x, s.def, e) \subseteq EntryOf(x.val[e], e)
          /\ e < s.at /\ e \notin s.batch => Exact(x, s.def, e)
          /\ s.pc = "commit" /\ e \in s.batch => {p \in s.txn.puts : p[2] = e} = EntryOf(x.val[e], e)
    /\ Unique(x, s.def)
    /\ s.pc = "commit" /\ s.def.uniq =>
          \A p \in s.txn.puts, q \in s.txn.puts \cup x.ents[TableIn(x, s.def)] : ClashExcused(x, s.def, p, q)

\* A writer that maintains the index replaces what the entity has there.
WriteOK(x, s) ==
    /\ ~Marked(x, s.def, s.e) =>
          /\ s.txn.dels = EntryOf(x.val[s.e], s.e) \cap x.ents[TableIn(x, s.def)]
          /\ s.txn.puts = EntryOf(s.new, s.e) \/ (x.kind = "edge" /\ s.def.uniq /\ s.txn.puts = {})
    /\ s.def.uniq => \A p \in s.txn.puts, q \in x.ents[TableIn(x, s.def)] : ClashExcused(x, s.def, p, q)

DataInv ==
    /\ \A d \in Candidates : d.st = "PUBLIC" => PublicOK(Now, d)
    /\ \A b \in Builders : bld[b].pc \in {"scan", "commit"} /\ bld[b].def.id \in Ids => BuildOK(Now, bld[b])
    /\ \A w \in Writers : wr[w].pc = "done" /\ Live(wr[w].def) /\ wr[w].def.id \in Ids => WriteOK(Now, wr[w])

IInv == TypeOK /\ IdInv /\ WriteSetInv /\ (~blurred => DefInv /\ DurableInv /\ DataInv)

-----------------------------------------------------------------------------
(* What documents and comments of the repository would have *)

\* query_executor.cpp, flush_batch: an index that lacks entries is never PUBLIC,
\* "an empty index is more dangerous than none".  (Writers = {}.)
NeverPublicAndEmpty ==
    mem.st = "PUBLIC" /\ ~blurred =>
        \A e \in Entities : val[e] # NoValue => \E p \in ents[TableOf(mem)] : p[2] = e

\* index_design.md: DROP INDEX deletes the table, PUBLIC is "fully usable".  With
\* no overlapping statements a PUBLIC index agrees with the values.
PublicIsComplete ==
    mem.st = "PUBLIC" /\ (\A h \in together : h[1] # mem.id) /\ (\A h \in unseen : h[1] # mem.id) =>
        ents[TableOf(mem)] = UNION {EntryOf(val[e], e) : e \in Entities}
=============================================================================
