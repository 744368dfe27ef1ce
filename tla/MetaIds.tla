------------------------------ MODULE MetaIds ------------------------------
(***************************************************************************)
(* Identifiers handed out by AsyncGraphMetaStore of one graph: vertex and  *)
(* edge id ranges taken from an in-memory cache that is refilled from a    *)
(* durable high-water mark, and label ids given out by createLabel.  Every *)
(* metadataPut is an autocommit write of its own (SyncGraphMetaStore), so  *)
(* a crash may fall between any two of them.                               *)
(*                                                                         *)
(* An importer is a coroutine inside nextVertexIdRange / nextEdgeIdRange,  *)
(* a creator one inside createLabel.  id 0 stands for "no id"; real ids    *)
(* start at 1.                                                             *)
(***************************************************************************)
EXTENDS Naturals, FiniteSets

CONSTANTS
    Importers,      \* callers of the range allocators
    Creators,       \* callers of createLabel
    Names,          \* label names
    Kinds,          \* id spaces with a cache: vertex ids, edge ids
    Chunk,          \* kVertexIdCacheChunk, kEdgeIdCacheChunk
    Counts,         \* range sizes requested
    MaxId,          \* bound: largest vertex or edge id reserved
    MaxLabel,       \* bound: largest label id allocated
    Faults          \* TRUE: a metadataPut may fail

NoOne == "none"

ASSUME MetaIdsAssumption ==
    /\ Kinds # {}
    /\ NoOne \notin Importers
    /\ Chunk \in Nat \ {0}
    /\ Counts \subseteq Nat \ {0}
    /\ MaxId \in Nat /\ MaxLabel \in Nat
    /\ Faults \in BOOLEAN

VARIABLES
    up,             \* the store is open
    dName,          \* disk: M|label:{name} -> id
    dId,            \* disk: M|label_id:{id} -> name
    dNext,          \* disk: M|next_ids, [ids, label]; label = 0: no such key
    next,           \* schema_.next_vertex_id, next_edge_id
    nextLabel,      \* schema_.next_label_id
    cache,          \* kind -> [next, end] of the id cache
    mName,          \* schema_.label_name_to_id
    refill,         \* holder of refill_mu_, or NoOne
    imp,            \* importer -> [pc, kind, count, start, chunk]
    cre,            \* creator -> [pc, name, id]
    issued,         \* history: kind -> ids handed out
    twice,          \* history: ids handed out a second time
    overrun,        \* history: a range went past the end of its chunk
    returned        \* history: <<name, id>> pairs createLabel returned

disk == <<dName, dId, dNext>>
memory == <<up, next, nextLabel, cache, mName, refill>>
history == <<issued, twice, overrun, returned>>
vars == <<disk, memory, imp, cre, history>>

-----------------------------------------------------------------------------
(* Types *)

NoName == "none"
LabelIds == 0 .. MaxLabel
IdBound == 0 .. MaxId + 1
Max2(a, b) == IF a > b THEN a ELSE b

Idle == [pc |-> "idle", kind |-> CHOOSE k \in Kinds : TRUE, count |-> 0, start |-> 0, chunk |-> 0]
Rest == [pc |-> "idle", name |-> NoName, id |-> 0]

ImporterSteps == {"idle", "waiting", "saving", "saved", "taking"}
CreatorSteps == {"idle", "bump", "putName", "putId", "saving", "publish"}

\* Every variable has its type; ids stay within the bounds of the model.
TypeOK ==
    /\ up \in BOOLEAN
    /\ dName \in [Names -> LabelIds]
    /\ dId \in [1 .. MaxLabel -> Names \cup {NoName}]
    /\ dNext \in [ids : [Kinds -> IdBound], label : 0 .. MaxLabel + 1]
    /\ next \in [Kinds -> IdBound]
    /\ nextLabel \in 0 .. MaxLabel + 1
    /\ cache \in [Kinds -> [next : Nat, end : IdBound]]
    /\ mName \in [Names -> LabelIds]
    /\ refill \in Importers \cup {NoOne}
    /\ imp \in [Importers -> [pc : ImporterSteps, kind : Kinds, count : Counts \cup {0},
                              start : IdBound, chunk : Nat]]
    /\ cre \in [Creators -> [pc : CreatorSteps, name : Names \cup {NoName}, id : LabelIds]]

-----------------------------------------------------------------------------
(* AsyncGraphMetaStore::open, and a stop of the process at any point *)

\* Bug: the id counters start again.
MutOpen ==
    /\ ~up
    /\ up' = TRUE
    /\ mName' = dName
    /\ next' = [k \in Kinds |-> 1]
    /\ nextLabel' = Max2(1, dNext.label)
    /\ UNCHANGED <<disk, cache, refill, imp, cre, history>>

\* The scan of M|label:* raises next_label_id above every id it finds; then
\* M|next_ids, if present, replaces all counters.
Open ==
    /\ ~up
    /\ up' = TRUE
    /\ mName' = dName
    /\ IF dNext.label = 0
       THEN /\ next' = [k \in Kinds |-> 1]
            /\ \E m \in 1 .. MaxLabel + 1 :
                /\ \A n \in Names : dName[n] < m
                /\ m = 1 \/ \E n \in Names : dName[n] = m - 1
                /\ nextLabel' = m
       ELSE next' = dNext.ids /\ nextLabel' = dNext.label
    /\ UNCHANGED <<disk, cache, refill, imp, cre, history>>

\* The process stops, by a crash or a shutdown: what is in memory is lost.
Stop ==
    /\ up
    /\ up' = FALSE
    /\ next' = [k \in Kinds |-> 0]
    /\ nextLabel' = 0
    /\ cache' = [k \in Kinds |-> [next |-> 0, end |-> 0]]
    /\ mName' = [n \in Names |-> 0]
    /\ refill' = NoOne
    /\ imp' = [i \in Importers |-> Idle]
    /\ cre' = [c \in Creators |-> Rest]
    /\ UNCHANGED <<disk, history>>

-----------------------------------------------------------------------------
(* nextVertexIdRange, nextEdgeIdRange *)

Enough(k, count) == cache[k].next + count <= cache[k].end

\* The caller gets count ids from the cache's position on; end is not looked at.
Take(k, count) ==
    LET new == cache[k].next .. cache[k].next + count - 1 IN
    /\ cache' = [cache EXCEPT ![k].next = @ + count]
    /\ issued' = [issued EXCEPT ![k] = @ \cup new]
    /\ twice' = twice \cup (new \cap issued[k])
    /\ overrun' = (overrun \/ ~Enough(k, count))
    /\ UNCHANGED returned

\* Fast path under id_mu_.
TakeFast(i, k, count) ==
    /\ up /\ imp[i].pc = "idle"
    /\ Enough(k, count)
    /\ Take(k, count)
    /\ UNCHANGED <<disk, up, next, nextLabel, mName, refill, imp, cre>>

\* The cache does not suffice: queue for refill_mu_.
NeedRefill(i, k, count) ==
    /\ up /\ imp[i].pc = "idle"
    /\ ~Enough(k, count)
    /\ imp' = [imp EXCEPT ![i] = [Idle EXCEPT !.pc = "waiting", !.kind = k, !.count = count]]
    /\ UNCHANGED <<disk, memory, cre, history>>

\* With refill_mu_: somebody else has refilled the cache meanwhile.
RefillHit(i) ==
    /\ imp[i].pc = "waiting" /\ refill = NoOne
    /\ Enough(imp[i].kind, imp[i].count)
    /\ Take(imp[i].kind, imp[i].count)
    /\ imp' = [imp EXCEPT ![i] = Idle]
    /\ UNCHANGED <<disk, up, next, nextLabel, mName, refill, cre>>

\* With refill_mu_: reserve a chunk in next_vertex_id / next_edge_id.
RefillReserve(i) ==
    LET k == imp[i].kind
        chunk == Max2(imp[i].count, Chunk) IN
    /\ imp[i].pc = "waiting" /\ refill = NoOne
    /\ ~Enough(k, imp[i].count)
    /\ next[k] + chunk <= MaxId + 1
    /\ refill' = i
    /\ next' = [next EXCEPT ![k] = @ + chunk]
    /\ imp' = [imp EXCEPT ![i].pc = "saving", ![i].start = next[k], ![i].chunk = chunk]
    /\ UNCHANGED <<disk, up, nextLabel, cache, mName, cre, history>>

\* saveNextIds: counters are read and written under id_mu_ on an IO thread.
SaveNextIds == dNext' = [ids |-> next, label |-> nextLabel]

RefillSave(i) ==
    /\ imp[i].pc = "saving"
    /\ SaveNextIds
    /\ imp' = [imp EXCEPT ![i].pc = "saved"]
    /\ UNCHANGED <<dName, dId, memory, cre, history>>

\* The write fails: the call throws, the reserved chunk is never used.
RefillSaveFails(i) ==
    /\ Faults /\ imp[i].pc = "saving"
    /\ imp' = [imp EXCEPT ![i] = Idle]
    /\ refill' = NoOne
    /\ UNCHANGED <<disk, up, next, nextLabel, cache, mName, cre, history>>

\* Install the new chunk; whatever the old cache still had is dropped.
RefillPublish(i) ==
    /\ imp[i].pc = "saved"
    /\ cache' = [cache EXCEPT ![imp[i].kind] = [next |-> imp[i].start, end |-> imp[i].start + imp[i].chunk]]
    /\ imp' = [imp EXCEPT ![i].pc = "taking"]
    /\ UNCHANGED <<disk, up, next, nextLabel, mName, refill, cre, history>>

\* id_mu_ was released after the installation; the take does not check again.
RefillTake(i) ==
    /\ imp[i].pc = "taking"
    /\ Take(imp[i].kind, imp[i].count)
    /\ imp' = [imp EXCEPT ![i] = Idle]
    /\ refill' = NoOne
    /\ UNCHANGED <<disk, up, next, nextLabel, mName, cre>>

-----------------------------------------------------------------------------
(* createLabel; createEdgeLabel creates a new name in the same steps *)

\* The label exists with the same declaration: its id is returned.
CreateExisting(c, n) ==
    /\ up /\ cre[c].pc = "idle"
    /\ mName[n] # 0
    /\ returned' = returned \cup {<<n, mName[n]>>}
    /\ UNCHANGED <<disk, memory, imp, cre, issued, twice, overrun>>

\* next_label_id++ is not atomic and takes no lock: the read and the write are
\* two steps.
CreateLabel(c, n) ==
    /\ up /\ cre[c].pc = "idle"
    /\ mName[n] = 0
    /\ nextLabel <= MaxLabel
    /\ cre' = [cre EXCEPT ![c] = [pc |-> "bump", name |-> n, id |-> nextLabel]]
    /\ UNCHANGED <<disk, memory, imp, history>>

LabelBump(c) ==
    /\ cre[c].pc = "bump"
    /\ nextLabel' = cre[c].id + 1
    /\ cre' = [cre EXCEPT ![c].pc = "putName"]
    /\ UNCHANGED <<disk, up, next, cache, mName, refill, imp, history>>

\* Bug: a failed metadataPut is ignored and the label is used all the same.
MutPutName(c) ==
    /\ cre[c].pc = "putName"
    /\ \/ dName' = [dName EXCEPT ![cre[c].name] = cre[c].id]
       \/ Faults /\ UNCHANGED dName
    /\ cre' = [cre EXCEPT ![c].pc = "putId"]
    /\ UNCHANGED <<dId, dNext, memory, imp, history>>

PutName(c) ==
    /\ cre[c].pc = "putName"
    /\ dName' = [dName EXCEPT ![cre[c].name] = cre[c].id]
    /\ cre' = [cre EXCEPT ![c].pc = "putId"]
    /\ UNCHANGED <<dId, dNext, memory, imp, history>>

PutId(c) ==
    /\ cre[c].pc = "putId"
    /\ dId' = [dId EXCEPT ![cre[c].id] = cre[c].name]
    /\ cre' = [cre EXCEPT ![c].pc = "saving"]
    /\ UNCHANGED <<dName, dNext, memory, imp, history>>

LabelSave(c) ==
    /\ cre[c].pc = "saving"
    /\ SaveNextIds
    /\ cre' = [cre EXCEPT ![c].pc = "publish"]
    /\ UNCHANGED <<dName, dId, memory, imp, history>>

\* The call throws: an unusable primary key declaration right after the id was
\* taken, or a failed write at any of the three puts.
CreateThrows(c) ==
    /\ \/ cre[c].pc = "putName"
       \/ Faults /\ cre[c].pc \in {"putId", "saving"}
    /\ cre' = [cre EXCEPT ![c] = Rest]
    /\ UNCHANGED <<disk, memory, imp, history>>

LabelPublish(c) ==
    /\ cre[c].pc = "publish"
    /\ mName' = [mName EXCEPT ![cre[c].name] = cre[c].id]
    /\ returned' = returned \cup {<<cre[c].name, cre[c].id>>}
    /\ cre' = [cre EXCEPT ![c] = Rest]
    /\ UNCHANGED <<disk, up, next, nextLabel, cache, refill, imp, issued, twice, overrun>>

-----------------------------------------------------------------------------
Init ==
    /\ up = FALSE
    /\ dName = [n \in Names |-> 0]
    /\ dId = [l \in 1 .. MaxLabel |-> NoName]
    /\ dNext = [ids |-> [k \in Kinds |-> 0], label |-> 0]
    /\ next = [k \in Kinds |-> 0]
    /\ nextLabel = 0
    /\ cache = [k \in Kinds |-> [next |-> 0, end |-> 0]]
    /\ mName = [n \in Names |-> 0]
    /\ refill = NoOne
    /\ imp = [i \in Importers |-> Idle]
    /\ cre = [c \in Creators |-> Rest]
    /\ issued = [k \in Kinds |-> {}]
    /\ twice = {}
    /\ overrun = FALSE
    /\ returned = {}

Next ==
    \/ Open \/ Stop
    \/ \E i \in Importers :
        \/ \E k \in Kinds, count \in Counts : TakeFast(i, k, count) \/ NeedRefill(i, k, count)
        \/ RefillHit(i) \/ RefillReserve(i) \/ RefillSave(i) \/ RefillSaveFails(i)
        \/ RefillPublish(i) \/ RefillTake(i)
    \/ \E c \in Creators :
        \/ \E n \in Names : CreateExisting(c, n) \/ CreateLabel(c, n)
        \/ LabelBump(c) \/ PutName(c) \/ PutId(c) \/ LabelSave(c) \/ CreateThrows(c) \/ LabelPublish(c)

Spec == Init /\ [][Next]_vars

-----------------------------------------------------------------------------
(* Properties *)

\* As long as every range was inside its chunk, no vertex or edge id is handed
\* out twice, across refills, failed writes and restarts.
UniqueIds == ~overrun => twice = {}

\* ... and an id in use is below the durable high-water mark: a restart resumes
\* above every id handed out before ("persist the new high-water mark before
\* exposing the cached range").
BelowHighWater == ~overrun => \A k \in Kinds : \A id \in issued[k] : id < dNext.ids[k]

\* The durable high-water marks never move backwards, whoever writes
\* M|next_ids: a label being created saves the id counters too.
HighWaterMonotone == [][\A k \in Kinds : dNext'.ids[k] >= dNext.ids[k]]_vars

\* Every id the cache may still give out is below the durable high-water mark,
\* whatever the other importers do between the reservation of a chunk and its
\* installation.
CachedIsDurable == \A k \in Kinds : cache[k].end <= dNext.ids[k]

\* A chunk on its way into the cache lies above the range cached now: refills
\* of several importers never install the same ids twice.
ChunksAscend ==
    \A i \in Importers :
        imp[i].pc \in {"saving", "saved"} => cache[imp[i].kind].end <= imp[i].start

\* A label the store answers with is durable under some id: it does not vanish
\* at a restart.
VisibleIsDurable == \A n \in Names : mName[n] # 0 => dName[n] # 0

(* The inductive invariant *)

\* One importer at a time is past the check under refill_mu_.
OneRefill == \A i \in Importers : imp[i].pc \in {"saving", "saved", "taking"} => refill = i

\* A reserved chunk is covered by the counter in memory, and once saved by the
\* one on disk.
ChunkCovered ==
    \A i \in Importers :
        /\ imp[i].pc = "saving" => imp[i].start + imp[i].chunk <= next[imp[i].kind]
        /\ imp[i].pc = "saved" => imp[i].start + imp[i].chunk <= dNext.ids[imp[i].kind]

\* While the store is open the counters in memory are not behind those on
\* disk; while it is not, nothing runs.
CountersAhead ==
    /\ up => nextLabel >= 1 /\ \A k \in Kinds : dNext.ids[k] <= next[k]
    /\ ~up => /\ \A i \in Importers : imp[i].pc = "idle"
              /\ \A c \in Creators : cre[c].pc = "idle"
    /\ dNext.label = 0 => \A k \in Kinds : dNext.ids[k] = 0

\* A label being created has an id, and its name is durable before its id is.
LabelUnderway ==
    \A c \in Creators :
        /\ cre[c].pc # "idle" => cre[c].id # 0 /\ cre[c].name \in Names
        /\ cre[c].pc \in {"putId", "saving", "publish"} => dName[cre[c].name] # 0

IInv ==
    /\ TypeOK /\ CachedIsDurable /\ ChunksAscend /\ VisibleIsDurable
    /\ OneRefill /\ ChunkCovered /\ CountersAhead /\ LabelUnderway

\* Behind UniqueIds: the ids handed out lie below the durable mark, below the
\* position of a cache that has ids left, and below every chunk on its way in.
IssuedInv ==
    /\ issued \in [Kinds -> SUBSET Nat] /\ overrun \in BOOLEAN
    /\ UniqueIds /\ BelowHighWater
    /\ ~overrun =>
          /\ \A k \in Kinds : \A id \in issued[k] :
                id < cache[k].next \/ cache[k].end <= cache[k].next
          /\ \A i \in Importers : imp[i].pc \in {"saving", "saved"} =>
                \A id \in issued[imp[i].kind] : id < imp[i].start

(* What the documentation says *)

\* M|label_id:{id} is the reverse lookup of M|label:{name}: a durable label is
\* found under its id.
ReverseLookup ==
    \A n \in Names :
        dName[n] # 0 /\ (\A c \in Creators : cre[c].pc = "idle") /\ up
            => dId[dName[n]] \in {n, NoName}

\* multi-label-design.md: the system gives every vertex a unique id.
IdsAreUnique == twice = {}

\* graph_service.cpp: createLabel is idempotent, all calls for a name return the
\* same id.
CreateIsIdempotent ==
    \A p, q \in returned : p[1] = q[1] => p[2] = q[2]
=============================================================================
