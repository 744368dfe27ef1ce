# EuGraph: TLA+ models, model checks and proofs

EuGraph is a single-node property-graph database: a C++20 server that speaks
Bolt and Thrift, plans and runs Cypher, and stores every graph in WiredTiger
(WT) databases of its own.  This directory models the parts whose correctness
depends on the order of concurrent steps, on failures and on restarts.  Paths
below are relative to `src/src/`.

## 1. Inventory

### Components, their state and operations

| Component | State it keeps | Operations | What makes it correct |
|---|---|---|---|
| GraphManager (`graph/`) | `graphs_` (name to instance), `mu_`, checkpoint thread | init, createGraph, dropGraph, acquireGraph, listGraphs, checkpointAll, shutdown | no WT connection is closed under a user; the map, the catalog and the directories agree after every crash |
| GraphUsageGate (`common/concurrency/`) | `closed_`, in-flight count | tryEnter, close, leave, timed waitDrained | nobody enters after close; the wait is not fooled by late leavers |
| CatalogStore (`storage/catalog/`) | durable name table and id counter | createGraph, dropGraph, listGraphs | ids are never reused |
| SessionPool, GraphSession, TxnController, SessionLease (`storage/data/`) | idle, leased and owned sessions; per session a transaction state and a sticky error | acquire, put, shutdown; begin, commit, rollback, close | exclusive use, bounded and never lost capacity, all-or-nothing commits, clean reuse |
| AsyncGraphMetaStore (`storage/meta/`) | label tables, id counters, id caches | open, createLabel, createEdgeLabel, nextVertexIdRange, nextEdgeIdRange, index and constraint definitions | ids are unique across crashes; a visible label is durable |
| Index DDL (`query/executor/`) | index state WRITE_ONLY, PUBLIC, ERROR, DELETE_ONLY; a table per index | CREATE INDEX with backfill, DROP INDEX, ALTER LABEL | a PUBLIC index has exactly the entries of its label, also beside writers and after a crash |
| QueryExecutor, StreamContext (`query/executor/`) | one session, transaction and operator tree per statement | prepareStream, commit, rollback | cursors die before their session, one end per transaction |
| GraphService (`service/`) | none of its own | resolveGraph, beginSession, executeCypher, database DDL, batch insertion | leases span what they protect, primary keys stay unique, every call is answered |
| Bolt connection and session (`service/bolt/`) | message queue, protocol state, stream, explicit transaction, cancel flag | one handler per message, close | the client's picture of its transactions is right |
| Thrift handler (`service/thrift/`) | a stream per query | RPC handlers, result streaming | an abandoned stream is rolled back once, the answer agrees with what is durable |
| Vertex store (`storage/data/`, write operators) | existence, labels by vertex and by label, properties by label, a cached summary, index entries | CREATE, SET, REMOVE, DELETE, MERGE, batch import | label scans, rows, summary and index tell one story |
| Edge store (the same) | type table, adjacency (cached up to a capacity), properties, index entries | CREATE, DELETE, DETACH DELETE, SET, REMOVE, batch import | both ends and the type agree, no edge dangles or disappears |
| Path operators (`query/physical_plan/operator/`) | the state of one search | variable-length expansion, shortestPath, allShortestPaths | exactly the trails, exactly the shortest ones |
| Codecs (`storage/kv/`, `storage/meta/`, PackStream, WebSocket) | none | encode, decode | order preservation, round trip |
| Parser, binder, planner, optimizer, operators, evaluator (`query/`) | per statement | compile, execute | results equal Cypher's definition |
| Bulk loader (`program/loader/`) | schema, workers, connections, totals | DDL, parallel files in batches, rerun | success means every row is there; the counts are true |
| Shell, web console, server main (`program/`, `service/web/`) | client side | | |

### How they interact

A Bolt or Thrift message runs on the compute pool.  GraphService resolves the
graph name to a GraphLease (an entry in the instance's gate), borrows a session
from the instance's pool, begins a WT transaction and builds an operator tree;
every storage call inside is a blocking call dispatched to an IO pool, so another
coroutine may run between any two of them.  The session and the lease live
inside the stream or the explicit transaction and go back when it is finished,
discarded, reset, or when the connection dies.  Dropping a graph closes the
gate, waits (10 s) for the in-flight count and the leased sessions to reach
zero, and only then closes the connections and deletes the directory.

### What is hard

Drop against use; crash between catalog, directory and map updates; sessions
coming back while the pool closes; errors at any engine call; id caches refilled
by several coroutines under two mutexes; unlocked label creation; pipelined
Bolt messages, cancellation racing the handler it is for, sockets closing while
a handler runs; backfill beside writers; records kept in several tables by
many statements; deletes against concurrent creates; streams cancelled between
steps; drops that block the pool their waiters need; loads killed and run again.
`PROJECT.json` lists each at its line
under `hazards`.

## 2. Modules

Actions carry the names of the functions they model.  A function is one action
where nothing can interleave with it, and is split exactly where it releases a
lock, waits, dispatches to another thread or makes a write of its own durable.
Definitions starting with `Mut` are wrong variants used to show that a property
can fail; the specifications do not use them.

### GraphManager (and GraphLeaseContract)

Disk: `catalog`, `nextId`, `dirs`.  Memory: `graphs` (the map), `inst` (state of
the WT connections), `gate` (closed gates), `writer` (the createGraph that holds
`mu_`), `ckpt` (the checkpoint pass), and per flow the lease `guard`, the pooled
session `sess`, and the stage of its `dropGraph`.  The in-flight counter of a
gate is derived: the flows whose lease names the instance.  init is one action
per catalog entry plus the default graph; createGraph is two (catalog entry,
opening) under the lock; dropGraph is unmapping with the catalog delete, closing
the gate, the timed wait (drained or timed out), destroying the instance and
removing the directory; shutdown extracts the map and waits for each instance.
`Crash` keeps the disk and may happen anywhere.

GraphLeaseContract is the abstract promise to a lease holder: an instance is
absent, serving, withdrawn, leaked or closed, is acquired only while serving, and
is never closed while held.  GraphManager refines it (`LeaseContract`).

### SessionPool

`all`, `idle`, `leased`, `closed` are the pool's tables; `ses` is what each
GraphSession object believes (controller state, open flag, sticky error), while
`engineOpen` and `pending` are what WiredTiger really holds.  WiredTiger is
external: every call may return any error class of `EngineErrors`.  `put` is
three actions because it closes the session outside the mutex; shutdown closes
idle sessions after releasing it.

### MetaIds

Disk: `dName`, `dId` (the two label records), `dNext` (`M|next_ids`).  Memory:
`next`, `nextLabel`, `cache`, `mName`, and the holder of `refill_mu_`.  An
importer goes through the fast path, the wait for `refill_mu_`, the second look,
the reservation, saveNextIds, the publication of the chunk, and the take;
`createLabel` through the lookup, the unlocked increment, the two record writes,
saveNextIds, and publication.  `Stop` loses memory at any point and `Open`
restores it the way open() does: scan, then overwrite by `M|next_ids`.

### BoltConnection

`phase`, `queue`, `busy`, `cancel` belong to the connection (EventBase thread);
`state`, `inTxn`, `open`, `stream` to the session (compute pool).  `work` is the
external transaction's content.  A handler is one action, except RUN (session,
then compilation) and PULL (one action per batch, end, stop, abort, commit),
during which messages arrive and the socket may close.  `client` is what the
client concludes from the responses; `commits`, `drained`, `failed`, `begun`,
`opened` and `parked` are history.  Statements are numbered; a statement's writes happen while its rows
are produced, which is how the write operators work.

### IndexDdl

One index of one label.  `mem` and `disk` are its definition in the schema and
in the metadata table, `made` and `ents` the index tables and their entries,
`val` the committed property values.  A write statement copies the definitions
when it is planned (`Plan`), begins its transaction later (`Exec`) and
maintains the indexes of its copy; a CREATE INDEX goes through the definition,
the table, the backfill in batches (each a transaction) and the publication,
with a failure possible at each call; DROP and ALTER LABEL are split at their
writes; `Crash` loses memory.  An edge index has no id and its table is named by
label and property, a vertex index's by its id.  `together`, `unseen` and
`blurred` record the races that the code leaves open, so that the properties
can exempt exactly these: entities whose transactions overlapped and those a
failing scan did not reach (`together`), an
entity written, once the index existed, by a statement planned before (`unseen`),
and DDL that overtakes DDL (`blurred`): a definition that changes under a build,
a drop or an ALTER LABEL, an edge table that still has entries or serves two
definitions, and an id used again while it is known somewhere.

### KvTables, EdgeStore, VertexStore

KvTables has put, get, delete and scan on tables as `wt_table_ops.cpp` does them,
and WiredTiger's write conflict and commit (external).  A statement is one step
on the view its transaction keeps, its commit another, so transactions overlap;
a statement whose writes meet another open transaction's fails.

EdgeStore holds the seven tables an edge touches and translates
insertAdjacencyEdge, promoteAdjacency and the rest with their counter; each
write statement is one action built from them.  deleteEdge takes the set of edges
that DETACH DELETE deletes one after another: their keys differ and the counter
goes down once for each, so the order does not matter.  DELETE of an edge takes
along any of the vertices it names (`DELETE r, a, b`): as in
`delete_physical_op.cpp:145` the edges go first, and a vertex is then refused only
for an edge whose id the statement has not named (`:185`, `:198`), whether or not
the delete found it; what such a statement leaves behind it puts into `lapped`.  A
scan of all edges and one from a vertex give DELETE the same rows.  `cap` is chosen in Init: the
server runs with 0 (`graph/graph_manager.cpp:282`), tests with more.  History
variables (`acked`, `dropped`, `ghosts`, `skewed`, `struck`, `lapped`) say what
the properties compare with and exempt.

VertexStore has one property that several labels may declare, the internal
`__anon__` label, the summary and one index on label 1.  SET has an action for
each of its forms, MERGE is create or match with ON CREATE / ON MATCH SET.  Every
SET n.p deletes the vertex's entry and inserts it again; when the insert is refused
the statement fails only if it has written (`set_physical_op.cpp:374`, `:520`), so
one that is ambiguous, and writes nothing, goes on without the entry.

### GraphService

One RPC per call: a statement from resolveGraph through prepareStream,
the prefetch of the first batch, the client's pulls, the commit, to the
destruction of tree, session and lease (in this order); a drop by statement or
by RPC; the two batch imports.  A batch finds the primary key index live or in
state ERROR and keeps it up only when it is live; lookups read the entries in
either state.  DDL on that index is IndexDdl's.  Steps on the compute pool need a thread that no
drop is blocking in waitDrained; the stream loop and its destruction run on the
network thread.  The client may cancel or stop pulling at any point.

### Loader

`Program` is loadAll for the schema of the instance.  A Cypher statement is a
call up to its first response and then a stream (`StreamEnds`).  Workers take files,
`Flush` sends a batch over a connection, the server begins and commits it in
steps of its own; `Timeout` and `Kill` lose the reply while the server goes on;
`Rerun` starts again on whatever is there.

### PathSearch, CsvReader, MCAlgorithms

PathSearch steps through the depth-first and the bidirectional search and
compares the output with a set of trails defined without them; edge property
filters, an end filter and a bound relationship list are part of the query.  CsvReader has
parseCsv as a fold over the characters and countCsvRecords with its fast path.
MCAlgorithms makes one initial state of every input.

## 3. Runs

| Run | Instance | Shows |
|---|---|---|
| graph_manager_safety | 2 names, 2 flows, 3 ids, failing catalog writes and opens, crashes, fairness (75 000 states) | no use after close, served graphs catalogued, fresh directories, lease contract, drops and shutdown return |
| session_pool_safety | 2 flows, pool of 2, 3 addresses, 3 error classes | exclusive use, capacity, whole commits, clean reuse |
| meta_ids_safety | 2 importers, 2 creators, chunk 2, ranges 1 and 3, faults and stops | ids unique over restarts as long as no range runs past its chunk, visible labels durable |
| bolt_safety | all messages in every order, 2 waiting, 8 sent, 2 statements of up to 1 row, fairness (1 080 000 states) | acknowledged is durable, failed is not, transactions do not mix, cancellation has a cause, release after close, RESET is handled |
| index_ddl_safety | 2 entities, 2 writers, 1 build at a time, 2 CREATEs, 4 events, failing calls, a crash, vertex and edge, plain and unique | exact entries and uniqueness except for the named races, PUBLIC is durable |
| edge_store_safety | 3 vertices, 2 edges, capacities 0 and 1, 2 transactions, 4 statements with a cache and 3 without (510 000 states) | both adjacencies of a vertex and the type table agree, exact degrees, no dangling edge, no lost edge, index agrees; exceptions named |
| vertex_store_safety | 2 vertices, 2 labels and `__anon__`, 2 values, 2 transactions, 2 statements | label scans, summary and index agree with the rows, REMOVE of a label keeps the value |
| service_safety | 3 calls on one droppable graph, 1 compute thread, 2 sessions, fairness | nothing in use is removed, the answer agrees with what is durable, duplicate keys only from overlapping batches or an index in ERROR, every call is answered |
| loader_safety | 2 vertex files with a key in common, 1 edge file with a dangling row, batches of 1, 2 workers, 2 connections, 2 runs, fairness (383 000 states) | success means complete, true counts, every run ends |
| algorithms | all graphs of 3 edges on 3 vertices (4 on 4 for shortest paths), CSV tables and all texts of 5 characters (441 000 states) | exactly the trails, exactly the shortest trails, CSV round trip, the fast record count agrees |
| meta_ids_importers (violation) | 2 importers | ids handed out twice (section 6) |
| edge_store_delete (violation) | as edge_store_safety | DELETE leaves the edge (section 6) |

**Bounds.** Two flows and two names reach every pair of operations on one graph
and on different ones; three ids allow a drop followed by a re-creation of the
same name after a crash.  Three session addresses for a pool of two allow a
destroyed session's replacement to differ from it.  A chunk of 2 with ranges of
1 and 3 covers the fast path, the refill and a range larger than a chunk; MaxId 5
gives at least two refills.  The edge id space is the same code as the vertex id
space and is left out of the run; the proofs are for any number of spaces.  One row per statement is enough for PULL to stop
before, at and after it; two statements give an earlier successful and a later
failing one in one transaction; two queued messages allow RESET behind another
message; eight messages are HELLO, BEGIN, RUN, PULL, a DISCARD at TX_READY, a
second BEGIN, COMMIT and one more.  In IndexDdl four events are a CREATE, two overlapping writes and one
fault or crash, or CREATE, DROP, CREATE and a write.  In EdgeStore capacity 1
and two edges reach promotion, emptying after it and key collisions (places 0
to 2 in a batch: two imports, an import onto the key of a CREATE and a CREATE
onto that of an import); four statements are create, create, delete and one more in an overlapping
transaction (with capacity 0 nothing is promoted, and three are enough), and more than a DELETE r, a, b that leaves r needs before the ends are used again.  In VertexStore Init ranges over the states of a first vertex, or of
two alike that overlapping CREATEs left (with a unique index, a duplicate),
so two statements are a change and another before or beside it: the second label's
declaration and the ambiguous SET that loses its entry need no more.  One compute
thread is the smallest pool a drop can block.  In Loader the key in common makes
two workers race for one vertex, the batch of one lets a file stop between its
rows, two runs give a rerun after any failure, and the preloaded vertex is one
the backfill indexes or misses; the endpoints of edges have one label, so the
fallback of resolve_endpoint to other labels is exercised in service_safety.  Four edges on four vertices give two
disjoint paths of different length and parallel ones.
The bounds on ids, messages and statements are guards of the actions
of the environment (the allocation that needs the id, the client sending), so a
bound stops new work and never work in progress.  Deadlock checking is off where
the bound or a final shutdown ends the behaviour.

**Fairness.** GraphManager: a thread inside dropGraph, createGraph,
checkpointAll or shutdown keeps running, and its waits are timed; nothing is
assumed of lease holders.  BoltConnection: the compute pool and the EventBase run
what is ready (`WF_vars(Handle)`), because handlers are scheduled tasks and
`finishMessage` is queued on the EventBase; nothing is assumed of the client.
GraphService: the pool and the network thread run what is ready, and the wait of
a drop ends after its 10 s; nothing is assumed of clients, which may never pull.
Loader: its own threads run and a channel has its timeout (30 s,
`program/shell/rpc_client.cpp:46`), which covers a call up to its first response.
The result streams of SHOW INDEXES, CREATE INDEX and the schema's statements are
then read to their end without one (`program/loader/csv_loader.cpp:1162`, `:1176`),
so the server is assumed to end the streams it has begun (`WF_vars(StreamEnds)`);
without that assumption RunEnds fails.  Nothing else is assumed of the server.

## 4. Proofs

All proofs hold for every value of the constants allowed by the named
assumptions (finite sets of sessions, positive chunk, and so on).

* **GraphManagerProofs.**  `IInv` adds to the properties: allocated ids lie below
  the counter (IdInv), what the holder of the exclusive lock has done so far
  (WriterInv), what init has opened (StartInv), that mapped instances are open
  and mapped once (MapInv), that a lease is only held on an open or leaked
  instance (LeaseInv), and for each stage of a drop or shutdown which part of
  the work is done and that after a successful wait nobody is inside (DropInv,
  StopInv).  LeaseInv alone is not inductive: destroying an instance preserves it
  only because the gate was closed before the wait and stays closed.  From it:
  `TypeCorrect`, `ConnectionSafety`, `DrainSafety`, `CatalogAgreement`,
  `FreshIds`, `DirectorySafety`, and the refinement `ImplementsLeaseContract`:
  the initial states map to initial states of GraphLeaseContract, and each
  action maps to one of its steps or to a stutter.
* **SessionPoolProofs.**  `IInv` adds: lease books and pool tables agree
  (LeaseBooks), pending work belongs to the holder (WorkOwned), a failure inside
  a transaction stays recorded until the transaction ends (FailureSticks),
  close() ends the engine transaction (CloseEndsWork).  From it seven theorems:
  `SessionExclusion`, `PoolCapacity`, `AtomicCommit`, `CleanReuse`,
  `TrackedTransactions`, `ClosedPool`, and the action property `PoisonStays`.
* **MetaIdsProofs.**  `IInv` adds: one refill at a time (OneRefill), the reserved
  chunk is above the cache and below the counter, and durable once saved
  (ChunkCovered), memory counters are at or above durable ones (CountersAhead),
  how far a creator has come (LabelUnderway), and that every id handed out lies
  below the durable mark, the cache position and every chunk on its way in, as
  long as no range has run past its chunk (IssuedInv).  From it `CacheDurability`,
  `ChunkOrder`, `LabelDurability`, `IdUniqueness`, `IssuedIsDurable`, and the
  action property `CountersNeverFall`, for any number of importers and creators.
* **BoltConnectionProofs.**  `IInv` adds: which handler may run in which state
  (HandlerInv), that stream, explicit transaction and `inTxn` agree and that a
  transaction is outside its own states only when a DISCARD parked it (SessionInv), that each statement is in one place only, that is running, in
  the open transaction, durable or failed (StatementInv), and that what the
  client concludes trails what the session did (ClientInv).  From it
  `AcknowledgedWrites`, `FailedWrites`, `CommitOwnership`, `CancelReason`,
  `ClosedIsEmpty` and `ProtocolAgreement`.  FailedNeverDurable needs
  StatementInv: without it a later COMMIT could carry a failed statement along.
* **GraphServiceProofs.**  `IInv` adds: a call that runs holds its lease and a
  drop past its wait finds none (LeaseKeeps), tree, session and lease are given
  up in this order (HoldsInOrder), an answer follows what was committed
  (AnswerFollowsWrites), ids grow (VidsBelow), and two batches that store one key
  have overlapped or the earlier wrote no entries, since a later snapshot knows
  the earlier batch's entries (ImportInv).  From it
  `DropSafety`, `StreamHonesty`, `DuplicateOrigin`, for any number of calls and
  threads.
* **IndexDdlProofs.**  `IInv` adds: where an index id may be known (IdInv), what
  the definitions in memory and on disk say about each other at every stage of a
  build or drop (DefInv, DurableInv), which tables a writer's copy of the
  definitions makes it write (WriteSetInv), and for each entity that no recorded
  race has touched how its value and its entries stand to each other: in a
  public index (PublicOK), in one being filled (BuildOK), and in what an open
  transaction will commit (WriteOK), together DataInv.  Steps that only move
  control keep DataInv by one lemma (ControlKeeps); the four that move data (a
  writer's statement and commit, the backfill's batch and flush) each have lemmas
  on write sets.  From it `IndexIsExact`, `UniquenessHolds`, `PublicSurvives`, for
  any number of builders, writers and entities; the run has one builder.  The
  proof showed what the run could not: with two builders the build of a
  dropped edge index may fill the table a newer index of the same label and
  property uses.  `blurred` records this race too.
* **VertexStoreProofs.**  `IInv` adds to the properties, for the committed store
  (StoreInv) and for the view of each open transaction (TxInv): the two label
  tables agree in rows and in keys written (LabelsAgree); a transaction writes
  rows of one vertex (WritesOnly) and, where no other was on that vertex, has the
  committed rows of it where it has not written (SameUnwritten); one that changed
  a label or value of a vertex with a summary has deleted the summary, and one
  that stored a summary made the vertex, which nobody else knows (MadeIt); entries
  are what the rows call for, values lie under labels that declare the property
  and under `__anon__` only where the vertex has it (Kept).  SummaryAgrees alone is
  not inductive: a commit replaces rows that the committed summary tells of, and
  only what the transaction's view has written says that the summary goes with
  them.  Each store
  operation has a lemma that it writes rows of its vertex only, each statement
  one that its view is right (StatementOK); `RunKeeps` and `CommitKeeps` are then
  proved once for all statements.  From it `LabelScans`, `Summaries`, `IndexTells`,
  `LabelRemoval`, for any labels, values, vertices and transactions.

* **EdgeStoreProofs.**  `IInv` states the same of the committed store (StoreInv)
  and of what it becomes when one open transaction commits (TxInv, over
  `CommitInto(db, tx[t].view)`): each row of the type table is in the adjacency of
  both ends, in vertex_data where the end is cached and in edge_index where it is
  not, and nothing else is there, except that a vertex that no longer exists may
  have lost rows (Sound); only vertices that exist have a state (Standing); a counter that is not skewed is the
  number of its keys (Counting); entries and values agree (Indexed); ends exist
  (Attached); acknowledged edges are there (Kept); no row is of a vertex not yet
  handed out (Below).  That is not inductive: two transactions each right alone
  need not be right together.  TxWrites says what one transaction writes: a row
  of the type table with the state or the edge_index row of each end, a cached
  row with its state, a deleted vertex with its states, a new state or a cached
  adjacency only at a new vertex, and a state only where there was one.  The last
  two keep a vertex whose rows a DELETE r, a, b took away (Lost) as it is, whatever
  commits beside it.  Apart says that two open ones wrote different
  keys, that nobody else has written an edge of a new vertex, and that an insert
  and the delete of its vertex are recorded in `lapped`.  From these rules the
  commits of two transactions go together at every end (the Mix lemmas):
  a key of the type table is written by one of them, and so is its adjacency.
  Each store operation has a lemma on one direction of the adjacency (Side);
  promoteAdjacency and the set-wise deleteAdjacencyEdge carry the counting.  Each
  statement has one that its view is right (Ready); `RunKeeps` and `CommitKeeps`
  are proved once for all.  From it `OneSetOfEdges`, `DegreesCount`,
  `NothingDangles`, `AcknowledgedIsKept`, `IndexFollows`, for any number of
  vertices, edges and transactions and every capacity.

Some of these invariants are not listed as properties of a run, since a theorem
states them for every instance: the TypeOK of these modules,
DrainedMeansReturned, RemoveAfterClose, TransactionTracked, ClosedLeavesBorrowed, PoisonIsForever,
CachedIsDurable, ChunksAscend, BelowHighWater, HighWaterMonotone,
ClosedHoldsNothing, StateMatchesTransaction, and the IInv of each module.  TLC
has checked each IInv on the run's instance before it was proved.

Only model-checked: liveness (WaitersReturn, ReleasedAfterClose, ResetIsHandled,
CallsReturn, RunEnds), which the prover cannot treat; what the searches and the
CSV reader compute, which needs induction over data; and Loader.  CountsAreTrue
compares totals with sums over files and batches, whose laws again need
induction; LoadedIsComplete does not, and has not been proved yet.

## 5. Abstractions

Names, payloads, queries and rows are model values or numbers.  Time appears
only as "the wait may time out".  Which idle session the pool takes is left open.
Logging, metrics, profiling, bookmarks and response encoding are left out.
WiredTiger, folly and the client are external.

Statements of EdgeStore and VertexStore are single steps on a private view: their
reads come from one snapshot and their writes are private until the commit, so
splitting them adds no committed outcome.  Where the code leaves a race open
(overlapping transactions that write no common key, statements planned before
an index existed) the race happens in the model, is recorded in a history
variable, and the property exempts the entities it touched and no others.

createGraph checks nothing about shutdown, so in GraphManager it may start up to
the moment shutdown empties the map.  One that waits for the lock even longer
would open an instance shutdown never sees; main stops the front ends before
(`program/server/eugraph_server_main.cpp:240`), and this is not modelled.
handleIndexDdl looks the definition up once more by name before it creates the
table (`query/executor/query_executor.cpp:433`); IndexDdl's CreateTable takes the
builder's own.  They are the same while no DROP and CREATE of that name come
between the two steps, which needs a second builder: the run has one, and for
several the model leaves out that the first would then create the newer index's
table.

## 6. Where code and documentation disagree

1. meta_ids_importers: after a refill the range is taken without a second check
   of the cache, others may have emptied it, and ids are handed out twice
   (`storage/meta/async_graph_meta_store.cpp:775`).  This overrun is the only way:
   without it ids are unique (UniqueIds).
2. edge_store_delete: CREATE stores an edge under sequence number eid and hands
   on a row and an index entry with 0, so DELETE of it deletes no stored key
   (`query/physical_plan/operator/create_edge_physical_op.cpp:245`).  In
   `DELETE a, r, b`, which `docs/query/syntax/cypher-syntax.md:375` lists as
   supported, the edge counts as deleted for the check of its vertices
   (`delete_physical_op.cpp:185`, `:198`): they go, with their cached adjacency, and
   the edge stays in the type table without them.  `NoDanglingEdge` names these
   edges (`left` of `Deleted`), `EndpointsAgree` speaks of vertices that exist.

The modules state further sentences of the documentation that the code does not
keep.  Each is a definition that no run lists; making it the INVARIANT (PROPERTY for
OwnLeaseDoesNotFailDrop) of the module's cfg, with the change of constants
given, shows the counterexample.

* GraphManager `DroppedStaysDropped`: dropGraph ignores a failed catalog delete
  (`graph/graph_manager.cpp:191`), and the next start serves the graph again;
  `docs/storage/multi-graph.md:175` "映射记录消失，目录被清理".  With
  CatalogFaults = FALSE it holds.
* MetaIds `ReverseLookup` (one creator, three names): open() lets `M|next_ids`
  overwrite what it scanned (`async_graph_meta_store.cpp:46`), so after a stop
  between label record and counters a label id is used twice.
* MetaIds `CreateIsIdempotent` (two creators, one name): unlocked lookup and
  publication (`:88`) against `service/graph_service.cpp:278` "createLabel 幂等".
* BoltConnection `FailureRollsBack`: a statement failing in PULL keeps the
  explicit transaction (`service/bolt/bolt_session.cpp:817`), and ROLLBACK is then
  ignored; `docs/query/engine/transaction-model.md:67`.
* BoltConnection `WholeStatements`: DISCARD then COMMIT makes half a statement
  durable (`bolt_session.cpp:828`); `docs/service/neo4j-bolt-protocol.md:345`.
* BoltConnection `DiscardLeavesCommit`: handleDiscard checks no state
  (`bolt_session.cpp:822`).  At TX_READY it leads to READY inside the explicit
  transaction: COMMIT and ROLLBACK are refused, RUN goes on in the transaction,
  and a BEGIN is accepted over it, whose COMMIT then also commits what was run
  before; `docs/service/neo4j-bolt-protocol.md:348` leaves the transaction to the
  client's COMMIT.  `CommitIsItsOwn` names this case (`parked`) and excludes
  every other.
* IndexDdl `PublicIsComplete` (IndexKinds = {"edge"}, Faults = FALSE): DROP INDEX
  keeps an edge index's table (`query/executor/query_executor.cpp:816`) and the next
  CREATE adopts its entries; `docs/storage/index_design.md:36`.
* IndexDdl `NeverPublicAndEmpty` (IndexKinds = {"vertex"}, Writers = {}): when the
  backfill's cursor fails to open or to advance, only the scan session records the
  error (`storage/data/sync_graph_data_store.cpp:1532`, `:1610`); the backfill takes
  the end of the scan for the end of the label (`query_executor.cpp:612`) and the
  index becomes PUBLIC without the rest.  The comment at `query_executor.cpp:596`
  says "空索引比没有索引更危险".  `ExactEntries` exempts just the entities not
  reached.
* EdgeStore `InsertedIsStored`: batchInsertEdges takes the place in the batch as
  sequence number (`service/graph_service.cpp:607`), so a second batch between the
  same endpoints overwrites the first; `docs/program/design/loader-design.md:860`.
* VertexStore `IndexFindsAll`: MERGE writes no index entries;
  `docs/storage/index_design.md:43`.
* VertexStore `RemoveCascades`: `docs/refactor/mixed-mode-design.md:267`, `:273`,
  `:286`, `:300` and `:317` have REMOVE n:L delete the values under L, n.p reading
  null afterwards; the code moves them to `__anon__` first
  (`query/physical_plan/operator/remove_physical_op.cpp:73`, with the comment that
  properties belong to the vertex).  `LabelRemovalKeepsValue` states what the code
  does.
* GraphService `OwnLeaseDoesNotFailDrop`: DROP DATABASE of the selected graph
  waits for its own lease, times out and answers "Failed to drop database"
  although the catalog entry is gone.
* Loader `EveryEdgeResolves`: a rerun takes over an index in state ERROR by its
  name (`program/loader/csv_loader.cpp:1268`); all edges are then skipped and the run
  ends with success, against the comment at `:1272`.
* PathSearch `RelationshipsOnce` (Queries <- LowerBound): shortestPath with a
  lower bound of two may use a relationship twice.
* PathSearch `BoundedIsSimple`: `docs/query/engine/query-engine-design.md:736`
  and `:750` have the vertex cycle check also below the maximal depth of a bounded
  pattern; executeChunk makes it in unbounded traversals only
  (`query/physical_plan/operator/varlen_expand_physical_op.cpp:606`, with a comment
  that a bounded path may pass a vertex again).  `VarLenIsTrails` states what the
  code does.

Seen while modelling and not stated as a property:

* a catalog entry without a directory is opened as an empty graph at startup,
  where `docs/storage/multi-graph.md` (2.6) has it removed;
* a drop whose wait times out leaks the instance and returns, where the same
  document (2.4) goes on; the model does what the code does;
* a failed begin leaves an error that `StickyError::fatal()` calls poisoning on a
  session that is not poisoned;
* the handler of a RESET clears the flag a later, queued RESET has set, so a
  statement between the two runs uncancelled;
* DISCARD of an auto-commit write answers SUCCESS and rolls it back; a failed
  auto-commit leaves the session STREAMING without a stream; a failed COMMIT
  leads to READY, not FAILED.
* vertices: SET n:L fails on a vertex with an entry in a unique index; `SET n +=
  {p: null}` keeps the value once `__anon__` declares p; MERGE checks no unique
  constraint, and ON MATCH SET n.p = null is ignored; the first REMOVE n:L that
  moves a value to `__anon__` computes its entries with the old definitions and
  loses one; a SET that is ambiguous logs an error, writes nothing and succeeds,
  and under a unique index with duplicates loses the vertex's entry
  (`set_physical_op.cpp:520`, `:374`); a SET overlapping a DELETE leaves label rows
  of a vertex that is gone;
* edges: DETACH DELETE leaves edge-index entries; DELETE in its snapshot misses
  an edge created beside it when the capacity is 0; the counter of a cached
  adjacency goes down although nothing was deleted;
* index DDL: a writer that deletes an absent entry does not conflict with the
  backfill that inserts it; unique checks of overlapping writers both pass; an
  index id reused after a failed saveNextIds and a crash lets DROP of the old index
  drop the new one's table; restoring a label's old copy on a failed write undoes
  what others added;
* service: waitDrained blocks threads of the pool its waiters need; overlapping
  batches duplicate primary keys, and so do consecutive ones while the index is
  in state ERROR: findPrimaryIndexId takes it in any state
  (`service/graph_service.cpp:26`), writers maintain live ones only
  (`storage/data/index_maintenance.hpp:79`);
* loader: a server that stalls in the middle of a result stream hangs the run
  (`program/loader/csv_loader.cpp:1162`, `:1176`: the channel's timeout ends with the
  first response); a rerun duplicates vertices without a key; new properties of an
  existing edge label are not merged; a timed-out batch may commit beside the
  rerun;
* paths and CSV: an unbounded `*` does not enter a vertex on the path again, so it
  returns fewer trails than a large upper bound; an undirected pattern lists a
  self-loop twice; the fast record count takes a leading blank line for the
  header, where parseCsv skips it.

## 7. Not modelled, and the plan

Not modelled: the parser, binder, logical planner, optimizer, physical planner,
expression evaluator and function library, joins, aggregation, sort and
projection (sequential code over one statement, a pure function of its input and
the largest part of the program); the codecs, PackStream and WebSocket frames
(pure data conversion, tested by round trips in the repository); generated Thrift
and grammar code; shell, web console, thread pools, configuration, logging.
These are most of the program's lines: about 31 000 of its 117 000 are generated,
and parsing, binding, planning and functions are most of the rest.  The map
covers the share that keeps state between calls or runs concurrently, and is
small against the total for that reason.

Left out of modelled parts: the handshake, accept and stop of the Bolt server
and the choice of the database; the relationship part of MERGE; dropLabel and
dropEdgeLabel, which have no caller; anonymous property ids; the label and
listing calls of GraphService, one metadata call each; the loader's schema file;
the error of allShortestPaths above 100 000 paths
(`query/physical_plan/operator/shortest_path_physical_op.cpp:406`), far from these
sizes; the byte order mark and the line limit of the CSV line reader
(`third_party/csv/csv.h:329`, `:449`, the latter an exception).

Plan, in this order:

1. LoadedIsComplete as a theorem: the rows a worker has acknowledged are
   vertices, the files below `next` that nobody has open are complete, and an
   edge batch begins after every vertex batch of its run has been answered.
2. The relationship part of MERGE in EdgeStore; edge-index entries of MERGE.
3. IndexKeyCodec: order preservation of encoded keys over bounded values.
4. Three-valued comparison and the null handling of aggregation as operators.
