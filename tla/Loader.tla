------------------------------- MODULE Loader -------------------------------
(***************************************************************************)
(* The bulk loader: loadAll runs the DDL of a schema, then the vertex files *)
(* and then the edge files on parallel workers, batch by batch, over RPC    *)
(* connections shared by the workers.                                      *)
(*                                                                         *)
(* A call fails on the server, or its reply is lost (the channel's timeout, *)
(* the death of the loader) while the server still executes it.  Every     *)
(* error ends the run; the user may run the loader again on the same graph. *)
(* The server appears through what GraphService, IndexDdl and EdgeStore    *)
(* show of it; rows are their key values, key 0 standing for no key.       *)
(***************************************************************************)
EXTENDS Naturals, FiniteSets, Sequences, SequencesExt, FiniteSetsExt

CONSTANTS
    VertexFiles,   \* sequence of [item, pk, tags, rows]: the name of the key, "" for none; rows are keys
    EdgeFiles,     \* sequence of [item, src, dst, rows]: rows are pairs of keys
    Before, After, \* before_load and after_load: TRUE for on_error = "ignore"
    Preloads,      \* what the graph may hold before: sets of <<label, key>> of
                   \* vertices older than the label's key; {}: no graph
    BatchSize, ParallelFiles, Connections,
    MaxRuns        \* bound: runs of the loader on the graph

ASSUME LoaderAssumption ==
    /\ BatchSize \in Nat \ {0} /\ ParallelFiles \in Nat \ {0}
    /\ Connections \in Nat \ {0} /\ MaxRuns \in Nat \ {0}

VARIABLES
    run, pc, outcome,   \* run number, statement of loadAll, "running", "ok" or "failed"
    existing,           \* labels whose index SHOW INDEXES listed
    workers, next, error,
    result,             \* LoadResult
    bar,                \* ProgressReporter: rows, files by item, items done
    graph, labels, types, index, vertices, edges, nextVid,   \* the graph on the server
    calls               \* RPCs the server has not finished

loader == <<run, pc, outcome, existing, workers, next, error, result, bar>>
server == <<graph, labels, types, index, vertices, edges, nextVid, calls>>
vars == <<loader, server>>

-----------------------------------------------------------------------------
(* The schema's plan *)

Items(files) == {files[i].item : i \in DOMAIN files}
Rows(files) == MapThenSumSet(LAMBDA i : Len(files[i].rows), DOMAIN files)
Keyed == {i \in DOMAIN VertexFiles : VertexFiles[i].pk # ""}
KeyedLabels == {VertexFiles[i].item : i \in Keyed}
KeyName(l) == VertexFiles[Min({i \in Keyed : VertexFiles[i].item = l})].pk
RowTags == UNION {VertexFiles[i].tags : i \in DOMAIN VertexFiles}

\* loadAll: its statements in order, the loops over the schema unrolled.
Each(op, names) == LET s == SetToSeq(names) IN [i \in DOMAIN s |-> [op |-> op, name |-> s[i], ignore |-> FALSE]]
Cypher(on_error) == [i \in DOMAIN on_error |-> [op |-> "statement", name |-> "cypher", ignore |-> on_error[i]]]
\* A Cypher statement is a call with a first response, then a stream to its end.
Streamed(s) == FlattenSeq([i \in DOMAIN s |-> <<s[i], [s[i] EXCEPT !.op = "stream"]>>])
Program ==
    Each("graph", {"graph"}) \o Each("label", Items(VertexFiles)) \o Each("type", Items(EdgeFiles))
      \o Streamed(Each("show", {"indexes"})) \o Streamed(Each("index", KeyedLabels)) \o Streamed(Cypher(Before))
      \o Each("tag", RowTags) \o Each("vertices", {"files"}) \o Each("edges", {"files"}) \o Streamed(Cypher(After))

At(op) == outcome = "running" /\ Program[pc].op = op
Name == Program[pc].name
Files == IF Program[pc].op = "edges" THEN EdgeFiles ELSE VertexFiles

Crew == 1..ParallelFiles
Unhired == [file |-> 0, pos |-> 0, step |-> "idle", written |-> 0, skipped |-> 0]

\* beginPhase
NewBar == [rows |-> 0, files |-> [n \in Items(VertexFiles) \cup Items(EdgeFiles) |-> 0], items |-> 0]

GoTo(n) == /\ pc' = Min({n, Len(Program)})
           /\ outcome' = IF n > Len(Program) THEN "ok" ELSE "running"
Go == GoTo(pc + 1)
PastStream == GoTo(pc + 2)
Throw == outcome' = "failed" /\ pc' = 1

NoResult == [written |-> 0, duplicate |-> 0, ewritten |-> 0, eskipped |-> 0]

\* The memory of a run is gone with its process.
Forget ==
    /\ existing' = {} /\ workers' = [w \in Crew |-> Unhired] /\ next' = 1 /\ error' = FALSE
    /\ result' = NoResult /\ bar' = NewBar

\* Calls of this run whose caller is waiting: 0 is the main thread.
Waiting(w) == {c \in calls : c.owner = w /\ ~c.lost}
Reply(w) == outcome = "running" /\ Waiting(w) # {}
Lose(cs) == (calls \ cs) \cup {[c EXCEPT !.lost = TRUE] : c \in cs}

Init ==
    /\ run = 1 /\ pc = 1 /\ outcome = "running" /\ existing = {}
    /\ workers = [w \in Crew |-> Unhired] /\ next = 1 /\ error = FALSE
    /\ result = NoResult
    /\ bar = NewBar
    /\ types = {} /\ calls = {} /\ index = [l \in KeyedLabels |-> "none"]
    /\ \E old \in Preloads :
          LET s == SetToSeq(old)
          IN /\ graph = (old # {}) /\ labels = {p[1] : p \in old} /\ nextVid = Len(s) + 1
             /\ vertices = {[vid |-> i, label |-> s[i][1], key |-> s[i][2], entry |-> FALSE, run |-> 0]
                              : i \in DOMAIN s}
    /\ edges = {}

-----------------------------------------------------------------------------
(* Schema statements, on the first connection *)

\* The graph of that name is used, or created.
ensureGraph ==
    /\ At("graph")
    /\ \/ graph' = TRUE /\ (Go \/ (~graph /\ Throw))
       \/ Throw /\ UNCHANGED graph
    /\ UNCHANGED <<run, existing, workers, next, error, result, bar, labels, types, index, vertices, edges, nextVid, calls>>

\* A DDL call: done; failed; or done with its reply lost.  An existing label is
\* merged, an existing edge label left as it is.
createLabels ==
    /\ At("label") \/ At("tag")
    /\ \/ labels' = labels \cup {Name} /\ (Go \/ Throw)
       \/ Throw /\ UNCHANGED labels
    /\ UNCHANGED <<run, existing, workers, next, error, result, bar, graph, types, index, vertices, edges, nextVid, calls>>

createEdgeLabels ==
    /\ At("type")
    /\ \/ types' = types \cup {Name} /\ (Go \/ Throw)
       \/ Throw /\ UNCHANGED types
    /\ UNCHANGED <<run, existing, workers, next, error, result, bar, graph, labels, index, vertices, edges, nextVid, calls>>

\* SHOW INDEXES lists the names, in whatever state the indexes are; the server
\* answers when it has collected them.
existingIndexNames ==
    /\ At("show")
    /\ \/ existing' = {l \in KeyedLabels : index[l] # "none"} /\ Go
       \/ Throw /\ UNCHANGED existing
    /\ UNCHANGED <<run, workers, next, error, result, bar, server>>

createPrimaryKeyIndexes ==
    /\ At("index") /\ Waiting(0) = {}
    /\ \/ Name \in existing /\ PastStream /\ UNCHANGED calls
       \/ /\ Name \notin existing
          /\ calls' = calls \cup {[kind |-> "index", owner |-> 0, lost |-> FALSE, run |-> run, item |-> Name,
                                   file |-> 0, recs |-> <<>>, step |-> "sent", seen |-> {}, live |-> {}]}
          /\ UNCHANGED <<pc, outcome>>
    /\ UNCHANGED <<run, existing, workers, next, error, result, bar, graph, labels, types, index, vertices, edges, nextVid>>

\* An error of a statement with on_error = "ignore" goes on with the next one.
Proceed == UNCHANGED <<existing, workers, next, error, result, bar>>

runStatements ==
    /\ At("statement")
    /\ \/ Go /\ Proceed
       \/ Program[pc].ignore /\ PastStream /\ Proceed
       \/ ~Program[pc].ignore /\ Throw /\ Forget
    /\ UNCHANGED <<run, server>>

\* runCypherNoResult, existingIndexNames: the stream is read until the server
\* ends it, with or without an error.  No timeout covers this wait.
StreamEnds ==
    /\ At("stream")
    /\ \/ Go /\ Proceed
       \/ ~Program[pc].ignore /\ Throw /\ Forget
    /\ UNCHANGED <<run, server>>

-----------------------------------------------------------------------------
(* Workers *)

Loading == At("vertices") \/ At("edges")
Set(w, r) == workers' = [workers EXCEPT ![w] = r]

\* runFilesParallel: the next file index, or the end of the thread.
Take(w) ==
    /\ Loading /\ workers[w].step = "idle"
    /\ IF next <= Len(Files) /\ w <= Len(Files)
       THEN Set(w, [Unhired EXCEPT !.file = next, !.step = "load"]) /\ next' = next + 1
       ELSE Set(w, [Unhired EXCEPT !.step = "stop"]) /\ UNCHANGED next
    /\ UNCHANGED <<run, pc, outcome, existing, error, result, bar, server>>

Batch(w) ==
    LET rows == Files[workers[w].file].rows
        to == Min({Len(rows), workers[w].pos + BatchSize})
    IN SubSeq(rows, workers[w].pos + 1, to)

\* A full batch, or the rest of the file, on a connection nobody else is using.
Flush(w) ==
    LET r == workers[w]
        busy == \E v \in Crew : v % Connections = w % Connections /\ Waiting(v) # {}
    IN /\ Loading /\ r.step = "load" /\ r.pos < Len(Files[r.file].rows) /\ ~busy
       /\ calls' = calls \cup {[kind |-> Program[pc].op, owner |-> w, lost |-> FALSE, run |-> run,
                                item |-> Files[r.file].item, file |-> r.file, recs |-> Batch(w), step |-> "sent",
                                seen |-> {}, live |-> {}]}
       /\ Set(w, [r EXCEPT !.step = "call"])
       /\ UNCHANGED <<run, pc, outcome, existing, next, error, result, bar, graph, labels, types, index, vertices, edges,
                      nextVid>>

\* Bug: a file's counts replace the totals.
MutTotals(w) ==
    LET r == workers[w]
        item == Files[r.file].item
        total == Cardinality({i \in DOMAIN Files : Files[i].item = item})
    IN /\ Loading /\ r.step = "load" /\ r.pos = Len(Files[r.file].rows)
       /\ bar' = [bar EXCEPT !.files[item] = @ + 1, !.items = IF bar.files[item] + 1 >= total THEN @ + 1 ELSE @]
       /\ result' = IF Program[pc].op = "vertices"
                    THEN [result EXCEPT !.written = r.written, !.duplicate = r.skipped]
                    ELSE [result EXCEPT !.ewritten = r.written, !.eskipped = r.skipped]
       /\ Set(w, Unhired)
       /\ UNCHANGED <<run, pc, outcome, existing, next, error, server>>

\* endFile, and the file's counts to the phase's totals.
EndFile(w) ==
    LET r == workers[w]
        item == Files[r.file].item
        total == Cardinality({i \in DOMAIN Files : Files[i].item = item})
    IN /\ Loading /\ r.step = "load" /\ r.pos = Len(Files[r.file].rows)
       /\ bar' = [bar EXCEPT !.files[item] = @ + 1, !.items = IF bar.files[item] + 1 >= total THEN @ + 1 ELSE @]
       /\ result' = IF Program[pc].op = "vertices"
                    THEN [result EXCEPT !.written = @ + r.written, !.duplicate = @ + r.skipped]
                    ELSE [result EXCEPT !.ewritten = @ + r.written, !.eskipped = @ + r.skipped]
       /\ Set(w, Unhired)
       /\ UNCHANGED <<run, pc, outcome, existing, next, error, server>>

\* Bug: the first error is not thrown again.
MutJoin ==
    /\ Loading /\ \A w \in Crew : workers[w].step = "stop"
    /\ Go /\ workers' = [w \in Crew |-> Unhired] /\ next' = 1 /\ bar' = NewBar /\ error' = FALSE
    /\ UNCHANGED <<run, existing, result, server>>

\* The threads are joined; the first error is thrown again, endPhase otherwise.
Join ==
    /\ Loading /\ \A w \in Crew : workers[w].step = "stop"
    /\ IF error THEN Throw /\ Forget
       ELSE /\ Go /\ workers' = [w \in Crew |-> Unhired] /\ next' = 1 /\ bar' = NewBar
            /\ UNCHANGED <<existing, error, result>>
    /\ UNCHANGED <<run, server>>

-----------------------------------------------------------------------------
(* The server *)

lookupVertexByPrimaryKey(seen, l, k) ==
    LET hits == {v.vid : v \in {u \in seen : u.entry /\ u.label = l /\ u.key = k}}
    IN IF hits = {} THEN 0 ELSE Min(hits)

\* The transaction's snapshot and the label definitions are read.
Begin(c) ==
    /\ c.step = "sent" /\ c.kind # "index"
    /\ calls' = (calls \ {c}) \cup
          {[c EXCEPT !.step = "begun", !.seen = vertices, !.live = {l \in KeyedLabels : index[l] \in {"built", "filling"}}]}
    /\ UNCHANGED <<loader, graph, labels, types, index, vertices, edges, nextVid>>

\* The answer to the call of worker w, if somebody still waits for it: rows
\* processed, written and skipped, or an error that ends the worker.
AnswerWorker(c, ok, written, skipped) ==
    LET r == workers[c.owner]
    IN IF c.lost THEN UNCHANGED loader
       ELSE /\ IF ok
               THEN /\ Set(c.owner, [r EXCEPT !.step = "load", !.pos = @ + Len(c.recs), !.written = @ + written,
                                              !.skipped = @ + skipped])
                    /\ bar' = [bar EXCEPT !.rows = @ + Len(c.recs)]
                    /\ UNCHANGED error
               ELSE Set(c.owner, [r EXCEPT !.step = "stop"]) /\ error' = TRUE /\ UNCHANGED bar
            /\ UNCHANGED <<run, pc, outcome, existing, next, result>>

\* First of its key in the batch and not in the index.
Kept(c) ==
    SelectSeq([i \in DOMAIN c.recs |-> i],
              LAMBDA i : \/ c.recs[i] = 0
                         \/ /\ \A j \in 1..(i - 1) : c.recs[j] # c.recs[i]
                            /\ lookupVertexByPrimaryKey(c.seen, c.item, c.recs[i]) = 0)

batchInsertVertices(c) ==
    LET kept == Kept(c)
        file == VertexFiles[c.file]
        fits == ({c.item} \cup file.tags) \subseteq labels /\ (c.item \in KeyedLabels => index[c.item] # "none")
        new == {[vid |-> nextVid + n - 1, label |-> c.item, key |-> c.recs[kept[n]],
                 entry |-> c.item \in c.live /\ c.recs[kept[n]] # 0, run |-> c.run] : n \in DOMAIN kept}
    IN /\ c.step = "begun" /\ c.kind = "vertices"
       /\ calls' = calls \ {c}
       /\ \/ /\ fits
             /\ vertices' = vertices \cup new /\ nextVid' = nextVid + Len(kept)
             /\ AnswerWorker(c, TRUE, Len(kept), Len(c.recs) - Len(kept))
          \/ AnswerWorker(c, FALSE, 0, 0) /\ UNCHANGED <<vertices, nextVid>>
       /\ UNCHANGED <<graph, labels, types, index, edges>>

\* The hinted label, then every label whose key has the same name: the smallest id.
resolve_endpoint(seen, l, k) ==
    LET hint == lookupVertexByPrimaryKey(seen, l, k)
        others == {lookupVertexByPrimaryKey(seen, o, k) : o \in {m \in KeyedLabels : KeyName(m) = KeyName(l)}} \ {0}
    IN IF hint # 0 THEN hint ELSE IF others = {} THEN 0 ELSE Min(others)

\* An edge is keyed by its type, its endpoints and its position in the batch.
batchInsertEdges(c) ==
    LET file == EdgeFiles[c.file]
        src(i) == resolve_endpoint(c.seen, file.src, c.recs[i][1])
        dst(i) == resolve_endpoint(c.seen, file.dst, c.recs[i][2])
        found == {i \in DOMAIN c.recs : src(i) # 0 /\ dst(i) # 0}
        new == {[type |-> c.item, src |-> src(i), dst |-> dst(i), seq |-> i - 1] : i \in found}
    IN /\ c.step = "begun" /\ c.kind = "edges"
       /\ calls' = calls \ {c}
       /\ \/ /\ c.item \in types
             /\ edges' = edges \cup new
             /\ AnswerWorker(c, TRUE, Cardinality(found), Len(c.recs) - Cardinality(found))
          \/ AnswerWorker(c, FALSE, 0, 0) /\ UNCHANGED edges
       /\ UNCHANGED <<graph, labels, types, index, vertices, nextVid>>

\* The answer to CREATE UNIQUE INDEX.
AnswerMain(c, ok) ==
    /\ IF c.lost THEN UNCHANGED <<pc, outcome>> ELSE IF ok THEN Go ELSE Throw
    /\ UNCHANGED <<run, existing, workers, next, error, result, bar>>

\* The definition is stored in state WRITE_ONLY; the name may be taken.
DefineIndex(c) ==
    /\ c.step = "sent" /\ c.kind = "index"
    /\ \/ /\ index[c.item] = "none"
          /\ index' = [index EXCEPT ![c.item] = "filling"]
          /\ calls' = (calls \ {c}) \cup {[c EXCEPT !.step = "begun"]}
          /\ UNCHANGED loader
       \/ calls' = calls \ {c} /\ AnswerMain(c, FALSE) /\ UNCHANGED index
    /\ UNCHANGED <<graph, labels, types, vertices, edges, nextVid>>

\* The backfill ends.  The vertices it has reached, in the order of their ids,
\* are indexed, and the index is PUBLIC; or it stays in state ERROR (a duplicate,
\* no session, a failed commit) with the entries of the batches committed before.
\* A scan that fails is taken for its end (IndexDdl, ScanFails).
Backfill(c) ==
    LET mine == {v \in vertices : v.label = c.item /\ v.key # 0}
        reached(n) == {v \in mine : v.vid < n}
        unique(vs) == \A u \in vs : ~u.entry /\ \A v \in mine : u.key = v.key /\ (v \in vs \/ v.entry) => u = v
    IN /\ c.step = "begun" /\ c.kind = "index"
       /\ calls' = calls \ {c}
       /\ \E n \in 1..nextVid :
             /\ unique(reached(n))
             /\ vertices' = (vertices \ reached(n)) \cup {[v EXCEPT !.entry = TRUE] : v \in reached(n)}
       /\ \/ index' = [index EXCEPT ![c.item] = "built"] /\ AnswerMain(c, TRUE)
          \/ index' = [index EXCEPT ![c.item] = "error"] /\ AnswerMain(c, FALSE)
       /\ UNCHANGED <<graph, labels, types, edges, nextVid>>

-----------------------------------------------------------------------------
(* Timeouts, the death of the loader, and another run *)

\* Bug: the channel has no timeout.
MutTimeout == FALSE /\ UNCHANGED vars

\* The channel's timeout, which covers a call up to its (first) response: the
\* caller gets an error, the server goes on.
Timeout ==
    /\ outcome = "running"
    /\ \E w \in {0} \cup Crew :
          /\ Waiting(w) # {}
          /\ calls' = Lose(Waiting(w))
          /\ IF w = 0 THEN Throw /\ UNCHANGED <<workers, error>>
             ELSE Set(w, [workers[w] EXCEPT !.step = "stop"]) /\ error' = TRUE /\ UNCHANGED <<pc, outcome>>
    /\ UNCHANGED <<run, existing, next, result, bar, graph, labels, types, index, vertices, edges, nextVid>>

Kill ==
    /\ outcome = "running"
    /\ Throw /\ Forget /\ calls' = Lose(calls)
    /\ UNCHANGED <<run, graph, labels, types, index, vertices, edges, nextVid>>

Rerun ==
    /\ outcome # "running" /\ run < MaxRuns
    /\ run' = run + 1 /\ pc' = 1 /\ outcome' = "running" /\ Forget
    /\ UNCHANGED server

Main == ensureGraph \/ createLabels \/ createEdgeLabels \/ existingIndexNames \/ createPrimaryKeyIndexes \/ runStatements
Worker == \E w \in Crew : Take(w) \/ Flush(w) \/ EndFile(w)
Serve == \E c \in calls : Begin(c) \/ batchInsertVertices(c) \/ batchInsertEdges(c) \/ DefineIndex(c) \/ Backfill(c)

Next == Main \/ StreamEnds \/ Worker \/ Join \/ Serve \/ Timeout \/ Kill \/ Rerun

Spec == Init /\ [][Next]_vars

\* A thread of the loader runs whenever it can; a connection has a timeout up to
\* the first response.  The server is assumed to end the result streams it has
\* begun (of SHOW INDEXES, CREATE INDEX and the schema's statements), since the
\* loader waits for their end without a timeout; nothing else of it.
FairSpec == Spec /\ WF_vars(Main \/ Worker \/ Join) /\ WF_vars(Timeout) /\ WF_vars(StreamEnds)

-----------------------------------------------------------------------------
(* Properties *)

Done == outcome = "ok"
Loaded(l, k) == \E i \in DOMAIN VertexFiles : VertexFiles[i].item = l /\ Contains(VertexFiles[i].rows, k)
Joins(e, l1, k1, l2, k2) ==
    \E u, v \in vertices : u.vid = e.src /\ v.vid = e.dst /\ u.label = l1 /\ u.key = k1 /\ v.label = l2 /\ v.key = k2
EdgeStored(f, row) == \E e \in edges : e.type = f.item /\ Joins(e, f.src, row[1], f.dst, row[2])

\* A run that reports success has stored every edge row whose endpoints are
\* rows of the vertex files, whatever earlier runs left behind.
EveryEdgeResolves ==
    Done => \A i \in DOMAIN EdgeFiles : \A j \in DOMAIN EdgeFiles[i].rows :
              LET f == EdgeFiles[i]
                  row == f.rows[j]
              IN Loaded(f.src, row[1]) /\ Loaded(f.dst, row[2]) => EdgeStored(f, row)

\* When a run of the loader reports success, every row with a key is a vertex
\* of the graph, and every edge row whose endpoints are rows of the vertex
\* files is an edge between vertices of these keys, unless the unique index of
\* an endpoint's label is in state ERROR: although workers load files in
\* parallel, an earlier run was killed anywhere, and calls of it still commit.
LoadedIsComplete ==
    Done =>
      /\ \A i \in DOMAIN VertexFiles : \A j \in DOMAIN VertexFiles[i].rows :
            \E v \in vertices : v.label = VertexFiles[i].item /\ v.key = VertexFiles[i].rows[j]
      /\ \A i \in DOMAIN EdgeFiles : \A j \in DOMAIN EdgeFiles[i].rows :
            LET f == EdgeFiles[i]
                row == f.rows[j]
            IN /\ Loaded(f.src, row[1]) /\ Loaded(f.dst, row[2])
               /\ index[f.src] # "error" /\ index[f.dst] # "error"
               => EdgeStored(f, row)

\* The totals of a successful run are true: the vertices written are the ones
\* the graph got from this run, and every row of every file is counted as
\* written or skipped, once.
CountsAreTrue ==
    Done =>
      /\ result.written = Cardinality({v \in vertices : v.run = run})
      /\ result.written + result.duplicate = Rows(VertexFiles)
      /\ result.ewritten + result.eskipped = Rows(EdgeFiles)

\* The progress bar agrees with the workers: its rows are the rows of the
\* files that ended plus what the workers had acknowledged of theirs, and an
\* item is done exactly when the last of its files has ended.
BarIsTrue ==
    Loading =>
      LET open == {workers[w].file : w \in Crew} \ {0}
          ended == {i \in DOMAIN Files : i < next} \ open
      IN /\ bar.rows = MapThenSumSet(LAMBDA i : Len(Files[i].rows), ended)
                         + MapThenSumSet(LAMBDA w : workers[w].pos, Crew)
         /\ bar.items = Cardinality({n \in Items(Files) : \A i \in DOMAIN Files : Files[i].item = n => i \in ended})

\* Every run ends: an RPC that is never answered times out, the other workers
\* finish their files, and the error is thrown.  Of the server it is assumed only
\* that it ends a result stream it has begun: subscribeInline at
\* csv_loader.cpp:1162 and :1176 waits for that without a timeout.
RunEnds == (outcome = "running") ~> (outcome # "running")

=============================================================================
