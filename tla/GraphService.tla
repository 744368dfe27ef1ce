---------------------------- MODULE GraphService ----------------------------
(***************************************************************************)
(* GraphService behind the Thrift handler: statements with their result    *)
(* streams, DROP DATABASE and the batch import, on the shared compute pool, *)
(* against the leases and sessions of the graphs they use.                 *)
(*                                                                         *)
(* A call is one RPC.  A handler step that runs on the compute pool needs a *)
(* worker that no dropGraph is blocking in waitDrained; the stream's own   *)
(* loop and its destruction run on the network thread.  The graph map, the *)
(* gate and the session pool appear through what GraphManager and          *)
(* SessionPool promise.                                                    *)
(***************************************************************************)
EXTENDS Naturals, FiniteSets, Sequences, FiniteSetsExt

CONSTANTS
    Calls,        \* RPCs of a behaviour, numbered
    Graphs,       \* graphs besides the default one
    Default,
    Labels,       \* labels with the same primary key names, by label name
    Workers,      \* threads of the compute pool
    MaxSessions,  \* sessions of a graph's pool
    Requests      \* what the calls may ask

NoGraph == "none"

ASSUME GraphServiceAssumption ==
    /\ Default \notin Graphs
    /\ Workers \in Nat \ {0} /\ MaxSessions \in Nat
    /\ Calls \subseteq Nat /\ Labels \subseteq Nat
    /\ NoGraph \notin Graphs \cup {Default}
    /\ \A q \in Requests :
          /\ q.op \in {"query", "drop", "vertices", "edges"}
          /\ q.graph \in Graphs \cup {Default}
          /\ q.op = "drop" => q.selected \in Graphs \cup {Default, NoGraph}
          /\ q.op = "vertices" => q.label \in Nat /\ q.keys \in Seq(Nat)

VARIABLES
    graph,     \* Graphs -> "open", "closing", "leaked", "removed"
    call,      \* Calls -> state of the RPC
    durable,   \* statements whose transaction has committed
    vertices,  \* committed vertices of the batch imports
    edges,     \* committed edges of the batch imports
    nextVid

vars == <<graph, call, durable, vertices, edges, nextVid>>

NoRequest == [op |-> "none"]
Idle == [req |-> NoRequest, step |-> "idle", lease |-> NoGraph, session |-> FALSE, tree |-> FALSE,
         first |-> "none", started |-> FALSE, threw |-> FALSE, wrote |-> FALSE, res |-> "none", seen |-> {}, kept |-> {},
         met |-> {}]

Set(c, r) == call' = [call EXCEPT ![c] = r]

Inflight(g) == {c \in Calls : call[c].lease = g}
Outstanding(g) == {c \in Inflight(g) : call[c].session}

\* A worker of the compute pool is free.
Blocked == {c \in Calls : call[c].step = "drain"}
OnCompute == Cardinality(Blocked) < Workers

Serves(g) == g = Default \/ graph[g] = "open"

\* The step a call goes to when it is over: the operator tree, the session and
\* the graph lease are destroyed in this order.
End(r, res) ==
    [r EXCEPT !.res = res, !.seen = {}, !.kept = {}, !.first = "none",
              !.step = IF r.tree THEN "tree" ELSE IF r.session THEN "session"
                       ELSE IF r.lease # NoGraph THEN "lease" ELSE "done"]

-----------------------------------------------------------------------------
(* Statements *)

\* A request arrives and is scheduled on the compute pool; calls are numbered
\* as they arrive.
Receive(c, q) ==
    /\ call[c] = Idle /\ \A b \in Calls : b < c => call[b] # Idle
    /\ Set(c, [Idle EXCEPT !.req = q, !.step = "start"])
    /\ UNCHANGED <<graph, durable, vertices, edges, nextVid>>

\* resolveGraph: the lease, or "Graph not found or being dropped".
executeCypher(c) ==
    LET r == call[c]
    IN /\ r.req.op = "query" /\ r.step = "start" /\ OnCompute
       /\ Set(c, IF Serves(r.req.graph) THEN [r EXCEPT !.lease = r.req.graph, !.step = "prepare"]
                 ELSE End(r, "error"))
       /\ UNCHANGED <<graph, durable, vertices, edges, nextVid>>

\* prepareStream takes a session and begins the transaction; parsing, binding,
\* begin and planning may fail.  existing sessions are Bolt's (BoltConnection).
prepareStream(c) ==
    LET r == call[c]
        full == Cardinality(Outstanding(r.lease)) = MaxSessions
        begun == [r EXCEPT !.session = TRUE]
    IN /\ r.req.op = "query" /\ r.step = "prepare" /\ OnCompute
       /\ \/ Set(c, End(r, "error"))
          \/ ~full /\ Set(c, End(begun, "error"))
          \/ ~full /\ Set(c, [begun EXCEPT !.tree = TRUE, !.step = "prefetch"])
       /\ UNCHANGED <<graph, durable, vertices, edges, nextVid>>

\* The first batch is computed before the stream is handed out: it, the end of
\* the result, or an error that the first pull will rethrow.
Prefetch(c) ==
    LET r == call[c]
    IN /\ r.step = "prefetch" /\ OnCompute
       /\ \E first \in {"chunk", "end", "throw"} :
            Set(c, [r EXCEPT !.first = first, !.threw = (first = "throw"), !.wrote = TRUE, !.step = "stream"])
       /\ UNCHANGED <<graph, durable, vertices, edges, nextVid>>

\* Bug: an error kept from the prefetch is lost.
MutPullFirst(c) ==
    LET r == call[c]
        s == [r EXCEPT !.started = TRUE, !.first = "none"]
    IN /\ r.step = "stream" /\ r.first # "none"
       /\ Set(c, CASE r.first = "chunk" -> s [] OTHER -> [s EXCEPT !.step = "commit"])
       /\ UNCHANGED <<graph, durable, vertices, edges, nextVid>>

\* The client's first pull starts the generator and gets what was prefetched.
PullFirst(c) ==
    LET r == call[c]
        s == [r EXCEPT !.started = TRUE, !.first = "none"]
    IN /\ r.step = "stream" /\ r.first # "none"
       /\ Set(c, CASE r.first = "chunk" -> s
                   [] r.first = "end"   -> [s EXCEPT !.step = "commit"]
                   [] r.first = "throw" -> End(s, "error"))
       /\ UNCHANGED <<graph, durable, vertices, edges, nextVid>>

\* hopGeneratorTo: later batches run on the compute pool.
PullNext(c) ==
    LET r == call[c]
    IN /\ r.step = "stream" /\ r.first = "none" /\ OnCompute
       /\ \/ Set(c, [r EXCEPT !.step = "commit"])
          \/ Set(c, End([r EXCEPT !.threw = TRUE], "error"))
       /\ UNCHANGED <<graph, durable, vertices, edges, nextVid>>

\* commitAsync at the end of the stream; a failed commit throws.  PROFILE
\* yields one more batch, with nothing left to roll back.
CommitStream(c) ==
    LET r == call[c]
        over == [r EXCEPT !.wrote = FALSE]
    IN /\ r.step = "commit"
       /\ \/ /\ durable' = durable \cup {c}
             /\ Set(c, End(over, "ok")) \/ Set(c, [over EXCEPT !.step = "summary"])
          \/ Set(c, End(r, "error")) /\ UNCHANGED durable
       /\ UNCHANGED <<graph, vertices, edges, nextVid>>

PullSummary(c) ==
    /\ call[c].step = "summary"
    /\ Set(c, End(call[c], "ok"))
    /\ UNCHANGED <<graph, durable, vertices, edges, nextVid>>

\* The client abandons the stream while it is suspended: before its first
\* pull, between two batches or before the profile.
Cancel(c) ==
    /\ call[c].step \in {"stream", "summary"}
    /\ Set(c, End(call[c], IF call[c].step = "stream" THEN "cancelled" ELSE "unread"))
    /\ UNCHANGED <<graph, durable, vertices, edges, nextVid>>

\* StreamAbandonRollback, or the destructor of a stream nobody has pulled: the
\* operator tree with its cursors first.
DestroyTree(c) ==
    LET r == call[c]
    IN /\ r.step = "tree"
       /\ Set(c, [r EXCEPT !.tree = FALSE, !.step = "session", !.wrote = r.wrote /\ ~r.started])
       /\ UNCHANGED <<graph, durable, vertices, edges, nextVid>>

\* The session goes back to its pool, which rolls back what is open.
ReturnSession(c) ==
    LET r == call[c]
    IN /\ r.step = "session"
       /\ Set(c, [r EXCEPT !.session = FALSE, !.wrote = FALSE, !.step = "lease"])
       /\ UNCHANGED <<graph, durable, vertices, edges, nextVid>>

\* graph_guard, declared before the session, goes last.
ReleaseLease(c) ==
    LET r == call[c]
    IN /\ r.step = "lease"
       /\ Set(c, [r EXCEPT !.lease = NoGraph, !.session = FALSE, !.step = "done", !.started = FALSE])
       /\ UNCHANGED <<graph, durable, vertices, edges, nextVid>>

-----------------------------------------------------------------------------
(* DROP DATABASE and the dropGraph RPC *)

\* The statement holds a lease on the graph the session has selected, or on the
\* default one when that is gone; the RPC holds none.
ResolveSelected(c) ==
    LET r == call[c]
        g == r.req.selected
    IN /\ r.req.op = "drop" /\ r.step = "start" /\ OnCompute
       /\ Set(c, [r EXCEPT !.step = "drop", !.lease = IF g = NoGraph THEN NoGraph
                                                      ELSE IF Serves(g) THEN g ELSE Default])
       /\ UNCHANGED <<graph, durable, vertices, edges, nextVid>>

\* dropGraph up to the wait; the default graph and an unknown one throw.
dropGraph(c) ==
    LET r == call[c]
        g == r.req.graph
    IN /\ r.step = "drop" /\ OnCompute
       /\ IF g # Default /\ Serves(g)
          THEN graph' = [graph EXCEPT ![g] = "closing"] /\ Set(c, [r EXCEPT !.step = "drain"])
          ELSE Set(c, End(r, "failed")) /\ UNCHANGED graph
       /\ UNCHANGED <<durable, vertices, edges, nextVid>>

\* waitDrained has seen no user; a session still lent out leaks the instance.
Drained(c) ==
    LET r == call[c]
        g == r.req.graph
        lent == \E d \in Calls : call[d].session /\ call[d].req.graph = g
    IN /\ r.step = "drain" /\ Inflight(g) = {}
       /\ graph' = [graph EXCEPT ![g] = IF lent THEN "leaked" ELSE "removed"]
       /\ Set(c, End(r, IF lent THEN "failed" ELSE "ok"))
       /\ UNCHANGED <<durable, vertices, edges, nextVid>>

\* Bug: the graph is removed although users are left.
MutCloseOnTimeout(c) ==
    LET r == call[c]
        g == r.req.graph
    IN /\ r.step = "drain" /\ Inflight(g) # {}
       /\ graph' = [graph EXCEPT ![g] = "removed"]
       /\ Set(c, End(r, "ok"))
       /\ UNCHANGED <<durable, vertices, edges, nextVid>>

\* Bug: the wait for the statement's own lease has no deadline.
MutDrainTimeout(c) ==
    LET r == call[c]
        g == r.req.graph
    IN /\ r.step = "drain" /\ Inflight(g) # {} /\ Inflight(g) # {c}
       /\ graph' = [graph EXCEPT ![g] = "leaked"]
       /\ Set(c, End(r, "failed"))
       /\ UNCHANGED <<durable, vertices, edges, nextVid>>

\* Ten seconds are over and a user is left, this statement itself included.
DrainTimeout(c) ==
    LET r == call[c]
        g == r.req.graph
    IN /\ r.step = "drain" /\ Inflight(g) # {}
       /\ graph' = [graph EXCEPT ![g] = "leaked"]
       /\ Set(c, End(r, "failed"))
       /\ UNCHANGED <<durable, vertices, edges, nextVid>>

-----------------------------------------------------------------------------
(* Batch import *)

\* Lease, session and transaction; its snapshot is what is committed now.
BatchBegin(c) ==
    LET r == call[c]
        g == r.req.graph
        leased == [r EXCEPT !.lease = g]
        others == {d \in Calls \ {c} : call[d].step \in {"batch", "staged"} /\ call[d].req.op = "vertices"}
    IN /\ r.req.op \in {"vertices", "edges"} /\ r.step = "start" /\ OnCompute
       /\ \/ ~Serves(g) /\ Set(c, End(r, "error"))
          \/ Serves(g) /\ Cardinality(Outstanding(g)) = MaxSessions /\ Set(c, End(leased, "error"))
          \/ /\ Serves(g) /\ Cardinality(Outstanding(g)) < MaxSessions
             /\ call' = [d \in Calls |->
                   IF d = c THEN [leased EXCEPT !.session = TRUE, !.step = "batch", !.seen = vertices, !.met = others]
                   ELSE IF d \in others THEN [call[d] EXCEPT !.met = @ \cup {c}] ELSE call[d]]
       /\ UNCHANGED <<graph, durable, vertices, edges, nextVid>>

\* Smallest vertex id of the key's entries in the label's primary index, in
\* whatever state the index is: findPrimaryIndexId does not ask.
lookupVertexByPrimaryKey(seen, g, l, k) ==
    LET hits == {v.vid : v \in {w \in seen : w.graph = g /\ w.label = l /\ w.key = k /\ w.entry}}
    IN IF hits = {} THEN 0 ELSE Min(hits)

\* Bug: a key repeated within the batch is not noticed.
MutKept(r) ==
    LET ks == r.req.keys
    IN {i \in DOMAIN ks : ks[i] = 0 \/ lookupVertexByPrimaryKey(r.seen, r.req.graph, r.req.label, ks[i]) = 0}

\* The records of a batch that are written: the first of each key, unless the
\* key is in the index.  Key 0: no key.
Kept(r) ==
    LET ks == r.req.keys
        first == {i \in DOMAIN ks : ks[i] = 0 \/ \A j \in 1..(i - 1) : ks[j] # ks[i]}
    IN {i \in first : ks[i] = 0 \/ lookupVertexByPrimaryKey(r.seen, r.req.graph, r.req.label, ks[i]) = 0}

\* The label's definition is read, with the state its primary key index is in:
\* live, or ERROR after a failed backfill (IndexDdl), when writers do not keep it
\* up.  Ids are taken from the meta store, not from the transaction, one after
\* another.
batchInsertVertices(c) ==
    LET r == call[c]
        kept == Kept(r)
        staged(live) == {[vid |-> nextVid + Cardinality({j \in kept : j < i}), key |-> r.req.keys[i],
                          label |-> r.req.label, graph |-> r.req.graph, entry |-> live, by |-> c] : i \in kept}
    IN /\ r.req.op = "vertices" /\ r.step = "batch" /\ OnCompute
       /\ nextVid' = nextVid + Cardinality(kept)
       /\ \E live \in BOOLEAN : Set(c, [r EXCEPT !.kept = staged(live), !.step = "staged"])
       /\ UNCHANGED <<graph, durable, vertices, edges>>

\* The hinted label, then every label with the same key names: the smallest id.
resolve_endpoint(seen, g, l, k) ==
    LET hint == lookupVertexByPrimaryKey(seen, g, l, k)
        others == {lookupVertexByPrimaryKey(seen, g, o, k) : o \in Labels} \ {0}
    IN IF hint # 0 THEN hint ELSE IF others = {} THEN 0 ELSE Min(others)

batchInsertEdges(c) ==
    LET r == call[c]
        src == resolve_endpoint(r.seen, r.req.graph, r.req.src[1], r.req.src[2])
        dst == resolve_endpoint(r.seen, r.req.graph, r.req.dst[1], r.req.dst[2])
    IN /\ r.req.op = "edges" /\ r.step = "batch" /\ OnCompute
       /\ Set(c, IF src = 0 \/ dst = 0 THEN End(r, "skipped")
                 ELSE [r EXCEPT !.kept = {[src |-> src, dst |-> dst, by |-> c]}, !.step = "staged"])
       /\ UNCHANGED <<graph, durable, vertices, edges, nextVid>>

\* GraphSession::commit; a failed one throws.
CommitBatch(c) ==
    LET r == call[c]
    IN /\ r.step = "staged" /\ OnCompute
       /\ \/ /\ Set(c, End(r, "ok"))
             /\ durable' = durable \cup {c}
             /\ vertices' = IF r.req.op = "vertices" THEN vertices \cup r.kept ELSE vertices
             /\ edges' = IF r.req.op = "edges" THEN edges \cup r.kept ELSE edges
          \/ Set(c, End(r, "error")) /\ UNCHANGED <<durable, vertices, edges>>
       /\ UNCHANGED <<graph, nextVid>>

-----------------------------------------------------------------------------

Init ==
    /\ graph = [g \in Graphs |-> "open"]
    /\ call = [c \in Calls |-> Idle]
    /\ durable = {} /\ vertices = {} /\ edges = {} /\ nextVid = 1

Query(c) == executeCypher(c) \/ prepareStream(c) \/ Prefetch(c) \/ CommitStream(c)
Teardown(c) == DestroyTree(c) \/ ReturnSession(c) \/ ReleaseLease(c)
Drop(c) == ResolveSelected(c) \/ dropGraph(c) \/ Drained(c) \/ DrainTimeout(c)
Batch(c) == BatchBegin(c) \/ batchInsertVertices(c) \/ batchInsertEdges(c) \/ CommitBatch(c)
Client(c) == PullFirst(c) \/ PullNext(c) \/ PullSummary(c) \/ Cancel(c) \/ \E q \in Requests : Receive(c, q)

Next == \E c \in Calls : Query(c) \/ Teardown(c) \/ Drop(c) \/ Batch(c) \/ Client(c)

Spec == Init /\ [][Next]_vars

\* The server's own steps happen; clients need not read their streams.
FairSpec ==
    /\ Spec
    /\ \A c \in Calls : WF_vars(Query(c)) /\ WF_vars(Teardown(c)) /\ WF_vars(Drop(c)) /\ WF_vars(Batch(c))

-----------------------------------------------------------------------------
(* Properties *)

\* A graph's connection is closed and its directory removed only when no call
\* has a session on it or cursors in it, whatever stage its stream is in when a
\* drop runs out of patience; and cursors never outlive their session.
RemovedIsUnused ==
    \A c \in Calls : LET r == call[c] IN
        /\ r.session /\ r.req.graph # Default => graph[r.req.graph] # "removed"
        /\ r.tree => r.session

\* What a stream reports is what happened to its writes: success means they
\* are durable; an error, at whichever batch it was raised, or a stream
\* abandoned before its end means they never are, also when the first batch was
\* computed before the client asked.
StreamTellsTheTruth ==
    \A c \in Calls : LET r == call[c] IN
        /\ r.res = "ok" /\ r.req.op # "drop" => c \in durable
        /\ r.res \in {"error", "cancelled"} \/ r.threw => c \notin durable

\* Two vertices of a label with one primary key come from two batches that ran
\* at the same time, or the earlier of the two was written while the index was
\* in state ERROR, where a later batch does not find it; never from one batch,
\* and never from one that began after an indexed vertex was committed.
DuplicatesOverlap ==
    \A v, w \in vertices :
        v # w /\ v.key # 0 /\ <<v.key, v.label, v.graph>> = <<w.key, w.label, w.graph>> =>
            /\ v.by # w.by
            /\ \/ v.by \in call[w.by].met \/ w.by \in call[v.by].met
               \/ v.vid < w.vid /\ ~v.entry
               \/ w.vid < v.vid /\ ~w.entry

\* Every call is answered: a result, an error, or a stream to read.  A drop
\* waits for streams nobody reads, and blocks a compute thread meanwhile, no
\* longer than its timeout; dropping the graph it has itself selected too.
CallsReturn == \A c \in Calls : call[c].step = "start" ~> call[c].step \in {"stream", "done"}

-----------------------------------------------------------------------------
(* The inductive invariant behind the three *)

VertexRows == [vid : Nat \ {0}, key : Nat, label : Nat, graph : Graphs \cup {Default}, entry : BOOLEAN, by : Calls]
EdgeRows == [src : Nat, dst : Nat, by : Calls]
Steps == {"idle", "start", "prepare", "prefetch", "stream", "commit", "summary", "drop", "drain",
          "batch", "staged", "tree", "session", "lease", "done"}
CallStates ==
    [req : Requests \cup {NoRequest}, step : Steps, lease : Graphs \cup {Default, NoGraph},
     session : BOOLEAN, tree : BOOLEAN, first : {"none", "chunk", "end", "throw"},
     started : BOOLEAN, threw : BOOLEAN, wrote : BOOLEAN,
     res : {"none", "ok", "error", "failed", "cancelled", "unread", "skipped"},
     seen : SUBSET VertexRows, kept : SUBSET (VertexRows \cup EdgeRows), met : SUBSET Calls]

TypeOK ==
    /\ graph \in [Graphs -> {"open", "closing", "leaked", "removed"}]
    /\ call \in [Calls -> CallStates]
    /\ durable \subseteq Calls
    /\ vertices \subseteq VertexRows /\ edges \subseteq EdgeRows
    /\ nextVid \in Nat \ {0}

\* What a call holds at each step: a session only under a lease on the graph
\* the request names, cursors only in a session, edges staged by an edge batch.
HoldsInOrder(r) ==
    /\ r.tree => r.session
    /\ r.session \/ r.step = "prepare" => r.lease = r.req.graph /\ r.lease # NoGraph /\ r.req.op # "drop"
    /\ r.step \in {"start", "prepare", "drop", "drain", "lease", "done"} => ~r.session
    /\ r.step \in {"start", "drop", "drain"} => r.req \in Requests
    /\ r.step \in {"drop", "drain"} => r.req.op = "drop"
    /\ r.step = "session" => ~r.tree
    /\ r.step = "staged" /\ r.req.op = "edges" => r.kept \subseteq EdgeRows

\* How far a call is from its answer, against its writes.
AnswerFollowsWrites(c, r, written) ==
    /\ c \in written =>
          /\ r.step \in {"summary", "tree", "session", "lease", "done"}
          /\ r.res \notin {"error", "cancelled"} /\ ~r.threw
    /\ r.step = "summary" => c \in written
    /\ r.res = "ok" /\ r.req.op # "drop" => c \in written
    /\ r.step \notin {"tree", "session", "lease", "done"} => r.res = "none"
    /\ r.threw => \/ r.step \in {"tree", "session", "lease", "done"}
                  \/ r.step = "stream" /\ r.first = "throw"

\* A lease keeps its graph from being removed.
LeaseKeeps == \A c \in Calls : call[c].lease \in Graphs => graph[call[c].lease] # "removed"

\* A batch of vertices between its snapshot and its commit.
Importing(r) == r.step \in {"batch", "staged"} /\ r.req.op = "vertices"
SameKey(v, w) == v.key # 0 /\ <<v.key, v.label, v.graph>> = <<w.key, w.label, w.graph>>

\* What a batch has staged is its own, repeats no key and none its snapshot has
\* an entry of, and is younger than its snapshot.
StagedOnce(c, r) ==
    /\ r.kept \subseteq VertexRows
    /\ \A v \in r.kept :
          /\ v.by = c
          /\ \A w \in r.seen : w.vid < v.vid /\ (SameKey(v, w) => ~w.entry)
          /\ \A w \in r.kept : v # w => ~SameKey(v, w)

\* Ids are given out in their order.
VidsBelow ==
    /\ \A v \in vertices : v.vid < nextVid
    /\ \A c \in Calls : Importing(call[c]) =>
          /\ \A v \in call[c].seen : v.vid < nextVid
          /\ call[c].step = "staged" => \A v \in call[c].kept : v.vid < nextVid

\* A batch has met every batch it overlaps, and knows from its snapshot every
\* vertex of the others.
ImportInv ==
    /\ \A v \in vertices : v.by \in durable
    /\ \A c, d \in Calls : c # d /\ Importing(call[c]) /\ Importing(call[d]) => d \in call[c].met
    /\ \A c \in Calls : Importing(call[c]) =>
          \A v \in vertices : v \in call[c].seen \/ v.by \in call[c].met
    /\ \A c \in Calls : Importing(call[c]) /\ call[c].step = "staged" => StagedOnce(c, call[c])

IInv ==
    /\ TypeOK /\ LeaseKeeps /\ VidsBelow /\ ImportInv /\ DuplicatesOverlap
    /\ \A c \in Calls : HoldsInOrder(call[c]) /\ AnswerFollowsWrites(c, call[c], durable)

-----------------------------------------------------------------------------
(* What a document of the repository would have *)

\* A graph that only the DROP DATABASE statement itself still uses is dropped.
OwnLeaseDoesNotFailDrop ==
    [][\A c \in Calls : call[c].step = "drain" /\ call'[c].res = "failed" => Inflight(call[c].req.graph) # {c}]_vars
=============================================================================
