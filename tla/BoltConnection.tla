--------------------------- MODULE BoltConnection ---------------------------
(***************************************************************************)
(* One Bolt connection: BoltConnection on its EventBase thread (assembled  *)
(* messages arrive, one is in flight, the others wait in pending_messages_,*)
(* the socket may close at any time) and BoltSession, whose handlers run   *)
(* on the compute pool.  The two share query_cancel_ and closed_.          *)
(*                                                                         *)
(* A statement is numbered when RUN accepts it and yields some rows; its   *)
(* writes happen while rows are pulled.  The storage layer is external: it *)
(* may refuse a transaction, a statement may fail at any row, and a commit *)
(* may fail.                                                               *)
(***************************************************************************)
EXTENDS Integers, Sequences

CONSTANTS
    Kinds,          \* the messages the client sends
    MaxRows,        \* bound: rows of a statement
    MaxQueue,       \* bound: messages waiting behind the one in flight
    MaxMessages,    \* bound: messages sent
    MaxRuns         \* bound: statements run

ASSUME BoltConnectionAssumption ==
    /\ Kinds \subseteq {"HELLO", "RUN", "PULL1", "PULLALL", "DISCARD", "BEGIN", "COMMIT",
                        "ROLLBACK", "RESET", "GOODBYE", "OTHER"}
    /\ MaxRows \in Nat /\ MaxQueue \in Nat /\ MaxMessages \in Nat /\ MaxRuns \in Nat

VARIABLES
    phase,          \* "open", "closed": phase_ and closed_
    queue,          \* pending_messages_
    busy,           \* the message in flight and the step its handler has reached
    cancel,         \* query_cancel_
    state,          \* state_
    inTxn,          \* in_transaction_
    open,           \* explicit_txn_ holds a session
    work,           \* external: statements with writes in explicit_txn_'s transaction
    stream,         \* stream_ctx_ and its pending chunk
    runs,           \* statements accepted so far
    sent,           \* messages sent so far
    parked,         \* history: a DISCARD outside a stream has left the transaction's states
    begun,          \* history: value of runs at the last BEGIN
    opened,         \* history: value of runs at the BEGIN that opened the transaction
    commits,        \* history: what became durable, per transaction
    drained,        \* history: statements pulled to their end
    failed,         \* history: statements the client was told have failed
    client          \* the client's view: [txn, done, acked]

connVars == <<phase, queue, busy, cancel, sent>>
sessVars == <<state, inTxn, parked, open, work, stream, runs>>
histVars == <<begun, opened, commits, drained, failed>>
vars == <<connVars, sessVars, histVars, client>>

-----------------------------------------------------------------------------
Stmts == Nat \ {0}
Idle == [kind |-> "none", step |-> "none", got |-> 0, res |-> "none", stmt |-> 0]
NoStream == [id |-> 0, auto |-> FALSE, rows |-> 0]

States == {"CONNECTING", "READY", "STREAMING", "TX_READY", "TX_STREAMING", "FAILED", "CLOSED"}
Steps == {"none", "start", "exec", "pull", "ended", "drained", "commit", "reply"}
Results == {"none", "success", "more", "failure", "ignored"}

Start(kind) == [kind |-> kind, step |-> "start", got |-> 0, res |-> "none", stmt |-> 0]

At(kinds, step) == busy.kind \in kinds /\ busy.step = step
Pulls == {"PULL1", "PULLALL"}

\* The handler returns; stmt is the statement the response is about.
Reply(res, stmt) == busy' = [busy EXCEPT !.step = "reply", !.res = res, !.stmt = stmt]

Goto(step) == busy' = [busy EXCEPT !.step = step]

\* streamCancelled: the client is gone or a RESET waits.
StreamCancelled == phase = "closed" \/ cancel

\* State after a statement is over, inside and outside an explicit transaction.
AfterStream == IF state = "TX_STREAMING" THEN "TX_READY" ELSE "READY"

\* abandonStream(false): the operator tree goes, an unfinished auto-commit
\* statement is rolled back with it; the explicit transaction stays.
DropStream == stream' = NoStream

\* abandonStream(true): the explicit transaction is rolled back too.
AbandonAll ==
    /\ DropStream
    /\ open' = FALSE /\ work' = {}
    /\ inTxn' = FALSE /\ parked' = FALSE

-----------------------------------------------------------------------------
(* BoltConnection *)

\* Statements sent and not yet numbered.
IsRun(kind) == kind = "RUN"
UnnumberedRuns ==
    Len(SelectSeq(queue, IsRun)) + (IF At({"RUN"}, "start") \/ At({"RUN"}, "exec") THEN 1 ELSE 0)

\* A message is complete: it is dispatched, or queued behind the one in flight.
\* A RESET that has to wait arms the cancel flag first.
Receive(kind) ==
    /\ phase = "open" /\ sent < MaxMessages
    /\ kind = "RUN" => runs + UnnumberedRuns < MaxRuns
    /\ sent' = sent + 1
    /\ IF busy = Idle
       THEN busy' = Start(kind) /\ UNCHANGED <<queue, cancel>>
       ELSE /\ Len(queue) < MaxQueue
            /\ queue' = Append(queue, kind)
            /\ cancel' = (cancel \/ kind = "RESET")
            /\ UNCHANGED busy
    /\ UNCHANGED <<phase, sessVars, histVars, client>>

\* closeConnection on EOF, a socket error or an oversized message.
CloseConnection ==
    /\ phase = "open"
    /\ phase' = "closed"
    /\ cancel' = TRUE
    /\ IF busy = Idle THEN AbandonAll ELSE UNCHANGED <<stream, open, work, inTxn, parked>>
    /\ UNCHANGED <<queue, busy, sent, state, runs, histVars, client>>

\* What the client makes of a response.
Learn(kind, res, stmt) ==
    client' =
        CASE kind \in Pulls /\ res = "success" /\ stmt # 0 /\ ~client.txn ->
                [client EXCEPT !.acked = @ \cup {stmt}]
          [] kind \in Pulls /\ res = "success" /\ stmt # 0 /\ client.txn ->
                [client EXCEPT !.done = @ \cup {stmt}]
          [] kind = "BEGIN" /\ res = "success" -> [client EXCEPT !.txn = TRUE, !.done = {}]
          [] kind = "COMMIT" /\ res = "success" ->
                [txn |-> FALSE, done |-> {}, acked |-> client.acked \cup client.done]
          [] kind \in {"ROLLBACK", "RESET"} /\ res = "success" ->
                [client EXCEPT !.txn = FALSE, !.done = {}]
          [] OTHER -> client

\* Bug: the message that was in flight when the socket closed drops nothing.
MutFinishClosed ==
    /\ busy.step = "reply" /\ phase = "closed"
    /\ busy' = Idle
    /\ UNCHANGED <<phase, queue, cancel, sent, sessVars, histVars, client>>

\* finishMessage with the socket gone: now the stream can be dropped.
FinishClosed ==
    /\ busy.step = "reply" /\ phase = "closed"
    /\ busy' = Idle
    /\ AbandonAll
    /\ UNCHANGED <<phase, queue, cancel, sent, state, runs, histVars, client>>

\* finishMessage after GOODBYE: closeConnection.
FinishGoodbye ==
    /\ busy.step = "reply" /\ phase = "open" /\ state = "CLOSED"
    /\ phase' = "closed"
    /\ cancel' = TRUE
    /\ busy' = Idle
    /\ UNCHANGED <<queue, sent, sessVars, histVars, client>>

\* Bug: the messages that waited are not dispatched.
MutFinishMessage ==
    /\ busy.step = "reply" /\ phase = "open" /\ state # "CLOSED"
    /\ Learn(busy.kind, busy.res, busy.stmt)
    /\ busy' = Idle
    /\ UNCHANGED <<phase, queue, cancel, sent, sessVars, histVars>>

\* finishMessage: send the response, dispatch the next message.
FinishMessage ==
    /\ busy.step = "reply" /\ phase = "open" /\ state # "CLOSED"
    /\ Learn(busy.kind, busy.res, busy.stmt)
    /\ IF queue = <<>>
       THEN busy' = Idle /\ UNCHANGED queue
       ELSE busy' = Start(Head(queue)) /\ queue' = Tail(queue)
    /\ UNCHANGED <<phase, cancel, sent, sessVars, histVars>>

-----------------------------------------------------------------------------
(* BoltSession: the handlers *)

\* In FAILED most messages are ignored.
Ignored ==
    /\ At({"RUN", "DISCARD", "BEGIN", "COMMIT", "ROLLBACK", "OTHER"} \cup Pulls, "start")
    /\ state = "FAILED"
    /\ Reply("ignored", 0)
    /\ UNCHANGED <<phase, queue, cancel, sent, sessVars, histVars, client>>

\* A message that does not fit the state is refused; the state stays.
Expected(kind) ==
    CASE kind = "HELLO" -> {"CONNECTING"}
      [] kind = "RUN" -> {"READY", "TX_READY"}
      [] kind \in Pulls -> {"STREAMING", "TX_STREAMING"}
      [] kind = "BEGIN" -> {"READY"}
      [] kind \in {"COMMIT", "ROLLBACK"} -> {"TX_READY"}
      [] OTHER -> States

Unexpected ==
    /\ busy.step = "start"
    /\ state \notin Expected(busy.kind)
    /\ state = "FAILED" => busy.kind = "HELLO"
    /\ Reply("failure", 0)
    /\ UNCHANGED <<phase, queue, cancel, sent, sessVars, histVars, client>>

\* HELLO, accepted or refused.
Hello ==
    /\ At({"HELLO"}, "start") /\ state = "CONNECTING"
    /\ \/ Reply("success", 0) /\ state' = "READY"
       \/ Reply("failure", 0) /\ UNCHANGED state
    /\ UNCHANGED <<phase, queue, cancel, sent, inTxn, parked, open, work, stream, runs, histVars, client>>

\* LOGON, LOGOFF, ROUTE, TELEMETRY, and messages that cannot be decoded.
Other ==
    /\ At({"OTHER"}, "start")
    /\ Reply("success", 0) \/ Reply("failure", 0)
    /\ UNCHANGED <<phase, queue, cancel, sent, sessVars, histVars, client>>

\* The first RUN of an explicit transaction takes a session and begins.
RunStart ==
    /\ At({"RUN"}, "start") /\ state \in {"READY", "TX_READY"}
    /\ Goto("exec")
    /\ open' = inTxn
    /\ UNCHANGED <<phase, queue, cancel, sent, state, inTxn, parked, work, stream, runs, histVars, client>>

\* A parameter cannot be converted: processMessage turns the exception into
\* FAILED, the explicit transaction stays.
RunRefused ==
    /\ At({"RUN"}, "start") /\ state \in {"READY", "TX_READY"}
    /\ state' = "FAILED"
    /\ Reply("failure", 0)
    /\ UNCHANGED <<phase, queue, cancel, sent, inTxn, parked, open, work, stream, runs, histVars, client>>

\* The query is compiled: its stream replaces whatever stream there was.
RunExecute ==
    /\ At({"RUN"}, "exec")
    /\ \E rows \in 0 .. MaxRows :
        stream' = [id |-> runs + 1, auto |-> ~open, rows |-> rows]
    /\ runs' = runs + 1
    /\ state' = IF state = "TX_READY" THEN "TX_STREAMING" ELSE "STREAMING"
    /\ Reply("success", runs + 1)
    /\ UNCHANGED <<phase, queue, cancel, sent, inTxn, parked, open, work, histVars, client>>

\* beginSession or executeCypher throws: the explicit transaction is over.
RunFails ==
    /\ \/ At({"RUN"}, "exec")
       \/ At({"RUN"}, "start") /\ state \in {"READY", "TX_READY"} /\ inTxn /\ ~open
    /\ state' = "FAILED"
    /\ open' = FALSE /\ work' = {}
    /\ inTxn' = (inTxn /\ ~open) /\ parked' = (parked /\ ~open)
    /\ Reply("failure", 0)
    /\ UNCHANGED <<phase, queue, cancel, sent, stream, runs, histVars, client>>

-----------------------------------------------------------------------------
(* PULL *)

PullNothing ==
    /\ At(Pulls, "start") /\ state \in {"STREAMING", "TX_STREAMING"}
    /\ stream = NoStream
    /\ state' = AfterStream
    /\ Reply("success", 0)
    /\ UNCHANGED <<phase, queue, cancel, sent, inTxn, parked, open, work, stream, runs, histVars, client>>

PullStart ==
    /\ At(Pulls, "start") /\ state \in {"STREAMING", "TX_STREAMING"}
    /\ stream # NoStream
    /\ busy' = [busy EXCEPT !.step = "pull", !.stmt = stream.id]
    /\ UNCHANGED <<phase, queue, cancel, sent, sessVars, histVars, client>>

PageFull == busy.kind = "PULL1" /\ busy.got = 1

\* gen.next() runs the statement a little further.
Wrote == work' = IF stream.auto THEN work ELSE work \cup {stream.id}

PullRow ==
    /\ At(Pulls, "pull") /\ ~PageFull /\ ~StreamCancelled
    /\ stream.rows > 0
    /\ stream' = [stream EXCEPT !.rows = @ - 1]
    /\ busy' = [busy EXCEPT !.got = 1]
    /\ Wrote
    /\ UNCHANGED <<phase, queue, cancel, sent, state, inTxn, parked, open, runs, histVars, client>>

\* The generator ends: no row is left.
PullEnd ==
    /\ At(Pulls, "pull") /\ ~PageFull /\ ~StreamCancelled
    /\ stream.rows = 0
    /\ Goto("drained")
    /\ Wrote
    /\ drained' = drained \cup {stream.id}
    /\ UNCHANGED <<phase, queue, cancel, sent, state, inTxn, parked, open, stream, runs, begun, opened, commits, failed, client>>

\* The page is full, or the loop (or an operator) has noticed the cancellation.
PullStop ==
    /\ At(Pulls, "pull") /\ (PageFull \/ StreamCancelled)
    /\ Goto("ended")
    /\ UNCHANGED <<phase, queue, cancel, sent, sessVars, histVars, client>>

\* Bug: the transaction of a statement that failed is left to the client.
MutPullFails ==
    /\ At(Pulls, "pull") /\ ~PageFull
    /\ DropStream
    /\ state' = AfterStream
    /\ failed' = failed \cup {stream.id}
    /\ Wrote
    /\ Reply("failure", stream.id)
    /\ UNCHANGED <<phase, queue, cancel, sent, inTxn, parked, open, runs, begun, opened, commits, drained, client>>

\* The statement throws: FAILED, the stream goes, an explicit transaction stays.
PullFails ==
    /\ At(Pulls, "pull") /\ ~PageFull
    /\ DropStream
    /\ state' = "FAILED"
    /\ failed' = failed \cup {stream.id}
    /\ Wrote
    /\ Reply("failure", stream.id)
    /\ UNCHANGED <<phase, queue, cancel, sent, inTxn, parked, open, runs, begun, opened, commits, drained, client>>

\* Cancelled, whether the loop saw it or only the check behind it: roll back.
PullAbort ==
    /\ At(Pulls, "ended") \/ At(Pulls, "drained")
    /\ StreamCancelled
    /\ AbandonAll
    /\ state' = "FAILED"
    /\ failed' = failed \cup {stream.id}
    /\ Reply("failure", stream.id)
    /\ UNCHANGED <<phase, queue, cancel, sent, runs, begun, opened, commits, drained, client>>

\* More rows: the stream stays for the next PULL.
PullMore ==
    /\ At(Pulls, "ended") /\ ~StreamCancelled
    /\ Reply("more", stream.id)
    /\ UNCHANGED <<phase, queue, cancel, sent, sessVars, histVars, client>>

\* Drained: the operator tree goes first; then an auto-commit statement commits.
PullDone ==
    /\ At(Pulls, "drained") /\ ~StreamCancelled
    /\ DropStream
    /\ IF ~inTxn /\ stream.auto
       THEN Goto("commit") /\ UNCHANGED state
       ELSE Reply("success", stream.id) /\ state' = AfterStream
    /\ UNCHANGED <<phase, queue, cancel, sent, inTxn, parked, open, work, runs, histVars, client>>

PullCommit ==
    /\ At(Pulls, "commit")
    /\ commits' = commits \cup
          {[work |-> {busy.stmt}, since |-> busy.stmt, first |-> busy.stmt, parked |-> FALSE]}
    /\ state' = AfterStream
    /\ Reply("success", busy.stmt)
    /\ UNCHANGED <<phase, queue, cancel, sent, inTxn, parked, open, work, stream, runs, begun, opened, drained, failed, client>>

\* Bug: the result of the commit is not looked at.
MutPullCommitFails ==
    /\ At(Pulls, "commit")
    /\ state' = AfterStream
    /\ Reply("success", busy.stmt)
    /\ UNCHANGED <<phase, queue, cancel, sent, inTxn, parked, open, work, stream, runs, histVars, client>>

\* The commit fails: the client is told, the state stays STREAMING.
PullCommitFails ==
    /\ At(Pulls, "commit")
    /\ failed' = failed \cup {busy.stmt}
    /\ Reply("failure", busy.stmt)
    /\ UNCHANGED <<phase, queue, cancel, sent, sessVars, begun, opened, commits, drained, client>>

-----------------------------------------------------------------------------
(* DISCARD, BEGIN, COMMIT, ROLLBACK, RESET, GOODBYE *)

\* DISCARD in any state but FAILED: from TX_STREAMING back to TX_READY, from every
\* other state to READY, an explicit transaction that is between statements included.
Discard ==
    /\ At({"DISCARD"}, "start") /\ state # "FAILED"
    /\ DropStream
    /\ state' = AfterStream
    /\ parked' = (parked \/ state = "TX_READY")
    /\ Reply("success", 0)
    /\ UNCHANGED <<phase, queue, cancel, sent, inTxn, open, work, runs, histVars, client>>

\* BEGIN looks at state_ only: over a parked transaction it goes on with that one.

Begin ==
    /\ At({"BEGIN"}, "start") /\ state = "READY"
    /\ inTxn' = TRUE
    /\ state' = "TX_READY"
    /\ begun' = runs
    /\ opened' = IF inTxn THEN opened ELSE runs
    /\ Reply("success", 0)
    /\ UNCHANGED <<phase, queue, cancel, sent, parked, open, work, stream, runs, commits, drained, failed, client>>

Commit ==
    /\ At({"COMMIT"}, "start") /\ state = "TX_READY"
    /\ commits' =
          IF open
          THEN commits \cup {[work |-> work, since |-> begun + 1, first |-> opened + 1, parked |-> parked]}
          ELSE commits
    /\ open' = FALSE /\ work' = {}
    /\ inTxn' = FALSE /\ parked' = FALSE
    /\ state' = "READY"
    /\ Reply("success", 0)
    /\ UNCHANGED <<phase, queue, cancel, sent, stream, runs, begun, opened, drained, failed, client>>

CommitFails ==
    /\ At({"COMMIT"}, "start") /\ state = "TX_READY" /\ open
    /\ open' = FALSE /\ work' = {}
    /\ inTxn' = FALSE /\ parked' = FALSE
    /\ state' = "READY"
    /\ Reply("failure", 0)
    /\ UNCHANGED <<phase, queue, cancel, sent, stream, runs, histVars, client>>

\* Bug: ROLLBACK keeps the session and its writes.
MutRollback ==
    /\ At({"ROLLBACK"}, "start") /\ state = "TX_READY"
    /\ state' = "READY"
    /\ inTxn' = FALSE /\ parked' = FALSE
    /\ Reply("success", 0)
    /\ UNCHANGED <<phase, queue, cancel, sent, open, work, stream, runs, histVars, client>>

Rollback ==
    /\ At({"ROLLBACK"}, "start") /\ state = "TX_READY"
    /\ open' = FALSE /\ work' = {}
    /\ inTxn' = FALSE /\ parked' = FALSE
    /\ state' = "READY"
    /\ Reply("success", 0)
    /\ UNCHANGED <<phase, queue, cancel, sent, stream, runs, histVars, client>>

\* Bug: the flag is not re-armed for the next statement.
MutReset ==
    /\ At({"RESET"}, "start")
    /\ AbandonAll
    /\ state' = "READY"
    /\ Reply("success", 0)
    /\ UNCHANGED <<phase, queue, cancel, sent, runs, histVars, client>>

\* RESET, in any state: everything is dropped, the cancel flag is re-armed.
Reset ==
    /\ At({"RESET"}, "start")
    /\ AbandonAll
    /\ cancel' = FALSE
    /\ state' = "READY"
    /\ Reply("success", 0)
    /\ UNCHANGED <<phase, queue, sent, runs, histVars, client>>

Goodbye ==
    /\ At({"GOODBYE"}, "start")
    /\ AbandonAll
    /\ state' = "CLOSED"
    /\ Reply("none", 0)
    /\ UNCHANGED <<phase, queue, cancel, sent, runs, histVars, client>>

-----------------------------------------------------------------------------
Init ==
    /\ phase = "open" /\ queue = <<>> /\ busy = Idle /\ cancel = FALSE /\ sent = 0
    /\ state = "CONNECTING" /\ inTxn = FALSE /\ open = FALSE /\ work = {}
    /\ stream = NoStream /\ runs = 0
    /\ parked = FALSE /\ begun = 0 /\ opened = 0 /\ commits = {} /\ drained = {} /\ failed = {}
    /\ client = [txn |-> FALSE, done |-> {}, acked |-> {}]

\* What the server does by itself.
Handle ==
    \/ FinishClosed \/ FinishGoodbye \/ FinishMessage
    \/ Ignored \/ Unexpected \/ Hello \/ Other
    \/ RunStart \/ RunRefused \/ RunExecute \/ RunFails
    \/ PullNothing \/ PullStart \/ PullRow \/ PullEnd \/ PullStop \/ PullFails
    \/ PullAbort \/ PullMore \/ PullDone \/ PullCommit \/ PullCommitFails
    \/ Discard \/ Begin \/ Commit \/ CommitFails \/ Rollback \/ Reset \/ Goodbye

Next == Handle \/ CloseConnection \/ \E kind \in Kinds : Receive(kind)

Spec == Init /\ [][Next]_vars

\* The compute pool and the EventBase run what is ready.
FairSpec == Spec /\ WF_vars(Handle)

-----------------------------------------------------------------------------
(* Properties *)

Handlers ==
    [kind : Kinds \cup {"none"}, step : Steps, got : 0 .. 1, res : Results, stmt : Nat]
Streams == [id : Nat, auto : BOOLEAN, rows : 0 .. MaxRows]
Transactions == [work : SUBSET Stmts, since : Nat, first : Nat, parked : BOOLEAN]

TypeOK ==
    /\ phase \in {"open", "closed"}
    /\ queue \in Seq(Kinds) /\ Len(queue) <= MaxQueue
    /\ busy \in Handlers
    /\ cancel \in BOOLEAN
    /\ state \in States
    /\ inTxn \in BOOLEAN /\ parked \in BOOLEAN /\ open \in BOOLEAN
    /\ work \subseteq Stmts
    /\ stream \in Streams
    /\ runs \in Nat /\ sent \in 0 .. MaxMessages /\ begun \in Nat /\ opened \in Nat
    /\ commits \subseteq Transactions
    /\ drained \subseteq Stmts /\ failed \subseteq Stmts
    /\ client \in [txn : BOOLEAN, done : SUBSET Stmts, acked : SUBSET Stmts]

Durable == UNION {c.work : c \in commits}

\* What the client was told is committed is durable: the last SUCCESS of an
\* auto-commit statement, and COMMIT for the statements before it.
AckedIsDurable == client.acked \subseteq Durable

\* Nothing of a statement reported as failed or cancelled ever becomes durable,
\* neither by itself nor through the explicit transaction it was part of.
FailedNeverDurable == failed \cap Durable = {}

\* A commit holds only statements run since the BEGIN that opened its
\* transaction, and no statement is committed twice: work of a transaction that
\* was rolled back, reset or abandoned does not come back in a later one.  What
\* was run before the client's last BEGIN is in a commit only when a DISCARD
\* outside a stream (handleDiscard checks no state) had put the session back to
\* READY inside its transaction, where handleBegin accepts that BEGIN.
CommitIsItsOwn ==
    /\ \A c \in commits : \A s \in c.work : s >= c.first /\ (s >= c.since \/ c.parked)
    /\ \A c, d \in commits : c.work \cap d.work # {} => c = d

\* Between messages the protocol state and the transaction agree: an open
\* explicit transaction can be committed, unless a DISCARD has parked it, and
\* outside one no statement runs in it.
StateMatchesTransaction ==
    busy = Idle /\ phase = "open" =>
        /\ inTxn /\ state # "FAILED" => state \in {"TX_READY", "TX_STREAMING"} \/ parked
        /\ state \in {"TX_READY", "TX_STREAMING"} => inTxn
        /\ stream # NoStream => state \in {"STREAMING", "TX_STREAMING"}

ResetWaits == (\E i \in 1 .. Len(queue) : queue[i] = "RESET") \/ At({"RESET"}, "start")

\* A statement is cancelled only for a RESET that is on its way or a connection
\* that is gone: no later statement finds itself cancelled from birth.
CancelHasReason == cancel => phase = "closed" \/ ResetWaits

\* A closed connection whose last handler has finished holds neither a session
\* nor a graph lease: a drop of the graph is not kept waiting.
ClosedHoldsNothing ==
    phase = "closed" /\ busy = Idle => ~open /\ work = {} /\ stream = NoStream

\* ... and that comes about: whatever was running when the socket went away,
\* its session and lease are given back.
ReleasedAfterClose == phase = "closed" ~> (~open /\ stream = NoStream /\ busy = Idle)

\* A RESET is handled however long the queue and the statement before it.
ResetIsHandled == ResetWaits ~> ~ResetWaits \/ phase = "closed"

-----------------------------------------------------------------------------
(* The inductive invariant behind AckedIsDurable, FailedNeverDurable,      *)
(* CommitIsItsOwn and ClosedHoldsNothing                                   *)

Streaming == {"STREAMING", "TX_STREAMING"}

\* What a handler that is part way through knows of its session.
HandlerInv ==
    /\ busy.step = "none" => busy = Idle
    /\ busy.step = "exec" =>
          busy.kind = "RUN" /\ state \in {"READY", "TX_READY"} /\ open = inTxn
    /\ busy.step \in {"pull", "ended", "drained"} =>
          busy.kind \in Pulls /\ stream # NoStream /\ busy.stmt = stream.id
    /\ busy.step = "drained" /\ ~stream.auto => stream.id \in work
    /\ busy.step = "commit" =>
          /\ busy.kind \in Pulls /\ state \in Streaming /\ ~inTxn /\ stream = NoStream
          /\ busy.stmt \in 1 .. runs /\ busy.stmt \notin failed \cup Durable

\* The protocol state, the explicit transaction and the stream agree.
SessionInv ==
    /\ state \in {"CONNECTING", "CLOSED"} => ~inTxn
    /\ state \in {"READY", "STREAMING"} => ~inTxn \/ parked
    /\ parked => inTxn
    /\ state \in {"TX_READY", "TX_STREAMING"} => inTxn \/ (phase = "closed" /\ busy = Idle)
    /\ open => inTxn
    /\ work # {} => open
    /\ stream.id = 0 => stream = NoStream
    /\ stream # NoStream => state \in Streaming /\ open = inTxn /\ stream.auto = ~open

\* Statements are numbered once, and each is in one place only: running,
\* in the open transaction, durable or failed.
StatementInv ==
    /\ opened <= begun /\ begun <= runs /\ stream.id <= runs
    /\ \A s \in work : opened < s /\ (begun < s \/ parked) /\ s <= runs /\ s \notin Durable
    /\ \A s \in failed \cup Durable : s <= runs
    /\ stream # NoStream =>
          /\ stream.id \notin failed \cup Durable
          /\ ~stream.auto => opened < stream.id /\ (begun < stream.id \/ parked)
    /\ work \cap failed # {} => state = "FAILED"

\* What the client believes of its transaction, while it can still learn.
ClientInv ==
    /\ busy.step = "reply" /\ busy.res = "success" =>
          /\ busy.kind = "BEGIN" => inTxn
          /\ busy.kind = "COMMIT" => client.done \subseteq Durable
          /\ busy.kind \in {"COMMIT", "ROLLBACK", "RESET"} => ~inTxn
          /\ busy.kind \in Pulls /\ busy.stmt # 0 =>
                busy.stmt \in (IF inTxn THEN work ELSE Durable)
    /\ inTxn =>
          \/ busy.kind = "BEGIN" /\ busy.step = "reply" /\ busy.res = "success" /\ work = {}
          \/ client.txn /\ client.done \subseteq work

IInv ==
    /\ TypeOK /\ HandlerInv /\ SessionInv /\ StatementInv /\ ClientInv
    /\ FailedNeverDurable /\ CommitIsItsOwn /\ AckedIsDurable /\ ClosedHoldsNothing

-----------------------------------------------------------------------------
(* What comments and documents of the repository say *)

\* transaction-model.md: a failed statement rolls the whole explicit
\* transaction back.
FailureRollsBack == state = "FAILED" /\ busy = Idle => ~open

\* neo4j-bolt-protocol.md: DISCARD leaves the explicit transaction to the
\* client's COMMIT.
DiscardLeavesCommit ==
    busy = Idle /\ phase = "open" /\ inTxn /\ state # "FAILED" =>
        state \in {"TX_READY", "TX_STREAMING"}

\* neo4j-bolt-protocol.md: DISCARD drops the remaining results, and a write the
\* client has not seen in full is never committed: a durable statement has run
\* to its end.
WholeStatements == Durable \subseteq drained
=============================================================================
