------------------------ MODULE BoltConnectionProofs ------------------------
(***************************************************************************)
(* Proofs that IInv is an invariant of BoltConnection, for every set of    *)
(* messages, every queue bound and every number of rows and statements,    *)
(* and of what follows from it.  One lemma per action; under it one step   *)
(* per conjunct of IInv.                                                   *)
(***************************************************************************)
EXTENDS BoltConnection, SequenceTheorems, TLAPS

USE BoltConnectionAssumption

-----------------------------------------------------------------------------
(* Handlers, streams and the durable statements *)

LEMMA IdleTyped == Idle \in Handlers /\ NoStream \in Streams
  BY DEF Idle, NoStream, Handlers, Streams, Steps, Results

LEMMA StartIs ==
    ASSUME NEW k
    PROVE  Start(k) = [kind |-> k, step |-> "start", got |-> 0, res |-> "none", stmt |-> 0]
  BY DEF Start, Idle

LEMMA StartTyped ==
    ASSUME NEW k \in Kinds
    PROVE  Start(k) \in Handlers
  BY StartIs DEF Handlers, Steps, Results

LEMMA ReplyTyped ==
    ASSUME TypeOK, NEW res \in Results, NEW stmt \in Nat, Reply(res, stmt)
    PROVE  busy' \in Handlers
  BY DEF TypeOK, Reply, Handlers, Steps

LEMMA GotoTyped ==
    ASSUME TypeOK, NEW step \in Steps, Goto(step)
    PROVE  busy' \in Handlers
  BY DEF TypeOK, Goto, Handlers

LEMMA DurableGrows ==
    ASSUME NEW c, commits' = commits \cup {c}
    PROVE  Durable' = Durable \cup c.work
  BY DEF Durable

\* A commit of statements that are in no earlier one keeps commits apart.
LEMMA CommitApart ==
    ASSUME CommitIsItsOwn, NEW c, commits' = commits \cup {c},
           c.work \cap Durable = {}, \A s \in c.work : s >= c.first /\ (s >= c.since \/ c.parked)
    PROVE  CommitIsItsOwn'
  BY DEF CommitIsItsOwn, Durable

-----------------------------------------------------------------------------
\* The handler of a closed connection has finished: everything is abandoned.
LEMMA FinishClosedPreserves ==
    ASSUME IInv, FinishClosed
    PROVE  IInv'
<1> USE DEF IInv, FinishClosed, At, sessVars, histVars, AbandonAll, DropStream
<1>d. Durable' = Durable
  BY DEF Durable
<1>1. TypeOK'
  <2>1. busy' \in Handlers
    BY IdleTyped
  <2>2. stream' \in Streams
    BY IdleTyped DEF TypeOK
  <2> QED
    BY <2>1, <2>2 DEF TypeOK, States, Stmts
<1>2. HandlerInv'
  BY <1>d DEF TypeOK, Handlers, Streams, HandlerInv, SessionInv, StatementInv, Streaming, Steps, States, Pulls, Idle, NoStream
<1>3. SessionInv'
  BY <1>d DEF TypeOK, Handlers, Streams, HandlerInv, SessionInv, StatementInv, Streaming, States, Stmts, Steps, Pulls, Idle, NoStream
<1>4. StatementInv'
  BY <1>d DEF TypeOK, Handlers, Streams, HandlerInv, SessionInv, StatementInv, Streaming, Stmts, Steps, Idle, NoStream
<1>5. ClientInv'
  BY <1>d DEF TypeOK, Handlers, Streams, HandlerInv, SessionInv, StatementInv, ClientInv, Streaming, Pulls, Steps, Stmts, Idle, NoStream
<1>6. FailedNeverDurable'
  BY <1>d DEF HandlerInv, StatementInv, FailedNeverDurable
<1>7. CommitIsItsOwn'
  BY <1>d DEF CommitIsItsOwn
<1>8. AckedIsDurable'
  BY <1>d DEF AckedIsDurable
<1>9. ClosedHoldsNothing'
  BY <1>d DEF TypeOK, Handlers, Streams, HandlerInv, SessionInv, ClosedHoldsNothing, Streaming, Steps, Idle, NoStream
<1> QED
  BY <1>1, <1>2, <1>3, <1>4, <1>5, <1>6, <1>7, <1>8, <1>9

\* GOODBYE was answered: the connection closes, its session is already empty.
LEMMA FinishGoodbyePreserves ==
    ASSUME IInv, FinishGoodbye
    PROVE  IInv'
<1> USE DEF IInv, FinishGoodbye, At, sessVars, histVars
<1>d. Durable' = Durable
  BY DEF Durable
<1>1. TypeOK'
  <2>1. busy' \in Handlers
    BY IdleTyped
  <2>2. stream' \in Streams
    BY DEF TypeOK
  <2> QED
    BY <2>1, <2>2 DEF TypeOK, States, Stmts
<1>2. HandlerInv'
  BY <1>d DEF TypeOK, Handlers, Streams, HandlerInv, SessionInv, StatementInv, Streaming, Steps, States, Pulls, Idle, NoStream
<1>3. SessionInv'
  BY <1>d DEF TypeOK, Handlers, Streams, HandlerInv, SessionInv, StatementInv, Streaming, States, Stmts, Steps, Pulls, Idle, NoStream
<1>4. StatementInv'
  BY <1>d DEF TypeOK, Handlers, Streams, HandlerInv, SessionInv, StatementInv, Streaming, Stmts, Steps, Idle, NoStream
<1>5. ClientInv'
  BY <1>d DEF TypeOK, Handlers, Streams, HandlerInv, SessionInv, StatementInv, ClientInv, Streaming, Pulls, Steps, Stmts, Idle, NoStream
<1>6. FailedNeverDurable'
  BY <1>d DEF HandlerInv, StatementInv, FailedNeverDurable
<1>7. CommitIsItsOwn'
  BY <1>d DEF CommitIsItsOwn
<1>8. AckedIsDurable'
  BY <1>d DEF AckedIsDurable
<1>9. ClosedHoldsNothing'
  BY <1>d DEF TypeOK, Handlers, Streams, HandlerInv, SessionInv, ClosedHoldsNothing, Streaming, Steps, Idle, NoStream
<1> QED
  BY <1>1, <1>2, <1>3, <1>4, <1>5, <1>6, <1>7, <1>8, <1>9

\* The response is sent and the next message dispatched.
LEMMA FinishMessagePreserves ==
    ASSUME IInv, FinishMessage
    PROVE  IInv'
<1> USE DEF IInv, FinishMessage, At, sessVars, histVars
<1>d. Durable' = Durable
  BY DEF Durable
<1>1. TypeOK'
  <2>1. busy' \in Handlers /\ queue' \in Seq(Kinds) /\ Len(queue') <= MaxQueue
    <3>1. CASE queue = <<>>
      BY <3>1, IdleTyped DEF TypeOK
    <3>2. CASE queue # <<>>
      <4>1. queue \in Seq(Kinds) /\ Len(queue) <= MaxQueue
        BY DEF TypeOK
      <4>2. /\ Head(queue) \in Kinds /\ Tail(queue) \in Seq(Kinds)
            /\ Len(Tail(queue)) = Len(queue) - 1 /\ Len(queue) \in Nat
        BY <3>2, <4>1, HeadTailProperties, LenProperties
      <4>3. Start(Head(queue)) \in Handlers
        BY <4>2, StartTyped
      <4> QED
        BY <3>2, <4>1, <4>2, <4>3
    <3> QED
      BY <3>1, <3>2
  <2>2. client' \in [txn : BOOLEAN, done : SUBSET Stmts, acked : SUBSET Stmts]
    BY DEF TypeOK, Learn, Handlers, Stmts
  <2> QED
    BY <2>1, <2>2 DEF TypeOK
<1>2. HandlerInv'
  <2>1. CASE queue = <<>>
    BY <2>1, <1>d DEF HandlerInv, TypeOK, Idle
  <2>2. CASE queue # <<>>
    <3>1. Head(queue) = queue[1] /\ 1 \in 1 .. Len(queue)
      BY <2>2 DEF TypeOK
    <3>2. \A i \in 1 .. Len(Tail(queue)) : i + 1 \in 1 .. Len(queue) /\ Tail(queue)[i] = queue[i + 1]
      BY <2>2 DEF TypeOK
    <3> QED
      BY <2>2, <3>1, <3>2, <1>d, StartIs DEF HandlerInv
  <2> QED
    BY <2>1, <2>2
<1>3. SessionInv'
  BY <1>d DEF TypeOK, Handlers, Streams, HandlerInv, SessionInv, StatementInv, Streaming, States, Stmts, Steps, Pulls, Idle, NoStream
<1>4. StatementInv'
  BY <1>d DEF TypeOK, Handlers, Streams, HandlerInv, SessionInv, StatementInv, Streaming, Stmts, Steps, Idle, NoStream
<1>5. ClientInv'
  <2>1. busy'.step # "reply"
    BY StartIs DEF Idle
  <2>2. ASSUME inTxn PROVE client'.txn /\ client'.done \subseteq work
    <3>1. busy.kind \notin {"COMMIT", "ROLLBACK", "RESET"} \/ busy.res # "success"
      BY <2>2 DEF ClientInv
    <3>2. CASE busy.kind = "BEGIN" /\ busy.res = "success"
      BY <3>2 DEF Learn, TypeOK, Pulls
    <3>3. CASE ~(busy.kind = "BEGIN" /\ busy.res = "success")
      <4>1. client.txn /\ client.done \subseteq work
        BY <2>2, <3>3 DEF ClientInv
      <4>2. busy.kind \in Pulls /\ busy.res = "success" /\ busy.stmt # 0 => busy.stmt \in work
        BY <2>2 DEF ClientInv
      <4> QED
        BY <3>1, <3>3, <4>1, <4>2 DEF Learn, TypeOK
    <3> QED
      BY <3>2, <3>3
  <2> QED
    BY <2>1, <2>2 DEF ClientInv
<1>6. FailedNeverDurable'
  BY <1>d DEF HandlerInv, StatementInv, FailedNeverDurable
<1>7. CommitIsItsOwn'
  BY <1>d DEF CommitIsItsOwn
<1>8. AckedIsDurable'
  <2>1. busy.kind \in Pulls /\ busy.res = "success" /\ busy.stmt # 0 /\ ~client.txn
          => busy.stmt \in Durable
    BY DEF ClientInv, Pulls
  <2>2. busy.kind = "COMMIT" /\ busy.res = "success" => client.done \subseteq Durable
    BY DEF ClientInv
  <2> QED
    BY <1>d, <2>1, <2>2 DEF AckedIsDurable, Learn, TypeOK, Pulls
<1>9. ClosedHoldsNothing'
  BY <1>d DEF TypeOK, Handlers, Streams, HandlerInv, SessionInv, ClosedHoldsNothing, Streaming, Steps, Idle, NoStream
<1> QED
  BY <1>1, <1>2, <1>3, <1>4, <1>5, <1>6, <1>7, <1>8, <1>9

\* A message is ignored in FAILED.
LEMMA IgnoredPreserves ==
    ASSUME IInv, Ignored
    PROVE  IInv'
<1> USE DEF IInv, Ignored, At, sessVars, histVars, Reply
<1>d. Durable' = Durable
  BY DEF Durable
<1>1. TypeOK'
  <2>1. busy' \in Handlers
    BY ReplyTyped DEF TypeOK, Results, Streams, Handlers
  <2>2. stream' \in Streams
    BY DEF TypeOK
  <2> QED
    BY <2>1, <2>2 DEF TypeOK, States, Stmts
<1>2. HandlerInv'
  BY <1>d DEF TypeOK, Handlers, Streams, HandlerInv, SessionInv, StatementInv, Streaming, Steps, States, Pulls, Idle, NoStream
<1>3. SessionInv'
  BY <1>d DEF TypeOK, Handlers, Streams, HandlerInv, SessionInv, StatementInv, Streaming, States, Stmts, Steps, Pulls, Idle, NoStream
<1>4. StatementInv'
  BY <1>d DEF TypeOK, Handlers, Streams, HandlerInv, SessionInv, StatementInv, Streaming, Stmts, Steps, Idle, NoStream
<1>5. ClientInv'
  BY <1>d DEF TypeOK, Handlers, Streams, HandlerInv, SessionInv, StatementInv, ClientInv, Streaming, Pulls, Steps, Stmts, Idle, NoStream
<1>6. FailedNeverDurable'
  BY <1>d DEF HandlerInv, StatementInv, FailedNeverDurable
<1>7. CommitIsItsOwn'
  BY <1>d DEF CommitIsItsOwn
<1>8. AckedIsDurable'
  BY <1>d DEF AckedIsDurable
<1>9. ClosedHoldsNothing'
  BY <1>d DEF TypeOK, Handlers, Streams, HandlerInv, SessionInv, ClosedHoldsNothing, Streaming, Steps, Idle, NoStream
<1> QED
  BY <1>1, <1>2, <1>3, <1>4, <1>5, <1>6, <1>7, <1>8, <1>9

\* A message that does not fit the state is refused.
LEMMA UnexpectedPreserves ==
    ASSUME IInv, Unexpected
    PROVE  IInv'
<1> USE DEF IInv, Unexpected, At, sessVars, histVars, Reply
<1>d. Durable' = Durable
  BY DEF Durable
<1>1. TypeOK'
  <2>1. busy' \in Handlers
    BY ReplyTyped DEF TypeOK, Results, Streams, Handlers
  <2>2. stream' \in Streams
    BY DEF TypeOK
  <2> QED
    BY <2>1, <2>2 DEF TypeOK, States, Stmts
<1>2. HandlerInv'
  BY <1>d DEF TypeOK, Handlers, Streams, HandlerInv, SessionInv, StatementInv, Streaming, Steps, States, Pulls, Idle, NoStream
<1>3. SessionInv'
  BY <1>d DEF TypeOK, Handlers, Streams, HandlerInv, SessionInv, StatementInv, Streaming, States, Stmts, Steps, Pulls, Idle, NoStream
<1>4. StatementInv'
  BY <1>d DEF TypeOK, Handlers, Streams, HandlerInv, SessionInv, StatementInv, Streaming, Stmts, Steps, Idle, NoStream
<1>5. ClientInv'
  BY <1>d DEF TypeOK, Handlers, Streams, HandlerInv, SessionInv, StatementInv, ClientInv, Streaming, Pulls, Steps, Stmts, Idle, NoStream
<1>6. FailedNeverDurable'
  BY <1>d DEF HandlerInv, StatementInv, FailedNeverDurable
<1>7. CommitIsItsOwn'
  BY <1>d DEF CommitIsItsOwn
<1>8. AckedIsDurable'
  BY <1>d DEF AckedIsDurable
<1>9. ClosedHoldsNothing'
  BY <1>d DEF TypeOK, Handlers, Streams, HandlerInv, SessionInv, ClosedHoldsNothing, Streaming, Steps, Idle, NoStream
<1> QED
  BY <1>1, <1>2, <1>3, <1>4, <1>5, <1>6, <1>7, <1>8, <1>9

\* HELLO is accepted or refused.
LEMMA HelloPreserves ==
    ASSUME IInv, Hello
    PROVE  IInv'
<1> USE DEF IInv, Hello, At, sessVars, histVars, Reply
<1>d. Durable' = Durable
  BY DEF Durable
<1>1. TypeOK'
  <2>1. busy' \in Handlers
    BY ReplyTyped DEF TypeOK, Results, Streams, Handlers
  <2>2. stream' \in Streams
    BY DEF TypeOK
  <2> QED
    BY <2>1, <2>2 DEF TypeOK, States, Stmts
<1>2. HandlerInv'
  BY <1>d DEF TypeOK, Handlers, Streams, HandlerInv, SessionInv, StatementInv, Streaming, Steps, States, Pulls, Idle, NoStream
<1>3. SessionInv'
  BY <1>d DEF TypeOK, Handlers, Streams, HandlerInv, SessionInv, StatementInv, Streaming, States, Stmts, Steps, Pulls, Idle, NoStream
<1>4. StatementInv'
  BY <1>d DEF TypeOK, Handlers, Streams, HandlerInv, SessionInv, StatementInv, Streaming, Stmts, Steps, Idle, NoStream
<1>5. ClientInv'
  BY <1>d DEF TypeOK, Handlers, Streams, HandlerInv, SessionInv, StatementInv, ClientInv, Streaming, Pulls, Steps, Stmts, Idle, NoStream
<1>6. FailedNeverDurable'
  BY <1>d DEF HandlerInv, StatementInv, FailedNeverDurable
<1>7. CommitIsItsOwn'
  BY <1>d DEF CommitIsItsOwn
<1>8. AckedIsDurable'
  BY <1>d DEF AckedIsDurable
<1>9. ClosedHoldsNothing'
  BY <1>d DEF TypeOK, Handlers, Streams, HandlerInv, SessionInv, ClosedHoldsNothing, Streaming, Steps, Idle, NoStream
<1> QED
  BY <1>1, <1>2, <1>3, <1>4, <1>5, <1>6, <1>7, <1>8, <1>9

\* The messages that leave the session alone.
LEMMA OtherPreserves ==
    ASSUME IInv, Other
    PROVE  IInv'
<1> USE DEF IInv, Other, At, sessVars, histVars, Reply
<1>d. Durable' = Durable
  BY DEF Durable
<1>1. TypeOK'
  <2>1. busy' \in Handlers
    BY ReplyTyped DEF TypeOK, Results, Streams, Handlers
  <2>2. stream' \in Streams
    BY DEF TypeOK
  <2> QED
    BY <2>1, <2>2 DEF TypeOK, States, Stmts
<1>2. HandlerInv'
  BY <1>d DEF TypeOK, Handlers, Streams, HandlerInv, SessionInv, StatementInv, Streaming, Steps, States, Pulls, Idle, NoStream
<1>3. SessionInv'
  BY <1>d DEF TypeOK, Handlers, Streams, HandlerInv, SessionInv, StatementInv, Streaming, States, Stmts, Steps, Pulls, Idle, NoStream
<1>4. StatementInv'
  BY <1>d DEF TypeOK, Handlers, Streams, HandlerInv, SessionInv, StatementInv, Streaming, Stmts, Steps, Idle, NoStream
<1>5. ClientInv'
  BY <1>d DEF TypeOK, Handlers, Streams, HandlerInv, SessionInv, StatementInv, ClientInv, Streaming, Pulls, Steps, Stmts, Idle, NoStream
<1>6. FailedNeverDurable'
  BY <1>d DEF HandlerInv, StatementInv, FailedNeverDurable
<1>7. CommitIsItsOwn'
  BY <1>d DEF CommitIsItsOwn
<1>8. AckedIsDurable'
  BY <1>d DEF AckedIsDurable
<1>9. ClosedHoldsNothing'
  <2>1. busy'.step \in {"reply", "commit"}
    BY DEF TypeOK, Handlers
  <2> QED
    BY <2>1 DEF ClosedHoldsNothing, Idle
<1> QED
  BY <1>1, <1>2, <1>3, <1>4, <1>5, <1>6, <1>7, <1>8, <1>9

\* RUN takes a session when in an explicit transaction.
LEMMA RunStartPreserves ==
    ASSUME IInv, RunStart
    PROVE  IInv'
<1> USE DEF IInv, RunStart, At, sessVars, histVars, Goto
<1>d. Durable' = Durable
  BY DEF Durable
<1>1. TypeOK'
  <2>1. busy' \in Handlers
    BY GotoTyped DEF Steps
  <2>2. stream' \in Streams
    BY DEF TypeOK
  <2> QED
    BY <2>1, <2>2 DEF TypeOK, States, Stmts
<1>2. HandlerInv'
  BY <1>d DEF TypeOK, Handlers, Streams, HandlerInv, SessionInv, StatementInv, Streaming, Steps, States, Pulls, Idle, NoStream
<1>3. SessionInv'
  BY <1>d DEF TypeOK, Handlers, Streams, HandlerInv, SessionInv, StatementInv, Streaming, States, Stmts, Steps, Pulls, Idle, NoStream
<1>4. StatementInv'
  BY <1>d DEF TypeOK, Handlers, Streams, HandlerInv, SessionInv, StatementInv, Streaming, Stmts, Steps, Idle, NoStream
<1>5. ClientInv'
  BY <1>d DEF TypeOK, Handlers, Streams, HandlerInv, SessionInv, StatementInv, ClientInv, Streaming, Pulls, Steps, Stmts, Idle, NoStream
<1>6. FailedNeverDurable'
  BY <1>d DEF HandlerInv, StatementInv, FailedNeverDurable
<1>7. CommitIsItsOwn'
  BY <1>d DEF CommitIsItsOwn
<1>8. AckedIsDurable'
  BY <1>d DEF AckedIsDurable
<1>9. ClosedHoldsNothing'
  BY <1>d DEF TypeOK, Handlers, Streams, HandlerInv, SessionInv, ClosedHoldsNothing, Streaming, Steps, Idle, NoStream
<1> QED
  BY <1>1, <1>2, <1>3, <1>4, <1>5, <1>6, <1>7, <1>8, <1>9

\* RUN's parameters cannot be converted.
LEMMA RunRefusedPreserves ==
    ASSUME IInv, RunRefused
    PROVE  IInv'
<1> USE DEF IInv, RunRefused, At, sessVars, histVars, Reply
<1>d. Durable' = Durable
  BY DEF Durable
<1>1. TypeOK'
  <2>1. busy' \in Handlers
    BY ReplyTyped DEF TypeOK, Results, Streams, Handlers
  <2>2. stream' \in Streams
    BY DEF TypeOK
  <2> QED
    BY <2>1, <2>2 DEF TypeOK, States, Stmts
<1>2. HandlerInv'
  BY <1>d DEF TypeOK, Handlers, Streams, HandlerInv, SessionInv, StatementInv, Streaming, Steps, States, Pulls, Idle, NoStream
<1>3. SessionInv'
  BY <1>d DEF TypeOK, Handlers, Streams, HandlerInv, SessionInv, StatementInv, Streaming, States, Stmts, Steps, Pulls, Idle, NoStream
<1>4. StatementInv'
  BY <1>d DEF TypeOK, Handlers, Streams, HandlerInv, SessionInv, StatementInv, Streaming, Stmts, Steps, Idle, NoStream
<1>5. ClientInv'
  BY <1>d DEF TypeOK, Handlers, Streams, HandlerInv, SessionInv, StatementInv, ClientInv, Streaming, Pulls, Steps, Stmts, Idle, NoStream
<1>6. FailedNeverDurable'
  BY <1>d DEF HandlerInv, StatementInv, FailedNeverDurable
<1>7. CommitIsItsOwn'
  BY <1>d DEF CommitIsItsOwn
<1>8. AckedIsDurable'
  BY <1>d DEF AckedIsDurable
<1>9. ClosedHoldsNothing'
  BY <1>d DEF TypeOK, Handlers, Streams, HandlerInv, SessionInv, ClosedHoldsNothing, Streaming, Steps, Idle, NoStream
<1> QED
  BY <1>1, <1>2, <1>3, <1>4, <1>5, <1>6, <1>7, <1>8, <1>9

\* RUN is compiled: a new statement gets the next number.
LEMMA RunExecutePreserves ==
    ASSUME IInv, RunExecute
    PROVE  IInv'
<1> USE DEF IInv, RunExecute, At, sessVars, histVars, Reply
<1>d. Durable' = Durable
  BY DEF Durable
<1>1. TypeOK'
  <2>0. runs + 1 \in Nat
    BY DEF TypeOK
  <2>1. busy' \in Handlers
    BY <2>0, ReplyTyped DEF Results, TypeOK
  <2>2. stream' \in Streams
    BY DEF TypeOK, Streams
  <2> QED
    BY <2>1, <2>2 DEF TypeOK, States, Stmts
<1>2. HandlerInv'
  BY <1>d DEF TypeOK, Handlers, Streams, HandlerInv, SessionInv, StatementInv, Streaming, Steps, States, Pulls, Idle, NoStream
<1>3. SessionInv'
  BY <1>d DEF TypeOK, Handlers, Streams, HandlerInv, SessionInv, StatementInv, Streaming, States, Stmts, Steps, Pulls, Idle, NoStream
<1>4. StatementInv'
  <2>1. /\ stream'.id = runs + 1 /\ stream'.auto = ~open
        /\ runs' = runs + 1 /\ runs \in Nat /\ begun \in Nat /\ opened \in Nat
    BY DEF TypeOK
  <2>2. /\ \A s \in work : opened < s /\ (begun < s \/ parked) /\ s <= runs' /\ s \notin Durable
        /\ \A s \in failed \cup Durable : s <= runs'
    <3>1. work \cup failed \subseteq Nat /\ Durable \subseteq Nat
      BY DEF TypeOK, Transactions, Durable, Stmts
    <3> QED
      BY <2>1, <3>1 DEF StatementInv
  <2>3. stream'.id \notin failed \cup Durable
    <3>1. \A s \in failed \cup Durable : s <= runs
      BY DEF StatementInv
    <3> QED
      BY <2>1, <3>1
  <2>4. work \cap failed = {}
    BY DEF HandlerInv, StatementInv
  <2> QED
    BY <1>d, <2>1, <2>2, <2>3, <2>4 DEF StatementInv
<1>5. ClientInv'
  BY <1>d DEF TypeOK, Handlers, Streams, HandlerInv, SessionInv, StatementInv, ClientInv, Streaming, Pulls, Steps, Stmts, Idle, NoStream
<1>6. FailedNeverDurable'
  BY <1>d DEF HandlerInv, StatementInv, FailedNeverDurable
<1>7. CommitIsItsOwn'
  BY <1>d DEF CommitIsItsOwn
<1>8. AckedIsDurable'
  BY <1>d DEF AckedIsDurable
<1>9. ClosedHoldsNothing'
  BY <1>d DEF TypeOK, Handlers, Streams, HandlerInv, SessionInv, ClosedHoldsNothing, Streaming, Steps, Idle, NoStream
<1> QED
  BY <1>1, <1>2, <1>3, <1>4, <1>5, <1>6, <1>7, <1>8, <1>9

\* RUN fails and ends the explicit transaction it ran in.
LEMMA RunFailsPreserves ==
    ASSUME IInv, RunFails
    PROVE  IInv'
<1> USE DEF IInv, RunFails, At, sessVars, histVars, Reply
<1>d. Durable' = Durable
  BY DEF Durable
<1>1. TypeOK'
  <2>1. busy' \in Handlers
    BY ReplyTyped DEF TypeOK, Results, Streams, Handlers
  <2>2. stream' \in Streams
    BY DEF TypeOK
  <2> QED
    BY <2>1, <2>2 DEF TypeOK, States, Stmts
<1>2. HandlerInv'
  BY <1>d DEF TypeOK, Handlers, Streams, HandlerInv, SessionInv, StatementInv, Streaming, Steps, States, Pulls, Idle, NoStream
<1>3. SessionInv'
  BY <1>d DEF TypeOK, Handlers, Streams, HandlerInv, SessionInv, StatementInv, Streaming, States, Stmts, Steps, Pulls, Idle, NoStream
<1>4. StatementInv'
  BY <1>d DEF TypeOK, Handlers, Streams, HandlerInv, SessionInv, StatementInv, Streaming, Stmts, Steps, Idle, NoStream
<1>5. ClientInv'
  BY <1>d DEF TypeOK, Handlers, Streams, HandlerInv, SessionInv, StatementInv, ClientInv, Streaming, Pulls, Steps, Stmts, Idle, NoStream
<1>6. FailedNeverDurable'
  BY <1>d DEF HandlerInv, StatementInv, FailedNeverDurable
<1>7. CommitIsItsOwn'
  BY <1>d DEF CommitIsItsOwn
<1>8. AckedIsDurable'
  BY <1>d DEF AckedIsDurable
<1>9. ClosedHoldsNothing'
  BY <1>d DEF TypeOK, Handlers, Streams, HandlerInv, SessionInv, ClosedHoldsNothing, Streaming, Steps, Idle, NoStream
<1> QED
  BY <1>1, <1>2, <1>3, <1>4, <1>5, <1>6, <1>7, <1>8, <1>9

\* PULL without a stream.
LEMMA PullNothingPreserves ==
    ASSUME IInv, PullNothing
    PROVE  IInv'
<1> USE DEF IInv, PullNothing, At, sessVars, histVars, Reply, AfterStream
<1>d. Durable' = Durable
  BY DEF Durable
<1>1. TypeOK'
  <2>1. busy' \in Handlers
    BY ReplyTyped DEF TypeOK, Results, Streams, Handlers
  <2>2. stream' \in Streams
    BY DEF TypeOK
  <2> QED
    BY <2>1, <2>2 DEF TypeOK, States, Stmts
<1>2. HandlerInv'
  BY <1>d DEF TypeOK, Handlers, Streams, HandlerInv, SessionInv, StatementInv, Streaming, Steps, States, Pulls, Idle, NoStream
<1>3. SessionInv'
  BY <1>d DEF TypeOK, Handlers, Streams, HandlerInv, SessionInv, StatementInv, Streaming, States, Stmts, Steps, Pulls, Idle, NoStream
<1>4. StatementInv'
  BY <1>d DEF TypeOK, Handlers, Streams, HandlerInv, SessionInv, StatementInv, Streaming, Stmts, Steps, Idle, NoStream
<1>5. ClientInv'
  BY <1>d DEF TypeOK, Handlers, Streams, HandlerInv, SessionInv, StatementInv, ClientInv, Streaming, Pulls, Steps, Stmts, Idle, NoStream
<1>6. FailedNeverDurable'
  BY <1>d DEF HandlerInv, StatementInv, FailedNeverDurable
<1>7. CommitIsItsOwn'
  BY <1>d DEF CommitIsItsOwn
<1>8. AckedIsDurable'
  BY <1>d DEF AckedIsDurable
<1>9. ClosedHoldsNothing'
  BY <1>d DEF TypeOK, Handlers, Streams, HandlerInv, SessionInv, ClosedHoldsNothing, Streaming, Steps, Idle, NoStream
<1> QED
  BY <1>1, <1>2, <1>3, <1>4, <1>5, <1>6, <1>7, <1>8, <1>9

\* PULL begins to drive the statement.
LEMMA PullStartPreserves ==
    ASSUME IInv, PullStart
    PROVE  IInv'
<1> USE DEF IInv, PullStart, At, sessVars, histVars
<1>d. Durable' = Durable
  BY DEF Durable
<1>1. TypeOK'
  <2>1. busy' \in Handlers
    BY DEF TypeOK, Handlers, Streams, Steps
  <2>2. stream' \in Streams
    BY DEF TypeOK
  <2> QED
    BY <2>1, <2>2 DEF TypeOK, States, Stmts
<1>2. HandlerInv'
  BY <1>d DEF TypeOK, Handlers, Streams, HandlerInv, SessionInv, StatementInv, Streaming, Steps, States, Pulls, Idle, NoStream
<1>3. SessionInv'
  BY <1>d DEF TypeOK, Handlers, Streams, HandlerInv, SessionInv, StatementInv, Streaming, States, Stmts, Steps, Pulls, Idle, NoStream
<1>4. StatementInv'
  BY <1>d DEF TypeOK, Handlers, Streams, HandlerInv, SessionInv, StatementInv, Streaming, Stmts, Steps, Idle, NoStream
<1>5. ClientInv'
  BY <1>d DEF TypeOK, Handlers, Streams, HandlerInv, SessionInv, StatementInv, ClientInv, Streaming, Pulls, Steps, Stmts, Idle, NoStream
<1>6. FailedNeverDurable'
  BY <1>d DEF HandlerInv, StatementInv, FailedNeverDurable
<1>7. CommitIsItsOwn'
  BY <1>d DEF CommitIsItsOwn
<1>8. AckedIsDurable'
  BY <1>d DEF AckedIsDurable
<1>9. ClosedHoldsNothing'
  BY <1>d DEF TypeOK, Handlers, Streams, HandlerInv, SessionInv, ClosedHoldsNothing, Streaming, Steps, Idle, NoStream
<1> QED
  BY <1>1, <1>2, <1>3, <1>4, <1>5, <1>6, <1>7, <1>8, <1>9

\* One row, and the writes behind it.
LEMMA PullRowPreserves ==
    ASSUME IInv, PullRow
    PROVE  IInv'
<1> USE DEF IInv, PullRow, At, sessVars, histVars, Wrote
<1>d. Durable' = Durable
  BY DEF Durable
<1>1. TypeOK'
  <2>1. busy' \in Handlers
    BY DEF TypeOK, Handlers
  <2>2. stream' \in Streams
    BY DEF TypeOK, Streams
  <2>3. stream.id \in Stmts
    BY DEF TypeOK, Streams, SessionInv, HandlerInv, Stmts, Pulls
  <2> QED
    BY <2>1, <2>2, <2>3 DEF TypeOK, States
<1>2. HandlerInv'
  BY <1>d DEF TypeOK, Handlers, Streams, HandlerInv, SessionInv, StatementInv, Streaming, Steps, States, Pulls, Idle, NoStream
<1>3. SessionInv'
  BY <1>d DEF TypeOK, Handlers, Streams, HandlerInv, SessionInv, StatementInv, Streaming, States, Stmts, Steps, Pulls, Idle, NoStream
<1>4. StatementInv'
  BY <1>d DEF TypeOK, Handlers, Streams, HandlerInv, SessionInv, StatementInv, Streaming, Stmts, Steps, Idle, NoStream
<1>5. ClientInv'
  BY <1>d DEF TypeOK, Handlers, Streams, HandlerInv, SessionInv, StatementInv, ClientInv, Streaming, Pulls, Steps, Stmts, Idle, NoStream
<1>6. FailedNeverDurable'
  BY <1>d DEF HandlerInv, StatementInv, FailedNeverDurable
<1>7. CommitIsItsOwn'
  BY <1>d DEF CommitIsItsOwn
<1>8. AckedIsDurable'
  BY <1>d DEF AckedIsDurable
<1>9. ClosedHoldsNothing'
  BY <1>d DEF TypeOK, Handlers, Streams, HandlerInv, SessionInv, ClosedHoldsNothing, Streaming, Steps, Idle, NoStream
<1> QED
  BY <1>1, <1>2, <1>3, <1>4, <1>5, <1>6, <1>7, <1>8, <1>9

\* The last of the statement.
LEMMA PullEndPreserves ==
    ASSUME IInv, PullEnd
    PROVE  IInv'
<1> USE DEF IInv, PullEnd, At, sessVars, histVars, Wrote, Goto
<1>d. Durable' = Durable
  BY DEF Durable
<1>1. TypeOK'
  <2>1. busy' \in Handlers
    BY GotoTyped DEF Steps
  <2>2. stream' \in Streams
    BY DEF TypeOK
  <2>3. stream.id \in Stmts
    BY DEF TypeOK, Streams, SessionInv, HandlerInv, Stmts, Pulls
  <2> QED
    BY <2>1, <2>2, <2>3 DEF TypeOK, States
<1>2. HandlerInv'
  BY <1>d DEF TypeOK, Handlers, Streams, HandlerInv, SessionInv, StatementInv, Streaming, Steps, States, Pulls, Idle, NoStream
<1>3. SessionInv'
  BY <1>d DEF TypeOK, Handlers, Streams, HandlerInv, SessionInv, StatementInv, Streaming, States, Stmts, Steps, Pulls, Idle, NoStream
<1>4. StatementInv'
  BY <1>d DEF TypeOK, Handlers, Streams, HandlerInv, SessionInv, StatementInv, Streaming, Stmts, Steps, Idle, NoStream
<1>5. ClientInv'
  BY <1>d DEF TypeOK, Handlers, Streams, HandlerInv, SessionInv, StatementInv, ClientInv, Streaming, Pulls, Steps, Stmts, Idle, NoStream
<1>6. FailedNeverDurable'
  BY <1>d DEF HandlerInv, StatementInv, FailedNeverDurable
<1>7. CommitIsItsOwn'
  BY <1>d DEF CommitIsItsOwn
<1>8. AckedIsDurable'
  BY <1>d DEF AckedIsDurable
<1>9. ClosedHoldsNothing'
  BY <1>d DEF TypeOK, Handlers, Streams, HandlerInv, SessionInv, ClosedHoldsNothing, Streaming, Steps, Idle, NoStream
<1> QED
  BY <1>1, <1>2, <1>3, <1>4, <1>5, <1>6, <1>7, <1>8, <1>9

\* The page is full or the statement is cancelled.
LEMMA PullStopPreserves ==
    ASSUME IInv, PullStop
    PROVE  IInv'
<1> USE DEF IInv, PullStop, At, sessVars, histVars, Goto
<1>d. Durable' = Durable
  BY DEF Durable
<1>1. TypeOK'
  <2>1. busy' \in Handlers
    BY GotoTyped DEF Steps
  <2>2. stream' \in Streams
    BY DEF TypeOK
  <2> QED
    BY <2>1, <2>2 DEF TypeOK, States, Stmts
<1>2. HandlerInv'
  BY <1>d DEF TypeOK, Handlers, Streams, HandlerInv, SessionInv, StatementInv, Streaming, Steps, States, Pulls, Idle, NoStream
<1>3. SessionInv'
  BY <1>d DEF TypeOK, Handlers, Streams, HandlerInv, SessionInv, StatementInv, Streaming, States, Stmts, Steps, Pulls, Idle, NoStream
<1>4. StatementInv'
  BY <1>d DEF TypeOK, Handlers, Streams, HandlerInv, SessionInv, StatementInv, Streaming, Stmts, Steps, Idle, NoStream
<1>5. ClientInv'
  BY <1>d DEF TypeOK, Handlers, Streams, HandlerInv, SessionInv, StatementInv, ClientInv, Streaming, Pulls, Steps, Stmts, Idle, NoStream
<1>6. FailedNeverDurable'
  BY <1>d DEF HandlerInv, StatementInv, FailedNeverDurable
<1>7. CommitIsItsOwn'
  BY <1>d DEF CommitIsItsOwn
<1>8. AckedIsDurable'
  BY <1>d DEF AckedIsDurable
<1>9. ClosedHoldsNothing'
  BY <1>d DEF TypeOK, Handlers, Streams, HandlerInv, SessionInv, ClosedHoldsNothing, Streaming, Steps, Idle, NoStream
<1> QED
  BY <1>1, <1>2, <1>3, <1>4, <1>5, <1>6, <1>7, <1>8, <1>9

\* The statement throws.
LEMMA PullFailsPreserves ==
    ASSUME IInv, PullFails
    PROVE  IInv'
<1> USE DEF IInv, PullFails, At, sessVars, histVars, Wrote, Reply, DropStream
<1>d. Durable' = Durable
  BY DEF Durable
<1>1. TypeOK'
  <2>1. busy' \in Handlers
    BY ReplyTyped DEF TypeOK, Results, Streams, Handlers
  <2>2. stream' \in Streams
    BY IdleTyped DEF TypeOK
  <2>3. stream.id \in Stmts
    BY DEF TypeOK, Streams, SessionInv, HandlerInv, Stmts, Pulls
  <2> QED
    BY <2>1, <2>2, <2>3 DEF TypeOK, States
<1>2. HandlerInv'
  BY <1>d DEF TypeOK, Handlers, Streams, HandlerInv, SessionInv, StatementInv, Streaming, Steps, States, Pulls, Idle, NoStream
<1>3. SessionInv'
  BY <1>d DEF TypeOK, Handlers, Streams, HandlerInv, SessionInv, StatementInv, Streaming, States, Stmts, Steps, Pulls, Idle, NoStream
<1>4. StatementInv'
  BY <1>d DEF TypeOK, Handlers, Streams, HandlerInv, SessionInv, StatementInv, Streaming, Stmts, Steps, Idle, NoStream
<1>5. ClientInv'
  BY <1>d DEF TypeOK, Handlers, Streams, HandlerInv, SessionInv, StatementInv, ClientInv, Streaming, Pulls, Steps, Stmts, Idle, NoStream
<1>6. FailedNeverDurable'
  BY <1>d DEF HandlerInv, StatementInv, FailedNeverDurable
<1>7. CommitIsItsOwn'
  BY <1>d DEF CommitIsItsOwn
<1>8. AckedIsDurable'
  BY <1>d DEF AckedIsDurable
<1>9. ClosedHoldsNothing'
  BY <1>d DEF TypeOK, Handlers, Streams, HandlerInv, SessionInv, ClosedHoldsNothing, Streaming, Steps, Idle, NoStream
<1> QED
  BY <1>1, <1>2, <1>3, <1>4, <1>5, <1>6, <1>7, <1>8, <1>9

\* The cancelled statement is rolled back with its transaction.
LEMMA PullAbortPreserves ==
    ASSUME IInv, PullAbort
    PROVE  IInv'
<1> USE DEF IInv, PullAbort, At, sessVars, histVars, Reply, AbandonAll, DropStream
<1>d. Durable' = Durable
  BY DEF Durable
<1>1. TypeOK'
  <2>1. busy' \in Handlers
    BY ReplyTyped DEF TypeOK, Results, Streams, Handlers
  <2>2. stream' \in Streams
    BY IdleTyped DEF TypeOK
  <2>3. stream.id \in Stmts
    BY DEF TypeOK, Streams, SessionInv, HandlerInv, Stmts, Pulls
  <2> QED
    BY <2>1, <2>2, <2>3 DEF TypeOK, States
<1>2. HandlerInv'
  BY <1>d DEF TypeOK, Handlers, Streams, HandlerInv, SessionInv, StatementInv, Streaming, Steps, States, Pulls, Idle, NoStream
<1>3. SessionInv'
  BY <1>d DEF TypeOK, Handlers, Streams, HandlerInv, SessionInv, StatementInv, Streaming, States, Stmts, Steps, Pulls, Idle, NoStream
<1>4. StatementInv'
  BY <1>d DEF TypeOK, Handlers, Streams, HandlerInv, SessionInv, StatementInv, Streaming, Stmts, Steps, Idle, NoStream
<1>5. ClientInv'
  BY <1>d DEF TypeOK, Handlers, Streams, HandlerInv, SessionInv, StatementInv, ClientInv, Streaming, Pulls, Steps, Stmts, Idle, NoStream
<1>6. FailedNeverDurable'
  BY <1>d DEF HandlerInv, StatementInv, FailedNeverDurable
<1>7. CommitIsItsOwn'
  BY <1>d DEF CommitIsItsOwn
<1>8. AckedIsDurable'
  BY <1>d DEF AckedIsDurable
<1>9. ClosedHoldsNothing'
  BY <1>d DEF TypeOK, Handlers, Streams, HandlerInv, SessionInv, ClosedHoldsNothing, Streaming, Steps, Idle, NoStream
<1> QED
  BY <1>1, <1>2, <1>3, <1>4, <1>5, <1>6, <1>7, <1>8, <1>9

\* The page is answered, the stream stays.
LEMMA PullMorePreserves ==
    ASSUME IInv, PullMore
    PROVE  IInv'
<1> USE DEF IInv, PullMore, At, sessVars, histVars, Reply
<1>d. Durable' = Durable
  BY DEF Durable
<1>1. TypeOK'
  <2>1. busy' \in Handlers
    BY ReplyTyped DEF TypeOK, Results, Streams, Handlers
  <2>2. stream' \in Streams
    BY DEF TypeOK
  <2> QED
    BY <2>1, <2>2 DEF TypeOK, States, Stmts
<1>2. HandlerInv'
  BY <1>d DEF TypeOK, Handlers, Streams, HandlerInv, SessionInv, StatementInv, Streaming, Steps, States, Pulls, Idle, NoStream
<1>3. SessionInv'
  BY <1>d DEF TypeOK, Handlers, Streams, HandlerInv, SessionInv, StatementInv, Streaming, States, Stmts, Steps, Pulls, Idle, NoStream
<1>4. StatementInv'
  BY <1>d DEF TypeOK, Handlers, Streams, HandlerInv, SessionInv, StatementInv, Streaming, Stmts, Steps, Idle, NoStream
<1>5. ClientInv'
  BY <1>d DEF TypeOK, Handlers, Streams, HandlerInv, SessionInv, StatementInv, ClientInv, Streaming, Pulls, Steps, Stmts, Idle, NoStream
<1>6. FailedNeverDurable'
  BY <1>d DEF HandlerInv, StatementInv, FailedNeverDurable
<1>7. CommitIsItsOwn'
  BY <1>d DEF CommitIsItsOwn
<1>8. AckedIsDurable'
  BY <1>d DEF AckedIsDurable
<1>9. ClosedHoldsNothing'
  BY <1>d DEF TypeOK, Handlers, Streams, HandlerInv, SessionInv, ClosedHoldsNothing, Streaming, Steps, Idle, NoStream
<1> QED
  BY <1>1, <1>2, <1>3, <1>4, <1>5, <1>6, <1>7, <1>8, <1>9

\* The statement is over; in auto-commit mode its commit is next.
LEMMA PullDonePreserves ==
    ASSUME IInv, PullDone
    PROVE  IInv'
<1> USE DEF IInv, PullDone, At, sessVars, histVars, Reply, Goto, DropStream, AfterStream
<1>d. Durable' = Durable
  BY DEF Durable
<1>1. TypeOK'
  <2>1. busy' \in Handlers
    BY ReplyTyped, GotoTyped DEF TypeOK, Results, Steps, Streams
  <2>2. stream' \in Streams
    BY IdleTyped
  <2> QED
    BY <2>1, <2>2 DEF TypeOK, States
<1>2. HandlerInv'
  <2>0. /\ busy.stmt = stream.id /\ stream # NoStream /\ stream.id \in 1 .. runs
        /\ state \in Streaming /\ stream.id \notin failed \cup Durable /\ busy.kind \in Pulls
    BY DEF TypeOK, Streams, HandlerInv, SessionInv, StatementInv
  <2>1. CASE ~inTxn /\ stream.auto
    <3>1. /\ busy'.step = "commit" /\ busy'.kind = busy.kind /\ busy'.stmt = busy.stmt
          /\ UNCHANGED <<state, inTxn, runs, failed, queue>> /\ stream' = NoStream
      BY <2>1 DEF TypeOK, Handlers
    <3> QED
      BY <2>0, <2>1, <3>1, <1>d DEF HandlerInv
  <2>2. CASE ~(~inTxn /\ stream.auto)
    <3>1. busy'.step = "reply" /\ queue' = queue
      BY <2>2 DEF TypeOK, Handlers
    <3> QED
      BY <3>1, <1>d DEF HandlerInv
  <2> QED
    BY <2>1, <2>2
<1>3. SessionInv'
  BY <1>d DEF TypeOK, Handlers, Streams, HandlerInv, SessionInv, StatementInv, Streaming, States, Stmts, Steps, Pulls, Idle, NoStream
<1>4. StatementInv'
  BY <1>d DEF TypeOK, Handlers, Streams, HandlerInv, SessionInv, StatementInv, Streaming, Stmts, Steps, Idle, NoStream
<1>5. ClientInv'
  <2>1. /\ busy.stmt = stream.id /\ stream # NoStream /\ busy.kind \in Pulls
        /\ ~stream.auto => stream.id \in work
        /\ stream.auto = ~open /\ open = inTxn
    BY DEF HandlerInv, SessionInv
  <2>2. busy'.kind \in Pulls /\ busy.step # "reply" /\ UNCHANGED <<inTxn, work, client>>
    BY <2>1 DEF TypeOK, Handlers
  <2>3. inTxn => client.txn /\ client.done \subseteq work
    BY <2>2 DEF ClientInv
  <2>4. busy'.step = "reply" => inTxn /\ busy'.stmt \in work
    BY <2>1 DEF TypeOK, Handlers
  <2> QED
    BY <2>2, <2>3, <2>4, <1>d DEF ClientInv, Pulls
<1>6. FailedNeverDurable'
  BY <1>d DEF HandlerInv, StatementInv, FailedNeverDurable
<1>7. CommitIsItsOwn'
  BY <1>d DEF CommitIsItsOwn
<1>8. AckedIsDurable'
  BY <1>d DEF AckedIsDurable
<1>9. ClosedHoldsNothing'
  <2>1. busy'.step \in {"reply", "commit"}
    BY DEF TypeOK, Handlers
  <2> QED
    BY <2>1 DEF ClosedHoldsNothing, Idle
<1> QED
  BY <1>1, <1>2, <1>3, <1>4, <1>5, <1>6, <1>7, <1>8, <1>9

\* The auto-commit statement commits.
LEMMA PullCommitPreserves ==
    ASSUME IInv, PullCommit
    PROVE  IInv'
<1> USE DEF IInv, PullCommit, At, sessVars, histVars, Reply, AfterStream
<1> DEFINE c == [work |-> {busy.stmt}, since |-> busy.stmt, first |-> busy.stmt, parked |-> FALSE]
<1>d. Durable' = Durable \cup {busy.stmt}
  <2>1. Durable' = Durable \cup c.work
    BY DurableGrows
  <2> QED
    BY <2>1
<1>1. TypeOK'
  <2>1. busy' \in Handlers
    BY ReplyTyped DEF TypeOK, Results, Handlers
  <2>2. busy.stmt \in Stmts /\ busy.stmt \in Nat
    BY DEF TypeOK, HandlerInv, Handlers, Stmts
  <2>3. c \in Transactions
    BY <2>2 DEF Transactions
  <2> QED
    BY <2>1, <2>3 DEF TypeOK, States
<1>2. HandlerInv'
  BY <1>d DEF TypeOK, Handlers, Streams, HandlerInv, SessionInv, StatementInv, Streaming, Steps, States, Pulls, Idle, NoStream
<1>3. SessionInv'
  <2>1. state = "STREAMING" /\ ~inTxn /\ ~open /\ work = {} /\ state' = "READY" /\ stream = NoStream
    BY DEF TypeOK, HandlerInv, SessionInv, Streaming, Idle
  <2> QED
    BY <2>1 DEF SessionInv, NoStream
<1>4. StatementInv'
  <2>1. busy.stmt \in 1 .. runs /\ work = {} /\ stream = NoStream
    BY DEF TypeOK, HandlerInv, SessionInv, Streaming
  <2> QED
    BY <2>1, <1>d DEF TypeOK, StatementInv
<1>5. ClientInv'
  BY <1>d DEF TypeOK, Handlers, Streams, HandlerInv, SessionInv, StatementInv, ClientInv, Streaming, Pulls, Steps, Stmts, Idle, NoStream
<1>6. FailedNeverDurable'
  BY <1>d DEF HandlerInv, StatementInv, FailedNeverDurable
<1>7. CommitIsItsOwn'
  <2>1. c.work \cap Durable = {} /\ \A s \in c.work : s >= c.first /\ (s >= c.since \/ c.parked)
    BY DEF TypeOK, Handlers, HandlerInv
  <2> QED
    BY <2>1, CommitApart
<1>8. AckedIsDurable'
  BY <1>d DEF AckedIsDurable
<1>9. ClosedHoldsNothing'
  BY <1>d DEF TypeOK, Handlers, Streams, HandlerInv, SessionInv, ClosedHoldsNothing, Streaming, Steps, Idle, NoStream
<1> QED
  BY <1>1, <1>2, <1>3, <1>4, <1>5, <1>6, <1>7, <1>8, <1>9

\* The commit of an auto-commit statement fails.
LEMMA PullCommitFailsPreserves ==
    ASSUME IInv, PullCommitFails
    PROVE  IInv'
<1> USE DEF IInv, PullCommitFails, At, sessVars, histVars, Reply
<1>d. Durable' = Durable
  BY DEF Durable
<1>1. TypeOK'
  <2>1. busy' \in Handlers
    BY ReplyTyped DEF TypeOK, Results, Handlers
  <2>2. busy.stmt \in Stmts
    BY DEF TypeOK, HandlerInv, Handlers, Stmts
  <2> QED
    BY <2>1, <2>2 DEF TypeOK, States
<1>2. HandlerInv'
  BY <1>d DEF TypeOK, Handlers, Streams, HandlerInv, SessionInv, StatementInv, Streaming, Steps, States, Pulls, Idle, NoStream
<1>3. SessionInv'
  BY <1>d DEF TypeOK, Handlers, Streams, HandlerInv, SessionInv, StatementInv, Streaming, States, Stmts, Steps, Pulls, Idle, NoStream
<1>4. StatementInv'
  <2>1. busy.stmt \in 1 .. runs /\ work = {} /\ stream = NoStream
    BY DEF TypeOK, HandlerInv, SessionInv, Streaming
  <2> QED
    BY <2>1, <1>d DEF TypeOK, StatementInv
<1>5. ClientInv'
  BY <1>d DEF TypeOK, Handlers, Streams, HandlerInv, SessionInv, StatementInv, ClientInv, Streaming, Pulls, Steps, Stmts, Idle, NoStream
<1>6. FailedNeverDurable'
  BY <1>d DEF HandlerInv, StatementInv, FailedNeverDurable
<1>7. CommitIsItsOwn'
  BY <1>d DEF CommitIsItsOwn
<1>8. AckedIsDurable'
  BY <1>d DEF AckedIsDurable
<1>9. ClosedHoldsNothing'
  BY <1>d DEF TypeOK, Handlers, Streams, HandlerInv, SessionInv, ClosedHoldsNothing, Streaming, Steps, Idle, NoStream
<1> QED
  BY <1>1, <1>2, <1>3, <1>4, <1>5, <1>6, <1>7, <1>8, <1>9

\* DISCARD drops the stream.
LEMMA DiscardPreserves ==
    ASSUME IInv, Discard
    PROVE  IInv'
<1> USE DEF IInv, Discard, At, sessVars, histVars, Reply, DropStream, AfterStream
<1>d. Durable' = Durable
  BY DEF Durable
<1>1. TypeOK'
  <2>1. busy' \in Handlers
    BY ReplyTyped DEF TypeOK, Results, Streams, Handlers
  <2>2. stream' \in Streams
    BY IdleTyped DEF TypeOK
  <2> QED
    BY <2>1, <2>2 DEF TypeOK, States, Stmts
<1>2. HandlerInv'
  BY <1>d DEF TypeOK, Handlers, Streams, HandlerInv, SessionInv, StatementInv, Streaming, Steps, States, Pulls, Idle, NoStream
<1>3. SessionInv'
  BY <1>d DEF TypeOK, Handlers, Streams, HandlerInv, SessionInv, StatementInv, Streaming, States, Stmts, Steps, Pulls, Idle, NoStream
<1>4. StatementInv'
  BY <1>d DEF TypeOK, Handlers, Streams, HandlerInv, SessionInv, StatementInv, Streaming, Stmts, Steps, Idle, NoStream
<1>5. ClientInv'
  BY <1>d DEF TypeOK, Handlers, Streams, HandlerInv, SessionInv, StatementInv, ClientInv, Streaming, Pulls, Steps, Stmts, Idle, NoStream
<1>6. FailedNeverDurable'
  BY <1>d DEF HandlerInv, StatementInv, FailedNeverDurable
<1>7. CommitIsItsOwn'
  BY <1>d DEF CommitIsItsOwn
<1>8. AckedIsDurable'
  BY <1>d DEF AckedIsDurable
<1>9. ClosedHoldsNothing'
  BY <1>d DEF TypeOK, Handlers, Streams, HandlerInv, SessionInv, ClosedHoldsNothing, Streaming, Steps, Idle, NoStream
<1> QED
  BY <1>1, <1>2, <1>3, <1>4, <1>5, <1>6, <1>7, <1>8, <1>9

\* BEGIN.
LEMMA BeginPreserves ==
    ASSUME IInv, Begin
    PROVE  IInv'
<1> USE DEF IInv, Begin, At, sessVars, histVars, Reply
<1>d. Durable' = Durable
  BY DEF Durable
<1>1. TypeOK'
  <2>1. busy' \in Handlers
    BY ReplyTyped DEF TypeOK, Results, Streams, Handlers
  <2>2. stream' \in Streams
    BY DEF TypeOK
  <2> QED
    BY <2>1, <2>2 DEF TypeOK, States, Stmts
<1>2. HandlerInv'
  BY <1>d DEF TypeOK, Handlers, Streams, HandlerInv, SessionInv, StatementInv, Streaming, Steps, States, Pulls, Idle, NoStream
<1>3. SessionInv'
  BY <1>d DEF TypeOK, Handlers, Streams, HandlerInv, SessionInv, StatementInv, Streaming, States, Stmts, Steps, Pulls, Idle, NoStream
<1>4. StatementInv'
  BY <1>d DEF TypeOK, Handlers, Streams, HandlerInv, SessionInv, StatementInv, Streaming, Stmts, Steps, Idle, NoStream
<1>5. ClientInv'
  BY <1>d DEF TypeOK, Handlers, Streams, HandlerInv, SessionInv, StatementInv, ClientInv, Streaming, Pulls, Steps, Stmts, Idle, NoStream
<1>6. FailedNeverDurable'
  BY <1>d DEF HandlerInv, StatementInv, FailedNeverDurable
<1>7. CommitIsItsOwn'
  BY <1>d DEF CommitIsItsOwn
<1>8. AckedIsDurable'
  BY <1>d DEF AckedIsDurable
<1>9. ClosedHoldsNothing'
  BY <1>d DEF TypeOK, Handlers, Streams, HandlerInv, SessionInv, ClosedHoldsNothing, Streaming, Steps, Idle, NoStream
<1> QED
  BY <1>1, <1>2, <1>3, <1>4, <1>5, <1>6, <1>7, <1>8, <1>9

\* COMMIT makes the work of the explicit transaction durable.
LEMMA CommitPreserves ==
    ASSUME IInv, Commit
    PROVE  IInv'
<1> USE DEF IInv, Commit, At, sessVars, histVars, Reply
<1> DEFINE c == [work |-> work, since |-> begun + 1, first |-> opened + 1, parked |-> parked]
<1>d. Durable' = Durable \cup work
  <2>1. CASE open
    <3>1. Durable' = Durable \cup c.work
      BY <2>1, DurableGrows
    <3> QED
      BY <3>1
  <2>2. CASE ~open
    BY <2>2 DEF SessionInv, Durable
  <2> QED
    BY <2>1, <2>2 DEF TypeOK
<1>1. TypeOK'
  <2>1. busy' \in Handlers
    BY ReplyTyped DEF Results, TypeOK
  <2>2. c \in Transactions
    BY DEF Transactions, TypeOK
  <2> QED
    BY <2>1, <2>2 DEF TypeOK, States
<1>2. HandlerInv'
  BY <1>d DEF TypeOK, Handlers, Streams, HandlerInv, SessionInv, StatementInv, Streaming, Steps, States, Pulls, Idle, NoStream
<1>3. SessionInv'
  BY <1>d DEF TypeOK, Handlers, Streams, HandlerInv, SessionInv, StatementInv, Streaming, States, Stmts, Steps, Pulls, Idle, NoStream
<1>4. StatementInv'
  BY <1>d DEF TypeOK, Handlers, Streams, HandlerInv, SessionInv, StatementInv, Streaming, Stmts, Steps, Idle, NoStream
<1>5. ClientInv'
  <2>1. busy'.kind = "COMMIT" /\ ~inTxn' /\ client' = client
    BY DEF TypeOK, Handlers
  <2>2. client.done \subseteq Durable'
    <3>1. busy # Idle /\ inTxn
      BY DEF SessionInv, Idle
    <3>2. client.done \subseteq work
      BY <3>1 DEF ClientInv
    <3> QED
      BY <3>2, <1>d
  <2> QED
    BY <2>1, <2>2 DEF ClientInv, Pulls
<1>6. FailedNeverDurable'
  BY <1>d DEF HandlerInv, StatementInv, FailedNeverDurable
<1>7. CommitIsItsOwn'
  <2>1. CASE open
    <3>1. c.work \cap Durable = {} /\ \A s \in c.work : s >= c.first /\ (s >= c.since \/ c.parked)
      BY DEF TypeOK, StatementInv, Stmts
    <3> QED
      BY <2>1, <3>1, CommitApart
  <2>2. CASE ~open
    BY <2>2 DEF CommitIsItsOwn
  <2> QED
    BY <2>1, <2>2 DEF TypeOK
<1>8. AckedIsDurable'
  BY <1>d DEF AckedIsDurable
<1>9. ClosedHoldsNothing'
  BY <1>d DEF TypeOK, Handlers, Streams, HandlerInv, SessionInv, ClosedHoldsNothing, Streaming, Steps, Idle, NoStream
<1> QED
  BY <1>1, <1>2, <1>3, <1>4, <1>5, <1>6, <1>7, <1>8, <1>9

\* COMMIT fails and the transaction is gone.
LEMMA CommitFailsPreserves ==
    ASSUME IInv, CommitFails
    PROVE  IInv'
<1> USE DEF IInv, CommitFails, At, sessVars, histVars, Reply
<1>d. Durable' = Durable
  BY DEF Durable
<1>1. TypeOK'
  <2>1. busy' \in Handlers
    BY ReplyTyped DEF TypeOK, Results, Streams, Handlers
  <2>2. stream' \in Streams
    BY DEF TypeOK
  <2> QED
    BY <2>1, <2>2 DEF TypeOK, States, Stmts
<1>2. HandlerInv'
  BY <1>d DEF TypeOK, Handlers, Streams, HandlerInv, SessionInv, StatementInv, Streaming, Steps, States, Pulls, Idle, NoStream
<1>3. SessionInv'
  BY <1>d DEF TypeOK, Handlers, Streams, HandlerInv, SessionInv, StatementInv, Streaming, States, Stmts, Steps, Pulls, Idle, NoStream
<1>4. StatementInv'
  BY <1>d DEF TypeOK, Handlers, Streams, HandlerInv, SessionInv, StatementInv, Streaming, Stmts, Steps, Idle, NoStream
<1>5. ClientInv'
  BY <1>d DEF TypeOK, Handlers, Streams, HandlerInv, SessionInv, StatementInv, ClientInv, Streaming, Pulls, Steps, Stmts, Idle, NoStream
<1>6. FailedNeverDurable'
  BY <1>d DEF HandlerInv, StatementInv, FailedNeverDurable
<1>7. CommitIsItsOwn'
  BY <1>d DEF CommitIsItsOwn
<1>8. AckedIsDurable'
  BY <1>d DEF AckedIsDurable
<1>9. ClosedHoldsNothing'
  BY <1>d DEF TypeOK, Handlers, Streams, HandlerInv, SessionInv, ClosedHoldsNothing, Streaming, Steps, Idle, NoStream
<1> QED
  BY <1>1, <1>2, <1>3, <1>4, <1>5, <1>6, <1>7, <1>8, <1>9

\* ROLLBACK.
LEMMA RollbackPreserves ==
    ASSUME IInv, Rollback
    PROVE  IInv'
<1> USE DEF IInv, Rollback, At, sessVars, histVars, Reply
<1>d. Durable' = Durable
  BY DEF Durable
<1>1. TypeOK'
  <2>1. busy' \in Handlers
    BY ReplyTyped DEF TypeOK, Results, Streams, Handlers
  <2>2. stream' \in Streams
    BY DEF TypeOK
  <2> QED
    BY <2>1, <2>2 DEF TypeOK, States, Stmts
<1>2. HandlerInv'
  BY <1>d DEF TypeOK, Handlers, Streams, HandlerInv, SessionInv, StatementInv, Streaming, Steps, States, Pulls, Idle, NoStream
<1>3. SessionInv'
  BY <1>d DEF TypeOK, Handlers, Streams, HandlerInv, SessionInv, StatementInv, Streaming, States, Stmts, Steps, Pulls, Idle, NoStream
<1>4. StatementInv'
  BY <1>d DEF TypeOK, Handlers, Streams, HandlerInv, SessionInv, StatementInv, Streaming, Stmts, Steps, Idle, NoStream
<1>5. ClientInv'
  BY <1>d DEF TypeOK, Handlers, Streams, HandlerInv, SessionInv, StatementInv, ClientInv, Streaming, Pulls, Steps, Stmts, Idle, NoStream
<1>6. FailedNeverDurable'
  BY <1>d DEF HandlerInv, StatementInv, FailedNeverDurable
<1>7. CommitIsItsOwn'
  BY <1>d DEF CommitIsItsOwn
<1>8. AckedIsDurable'
  BY <1>d DEF AckedIsDurable
<1>9. ClosedHoldsNothing'
  BY <1>d DEF TypeOK, Handlers, Streams, HandlerInv, SessionInv, ClosedHoldsNothing, Streaming, Steps, Idle, NoStream
<1> QED
  BY <1>1, <1>2, <1>3, <1>4, <1>5, <1>6, <1>7, <1>8, <1>9

\* RESET drops everything.
LEMMA ResetPreserves ==
    ASSUME IInv, Reset
    PROVE  IInv'
<1> USE DEF IInv, Reset, At, sessVars, histVars, Reply, AbandonAll, DropStream
<1>d. Durable' = Durable
  BY DEF Durable
<1>1. TypeOK'
  <2>1. busy' \in Handlers
    BY ReplyTyped DEF TypeOK, Results, Streams, Handlers
  <2>2. stream' \in Streams
    BY IdleTyped DEF TypeOK
  <2> QED
    BY <2>1, <2>2 DEF TypeOK, States, Stmts
<1>2. HandlerInv'
  BY <1>d DEF TypeOK, Handlers, Streams, HandlerInv, SessionInv, StatementInv, Streaming, Steps, States, Pulls, Idle, NoStream
<1>3. SessionInv'
  BY <1>d DEF TypeOK, Handlers, Streams, HandlerInv, SessionInv, StatementInv, Streaming, States, Stmts, Steps, Pulls, Idle, NoStream
<1>4. StatementInv'
  BY <1>d DEF TypeOK, Handlers, Streams, HandlerInv, SessionInv, StatementInv, Streaming, Stmts, Steps, Idle, NoStream
<1>5. ClientInv'
  BY <1>d DEF TypeOK, Handlers, Streams, HandlerInv, SessionInv, StatementInv, ClientInv, Streaming, Pulls, Steps, Stmts, Idle, NoStream
<1>6. FailedNeverDurable'
  BY <1>d DEF HandlerInv, StatementInv, FailedNeverDurable
<1>7. CommitIsItsOwn'
  BY <1>d DEF CommitIsItsOwn
<1>8. AckedIsDurable'
  BY <1>d DEF AckedIsDurable
<1>9. ClosedHoldsNothing'
  BY <1>d DEF TypeOK, Handlers, Streams, HandlerInv, SessionInv, ClosedHoldsNothing, Streaming, Steps, Idle, NoStream
<1> QED
  BY <1>1, <1>2, <1>3, <1>4, <1>5, <1>6, <1>7, <1>8, <1>9

\* GOODBYE drops everything.
LEMMA GoodbyePreserves ==
    ASSUME IInv, Goodbye
    PROVE  IInv'
<1> USE DEF IInv, Goodbye, At, sessVars, histVars, Reply, AbandonAll, DropStream
<1>d. Durable' = Durable
  BY DEF Durable
<1>1. TypeOK'
  <2>1. busy' \in Handlers
    BY ReplyTyped DEF TypeOK, Results, Streams, Handlers
  <2>2. stream' \in Streams
    BY IdleTyped DEF TypeOK
  <2> QED
    BY <2>1, <2>2 DEF TypeOK, States, Stmts
<1>2. HandlerInv'
  BY <1>d DEF TypeOK, Handlers, Streams, HandlerInv, SessionInv, StatementInv, Streaming, Steps, States, Pulls, Idle, NoStream
<1>3. SessionInv'
  BY <1>d DEF TypeOK, Handlers, Streams, HandlerInv, SessionInv, StatementInv, Streaming, States, Stmts, Steps, Pulls, Idle, NoStream
<1>4. StatementInv'
  BY <1>d DEF TypeOK, Handlers, Streams, HandlerInv, SessionInv, StatementInv, Streaming, Stmts, Steps, Idle, NoStream
<1>5. ClientInv'
  BY <1>d DEF TypeOK, Handlers, Streams, HandlerInv, SessionInv, StatementInv, ClientInv, Streaming, Pulls, Steps, Stmts, Idle, NoStream
<1>6. FailedNeverDurable'
  BY <1>d DEF HandlerInv, StatementInv, FailedNeverDurable
<1>7. CommitIsItsOwn'
  BY <1>d DEF CommitIsItsOwn
<1>8. AckedIsDurable'
  BY <1>d DEF AckedIsDurable
<1>9. ClosedHoldsNothing'
  BY <1>d DEF TypeOK, Handlers, Streams, HandlerInv, SessionInv, ClosedHoldsNothing, Streaming, Steps, Idle, NoStream
<1> QED
  BY <1>1, <1>2, <1>3, <1>4, <1>5, <1>6, <1>7, <1>8, <1>9

\* The socket closes; with no message in flight everything is abandoned.
LEMMA CloseConnectionPreserves ==
    ASSUME IInv, CloseConnection
    PROVE  IInv'
<1> USE DEF IInv, CloseConnection, At, sessVars, histVars, AbandonAll, DropStream
<1>d. Durable' = Durable
  BY DEF Durable
<1>1. TypeOK'
  <2>1. busy' \in Handlers
    BY DEF TypeOK
  <2>2. stream' \in Streams
    BY IdleTyped DEF TypeOK
  <2> QED
    BY <2>1, <2>2 DEF TypeOK, States, Stmts
<1>2. HandlerInv'
  BY <1>d DEF TypeOK, Handlers, Streams, HandlerInv, SessionInv, StatementInv, Streaming, Steps, States, Pulls, Idle, NoStream
<1>3. SessionInv'
  BY <1>d DEF TypeOK, Handlers, Streams, HandlerInv, SessionInv, StatementInv, Streaming, States, Stmts, Steps, Pulls, Idle, NoStream
<1>4. StatementInv'
  <2>1. CASE busy = Idle
    BY <2>1, <1>d DEF TypeOK, StatementInv, NoStream
  <2>2. CASE busy # Idle
    BY <2>2, <1>d DEF StatementInv
  <2> QED
    BY <2>1, <2>2
<1>5. ClientInv'
  <2>1. CASE busy = Idle
    BY <2>1, <1>d DEF ClientInv, Idle
  <2>2. CASE busy # Idle
    BY <2>2, <1>d DEF ClientInv
  <2> QED
    BY <2>1, <2>2
<1>6. FailedNeverDurable'
  BY <1>d DEF HandlerInv, StatementInv, FailedNeverDurable
<1>7. CommitIsItsOwn'
  BY <1>d DEF CommitIsItsOwn
<1>8. AckedIsDurable'
  BY <1>d DEF AckedIsDurable
<1>9. ClosedHoldsNothing'
  BY <1>d DEF TypeOK, Handlers, Streams, HandlerInv, SessionInv, ClosedHoldsNothing, Streaming, Steps, Idle, NoStream
<1> QED
  BY <1>1, <1>2, <1>3, <1>4, <1>5, <1>6, <1>7, <1>8, <1>9
\* A message arrives and is dispatched or queued.
LEMMA ReceivePreserves ==
    ASSUME IInv, NEW k \in Kinds, Receive(k)
    PROVE  IInv'
<1> USE DEF IInv, Receive, sessVars, histVars
<1>d. Durable' = Durable
  BY DEF Durable
<1>b. CASE busy = Idle
  <2>1. busy' = Start(k) /\ queue' = queue /\ cancel' = cancel
    BY <1>b
  <2>2. TypeOK'
    <3>1. busy' \in Handlers
      BY <2>1, StartTyped
    <3> QED
      BY <2>1, <3>1 DEF TypeOK
  <2>3. busy'.step = "start" /\ busy'.kind = k /\ busy' # Idle
    BY <2>1, StartIs DEF Idle
  <2>4. HandlerInv'
    BY <2>1, <2>3, <1>d DEF HandlerInv, At, Streaming
  <2>5. SessionInv' /\ StatementInv' /\ ClientInv'
    BY <1>b, <2>3, <1>d DEF SessionInv, StatementInv, ClientInv, Idle
  <2>6. FailedNeverDurable' /\ CommitIsItsOwn' /\ AckedIsDurable' /\ ClosedHoldsNothing'
    BY <1>d DEF FailedNeverDurable, CommitIsItsOwn, AckedIsDurable, ClosedHoldsNothing
  <2> QED
    BY <2>2, <2>4, <2>5, <2>6
<1>q. CASE busy # Idle
  <2>1. /\ busy' = busy /\ queue' = Append(queue, k) /\ Len(queue) < MaxQueue
        /\ cancel' = (cancel \/ k = "RESET")
    BY <1>q
  <2>2. /\ queue \in Seq(Kinds) /\ queue' \in Seq(Kinds) /\ Len(queue') = Len(queue) + 1
        /\ \A i \in 1 .. Len(queue') : queue'[i] = IF i <= Len(queue) THEN queue[i] ELSE k
    BY <2>1, AppendProperties DEF TypeOK
  <2>3. Len(queue') <= MaxQueue
    BY <2>1, <2>2, LenProperties
  <2>4. TypeOK'
    BY <2>1, <2>2, <2>3 DEF TypeOK
  <2>6. HandlerInv'
    BY <2>1, <1>d DEF HandlerInv, At
  <2>7. SessionInv' /\ StatementInv' /\ ClientInv'
    BY <2>1, <1>d DEF SessionInv, StatementInv, ClientInv
  <2>8. FailedNeverDurable' /\ CommitIsItsOwn' /\ AckedIsDurable' /\ ClosedHoldsNothing'
    BY <1>d DEF FailedNeverDurable, CommitIsItsOwn, AckedIsDurable, ClosedHoldsNothing
  <2> QED
    BY <2>4, <2>6, <2>7, <2>8
<1> QED
  BY <1>b, <1>q

LEMMA InitIInv == Init => IInv
<1> SUFFICES ASSUME Init PROVE IInv
  OBVIOUS
<1>1. Durable = {}
  BY DEF Init, Durable
<1>2. TypeOK
  <2>1. queue \in Seq(Kinds) /\ Len(queue) = 0
    BY DEF Init
  <2>2. busy \in Handlers /\ stream \in Streams
    BY IdleTyped DEF Init
  <2> QED
    <3>1. Len(queue) <= MaxQueue /\ sent \in 0 .. MaxMessages
      BY <2>1 DEF Init
    <3>2. client \in [txn : BOOLEAN, done : SUBSET Stmts, acked : SUBSET Stmts]
      BY DEF Init
    <3> QED
      BY <2>1, <2>2, <3>1, <3>2 DEF Init, TypeOK, States
<1>3. HandlerInv /\ SessionInv /\ StatementInv /\ ClientInv
  BY <1>1 DEF Init, HandlerInv, SessionInv, StatementInv, ClientInv, Idle, NoStream, At
<1>4. FailedNeverDurable /\ CommitIsItsOwn /\ AckedIsDurable /\ ClosedHoldsNothing
  BY <1>1 DEF Init, FailedNeverDurable, CommitIsItsOwn, AckedIsDurable, ClosedHoldsNothing
<1> QED
  BY <1>2, <1>3, <1>4 DEF IInv

LEMMA NextIInv == IInv /\ [Next]_vars => IInv'
<1> SUFFICES ASSUME IInv, [Next]_vars PROVE IInv'
  OBVIOUS
<1>1. CASE Handle
  <2>1. CASE FinishClosed \/ FinishGoodbye \/ FinishMessage \/ Ignored \/ Unexpected \/ Hello \/ Other
    BY <2>1, FinishClosedPreserves, FinishGoodbyePreserves, FinishMessagePreserves,
       IgnoredPreserves, UnexpectedPreserves, HelloPreserves, OtherPreserves
  <2>2. CASE RunStart \/ RunRefused \/ RunExecute \/ RunFails
    BY <2>2, RunStartPreserves, RunRefusedPreserves, RunExecutePreserves, RunFailsPreserves
  <2>3. CASE PullNothing \/ PullStart \/ PullRow \/ PullEnd \/ PullStop \/ PullFails
    BY <2>3, PullNothingPreserves, PullStartPreserves, PullRowPreserves, PullEndPreserves,
       PullStopPreserves, PullFailsPreserves
  <2>4. CASE PullAbort \/ PullMore \/ PullDone \/ PullCommit \/ PullCommitFails
    BY <2>4, PullAbortPreserves, PullMorePreserves, PullDonePreserves, PullCommitPreserves,
       PullCommitFailsPreserves
  <2>5. CASE Discard \/ Begin \/ Commit \/ CommitFails \/ Rollback \/ Reset \/ Goodbye
    BY <2>5, DiscardPreserves, BeginPreserves, CommitPreserves, CommitFailsPreserves,
       RollbackPreserves, ResetPreserves, GoodbyePreserves
  <2> QED
    BY <1>1, <2>1, <2>2, <2>3, <2>4, <2>5 DEF Handle
<1>2. CASE CloseConnection
  BY <1>2, CloseConnectionPreserves
<1>3. ASSUME NEW k \in Kinds, Receive(k) PROVE IInv'
  BY <1>3, ReceivePreserves
<1>4. CASE UNCHANGED vars
  <2> USE <1>4 DEF vars, connVars, sessVars, histVars
  <2>1. Durable' = Durable
    BY DEF Durable
  <2>2. TypeOK' /\ HandlerInv' /\ SessionInv'
    BY <2>1 DEF IInv, TypeOK, HandlerInv, SessionInv, At
  <2>3. StatementInv' /\ ClientInv'
    BY <2>1 DEF IInv, StatementInv, ClientInv
  <2>4. FailedNeverDurable' /\ CommitIsItsOwn' /\ AckedIsDurable' /\ ClosedHoldsNothing'
    BY <2>1 DEF IInv, FailedNeverDurable, CommitIsItsOwn, AckedIsDurable, ClosedHoldsNothing
  <2> QED
    BY <2>2, <2>3, <2>4 DEF IInv
<1> QED
  BY <1>1, <1>2, <1>3, <1>4 DEF Next

-----------------------------------------------------------------------------
(* Why the cancel flag is set: the RESET that armed it is still in the queue *)
(* or is the message being handled; only handling it takes it out, and that  *)
(* clears the flag.                                                          *)

LEMMA CancelStep ==
    ASSUME IInv, CancelHasReason, [Next]_vars
    PROVE  CancelHasReason'
<1> USE DEF IInv
<1>1. CASE FinishMessage
  <2>1. queue \in Seq(Kinds) /\ Len(queue) \in Nat
    BY LenProperties DEF TypeOK
  <2>2. ASSUME NEW i \in 1 .. Len(queue), queue[i] = "RESET" PROVE ResetWaits'
    <3>1. queue # <<>> /\ busy' = Start(Head(queue)) /\ queue' = Tail(queue)
      BY <1>1, <2>1, <2>2 DEF FinishMessage
    <3>2. CASE i = 1
      BY <2>1, <2>2, <3>1, <3>2, StartIs DEF ResetWaits, At
    <3>3. CASE i # 1
      <4>1. i - 1 \in 1 .. Len(Tail(queue)) /\ Tail(queue)[i - 1] = queue[i]
        BY <2>1, <3>1, <3>3
      <4> QED
        BY <2>2, <3>1, <4>1 DEF ResetWaits
    <3> QED
      BY <3>2, <3>3
  <2> QED
    BY <1>1, <2>2 DEF FinishMessage, CancelHasReason, ResetWaits, At
<1>2. CASE FinishClosed \/ FinishGoodbye \/ CloseConnection
  BY <1>2 DEF FinishClosed, FinishGoodbye, CloseConnection, CancelHasReason
<1>3. CASE Reset
  BY <1>3 DEF Reset, CancelHasReason
<1>4. ASSUME NEW k \in Kinds, Receive(k) PROVE CancelHasReason'
  <2>1. CASE busy = Idle
    BY <1>4, <2>1 DEF Receive, CancelHasReason, ResetWaits, At, Idle
  <2>2. CASE busy # Idle
    <3>1. /\ busy' = busy /\ queue' = Append(queue, k) /\ phase' = phase
          /\ cancel' = (cancel \/ k = "RESET")
      BY <1>4, <2>2 DEF Receive
    <3>2. queue \in Seq(Kinds) /\ Len(queue) \in Nat
      BY LenProperties DEF TypeOK
    <3>3. /\ Len(queue') = Len(queue) + 1 /\ queue'[Len(queue) + 1] = k
          /\ \A i \in 1 .. Len(queue) : queue'[i] = queue[i]
      BY <3>1, <3>2, AppendProperties
    <3>4. CASE k = "RESET"
      BY <3>2, <3>3, <3>4 DEF CancelHasReason, ResetWaits
    <3>5. CASE k # "RESET"
      <4>1. cancel' => cancel
        BY <3>1, <3>5
      <4>2. ResetWaits => ResetWaits'
        BY <3>1, <3>2, <3>3 DEF ResetWaits, At
      <4> QED
        BY <3>1, <4>1, <4>2 DEF CancelHasReason
    <3> QED
      BY <3>4, <3>5
  <2> QED
    BY <2>1, <2>2
<1>5. CASE /\ UNCHANGED <<phase, queue, cancel>> /\ busy' = busy
  BY <1>5 DEF CancelHasReason, ResetWaits, At
<1>6. CASE /\ Handle /\ ~FinishMessage /\ ~FinishClosed /\ ~FinishGoodbye /\ ~Reset
  <2>1. UNCHANGED <<phase, queue, cancel>>
    BY <1>6 DEF Handle, Ignored, Unexpected, Hello, Other, RunStart, RunRefused, RunExecute,
       RunFails, PullNothing, PullStart, PullRow, PullEnd, PullStop, PullFails, PullAbort, PullMore,
       PullDone, PullCommit, PullCommitFails, Discard, Begin, Commit, CommitFails, Rollback, Goodbye
  <2>2. ~At({"RESET"}, "start")
    BY <1>6 DEF Handle, Ignored, Unexpected, Expected, TypeOK, Hello, Other, RunStart, RunRefused,
       RunExecute, RunFails, PullNothing, PullStart, PullRow, PullEnd, PullStop, PullFails,
       PullAbort, PullMore, PullDone, PullCommit, PullCommitFails, Discard, Begin, Commit,
       CommitFails, Rollback, Goodbye, At, Pulls
  <2> QED
    BY <2>1, <2>2 DEF CancelHasReason, ResetWaits
<1>7. CASE UNCHANGED vars
  BY <1>5, <1>7 DEF vars, connVars
<1> QED
  BY <1>1, <1>2, <1>3, <1>4, <1>6, <1>7 DEF Next

-----------------------------------------------------------------------------
(* Results *)

\* The inductive invariant holds throughout every behaviour.
THEOREM Invariance == Spec => []IInv
<1> QED
  BY InitIInv, NextIInv, PTL DEF Spec

\* Every variable of the connection and its session has its type.
THEOREM TypeCorrect == Spec => []TypeOK
<1>1. IInv => TypeOK
  BY DEF IInv
<1> QED
  BY <1>1, Invariance, PTL

\* What the client was told is committed is durable, whatever RESETs, failures
\* and disconnections come in between.
THEOREM AcknowledgedWrites == Spec => []AckedIsDurable
<1>1. IInv => AckedIsDurable
  BY DEF IInv
<1> QED
  BY <1>1, Invariance, PTL

\* A statement reported as failed or cancelled never becomes durable, neither
\* by itself nor through the explicit transaction it ran in.
THEOREM FailedWrites == Spec => []FailedNeverDurable
<1>1. IInv => FailedNeverDurable
  BY DEF IInv
<1> QED
  BY <1>1, Invariance, PTL

\* A commit holds only statements run since the BEGIN that opened its
\* transaction, no statement is committed twice, and only a DISCARD outside a
\* stream lets a commit hold what was run before the client's last BEGIN.
THEOREM CommitOwnership == Spec => []CommitIsItsOwn
<1>1. IInv => CommitIsItsOwn
  BY DEF IInv
<1> QED
  BY <1>1, Invariance, PTL

\* query_cancel_ is set only while a RESET waits or the connection is gone.
THEOREM CancelReason == Spec => []CancelHasReason
<1>1. Init => CancelHasReason
  BY DEF Init, CancelHasReason
<1> QED
  BY <1>1, CancelStep, Invariance, PTL DEF Spec

\* A closed connection whose last handler has finished holds no session.
THEOREM ClosedIsEmpty == Spec => []ClosedHoldsNothing
<1>1. IInv => ClosedHoldsNothing
  BY DEF IInv
<1> QED
  BY <1>1, Invariance, PTL

\* Between messages the protocol state says whether a transaction is open,
\* unless a DISCARD outside a stream has parked it, and whether a stream is.
THEOREM ProtocolAgreement == Spec => []StateMatchesTransaction
<1>1. IInv => StateMatchesTransaction
  BY DEF IInv, TypeOK, States, SessionInv, Streaming, StateMatchesTransaction
<1> QED
  BY <1>1, Invariance, PTL
=============================================================================
