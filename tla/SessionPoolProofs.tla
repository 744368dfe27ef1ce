------------------------- MODULE SessionPoolProofs -------------------------
(***************************************************************************)
(* Proofs about SessionPool, for any number of lessees, any finite set of  *)
(* session addresses and any capacity.  Every call a lessee makes on the   *)
(* session it holds is an instance of one lemma, HeldSessionStep, which    *)
(* says what such a call may change; the steps of acquire(), put() and     *)
(* shutdown() have a lemma each.                                           *)
(***************************************************************************)
EXTENDS SessionPool, FiniteSetTheorems, TLAPS

-----------------------------------------------------------------------------
(* The operators on session records *)

\* The transitions of TxnController and StickyError yield session records and
\* do not touch closed_.
LEMMA OnCommitOp ==
    ASSUME NEW x \in SessionRecords, NEW c \in ErrorClasses
    PROVE  /\ OnCommitResult(x, c) \in SessionRecords /\ ~OnCommitResult(x, c).open
           /\ OnCommitResult(x, c).closed = x.closed
  BY DEF SessionRecords, TxnStates, OnCommitResult, IsRetryable

\* A rollback closes the transaction in the record.
LEMMA OnRollbackOp ==
    ASSUME NEW x \in SessionRecords
    PROVE  /\ OnRollback(x) \in SessionRecords /\ ~OnRollback(x).open
           /\ OnRollback(x).closed = x.closed
  BY DEF SessionRecords, TxnStates, OnRollback

\* Poisoning leaves the transaction open.
LEMMA PoisonOp ==
    ASSUME NEW x \in SessionRecords
    PROVE  /\ Poison(x) \in SessionRecords /\ Poison(x).open = x.open
           /\ Poison(x).closed = x.closed
  BY DEF SessionRecords, TxnStates, Poison

\* StickyError::set records an error and never loses one.
LEMMA SetErrOp ==
    ASSUME NEW x \in SessionRecords, NEW c \in ErrorClasses
    PROVE  /\ SetErr(x, c) \in SessionRecords /\ SetErr(x, c).open = x.open
           /\ SetErr(x, c).closed = x.closed
           /\ x.err # "None" => SetErr(x, c).err # "None"
  BY DEF SessionRecords, ErrorClasses, Failures, SetErr

\* GraphSession::rollback: the transaction remains open only if rolling it back
\* failed; an error, once there, stays.
LEMMA RollbackOp ==
    ASSUME NEW x \in SessionRecords, NEW c \in ErrorClasses
    PROVE  /\ Rollback(x, c) \in SessionRecords /\ Rollback(x, c).closed = x.closed
           /\ Rollback(x, c).open <=> x.open /\ c # "None"
           /\ x.err # "None" => Rollback(x, c).err # "None"
  BY DEF SessionRecords, TxnStates, ErrorClasses, Failures, OnRollback, Poison, SetErr, Rollback

\* GraphSession::close: as rollback; a session that keeps its transaction is
\* poisoned.
LEMMA CloseOp ==
    ASSUME NEW x \in SessionRecords, ~x.closed, NEW c \in ErrorClasses
    PROVE  /\ CloseSession(x, c) \in SessionRecords
           /\ CloseSession(x, c).open <=> x.open /\ c # "None"
           /\ Poisoned(CloseSession(x, c)) \/ ~CloseSession(x, c).open
           /\ x.err # "None" => CloseSession(x, c).err # "None"
  BY DEF SessionRecords, TxnStates, ErrorClasses, Failures, OnRollback, Poison, SetErr,
         CloseSession, Poisoned

\* GraphSession::fail records an error and leaves the transaction open.
LEMMA FailOp ==
    ASSUME NEW x \in SessionRecords, NEW c \in ErrorClasses
    PROVE  /\ Fail(x, c) \in SessionRecords /\ Fail(x, c).closed = x.closed
           /\ Fail(x, c).open = x.open
           /\ c # "None" => Fail(x, c).err # "None"
  BY DEF SessionRecords, TxnStates, ErrorClasses, Failures, Poison, SetErr, Fail

-----------------------------------------------------------------------------
(* A lessee's call on the session it holds *)

\* Any call that keeps the pool and the leases, and changes only the record and
\* the engine state of the caller's session in a consistent way, preserves IInv.
LEMMA HeldSessionStep ==
    ASSUME IInv, NEW l \in Lessees, Holds(l),
           NEW y \in SessionRecords, ~y.closed,
           NEW p \in SUBSET {l},
           UNCHANGED <<poolVars, leaseVars>>,
           ses' = [ses EXCEPT ![lease[l]] = y],
           pending' = [pending EXCEPT ![lease[l]] = p],
           engineOpen' \in {engineOpen \cup {lease[l]}, engineOpen \ {lease[l]}},
           lease[l] \in engineOpen' <=> y.open,
           p # {} => y.open,
           spoiled' \in {spoiled, spoiled \cup {lease[l]}, spoiled \ {lease[l]}},
           lease[l] \in spoiled' => y.open /\ y.err # "None",
           \A c \in store' : c \in store \/ (c \in Commits /\ c.clean /\ c.writers \subseteq {c.holder})
    PROVE  IInv'
  <1> DEFINE s == lease[l]
  <1>s. s \in Sessions /\ s \in all /\ s \notin idle /\ \A k \in Lessees \ {l} : lease[k] # s
    BY DEF IInv, TypeOK, ExclusiveUse, Holds
  <1>r. ses'[s] = y /\ \A t \in Sessions \ {s} : ses'[t] = ses[t]
    BY <1>s DEF IInv, TypeOK
  <1>p. pending'[s] = p /\ \A t \in Sessions \ {s} : pending'[t] = pending[t]
    BY <1>s DEF IInv, TypeOK
  <1>u. /\ closed' = closed /\ all' = all /\ idle' = idle /\ leased' = leased
        /\ doomed' = doomed /\ lease' = lease /\ putting' = putting
    BY DEF poolVars, leaseVars
  <1> HIDE DEF s
  <1>1. TypeOK'
    <2>1. ses' \in [Sessions -> SessionRecords]
      BY <1>s DEF IInv, TypeOK, s
    <2>2. pending' \in [Sessions -> SUBSET Lessees]
      BY <1>s DEF IInv, TypeOK, s
    <2>3. engineOpen' \subseteq Sessions /\ spoiled' \subseteq Sessions
      BY <1>s DEF IInv, TypeOK, s
    <2>4. store' \subseteq Commits
      BY DEF IInv, TypeOK
    <2> QED BY <1>u, <2>1, <2>2, <2>3, <2>4 DEF IInv, TypeOK
  <1>2. ExclusiveUse'
    BY <1>u DEF IInv, ExclusiveUse
  <1>3. CapacityAccounted'
    BY <1>u DEF IInv, CapacityAccounted
  <1>4. CommittedIsWhole'
    BY DEF IInv, CommittedIsWhole
  <1>5. IdleIsClean'
    BY <1>s, <1>r, <1>p, <1>u DEF IInv, IdleIsClean, TypeOK, s
  <1>6. TransactionTracked'
    <2>1. \A t \in Sessions : t \in engineOpen' <=> t \in all' /\ ses'[t].open
      BY <1>s, <1>r, <1>u DEF IInv, TypeOK, TransactionTracked, s
    <2> QED BY <1>1, <2>1 DEF TransactionTracked, TypeOK
  <1>7. LeaseBooks'
    BY <1>u DEF IInv, LeaseBooks, Holds
  <1>8. WorkOwned'
    <2>1. \A t \in Sessions : pending'[t] # {} => t \in engineOpen'
      BY <1>s, <1>r, <1>p DEF IInv, WorkOwned, s
    <2>2. \A k \in Lessees : lease'[k] # NoSession => pending'[lease'[k]] \subseteq {k}
      BY <1>s, <1>p, <1>u DEF IInv, WorkOwned, TypeOK, s
    <2> QED BY <2>1, <2>2 DEF WorkOwned
  <1>9. FailureSticks'
    <2>1. \A t \in spoiled' : t \in engineOpen' /\ ses'[t].err # "None"
      BY <1>s, <1>r DEF IInv, FailureSticks, TypeOK, s
    <2> QED BY <2>1 DEF FailureSticks
  <1>10. CloseEndsWork'
    BY <1>s, <1>r, <1>u DEF IInv, CloseEndsWork, LeaseBooks, TypeOK, Holds, s
  <1>11. OpenWhileHeld'
    BY <1>s, <1>r, <1>u DEF IInv, OpenWhileHeld, TypeOK, s
  <1> QED
    BY <1>1, <1>2, <1>3, <1>4, <1>5, <1>6, <1>7, <1>8, <1>9, <1>10, <1>11 DEF IInv

-----------------------------------------------------------------------------
(* The calls *)

\* What a lessee knows about the session it holds.
LEMMA HeldSession ==
    ASSUME IInv, NEW l \in Lessees, Holds(l)
    PROVE  /\ lease[l] \in Sessions /\ ses[lease[l]] \in SessionRecords
           /\ lease[l] \in all
           /\ ~ses[lease[l]].closed
           /\ pending[lease[l]] \subseteq {l}
           /\ pending[lease[l]] # {} => ses[lease[l]].open
           /\ lease[l] \in engineOpen <=> ses[lease[l]].open
           /\ lease[l] \in spoiled => ses[lease[l]].open /\ ses[lease[l]].err # "None"
           /\ pending = [pending EXCEPT ![lease[l]] = pending[lease[l]]]
           /\ \A c \in store : c \in Commits /\ c.clean /\ c.writers \subseteq {c.holder}
  BY DEF IInv, TypeOK, ExclusiveUse, Holds, OpenWhileHeld, WorkOwned, TransactionTracked,
         FailureSticks, CommittedIsWhole

\* Results are error classes.
LEMMA ResultsAreClasses == \A c \in Results : c \in ErrorClasses
  BY SessionPoolAssumption DEF Results, ErrorClasses, Failures

\* begin(): a started or a failed transaction.
LEMMA BeginStep ==
    ASSUME IInv, NEW l \in Lessees, NEW c \in Results, Begin(l, c)
    PROVE  IInv'
  <1> DEFINE s == lease[l]
             x == ses[s]
             y == [TxnBegin(x) EXCEPT !.err = "None"]
             z == SetErr(OnRollback(y), c)
  <1>1. Holds(l) BY DEF Begin
  <1>2. x \in SessionRecords /\ ~x.closed /\ ~x.open
    BY <1>1, HeldSession DEF Begin, CanBegin
  <1>3. y \in SessionRecords /\ y.open /\ ~y.closed
    BY <1>2 DEF SessionRecords, TxnStates, ErrorClasses, Failures, TxnBegin
  <1>4. /\ z \in SessionRecords /\ ~z.open /\ ~z.closed
        /\ Poison(z) \in SessionRecords /\ ~Poison(z).open /\ ~Poison(z).closed
    <2>1. OnRollback(y) \in SessionRecords /\ ~OnRollback(y).open /\ ~OnRollback(y).closed
      BY <1>3, OnRollbackOp
    <2>2. z \in SessionRecords /\ ~z.open /\ ~z.closed
      BY <2>1, SetErrOp, ResultsAreClasses
    <2> QED BY <2>2, PoisonOp
  <1>5. pending[s] = {} /\ s \notin engineOpen /\ s \notin spoiled
    BY <1>1, <1>2, HeldSession
  <1>6. /\ UNCHANGED <<poolVars, leaseVars>> /\ store' = store
        /\ pending' = [pending EXCEPT ![s] = {}]
    BY <1>1, <1>5, HeldSession DEF Begin
  <1>7. CASE c = "None"
    <2>1. ses' = [ses EXCEPT ![s] = y] /\ engineOpen' = engineOpen \cup {s} /\ spoiled' = spoiled \ {s}
      BY <1>7 DEF Begin, Sess
    <2>2. {} \in SUBSET {l} /\ s \in engineOpen' /\ s \notin spoiled' BY <2>1
    <2>3. \A q \in store' : q \in store BY <1>6
    <2> HIDE DEF y
    <2> QED BY <1>1, <1>3, <1>6, <2>1, <2>2, <2>3, HeldSessionStep
  <1>8. CASE c # "None"
    <2>1. /\ \E w \in {z, Poison(z)} : ses' = [ses EXCEPT ![s] = w]
          /\ engineOpen' = engineOpen \ {s} /\ spoiled' = spoiled
      BY <1>5, <1>8 DEF Begin, Sess
    <2>2. PICK w \in {z, Poison(z)} : ses' = [ses EXCEPT ![s] = w]
      BY <2>1
    <2>3. w \in SessionRecords /\ ~w.open /\ ~w.closed
      BY <1>4, <2>2
    <2> HIDE DEF y, z
    <2> QED BY <1>1, <1>5, <1>6, <2>1, <2>2, <2>3, HeldSessionStep
  <1> QED BY <1>7, <1>8

\* A data operation, successful or failed, with its failure recorded.
LEMMA OperateStep ==
    ASSUME IInv, NEW l \in Lessees, NEW c \in Results, Operate(l, c)
    PROVE  IInv'
  <1> DEFINE s == lease[l]
             x == ses[s]
  <1>1. Holds(l) /\ x.open BY DEF Operate
  <1>2. x \in SessionRecords /\ ~x.closed /\ s \in Sessions /\ s \in engineOpen
    BY <1>1, HeldSession
  <1>3. /\ UNCHANGED <<poolVars, leaseVars>> /\ store' = store
        /\ engineOpen' = engineOpen \cup {s}
    BY <1>2 DEF Operate
  <1>4. CASE c = "None"
    <2>1. /\ pending' = [pending EXCEPT ![s] = pending[s] \cup {l}]
          /\ ses' = ses /\ spoiled' = spoiled
      BY <1>4 DEF Operate
    <2>2. pending[s] \cup {l} \in SUBSET {l} BY <1>1, HeldSession
    <2>3. ses' = [ses EXCEPT ![s] = x] BY <2>1, <1>2 DEF IInv, TypeOK
    <2>4. s \in spoiled' => x.open /\ x.err # "None" BY <1>1, <2>1, HeldSession
    <2> HIDE DEF x
    <2> QED BY <1>1, <1>2, <1>3, <2>1, <2>2, <2>3, <2>4, HeldSessionStep
  <1>5. CASE c # "None"
    <2> DEFINE y == Fail(x, c)
    <2>1. /\ ses' = [ses EXCEPT ![s] = y]
          /\ spoiled' = spoiled \cup {s} /\ pending' = pending
      BY <1>5 DEF Operate, Sess
    <2>2. y \in SessionRecords /\ ~y.closed /\ y.open /\ y.err # "None"
      BY <1>1, <1>2, <1>5, FailOp, ResultsAreClasses
    <2>3. pending[s] \in SUBSET {l} /\ pending' = [pending EXCEPT ![s] = pending[s]]
      BY <1>1, <2>1, HeldSession
    <2> HIDE DEF y, x
    <2> QED BY <1>1, <1>2, <1>3, <2>1, <2>2, <2>3, HeldSessionStep
  <1> QED BY <1>4, <1>5

\* The common part of commit() refused and rollback().
LEMMA RollbackPart ==
    ASSUME IInv, NEW l \in Lessees, NEW c \in Results, Holds(l),
           UNCHANGED <<poolVars, leaseVars>>,
           Sess(lease[l], Rollback(ses[lease[l]], c)),
           EngineRollback(lease[l], ses[lease[l]], c)
    PROVE  IInv'
  <1> DEFINE s == lease[l]
             x == ses[s]
             y == Rollback(x, c)
  <1>1. x \in SessionRecords /\ ~x.closed /\ s \in Sessions BY HeldSession
  <1>2. /\ y \in SessionRecords /\ ~y.closed
        /\ y.open <=> x.open /\ c # "None"
        /\ x.err # "None" => y.err # "None"
    BY <1>1, RollbackOp, ResultsAreClasses
  <1>3. ses' = [ses EXCEPT ![s] = y] BY DEF Sess
  <1>4. CASE x.open /\ c = "None"
    <2>1. /\ engineOpen' = engineOpen \ {s} /\ pending' = [pending EXCEPT ![s] = {}]
          /\ spoiled' = spoiled \ {s} /\ store' = store
      BY <1>4 DEF EngineRollback, EngineAborts
    <2> HIDE DEF y, x
    <2>2. {} \in SUBSET {l} /\ s \notin engineOpen' /\ s \notin spoiled' /\ ~y.open
      BY <1>2, <1>4, <2>1
    <2>3. \A q \in store' : q \in store BY <2>1
    <2> QED BY <1>1, <1>2, <1>3, <2>1, <2>2, <2>3, HeldSessionStep
  <1>5. CASE ~(x.open /\ c = "None")
    <2>1. engineOpen' = engineOpen /\ pending' = pending /\ spoiled' = spoiled /\ store' = store
      BY <1>5 DEF EngineRollback, engineVars
    <2>2. /\ pending[s] \in SUBSET {l} /\ pending' = [pending EXCEPT ![s] = pending[s]]
          /\ pending[s] # {} => x.open
          /\ s \in engineOpen <=> x.open
          /\ s \in spoiled => x.open /\ x.err # "None"
      BY <2>1, HeldSession
    <2>3. y.open <=> x.open BY <1>2, <1>5
    <2>4. engineOpen' \in {engineOpen \cup {s}, engineOpen \ {s}} BY <2>1, <2>2
    <2> HIDE DEF y, x
    <2> QED BY <1>1, <1>2, <1>3, <2>1, <2>2, <2>3, <2>4, HeldSessionStep
  <1> QED BY <1>4, <1>5

\* commit() after an earlier failure.
LEMMA CommitRefusedStep ==
    ASSUME IInv, NEW l \in Lessees, NEW c \in Results, CommitRefused(l, c)
    PROVE  IInv'
  BY RollbackPart DEF CommitRefused

\* rollback() called by the lessee.
LEMMA RollbackCallStep ==
    ASSUME IInv, NEW l \in Lessees, NEW c \in Results, RollbackCall(l, c)
    PROVE  IInv'
  BY RollbackPart DEF RollbackCall

\* commit() without an active transaction only records an error.
LEMMA CommitNothingStep ==
    ASSUME IInv, NEW l \in Lessees, CommitNothing(l)
    PROVE  IInv'
  <1> DEFINE s == lease[l]
             x == ses[s]
             y == SetErr(x, "Unknown")
  <1>1. /\ Holds(l) /\ ses' = [ses EXCEPT ![s] = y] /\ UNCHANGED <<poolVars, leaseVars>>
        /\ engineOpen' = engineOpen /\ pending' = pending /\ spoiled' = spoiled /\ store' = store
    BY DEF CommitNothing, Sess, engineVars
  <1>2. x \in SessionRecords /\ ~x.closed /\ s \in Sessions BY <1>1, HeldSession
  <1>3. y \in SessionRecords /\ ~y.closed /\ y.open = x.open /\ (x.err # "None" => y.err # "None")
    BY <1>2, SetErrOp DEF ErrorClasses, Failures
  <1>4. /\ pending[s] \in SUBSET {l} /\ pending' = [pending EXCEPT ![s] = pending[s]]
        /\ pending[s] # {} => x.open
        /\ s \in engineOpen <=> x.open
        /\ s \in spoiled => x.open /\ x.err # "None"
    BY <1>1, HeldSession
  <1>5. engineOpen' \in {engineOpen \cup {s}, engineOpen \ {s}} BY <1>1, <1>4
  <1> HIDE DEF y, x
  <1> QED BY <1>1, <1>2, <1>3, <1>4, <1>5, HeldSessionStep

\* commit() of a transaction in which nothing failed; the new member of store is
\* clean because of FailureSticks and single-handed because of WorkOwned.
LEMMA CommitStep ==
    ASSUME IInv, NEW l \in Lessees, NEW c \in Results, Commit(l, c)
    PROVE  IInv'
  <1> DEFINE s == lease[l]
             x == ses[s]
             y == SetErr(OnCommitResult(x, c), c)
             r == [holder |-> l, writers |-> pending[s], clean |-> s \notin spoiled]
  <1>1. /\ Holds(l) /\ ses' = [ses EXCEPT ![s] = y] /\ UNCHANGED <<poolVars, leaseVars>>
        /\ x.err = "None" /\ x.open
    BY DEF Commit, Sess
  <1>2. x \in SessionRecords /\ ~x.closed /\ s \in Sessions BY <1>1, HeldSession
  <1>3. y \in SessionRecords /\ ~y.closed /\ ~y.open
    <2> DEFINE w == OnCommitResult(x, c)
    <2>1. c \in ErrorClasses BY ResultsAreClasses
    <2>2. w \in SessionRecords /\ ~w.open /\ ~w.closed
      <3> HIDE DEF x
      <3> QED BY <1>2, <2>1, OnCommitOp
    <2> HIDE DEF w
    <2>3. SetErr(w, c) \in SessionRecords /\ ~SetErr(w, c).open /\ ~SetErr(w, c).closed
      BY <2>1, <2>2, SetErrOp
    <2> QED BY <2>3 DEF w
  <1>4. /\ engineOpen' = engineOpen \ {s} /\ pending' = [pending EXCEPT ![s] = {}]
        /\ spoiled' = spoiled \ {s} /\ store' \in {store, store \cup {r}}
    BY DEF Commit, EngineCommits, EngineAborts
  <1>5. s \notin spoiled /\ pending[s] \subseteq {l}
    BY <1>1, HeldSession
  <1>6. r \in Commits /\ r.clean /\ r.writers \subseteq {r.holder}
    BY <1>5 DEF Commits
  <1>7. \A q \in store' : q \in store \/ (q \in Commits /\ q.clean /\ q.writers \subseteq {q.holder})
    BY <1>4, <1>6
  <1>8. {} \in SUBSET {l} /\ s \notin engineOpen' /\ s \notin spoiled' BY <1>4
  <1> HIDE DEF y, x, r
  <1> QED BY <1>1, <1>2, <1>3, <1>4, <1>7, <1>8, HeldSessionStep

-----------------------------------------------------------------------------
(* acquire() *)

\* acquire() of an idle session: clean by IdleIsClean, unused by ExclusiveUse.
LEMMA AcquireIdleStep ==
    ASSUME IInv, NEW l \in Lessees, NEW s \in Sessions, AcquireIdle(l, s)
    PROVE  IInv'
  <1>1. /\ s \in idle /\ s \in all /\ lease[l] = NoSession /\ putting[l] = "no" /\ ~closed
        /\ leased' = leased \cup {s} /\ idle' = idle \ {s}
        /\ lease' = [lease EXCEPT ![l] = s]
        /\ UNCHANGED <<closed, doomed, putting, all, ses, engineOpen, pending, spoiled, store>>
    BY DEF AcquireIdle, Borrow, engineVars, IInv, TypeOK, LeaseBooks
  <1>2. ses[s] = Fresh /\ s \notin engineOpen /\ pending[s] = {}
    BY <1>1 DEF IInv, IdleIsClean
  <1>3. \A k \in Lessees : lease[k] # s
    BY <1>1, SessionPoolAssumption DEF IInv, ExclusiveUse
  <1>l. lease'[l] = s /\ \A k \in Lessees \ {l} : lease'[k] = lease[k]
    BY <1>1 DEF IInv, TypeOK
  <1>4. TypeOK'
    BY <1>1 DEF IInv, TypeOK
  <1>5. ExclusiveUse'
    BY <1>1, <1>3, <1>l DEF IInv, ExclusiveUse, TypeOK
  <1>6. CapacityAccounted'
    <2>1. \A t \in all' \ idle' : \E k \in Lessees : lease'[k] = t
      BY <1>1, <1>l, SessionPoolAssumption DEF IInv, CapacityAccounted, TypeOK
    <2> QED BY <1>1, <2>1 DEF IInv, CapacityAccounted
  <1>7. CommittedIsWhole' /\ IdleIsClean' /\ TransactionTracked' /\ FailureSticks'
    BY <1>1 DEF IInv, CommittedIsWhole, IdleIsClean, TransactionTracked, FailureSticks
  <1>8. LeaseBooks'
    <2>1. \A k \in Lessees : Holds(k)' <=> k = l \/ Holds(k)
      BY <1>1, <1>l, SessionPoolAssumption DEF Holds
    <2>2. \A t \in leased' : \E k \in Lessees : Holds(k)' /\ lease'[k] = t
      BY <1>1, <1>l, <2>1 DEF IInv, LeaseBooks, Holds
    <2> QED BY <1>1, <1>l, <2>1, <2>2 DEF IInv, LeaseBooks
  <1>9. WorkOwned'
    BY <1>1, <1>2, <1>l DEF IInv, WorkOwned
  <1>10. CloseEndsWork'
    BY <1>1, <1>l DEF IInv, CloseEndsWork
  <1>11. OpenWhileHeld'
    BY <1>1, <1>2, <1>l DEF IInv, OpenWhileHeld, Fresh
  <1> QED
    BY <1>4, <1>5, <1>6, <1>7, <1>8, <1>9, <1>10, <1>11 DEF IInv

\* acquire() of a new session, within the capacity.
LEMMA AcquireNewStep ==
    ASSUME IInv, NEW l \in Lessees, NEW s \in Sessions, AcquireNew(l, s)
    PROVE  IInv'
  <1>1. /\ s \notin all /\ s \notin doomed /\ lease[l] = NoSession /\ putting[l] = "no" /\ ~closed
        /\ idle = {} /\ Cardinality(all) < MaxTotal
        /\ leased' = leased \cup {s} /\ all' = all \cup {s}
        /\ lease' = [lease EXCEPT ![l] = s] /\ ses' = [ses EXCEPT ![s] = Fresh]
        /\ UNCHANGED <<closed, doomed, putting, idle, engineOpen, pending, spoiled, store>>
    BY DEF AcquireNew, Borrow, Sess, engineVars, IInv, TypeOK, LeaseBooks
  <1>2. s \notin engineOpen /\ pending[s] = {} /\ s \notin spoiled
    BY <1>1 DEF IInv, TransactionTracked, WorkOwned, FailureSticks
  <1>3. \A k \in Lessees : lease[k] # s
    BY <1>1, SessionPoolAssumption DEF IInv, ExclusiveUse
  <1>l. lease'[l] = s /\ \A k \in Lessees \ {l} : lease'[k] = lease[k]
    BY <1>1 DEF IInv, TypeOK
  <1>f. Fresh \in SessionRecords /\ ~Fresh.open /\ ~Fresh.closed
    BY DEF Fresh, SessionRecords, TxnStates, ErrorClasses
  <1>r. ses'[s] = Fresh /\ \A t \in Sessions \ {s} : ses'[t] = ses[t]
    BY <1>1 DEF IInv, TypeOK
  <1>4. TypeOK'
    <2>1. ses' \in [Sessions -> SessionRecords] BY <1>1, <1>f DEF IInv, TypeOK
    <2> QED BY <1>1, <2>1 DEF IInv, TypeOK
  <1>5. ExclusiveUse'
    BY <1>1, <1>3, <1>l DEF IInv, ExclusiveUse, TypeOK
  <1>6. CapacityAccounted'
    <2>1. \A t \in all' \ idle' : \E k \in Lessees : lease'[k] = t
      BY <1>1, <1>l, SessionPoolAssumption DEF IInv, CapacityAccounted, TypeOK
    <2>2. IsFiniteSet(all)
      BY FS_Subset, SessionPoolAssumption DEF IInv, TypeOK
    <2>3. Cardinality(all') = Cardinality(all) + 1
      BY <1>1, <2>2, FS_AddElement
    <2>4. Cardinality(all) \in Nat
      BY <2>2, FS_CardinalityType
    <2>5. Cardinality(all') <= MaxTotal
      BY <1>1, <2>3, <2>4, SessionPoolAssumption
    <2> QED BY <2>1, <2>5 DEF CapacityAccounted
  <1>7. CommittedIsWhole' /\ IdleIsClean'
    BY <1>1 DEF IInv, CommittedIsWhole, IdleIsClean
  <1>8. TransactionTracked' /\ FailureSticks'
    <2>1. \A t \in Sessions : t \in engineOpen' <=> t \in all' /\ ses'[t].open
      BY <1>1, <1>2, <1>f, <1>r DEF IInv, TransactionTracked
    <2> QED BY <1>1, <1>2, <1>r, <1>4, <2>1 DEF IInv, TransactionTracked, FailureSticks, TypeOK
  <1>9. LeaseBooks'
    <2>1. \A k \in Lessees : Holds(k)' <=> k = l \/ Holds(k)
      BY <1>1, <1>l, SessionPoolAssumption DEF Holds
    <2>2. \A t \in leased' : \E k \in Lessees : Holds(k)' /\ lease'[k] = t
      BY <1>1, <1>l, <2>1 DEF IInv, LeaseBooks, Holds
    <2> QED BY <1>1, <1>l, <2>1, <2>2 DEF IInv, LeaseBooks
  <1>10. WorkOwned'
    BY <1>1, <1>2, <1>l DEF IInv, WorkOwned
  <1>11. CloseEndsWork' /\ OpenWhileHeld'
    <2>1. \A k \in Lessees \ {l} : lease[k] # NoSession => ses'[lease[k]] = ses[lease[k]]
      BY <1>3, <1>r DEF IInv, TypeOK
    <2> QED BY <1>1, <1>f, <1>l, <1>r, <2>1 DEF IInv, CloseEndsWork, OpenWhileHeld, LeaseBooks, Poisoned
  <1> QED
    BY <1>4, <1>5, <1>6, <1>7, <1>8, <1>9, <1>10, <1>11 DEF IInv

-----------------------------------------------------------------------------
(* put() *)

\* First step of put(): only the books change.
LEMMA PutStep ==
    ASSUME IInv, NEW l \in Lessees, Put(l)
    PROVE  IInv'
  <1>1. /\ lease[l] # NoSession /\ putting[l] = "no"
        /\ leased' = leased \ {lease[l]} /\ putting' = [putting EXCEPT ![l] = "closing"]
        /\ UNCHANGED <<closed, all, idle, doomed, ses, engineOpen, pending, spoiled, store, lease>>
    BY DEF Put, Holds, engineVars
  <1>p. putting'[l] = "closing" /\ \A k \in Lessees \ {l} : putting'[k] = putting[k]
    BY <1>1 DEF IInv, TypeOK
  <1>2. TypeOK' BY <1>1 DEF IInv, TypeOK
  <1>3. ExclusiveUse' /\ CapacityAccounted' BY <1>1 DEF IInv, ExclusiveUse, CapacityAccounted
  <1>4. CommittedIsWhole' /\ IdleIsClean' /\ TransactionTracked' /\ FailureSticks' /\ WorkOwned'
    BY <1>1 DEF IInv, CommittedIsWhole, IdleIsClean, TransactionTracked, FailureSticks, WorkOwned
  <1>5. LeaseBooks'
    BY <1>1, <1>p DEF IInv, LeaseBooks, ExclusiveUse, Holds
  <1>6. CloseEndsWork' /\ OpenWhileHeld'
    BY <1>1, <1>p DEF IInv, CloseEndsWork, OpenWhileHeld
  <1> QED BY <1>2, <1>3, <1>4, <1>5, <1>6 DEF IInv

\* close() of the session being returned: its transaction ends, or the session
\* is poisoned.
LEMMA PutCloseStep ==
    ASSUME IInv, NEW l \in Lessees, NEW c \in Results, PutClose(l, c)
    PROVE  IInv'
  <1> DEFINE s == lease[l]
             x == ses[s]
             y == CloseSession(x, c)
             aborts == x.open /\ c = "None"
  <1>1. putting[l] = "closing" /\ lease[l] # NoSession
    BY DEF PutClose, IInv, LeaseBooks
  <1>s. s \in Sessions /\ s \in all /\ s \notin idle /\ \A k \in Lessees \ {l} : lease[k] # s
    BY <1>1 DEF IInv, TypeOK, ExclusiveUse
  <1>x. x \in SessionRecords /\ ~x.closed
    BY <1>1, <1>s DEF IInv, TypeOK, OpenWhileHeld
  <1>2. /\ UNCHANGED <<closed, all, idle, leased, doomed, lease>>
        /\ ses' = [ses EXCEPT ![s] = y] /\ putting' = [putting EXCEPT ![l] = "closed"]
        /\ engineOpen' = (IF aborts THEN engineOpen \ {s} ELSE engineOpen)
        /\ pending' = (IF aborts THEN [pending EXCEPT ![s] = {}] ELSE pending)
        /\ spoiled' = (IF aborts THEN spoiled \ {s} ELSE spoiled)
        /\ store' = store
    BY <1>x DEF PutClose, Sess, EngineRollback, EngineAborts, engineVars, poolVars
  <1>3. /\ y \in SessionRecords
        /\ y.open <=> x.open /\ c # "None"
        /\ Poisoned(y) \/ ~y.open
        /\ x.err # "None" => y.err # "None"
    BY <1>x, CloseOp, ResultsAreClasses
  <1> HIDE DEF y
  <1>r. ses'[s] = y /\ \A t \in Sessions \ {s} : ses'[t] = ses[t]
    BY <1>2, <1>s DEF IInv, TypeOK
  <1>q. putting'[l] = "closed" /\ \A k \in Lessees \ {l} : putting'[k] = putting[k]
    BY <1>2 DEF IInv, TypeOK
  <1>e. s \in engineOpen <=> x.open
    BY <1>s DEF IInv, TransactionTracked
  <1>p. /\ pending'[s] \subseteq pending[s] /\ (pending'[s] # {} => ~aborts)
        /\ \A t \in Sessions \ {s} : pending'[t] = pending[t]
    BY <1>2, <1>s DEF IInv, TypeOK
  <1>4. TypeOK'
    <2>1. ses' \in [Sessions -> SessionRecords] BY <1>2, <1>3, <1>s DEF IInv, TypeOK
    <2>2. pending' \in [Sessions -> SUBSET Lessees] BY <1>2, <1>s DEF IInv, TypeOK
    <2>3. putting' \in [Lessees -> {"no", "closing", "closed"}] BY <1>2 DEF IInv, TypeOK
    <2> QED BY <1>2, <2>1, <2>2, <2>3 DEF IInv, TypeOK
  <1>5. ExclusiveUse' /\ CapacityAccounted' /\ CommittedIsWhole'
    BY <1>2 DEF IInv, ExclusiveUse, CapacityAccounted, CommittedIsWhole
  <1>6. IdleIsClean'
    BY <1>2, <1>s, <1>r, <1>p DEF IInv, IdleIsClean, TypeOK
  <1>7. TransactionTracked'
    <2>1. \A t \in Sessions : t \in engineOpen' <=> t \in all' /\ ses'[t].open
      BY <1>2, <1>3, <1>s, <1>r, <1>e DEF IInv, TransactionTracked
    <2> QED BY <1>4, <2>1 DEF TransactionTracked, TypeOK
  <1>8. FailureSticks'
    BY <1>2, <1>3, <1>s, <1>r, <1>e DEF IInv, FailureSticks, TypeOK
  <1>9. LeaseBooks'
    BY <1>1, <1>2, <1>q DEF IInv, LeaseBooks, Holds
  <1>10. WorkOwned'
    <2>1. \A t \in Sessions : pending'[t] # {} => t \in engineOpen'
      BY <1>2, <1>s, <1>p DEF IInv, WorkOwned
    <2>2. \A k \in Lessees : lease'[k] # NoSession => pending'[lease'[k]] \subseteq {k}
      BY <1>2, <1>s, <1>p DEF IInv, WorkOwned, TypeOK
    <2> QED BY <2>1, <2>2 DEF WorkOwned
  <1>11. CloseEndsWork' /\ OpenWhileHeld'
    <2>1. \A k \in Lessees \ {l} : lease[k] # NoSession => ses'[lease[k]] = ses[lease[k]]
      BY <1>s, <1>r DEF IInv, TypeOK
    <2>2. \A k \in Lessees : putting[k] = "closed" => lease[k] # NoSession
      BY DEF IInv, LeaseBooks
    <2> QED BY <1>2, <1>3, <1>r, <1>q, <2>1, <2>2 DEF IInv, CloseEndsWork, OpenWhileHeld
  <1> QED
    BY <1>4, <1>5, <1>6, <1>7, <1>8, <1>9, <1>10, <1>11 DEF IInv

\* Last step of put(): the session is destroyed, or becomes idle; the idle one is
\* clean because its close() ended the transaction (CloseEndsWork).
LEMMA PutFinishStep ==
    ASSUME IInv, NEW l \in Lessees, PutFinish(l)
    PROVE  IInv'
  <1> DEFINE s == lease[l]
             x == ses[s]
             destroy == closed \/ Poisoned(x)
  <1>1. putting[l] = "closed" /\ lease[l] # NoSession
    BY DEF PutFinish, IInv, LeaseBooks
  <1>s. s \in Sessions /\ s \in all /\ s \notin idle /\ \A k \in Lessees \ {l} : lease[k] # s
    BY <1>1 DEF IInv, TypeOK, ExclusiveUse
  <1>x. x \in SessionRecords
    BY <1>s DEF IInv, TypeOK
  <1>n. s \notin leased
    BY <1>1, <1>s DEF IInv, LeaseBooks, Holds
  <1>2. /\ lease' = [lease EXCEPT ![l] = NoSession] /\ putting' = [putting EXCEPT ![l] = "no"]
        /\ UNCHANGED <<closed, leased, doomed>>
        /\ store' = store
    BY DEF PutFinish, EngineAborts, engineVars
  <1>l. lease'[l] = NoSession /\ \A k \in Lessees \ {l} : lease'[k] = lease[k]
    BY <1>2 DEF IInv, TypeOK
  <1>q. putting'[l] = "no" /\ \A k \in Lessees \ {l} : putting'[k] = putting[k]
    BY <1>2 DEF IInv, TypeOK
  <1>3. LeaseBooks'
    <2>1. closed' => idle' = {}
      BY <1>2 DEF PutFinish, IInv, LeaseBooks
    <2>2. \A k \in Lessees : Holds(k)' <=> k # l /\ Holds(k)
      BY <1>1, <1>2, <1>l, <1>q DEF Holds
    <2>3. \A t \in leased' : \E k \in Lessees : Holds(k)' /\ lease'[k] = t
      BY <1>1, <1>2, <1>l, <1>n, <2>2 DEF IInv, LeaseBooks
    <2> QED BY <1>2, <1>l, <1>q, <2>1, <2>2, <2>3 DEF IInv, LeaseBooks
  <1>4. CASE destroy
    <2>1. /\ all' = all \ {s} /\ engineOpen' = engineOpen \ {s} /\ spoiled' = spoiled \ {s}
          /\ pending' = [pending EXCEPT ![s] = {}] /\ idle' = idle /\ ses' = ses
      BY <1>4 DEF PutFinish, EngineAborts
    <2>p. pending'[s] = {} /\ \A t \in Sessions \ {s} : pending'[t] = pending[t]
      BY <1>s, <2>1 DEF IInv, TypeOK
    <2>2. TypeOK'
      <3>1. pending' \in [Sessions -> SUBSET Lessees] BY <1>s, <2>1 DEF IInv, TypeOK
      <3> QED BY <1>s, <1>n, <1>2, <2>1, <3>1 DEF IInv, TypeOK
    <2>3. ExclusiveUse'
      BY <1>s, <1>l, <2>1 DEF IInv, ExclusiveUse
    <2>4. CapacityAccounted'
      <3>1. \A t \in all' \ idle' : \E k \in Lessees : lease'[k] = t
        BY <1>s, <1>l, <2>1 DEF IInv, CapacityAccounted
      <3>2. IsFiniteSet(all)
        BY FS_Subset, SessionPoolAssumption DEF IInv, TypeOK
      <3>3. Cardinality(all') <= Cardinality(all) /\ Cardinality(all') \in Nat /\ Cardinality(all) \in Nat
        BY <2>1, <3>2, FS_Subset, FS_CardinalityType
      <3>4. Cardinality(all') <= MaxTotal
        BY <3>3, SessionPoolAssumption DEF IInv, CapacityAccounted
      <3> QED BY <3>1, <3>4 DEF CapacityAccounted
    <2>5. CommittedIsWhole' /\ IdleIsClean' /\ FailureSticks'
      BY <1>2, <1>s, <2>1, <2>p DEF IInv, TypeOK, CommittedIsWhole, IdleIsClean, FailureSticks
    <2>6. TransactionTracked'
      BY <2>1 DEF IInv, TransactionTracked
    <2>7. WorkOwned'
      BY <1>s, <1>l, <2>1, <2>p DEF IInv, WorkOwned, TypeOK
    <2>8. CloseEndsWork' /\ OpenWhileHeld'
      BY <1>l, <1>q, <2>1 DEF IInv, CloseEndsWork, OpenWhileHeld
    <2> QED BY <1>3, <2>2, <2>3, <2>4, <2>5, <2>6, <2>7, <2>8 DEF IInv
  <1>5. CASE ~destroy
    <2>1. /\ idle' = idle \cup {s} /\ ses' = [ses EXCEPT ![s] = ResetForReuse(x)]
          /\ all' = all /\ engineOpen' = engineOpen /\ pending' = pending /\ spoiled' = spoiled
      BY <1>5 DEF PutFinish, Sess, engineVars
    <2>2. ResetForReuse(x) = Fresh
      BY <1>5 DEF ResetForReuse, Fresh
    <2>3. ~x.open /\ s \notin engineOpen /\ pending[s] = {} /\ s \notin spoiled
      BY <1>1, <1>5, <1>s DEF IInv, CloseEndsWork, TransactionTracked, WorkOwned, FailureSticks
    <2>f. Fresh \in SessionRecords /\ ~Fresh.open
      BY DEF Fresh, SessionRecords, TxnStates, ErrorClasses
    <2>r. ses'[s] = Fresh /\ \A t \in Sessions \ {s} : ses'[t] = ses[t]
      BY <1>s, <2>1, <2>2 DEF IInv, TypeOK
    <2>4. TypeOK'
      <3>1. ses' \in [Sessions -> SessionRecords] BY <1>s, <2>1, <2>2, <2>f DEF IInv, TypeOK
      <3> QED BY <1>s, <1>2, <2>1, <3>1 DEF IInv, TypeOK
    <2>5. ExclusiveUse'
      BY <1>s, <1>l, <2>1 DEF IInv, ExclusiveUse
    <2>6. CapacityAccounted'
      BY <1>s, <1>l, <2>1 DEF IInv, CapacityAccounted
    <2>7. CommittedIsWhole' /\ IdleIsClean'
      BY <1>2, <1>s, <2>1, <2>3, <2>r DEF IInv, TypeOK, CommittedIsWhole, IdleIsClean
    <2>8. TransactionTracked' /\ FailureSticks'
      <3>1. \A t \in Sessions : t \in engineOpen' <=> t \in all' /\ ses'[t].open
        BY <2>1, <2>3, <2>f, <2>r DEF IInv, TransactionTracked
      <3> QED BY <2>1, <2>3, <2>4, <2>r, <3>1 DEF IInv, TransactionTracked, FailureSticks, TypeOK
    <2>9. WorkOwned'
      BY <1>l, <2>1 DEF IInv, WorkOwned
    <2>10. CloseEndsWork' /\ OpenWhileHeld'
      <3>1. \A k \in Lessees \ {l} : lease[k] # NoSession => ses'[lease[k]] = ses[lease[k]]
        BY <1>s, <2>r DEF IInv, TypeOK
      <3>2. \A k \in Lessees : putting[k] = "closed" => lease[k] # NoSession
        BY DEF IInv, LeaseBooks
      <3> QED BY <1>l, <1>q, <3>1, <3>2 DEF IInv, CloseEndsWork, OpenWhileHeld
    <2> QED BY <1>3, <2>4, <2>5, <2>6, <2>7, <2>8, <2>9, <2>10 DEF IInv
  <1> QED BY <1>4, <1>5

-----------------------------------------------------------------------------
(* shutdown() *)

\* shutdown() takes out the idle sessions and no others.
LEMMA ShutdownStep ==
    ASSUME IInv, Shutdown
    PROVE  IInv'
  <1>1. /\ closed' = TRUE /\ doomed' = idle /\ all' = all \ idle /\ idle' = {}
        /\ UNCHANGED <<leased, ses, engineOpen, pending, spoiled, store, lease, putting>>
    BY DEF Shutdown, engineVars, leaseVars
  <1>2. \A l \in Lessees : lease[l] # NoSession => lease[l] \in all \ idle
    BY DEF IInv, ExclusiveUse
  <1>3. TypeOK'
    <2>1. leased \subseteq all \ idle
      BY <1>2 DEF IInv, TypeOK, LeaseBooks, Holds
    <2> QED BY <1>1, <2>1 DEF IInv, TypeOK
  <1>4. ExclusiveUse'
    BY <1>1 DEF IInv, ExclusiveUse
  <1>5. CapacityAccounted'
    <2>1. IsFiniteSet(all)
      BY FS_Subset, SessionPoolAssumption DEF IInv, TypeOK
    <2>2. Cardinality(all') <= Cardinality(all) /\ Cardinality(all') \in Nat /\ Cardinality(all) \in Nat
      BY <1>1, <2>1, FS_Subset, FS_CardinalityType
    <2>3. Cardinality(all') <= MaxTotal
      BY <2>2, SessionPoolAssumption DEF IInv, CapacityAccounted
    <2> QED BY <1>1, <2>3 DEF IInv, CapacityAccounted
  <1>6. TransactionTracked'
    BY <1>1 DEF IInv, TransactionTracked, IdleIsClean
  <1>7. LeaseBooks'
    BY <1>1 DEF IInv, LeaseBooks, Holds
  <1>8. /\ CommittedIsWhole' /\ IdleIsClean' /\ FailureSticks' /\ WorkOwned'
        /\ CloseEndsWork' /\ OpenWhileHeld'
    BY <1>1 DEF IInv, CommittedIsWhole, IdleIsClean, FailureSticks, WorkOwned, CloseEndsWork, OpenWhileHeld
  <1> QED BY <1>3, <1>4, <1>5, <1>6, <1>7, <1>8 DEF IInv

\* Closing a session that was taken out concerns nobody else.
LEMMA ShutdownCloseStep ==
    ASSUME IInv, NEW s \in Sessions, ShutdownClose(s)
    PROVE  IInv'
  <1>1. /\ s \in doomed /\ doomed' = doomed \ {s}
        /\ UNCHANGED <<closed, all, idle, leased, ses, store, lease, putting>>
        /\ engineOpen' = engineOpen \ {s} /\ spoiled' = spoiled \ {s}
        /\ pending' = [pending EXCEPT ![s] = {}]
    BY DEF ShutdownClose, EngineAborts, leaseVars
  <1>2. s \notin all /\ s \notin engineOpen /\ s \notin spoiled /\ pending[s] = {}
    BY <1>1 DEF IInv, TypeOK, TransactionTracked, FailureSticks, WorkOwned
  <1>3. engineOpen' = engineOpen /\ spoiled' = spoiled /\ pending' = pending
    BY <1>1, <1>2 DEF IInv, TypeOK
  <1>4. TypeOK' BY <1>1, <1>3 DEF IInv, TypeOK
  <1>5. /\ ExclusiveUse' /\ CapacityAccounted' /\ CommittedIsWhole' /\ IdleIsClean'
        /\ TransactionTracked'
    BY <1>1, <1>3 DEF IInv, ExclusiveUse, CapacityAccounted, CommittedIsWhole, IdleIsClean, TransactionTracked
  <1>6. LeaseBooks' BY <1>1 DEF IInv, LeaseBooks, Holds
  <1>7. WorkOwned' /\ FailureSticks' /\ CloseEndsWork' /\ OpenWhileHeld'
    BY <1>1, <1>3 DEF IInv, WorkOwned, FailureSticks, CloseEndsWork, OpenWhileHeld
  <1> QED BY <1>4, <1>5, <1>6, <1>7 DEF IInv

-----------------------------------------------------------------------------
(* Theorems *)

\* A new pool satisfies the inductive invariant.
LEMMA InitIInv == Init => IInv
  <1> SUFFICES ASSUME Init PROVE IInv OBVIOUS
  <1>1. TypeOK
    BY DEF Init, TypeOK, Fresh, SessionRecords, TxnStates, ErrorClasses
  <1>2. CapacityAccounted
    BY FS_EmptySet, SessionPoolAssumption DEF Init, CapacityAccounted
  <1>3. ExclusiveUse /\ CommittedIsWhole /\ IdleIsClean /\ TransactionTracked /\ WorkOwned /\ FailureSticks
    BY DEF Init, ExclusiveUse, CommittedIsWhole, IdleIsClean, TransactionTracked, WorkOwned, FailureSticks
  <1>4. LeaseBooks /\ CloseEndsWork /\ OpenWhileHeld
    BY DEF Init, LeaseBooks, CloseEndsWork, OpenWhileHeld, Holds
  <1> QED BY <1>1, <1>2, <1>3, <1>4 DEF IInv

\* Every step of a lessee, of put() and of shutdown() preserves the inductive
\* invariant.
LEMMA NextIInv == IInv /\ [Next]_vars => IInv'
  <1> SUFFICES ASSUME IInv, [Next]_vars PROVE IInv' OBVIOUS
  <1>1. CASE Next
    <2>1. ASSUME NEW l \in Lessees, NEW s \in Sessions, AcquireIdle(l, s) \/ AcquireNew(l, s) PROVE IInv'
      BY <2>1, AcquireIdleStep, AcquireNewStep
    <2>2. ASSUME NEW l \in Lessees, NEW c \in Results,
                 Begin(l, c) \/ Operate(l, c) \/ CommitRefused(l, c) \/ Commit(l, c)
                 \/ RollbackCall(l, c) \/ PutClose(l, c)
          PROVE  IInv'
      BY <2>2, BeginStep, OperateStep, CommitRefusedStep, CommitStep, RollbackCallStep, PutCloseStep
    <2>3. ASSUME NEW l \in Lessees, CommitNothing(l) \/ Put(l) \/ PutFinish(l) PROVE IInv'
      BY <2>3, CommitNothingStep, PutStep, PutFinishStep
    <2>4. ASSUME Shutdown \/ \E s \in Sessions : ShutdownClose(s) PROVE IInv'
      BY <2>4, ShutdownStep, ShutdownCloseStep
    <2> QED BY <1>1, <2>1, <2>2, <2>3, <2>4 DEF Next
  <1>2. CASE UNCHANGED vars
    BY <1>2 DEF vars, poolVars, engineVars, leaseVars, IInv, TypeOK, ExclusiveUse, CapacityAccounted,
       CommittedIsWhole, IdleIsClean, TransactionTracked, LeaseBooks, WorkOwned, FailureSticks,
       CloseEndsWork, OpenWhileHeld, Holds
  <1> QED BY <1>1, <1>2

\* IInv is an invariant of the pool.
THEOREM PoolInvariance == Spec => []IInv
  BY InitIInv, NextIInv, PTL DEF Spec

\* No session is ever in the hands of two flows, nor idle while in use.
THEOREM SessionExclusion == Spec => []ExclusiveUse
  <1>1. IInv => ExclusiveUse BY DEF IInv
  <1> QED BY <1>1, PoolInvariance, PTL

\* Capacity is neither exceeded nor lost.
THEOREM PoolCapacity == Spec => []CapacityAccounted
  <1>1. IInv => CapacityAccounted BY DEF IInv
  <1> QED BY <1>1, PoolInvariance, PTL

\* A commit that succeeds is the whole, unspoiled work of one flow.
THEOREM AtomicCommit == Spec => []CommittedIsWhole
  <1>1. IInv => CommittedIsWhole BY DEF IInv
  <1> QED BY <1>1, PoolInvariance, PTL

\* A reused session carries nothing over from its earlier holders.
THEOREM CleanReuse == Spec => []IdleIsClean
  <1>1. IInv => IdleIsClean BY DEF IInv
  <1> QED BY <1>1, PoolInvariance, PTL

\* txn_open_ and the engine agree.
THEOREM TrackedTransactions == Spec => []TransactionTracked
  <1>1. IInv => TransactionTracked BY DEF IInv
  <1> QED BY <1>1, PoolInvariance, PTL

\* A closed pool owns the borrowed sessions and nothing else.
THEOREM ClosedPool == Spec => []ClosedLeavesBorrowed
  <1>1. ASSUME IInv, closed PROVE all = {lease[l] : l \in Lessees} \ {NoSession}
    <2>1. idle = {} BY <1>1 DEF IInv, LeaseBooks
    <2>2. \A l \in Lessees : lease[l] # NoSession => lease[l] \in all
      BY <1>1 DEF IInv, ExclusiveUse
    <2>3. \A s \in all : s # NoSession /\ \E l \in Lessees : lease[l] = s
      BY <1>1, <2>1, SessionPoolAssumption DEF IInv, CapacityAccounted, TypeOK
    <2> QED BY <2>2, <2>3
  <1>2. IInv => ClosedLeavesBorrowed
    BY <1>1 DEF ClosedLeavesBorrowed, IInv, TransactionTracked
  <1> QED BY <1>2, PoolInvariance, PTL

\* A poisoned session stays poisoned until it is destroyed: no sequence of
\* begin, commit, rollback, close and reset makes it usable again.
THEOREM PoisonStays == Spec => PoisonIsForever
  <1>1. ASSUME IInv, [Next]_vars, NEW s \in all, Poisoned(ses[s])
        PROVE  s \notin all' \/ Poisoned(ses'[s])
    <2> USE <1>1
    <2>t. ses \in [Sessions -> SessionRecords] /\ all \subseteq Sessions
      BY DEF IInv, TypeOK
    <2>1. ASSUME NEW t, NEW y, ses' = [ses EXCEPT ![t] = y], t = s => Poisoned(y)
          PROVE  Poisoned(ses'[s])
      BY <2>1, <2>t
    <2>2. ASSUME NEW x \in SessionRecords, Poisoned(x), NEW c
          PROVE  /\ Poisoned(Rollback(x, c)) /\ Poisoned(CloseSession(x, c))
                 /\ Poisoned(Fail(x, c)) /\ Poisoned(SetErr(x, c))
      BY <2>2 DEF SessionRecords, Poisoned, Rollback, CloseSession, Fail, SetErr, Poison, OnRollback
    <2>3. ASSUME NEW l \in Lessees, NEW u \in Sessions, AcquireIdle(l, u) \/ AcquireNew(l, u)
          PROVE  Poisoned(ses'[s])
      BY <2>3, <2>1 DEF AcquireIdle, AcquireNew, Sess
    <2>4. ASSUME NEW l \in Lessees, NEW c \in Results, Begin(l, c) \/ Commit(l, c)
          PROVE  Poisoned(ses'[s])
      <3>1. lease[l] # s
        BY <2>4 DEF Begin, Commit, Poisoned
      <3>2. \E y : ses' = [ses EXCEPT ![lease[l]] = y]
        BY <2>4 DEF Begin, Commit, Sess
      <3> QED BY <2>1, <3>1, <3>2
    <2>5. ASSUME NEW l \in Lessees, NEW c \in Results,
                 Operate(l, c) \/ CommitRefused(l, c) \/ RollbackCall(l, c) \/ PutClose(l, c)
                 \/ CommitNothing(l)
          PROVE  Poisoned(ses'[s])
      <3>1. \/ ses' = ses
            \/ \E y : /\ ses' = [ses EXCEPT ![lease[l]] = y]
                      /\ \/ y = Fail(ses[lease[l]], c) \/ y = Rollback(ses[lease[l]], c)
                         \/ y = CloseSession(ses[lease[l]], c) \/ y = SetErr(ses[lease[l]], "Unknown")
        BY <2>5 DEF Operate, CommitRefused, RollbackCall, PutClose, CommitNothing, Sess
      <3> QED BY <2>1, <2>2, <2>t, <3>1
    <2>6. ASSUME NEW l \in Lessees, Put(l) \/ PutFinish(l)
          PROVE  Poisoned(ses'[s])
      <3>1. ses' = ses \/ (~Poisoned(ses[lease[l]]) /\ \E y : ses' = [ses EXCEPT ![lease[l]] = y])
        BY <2>6 DEF Put, PutFinish, Sess
      <3> QED BY <2>1, <3>1
    <2>7. ASSUME Shutdown \/ (\E u \in Sessions : ShutdownClose(u)) \/ UNCHANGED vars
          PROVE  Poisoned(ses'[s])
      BY <2>7 DEF Shutdown, ShutdownClose, vars
    <2>8. ASSUME NEW l \in Lessees, CommitNothing(l) PROVE Poisoned(ses'[s])
      <3>1. "None" \in Results BY DEF Results
      <3> QED BY <2>5, <2>8, <3>1
    <2> QED BY <2>3, <2>4, <2>5, <2>6, <2>7, <2>8 DEF Next
  <1>2. IInv /\ [Next]_vars => [\A s \in all : Poisoned(ses[s]) => s \notin all' \/ Poisoned(ses'[s])]_vars
    BY <1>1
  <1> QED BY <1>2, PoolInvariance, PTL DEF Spec, PoisonIsForever
=============================================================================
