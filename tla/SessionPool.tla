---------------------------- MODULE SessionPool ----------------------------
(***************************************************************************)
(* The pooled WT sessions of one graph instance: SessionPoolCore (bounded  *)
(* pool, idle and leased bookkeeping), GraphSession with its TxnController *)
(* and StickyError, and SessionLease.  A lessee is one execution flow; it  *)
(* holds at most one lease and uses it serially.  put() runs in three      *)
(* steps because it leaves its mutex to close the session.                 *)
(*                                                                         *)
(* WiredTiger is external: any call may succeed or return an error of any  *)
(* class.  engineOpen and pending are what the engine holds, ses is what   *)
(* the C++ object believes.                                                *)
(***************************************************************************)
EXTENDS Naturals, FiniteSets

CONSTANTS
    Lessees,        \* execution flows
    Sessions,       \* addresses of GraphSession objects
    NoSession,
    MaxTotal,       \* max_total_
    EngineErrors    \* classes of errors WiredTiger calls return here

ASSUME SessionPoolAssumption ==
    /\ IsFiniteSet(Sessions)
    /\ NoSession \notin Sessions
    /\ MaxTotal \in Nat
    /\ EngineErrors \subseteq {"Busy", "Rollback", "CacheOverflow", "Panic", "Unknown"}

VARIABLES
    closed,         \* closed_ of the pool
    all,            \* all_: sessions the pool owns
    idle,           \* idle_ (which idle session is reused is left open)
    leased,         \* leased_
    doomed,         \* sessions shutdown() has taken out and not closed yet
    ses,            \* session -> TxnController, StickyError and closed_
    engineOpen,     \* external: sessions whose WT transaction is open
    pending,        \* external: session -> lessees with writes in it
    spoiled,        \* history: sessions in whose transaction an operation failed
    store,          \* history: the commits that became durable
    lease,          \* lessee -> session of its SessionLease
    putting         \* lessee -> step of the put() returning that session

poolVars == <<closed, all, idle, leased, doomed>>
engineVars == <<engineOpen, pending, spoiled, store>>
leaseVars == <<lease, putting>>
vars == <<poolVars, ses, engineVars, leaseVars>>

-----------------------------------------------------------------------------
(* session_types.hpp and txn_controller.hpp *)

TxnStates == {"None", "Active", "Committed", "RolledBack", "Failed"}
Failures == {"Busy", "Rollback", "CacheOverflow", "Panic", "Unknown"}
ErrorClasses == Failures \cup {"None"}

\* classifyWtError of what a WT call returns.
Results == EngineErrors \cup {"None"}

IsRetryable(c) == c = "Busy"
PoisonsSession(c) == c \in {"Rollback", "CacheOverflow", "Panic", "Unknown"}

\* A GraphSession: state_ and txn_open_ of its controller, class of the sticky
\* error ("None": no error), closed_.
SessionRecords == [state : TxnStates, open : BOOLEAN, err : ErrorClasses, closed : BOOLEAN]
Fresh == [state |-> "None", open |-> FALSE, err |-> "None", closed |-> FALSE]

Poisoned(x) == x.state = "Failed"
CanBegin(x) == x.state \notin {"Active", "Failed"} /\ ~x.open

TxnBegin(x) == [x EXCEPT !.state = "Active", !.open = TRUE]

OnCommitResult(x, c) ==
    [x EXCEPT !.open = FALSE,
              !.state = IF c = "None" THEN "Committed"
                        ELSE IF IsRetryable(c) THEN "RolledBack" ELSE "Failed"]

OnRollback(x) ==
    [x EXCEPT !.open = FALSE, !.state = IF @ = "Active" THEN "RolledBack" ELSE @]

Poison(x) == [x EXCEPT !.state = "Failed"]

\* StickyError::set keeps the first failure.
SetErr(x, c) == [x EXCEPT !.err = IF @ = "None" THEN c ELSE @]

\* GraphSession::rollback; c is the result of rollback_transaction.
Rollback(x, c) ==
    IF x.open /\ c # "None" THEN SetErr(Poison(x), c) ELSE OnRollback(x)

\* GraphSession::close, up to the closed_ guard.
CloseSession(x, c) ==
    IF x.closed THEN x
    ELSE LET y == [x EXCEPT !.closed = TRUE] IN
         IF ~y.open THEN y
         ELSE IF c # "None" THEN SetErr(Poison(y), c) ELSE OnRollback(y)

\* Bug: the error of the last user stays.
MutResetForReuse(x) ==
    [state |-> IF Poisoned(x) THEN "Failed" ELSE "None", open |-> FALSE, err |-> x.err, closed |-> FALSE]

\* GraphSession::reset_for_reuse.  Its caller has closed the session and found
\* it healthy, so the transaction is over (IdleIsClean is about that).
ResetForReuse(x) ==
    [state |-> IF Poisoned(x) THEN "Failed" ELSE "None", open |-> FALSE, err |-> "None", closed |-> FALSE]

\* GraphSession::fail
Fail(x, c) == IF PoisonsSession(c) THEN Poison(SetErr(x, c)) ELSE SetErr(x, c)

-----------------------------------------------------------------------------
(* Helpers *)

Holds(l) == lease[l] # NoSession /\ putting[l] = "no"

Sess(s, x) == ses' = [ses EXCEPT ![s] = x]

\* The engine ends the transaction of session s without keeping its writes.
EngineAborts(s) ==
    /\ engineOpen' = engineOpen \ {s}
    /\ pending' = [pending EXCEPT ![s] = {}]
    /\ spoiled' = spoiled \ {s}
    /\ UNCHANGED store

EngineCommits(l, s) ==
    /\ engineOpen' = engineOpen \ {s}
    /\ pending' = [pending EXCEPT ![s] = {}]
    /\ spoiled' = spoiled \ {s}
    /\ store' = store \cup {[holder |-> l, writers |-> pending[s], clean |-> s \notin spoiled]}

-----------------------------------------------------------------------------
(* SessionPoolCore::acquire *)

Borrow(l, s) ==
    /\ lease[l] = NoSession
    /\ ~closed
    /\ leased' = leased \cup {s}
    /\ lease' = [lease EXCEPT ![l] = s]
    /\ UNCHANGED <<closed, doomed, putting>>

AcquireIdle(l, s) ==
    /\ s \in idle
    /\ Borrow(l, s)
    /\ idle' = idle \ {s}
    /\ UNCHANGED <<all, ses, engineVars>>

AcquireNew(l, s) ==
    /\ idle = {}
    /\ Cardinality(all) < MaxTotal
    /\ s \notin all \cup doomed
    /\ Borrow(l, s)
    /\ all' = all \cup {s}
    /\ Sess(s, Fresh)
    /\ UNCHANGED <<idle, engineVars>>

-----------------------------------------------------------------------------
(* GraphSession, used by the lessee that holds it *)

\* Bug: a begin that is refused has already cleared the sticky error.
MutBegin(l, c) ==
    LET s == lease[l] x == ses[s] IN
    /\ Holds(l) /\ ~x.closed /\ ~Poisoned(x)
    /\ IF ~CanBegin(x)
       THEN Sess(s, [x EXCEPT !.err = "None"]) /\ UNCHANGED <<engineOpen, spoiled>>
       ELSE LET y == [TxnBegin(x) EXCEPT !.err = "None"] IN
            IF c = "None"
            THEN Sess(s, y) /\ engineOpen' = engineOpen \cup {s} /\ spoiled' = spoiled \ {s}
            ELSE LET z == SetErr(OnRollback(y), c) IN
                 Sess(s, IF c = "Panic" THEN Poison(z) ELSE z) /\ UNCHANGED <<engineOpen, spoiled>>
    /\ UNCHANGED <<poolVars, pending, store, leaseVars>>

\* begin(); c is the result of begin_transaction.  A refused begin changes
\* nothing, in particular not the sticky error.
Begin(l, c) ==
    LET s == lease[l] x == ses[s] y == [TxnBegin(x) EXCEPT !.err = "None"] IN
    /\ Holds(l) /\ ~x.closed /\ ~Poisoned(x) /\ CanBegin(x)
    /\ IF c = "None"
       THEN Sess(s, y) /\ engineOpen' = engineOpen \cup {s} /\ spoiled' = spoiled \ {s}
       ELSE LET z == SetErr(OnRollback(y), c) IN
            Sess(s, IF c = "Panic" THEN Poison(z) ELSE z) /\ UNCHANGED <<engineOpen, spoiled>>
    /\ UNCHANGED <<poolVars, pending, store, leaseVars>>

\* A data operation of the statement; c is its result.  A caller may ignore a
\* failure and go on.
Operate(l, c) ==
    LET s == lease[l] x == ses[s] IN
    /\ Holds(l) /\ x.open
    /\ IF c = "None"
       THEN pending' = [pending EXCEPT ![s] = @ \cup {l}] /\ UNCHANGED <<ses, spoiled>>
       ELSE Sess(s, Fail(x, c)) /\ spoiled' = spoiled \cup {s} /\ UNCHANGED pending
    /\ UNCHANGED <<poolVars, engineOpen, store, leaseVars>>

\* Rollback reaches the engine only while txn_open_ is set.
EngineRollback(s, x, c) ==
    IF x.open /\ c = "None" THEN EngineAborts(s) ELSE UNCHANGED engineVars

\* commit() refused because of an earlier failure: it rolls back.
CommitRefused(l, c) ==
    LET s == lease[l] x == ses[s] IN
    /\ Holds(l) /\ x.err # "None"
    /\ Sess(s, Rollback(x, c))
    /\ EngineRollback(s, x, c)
    /\ UNCHANGED <<poolVars, leaseVars>>

CommitNothing(l) ==
    LET s == lease[l] x == ses[s] IN
    /\ Holds(l) /\ x.err = "None" /\ ~(x.state = "Active" /\ x.open)
    /\ Sess(s, SetErr(x, "Unknown"))
    /\ UNCHANGED <<poolVars, engineVars, leaseVars>>

\* commit_transaction; a failed one has ended the transaction too.
Commit(l, c) ==
    LET s == lease[l] x == ses[s] IN
    /\ Holds(l) /\ x.err = "None" /\ x.state = "Active" /\ x.open
    /\ Sess(s, SetErr(OnCommitResult(x, c), c))
    /\ IF c = "None" THEN EngineCommits(l, s) ELSE EngineAborts(s)
    /\ UNCHANGED <<poolVars, leaseVars>>

RollbackCall(l, c) ==
    LET s == lease[l] x == ses[s] IN
    /\ Holds(l)
    /\ Sess(s, Rollback(x, c))
    /\ EngineRollback(s, x, c)
    /\ UNCHANGED <<poolVars, leaseVars>>

-----------------------------------------------------------------------------
(* SessionLease::release and SessionPoolCore::put *)

\* Bug: the session is idle before it has been closed.
MutPut(l) ==
    /\ Holds(l)
    /\ leased' = leased \ {lease[l]}
    /\ idle' = idle \cup {lease[l]}
    /\ putting' = [putting EXCEPT ![l] = "closing"]
    /\ UNCHANGED <<closed, all, doomed, ses, engineVars, lease>>

Put(l) ==
    /\ Holds(l)
    /\ leased' = leased \ {lease[l]}
    /\ putting' = [putting EXCEPT ![l] = "closing"]
    /\ UNCHANGED <<closed, all, idle, doomed, ses, engineVars, lease>>

\* session.close(), outside the mutex.
PutClose(l, c) ==
    LET s == lease[l] x == ses[s] IN
    /\ putting[l] = "closing"
    /\ Sess(s, CloseSession(x, c))
    /\ IF x.closed THEN UNCHANGED engineVars ELSE EngineRollback(s, x, c)
    /\ putting' = [putting EXCEPT ![l] = "closed"]
    /\ UNCHANGED <<poolVars, lease>>

\* Bug: a poisoned session is not taken out of all_ and eats capacity for ever.
MutPutKeepsPoisoned(l) ==
    LET s == lease[l] x == ses[s] IN
    /\ putting[l] = "closed"
    /\ IF closed \/ Poisoned(x)
       THEN all' = (IF closed THEN all \ {s} ELSE all) /\ EngineAborts(s) /\ UNCHANGED <<idle, ses>>
       ELSE idle' = idle \cup {s} /\ Sess(s, ResetForReuse(x)) /\ UNCHANGED <<all, engineVars>>
    /\ lease' = [lease EXCEPT ![l] = NoSession]
    /\ putting' = [putting EXCEPT ![l] = "no"]
    /\ UNCHANGED <<closed, leased, doomed>>

\* A poisoned session, and any session of a closed pool, is destroyed (the WT
\* session closes, which ends its transaction); the others become idle again.
PutFinish(l) ==
    LET s == lease[l] x == ses[s] IN
    /\ putting[l] = "closed"
    /\ IF closed \/ Poisoned(x)
       THEN all' = all \ {s} /\ EngineAborts(s) /\ UNCHANGED <<idle, ses>>
       ELSE idle' = idle \cup {s} /\ Sess(s, ResetForReuse(x)) /\ UNCHANGED <<all, engineVars>>
    /\ lease' = [lease EXCEPT ![l] = NoSession]
    /\ putting' = [putting EXCEPT ![l] = "no"]
    /\ UNCHANGED <<closed, leased, doomed>>

-----------------------------------------------------------------------------
(* SessionPoolCore::shutdown, called before the connection closes *)

Shutdown ==
    /\ ~closed
    /\ closed' = TRUE
    /\ doomed' = idle
    /\ all' = all \ idle
    /\ idle' = {}
    /\ UNCHANGED <<leased, ses, engineVars, leaseVars>>

ShutdownClose(s) ==
    /\ s \in doomed
    /\ doomed' = doomed \ {s}
    /\ EngineAborts(s)
    /\ UNCHANGED <<closed, all, idle, leased, ses, leaseVars>>

-----------------------------------------------------------------------------
Init ==
    /\ closed = FALSE
    /\ all = {} /\ idle = {} /\ leased = {} /\ doomed = {}
    /\ ses = [s \in Sessions |-> Fresh]
    /\ engineOpen = {}
    /\ pending = [s \in Sessions |-> {}]
    /\ spoiled = {}
    /\ store = {}
    /\ lease = [l \in Lessees |-> NoSession]
    /\ putting = [l \in Lessees |-> "no"]

Next ==
    \/ \E l \in Lessees :
        \/ \E s \in Sessions : AcquireIdle(l, s) \/ AcquireNew(l, s)
        \/ \E c \in Results :
            \/ Begin(l, c) \/ Operate(l, c)
            \/ CommitRefused(l, c) \/ Commit(l, c) \/ RollbackCall(l, c)
            \/ PutClose(l, c)
        \/ CommitNothing(l) \/ Put(l) \/ PutFinish(l)
    \/ Shutdown
    \/ \E s \in Sessions : ShutdownClose(s)

Spec == Init /\ [][Next]_vars

-----------------------------------------------------------------------------
(* Properties *)

Commits == [holder : Lessees, writers : SUBSET Lessees, clean : BOOLEAN]

\* Every variable has its type; the pointers in idle_ and leased_ are sessions
\* the pool owns.
TypeOK ==
    /\ closed \in BOOLEAN
    /\ all \subseteq Sessions /\ doomed \subseteq Sessions \ all
    /\ idle \subseteq all /\ leased \subseteq all
    /\ ses \in [Sessions -> SessionRecords]
    /\ engineOpen \subseteq Sessions
    /\ pending \in [Sessions -> SUBSET Lessees]
    /\ spoiled \subseteq Sessions
    /\ store \subseteq Commits
    /\ lease \in [Lessees -> Sessions \cup {NoSession}]
    /\ putting \in [Lessees -> {"no", "closing", "closed"}]

\* A session is used by one execution flow at a time, from acquire() until the
\* last step of put(), and the pool owns it all that time.
ExclusiveUse ==
    \A l \in Lessees : lease[l] # NoSession =>
        /\ lease[l] \in all \ idle
        /\ \A k \in Lessees \ {l} : lease[k] # lease[l]

\* Capacity is neither exceeded nor lost: the pool owns at most max_total_
\* sessions, and each of them is idle or in somebody's hands.
CapacityAccounted ==
    /\ Cardinality(all) <= MaxTotal
    /\ \A s \in all \ idle : \E l \in Lessees : lease[l] = s

\* What becomes durable is the whole work of one flow: no commit succeeds after
\* an operation of its transaction failed, even if the caller ignored the
\* failure, and no commit carries writes of an earlier holder of the session.
CommittedIsWhole ==
    \A c \in store : c.clean /\ c.writers \subseteq {c.holder}

\* A session waiting in idle_ is indistinguishable from a new one: no error,
\* no transaction in the object or in the engine, not closed, no writes.
IdleIsClean ==
    \A s \in idle : ses[s] = Fresh /\ s \notin engineOpen /\ pending[s] = {}

\* txn_open_ tells the truth: the engine has a transaction open exactly for the
\* pooled sessions whose object says so.  One it has forgotten would never be
\* rolled back, one it only believes in would let a statement write outside any
\* transaction.
TransactionTracked == engineOpen = {s \in all : ses[s].open}

\* After shutdown() the sessions that remain are those still borrowed; when
\* the last lease is returned nothing holds the connection any more.
ClosedLeavesBorrowed ==
    closed => /\ all = {lease[l] : l \in Lessees} \ {NoSession}
              /\ engineOpen \subseteq {lease[l] : l \in Lessees}

\* Poison cannot be washed off: a failed session stays failed for its holder
\* (begin, commit, rollback and reset included) until it is destroyed.
PoisonIsForever ==
    [][\A s \in all : Poisoned(ses[s]) => s \notin all' \/ Poisoned(ses'[s])]_vars

(* The inductive invariant *)

\* The bookkeeping of leases: a put() in progress belongs to a lease, leased_
\* holds the sessions of the leases not being returned, a closed pool has no
\* idle session.
LeaseBooks ==
    /\ \A l \in Lessees :
        /\ putting[l] # "no" => lease[l] # NoSession
        /\ Holds(l) => lease[l] \in leased
    /\ \A s \in leased : \E l \in Lessees : Holds(l) /\ lease[l] = s
    /\ closed => idle = {}

\* What the engine holds belongs to one lease: writes only in an open
\* transaction, and only those of the flow that has the session.
WorkOwned ==
    /\ \A s \in Sessions : pending[s] # {} => s \in engineOpen
    /\ \A l \in Lessees : lease[l] # NoSession => pending[lease[l]] \subseteq {l}

\* A failed operation is remembered: the sticky error is set as long as the
\* transaction it failed in is open.
FailureSticks == \A s \in spoiled : s \in engineOpen /\ ses[s].err # "None"

\* A session whose close() has returned is healthy only if its transaction is
\* over.
CloseEndsWork ==
    \A l \in Lessees : putting[l] = "closed" =>
        Poisoned(ses[lease[l]]) \/ ~ses[lease[l]].open

\* A session is closed only by the put() that returns it.
OpenWhileHeld ==
    \A l \in Lessees : lease[l] # NoSession /\ putting[l] # "closed" => ~ses[lease[l]].closed

IInv ==
    /\ TypeOK /\ ExclusiveUse /\ CapacityAccounted /\ CommittedIsWhole /\ IdleIsClean
    /\ TransactionTracked /\ LeaseBooks /\ WorkOwned /\ FailureSticks
    /\ CloseEndsWork /\ OpenWhileHeld
=============================================================================
