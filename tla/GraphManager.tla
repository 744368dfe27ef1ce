---------------------------- MODULE GraphManager ----------------------------
(***************************************************************************)
(* Life cycle of the graph databases of one eugraph-server process:        *)
(* GraphManager (the map graphs_, its shared_mutex mu_, the checkpoint     *)
(* thread), the GraphUsageGate of every GraphInstance, the leased sessions *)
(* of its pool, and the persistent CatalogStore.                           *)
(*                                                                         *)
(* A graph instance is named by its graph_id: an id is opened at most once *)
(* per process run.  A flow is one execution that may hold a GraphLease (a *)
(* statement, a result stream, an explicit transaction, a DDL statement).  *)
(* Disk state survives a Crash; everything else does not.                  *)
(***************************************************************************)
EXTENDS Naturals, FiniteSets

CONSTANTS
    Names,          \* graph names
    Default,        \* kDefaultGraphName
    Flows,          \* execution flows
    MaxIds,         \* bound: ids ever allocated
    CatalogFaults   \* TRUE: a catalog write may fail

Ids == 0 .. MaxIds - 1
NoId == MaxIds          \* absent entry, no lease

ASSUME GraphManagerAssumption ==
    /\ MaxIds \in Nat \ {0}
    /\ Default \in Names
    /\ CatalogFaults \in BOOLEAN

VARIABLES
    catalog,    \* disk: G|name -> graph_id
    nextId,     \* disk: N|next_graph_id
    dirs,       \* disk: ids whose directory graph_<id> exists
    phase,      \* of the process
    toOpen,     \* init: catalog entries not opened yet
    graphs,     \* graphs_: name -> open instance
    inst,       \* state of the WT connections of each instance
    gate,       \* ids whose GraphUsageGate is closed_
    writer,     \* the createGraph holding mu_ exclusively, or NoWriter
    ckpt,       \* instances checkpointAll is working on under shared mu_
    guard,      \* flow -> id of the lease it holds
    sess,       \* flow -> the pooled session it uses on guard[flow]
    drop,       \* flow -> stage of its dropGraph call
    dropId,     \* flow -> instance that call has moved out of graphs_
    stopping,   \* shutdown: instances extracted and not waited for yet
    drained,    \* shutdown: instances waited for successfully
    gone        \* history: ids a dropGraph has moved out of graphs_

disk == <<catalog, nextId, dirs>>
flowVars == <<guard, sess, drop, dropId>>
stopVars == <<stopping, drained>>
vars == <<disk, phase, toOpen, graphs, inst, gate, writer, ckpt, flowVars, stopVars, gone>>

-----------------------------------------------------------------------------
(* Types and derived state *)

Phases == {"down", "starting", "up", "stopping", "exiting"}
InstStates == {"none", "open", "leaked", "closed"}
SessStates == {"none", "leased", "closing"}
DropStages == {"idle", "unmapped", "waiting", "drained", "removing"}
WriterSteps == {"entry", "open"}

NoWriter == [name |-> Default, id |-> NoId, step |-> "entry"]

\* inflight_ of the gate of instance i, as the set of flows counted in it.
Inflight(i) == {f \in Flows : guard[f] = i}

\* leased_ of the session pool of instance i: a session being put() is no
\* longer counted while its close() still runs.
Leased(i) == {f \in Flows : guard[f] = i /\ sess[f] = "leased"}

Mapped == {graphs[n] : n \in Names} \ {NoId}

\* mu_ can be taken exclusively, resp. shared.
ExclusiveFree == writer = NoWriter /\ ckpt = {}
SharedFree == writer = NoWriter

TypeOK ==
    /\ catalog \in [Names -> Ids \cup {NoId}]
    /\ nextId \in 0 .. MaxIds
    /\ dirs \subseteq Ids
    /\ phase \in Phases
    /\ toOpen \subseteq Names
    /\ graphs \in [Names -> Ids \cup {NoId}]
    /\ inst \in [Ids -> InstStates]
    /\ gate \subseteq Ids
    /\ writer \in [name : Names, id : Ids \cup {NoId}, step : WriterSteps]
    /\ ckpt \subseteq Ids
    /\ guard \in [Flows -> Ids \cup {NoId}]
    /\ sess \in [Flows -> SessStates]
    /\ drop \in [Flows -> DropStages]
    /\ dropId \in [Flows -> Ids \cup {NoId}]
    /\ stopping \subseteq Ids
    /\ drained \subseteq Ids
    /\ gone \subseteq Ids

-----------------------------------------------------------------------------
(* The process starts empty, and a crash or an exit empties it again *)

NoProcess ==
    /\ phase' = "down"
    /\ toOpen' = {}
    /\ graphs' = [n \in Names |-> NoId]
    /\ inst' = [i \in Ids |-> "none"]
    /\ gate' = {}
    /\ writer' = NoWriter
    /\ ckpt' = {}
    /\ guard' = [f \in Flows |-> NoId]
    /\ sess' = [f \in Flows |-> "none"]
    /\ drop' = [f \in Flows |-> "idle"]
    /\ dropId' = [f \in Flows |-> NoId]
    /\ stopping' = {}
    /\ drained' = {}

Init ==
    /\ catalog = [n \in Names |-> NoId]
    /\ nextId = 0
    /\ dirs = {}
    /\ phase = "down"
    /\ toOpen = {}
    /\ graphs = [n \in Names |-> NoId]
    /\ inst = [i \in Ids |-> "none"]
    /\ gate = {}
    /\ writer = NoWriter
    /\ ckpt = {}
    /\ guard = [f \in Flows |-> NoId]
    /\ sess = [f \in Flows |-> "none"]
    /\ drop = [f \in Flows |-> "idle"]
    /\ dropId = [f \in Flows |-> NoId]
    /\ stopping = {}
    /\ drained = {}
    /\ gone = {}

\* kill -9, power loss, or the end of main().  Catalog writes are fsynced, so
\* disk is what the completed steps left.
Crash ==
    /\ phase # "down"
    /\ NoProcess
    /\ UNCHANGED <<disk, gone>>

-----------------------------------------------------------------------------
(* CatalogStore *)

\* Mutant: the bumped counter is not written back.
MutAllocateNoWriteBack ==
    /\ nextId < MaxIds
    /\ UNCHANGED nextId

\* allocateNextId: the counter is read, bumped and written back before the
\* entry that will use the id exists.
AllocateNextId ==
    /\ nextId < MaxIds
    /\ nextId' = nextId + 1

\* CatalogStore::createGraph's table_put, and dropGraph's table_del: the
\* resulting catalog, one of two when the write may fail.
CatalogPut(n, i) ==
    {[catalog EXCEPT ![n] = i]} \cup (IF CatalogFaults THEN {catalog} ELSE {})
CatalogDel(n) == CatalogPut(n, NoId)

(* openGraphInstance: WtConnectionStore::open creates the directory before *)
(* it opens the connections, so success always leaves a directory and a    *)
(* failure may or may not.                                                 *)
OpenSucceeds(i) ==
    /\ dirs' = dirs \cup {i}
    /\ inst' = [inst EXCEPT ![i] = "open"]
OpenFails(i) ==
    /\ dirs' \in {dirs, dirs \cup {i}}
    /\ UNCHANGED inst

-----------------------------------------------------------------------------
(* GraphManager::init *)

Start ==
    /\ phase = "down"
    /\ phase' = "starting"
    /\ toOpen' = {n \in Names : catalog[n] # NoId}
    /\ UNCHANGED <<disk, graphs, inst, gate, writer, ckpt, flowVars, stopVars, gone>>

\* One turn of the loop over catalog_.listGraphs().
StartGraph(n) ==
    /\ phase = "starting"
    /\ n \in toOpen
    /\ toOpen' = toOpen \ {n}
    /\ \/ /\ OpenSucceeds(catalog[n])
          /\ graphs' = [graphs EXCEPT ![n] = catalog[n]]
          /\ UNCHANGED catalog
       \/ /\ OpenFails(catalog[n])
          /\ IF catalog[n] \in dirs' THEN UNCHANGED catalog
                                     ELSE catalog' \in CatalogDel(n)
          /\ UNCHANGED graphs
    /\ UNCHANGED <<nextId, phase, gate, writer, ckpt, flowVars, stopVars, gone>>

\* The catalog has no default graph: allocate its id ...
StartDefault ==
    /\ phase = "starting"
    /\ toOpen = {}
    /\ catalog[Default] = NoId
    /\ writer = NoWriter
    /\ AllocateNextId
    /\ writer' = [name |-> Default, id |-> nextId, step |-> "entry"]
    /\ UNCHANGED <<catalog, dirs, phase, toOpen, graphs, inst, gate, ckpt, flowVars, stopVars,
                   gone>>

\* ... write its entry and open it; init fails (and main returns) otherwise.
StartDefaultEntry ==
    /\ phase = "starting"
    /\ writer # NoWriter
    /\ writer.step = "entry"
    /\ catalog' \in CatalogPut(Default, writer.id)
    /\ \/ /\ catalog' # catalog
          /\ writer' = [writer EXCEPT !.step = "open"]
          /\ UNCHANGED <<phase, toOpen, graphs, inst, gate, ckpt, flowVars, stopVars>>
       \/ /\ catalog' = catalog
          /\ NoProcess
    /\ UNCHANGED <<nextId, dirs, gone>>

StartDefaultOpen ==
    /\ phase = "starting"
    /\ writer.step = "open"
    /\ \/ /\ OpenSucceeds(writer.id)
          /\ graphs' = [graphs EXCEPT ![Default] = writer.id]
          /\ writer' = NoWriter
          /\ phase' = "up"
          /\ UNCHANGED <<toOpen, gate, ckpt, flowVars, stopVars>>
       \/ /\ dirs' \in {dirs, dirs \cup {writer.id}}
          /\ NoProcess
    /\ UNCHANGED <<catalog, nextId, gone>>

StartDone ==
    /\ phase = "starting"
    /\ toOpen = {}
    /\ writer = NoWriter
    /\ catalog[Default] # NoId
    /\ phase' = "up"
    /\ UNCHANGED <<disk, toOpen, graphs, inst, gate, writer, ckpt, flowVars, stopVars, gone>>

-----------------------------------------------------------------------------
(* GraphManager::createGraph, under the exclusive lock from first to last step *)

\* It asks for no phase: one that was started before the front ends were stopped
\* may take the lock before shutdown does.  Taking it after the map was emptied
\* is left out.
CreateGraph(n) ==
    /\ phase \in {"up", "stopping"}
    /\ ExclusiveFree
    /\ catalog[n] = NoId        \* an existing entry is returned as it is
    /\ AllocateNextId
    /\ writer' = [name |-> n, id |-> nextId, step |-> "entry"]
    /\ UNCHANGED <<catalog, dirs, phase, toOpen, graphs, inst, gate, ckpt, flowVars, stopVars,
                   gone>>

\* Mutant: the result of the catalog write is not looked at.
MutCreateEntry ==
    /\ phase \in {"up", "stopping"}
    /\ writer # NoWriter
    /\ writer.step = "entry"
    /\ catalog' \in CatalogPut(writer.name, writer.id)
    /\ writer' = [writer EXCEPT !.step = "open"]
    /\ UNCHANGED <<nextId, dirs, phase, toOpen, graphs, inst, gate, ckpt, flowVars, stopVars,
                   gone>>

CreateEntry ==
    /\ phase \in {"up", "stopping"}
    /\ writer # NoWriter
    /\ writer.step = "entry"
    /\ catalog' \in CatalogPut(writer.name, writer.id)
    /\ writer' = IF catalog' = catalog THEN NoWriter ELSE [writer EXCEPT !.step = "open"]
    /\ UNCHANGED <<nextId, dirs, phase, toOpen, graphs, inst, gate, ckpt, flowVars, stopVars,
                   gone>>

CreateOpen ==
    /\ phase \in {"up", "stopping"}
    /\ writer.step = "open"
    /\ \/ /\ OpenSucceeds(writer.id)
          /\ graphs' = [graphs EXCEPT ![writer.name] = writer.id]
          /\ UNCHANGED catalog
       \/ /\ OpenFails(writer.id)
          /\ catalog' \in CatalogDel(writer.name)
          /\ UNCHANGED graphs
    /\ writer' = NoWriter
    /\ UNCHANGED <<nextId, phase, toOpen, gate, ckpt, flowVars, stopVars, gone>>

-----------------------------------------------------------------------------
(* A flow takes a GraphLease, uses one pooled session at a time under it,  *)
(* gives the session back and then leaves the gate: GraphLease is declared *)
(* before the session in every holder (SessionScope, StreamContext,        *)
(* executeCypher's frame), so it is destroyed after it.                    *)

TryEnter(i) == i \notin gate

\* acquireGraph: lookup and tryEnter under one shared lock.
AcquireGraph(f, n) ==
    /\ phase \in {"up", "stopping"}
    /\ SharedFree
    /\ guard[f] = NoId /\ drop[f] = "idle"
    /\ graphs[n] # NoId
    /\ TryEnter(graphs[n])
    /\ guard' = [guard EXCEPT ![f] = graphs[n]]
    /\ UNCHANGED <<disk, phase, toOpen, graphs, inst, gate, writer, ckpt, sess, drop, dropId,
                   stopVars, gone>>

AcquireSession(f) ==
    /\ guard[f] # NoId /\ sess[f] = "none" /\ drop[f] = "idle"
    /\ sess' = [sess EXCEPT ![f] = "leased"]
    /\ UNCHANGED <<disk, phase, toOpen, graphs, inst, gate, writer, ckpt, guard, drop, dropId,
                   stopVars, gone>>

\* SessionPoolCore::put: out of leased_ under the lock, then close() (cursors,
\* rollback) outside it ...
PutSession(f) ==
    /\ sess[f] = "leased"
    /\ sess' = [sess EXCEPT ![f] = "closing"]
    /\ UNCHANGED <<disk, phase, toOpen, graphs, inst, gate, writer, ckpt, guard, drop, dropId,
                   stopVars, gone>>

\* ... and back to idle_ or destroyed.
PutDone(f) ==
    /\ sess[f] = "closing"
    /\ sess' = [sess EXCEPT ![f] = "none"]
    /\ UNCHANGED <<disk, phase, toOpen, graphs, inst, gate, writer, ckpt, guard, drop, dropId,
                   stopVars, gone>>

\* Mutant: the guard may be destroyed before the session lease.
MutLeave(f) ==
    /\ guard[f] # NoId /\ drop[f] = "idle"
    /\ guard' = [guard EXCEPT ![f] = NoId]
    /\ UNCHANGED <<disk, phase, toOpen, graphs, inst, gate, writer, ckpt, sess, drop, dropId,
                   stopVars, gone>>

\* ~Guard: GraphUsageGate::leave.
Leave(f) ==
    /\ guard[f] # NoId /\ sess[f] = "none" /\ drop[f] = "idle"
    /\ guard' = [guard EXCEPT ![f] = NoId]
    /\ UNCHANGED <<disk, phase, toOpen, graphs, inst, gate, writer, ckpt, sess, drop, dropId,
                   stopVars, gone>>

-----------------------------------------------------------------------------
(* GraphManager::dropGraph, called by a flow that may itself hold a lease  *)
(* (executeCypher keeps ddl_lease across the call), even on the same graph *)

DropGraph(f, n) ==
    /\ phase \in {"up", "stopping"}
    /\ ExclusiveFree
    /\ drop[f] = "idle" /\ sess[f] = "none"
    /\ n # Default
    /\ graphs[n] # NoId
    /\ graphs' = [graphs EXCEPT ![n] = NoId]
    /\ catalog' \in CatalogDel(n)       \* the result is not looked at
    /\ drop' = [drop EXCEPT ![f] = "unmapped"]
    /\ dropId' = [dropId EXCEPT ![f] = graphs[n]]
    /\ gone' = gone \cup {graphs[n]}
    /\ UNCHANGED <<nextId, dirs, phase, toOpen, inst, gate, writer, ckpt, guard, sess, stopVars>>

CloseGate(f) ==
    /\ drop[f] = "unmapped"
    /\ gate' = gate \cup {dropId[f]}
    /\ drop' = [drop EXCEPT ![f] = "waiting"]
    /\ UNCHANGED <<disk, phase, toOpen, graphs, inst, writer, ckpt, guard, sess, dropId, stopVars,
                   gone>>

\* waitDrained(10000) returned true.
Drained(f) ==
    /\ drop[f] = "waiting"
    /\ Inflight(dropId[f]) = {}
    /\ drop' = [drop EXCEPT ![f] = "drained"]
    /\ UNCHANGED <<disk, phase, toOpen, graphs, inst, gate, writer, ckpt, guard, sess, dropId,
                   stopVars, gone>>

LeakInstance(f) ==
    /\ inst' = [inst EXCEPT ![dropId[f]] = "leaked"]
    /\ drop' = [drop EXCEPT ![f] = "idle"]
    /\ dropId' = [dropId EXCEPT ![f] = NoId]
    /\ UNCHANGED <<disk, phase, toOpen, graphs, gate, writer, ckpt, guard, sess, stopVars, gone>>

\* Mutant: the wait has no deadline.
MutDrainTimeout(f) == FALSE

\* waitDrained timed out: the instance is leaked, its directory kept.
DrainTimeout(f) ==
    /\ drop[f] = "waiting"
    /\ Inflight(dropId[f]) # {}
    /\ LeakInstance(f)

\* The second check of dropGraph: with outstanding() = 0 clear the pool and
\* destroy the instance, which closes the connections; leak it otherwise.
DestroyInstance(f) ==
    /\ drop[f] = "drained"
    /\ IF Leased(dropId[f]) = {}
       THEN /\ inst' = [inst EXCEPT ![dropId[f]] = "closed"]
            /\ drop' = [drop EXCEPT ![f] = "removing"]
            /\ UNCHANGED <<disk, phase, toOpen, graphs, gate, writer, ckpt, guard, sess, dropId,
                           stopVars, gone>>
       ELSE LeakInstance(f)

\* remove_all(graph_dir); a failure is only logged.
RemoveDirectory(f) ==
    /\ drop[f] = "removing"
    /\ dirs' \in {dirs, dirs \ {dropId[f]}}
    /\ drop' = [drop EXCEPT ![f] = "idle"]
    /\ dropId' = [dropId EXCEPT ![f] = NoId]
    /\ UNCHANGED <<catalog, nextId, phase, toOpen, graphs, inst, gate, writer, ckpt, guard, sess,
                   stopVars, gone>>

-----------------------------------------------------------------------------
(* checkpointAll: shared lock for the whole pass over graphs_ *)

CheckpointBegin ==
    /\ phase = "up"
    /\ SharedFree
    /\ ckpt = {}
    /\ ckpt' = Mapped
    /\ UNCHANGED <<disk, phase, toOpen, graphs, inst, gate, writer, flowVars, stopVars, gone>>

CheckpointEnd ==
    /\ ckpt # {}
    /\ ckpt' = {}
    /\ UNCHANGED <<disk, phase, toOpen, graphs, inst, gate, writer, flowVars, stopVars, gone>>

-----------------------------------------------------------------------------
(* GraphManager::shutdown; the front ends were told to stop before it, the *)
(* flows they started may still run                                        *)

Shutdown ==
    /\ phase = "up"
    /\ phase' = "stopping"
    /\ UNCHANGED <<disk, toOpen, graphs, inst, gate, writer, ckpt, flowVars, stopVars, gone>>

\* The checkpoint thread is joined, the map emptied under the exclusive lock
\* and every extracted gate closed.
ShutdownExtract ==
    /\ phase = "stopping"
    /\ ExclusiveFree
    /\ phase' = "exiting"
    /\ stopping' = Mapped
    /\ gate' = gate \cup Mapped
    /\ graphs' = [n \in Names |-> NoId]
    /\ UNCHANGED <<disk, toOpen, inst, writer, ckpt, flowVars, drained, gone>>

ShutdownDrained(i) ==
    /\ i \in stopping
    /\ Inflight(i) = {}
    /\ stopping' = stopping \ {i}
    /\ drained' = drained \cup {i}
    /\ UNCHANGED <<disk, phase, toOpen, graphs, inst, gate, writer, ckpt, flowVars, gone>>

\* Mutant: a timed-out instance is destroyed with the others.
MutShutdownTimeout(i) ==
    /\ i \in stopping
    /\ Inflight(i) # {}
    /\ stopping' = stopping \ {i}
    /\ drained' = drained \cup {i}
    /\ UNCHANGED <<disk, phase, toOpen, graphs, inst, gate, writer, ckpt, flowVars, gone>>

ShutdownTimeout(i) ==
    /\ i \in stopping
    /\ Inflight(i) # {}
    /\ stopping' = stopping \ {i}
    /\ inst' = [inst EXCEPT ![i] = "leaked"]
    /\ UNCHANGED <<disk, phase, toOpen, graphs, gate, writer, ckpt, flowVars, drained, gone>>

\* instances.clear(): every instance that drained is destroyed.
ShutdownDestroy ==
    /\ phase = "exiting"
    /\ stopping = {} /\ drained # {}
    /\ inst' = [i \in Ids |-> IF i \in drained THEN "closed" ELSE inst[i]]
    /\ drained' = {}
    /\ UNCHANGED <<disk, phase, toOpen, graphs, gate, writer, ckpt, flowVars, stopping, gone>>

\* catalog_.close() and main returns.
Exit ==
    /\ phase = "exiting"
    /\ stopping = {} /\ drained = {}
    /\ NoProcess
    /\ UNCHANGED <<disk, gone>>

-----------------------------------------------------------------------------

FlowStep(f) ==
    \/ \E n \in Names : AcquireGraph(f, n) \/ DropGraph(f, n)
    \/ AcquireSession(f) \/ PutSession(f) \/ PutDone(f) \/ Leave(f)
    \/ CloseGate(f) \/ Drained(f) \/ DrainTimeout(f)
    \/ DestroyInstance(f) \/ RemoveDirectory(f)

StartStep ==
    \/ Start \/ StartDefault \/ StartDefaultEntry \/ StartDefaultOpen \/ StartDone
    \/ \E n \in Names : StartGraph(n)

ShutdownStep ==
    \/ Shutdown \/ ShutdownExtract \/ ShutdownDestroy \/ Exit
    \/ \E i \in Ids : ShutdownDrained(i) \/ ShutdownTimeout(i)

Next ==
    \/ StartStep
    \/ \E n \in Names : CreateGraph(n)
    \/ CreateEntry \/ CreateOpen
    \/ \E f \in Flows : FlowStep(f)
    \/ CheckpointBegin \/ CheckpointEnd
    \/ ShutdownStep
    \/ Crash

Spec == Init /\ [][Next]_vars

(* A thread inside dropGraph, createGraph, checkpointAll or shutdown keeps *)
(* running, and the waits inside them are timed.  Nothing is assumed of    *)
(* the flows that hold leases: a client may never read its result.         *)
DropProgress(f) ==
    CloseGate(f) \/ Drained(f) \/ DrainTimeout(f) \/ DestroyInstance(f) \/ RemoveDirectory(f)

ShutdownProgress ==
    \/ ShutdownExtract \/ ShutdownDestroy \/ Exit
    \/ \E i \in Ids : ShutdownDrained(i) \/ ShutdownTimeout(i)

Fairness ==
    /\ \A f \in Flows : WF_vars(DropProgress(f))
    /\ WF_vars(ShutdownProgress)
    /\ WF_vars(CreateEntry \/ CreateOpen)
    /\ WF_vars(CheckpointEnd)

FairSpec == Spec /\ Fairness

-----------------------------------------------------------------------------
(* Properties *)

\* The WT connections of an instance are open whenever somebody uses them: a
\* lease holder, a session still being closed by put() or the checkpoint
\* thread never meets a connection that dropGraph or shutdown has closed.
NoUseAfterClose ==
    /\ \A i \in Ids : Inflight(i) # {} \/ i \in ckpt \/ i \in Mapped
                        => inst[i] \in {"open", "leaked"}
    /\ \A f \in Flows : sess[f] # "none" => guard[f] # NoId

\* dropGraph's second check ("usage is zero but sessions are out") never fires
\* and no put() is still closing a session when the gate has drained: leases
\* are given back session first, guard second.
DrainedMeansReturned ==
    \A f \in Flows : drop[f] = "drained" =>
        \A g \in Flows : guard[g] # dropId[f]

\* A graph that is being served has its catalog entry, under its own name and
\* with its own id, so a restart finds it again; two names never share one.
ServedIsCatalogued ==
    \A n \in Names : graphs[n] # NoId =>
        /\ catalog[n] = graphs[n]
        /\ \A m \in Names \ {n} : catalog[m] # graphs[n]

\* createGraph opens its new graph in a directory that no earlier graph, live
\* or crashed or leaked, has used: ids are never handed out twice.
FreshDirectory ==
    writer # NoWriter =>
        /\ writer.id \notin dirs \cup gone
        /\ inst[writer.id] = "none"
        /\ \A n \in Names \ {writer.name} : catalog[n] # writer.id

\* An id that dropGraph has taken out of service is never served again, not
\* even by the restart after a crash in the middle of the drop.
DroppedStaysDropped == Mapped \cap gone = {}

\* The directory of a graph is deleted only after its connections are closed.
RemoveAfterClose ==
    [][\A i \in Ids : i \in dirs /\ i \notin dirs' => inst[i] = "closed" /\ inst'[i] = "closed"]_vars

\* A graph whose directory exists keeps its catalog entry through startup,
\* whether or not it can be opened.
UnreadableGraphKept ==
    [][\A n \in Names : phase = "starting" /\ catalog[n] \in dirs => catalog'[n] = catalog[n]]_vars

\* Every dropGraph call returns, even one whose caller holds a lease on the
\* graph it drops.
DropReturns == \A f \in Flows : drop[f] # "idle" ~> drop[f] = "idle"

\* Shutdown ends whatever the lease holders do.
ShutdownReturns == phase \in {"stopping", "exiting"} ~> phase = "down"

\* Nobody who waits for lease holders waits for ever: dropGraph and shutdown
\* return although the holders need never leave.
WaitersReturn == DropReturns /\ ShutdownReturns

-----------------------------------------------------------------------------
(* The inductive invariant behind NoUseAfterClose, ServedIsCatalogued and  *)
(* FreshDirectory                                                          *)

\* Ids: everything on disk or in memory was allocated, catalog ids differ.
IdInv ==
    /\ \A n \in Names : catalog[n] # NoId => catalog[n] < nextId
    /\ \A n, m \in Names : catalog[n] # NoId /\ catalog[n] = catalog[m] => n = m
    /\ \A i \in Ids : inst[i] # "none" \/ i \in dirs \/ i \in gone => i < nextId

\* createGraph, and init creating the default graph, under the lock.
WriterInv ==
    writer # NoWriter =>
        /\ writer.id \in Ids /\ writer.id < nextId
        /\ writer.id \notin dirs /\ writer.id \notin gone
        /\ inst[writer.id] = "none"
        /\ ckpt = {}
        /\ toOpen = {}
        /\ phase = "starting" => writer.name = Default
        /\ writer.step = "entry" =>
              /\ catalog[writer.name] = NoId
              /\ \A n \in Names : catalog[n] # writer.id
        /\ writer.step = "open" => catalog[writer.name] = writer.id

\* init has not opened the entries it still has to visit.
StartInv ==
    /\ toOpen # {} => phase = "starting"
    /\ \A n \in toOpen : catalog[n] # NoId /\ inst[catalog[n]] = "none"
    /\ phase \in {"down", "starting"} => ckpt = {}
    /\ phase = "down" => writer = NoWriter /\ \A i \in Ids : inst[i] = "none"

\* graphs_ agrees with the catalog and holds open instances.
MapInv ==
    /\ \A n \in Names : graphs[n] # NoId =>
          catalog[n] = graphs[n] /\ inst[graphs[n]] = "open"
    /\ \A i \in ckpt : \E n \in Names : graphs[n] = i

\* A lease holder's instance is open or leaked.
LeaseInv ==
    \A f \in Flows :
        /\ guard[f] # NoId => inst[guard[f]] \in {"open", "leaked"}
        /\ sess[f] # "none" => guard[f] # NoId

\* The instance a dropGraph call works on is its own.
DropInv ==
    \A f \in Flows :
        /\ drop[f] # "idle" =>
              /\ dropId[f] \in Ids
              /\ \A n \in Names : graphs[n] # dropId[f]
              /\ \A g \in Flows : g # f /\ drop[g] # "idle" => dropId[g] # dropId[f]
              /\ dropId[f] \notin stopping /\ dropId[f] \notin drained
        /\ drop[f] \in {"unmapped", "waiting", "drained"} => inst[dropId[f]] = "open"
        /\ drop[f] = "drained" => \A g \in Flows : guard[g] # dropId[f]
        /\ drop[f] = "removing" => inst[dropId[f]] = "closed"

\* The instances shutdown works on are its own.
StopInv ==
    /\ \A i \in stopping \cup drained :
          inst[i] = "open" /\ \A n \in Names : graphs[n] # i
    /\ \A i \in drained : i \notin stopping /\ \A f \in Flows : guard[f] # i
    /\ stopping # {} \/ drained # {} => phase = "exiting"
    /\ phase = "exiting" => writer = NoWriter /\ \A n \in Names : graphs[n] = NoId

IInv ==
    TypeOK /\ IdInv /\ WriterInv /\ StartInv /\ MapInv /\ LeaseInv /\ DropInv /\ StopInv

-----------------------------------------------------------------------------
(* The contract with lease holders *)

Status(i) ==
    CASE inst[i] = "none" -> "absent"
      [] inst[i] = "open" -> IF i \in Mapped THEN "serving" ELSE "withdrawn"
      [] OTHER -> inst[i]

C == INSTANCE GraphLeaseContract WITH
        Instances <- Ids,
        Users <- Flows,
        status <- [i \in Ids |-> Status(i)],
        users <- [i \in Ids |-> Inflight(i)]

\* The detailed manager implements the lease contract.
LeaseContract == C!Contract
=============================================================================
