------------------------- MODULE GraphManagerProofs -------------------------
(***************************************************************************)
(* Proofs that IInv is an invariant of GraphManager, for every set of      *)
(* names and flows and every bound MaxIds, and of what follows from it.    *)
(* One lemma per action; under it one step per conjunct of IInv.           *)
(***************************************************************************)
EXTENDS GraphManager, TLAPS

USE GraphManagerAssumption DEF Ids, NoId

-----------------------------------------------------------------------------
(* The process ends: volatile state is emptied, no id is forgotten. *)
LEMMA ProcessEndPreserves ==
    ASSUME IInv, NoProcess, UNCHANGED <<catalog, nextId, gone>>,
           dirs' \subseteq {i \in Ids : i < nextId}
    PROVE  IInv'
<1> USE DEF IInv, NoProcess, NoWriter
<1>1. TypeOK'
  BY DEF TypeOK, InstStates, SessStates, DropStages, WriterSteps, Phases
<1>2. IdInv'
  BY DEF TypeOK, IdInv
<1>3. WriterInv'
  BY DEF TypeOK, WriterInv
<1>4. StartInv'
  BY DEF TypeOK, StartInv
<1>5. MapInv'
  BY DEF TypeOK, MapInv
<1>6. LeaseInv'
  BY DEF TypeOK, LeaseInv
<1>7. DropInv'
  BY DEF TypeOK, DropInv, DropStages
<1>8. StopInv'
  BY DEF TypeOK, StopInv
<1> QED
  BY <1>1, <1>2, <1>3, <1>4, <1>5, <1>6, <1>7, <1>8

(* init lists the catalog. *)
LEMMA StartPreserves ==
    ASSUME IInv, Start
    PROVE  IInv'
<1> USE DEF IInv, Start, disk, flowVars, stopVars
<1>1. TypeOK'
  BY DEF TypeOK, InstStates, SessStates, DropStages, WriterSteps, Phases
<1>2. IdInv'
  BY DEF TypeOK, IdInv
<1>3. WriterInv'
  BY DEF TypeOK, WriterInv, StartInv
<1>4. StartInv'
  BY DEF TypeOK, StartInv
<1>5. MapInv'
  BY DEF TypeOK, MapInv
<1>6. LeaseInv'
  BY DEF TypeOK, LeaseInv
<1>7. DropInv'
  BY DEF TypeOK, DropInv, DropStages
<1>8. StopInv'
  BY DEF TypeOK, StopInv
<1> QED
  BY <1>1, <1>2, <1>3, <1>4, <1>5, <1>6, <1>7, <1>8

(* init opens, or gives up, one entry. *)
LEMMA StartGraphPreserves ==
    ASSUME IInv, NEW n \in Names, StartGraph(n)
    PROVE  IInv'
<1>a. /\ phase = "starting" /\ n \in toOpen /\ catalog[n] \in Ids /\ graphs[n] = NoId
      /\ toOpen' = toOpen \ {n}
      /\ dirs' = dirs \/ dirs' = dirs \cup {catalog[n]}
      /\ \/ /\ inst' = [inst EXCEPT ![catalog[n]] = "open"]
            /\ graphs' = [graphs EXCEPT ![n] = catalog[n]]
            /\ catalog' = catalog
         \/ /\ inst' = inst /\ graphs' = graphs
            /\ catalog' = [catalog EXCEPT ![n] = NoId] \/ catalog' = catalog
      /\ UNCHANGED <<nextId, phase, gate, writer, ckpt, flowVars, stopVars, gone>>
  BY DEF StartGraph, OpenSucceeds, OpenFails, CatalogDel, CatalogPut, IInv, TypeOK, StartInv, MapInv
<1> USE <1>a DEF IInv, flowVars, stopVars, StartInv
<1>1. TypeOK'
  <2>1. catalog' \in [Names -> Ids \cup {NoId}] /\ graphs' \in [Names -> Ids \cup {NoId}]
    BY DEF TypeOK
  <2>2. inst' \in [Ids -> InstStates]
    BY DEF TypeOK, InstStates
  <2>3. writer' \in [name : Names, id : Ids \cup {NoId}, step : WriterSteps]
    BY DEF TypeOK, WriterSteps
  <2>4. dirs' \subseteq Ids /\ toOpen' \subseteq Names /\ stopping' \subseteq Ids /\ drained' \subseteq Ids
    BY DEF TypeOK
  <2> QED BY <2>1, <2>2, <2>3, <2>4 DEF TypeOK
<1>2. IdInv'
  BY DEF TypeOK, IdInv
<1>3. WriterInv'
  BY DEF TypeOK, WriterInv, IdInv
<1>4. StartInv'
  BY DEF TypeOK, StartInv, IdInv
<1>5. MapInv'
  BY DEF TypeOK, IdInv, MapInv
<1>6. LeaseInv'
  BY DEF TypeOK, LeaseInv
<1>7. DropInv'
  BY DEF TypeOK, DropInv, DropStages, IdInv
<1>8. StopInv'
  BY DEF TypeOK, StopInv, StartInv
<1> QED
  BY <1>1, <1>2, <1>3, <1>4, <1>5, <1>6, <1>7, <1>8

(* init allocates the id of the default graph. *)
LEMMA StartDefaultPreserves ==
    ASSUME IInv, StartDefault
    PROVE  IInv'
<1> USE DEF IInv, StartDefault, AllocateNextId, flowVars, stopVars, NoWriter
<1>1. TypeOK'
  BY DEF TypeOK, InstStates, SessStates, DropStages, WriterSteps, Phases
<1>2. IdInv'
  BY DEF TypeOK, IdInv
<1>3. WriterInv'
  BY DEF TypeOK, WriterInv, IdInv, StartInv
<1>4. StartInv'
  BY DEF TypeOK, StartInv
<1>5. MapInv'
  BY DEF TypeOK, MapInv
<1>6. LeaseInv'
  BY DEF TypeOK, LeaseInv
<1>7. DropInv'
  BY DEF TypeOK, DropInv, DropStages
<1>8. StopInv'
  BY DEF TypeOK, StopInv
<1> QED
  BY <1>1, <1>2, <1>3, <1>4, <1>5, <1>6, <1>7, <1>8

(* init writes the entry of the default graph. *)
LEMMA StartDefaultEntryPreserves ==
    ASSUME IInv, StartDefaultEntry, catalog' # catalog
    PROVE  IInv'
<1>a. /\ phase = "starting" /\ writer # NoWriter /\ writer.step = "entry"
      /\ catalog' = [catalog EXCEPT ![Default] = writer.id]
      /\ writer' = [writer EXCEPT !.step = "open"]
      /\ UNCHANGED <<nextId, dirs, phase, toOpen, graphs, inst, gate, ckpt, flowVars, stopVars,
                     gone>>
  BY DEF StartDefaultEntry, CatalogPut
<1> USE <1>a DEF IInv, flowVars, stopVars, NoWriter, WriterInv
<1>1. TypeOK'
  BY DEF TypeOK, InstStates, SessStates, DropStages, WriterSteps, Phases
<1>2. IdInv'
  BY DEF TypeOK, IdInv
<1>3. WriterInv'
  BY DEF TypeOK, WriterInv
<1>4. StartInv'
  BY DEF TypeOK, StartInv
<1>5. MapInv'
  BY DEF TypeOK, MapInv, IdInv
<1>6. LeaseInv'
  BY DEF TypeOK, LeaseInv
<1>7. DropInv'
  BY DEF TypeOK, DropInv, DropStages
<1>8. StopInv'
  BY DEF TypeOK, StopInv
<1> QED
  BY <1>1, <1>2, <1>3, <1>4, <1>5, <1>6, <1>7, <1>8

(* init opens the default graph. *)
LEMMA StartDefaultOpenPreserves ==
    ASSUME IInv, StartDefaultOpen, phase' = "up"
    PROVE  IInv'
<1>a. /\ phase = "starting" /\ writer.step = "open" /\ writer # NoWriter
      /\ dirs' = dirs \cup {writer.id}
      /\ inst' = [inst EXCEPT ![writer.id] = "open"]
      /\ graphs' = [graphs EXCEPT ![Default] = writer.id]
      /\ writer' = NoWriter
      /\ phase' = "up"
      /\ UNCHANGED <<catalog, nextId, toOpen, gate, ckpt, flowVars, stopVars, gone>>
  BY DEF StartDefaultOpen, OpenSucceeds, NoProcess, NoWriter
<1> USE <1>a DEF IInv, flowVars, stopVars, NoWriter, WriterInv
<1>1. TypeOK'
  BY DEF TypeOK, InstStates, SessStates, DropStages, WriterSteps, Phases
<1>2. IdInv'
  BY DEF TypeOK, IdInv
<1>3. WriterInv'
  BY DEF TypeOK, WriterInv
<1>4. StartInv'
  BY DEF TypeOK, StartInv
<1>5. MapInv'
  BY DEF TypeOK, MapInv, IdInv
<1>6. LeaseInv'
  BY DEF TypeOK, LeaseInv
<1>7. DropInv'
  BY DEF TypeOK, DropInv, DropStages, IdInv
<1>8. StopInv'
  BY DEF TypeOK, StopInv
<1> QED
  BY <1>1, <1>2, <1>3, <1>4, <1>5, <1>6, <1>7, <1>8

(* init returns with the default graph in the catalog. *)
LEMMA StartDonePreserves ==
    ASSUME IInv, StartDone
    PROVE  IInv'
<1> USE DEF IInv, StartDone, disk, flowVars, stopVars
<1>1. TypeOK'
  BY DEF TypeOK, InstStates, SessStates, DropStages, WriterSteps, Phases
<1>2. IdInv'
  BY DEF TypeOK, IdInv
<1>3. WriterInv'
  BY DEF TypeOK, WriterInv
<1>4. StartInv'
  BY DEF TypeOK, StartInv
<1>5. MapInv'
  BY DEF TypeOK, MapInv
<1>6. LeaseInv'
  BY DEF TypeOK, LeaseInv
<1>7. DropInv'
  BY DEF TypeOK, DropInv, DropStages
<1>8. StopInv'
  BY DEF TypeOK, StopInv
<1> QED
  BY <1>1, <1>2, <1>3, <1>4, <1>5, <1>6, <1>7, <1>8

(* createGraph allocates an id. *)
LEMMA CreateGraphPreserves ==
    ASSUME IInv, NEW n \in Names, CreateGraph(n)
    PROVE  IInv'
<1> USE DEF IInv, CreateGraph, ExclusiveFree, AllocateNextId, flowVars, stopVars, NoWriter
<1>1. TypeOK'
  BY DEF TypeOK, InstStates, SessStates, DropStages, WriterSteps, Phases
<1>2. IdInv'
  BY DEF TypeOK, IdInv
<1>3. WriterInv'
  BY DEF TypeOK, WriterInv, IdInv, StartInv
<1>4. StartInv'
  BY DEF TypeOK, StartInv
<1>5. MapInv'
  BY DEF TypeOK, MapInv
<1>6. LeaseInv'
  BY DEF TypeOK, LeaseInv
<1>7. DropInv'
  BY DEF TypeOK, DropInv, DropStages
<1>8. StopInv'
  BY DEF TypeOK, StopInv
<1> QED
  BY <1>1, <1>2, <1>3, <1>4, <1>5, <1>6, <1>7, <1>8

(* createGraph writes the catalog entry. *)
LEMMA CreateEntryPreserves ==
    ASSUME IInv, CreateEntry
    PROVE  IInv'
<1>a. /\ phase \in {"up", "stopping"} /\ writer # NoWriter /\ writer.step = "entry"
      /\ \/ /\ catalog' = [catalog EXCEPT ![writer.name] = writer.id]
            /\ writer' = [writer EXCEPT !.step = "open"]
         \/ catalog' = catalog /\ writer' = NoWriter
      /\ UNCHANGED <<nextId, dirs, phase, toOpen, graphs, inst, gate, ckpt, flowVars, stopVars,
                     gone>>
  BY DEF CreateEntry, CatalogPut, IInv, TypeOK, NoWriter, WriterInv
<1> USE <1>a DEF IInv, flowVars, stopVars, NoWriter, WriterInv
<1>1. TypeOK'
  <2>1. catalog' \in [Names -> Ids \cup {NoId}] /\ graphs' \in [Names -> Ids \cup {NoId}]
    BY DEF TypeOK
  <2>2. inst' \in [Ids -> InstStates]
    BY DEF TypeOK, InstStates
  <2>3. writer' \in [name : Names, id : Ids \cup {NoId}, step : WriterSteps]
    BY DEF TypeOK, WriterSteps
  <2>4. dirs' \subseteq Ids /\ toOpen' \subseteq Names /\ stopping' \subseteq Ids /\ drained' \subseteq Ids
    BY DEF TypeOK
  <2> QED BY <2>1, <2>2, <2>3, <2>4 DEF TypeOK
<1>2. IdInv'
  <2>1. (\A k \in Names : catalog[k] # NoId => catalog[k] < nextId)'
    BY DEF TypeOK, IdInv
  <2>2. (\A k, m \in Names : catalog[k] # NoId /\ catalog[k] = catalog[m] => k = m)'
    BY DEF TypeOK, IdInv
  <2>3. (\A j \in Ids : inst[j] # "none" \/ j \in dirs \/ j \in gone => j < nextId)'
    BY DEF TypeOK, IdInv, MapInv
  <2> QED BY <2>1, <2>2, <2>3 DEF IdInv
<1>3. WriterInv'
  BY DEF TypeOK, WriterInv
<1>4. StartInv'
  BY DEF TypeOK, StartInv
<1>5. MapInv'
  BY DEF TypeOK, MapInv, IdInv
<1>6. LeaseInv'
  BY DEF TypeOK, LeaseInv
<1>7. DropInv'
  BY DEF TypeOK, DropInv, DropStages
<1>8. StopInv'
  BY DEF TypeOK, StopInv
<1> QED
  BY <1>1, <1>2, <1>3, <1>4, <1>5, <1>6, <1>7, <1>8

(* createGraph opens the instance. *)
LEMMA CreateOpenPreserves ==
    ASSUME IInv, CreateOpen
    PROVE  IInv'
<1>a. /\ phase \in {"up", "stopping"} /\ writer # NoWriter /\ writer.step = "open"
      /\ dirs' = dirs \/ dirs' = dirs \cup {writer.id}
      /\ \/ /\ inst' = [inst EXCEPT ![writer.id] = "open"]
            /\ graphs' = [graphs EXCEPT ![writer.name] = writer.id]
            /\ catalog' = catalog
         \/ /\ inst' = inst /\ graphs' = graphs
            /\ catalog' = [catalog EXCEPT ![writer.name] = NoId] \/ catalog' = catalog
      /\ writer' = NoWriter
      /\ UNCHANGED <<nextId, phase, toOpen, gate, ckpt, flowVars, stopVars, gone>>
  BY DEF CreateOpen, OpenSucceeds, OpenFails, CatalogDel, CatalogPut, NoWriter
<1> USE <1>a DEF IInv, flowVars, stopVars, NoWriter, WriterInv
<1>1. TypeOK'
  BY DEF TypeOK, InstStates, SessStates, DropStages, WriterSteps, Phases
<1>2. IdInv'
  <2>1. (\A k \in Names : catalog[k] # NoId => catalog[k] < nextId)'
    BY DEF TypeOK, IdInv
  <2>2. (\A k, m \in Names : catalog[k] # NoId /\ catalog[k] = catalog[m] => k = m)'
    BY DEF TypeOK, IdInv
  <2>3. (\A j \in Ids : inst[j] # "none" \/ j \in dirs \/ j \in gone => j < nextId)'
    BY DEF TypeOK, IdInv, MapInv
  <2> QED BY <2>1, <2>2, <2>3 DEF IdInv
<1>3. WriterInv'
  BY DEF TypeOK, WriterInv
<1>4. StartInv'
  BY DEF TypeOK, StartInv
<1>5. MapInv'
  BY DEF TypeOK, MapInv, IdInv
<1>6. LeaseInv'
  BY DEF TypeOK, LeaseInv
<1>7. DropInv'
  BY DEF TypeOK, DropInv, DropStages
<1>8. StopInv'
  BY DEF TypeOK, StopInv
<1> QED
  BY <1>1, <1>2, <1>3, <1>4, <1>5, <1>6, <1>7, <1>8

(* A flow takes a lease on a mapped instance. *)
LEMMA AcquireGraphPreserves ==
    ASSUME IInv, NEW f \in Flows, NEW n \in Names, AcquireGraph(f, n)
    PROVE  IInv'
<1> USE DEF IInv, AcquireGraph, SharedFree, disk, stopVars
<1>1. TypeOK'
  BY DEF TypeOK, InstStates, SessStates, DropStages, WriterSteps, Phases
<1>2. IdInv'
  BY DEF TypeOK, IdInv
<1>3. WriterInv'
  BY DEF TypeOK, WriterInv
<1>4. StartInv'
  BY DEF TypeOK, StartInv
<1>5. MapInv'
  BY DEF TypeOK, MapInv
<1>6. LeaseInv'
  BY DEF TypeOK, LeaseInv, MapInv
<1>7. DropInv'
  BY DEF TypeOK, DropInv, DropStages
<1>8. StopInv'
  BY DEF TypeOK, StopInv
<1> QED
  BY <1>1, <1>2, <1>3, <1>4, <1>5, <1>6, <1>7, <1>8

(* A flow borrows, returns or has returned its session. *)
LEMMA SessionStepPreserves ==
    ASSUME IInv, NEW f \in Flows, AcquireSession(f) \/ PutSession(f) \/ PutDone(f)
    PROVE  IInv'
<1>a. /\ \E s \in SessStates : sess' = [sess EXCEPT ![f] = s]
      /\ guard[f] # NoId
      /\ UNCHANGED <<catalog, nextId, dirs, phase, toOpen, graphs, inst, gate, writer, ckpt, guard,
                     drop, dropId, stopVars, gone>>
  BY DEF AcquireSession, PutSession, PutDone, disk, SessStates, IInv, LeaseInv
<1> USE <1>a DEF IInv, stopVars
<1>1. TypeOK'
  BY DEF TypeOK, InstStates, SessStates, DropStages, WriterSteps, Phases
<1>2. IdInv'
  BY DEF TypeOK, IdInv
<1>3. WriterInv'
  BY DEF TypeOK, WriterInv
<1>4. StartInv'
  BY DEF TypeOK, StartInv
<1>5. MapInv'
  BY DEF TypeOK, MapInv
<1>6. LeaseInv'
  BY DEF TypeOK, LeaseInv
<1>7. DropInv'
  BY DEF TypeOK, DropInv, DropStages
<1>8. StopInv'
  BY DEF TypeOK, StopInv
<1> QED
  BY <1>1, <1>2, <1>3, <1>4, <1>5, <1>6, <1>7, <1>8

(* A flow releases its lease. *)
LEMMA LeavePreserves ==
    ASSUME IInv, NEW f \in Flows, Leave(f)
    PROVE  IInv'
<1> USE DEF IInv, Leave, disk, stopVars
<1>1. TypeOK'
  BY DEF TypeOK, InstStates, SessStates, DropStages, WriterSteps, Phases
<1>2. IdInv'
  BY DEF TypeOK, IdInv
<1>3. WriterInv'
  BY DEF TypeOK, WriterInv
<1>4. StartInv'
  BY DEF TypeOK, StartInv
<1>5. MapInv'
  BY DEF TypeOK, MapInv
<1>6. LeaseInv'
  BY DEF TypeOK, LeaseInv
<1>7. DropInv'
  BY DEF TypeOK, DropInv, DropStages
<1>8. StopInv'
  BY DEF TypeOK, StopInv
<1> QED
  BY <1>1, <1>2, <1>3, <1>4, <1>5, <1>6, <1>7, <1>8

(* dropGraph moves an instance out of the map. *)
LEMMA DropGraphPreserves ==
    ASSUME IInv, NEW f \in Flows, NEW n \in Names, DropGraph(f, n)
    PROVE  IInv'
<1>a. /\ phase \in {"up", "stopping"} /\ writer = NoWriter /\ ckpt = {}
      /\ drop[f] = "idle" /\ graphs[n] # NoId
      /\ graphs' = [graphs EXCEPT ![n] = NoId]
      /\ catalog' = [catalog EXCEPT ![n] = NoId] \/ catalog' = catalog
      /\ drop' = [drop EXCEPT ![f] = "unmapped"]
      /\ dropId' = [dropId EXCEPT ![f] = graphs[n]]
      /\ gone' = gone \cup {graphs[n]}
      /\ UNCHANGED <<nextId, dirs, phase, toOpen, inst, gate, writer, ckpt, guard, sess, stopVars>>
  BY DEF DropGraph, CatalogDel, CatalogPut, ExclusiveFree
<1> USE <1>a DEF IInv, NoWriter, stopVars
<1>1. TypeOK'
  BY DEF TypeOK, InstStates, SessStates, DropStages, WriterSteps, Phases
<1>2. IdInv'
  <2>1. (\A k \in Names : catalog[k] # NoId => catalog[k] < nextId)'
    BY DEF TypeOK, IdInv
  <2>2. (\A k, m \in Names : catalog[k] # NoId /\ catalog[k] = catalog[m] => k = m)'
    BY DEF TypeOK, IdInv
  <2>3. (\A j \in Ids : inst[j] # "none" \/ j \in dirs \/ j \in gone => j < nextId)'
    BY DEF TypeOK, IdInv, MapInv
  <2> QED BY <2>1, <2>2, <2>3 DEF IdInv
<1>3. WriterInv'
  BY DEF TypeOK, WriterInv
<1>4. StartInv'
  BY DEF TypeOK, StartInv
<1>5. MapInv'
  BY DEF TypeOK, MapInv
<1>6. LeaseInv'
  BY DEF TypeOK, LeaseInv
<1>7. DropInv'
  BY DEF TypeOK, DropInv, MapInv, IdInv, StopInv, DropStages
<1>8. StopInv'
  BY DEF TypeOK, StopInv
<1> QED
  BY <1>1, <1>2, <1>3, <1>4, <1>5, <1>6, <1>7, <1>8

(* dropGraph closes the gate. *)
LEMMA CloseGatePreserves ==
    ASSUME IInv, NEW f \in Flows, CloseGate(f)
    PROVE  IInv'
<1>a. /\ drop[f] = "unmapped" /\ dropId[f] \in Ids
      /\ gate' \subseteq Ids
      /\ drop' = [drop EXCEPT ![f] = "waiting"]
      /\ UNCHANGED <<catalog, nextId, dirs, phase, toOpen, graphs, inst, writer, ckpt, guard, sess,
                     dropId, stopVars, gone>>
  BY DEF CloseGate, IInv, TypeOK, DropInv, disk
<1> USE <1>a DEF IInv, stopVars
<1>1. TypeOK'
  BY DEF TypeOK, InstStates, SessStates, DropStages, WriterSteps, Phases
<1>2. IdInv'
  BY DEF TypeOK, IdInv
<1>3. WriterInv'
  BY DEF TypeOK, WriterInv
<1>4. StartInv'
  BY DEF TypeOK, StartInv
<1>5. MapInv'
  BY DEF TypeOK, MapInv
<1>6. LeaseInv'
  BY DEF TypeOK, LeaseInv
<1>7. DropInv'
  BY DEF TypeOK, DropInv, DropStages
<1>8. StopInv'
  BY DEF TypeOK, StopInv
<1> QED
  BY <1>1, <1>2, <1>3, <1>4, <1>5, <1>6, <1>7, <1>8

(* dropGraph has seen the gate drain. *)
LEMMA DrainedPreserves ==
    ASSUME IInv, NEW f \in Flows, Drained(f)
    PROVE  IInv'
<1> USE DEF IInv, Drained, Inflight, disk, stopVars
<1>1. TypeOK'
  BY DEF TypeOK, InstStates, SessStates, DropStages, WriterSteps, Phases
<1>2. IdInv'
  BY DEF TypeOK, IdInv
<1>3. WriterInv'
  BY DEF TypeOK, WriterInv
<1>4. StartInv'
  BY DEF TypeOK, StartInv
<1>5. MapInv'
  BY DEF TypeOK, MapInv
<1>6. LeaseInv'
  BY DEF TypeOK, LeaseInv
<1>7. DropInv'
  BY DEF TypeOK, DropInv, DropStages
<1>8. StopInv'
  BY DEF TypeOK, StopInv
<1> QED
  BY <1>1, <1>2, <1>3, <1>4, <1>5, <1>6, <1>7, <1>8

(* dropGraph gives up waiting. *)
LEMMA DrainTimeoutPreserves ==
    ASSUME IInv, NEW f \in Flows, DrainTimeout(f)
    PROVE  IInv'
<1> USE DEF IInv, DrainTimeout, LeakInstance, disk, stopVars, DropInv
<1>1. TypeOK'
  BY DEF TypeOK, InstStates, SessStates, DropStages, WriterSteps, Phases
<1>2. IdInv'
  BY DEF TypeOK, IdInv
<1>3. WriterInv'
  BY DEF TypeOK, WriterInv
<1>4. StartInv'
  BY DEF TypeOK, StartInv
<1>5. MapInv'
  BY DEF TypeOK, MapInv
<1>6. LeaseInv'
  BY DEF TypeOK, LeaseInv
<1>7. DropInv'
  BY DEF TypeOK, DropInv, DropStages
<1>8. StopInv'
  BY DEF TypeOK, StopInv
<1> QED
  BY <1>1, <1>2, <1>3, <1>4, <1>5, <1>6, <1>7, <1>8

(* dropGraph destroys the instance. *)
LEMMA DestroyInstancePreserves ==
    ASSUME IInv, NEW f \in Flows, DestroyInstance(f)
    PROVE  IInv'
<1>a. /\ drop[f] = "drained"
      /\ inst' = [inst EXCEPT ![dropId[f]] = "closed"]
      /\ drop' = [drop EXCEPT ![f] = "removing"]
      /\ UNCHANGED <<catalog, nextId, dirs, phase, toOpen, graphs, gate, writer, ckpt, guard, sess,
                     dropId, stopVars, gone>>
  BY DEF DestroyInstance, Leased, IInv, DropInv, disk
<1> USE <1>a DEF IInv, stopVars, DropInv
<1>1. TypeOK'
  BY DEF TypeOK, InstStates, SessStates, DropStages, WriterSteps, Phases
<1>2. IdInv'
  BY DEF TypeOK, IdInv
<1>3. WriterInv'
  BY DEF TypeOK, WriterInv
<1>4. StartInv'
  BY DEF TypeOK, StartInv
<1>5. MapInv'
  BY DEF TypeOK, MapInv
<1>6. LeaseInv'
  BY DEF TypeOK, LeaseInv
<1>7. DropInv'
  BY DEF TypeOK, DropInv, DropStages
<1>8. StopInv'
  BY DEF TypeOK, StopInv
<1> QED
  BY <1>1, <1>2, <1>3, <1>4, <1>5, <1>6, <1>7, <1>8

(* dropGraph removes the directory. *)
LEMMA RemoveDirectoryPreserves ==
    ASSUME IInv, NEW f \in Flows, RemoveDirectory(f)
    PROVE  IInv'
<1> USE DEF IInv, RemoveDirectory, stopVars
<1>1. TypeOK'
  BY DEF TypeOK, InstStates, SessStates, DropStages, WriterSteps, Phases
<1>2. IdInv'
  BY DEF TypeOK, IdInv
<1>3. WriterInv'
  BY DEF TypeOK, WriterInv
<1>4. StartInv'
  BY DEF TypeOK, StartInv
<1>5. MapInv'
  BY DEF TypeOK, MapInv
<1>6. LeaseInv'
  BY DEF TypeOK, LeaseInv
<1>7. DropInv'
  BY DEF TypeOK, DropInv, DropStages
<1>8. StopInv'
  BY DEF TypeOK, StopInv
<1> QED
  BY <1>1, <1>2, <1>3, <1>4, <1>5, <1>6, <1>7, <1>8

(* The checkpoint thread takes and releases the shared lock. *)
LEMMA CheckpointPreserves ==
    ASSUME IInv, CheckpointBegin \/ CheckpointEnd
    PROVE  IInv'
<1>a. /\ (writer = NoWriter /\ phase = "up") \/ ckpt' = {}
      /\ \A i \in ckpt' : i \in Ids /\ \E n \in Names : graphs[n] = i
      /\ UNCHANGED <<disk, phase, toOpen, graphs, inst, gate, writer, flowVars, stopVars, gone>>
  BY DEF CheckpointBegin, CheckpointEnd, SharedFree, Mapped, IInv, TypeOK
<1> USE <1>a DEF IInv, disk, flowVars, stopVars
<1>1. TypeOK'
  BY DEF TypeOK, InstStates, SessStates, DropStages, WriterSteps, Phases
<1>2. IdInv'
  BY DEF TypeOK, IdInv
<1>3. WriterInv'
  BY DEF TypeOK, WriterInv
<1>4. StartInv'
  BY DEF TypeOK, StartInv
<1>5. MapInv'
  BY DEF TypeOK, MapInv
<1>6. LeaseInv'
  BY DEF TypeOK, LeaseInv
<1>7. DropInv'
  BY DEF TypeOK, DropInv, DropStages
<1>8. StopInv'
  BY DEF TypeOK, StopInv
<1> QED
  BY <1>1, <1>2, <1>3, <1>4, <1>5, <1>6, <1>7, <1>8

(* shutdown stops the checkpoint loop. *)
LEMMA ShutdownPreserves ==
    ASSUME IInv, Shutdown
    PROVE  IInv'
<1> USE DEF IInv, Shutdown, disk, flowVars, stopVars
<1>1. TypeOK'
  BY DEF TypeOK, InstStates, SessStates, DropStages, WriterSteps, Phases
<1>2. IdInv'
  BY DEF TypeOK, IdInv
<1>3. WriterInv'
  BY DEF TypeOK, WriterInv
<1>4. StartInv'
  BY DEF TypeOK, StartInv
<1>5. MapInv'
  BY DEF TypeOK, MapInv
<1>6. LeaseInv'
  BY DEF TypeOK, LeaseInv
<1>7. DropInv'
  BY DEF TypeOK, DropInv, DropStages
<1>8. StopInv'
  BY DEF TypeOK, StopInv
<1> QED
  BY <1>1, <1>2, <1>3, <1>4, <1>5, <1>6, <1>7, <1>8

(* shutdown takes every instance out of the map. *)
LEMMA ShutdownExtractPreserves ==
    ASSUME IInv, ShutdownExtract
    PROVE  IInv'
<1>a. /\ phase = "stopping" /\ phase' = "exiting" /\ writer = NoWriter /\ ckpt = {}
      /\ \A i \in stopping' : i \in Ids /\ \E n \in Names : graphs[n] = i
      /\ gate' \subseteq Ids
      /\ graphs' = [n \in Names |-> NoId]
      /\ UNCHANGED <<disk, toOpen, inst, writer, ckpt, flowVars, drained, gone>>
  BY DEF ShutdownExtract, ExclusiveFree, Mapped, IInv, TypeOK
<1> USE <1>a DEF IInv, disk, flowVars
<1>1. TypeOK'
  BY DEF TypeOK, InstStates, SessStates, DropStages, WriterSteps, Phases
<1>2. IdInv'
  BY DEF TypeOK, IdInv
<1>3. WriterInv'
  BY DEF TypeOK, WriterInv
<1>4. StartInv'
  BY DEF TypeOK, StartInv
<1>5. MapInv'
  BY DEF TypeOK, MapInv
<1>6. LeaseInv'
  BY DEF TypeOK, LeaseInv
<1>7. DropInv'
  BY DEF TypeOK, DropInv, DropStages, StopInv
<1>8. StopInv'
  BY DEF TypeOK, StopInv, MapInv
<1> QED
  BY <1>1, <1>2, <1>3, <1>4, <1>5, <1>6, <1>7, <1>8

(* shutdown has waited for one instance. *)
LEMMA ShutdownWaitPreserves ==
    ASSUME IInv, NEW i \in Ids, ShutdownDrained(i) \/ ShutdownTimeout(i)
    PROVE  IInv'
<1>a. /\ i \in stopping
      /\ stopping' = stopping \ {i}
      /\ \/ /\ drained' = drained \cup {i} /\ inst' = inst
            /\ \A g \in Flows : guard[g] # i
         \/ drained' = drained /\ inst' = [inst EXCEPT ![i] = "leaked"]
      /\ UNCHANGED <<catalog, nextId, dirs, phase, toOpen, graphs, gate, writer, ckpt, flowVars, gone>>
  BY DEF ShutdownDrained, ShutdownTimeout, Inflight, disk
<1> USE <1>a DEF IInv, flowVars, StopInv
<1>1. TypeOK'
  <2>1. catalog' \in [Names -> Ids \cup {NoId}] /\ graphs' \in [Names -> Ids \cup {NoId}]
    BY DEF TypeOK
  <2>2. inst' \in [Ids -> InstStates]
    BY DEF TypeOK, InstStates
  <2>3. writer' \in [name : Names, id : Ids \cup {NoId}, step : WriterSteps]
    BY DEF TypeOK, WriterSteps
  <2>4. dirs' \subseteq Ids /\ toOpen' \subseteq Names /\ stopping' \subseteq Ids /\ drained' \subseteq Ids
    BY DEF TypeOK
  <2> QED BY <2>1, <2>2, <2>3, <2>4 DEF TypeOK
<1>2. IdInv'
  BY DEF TypeOK, IdInv
<1>3. WriterInv'
  BY DEF TypeOK, WriterInv
<1>4. StartInv'
  BY DEF TypeOK, StartInv
<1>5. MapInv'
  BY DEF TypeOK, MapInv
<1>6. LeaseInv'
  BY DEF TypeOK, LeaseInv
<1>7. DropInv'
  BY DEF TypeOK, DropInv, DropStages
<1>8. StopInv'
  BY DEF TypeOK, StopInv
<1> QED
  BY <1>1, <1>2, <1>3, <1>4, <1>5, <1>6, <1>7, <1>8

(* shutdown destroys what has drained. *)
LEMMA ShutdownDestroyPreserves ==
    ASSUME IInv, ShutdownDestroy
    PROVE  IInv'
<1> USE DEF IInv, ShutdownDestroy, disk, flowVars, StopInv
<1>1. TypeOK'
  BY DEF TypeOK, InstStates, SessStates, DropStages, WriterSteps, Phases
<1>2. IdInv'
  BY DEF TypeOK, IdInv
<1>3. WriterInv'
  BY DEF TypeOK, WriterInv
<1>4. StartInv'
  BY DEF TypeOK, StartInv
<1>5. MapInv'
  BY DEF TypeOK, MapInv
<1>6. LeaseInv'
  BY DEF TypeOK, LeaseInv
<1>7. DropInv'
  BY DEF TypeOK, DropInv, DropStages
<1>8. StopInv'
  BY DEF TypeOK, StopInv
<1> QED
  BY <1>1, <1>2, <1>3, <1>4, <1>5, <1>6, <1>7, <1>8

-----------------------------------------------------------------------------

LEMMA InitIInv == Init => IInv
<1> SUFFICES ASSUME Init PROVE IInv
  OBVIOUS
<1> USE DEF Init, NoWriter
<1>1. TypeOK
  BY DEF TypeOK, InstStates, SessStates, DropStages, WriterSteps, Phases
<1>2. IdInv /\ WriterInv /\ StartInv /\ MapInv
  BY DEF IdInv, WriterInv, StartInv, MapInv
<1>3. LeaseInv /\ DropInv /\ StopInv
  BY DEF LeaseInv, DropInv, StopInv
<1> QED
  BY <1>1, <1>2, <1>3 DEF IInv

(* The two ways init can fail, exit() and a crash all end the process. *)
LEMMA EndingPreserves ==
    ASSUME IInv,
           \/ Crash \/ Exit
           \/ StartDefaultEntry /\ catalog' = catalog
           \/ StartDefaultOpen /\ phase' # "up"
    PROVE  IInv'
<1>1. CASE Crash \/ Exit
  <2>1. NoProcess /\ UNCHANGED <<catalog, nextId, gone>> /\ dirs' = dirs
    BY <1>1 DEF Crash, Exit, disk
  <2>2. dirs' \subseteq {i \in Ids : i < nextId}
    BY <2>1 DEF IInv, IdInv, TypeOK
  <2> QED
    BY <2>1, <2>2, ProcessEndPreserves
<1>2. CASE StartDefaultEntry /\ catalog' = catalog
  <2>1. NoProcess /\ UNCHANGED <<catalog, nextId, gone>> /\ dirs' = dirs
    BY <1>2 DEF StartDefaultEntry
  <2>2. dirs' \subseteq {i \in Ids : i < nextId}
    BY <2>1 DEF IInv, IdInv, TypeOK
  <2> QED
    BY <2>1, <2>2, ProcessEndPreserves
<1>3. CASE StartDefaultOpen /\ phase' # "up"
  <2>1. /\ NoProcess /\ UNCHANGED <<catalog, nextId, gone>>
        /\ dirs' = dirs \/ dirs' = dirs \cup {writer.id}
        /\ writer.step = "open"
    BY <1>3 DEF StartDefaultOpen
  <2>2. writer.id \in Ids /\ writer.id < nextId
    BY <2>1 DEF IInv, WriterInv, NoWriter
  <2>a. \A i \in dirs : i \in Ids /\ i < nextId
    BY DEF IInv, IdInv, TypeOK
  <2>3. dirs' \subseteq {i \in Ids : i < nextId}
    BY <2>1, <2>2, <2>a
  <2> QED
    BY <2>1, <2>3, ProcessEndPreserves
<1> QED
  BY <1>1, <1>2, <1>3

LEMMA NextIInv == IInv /\ [Next]_vars => IInv'
<1> SUFFICES ASSUME IInv, [Next]_vars PROVE IInv'
  OBVIOUS
<1>1. CASE StartStep
  <2>1. CASE Start
    BY <2>1, StartPreserves
  <2>2. CASE StartDefault
    BY <2>2, StartDefaultPreserves
  <2>3. CASE StartDefaultEntry
    BY <2>3, StartDefaultEntryPreserves, EndingPreserves
  <2>4. CASE StartDefaultOpen
    BY <2>4, StartDefaultOpenPreserves, EndingPreserves
  <2>5. CASE StartDone
    BY <2>5, StartDonePreserves
  <2>6. ASSUME NEW n \in Names, StartGraph(n) PROVE IInv'
    BY <2>6, StartGraphPreserves
  <2> QED
    BY <1>1, <2>1, <2>2, <2>3, <2>4, <2>5, <2>6 DEF StartStep
<1>2. ASSUME NEW n \in Names, CreateGraph(n) PROVE IInv'
  BY <1>2, CreateGraphPreserves
<1>3. CASE CreateEntry \/ CreateOpen
  BY <1>3, CreateEntryPreserves, CreateOpenPreserves
<1>4. ASSUME NEW f \in Flows, FlowStep(f) PROVE IInv'
  <2>1. ASSUME NEW n \in Names, AcquireGraph(f, n) \/ DropGraph(f, n) PROVE IInv'
    BY <2>1, AcquireGraphPreserves, DropGraphPreserves
  <2>2. CASE AcquireSession(f) \/ PutSession(f) \/ PutDone(f) \/ Leave(f)
    BY <2>2, SessionStepPreserves, LeavePreserves
  <2>3. CASE CloseGate(f) \/ Drained(f) \/ DrainTimeout(f)
    BY <2>3, CloseGatePreserves, DrainedPreserves, DrainTimeoutPreserves
  <2>4. CASE DestroyInstance(f) \/ RemoveDirectory(f)
    BY <2>4, DestroyInstancePreserves, RemoveDirectoryPreserves
  <2> QED
    BY <1>4, <2>1, <2>2, <2>3, <2>4 DEF FlowStep
<1>5. CASE CheckpointBegin \/ CheckpointEnd
  BY <1>5, CheckpointPreserves
<1>6. CASE ShutdownStep
  <2>1. CASE Shutdown \/ ShutdownExtract \/ ShutdownDestroy
    BY <2>1, ShutdownPreserves, ShutdownExtractPreserves, ShutdownDestroyPreserves
  <2>2. CASE Exit
    BY <2>2, EndingPreserves
  <2>3. ASSUME NEW i \in Ids, ShutdownDrained(i) \/ ShutdownTimeout(i) PROVE IInv'
    BY <2>3, ShutdownWaitPreserves
  <2> QED
    BY <1>6, <2>1, <2>2, <2>3 DEF ShutdownStep
<1>7. CASE Crash
  BY <1>7, EndingPreserves
<1>8. CASE UNCHANGED vars
  <2> USE <1>8 DEF vars, disk, flowVars, stopVars
  <2>1. TypeOK' /\ IdInv' /\ WriterInv' /\ StartInv'
    BY DEF IInv, TypeOK, IdInv, WriterInv, StartInv
  <2>2. MapInv' /\ LeaseInv' /\ DropInv' /\ StopInv'
    BY DEF IInv, MapInv, LeaseInv, DropInv, StopInv
  <2> QED
    BY <2>1, <2>2 DEF IInv
<1> QED
  BY <1>1, <1>2, <1>3, <1>4, <1>5, <1>6, <1>7, <1>8 DEF Next

\* The inductive invariant holds throughout every behaviour.
THEOREM Invariance == Spec => []IInv
<1> QED
  BY InitIInv, NextIInv, PTL DEF Spec

\* Every variable of the manager, its gates and its catalog has its type.
THEOREM TypeCorrect == Spec => []TypeOK
<1>1. IInv => TypeOK
  BY DEF IInv
<1> QED
  BY <1>1, Invariance, PTL

\* No WT connection is closed under a lease holder, a session that put() is
\* still closing, or the checkpoint thread.
THEOREM ConnectionSafety == Spec => []NoUseAfterClose
<1>1. IInv => NoUseAfterClose
  BY DEF IInv, TypeOK, MapInv, LeaseInv, NoUseAfterClose, Inflight, Mapped
<1> QED
  BY <1>1, Invariance, PTL

\* After waitDrained nobody holds a lease on the instance being dropped.
THEOREM DrainSafety == Spec => []DrainedMeansReturned
<1>1. IInv => DrainedMeansReturned
  BY DEF IInv, DropInv, DrainedMeansReturned
<1> QED
  BY <1>1, Invariance, PTL

\* Every served graph has its own entry in the persistent catalog.
THEOREM CatalogAgreement == Spec => []ServedIsCatalogued
<1>1. IInv => ServedIsCatalogued
  BY DEF IInv, TypeOK, IdInv, MapInv, ServedIsCatalogued
<1> QED
  BY <1>1, Invariance, PTL

\* createGraph never reuses the id, hence the directory, of another graph.
THEOREM FreshIds == Spec => []FreshDirectory
<1>1. IInv => FreshDirectory
  <2> SUFFICES ASSUME IInv, writer # NoWriter
               PROVE  /\ writer.id \notin dirs \cup gone
                      /\ inst[writer.id] = "none"
                      /\ \A n \in Names \ {writer.name} : catalog[n] # writer.id
    BY DEF FreshDirectory
  <2>1. writer.id \in Ids /\ writer.name \in Names /\ writer.step \in WriterSteps
    BY DEF IInv, TypeOK, WriterInv
  <2> QED
    BY <2>1 DEF IInv, TypeOK, IdInv, WriterInv, WriterSteps
<1> QED
  BY <1>1, Invariance, PTL

\* The directory of a graph is deleted only by the dropGraph call that has
\* closed its connections: remove_all never runs under an open connection.
THEOREM DirectorySafety == Spec => RemoveAfterClose
<1> DEFINE Kept == \A i \in Ids : i \in dirs /\ i \notin dirs' =>
                                     inst[i] = "closed" /\ inst'[i] = "closed"
<1>1. ASSUME IInv, [Next]_vars PROVE Kept
  <2>1. CASE \E f \in Flows : RemoveDirectory(f)
    BY <1>1, <2>1 DEF IInv, DropInv, RemoveDirectory
  <2>2. CASE \A f \in Flows : ~RemoveDirectory(f)
    <3>1. dirs \subseteq dirs'
      BY <1>1, <2>2 DEF Next, vars, disk, StartStep, Start, StartGraph, StartDefault,
         StartDefaultEntry, StartDefaultOpen, StartDone, OpenSucceeds, OpenFails, CreateGraph,
         CreateEntry, CreateOpen, FlowStep, AcquireGraph, DropGraph, AcquireSession, PutSession,
         PutDone, Leave, CloseGate, Drained, DrainTimeout, LeakInstance, DestroyInstance,
         CheckpointBegin, CheckpointEnd, ShutdownStep, Shutdown, ShutdownExtract,
         ShutdownDestroy, Exit, ShutdownDrained, ShutdownTimeout, Crash
    <3> QED
      BY <3>1
  <2> QED
    BY <2>1, <2>2
<1>2. IInv /\ [Next]_vars => [Kept]_vars
  BY <1>1
<1> QED
  BY <1>2, Invariance, PTL DEF Spec, RemoveAfterClose

-----------------------------------------------------------------------------
(* The lease contract.  The state of GraphLeaseContract is a function of    *)
(* inst, graphs and guard; these lemmas say how it moves when they do.      *)

LEMMA SameStatus ==
    ASSUME inst' = inst, graphs' = graphs
    PROVE  \A i \in Ids : Status(i)' = Status(i)
  BY DEF Status, Mapped

LEMMA SameUsers ==
    ASSUME guard' = guard
    PROVE  \A i \in Ids : Inflight(i)' = Inflight(i)
  BY DEF Inflight

LEMMA ContractStutter ==
    ASSUME inst' = inst, graphs' = graphs, guard' = guard
    PROVE  UNCHANGED C!contractVars
  BY SameStatus, SameUsers DEF C!contractVars

\* openGraphInstance succeeded and the map points to the new instance.
LEMMA ContractServe ==
    ASSUME IInv, NEW n \in Names, NEW i \in Ids, inst[i] = "none", graphs[n] = NoId,
           inst' = [inst EXCEPT ![i] = "open"], graphs' = [graphs EXCEPT ![n] = i],
           guard' = guard
    PROVE  C!CNext
<1>1. i \notin Mapped /\ Mapped' = Mapped \cup {i}
  BY DEF IInv, TypeOK, MapInv, Mapped
<1>2. Status(i) = "absent" /\ Status(i)' = "serving"
  BY <1>1 DEF Status, IInv, TypeOK
<1>3. \A j \in Ids \ {i} : Status(j)' = Status(j)
  BY <1>1 DEF Status, IInv, TypeOK
<1>4. C!Serve(i)
  BY <1>2, <1>3, SameUsers DEF C!Serve
<1> QED
  BY <1>4 DEF C!CNext

\* The process ends, whatever it was doing.
LEMMA ContractEnd ==
    ASSUME NoProcess
    PROVE  C!CNext
<1>1. \A i \in Ids : Status(i)' = "absent" /\ Inflight(i)' = {}
  BY DEF NoProcess, Status, Inflight
<1>2. C!ProcessEnd
  BY <1>1 DEF C!ProcessEnd
<1> QED
  BY <1>2 DEF C!CNext

\* acquireGraph enters the gate of a mapped, open instance.
LEMMA ContractEnter ==
    ASSUME IInv, NEW f \in Flows, NEW n \in Names, AcquireGraph(f, n)
    PROVE  C!CNext
<1> DEFINE i == graphs[n]
<1>1. i \in Ids /\ Status(i) = "serving"
  BY DEF IInv, TypeOK, MapInv, AcquireGraph, Status, Mapped
<1>2. \A j \in Ids : Status(j)' = Status(j)
  BY SameStatus DEF AcquireGraph
<1>3. \A j \in Ids : Inflight(j)' = IF j = i THEN Inflight(j) \cup {f} ELSE Inflight(j)
  BY <1>1 DEF IInv, TypeOK, AcquireGraph, Inflight
<1>4. C!Enter(f, i)
  BY <1>1, <1>2, <1>3 DEF C!Enter
<1> QED
  BY <1>1, <1>4 DEF C!CNext

\* ~Guard leaves it.
LEMMA ContractRelease ==
    ASSUME IInv, NEW f \in Flows, Leave(f)
    PROVE  C!CNext
<1> DEFINE i == guard[f]
<1>1. i \in Ids /\ f \in Inflight(i)
  BY DEF IInv, TypeOK, Leave, Inflight
<1>2. \A j \in Ids : Status(j)' = Status(j)
  BY SameStatus DEF Leave
<1>3. \A j \in Ids : Inflight(j)' = IF j = i THEN Inflight(j) \ {f} ELSE Inflight(j)
  BY <1>1 DEF IInv, TypeOK, Leave, Inflight
<1>4. C!Release(f, i)
  BY <1>1, <1>2, <1>3 DEF C!Release
<1> QED
  BY <1>1, <1>4 DEF C!CNext

\* dropGraph and shutdown take instances out of the map while they are open;
\* two names never share an instance, so nothing else is withdrawn.
LEMMA ContractWithdraw ==
    ASSUME IInv, NEW S \in SUBSET Ids, S \subseteq Mapped, Mapped' = Mapped \ S,
           inst' = inst, guard' = guard
    PROVE  C!CNext
<1>1. \A i \in S : Status(i) = "serving" /\ Status(i)' = "withdrawn"
  BY DEF IInv, TypeOK, MapInv, Mapped, Status
<1>2. \A i \in Ids \ S : Status(i)' = Status(i)
  BY DEF Status
<1>3. C!Withdraw(S)
  BY <1>1, <1>2, SameUsers DEF C!Withdraw
<1> QED
  BY <1>3 DEF C!CNext

\* Instances that are out of the map and that nobody uses are closed.
LEMMA ContractClose ==
    ASSUME IInv, NEW S \in SUBSET Ids,
           \A i \in S : inst[i] = "open" /\ Inflight(i) = {} /\ \A n \in Names : graphs[n] # i,
           inst' = [i \in Ids |-> IF i \in S THEN "closed" ELSE inst[i]],
           graphs' = graphs, guard' = guard
    PROVE  C!CNext
<1>1. Mapped' = Mapped /\ S \cap Mapped = {}
  BY DEF IInv, TypeOK, Mapped
<1>2. \A i \in S : Status(i) = "withdrawn" /\ Status(i)' = "closed"
  BY <1>1 DEF Status
<1>3. \A i \in Ids \ S : Status(i)' = Status(i)
  BY <1>1 DEF Status
<1>4. C!Close(S)
  BY <1>2, <1>3, SameUsers DEF C!Close
<1> QED
  BY <1>4 DEF C!CNext

\* An instance that is out of the map and still used is leaked.
LEMMA ContractLeak ==
    ASSUME IInv, NEW i \in Ids, inst[i] = "open", Inflight(i) # {},
           \A n \in Names : graphs[n] # i,
           inst' = [inst EXCEPT ![i] = "leaked"], graphs' = graphs, guard' = guard
    PROVE  C!CNext
<1>1. Mapped' = Mapped /\ i \notin Mapped
  BY DEF IInv, TypeOK, Mapped
<1>2. Status(i) = "withdrawn" /\ Status(i)' = "leaked"
  BY <1>1 DEF Status, IInv, TypeOK
<1>3. \A j \in Ids \ {i} : Status(j)' = Status(j)
  BY <1>1 DEF Status, IInv, TypeOK
<1>4. C!Leak(i)
  BY <1>2, <1>3, SameUsers DEF C!Leak
<1> QED
  BY <1>4 DEF C!CNext

LEMMA ContractStart ==
    ASSUME IInv, StartStep
    PROVE  C!CNext \/ UNCHANGED C!contractVars
<1>1. CASE Start \/ StartDefault \/ StartDone
  BY <1>1, ContractStutter DEF Start, StartDefault, StartDone, flowVars
<1>2. CASE StartDefaultEntry
  BY <1>2, ContractStutter, ContractEnd DEF StartDefaultEntry, flowVars
<1>3. CASE StartDefaultOpen
  <2>1. CASE NoProcess
    BY <2>1, ContractEnd
  <2>2. CASE ~NoProcess
    <3>1. /\ inst' = [inst EXCEPT ![writer.id] = "open"]
          /\ graphs' = [graphs EXCEPT ![Default] = writer.id]
          /\ guard' = guard
          /\ writer.step = "open" /\ phase = "starting"
      BY <1>3, <2>2 DEF StartDefaultOpen, OpenSucceeds, flowVars
    <3>2. /\ writer.id \in Ids /\ inst[writer.id] = "none"
          /\ catalog[Default] = writer.id
      BY <3>1 DEF IInv, WriterInv, NoWriter
    <3>3. graphs[Default] = NoId
      BY <3>2 DEF IInv, MapInv
    <3> QED
      BY <3>1, <3>2, <3>3, ContractServe
  <2> QED
    BY <2>1, <2>2
<1>4. ASSUME NEW n \in Names, StartGraph(n) PROVE C!CNext \/ UNCHANGED C!contractVars
  <2>1. CASE inst' = inst /\ graphs' = graphs
    BY <1>4, <2>1, ContractStutter DEF StartGraph, flowVars
  <2>2. CASE ~(inst' = inst /\ graphs' = graphs)
    <3>1. /\ inst' = [inst EXCEPT ![catalog[n]] = "open"]
          /\ graphs' = [graphs EXCEPT ![n] = catalog[n]]
          /\ guard' = guard
          /\ n \in toOpen
      BY <1>4, <2>2 DEF StartGraph, OpenSucceeds, OpenFails, flowVars
    <3>2. catalog[n] \in Ids /\ inst[catalog[n]] = "none" /\ graphs[n] = NoId
      BY <3>1 DEF IInv, TypeOK, StartInv, MapInv
    <3> QED
      BY <3>1, <3>2, ContractServe
  <2> QED
    BY <2>1, <2>2
<1> QED
  BY <1>1, <1>2, <1>3, <1>4 DEF StartStep

LEMMA ContractCreate ==
    ASSUME IInv, CreateEntry \/ CreateOpen
    PROVE  C!CNext \/ UNCHANGED C!contractVars
<1>1. CASE inst' = inst /\ graphs' = graphs
  BY <1>1, ContractStutter DEF CreateEntry, CreateOpen, flowVars
<1>2. CASE ~(inst' = inst /\ graphs' = graphs)
  <2>1. /\ inst' = [inst EXCEPT ![writer.id] = "open"]
        /\ graphs' = [graphs EXCEPT ![writer.name] = writer.id]
        /\ guard' = guard
        /\ writer.step = "open"
    BY <1>2 DEF CreateEntry, CreateOpen, OpenSucceeds, OpenFails, flowVars
  <2>2. /\ writer.id \in Ids /\ writer.name \in Names /\ inst[writer.id] = "none"
        /\ catalog[writer.name] = writer.id
    BY <2>1 DEF IInv, TypeOK, WriterInv, NoWriter
  <2>3. graphs[writer.name] = NoId
    BY <2>2 DEF IInv, TypeOK, MapInv
  <2> QED
    BY <2>1, <2>2, <2>3, ContractServe
<1> QED
  BY <1>1, <1>2

LEMMA ContractFlow ==
    ASSUME IInv, NEW f \in Flows, FlowStep(f)
    PROVE  C!CNext \/ UNCHANGED C!contractVars
<1>1. ASSUME NEW n \in Names, AcquireGraph(f, n) PROVE C!CNext
  BY <1>1, ContractEnter
<1>2. ASSUME NEW n \in Names, DropGraph(f, n) PROVE C!CNext
  <2>1. graphs[n] \in Ids /\ {graphs[n]} \subseteq Mapped
    BY <1>2 DEF DropGraph, IInv, TypeOK, Mapped
  <2>2. Mapped' = Mapped \ {graphs[n]}
    <3>1. \A m \in Names : m # n => graphs[m] # graphs[n]
      BY <2>1 DEF IInv, IdInv, MapInv
    <3> QED
      BY <1>2, <3>1 DEF DropGraph, IInv, TypeOK, Mapped
  <2> QED
    BY <1>2, <2>1, <2>2, ContractWithdraw DEF DropGraph
<1>3. CASE Leave(f)
  BY <1>3, ContractRelease
<1>4. CASE AcquireSession(f) \/ PutSession(f) \/ PutDone(f) \/ CloseGate(f) \/ Drained(f)
           \/ RemoveDirectory(f)
  BY <1>4, ContractStutter DEF AcquireSession, PutSession, PutDone, CloseGate, Drained,
     RemoveDirectory
<1>5. CASE DrainTimeout(f)
  BY <1>5, ContractLeak DEF DrainTimeout, LeakInstance, IInv, DropInv
<1>6. CASE DestroyInstance(f)
  <2>1. /\ dropId[f] \in Ids /\ inst[dropId[f]] = "open" /\ Inflight(dropId[f]) = {}
        /\ \A n \in Names : graphs[n] # dropId[f]
    BY <1>6 DEF DestroyInstance, IInv, DropInv, Inflight
  <2>2. Leased(dropId[f]) = {}
    BY <2>1 DEF Leased, Inflight
  <2>3. /\ inst' = [inst EXCEPT ![dropId[f]] = "closed"]
        /\ graphs' = graphs /\ guard' = guard
    BY <1>6, <2>2 DEF DestroyInstance
  <2>4. inst' = [i \in Ids |-> IF i \in {dropId[f]} THEN "closed" ELSE inst[i]]
    BY <2>1, <2>3 DEF IInv, TypeOK
  <2>5. /\ {dropId[f]} \in SUBSET Ids
        /\ \A i \in {dropId[f]} : /\ inst[i] = "open" /\ Inflight(i) = {}
                                  /\ \A n \in Names : graphs[n] # i
    BY <2>1
  <2> HIDE DEF Ids
  <2> QED
    BY <2>3, <2>4, <2>5, ContractClose
<1> QED
  BY <1>1, <1>2, <1>3, <1>4, <1>5, <1>6 DEF FlowStep

LEMMA ContractShutdown ==
    ASSUME IInv, ShutdownStep
    PROVE  C!CNext \/ UNCHANGED C!contractVars
<1>1. CASE Shutdown
  BY <1>1, ContractStutter DEF Shutdown, flowVars
<1>2. CASE ShutdownExtract
  <2>1. Mapped \subseteq Ids /\ Mapped' = Mapped \ Mapped
    BY <1>2 DEF ShutdownExtract, IInv, TypeOK, Mapped
  <2> QED
    BY <1>2, <2>1, ContractWithdraw DEF ShutdownExtract, flowVars
<1>3. CASE ShutdownDestroy
  <2>1. drained \in SUBSET Ids
    BY DEF IInv, TypeOK
  <2>2. \A i \in drained : /\ inst[i] = "open" /\ Inflight(i) = {}
                           /\ \A n \in Names : graphs[n] # i
    BY DEF IInv, StopInv, Inflight
  <2> QED
    BY <1>3, <2>1, <2>2, ContractClose DEF ShutdownDestroy, flowVars
<1>4. CASE Exit
  BY <1>4, ContractEnd DEF Exit
<1>5. ASSUME NEW i \in Ids, ShutdownDrained(i) PROVE UNCHANGED C!contractVars
  BY <1>5, ContractStutter DEF ShutdownDrained, flowVars
<1>6. ASSUME NEW i \in Ids, ShutdownTimeout(i) PROVE C!CNext
  BY <1>6, ContractLeak DEF ShutdownTimeout, flowVars, IInv, StopInv
<1> QED
  BY <1>1, <1>2, <1>3, <1>4, <1>5, <1>6 DEF ShutdownStep

\* Every step of the manager is a step of the contract or invisible to it.
LEMMA ContractStep == IInv /\ [Next]_vars => [C!CNext]_(C!contractVars)
<1> SUFFICES ASSUME IInv, [Next]_vars PROVE C!CNext \/ UNCHANGED C!contractVars
  OBVIOUS
<1>1. CASE StartStep
  BY <1>1, ContractStart
<1>2. ASSUME NEW n \in Names, CreateGraph(n) PROVE UNCHANGED C!contractVars
  BY <1>2, ContractStutter DEF CreateGraph, flowVars
<1>3. CASE CreateEntry \/ CreateOpen
  BY <1>3, ContractCreate
<1>4. ASSUME NEW f \in Flows, FlowStep(f) PROVE C!CNext \/ UNCHANGED C!contractVars
  BY <1>4, ContractFlow
<1>5. CASE CheckpointBegin \/ CheckpointEnd
  BY <1>5, ContractStutter DEF CheckpointBegin, CheckpointEnd, flowVars
<1>6. CASE ShutdownStep
  BY <1>6, ContractShutdown
<1>7. CASE Crash
  BY <1>7, ContractEnd DEF Crash
<1>8. CASE UNCHANGED vars
  BY <1>8, ContractStutter DEF vars, flowVars
<1> QED
  BY <1>1, <1>2, <1>3, <1>4, <1>5, <1>6, <1>7, <1>8 DEF Next

\* The manager implements the lease contract: instances are served, withdrawn,
\* and closed only when nobody uses them, for every number of names, flows and
\* ids, and whatever the catalog writes, the waits and the crashes do.
THEOREM ImplementsLeaseContract == Spec => LeaseContract
<1>1. Init => C!CInit
  <2> SUFFICES ASSUME Init PROVE C!CInit
    OBVIOUS
  <2>1. \A i \in Ids : Status(i) = "absent" /\ Inflight(i) = {}
    BY DEF Init, Status, Inflight
  <2> QED
    BY <2>1 DEF C!CInit
<1> QED
  BY <1>1, ContractStep, Invariance, PTL DEF Spec, LeaseContract, C!Contract
=============================================================================
