--------------------------- MODULE MetaIdsProofs ---------------------------
(***************************************************************************)
(* What holds of the identifiers of AsyncGraphMetaStore for any number of  *)
(* importers, label creators, names and id spaces, any chunk size, and any *)
(* pattern of failing writes and restarts.  That no id is handed out twice *)
(* holds until some range runs past the end of its chunk, and no longer:   *)
(* with two importers that can happen.                                     *)
(***************************************************************************)
EXTENDS MetaIds, TLAPS

\* The larger of two naturals is a natural and bounds both of them.
LEMMA Max2Bound ==
    ASSUME NEW a \in Nat, NEW b \in Nat
    PROVE  Max2(a, b) \in Nat /\ a <= Max2(a, b) /\ b <= Max2(a, b)
BY DEF Max2

\* The resting records of importers and creators have their types.
LEMMA RestTypes ==
    /\ Idle \in [pc : ImporterSteps, kind : Kinds, count : Counts \cup {0}, start : IdBound, chunk : Nat]
    /\ Idle.pc = "idle"
    /\ Rest \in [pc : CreatorSteps, name : Names \cup {NoName}, id : LabelIds]
    /\ Rest.pc = "idle"
<1>1. \E x \in Kinds : TRUE  BY MetaIdsAssumption
<1>2. (CHOOSE k \in Kinds : TRUE) \in Kinds  BY <1>1
<1>3. 0 \in IdBound /\ 0 \in LabelIds  BY MetaIdsAssumption DEF IdBound, LabelIds
<1> QED  BY <1>2, <1>3 DEF Idle, Rest, ImporterSteps, CreatorSteps

\* A store that has never been opened satisfies the invariant.
LEMMA InitIInv == Init => IInv
<1> SUFFICES ASSUME Init PROVE IInv  OBVIOUS
<1>1. TypeOK
  <2>1. 0 \in IdBound /\ 0 \in LabelIds /\ 0 \in 0 .. MaxLabel + 1
      BY MetaIdsAssumption DEF IdBound, LabelIds
  <2>2. dNext \in [ids : [Kinds -> IdBound], label : 0 .. MaxLabel + 1]
      BY <2>1 DEF Init
  <2>3. cache \in [Kinds -> [next : Nat, end : IdBound]]
      BY <2>1 DEF Init
  <2>4. imp \in [Importers -> [pc : ImporterSteps, kind : Kinds, count : Counts \cup {0},
                              start : IdBound, chunk : Nat]]
      BY RestTypes DEF Init
  <2>5. cre \in [Creators -> [pc : CreatorSteps, name : Names \cup {NoName}, id : LabelIds]]
      BY RestTypes DEF Init
  <2>6. up \in BOOLEAN  BY DEF Init
  <2> QED  BY <2>1, <2>2, <2>3, <2>4, <2>5, <2>6 DEF Init, TypeOK
<1>2. (\A i \in Importers : imp[i].pc = "idle") /\ (\A c \in Creators : cre[c].pc = "idle")
    BY RestTypes DEF Init
<1>3. CachedIsDurable /\ VisibleIsDurable  BY DEF Init, CachedIsDurable, VisibleIsDurable
<1>4. CountersAhead  BY <1>2 DEF Init, CountersAhead
<1> QED  BY <1>1, <1>2, <1>3, <1>4 DEF IInv, ChunksAscend, OneRefill, ChunkCovered, LabelUnderway

-----------------------------------------------------------------------------
(* One lemma per group of steps *)

ImpType == [pc : ImporterSteps, kind : Kinds, count : Counts \cup {0}, start : IdBound, chunk : Nat]
CreType == [pc : CreatorSteps, name : Names \cup {NoName}, id : LabelIds]

\* open() loads the counters the disk has, or starts from 1.
LEMMA OpenStep == ASSUME IInv, Open PROVE IInv'
<1> USE MetaIdsAssumption DEF IInv
<1>1. /\ UNCHANGED <<dName, dId, dNext, cache, refill, imp, cre>> /\ up' = TRUE /\ ~up
      /\ mName' = dName
    BY DEF Open, disk
<1>2. next' \in [Kinds -> IdBound] /\ nextLabel' \in 1 .. MaxLabel + 1
      /\ \A k \in Kinds : dNext.ids[k] <= next'[k]
  <2>1. CASE dNext.label = 0
    <3>1. next' = [k \in Kinds |-> 1] /\ nextLabel' \in 1 .. MaxLabel + 1  BY <2>1 DEF Open
    <3>2. \A k \in Kinds : dNext.ids[k] = 0  BY <2>1 DEF CountersAhead
    <3> QED  BY <3>1, <3>2 DEF IdBound
  <2>2. CASE dNext.label # 0
    <3>1. next' = dNext.ids /\ nextLabel' = dNext.label  BY <2>2 DEF Open
    <3> QED  BY <3>1, <2>2 DEF TypeOK, IdBound
  <2> QED  BY <2>1, <2>2
<1>3. TypeOK'
  <2>1. up' \in BOOLEAN  BY <1>1
  <2>2. nextLabel' \in 0 .. MaxLabel + 1  BY <1>2
  <2> QED  BY <1>1, <1>2, <2>1, <2>2 DEF TypeOK
<1>4. CachedIsDurable' /\ ChunksAscend' /\ OneRefill' /\ LabelUnderway' /\ VisibleIsDurable'
    BY <1>1 DEF CachedIsDurable, ChunksAscend, OneRefill, LabelUnderway, VisibleIsDurable
<1>5. \A i \in Importers : imp[i].pc = "idle"  BY <1>1 DEF CountersAhead
<1>6. ChunkCovered'  BY <1>1, <1>5 DEF ChunkCovered
<1>7. CountersAhead'  BY <1>1, <1>2 DEF CountersAhead
<1> QED  BY <1>3, <1>4, <1>6, <1>7

\* A stop leaves only the disk.
LEMMA StopStep == ASSUME IInv, Stop PROVE IInv'
<1> USE MetaIdsAssumption DEF IInv
<1>1. /\ UNCHANGED <<dName, dId, dNext>> /\ up' = FALSE
      /\ cache' = [k \in Kinds |-> [next |-> 0, end |-> 0]]
      /\ mName' = [n \in Names |-> 0]
      /\ next' = [k \in Kinds |-> 0] /\ nextLabel' = 0 /\ refill' = NoOne
      /\ imp' = [i \in Importers |-> Idle] /\ cre' = [c \in Creators |-> Rest]
    BY DEF Stop, disk
<1>2. (\A i \in Importers : imp'[i].pc = "idle") /\ (\A c \in Creators : cre'[c].pc = "idle")
    BY <1>1, RestTypes
<1>3. TypeOK'
  <2>1. 0 \in IdBound /\ 0 \in LabelIds /\ 0 \in 0 .. MaxLabel + 1  BY DEF IdBound, LabelIds
  <2>2. imp' \in [Importers -> ImpType] /\ cre' \in [Creators -> CreType]
      BY <1>1, RestTypes DEF ImpType, CreType
  <2>3. cache' \in [Kinds -> [next : Nat, end : IdBound]]  BY <1>1, <2>1
  <2>4. up' \in BOOLEAN  BY <1>1
  <2> QED  BY <1>1, <2>1, <2>2, <2>3, <2>4 DEF TypeOK, ImpType, CreType
<1>4. CachedIsDurable'  BY <1>1 DEF CachedIsDurable, TypeOK, IdBound
<1>5. VisibleIsDurable'  BY <1>1 DEF VisibleIsDurable
<1>6. CountersAhead'  BY <1>1, <1>2 DEF CountersAhead
<1> QED  BY <1>2, <1>3, <1>4, <1>5, <1>6 DEF ChunksAscend, OneRefill, ChunkCovered, LabelUnderway

\* Taking ids moves the position in the cache and nothing the invariant is
\* about; the importer is at rest afterwards.
LEMMA TakeStep ==
    ASSUME IInv, NEW i \in Importers, NEW k \in Kinds, NEW count \in Nat,
           Take(k, count), up, imp' \in {imp, [imp EXCEPT ![i] = Idle]},
           refill' = refill \/ (refill' = NoOne /\ imp' = [imp EXCEPT ![i] = Idle] /\ imp[i].pc = "taking"),
           UNCHANGED <<disk, up, next, nextLabel, mName, cre>>
    PROVE  IInv'
<1> USE MetaIdsAssumption DEF IInv
<1>1. UNCHANGED <<dName, dId, dNext, up, next, nextLabel, mName, cre>>  BY DEF disk
<1>2. cache' = [cache EXCEPT ![k].next = @ + count]  BY DEF Take
<1>3. cache' \in [Kinds -> [next : Nat, end : IdBound]] /\ \A q \in Kinds : cache'[q].end = cache[q].end
  <2>1. cache \in [Kinds -> [next : Nat, end : IdBound]]  BY DEF TypeOK
  <2> QED  BY <1>2, <2>1
<1>4. imp' \in [Importers -> ImpType] /\ \A j \in Importers : imp'[j] = imp[j] \/ imp'[j].pc = "idle"
  <2>1. imp \in [Importers -> ImpType] /\ Idle \in ImpType  BY RestTypes DEF TypeOK, ImpType
  <2>2. CASE imp' = imp  BY <2>1, <2>2
  <2>3. CASE imp' = [imp EXCEPT ![i] = Idle]
    <3>1. imp' \in [Importers -> ImpType]  BY <2>1, <2>3
    <3>2. \A j \in Importers : imp'[j] = IF j = i THEN Idle ELSE imp[j]  BY <2>1, <2>3
    <3> QED  BY <3>1, <3>2, RestTypes
  <2> QED  BY <2>2, <2>3
<1>5. OneRefill'
  <2>1. CASE refill' = refill  BY <2>1, <1>4 DEF OneRefill
  <2>2. CASE imp' = [imp EXCEPT ![i] = Idle] /\ imp[i].pc = "taking"
    <3>1. refill = i  BY <2>2 DEF OneRefill
    <3>2. \A j \in Importers \ {i} : imp'[j].pc \notin {"saving", "saved", "taking"}
        BY <3>1, <2>2 DEF OneRefill, TypeOK
    <3>3. imp'[i].pc = "idle"  BY <2>2, RestTypes DEF TypeOK
    <3> QED  BY <3>2, <3>3 DEF OneRefill
  <2> QED  BY <2>1, <2>2
<1>6. TypeOK'  BY <1>1, <1>3, <1>4 DEF TypeOK, ImpType
<1>7. CachedIsDurable'  BY <1>1, <1>3 DEF CachedIsDurable
<1>8. ChunksAscend'
  <2> SUFFICES ASSUME NEW j \in Importers, imp'[j].pc \in {"saving", "saved"}
               PROVE  cache'[imp'[j].kind].end <= imp'[j].start
      BY DEF ChunksAscend
  <2>1. imp'[j] = imp[j] /\ imp[j].kind \in Kinds  BY <1>4 DEF TypeOK
  <2> QED  BY <2>1, <1>3 DEF ChunksAscend
<1>9. ChunkCovered'  BY <1>1, <1>4 DEF ChunkCovered
<1>10. CountersAhead' /\ LabelUnderway' /\ VisibleIsDurable'
    BY <1>1 DEF CountersAhead, LabelUnderway, VisibleIsDurable
<1> QED  BY <1>5, <1>6, <1>7, <1>8, <1>9, <1>10

\* Only an open store has importers and creators underway.
LEMMA Underway ==
    ASSUME IInv
    PROVE  /\ \A i \in Importers : imp[i].pc # "idle" => up
           /\ \A c \in Creators : cre[c].pc # "idle" => up
BY DEF IInv, CountersAhead, TypeOK

\* A refill, from the queue for refill_mu_ to the installation of the chunk.
\* The chunk starts at the counter in memory, which is not behind the one on
\* disk, which is not below the cached range.
LEMMA RefillStep ==
    ASSUME IInv, NEW i \in Importers,
           \/ \E k \in Kinds, count \in Counts : NeedRefill(i, k, count)
           \/ RefillReserve(i) \/ RefillSave(i) \/ RefillSaveFails(i) \/ RefillPublish(i)
    PROVE  IInv'
<1> USE MetaIdsAssumption DEF IInv
<1>0. /\ imp \in [Importers -> ImpType] /\ Idle \in ImpType
      /\ next \in [Kinds -> Nat] /\ dNext.ids \in [Kinds -> Nat]
      /\ cache \in [Kinds -> [next : Nat, end : Nat]]
      /\ IdBound \subseteq Nat
  <2>1. IdBound \subseteq Nat  BY DEF IdBound
  <2>2. imp \in [Importers -> ImpType] /\ Idle \in ImpType  BY RestTypes DEF TypeOK, ImpType
  <2>3. next \in [Kinds -> IdBound] /\ dNext.ids \in [Kinds -> IdBound]  BY DEF TypeOK
  <2>4. cache \in [Kinds -> [next : Nat, end : Nat]]  BY <2>1 DEF TypeOK
  <2> QED  BY <2>1, <2>2, <2>3, <2>4
<1>1. ASSUME NEW k \in Kinds, NEW count \in Counts, NeedRefill(i, k, count) PROVE IInv'
  <2>1. /\ UNCHANGED <<dName, dId, dNext, up, next, nextLabel, cache, mName, refill, cre>>
        /\ imp' = [imp EXCEPT ![i] = [Idle EXCEPT !.pc = "waiting", !.kind = k, !.count = count]]
        /\ up
      BY <1>1 DEF NeedRefill, disk, memory
  <2>2. [Idle EXCEPT !.pc = "waiting", !.kind = k, !.count = count] \in ImpType
      BY <1>0 DEF ImpType, ImporterSteps
  <2>3. /\ imp' \in [Importers -> ImpType] /\ imp'[i].pc = "waiting"
        /\ \A j \in Importers \ {i} : imp'[j] = imp[j]
      BY <1>0, <2>1, <2>2 DEF ImpType
  <2>4. TypeOK'  BY <2>1, <2>3 DEF TypeOK, ImpType
  <2>5. CachedIsDurable' /\ CountersAhead' /\ LabelUnderway' /\ VisibleIsDurable'
      BY <2>1 DEF CachedIsDurable, CountersAhead, LabelUnderway, VisibleIsDurable
  <2> QED  BY <2>1, <2>3, <2>4, <2>5 DEF ChunksAscend, OneRefill, ChunkCovered
<1>2. ASSUME RefillReserve(i) PROVE IInv'
  <2> DEFINE k == imp[i].kind
             chunk == Max2(imp[i].count, Chunk)
  <2>1. /\ UNCHANGED <<dName, dId, dNext, up, nextLabel, cache, mName, cre>>
        /\ imp[i].pc = "waiting" /\ refill = NoOne /\ refill' = i
        /\ next[k] + chunk <= MaxId + 1
        /\ next' = [next EXCEPT ![k] = @ + chunk]
        /\ imp' = [imp EXCEPT ![i].pc = "saving", ![i].start = next[k], ![i].chunk = chunk]
      BY <1>2 DEF RefillReserve, disk
  <2>2. k \in Kinds /\ imp[i].count \in Nat
    <3>1. imp[i] \in ImpType  BY <1>0
    <3>2. Counts \cup {0} \subseteq Nat  OBVIOUS
    <3> QED  BY <3>1, <3>2 DEF ImpType
  <2>3. chunk \in Nat
    <3>1. Chunk \in Nat  OBVIOUS
    <3> QED  BY <2>2, <3>1, Max2Bound
  <2> HIDE DEF k, chunk
  <2>4. next[k] \in Nat /\ next[k] \in IdBound /\ next[k] + chunk \in IdBound
    <3>1. next[k] \in IdBound  BY <2>2 DEF TypeOK
    <3>2. MaxId \in Nat  OBVIOUS
    <3>3. next[k] + chunk <= MaxId + 1  BY <2>1
    <3> QED  BY <3>1, <3>2, <3>3, <2>3 DEF IdBound
  <2>5. /\ next' \in [Kinds -> IdBound] /\ next'[k] = next[k] + chunk
        /\ \A q \in Kinds : next[q] <= next'[q]
    <3>1. next \in [Kinds -> IdBound]  BY DEF TypeOK
    <3>2. \A q \in Kinds : next'[q] = IF q = k THEN next[k] + chunk ELSE next[q]
        BY <3>1, <2>1, <2>2
    <3>3. next' \in [Kinds -> IdBound]  BY <3>1, <2>1, <2>4
    <3>4. next[k] <= next[k] + chunk /\ \A q \in Kinds : next[q] <= next[q]
        BY <1>0, <2>3, <2>4
    <3> QED  BY <2>2, <3>2, <3>3, <3>4
  <2>6. /\ imp'[i] = [imp[i] EXCEPT !.pc = "saving", !.start = next[k], !.chunk = chunk]
        /\ \A j \in Importers \ {i} : imp'[j] = imp[j]
      BY <1>0, <2>1
  <2>7. imp'[i] \in ImpType /\ imp'[i].pc = "saving" /\ imp'[i].kind = k
        /\ imp'[i].start = next[k] /\ imp'[i].chunk = chunk
      BY <1>0, <2>3, <2>4, <2>6 DEF ImpType, ImporterSteps, k
  <2>8. imp' \in [Importers -> ImpType]  BY <1>0, <2>1, <2>6, <2>7
  <2>9. TypeOK'  BY <2>1, <2>5, <2>8 DEF TypeOK, ImpType
  <2>10. \A j \in Importers \ {i} : imp'[j].pc \notin {"saving", "saved", "taking"}
      BY <2>1, <2>6 DEF OneRefill
  <2>11. up  BY <2>1, Underway
  <2>12. cache[k].end <= next[k]
    <3>1. cache[k].end <= dNext.ids[k]  BY <2>2 DEF CachedIsDurable
    <3>2. dNext.ids[k] <= next[k]  BY <2>2, <2>11 DEF CountersAhead
    <3> QED  BY <3>1, <3>2, <1>0, <2>2
  <2>13. ChunksAscend'  BY <2>1, <2>7, <2>10, <2>12 DEF ChunksAscend
  <2>14. ChunkCovered'
    <3>1. imp'[i].start + imp'[i].chunk <= next'[imp'[i].kind]
      <4>1. next[k] + chunk <= next[k] + chunk  BY <2>3, <2>4
      <4> QED  BY <2>5, <2>7, <4>1
    <3>2. \A j \in Importers : imp'[j].pc = "saving" => j = i  BY <2>10
    <3>3. \A j \in Importers : imp'[j].pc # "saved"  BY <2>7, <2>10
    <3> QED  BY <3>1, <3>2, <3>3 DEF ChunkCovered
  <2>15. OneRefill'  BY <2>1, <2>10 DEF OneRefill
  <2>16. \A q \in Kinds : dNext'.ids[q] <= next'[q]
      BY <2>1, <2>5, <2>11, <1>0 DEF CountersAhead, IdBound
  <2>17. CountersAhead'  BY <2>1, <2>11, <2>16 DEF CountersAhead
  <2>18. CachedIsDurable' /\ LabelUnderway' /\ VisibleIsDurable'
      BY <2>1 DEF CachedIsDurable, LabelUnderway, VisibleIsDurable
  <2> QED  BY <2>9, <2>13, <2>14, <2>15, <2>17, <2>18
<1>3. ASSUME RefillSave(i) PROVE IInv'
  <2>1. /\ UNCHANGED <<dName, dId, up, next, nextLabel, cache, mName, refill, cre>>
        /\ imp[i].pc = "saving"
        /\ dNext' = [ids |-> next, label |-> nextLabel]
        /\ imp' = [imp EXCEPT ![i].pc = "saved"]
      BY <1>3 DEF RefillSave, SaveNextIds, memory
  <2>2. up /\ nextLabel >= 1 /\ \A q \in Kinds : dNext.ids[q] <= next[q]
      BY <2>1, Underway DEF CountersAhead
  <2>3. /\ imp'[i] = [imp[i] EXCEPT !.pc = "saved"]
        /\ \A j \in Importers \ {i} : imp'[j] = imp[j]
      BY <1>0, <2>1
  <2>4. /\ imp'[i] \in ImpType /\ imp'[i].pc = "saved" /\ imp'[i].kind = imp[i].kind
        /\ imp'[i].start = imp[i].start /\ imp'[i].chunk = imp[i].chunk
      BY <1>0, <2>3 DEF ImpType, ImporterSteps
  <2>5. imp' \in [Importers -> ImpType]  BY <1>0, <2>1, <2>3, <2>4
  <2>6. dNext' \in [ids : [Kinds -> IdBound], label : 0 .. MaxLabel + 1]  BY <2>1 DEF TypeOK
  <2>7. TypeOK'  BY <2>1, <2>5, <2>6 DEF TypeOK, ImpType
  <2>8. refill = i /\ \A j \in Importers \ {i} : imp'[j].pc \notin {"saving", "saved", "taking"}
      BY <2>1, <2>3 DEF OneRefill
  <2>9. CachedIsDurable'  BY <1>0, <2>1, <2>2 DEF CachedIsDurable
  <2>10. ChunksAscend'  BY <2>1, <2>4, <2>8 DEF ChunksAscend
  <2>11. ChunkCovered'  BY <2>1, <2>4, <2>8 DEF ChunkCovered
  <2>12. OneRefill'  BY <2>1, <2>8 DEF OneRefill
  <2>13. CountersAhead'
    <3>1. \A q \in Kinds : dNext'.ids[q] <= next'[q]  BY <2>1, <1>0
    <3>2. dNext'.label # 0  BY <2>1, <2>2 DEF TypeOK
    <3> QED  BY <2>1, <2>2, <3>1, <3>2 DEF CountersAhead
  <2>14. LabelUnderway' /\ VisibleIsDurable'  BY <2>1 DEF LabelUnderway, VisibleIsDurable
  <2> QED  BY <2>7, <2>9, <2>10, <2>11, <2>12, <2>13, <2>14
<1>4. ASSUME RefillSaveFails(i) PROVE IInv'
  <2>1. /\ UNCHANGED <<dName, dId, dNext, up, next, nextLabel, cache, mName, cre>>
        /\ imp[i].pc = "saving" /\ refill' = NoOne
        /\ imp' = [imp EXCEPT ![i] = Idle]
      BY <1>4 DEF RefillSaveFails, disk
  <2>2. /\ imp' \in [Importers -> ImpType] /\ imp'[i].pc = "idle"
        /\ \A j \in Importers \ {i} : imp'[j] = imp[j]
      BY <1>0, <2>1, RestTypes
  <2>3. \A j \in Importers : imp'[j].pc \notin {"saving", "saved", "taking"}
      BY <2>1, <2>2 DEF OneRefill
  <2>4. TypeOK'  BY <2>1, <2>2 DEF TypeOK, ImpType
  <2>5. up  BY <2>1, Underway
  <2>6. CachedIsDurable' /\ CountersAhead' /\ LabelUnderway' /\ VisibleIsDurable'
      BY <2>1, <2>5 DEF CachedIsDurable, CountersAhead, LabelUnderway, VisibleIsDurable
  <2> QED  BY <2>3, <2>4, <2>6 DEF ChunksAscend, OneRefill, ChunkCovered
<1>5. ASSUME RefillPublish(i) PROVE IInv'
  <2> DEFINE k == imp[i].kind
             range == [next |-> imp[i].start, end |-> imp[i].start + imp[i].chunk]
  <2>1. /\ UNCHANGED <<dName, dId, dNext, up, next, nextLabel, mName, refill, cre>>
        /\ imp[i].pc = "saved"
        /\ cache' = [cache EXCEPT ![k] = range]
        /\ imp' = [imp EXCEPT ![i].pc = "taking"]
      BY <1>5 DEF RefillPublish, disk
  <2>2. k \in Kinds /\ imp[i].start \in Nat /\ imp[i].chunk \in Nat
      BY <1>0 DEF ImpType, IdBound
  <2>3. imp[i].start + imp[i].chunk <= dNext.ids[k]  BY <2>1 DEF ChunkCovered
  <2>4. range \in [next : Nat, end : IdBound] /\ range.end <= dNext.ids[k]
    <3>1. dNext.ids[k] \in IdBound  BY <2>2 DEF TypeOK
    <3>2. imp[i].start + imp[i].chunk \in IdBound  BY <2>2, <2>3, <3>1 DEF IdBound
    <3> QED  BY <2>2, <2>3, <3>2
  <2> HIDE DEF k, range
  <2>5. /\ cache' \in [Kinds -> [next : Nat, end : IdBound]] /\ cache'[k] = range
        /\ \A q \in Kinds \ {k} : cache'[q] = cache[q]
      BY <2>1, <2>2, <2>4 DEF TypeOK
  <2>6. /\ imp'[i] = [imp[i] EXCEPT !.pc = "taking"]
        /\ \A j \in Importers \ {i} : imp'[j] = imp[j]
      BY <1>0, <2>1
  <2>7. imp'[i] \in ImpType /\ imp'[i].pc = "taking"  BY <1>0, <2>6 DEF ImpType, ImporterSteps
  <2>8. imp' \in [Importers -> ImpType]  BY <1>0, <2>1, <2>6, <2>7
  <2>9. TypeOK'  BY <2>1, <2>5, <2>8 DEF TypeOK, ImpType
  <2>10. refill = i /\ \A j \in Importers \ {i} : imp'[j].pc \notin {"saving", "saved", "taking"}
      BY <2>1, <2>6 DEF OneRefill
  <2>11. CachedIsDurable'  BY <2>1, <2>4, <2>5 DEF CachedIsDurable
  <2>12. ChunksAscend' /\ ChunkCovered'  BY <2>7, <2>10 DEF ChunksAscend, ChunkCovered
  <2>13. OneRefill'  BY <2>1, <2>10 DEF OneRefill
  <2>14. up  BY <2>1, Underway
  <2>15. CountersAhead' /\ LabelUnderway' /\ VisibleIsDurable'
      BY <2>1, <2>14 DEF CountersAhead, LabelUnderway, VisibleIsDurable
  <2> QED  BY <2>9, <2>11, <2>12, <2>13, <2>15
<1> QED  BY <1>1, <1>2, <1>3, <1>4, <1>5

\* The steps of createLabel that leave the disk's counters alone.
LEMMA CreateStep ==
    ASSUME IInv, NEW c \in Creators,
           \/ \E n \in Names : CreateExisting(c, n) \/ CreateLabel(c, n)
           \/ LabelBump(c) \/ PutName(c) \/ PutId(c) \/ CreateThrows(c) \/ LabelPublish(c)
    PROVE  IInv'
<1> USE MetaIdsAssumption DEF IInv
<1>0. /\ cre \in [Creators -> CreType] /\ cre[c] \in CreType /\ Rest \in CreType
      /\ LabelIds \subseteq Nat
    BY RestTypes DEF TypeOK, CreType, LabelIds
<1>1. UNCHANGED <<up, dNext, next, cache, refill, imp>>
    BY DEF CreateExisting, CreateLabel, LabelBump, PutName, PutId, CreateThrows, LabelPublish, disk, memory
<1>2. CachedIsDurable' /\ ChunksAscend' /\ OneRefill' /\ ChunkCovered'
    BY <1>1 DEF CachedIsDurable, ChunksAscend, OneRefill, ChunkCovered
<1>3. ASSUME up, nextLabel' \in 1 .. MaxLabel + 1, cre' \in [Creators -> CreType],
             dName' \in [Names -> LabelIds], mName' \in [Names -> LabelIds],
             dId' \in [1 .. MaxLabel -> Names \cup {NoName}]
      PROVE  TypeOK' /\ CountersAhead'
  <2>1. nextLabel' \in 0 .. MaxLabel + 1 /\ nextLabel' >= 1  BY <1>3
  <2>2. TypeOK'  BY <1>1, <1>3, <2>1 DEF TypeOK, CreType
  <2>3. CountersAhead'  BY <1>1, <1>3, <2>1 DEF CountersAhead
  <2> QED  BY <2>2, <2>3
<1>4. up => nextLabel \in 1 .. MaxLabel + 1  BY DEF TypeOK, CountersAhead
<1>5. ASSUME NEW n \in Names, CreateExisting(c, n) PROVE IInv'
  <2>1. UNCHANGED <<dName, dId, nextLabel, mName, cre>> /\ up  BY <1>5 DEF CreateExisting, disk, memory
  <2>2. TypeOK' /\ CountersAhead'  BY <1>0, <1>3, <1>4, <2>1 DEF TypeOK
  <2> QED  BY <1>2, <2>1, <2>2 DEF LabelUnderway, VisibleIsDurable
<1>6. ASSUME NEW n \in Names, CreateLabel(c, n) PROVE IInv'
  <2>1. /\ UNCHANGED <<dName, dId, nextLabel, mName>> /\ up /\ nextLabel <= MaxLabel
        /\ cre' = [cre EXCEPT ![c] = [pc |-> "bump", name |-> n, id |-> nextLabel]]
      BY <1>6 DEF CreateLabel, disk, memory
  <2>2. nextLabel \in LabelIds /\ nextLabel # 0  BY <1>4, <2>1 DEF LabelIds
  <2>3. [pc |-> "bump", name |-> n, id |-> nextLabel] \in CreType  BY <2>2 DEF CreType, CreatorSteps
  <2>4. cre' \in [Creators -> CreType]  BY <1>0, <2>1, <2>3
  <2>5. TypeOK' /\ CountersAhead'  BY <1>3, <1>4, <2>1, <2>4 DEF TypeOK
  <2>6. cre'[c] = [pc |-> "bump", name |-> n, id |-> nextLabel] /\ \A d \in Creators \ {c} : cre'[d] = cre[d]
      BY <1>0, <2>1
  <2>7. LabelUnderway'  BY <2>1, <2>2, <2>6 DEF LabelUnderway
  <2> QED  BY <1>2, <2>1, <2>5, <2>7 DEF VisibleIsDurable
<1>7. ASSUME cre[c].pc # "idle" PROVE up /\ cre[c].name \in Names /\ cre[c].id \in 1 .. MaxLabel
  <2>1. up  BY <1>7, Underway
  <2>2. cre[c].name \in Names /\ cre[c].id # 0  BY <1>7 DEF LabelUnderway
  <2>3. cre[c].id \in LabelIds  BY <1>0 DEF CreType
  <2> QED  BY <2>1, <2>2, <2>3 DEF LabelIds
<1>8. ASSUME NEW p \in CreatorSteps \ {"idle"}, cre[c].pc # "idle", cre' = [cre EXCEPT ![c].pc = p]
      PROVE  /\ cre' \in [Creators -> CreType]
             /\ cre'[c].pc = p /\ cre'[c].name = cre[c].name /\ cre'[c].id = cre[c].id
             /\ \A d \in Creators \ {c} : cre'[d] = cre[d]
    BY <1>0, <1>8 DEF CreType
<1>9. ASSUME cre' = [cre EXCEPT ![c] = Rest]
      PROVE  /\ cre' \in [Creators -> CreType] /\ cre'[c].pc = "idle"
             /\ \A d \in Creators \ {c} : cre'[d] = cre[d]
    BY <1>0, <1>9, RestTypes
<1>10. ASSUME LabelBump(c) PROVE IInv'
  <2>1. /\ UNCHANGED <<dName, dId, mName>> /\ cre[c].pc = "bump" /\ nextLabel' = cre[c].id + 1
        /\ cre' = [cre EXCEPT ![c].pc = "putName"]
      BY <1>10 DEF LabelBump, disk
  <2>2. nextLabel' \in 1 .. MaxLabel + 1  BY <1>7, <2>1
  <2>3. /\ cre' \in [Creators -> CreType] /\ cre'[c].pc = "putName"
        /\ cre'[c].name = cre[c].name /\ cre'[c].id = cre[c].id
        /\ \A d \in Creators \ {c} : cre'[d] = cre[d]
      BY <1>8, <2>1 DEF CreatorSteps
  <2>4. TypeOK' /\ CountersAhead'  BY <1>3, <1>7, <2>1, <2>2, <2>3 DEF TypeOK
  <2>5. LabelUnderway'  BY <2>1, <2>3 DEF LabelUnderway
  <2> QED  BY <1>2, <2>1, <2>4, <2>5 DEF VisibleIsDurable
<1>11. ASSUME PutName(c) PROVE IInv'
  <2>1. /\ UNCHANGED <<dId, nextLabel, mName>> /\ cre[c].pc = "putName"
        /\ dName' = [dName EXCEPT ![cre[c].name] = cre[c].id]
        /\ cre' = [cre EXCEPT ![c].pc = "putId"]
      BY <1>11 DEF PutName, memory
  <2>2. /\ cre' \in [Creators -> CreType] /\ cre'[c].pc = "putId"
        /\ cre'[c].name = cre[c].name /\ cre'[c].id = cre[c].id
        /\ \A d \in Creators \ {c} : cre'[d] = cre[d]
      BY <1>8, <2>1 DEF CreatorSteps
  <2>3. cre[c].id \in LabelIds /\ cre[c].id # 0 /\ cre[c].name \in Names /\ up
      BY <1>7, <2>1 DEF LabelIds
  <2>4. /\ dName' \in [Names -> LabelIds] /\ dName'[cre[c].name] # 0
        /\ \A n \in Names : dName[n] # 0 => dName'[n] # 0
      BY <2>1, <2>3 DEF TypeOK
  <2>5. TypeOK' /\ CountersAhead'  BY <1>3, <1>4, <2>1, <2>2, <2>3, <2>4 DEF TypeOK
  <2>6. LabelUnderway'  BY <2>1, <2>2, <2>3, <2>4 DEF LabelUnderway
  <2>7. VisibleIsDurable'  BY <2>1, <2>4 DEF VisibleIsDurable
  <2> QED  BY <1>2, <2>5, <2>6, <2>7
<1>12. ASSUME PutId(c) PROVE IInv'
  <2>1. /\ UNCHANGED <<dName, nextLabel, mName>> /\ cre[c].pc = "putId"
        /\ dId' = [dId EXCEPT ![cre[c].id] = cre[c].name]
        /\ cre' = [cre EXCEPT ![c].pc = "saving"]
      BY <1>12 DEF PutId, memory
  <2>2. /\ cre' \in [Creators -> CreType] /\ cre'[c].pc = "saving"
        /\ cre'[c].name = cre[c].name /\ cre'[c].id = cre[c].id
        /\ \A d \in Creators \ {c} : cre'[d] = cre[d]
      BY <1>8, <2>1 DEF CreatorSteps
  <2>3. dId' \in [1 .. MaxLabel -> Names \cup {NoName}]  BY <1>7, <2>1 DEF TypeOK
  <2>4. TypeOK' /\ CountersAhead'  BY <1>3, <1>4, <1>7, <2>1, <2>2, <2>3 DEF TypeOK
  <2>5. LabelUnderway'  BY <2>1, <2>2 DEF LabelUnderway
  <2> QED  BY <1>2, <2>1, <2>4, <2>5 DEF VisibleIsDurable
<1>13. ASSUME CreateThrows(c) PROVE IInv'
  <2>1. UNCHANGED <<dName, dId, nextLabel, mName>> /\ cre[c].pc # "idle" /\ cre' = [cre EXCEPT ![c] = Rest]
      BY <1>13 DEF CreateThrows, disk, memory
  <2>2. TypeOK' /\ CountersAhead'  BY <1>3, <1>4, <1>7, <1>9, <2>1 DEF TypeOK
  <2>3. LabelUnderway'  BY <1>9, <2>1 DEF LabelUnderway
  <2> QED  BY <1>2, <2>1, <2>2, <2>3 DEF VisibleIsDurable
<1>14. ASSUME LabelPublish(c) PROVE IInv'
  <2>1. /\ UNCHANGED <<dName, dId, nextLabel>> /\ cre[c].pc = "publish"
        /\ mName' = [mName EXCEPT ![cre[c].name] = cre[c].id]
        /\ cre' = [cre EXCEPT ![c] = Rest]
      BY <1>14 DEF LabelPublish, disk
  <2>2. mName' \in [Names -> LabelIds]  BY <1>7, <2>1 DEF TypeOK, LabelIds
  <2>3. TypeOK' /\ CountersAhead'  BY <1>3, <1>4, <1>7, <1>9, <2>1, <2>2 DEF TypeOK
  <2>4. LabelUnderway'  BY <1>9, <2>1 DEF LabelUnderway
  <2>5. dName[cre[c].name] # 0  BY <2>1 DEF LabelUnderway
  <2>6. VisibleIsDurable'  BY <2>1, <2>5 DEF VisibleIsDurable, TypeOK
  <2> QED  BY <1>2, <2>3, <2>4, <2>6
<1> QED  BY <1>5, <1>6, <1>10, <1>11, <1>12, <1>13, <1>14

\* Creating a label saves the id counters too; they are never behind the disk.
LEMMA LabelSaveStep == ASSUME IInv, NEW c \in Creators, LabelSave(c) PROVE IInv'
<1> USE MetaIdsAssumption DEF IInv
<1>0. cre \in [Creators -> CreType]  BY DEF TypeOK, CreType
<1>1. /\ UNCHANGED <<dName, dId, up, next, nextLabel, cache, mName, refill, imp>>
      /\ cre[c].pc = "saving" /\ cre' = [cre EXCEPT ![c].pc = "publish"]
      /\ dNext' = [ids |-> next, label |-> nextLabel]
    BY DEF LabelSave, SaveNextIds, memory
<1>2. up /\ nextLabel >= 1 /\ \A k \in Kinds : dNext.ids[k] <= next[k]
    BY <1>1, Underway DEF CountersAhead
<1>3. /\ cre' \in [Creators -> CreType] /\ cre'[c].pc = "publish"
      /\ cre'[c].name = cre[c].name /\ cre'[c].id = cre[c].id
      /\ \A d \in Creators \ {c} : cre'[d] = cre[d]
    BY <1>0, <1>1 DEF CreType, CreatorSteps
<1>4. IdBound \subseteq Nat  BY DEF IdBound
<1>5. /\ next \in [Kinds -> Nat] /\ dNext.ids \in [Kinds -> Nat] /\ dNext'.ids = next
      /\ \A k \in Kinds : cache[k].end \in Nat
    BY <1>1, <1>4 DEF TypeOK
<1>6. TypeOK'
  <2>1. dNext' \in [ids : [Kinds -> IdBound], label : 0 .. MaxLabel + 1]  BY <1>1 DEF TypeOK
  <2> QED  BY <1>1, <1>3, <2>1 DEF TypeOK, CreType
<1>7. CachedIsDurable'  BY <1>1, <1>2, <1>5 DEF CachedIsDurable
<1>8. ChunkCovered'
  <2> SUFFICES ASSUME NEW i \in Importers, imp[i].pc = "saved"
               PROVE  imp[i].start + imp[i].chunk <= next[imp[i].kind]
      BY <1>1, <1>5 DEF ChunkCovered
  <2>1. imp[i].start + imp[i].chunk <= dNext.ids[imp[i].kind]  BY DEF ChunkCovered
  <2>2. imp[i].kind \in Kinds /\ imp[i].start \in Nat /\ imp[i].chunk \in Nat  BY <1>4 DEF TypeOK
  <2>3. dNext.ids[imp[i].kind] <= next[imp[i].kind]  BY <1>2, <2>2
  <2> QED  BY <1>5, <2>1, <2>2, <2>3
<1>9. CountersAhead'
  <2>1. \A k \in Kinds : dNext'.ids[k] <= next'[k]  BY <1>1, <1>5
  <2>2. dNext'.label # 0  BY <1>1, <1>2 DEF TypeOK
  <2> QED  BY <1>1, <1>2, <2>1, <2>2 DEF CountersAhead
<1>10. LabelUnderway'  BY <1>1, <1>3 DEF LabelUnderway
<1>11. ChunksAscend' /\ OneRefill' /\ VisibleIsDurable'
    BY <1>1 DEF ChunksAscend, OneRefill, VisibleIsDurable
<1> QED  BY <1>6, <1>7, <1>8, <1>9, <1>10, <1>11

-----------------------------------------------------------------------------
(* Theorems *)

\* Every step of the store keeps the invariant.
LEMMA NextIInv == IInv /\ [Next]_vars => IInv'
<1> SUFFICES ASSUME IInv, [Next]_vars PROVE IInv'  OBVIOUS
<1>1. CASE Open  BY <1>1, OpenStep
<1>2. CASE Stop  BY <1>2, StopStep
<1>3. ASSUME NEW i \in Importers, NEW k \in Kinds, NEW count \in Counts, TakeFast(i, k, count) PROVE IInv'
  <2>1. count \in Nat  BY MetaIdsAssumption
  <2> QED  BY <1>3, <2>1, TakeStep DEF TakeFast
<1>4. ASSUME NEW i \in Importers, RefillHit(i) \/ RefillTake(i) PROVE IInv'
  <2>1. imp[i].kind \in Kinds /\ imp[i].count \in Nat
    <3>1. Counts \cup {0} \subseteq Nat  BY MetaIdsAssumption
    <3> QED  BY <3>1 DEF IInv, TypeOK
  <2>2. up  BY <1>4, Underway DEF RefillHit, RefillTake
  <2>3. CASE RefillHit(i)  BY <2>1, <2>2, <2>3, TakeStep DEF RefillHit
  <2>4. CASE RefillTake(i)  BY <2>1, <2>2, <2>4, TakeStep DEF RefillTake
  <2> QED  BY <1>4, <2>3, <2>4
<1>5. ASSUME NEW i \in Importers,
             \/ \E k \in Kinds, count \in Counts : NeedRefill(i, k, count)
             \/ RefillReserve(i) \/ RefillSave(i) \/ RefillSaveFails(i) \/ RefillPublish(i)
      PROVE  IInv'
    BY <1>5, RefillStep
<1>6. ASSUME NEW c \in Creators,
             \/ \E n \in Names : CreateExisting(c, n) \/ CreateLabel(c, n)
             \/ LabelBump(c) \/ PutName(c) \/ PutId(c) \/ CreateThrows(c) \/ LabelPublish(c)
      PROVE  IInv'
    BY <1>6, CreateStep
<1>7. ASSUME NEW c \in Creators, LabelSave(c) PROVE IInv'  BY <1>7, LabelSaveStep
<1>8. CASE UNCHANGED vars
    BY <1>8 DEF vars, disk, memory, IInv, TypeOK, CachedIsDurable, ChunksAscend, VisibleIsDurable,
        OneRefill, ChunkCovered, CountersAhead, LabelUnderway
<1> QED  BY <1>1, <1>2, <1>3, <1>4, <1>5, <1>6, <1>7, <1>8 DEF Next

\* The invariant of the identifier store holds throughout.
THEOREM IdsInvariance == Spec => []IInv
BY InitIInv, NextIInv, PTL DEF Spec

\* Whatever importers, label creators, failing writes and restarts do, the cache
\* never offers an id that a restart could hand out again.
THEOREM CacheDurability == Spec => []CachedIsDurable
<1>1. IInv => CachedIsDurable  BY DEF IInv
<1> QED  BY <1>1, IdsInvariance, PTL

\* Chunks enter the cache in ascending order, however many importers refill it.
THEOREM ChunkOrder == Spec => []ChunksAscend
<1>1. IInv => ChunksAscend  BY DEF IInv
<1> QED  BY <1>1, IdsInvariance, PTL

\* A label the store answers with has been persisted.
THEOREM LabelDurability == Spec => []VisibleIsDurable
<1>1. IInv => VisibleIsDurable  BY DEF IInv
<1> QED  BY <1>1, IdsInvariance, PTL

\* No writer of M|next_ids ever lowers a durable id counter, so no id below it is
\* given out after a restart.
THEOREM CountersNeverFall == Spec => HighWaterMonotone
<1>1. ASSUME IInv, [Next]_vars PROVE [\A k \in Kinds : dNext'.ids[k] >= dNext.ids[k]]_vars
  <2>0. IdBound \subseteq Nat  BY MetaIdsAssumption DEF IdBound
  <2>1. dNext.ids \in [Kinds -> Nat] /\ next \in [Kinds -> Nat]  BY <1>1, <2>0 DEF IInv, TypeOK
  <2>2. CASE UNCHANGED dNext  BY <2>1, <2>2
  <2>3. CASE SaveNextIds /\ up
    <3>1. dNext'.ids = next /\ \A k \in Kinds : dNext.ids[k] <= next[k]
        BY <1>1, <2>3 DEF SaveNextIds, IInv, CountersAhead
    <3> QED  BY <2>1, <3>1
  <2>4. ASSUME NEW i \in Importers, RefillSave(i) PROVE SaveNextIds /\ up
      BY <1>1, <2>4, Underway DEF RefillSave
  <2>5. ASSUME NEW c \in Creators, LabelSave(c) PROVE SaveNextIds /\ up
      BY <1>1, <2>5, Underway DEF LabelSave
  <2> QED  BY <1>1, <2>2, <2>3, <2>4, <2>5 DEF Next, vars, disk, memory, Open, Stop, TakeFast, NeedRefill,
        RefillHit, RefillReserve, RefillSaveFails, RefillPublish, RefillTake, CreateExisting, CreateLabel,
        LabelBump, PutName, PutId, CreateThrows, LabelPublish
<1> QED  BY <1>1, IdsInvariance, PTL DEF Spec, HighWaterMonotone

-----------------------------------------------------------------------------
(* No id is handed out twice while ranges stay within their chunks *)

\* The numbers the argument compares are naturals.
LEMMA Numbers ==
    ASSUME IInv
    PROVE  /\ next \in [Kinds -> Nat] /\ dNext.ids \in [Kinds -> Nat]
           /\ \A k \in Kinds : cache[k].next \in Nat /\ cache[k].end \in Nat
           /\ \A i \in Importers : /\ imp[i].kind \in Kinds /\ imp[i].count \in Nat
                                   /\ imp[i].start \in Nat /\ imp[i].chunk \in Nat
<1>1. IdBound \subseteq Nat /\ Counts \cup {0} \subseteq Nat  BY MetaIdsAssumption DEF IdBound
<1> QED  BY <1>1 DEF IInv, TypeOK

\* Taking a range: if it lies within the chunk, it starts above every id handed
\* out before and ends below the durable mark and below the chunks on their way.
LEMMA TakeIssues ==
    ASSUME IInv, IssuedInv, NEW k \in Kinds, NEW count \in Nat, Take(k, count), dNext' = dNext,
           \A i \in Importers : imp'[i] = imp[i] \/ imp'[i].pc = "idle"
    PROVE  IssuedInv'
<1> DEFINE new == cache[k].next .. cache[k].next + count - 1
<1>1. /\ cache \in [Kinds -> [next : Nat, end : IdBound]]
      /\ cache' = [cache EXCEPT ![k].next = @ + count]
    BY DEF IInv, TypeOK, Take
<1>2. /\ cache'[k].next = cache[k].next + count /\ cache'[k].end = cache[k].end
      /\ \A q \in Kinds \ {k} : cache'[q] = cache[q]
    BY <1>1
<1>3. /\ issued' = [issued EXCEPT ![k] = @ \cup new] /\ twice' = twice \cup (new \cap issued[k])
      /\ overrun' = (overrun \/ ~Enough(k, count))
    BY DEF Take
<1>4. new \subseteq Nat  BY Numbers
<1>5. issued' \in [Kinds -> SUBSET Nat] /\ overrun' \in BOOLEAN
    BY <1>3, <1>4 DEF IssuedInv
<1>6. /\ issued'[k] = issued[k] \cup new /\ \A q \in Kinds \ {k} : issued'[q] = issued[q]
    BY <1>3 DEF IssuedInv
<1>7. ASSUME ~overrun' PROVE ~overrun /\ cache[k].next + count <= cache[k].end
    BY <1>3, <1>7 DEF Enough, IssuedInv
<1>8. ASSUME ~overrun', NEW id \in new
      PROVE  cache[k].next <= id /\ id < cache[k].next + count /\ id < cache[k].end /\ id \notin issued[k]
  <2>1. cache[k].next <= id /\ id < cache[k].next + count /\ id \in Nat /\ cache[k].next \in Nat
      BY <1>8, Numbers
  <2>2. cache[k].next < cache[k].end /\ id < cache[k].end  BY <2>1, <1>7, <1>8, Numbers
  <2>3. \A d \in issued[k] : d < cache[k].next  BY <2>2, <1>7, <1>8, Numbers DEF IssuedInv
  <2> QED  BY <2>1, <2>2, <2>3, Numbers DEF IssuedInv
<1>9. UniqueIds'  BY <1>3, <1>7, <1>8 DEF UniqueIds, IssuedInv
<1>10. BelowHighWater'
  <2> SUFFICES ASSUME ~overrun', NEW q \in Kinds, NEW id \in issued'[q] PROVE id < dNext.ids[q]
      BY DEF BelowHighWater
  <2>1. CASE id \in issued[q]  BY <2>1, <1>7 DEF IssuedInv, BelowHighWater
  <2>2. CASE q = k /\ id \in new
    <3>1. id < cache[k].end /\ cache[k].end <= dNext.ids[k]  BY <2>2, <1>8 DEF IInv, CachedIsDurable
    <3> QED  BY <2>2, <3>1, <1>4, Numbers
  <2> QED  BY <2>1, <2>2, <1>6
<1>11. ASSUME ~overrun', NEW q \in Kinds, NEW id \in issued'[q]
       PROVE  id < cache'[q].next \/ cache'[q].end <= cache'[q].next
  <2>1. CASE q # k  BY <1>11, <2>1, <1>2, <1>6, <1>7 DEF IssuedInv
  <2>2. CASE q = k /\ id \in new  BY <1>11, <2>2, <1>2, <1>8
  <2>3. CASE q = k /\ id \in issued[k]
    <3>1. id < cache[k].next \/ cache[k].end <= cache[k].next  BY <1>11, <2>3, <1>7 DEF IssuedInv
    <3>2. id \in Nat  BY <2>3 DEF IssuedInv
    <3> QED  BY <2>3, <3>1, <3>2, <1>2, Numbers
  <2> QED  BY <1>11, <2>1, <2>2, <2>3, <1>6
<1>12. ASSUME ~overrun', NEW i \in Importers, imp'[i].pc \in {"saving", "saved"},
              NEW id \in issued'[imp'[i].kind]
       PROVE  id < imp'[i].start
  <2>1. imp'[i] = imp[i] /\ imp[i].kind \in Kinds  BY <1>12, Numbers
  <2>2. CASE id \in issued[imp[i].kind]  BY <1>12, <2>1, <2>2, <1>7 DEF IssuedInv
  <2>3. CASE imp[i].kind = k /\ id \in new
    <3>1. id < cache[k].end /\ cache[k].end <= imp[i].start
        BY <1>12, <2>1, <2>3, <1>8 DEF IInv, ChunksAscend
    <3> QED  BY <2>1, <2>3, <3>1, <1>4, Numbers
  <2> QED  BY <1>12, <2>1, <2>2, <2>3, <1>6
<1> QED  BY <1>5, <1>9, <1>10, <1>11, <1>12 DEF IssuedInv

\* Steps that hand out nothing and change no chunk keep what is known of the
\* ids; the durable mark may only rise.
LEMMA NothingIssued ==
    ASSUME IInv, IssuedInv, UNCHANGED <<issued, twice, overrun>>,
           dNext'.ids \in [Kinds -> Nat], \A k \in Kinds : dNext.ids[k] <= dNext'.ids[k],
           \A k \in Kinds : cache'[k] = cache[k] \/ cache'[k].end <= cache'[k].next,
           \A i \in Importers :
              imp'[i].pc \in {"saving", "saved"} =>
                 /\ imp'[i].kind = imp[i].kind
                 /\ imp'[i].start = imp[i].start /\ imp[i].pc \in {"saving", "saved"}
    PROVE  IssuedInv'
<1>1. BelowHighWater'
  <2> SUFFICES ASSUME ~overrun, NEW k \in Kinds, NEW id \in issued[k] PROVE id < dNext'.ids[k]
      BY DEF BelowHighWater
  <2>1. id < dNext.ids[k] /\ id \in Nat  BY DEF IssuedInv, BelowHighWater
  <2> QED  BY <2>1, Numbers
<1>2. UniqueIds' /\ issued' \in [Kinds -> SUBSET Nat] /\ overrun' \in BOOLEAN
    BY DEF IssuedInv, UniqueIds
<1>3. ~overrun' => \A k \in Kinds : \A id \in issued'[k] :
                      id < cache'[k].next \/ cache'[k].end <= cache'[k].next
    BY DEF IssuedInv
<1>4. ~overrun' => \A i \in Importers : imp'[i].pc \in {"saving", "saved"} =>
                      \A id \in issued'[imp'[i].kind] : id < imp'[i].start
    BY DEF IssuedInv
<1> QED  BY <1>1, <1>2, <1>3, <1>4 DEF IssuedInv

\* A chunk is reserved at the counter in memory, which is not below the durable
\* mark, and so above every id handed out.
LEMMA ReserveIssues ==
    ASSUME IInv, IssuedInv, NEW i \in Importers, RefillReserve(i)
    PROVE  IssuedInv'
<1> DEFINE k == imp[i].kind
<1>1. /\ UNCHANGED <<dNext, cache, issued, twice, overrun>> /\ imp[i].pc = "waiting"
      /\ imp' = [imp EXCEPT ![i].pc = "saving", ![i].start = next[k], ![i].chunk = Max2(imp[i].count, Chunk)]
    BY DEF RefillReserve, disk, history
<1>2. imp \in [Importers -> ImpType]  BY DEF IInv, TypeOK, ImpType
<1>3. imp'[i].kind = k /\ imp'[i].start = next[k] /\ \A j \in Importers \ {i} : imp'[j] = imp[j]
    BY <1>1, <1>2 DEF ImpType
<1>4. up  BY <1>1, Underway
<1>5. ASSUME ~overrun, NEW id \in issued[k] PROVE id < next[k]
  <2>1. k \in Kinds /\ id \in Nat /\ id < dNext.ids[k] /\ dNext.ids[k] <= next[k]
      BY <1>4, <1>5, Numbers DEF IssuedInv, BelowHighWater, IInv, CountersAhead
  <2> QED  BY <2>1, Numbers
<1>6. UniqueIds' /\ BelowHighWater' /\ issued' \in [Kinds -> SUBSET Nat] /\ overrun' \in BOOLEAN
    BY <1>1 DEF IssuedInv, UniqueIds, BelowHighWater
<1>7. ~overrun' => \A q \in Kinds : \A id \in issued'[q] :
                      id < cache'[q].next \/ cache'[q].end <= cache'[q].next
    BY <1>1 DEF IssuedInv
<1>8. ~overrun' => \A j \in Importers : imp'[j].pc \in {"saving", "saved"} =>
                      \A id \in issued'[imp'[j].kind] : id < imp'[j].start
    BY <1>1, <1>3, <1>5 DEF IssuedInv
<1> QED  BY <1>6, <1>7, <1>8 DEF IssuedInv

\* The chunk that enters the cache starts above every id handed out.
LEMMA PublishIssues ==
    ASSUME IInv, IssuedInv, NEW i \in Importers, RefillPublish(i)
    PROVE  IssuedInv'
<1> DEFINE k == imp[i].kind
<1>1. /\ UNCHANGED <<dNext, issued, twice, overrun>> /\ imp[i].pc = "saved"
      /\ cache' = [cache EXCEPT ![k] = [next |-> imp[i].start, end |-> imp[i].start + imp[i].chunk]]
      /\ imp' = [imp EXCEPT ![i].pc = "taking"]
    BY DEF RefillPublish, disk, history
<1>2. imp \in [Importers -> ImpType] /\ cache \in [Kinds -> [next : Nat, end : IdBound]] /\ k \in Kinds
    BY Numbers DEF IInv, TypeOK, ImpType
<1>3. imp'[i].pc = "taking" /\ \A j \in Importers \ {i} : imp'[j] = imp[j]
    BY <1>1, <1>2 DEF ImpType
<1>4. cache'[k].next = imp[i].start /\ \A q \in Kinds \ {k} : cache'[q] = cache[q]
    BY <1>1, <1>2
<1>5. UniqueIds' /\ BelowHighWater' /\ issued' \in [Kinds -> SUBSET Nat] /\ overrun' \in BOOLEAN
    BY <1>1 DEF IssuedInv, UniqueIds, BelowHighWater
<1>6. ~overrun' => \A q \in Kinds : \A id \in issued'[q] :
                      id < cache'[q].next \/ cache'[q].end <= cache'[q].next
    BY <1>1, <1>4 DEF IssuedInv
<1>7. ~overrun' => \A j \in Importers : imp'[j].pc \in {"saving", "saved"} =>
                      \A id \in issued'[imp'[j].kind] : id < imp'[j].start
    BY <1>1, <1>3 DEF IssuedInv
<1> QED  BY <1>5, <1>6, <1>7 DEF IssuedInv

LEMMA NextIssued == IInv /\ IssuedInv /\ [Next]_vars => IssuedInv'
<1> SUFFICES ASSUME IInv, IssuedInv, [Next]_vars PROVE IssuedInv'  OBVIOUS
<1>0. imp \in [Importers -> ImpType]  BY DEF IInv, TypeOK, ImpType
<1>n. \A k \in Kinds : dNext.ids[k] <= dNext.ids[k]  BY Numbers
<1>1. ASSUME NEW i \in Importers, NEW k \in Kinds, NEW count \in Counts, TakeFast(i, k, count)
      PROVE  IssuedInv'
  <2>1. count \in Nat  BY MetaIdsAssumption
  <2> QED  BY <1>1, <2>1, TakeIssues DEF TakeFast, disk
<1>2. ASSUME NEW i \in Importers, RefillHit(i) \/ RefillTake(i) PROVE IssuedInv'
  <2>1. Take(imp[i].kind, imp[i].count) /\ dNext' = dNext /\ imp' = [imp EXCEPT ![i] = Idle]
      BY <1>2 DEF RefillHit, RefillTake, disk
  <2>2. \A j \in Importers : imp'[j] = imp[j] \/ imp'[j].pc = "idle"  BY <1>0, <2>1, RestTypes
  <2> QED  BY <2>1, <2>2, TakeIssues, Numbers
<1>3. ASSUME NEW i \in Importers, RefillReserve(i) \/ RefillPublish(i) PROVE IssuedInv'
    BY <1>3, ReserveIssues, PublishIssues
<1>4. ASSUME NEW i \in Importers, RefillSave(i) PROVE IssuedInv'
  <2>1. /\ dNext'.ids = next /\ UNCHANGED <<cache, issued, twice, overrun>>
        /\ imp[i].pc = "saving" /\ imp' = [imp EXCEPT ![i].pc = "saved"]
      BY <1>4 DEF RefillSave, SaveNextIds, memory, history
  <2>2. \A j \in Importers : /\ imp'[j].kind = imp[j].kind /\ imp'[j].start = imp[j].start
                             /\ j # i => imp'[j] = imp[j]
      BY <1>0, <2>1 DEF ImpType
  <2>3. \A k \in Kinds : dNext.ids[k] <= next[k]  BY <2>1, Underway DEF IInv, CountersAhead
  <2> QED  BY <2>1, <2>2, <2>3, Numbers, NothingIssued
<1>5. ASSUME NEW c \in Creators, LabelSave(c) PROVE IssuedInv'
  <2>1. dNext'.ids = next /\ UNCHANGED <<cache, imp, issued, twice, overrun>> /\ cre[c].pc = "saving"
      BY <1>5 DEF LabelSave, SaveNextIds, memory, history
  <2>2. \A k \in Kinds : dNext.ids[k] <= next[k]  BY <2>1, Underway DEF IInv, CountersAhead
  <2> QED  BY <2>1, <2>2, Numbers, NothingIssued
<1>6. CASE Stop
  <2>1. /\ UNCHANGED <<dNext, issued, twice, overrun>>
        /\ cache' = [k \in Kinds |-> [next |-> 0, end |-> 0]] /\ imp' = [i \in Importers |-> Idle]
      BY <1>6 DEF Stop, disk, history
  <2>2. \A k \in Kinds : cache'[k].end <= cache'[k].next  BY <2>1
  <2>3. \A i \in Importers : imp'[i].pc = "idle"  BY <2>1, RestTypes
  <2> QED  BY <2>1, <2>2, <2>3, <1>n, Numbers, NothingIssued
<1>7. ASSUME NEW i \in Importers,
             (\E k \in Kinds, count \in Counts : NeedRefill(i, k, count)) \/ RefillSaveFails(i)
      PROVE  IssuedInv'
  <2>1. UNCHANGED <<dNext, cache, issued, twice, overrun>>
      BY <1>7 DEF NeedRefill, RefillSaveFails, disk, memory, history
  <2>2. \A j \in Importers : imp'[j] = imp[j] \/ imp'[j].pc \in {"idle", "waiting"}
    <3>1. CASE RefillSaveFails(i)  BY <1>0, <3>1, RestTypes DEF RefillSaveFails
    <3>2. ASSUME NEW k \in Kinds, NEW count \in Counts, NeedRefill(i, k, count)
          PROVE  \A j \in Importers : imp'[j] = imp[j] \/ imp'[j].pc \in {"idle", "waiting"}
      <4> DEFINE r == [Idle EXCEPT !.pc = "waiting", !.kind = k, !.count = count]
      <4>1. imp' = [imp EXCEPT ![i] = r]  BY <3>2 DEF NeedRefill
      <4>2. r.pc = "waiting"  BY RestTypes
      <4> HIDE DEF r
      <4> QED  BY <1>0, <4>1, <4>2
    <3> QED  BY <1>7, <3>1, <3>2
  <2> QED  BY <2>1, <2>2, <1>n, Numbers, NothingIssued
<1>8. CASE UNCHANGED <<dNext, cache, imp, issued, twice, overrun>>
    BY <1>8, <1>n, Numbers, NothingIssued
<1>9. ASSUME NEW c \in Creators,
             \/ \E n \in Names : CreateExisting(c, n) \/ CreateLabel(c, n)
             \/ LabelBump(c) \/ PutName(c) \/ PutId(c) \/ CreateThrows(c) \/ LabelPublish(c)
      PROVE  IssuedInv'
    BY <1>8, <1>9 DEF CreateExisting, CreateLabel, LabelBump, PutName, PutId, CreateThrows,
       LabelPublish, disk, memory, history
<1>10. CASE Open \/ UNCHANGED vars
    BY <1>8, <1>10 DEF Open, vars, disk, memory, history
<1> QED  BY <1>1, <1>2, <1>3, <1>4, <1>5, <1>6, <1>7, <1>9, <1>10 DEF Next

\* As long as every range fits the chunk it was taken from, no vertex or edge id
\* is handed out twice, across refills, failed writes and restarts.
THEOREM IdUniqueness == Spec => []UniqueIds
<1>1. Init => IssuedInv
    BY RestTypes DEF Init, IssuedInv, UniqueIds, BelowHighWater
<1>2. IssuedInv => UniqueIds  BY DEF IssuedInv
<1> QED  BY <1>1, <1>2, NextIssued, IdsInvariance, PTL DEF Spec

\* ... and under the same condition every id handed out is below the durable
\* mark a restart resumes from.
THEOREM IssuedIsDurable == Spec => []BelowHighWater
<1>1. Init => IssuedInv
    BY RestTypes DEF Init, IssuedInv, UniqueIds, BelowHighWater
<1>2. IssuedInv => BelowHighWater  BY DEF IssuedInv
<1> QED  BY <1>1, <1>2, NextIssued, IdsInvariance, PTL DEF Spec
=============================================================================
