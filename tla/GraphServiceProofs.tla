------------------------- MODULE GraphServiceProofs -------------------------
(***************************************************************************)
(* Proofs about GraphService: what a drop may remove, what a stream may    *)
(* report, and where duplicate primary keys may come from, for every set   *)
(* of calls, graphs and requests and every pool size.                      *)
(*                                                                         *)
(* The invariant is IInv.  Almost every action rewrites the record of one  *)
(* call and little else, so StepKeeps states once what such a rewriting    *)
(* must respect; each action then supplies the new record's facts.         *)
(***************************************************************************)
EXTENDS GraphService, FiniteSetTheorems, WellFoundedInduction, TLAPS

-----------------------------------------------------------------------------
(* Operators *)

Results == {"none", "ok", "error", "failed", "cancelled", "unread", "skipped"}
Ending == {"tree", "session", "lease", "done"}

\* A set of ids that is not empty has a smallest one, so Min chooses it.
LEMMA MinIn ==
    ASSUME NEW S \in SUBSET Nat, S # {}
    PROVE  Min(S) \in S
<1> DEFINE less == {p \in Nat \X Nat : p[1] < p[2]}
<1>0. less = OpToRel(<, Nat)
  BY Zenon DEF OpToRel
<1>1. \E x \in S : \A y \in S : ~(<<y, x>> \in less)
  <2>1. IsWellFoundedOn(less, Nat)
    BY <1>0, NatLessThanWellFounded, Zenon
  <2> HIDE DEF less
  <2>2. QED
    BY <2>1, WFMin
<1>2. \E x \in S : \A y \in S : x =< y
  <2>1. PICK x \in S : \A y \in S : ~(<<y, x>> \in less)
    BY <1>1
  <2>2. ASSUME NEW y \in S PROVE x =< y
    <3>1. x \in Nat /\ y \in Nat /\ ~(<<y, x>> \in less)
      BY <2>1
    <3>2. QED
      BY <3>1
  <2>3. QED
    BY <2>2
<1>3. QED
  BY <1>2 DEF Min

\* A key the index does not find is on no indexed vertex of the snapshot.
LEMMA LookupMisses ==
    ASSUME NEW seen \in SUBSET VertexRows, NEW g, NEW l, NEW k,
           lookupVertexByPrimaryKey(seen, g, l, k) = 0
    PROVE  \A w \in seen : ~(w.graph = g /\ w.label = l /\ w.key = k /\ w.entry)
<1> DEFINE hits == {v.vid : v \in {w \in seen : w.graph = g /\ w.label = l /\ w.key = k /\ w.entry}}
<1>1. hits \subseteq Nat \ {0}
  BY DEF VertexRows
<1>2. hits = {}
  <2>1. SUFFICES ASSUME hits # {} PROVE FALSE
    OBVIOUS
  <2>2. Min(hits) \in hits
    BY <1>1, <2>1, MinIn
  <2>3. lookupVertexByPrimaryKey(seen, g, l, k) = Min(hits)
    BY <2>1 DEF lookupVertexByPrimaryKey
  <2>4. QED
    BY <1>1, <2>2, <2>3
<1>3. QED
  BY <1>2

\* Whatever is looked up is an id or 0.
LEMMA LookupTyped ==
    ASSUME NEW seen \in SUBSET VertexRows, NEW g, NEW l, NEW k
    PROVE  lookupVertexByPrimaryKey(seen, g, l, k) \in Nat
<1> DEFINE hits == {v.vid : v \in {w \in seen : w.graph = g /\ w.label = l /\ w.key = k /\ w.entry}}
<1>1. hits \subseteq Nat
  BY DEF VertexRows
<1>2. hits # {} => Min(hits) \in Nat
  BY <1>1, MinIn
<1>3. QED
  BY <1>2 DEF lookupVertexByPrimaryKey

LEMMA EndpointTyped ==
    ASSUME NEW seen \in SUBSET VertexRows, NEW g, NEW l, NEW k
    PROVE  resolve_endpoint(seen, g, l, k) \in Nat
<1> DEFINE others == {lookupVertexByPrimaryKey(seen, g, o, k) : o \in Labels} \ {0}
<1>1. others \subseteq Nat
  BY LookupTyped
<1>2. others # {} => Min(others) \in Nat
  BY <1>1, MinIn
<1>3. lookupVertexByPrimaryKey(seen, g, l, k) \in Nat
  BY LookupTyped
<1>4. QED
  BY <1>2, <1>3 DEF resolve_endpoint

\* End keeps what a call holds, and goes on to the next thing it holds.
LEMMA EndIs ==
    ASSUME NEW r \in CallStates, NEW res \in Results
    PROVE  /\ End(r, res) \in CallStates
           /\ End(r, res).step \in Ending
           /\ End(r, res).step = "session" => ~r.tree
           /\ End(r, res).step \in {"lease", "done"} => ~r.session
           /\ End(r, res).res = res
           /\ End(r, res).req = r.req /\ End(r, res).lease = r.lease
           /\ End(r, res).session = r.session /\ End(r, res).tree = r.tree
           /\ End(r, res).threw = r.threw /\ End(r, res).met = r.met
<1> DEFINE step == IF r.tree THEN "tree" ELSE IF r.session THEN "session"
                   ELSE IF r.lease # NoGraph THEN "lease" ELSE "done"
           e == [r EXCEPT !.res = res, !.seen = {}, !.kept = {}, !.first = "none", !.step = step]
<1>1. End(r, res) = e
  BY Zenon DEF End
<1>2. /\ step \in Ending /\ step \in Steps
      /\ step = "session" => ~r.tree
      /\ step \in {"lease", "done"} => ~r.session
  BY DEF CallStates, Ending, Steps
<1>3. r.req \in Requests \cup {NoRequest}
  BY DEF CallStates
<1> HIDE DEF step
<1>4. e \in CallStates
  BY <1>2 DEF CallStates, Results
<1>5. /\ e.step = step /\ e.res = res /\ e.req = r.req /\ e.lease = r.lease
      /\ e.session = r.session /\ e.tree = r.tree /\ e.threw = r.threw /\ e.met = r.met
  BY DEF CallStates
<1>6. QED
  BY <1>1, <1>2, <1>4, <1>5

-----------------------------------------------------------------------------
(* One step of one call *)

\* The invariant of a call that did not move.
LEMMA OthersKeep ==
    ASSUME IInv, NEW c \in Calls, NEW d \in Calls, d # c,
           durable' \in {durable, durable \cup {c}}
    PROVE  HoldsInOrder(call[d]) /\ AnswerFollowsWrites(d, call[d], durable')
BY DEF IInv, AnswerFollowsWrites

\* A step that rewrites the record of one call keeps the invariant, when the
\* new record is in order, its answer follows its writes, and an import goes on
\* from the snapshot and the overlaps it has.
LEMMA StepKeeps ==
    ASSUME IInv, NEW c \in Calls, NEW s \in CallStates,
           call' = [call EXCEPT ![c] = s],
           graph' \in [Graphs -> {"open", "closing", "leaked", "removed"}], LeaseKeeps',
           vertices' = vertices, edges' \subseteq EdgeRows, nextVid' \in Nat \ {0},
           durable' \in {durable, durable \cup {c}},
           HoldsInOrder(s), AnswerFollowsWrites(c, s, durable'),
           s.met = call[c].met,
           Importing(s) => Importing(call[c]) /\ s.seen = call[c].seen,
           Importing(s) /\ s.step = "staged" => StagedOnce(c, s) /\ \A v \in s.kept : v.vid < nextVid',
           nextVid' >= nextVid
    PROVE  IInv'
<1>1. /\ call \in [Calls -> CallStates] /\ durable \subseteq Calls
      /\ vertices \subseteq VertexRows
  BY DEF IInv, TypeOK
<1>2. call'[c] = s /\ \A d \in Calls : d # c => call'[d] = call[d]
  BY <1>1
<1>3. \A d \in Calls : call'[d].met = call[d].met
  BY <1>2
<1>4. TypeOK'
  BY <1>1 DEF TypeOK
<1>5. \A d \in Calls : HoldsInOrder(call'[d]) /\ AnswerFollowsWrites(d, call'[d], durable')
  BY <1>2, OthersKeep
<1>6. DuplicatesOverlap'
  <2>1. DuplicatesOverlap /\ \A v \in vertices : v.by \in Calls
    BY <1>1 DEF IInv, VertexRows
  <2>2. QED
    BY <1>3, <2>1 DEF DuplicatesOverlap
<1>7. ImportInv'
  <2>1. ImportInv
    BY DEF IInv
  <2>2. \A v \in vertices : v.by \in durable'
    BY <2>1 DEF ImportInv
  <2>3. \A d \in Calls : Importing(call'[d]) => Importing(call[d]) /\ call'[d].seen = call[d].seen
    BY <1>2
  <2>4. \A d, e \in Calls : d # e /\ Importing(call'[d]) /\ Importing(call'[e]) => e \in call'[d].met
    BY <1>3, <2>1, <2>3 DEF ImportInv
  <2>5. \A d \in Calls : Importing(call'[d]) =>
          \A v \in vertices : v \in call'[d].seen \/ v.by \in call'[d].met
    BY <1>3, <2>1, <2>3 DEF ImportInv
  <2>6. \A d \in Calls : Importing(call'[d]) /\ call'[d].step = "staged" => StagedOnce(d, call'[d])
    BY <1>2, <2>1 DEF ImportInv
  <2>7. QED
    BY <2>2, <2>4, <2>5, <2>6 DEF ImportInv
<1>8. VidsBelow'
  <2>1. /\ VidsBelow /\ nextVid \in Nat /\ nextVid' \in Nat
        /\ \A d \in Calls : Importing(call[d]) /\ call[d].step = "staged" => call[d].kept \subseteq VertexRows
    BY DEF IInv, TypeOK, ImportInv, StagedOnce
  <2>2. \A v \in VertexRows : v.vid \in Nat /\ (v.vid < nextVid => v.vid < nextVid')
    BY <2>1 DEF VertexRows
  <2>3. \A v \in vertices' : v.vid < nextVid'
    BY <1>1, <2>1, <2>2 DEF VidsBelow
  <2>4. ASSUME NEW d \in Calls, Importing(call'[d])
        PROVE  /\ \A v \in call'[d].seen : v.vid < nextVid'
               /\ call'[d].step = "staged" => \A v \in call'[d].kept : v.vid < nextVid'
    <3>1. Importing(call[d]) /\ call'[d].seen = call[d].seen
      BY <1>2, <2>4
    <3>2. call[d].seen \subseteq VertexRows
      BY <1>1 DEF CallStates
    <3>3. \A v \in call'[d].seen : v.vid < nextVid'
      BY <2>1, <2>2, <3>1, <3>2 DEF VidsBelow
    <3>4. CASE d = c
      BY <1>2, <2>4, <3>3, <3>4
    <3>5. CASE d # c
      BY <1>2, <2>1, <2>2, <2>4, <3>3, <3>5 DEF VidsBelow
    <3>6. QED
      BY <3>4, <3>5
  <2>5. QED
    BY <2>3, <2>4 DEF VidsBelow
<1>9. QED
  BY <1>4, <1>5, <1>6, <1>7, <1>8 DEF IInv

\* The lease of the call that moved is the one it had, none, or one on a graph
\* that serves.
LEMMA LeaseStep ==
    ASSUME IInv, NEW c \in Calls, NEW s \in CallStates,
           call' = [call EXCEPT ![c] = s], graph' = graph,
           s.lease \in {call[c].lease, NoGraph} \/ Serves(s.lease)
    PROVE  LeaseKeeps' /\ graph' \in [Graphs -> {"open", "closing", "leaked", "removed"}]
<1>1. /\ call \in [Calls -> CallStates] /\ LeaseKeeps
      /\ graph \in [Graphs -> {"open", "closing", "leaked", "removed"}]
  BY DEF IInv, TypeOK
<1>2. call'[c] = s /\ \A d \in Calls : d # c => call'[d] = call[d]
  BY <1>1
<1>3. s.lease \in Graphs => graph[s.lease] # "removed"
  BY <1>1, GraphServiceAssumption DEF LeaseKeeps, Serves
<1>4. QED
  BY <1>1, <1>2, <1>3 DEF LeaseKeeps

\* A step that touches no graph and imports nothing.
LEMMA MoveKeeps ==
    ASSUME IInv, NEW c \in Calls, NEW s \in CallStates,
           call' = [call EXCEPT ![c] = s],
           UNCHANGED <<graph, vertices, edges, nextVid>>,
           durable' \in {durable, durable \cup {c}},
           HoldsInOrder(s), AnswerFollowsWrites(c, s, durable'),
           s.met = call[c].met,
           s.lease \in {call[c].lease, NoGraph} \/ Serves(s.lease),
           ~Importing(s)
    PROVE  IInv'
<1>1. LeaseKeeps' /\ graph' \in [Graphs -> {"open", "closing", "leaked", "removed"}]
  BY LeaseStep
<1>2. nextVid' \in Nat \ {0} /\ nextVid' >= nextVid /\ edges' \subseteq EdgeRows
  BY DEF IInv, TypeOK
<1>3. QED
  BY <1>1, <1>2, StepKeeps

\* The record of a call that ends with an answer.
LEMMA EndFacts ==
    ASSUME NEW c \in Calls, NEW r \in CallStates, NEW res \in Results, NEW written,
           r.tree => r.session,
           r.session => r.lease = r.req.graph /\ r.lease # NoGraph /\ r.req.op # "drop",
           c \in written => res \notin {"error", "cancelled"} /\ ~r.threw,
           res = "ok" /\ r.req.op # "drop" => c \in written
    PROVE  /\ End(r, res) \in CallStates /\ End(r, res).met = r.met /\ End(r, res).lease = r.lease
           /\ HoldsInOrder(End(r, res)) /\ AnswerFollowsWrites(c, End(r, res), written)
           /\ ~Importing(End(r, res))
<1> DEFINE s == End(r, res)
<1>1. /\ s \in CallStates /\ s.step \in Ending
      /\ s.step = "session" => ~r.tree
      /\ s.step \in {"lease", "done"} => ~r.session
      /\ s.res = res /\ s.req = r.req /\ s.lease = r.lease /\ s.session = r.session
      /\ s.tree = r.tree /\ s.threw = r.threw /\ s.met = r.met
  BY EndIs
<1> HIDE DEF s
<1>2. HoldsInOrder(s)
  BY <1>1 DEF HoldsInOrder, Ending
<1>3. AnswerFollowsWrites(c, s, written)
  BY <1>1 DEF AnswerFollowsWrites, Ending
<1>4. ~Importing(s)
  BY <1>1 DEF Importing, Ending
<1>5. QED
  BY <1>1, <1>2, <1>3, <1>4 DEF s

\* A step that ends a call with an answer.
LEMMA EndKeeps ==
    ASSUME IInv, NEW c \in Calls, NEW r \in CallStates, NEW res \in Results,
           call' = [call EXCEPT ![c] = End(r, res)],
           UNCHANGED <<graph, vertices, edges, nextVid>>,
           durable' \in {durable, durable \cup {c}},
           r.tree => r.session,
           r.session => r.lease = r.req.graph /\ r.lease # NoGraph /\ r.req.op # "drop",
           c \in durable' => res \notin {"error", "cancelled"} /\ ~r.threw,
           res = "ok" /\ r.req.op # "drop" => c \in durable',
           r.met = call[c].met,
           r.lease \in {call[c].lease, NoGraph} \/ Serves(r.lease)
    PROVE  IInv'
<1> DEFINE s == End(r, res)
<1>1. /\ s \in CallStates /\ s.met = r.met /\ s.lease = r.lease
      /\ HoldsInOrder(s) /\ AnswerFollowsWrites(c, s, durable') /\ ~Importing(s)
  BY EndFacts
<1>2. call' = [call EXCEPT ![c] = s]
  OBVIOUS
<1> HIDE DEF s
<1>3. s.lease \in {call[c].lease, NoGraph} \/ Serves(s.lease)
  BY <1>1
<1>4. QED
  BY <1>1, <1>2, <1>3, MoveKeeps

\* What IInv says of one call.
LEMMA OneCall ==
    ASSUME IInv, NEW c \in Calls
    PROVE  /\ call \in [Calls -> CallStates] /\ call[c] \in CallStates
           /\ HoldsInOrder(call[c]) /\ AnswerFollowsWrites(c, call[c], durable)
           /\ (call[c].tree => call[c].session)
           /\ (call[c].session => call[c].lease = call[c].req.graph /\ call[c].lease # NoGraph /\ call[c].req.op # "drop")
           /\ (c \in durable => call[c].step \in Ending \cup {"summary"})
BY DEF IInv, TypeOK, HoldsInOrder, AnswerFollowsWrites, Ending

-----------------------------------------------------------------------------
(* The initial state *)

\* A call that has not arrived holds nothing and has no answer.
LEMMA IdleIs ==
    /\ Idle \in CallStates
    /\ Idle.step = "idle" /\ Idle.lease = NoGraph /\ Idle.res = "none" /\ Idle.met = {}
    /\ ~Idle.session /\ ~Idle.tree /\ ~Idle.threw
<1>1. Idle \in CallStates
  BY DEF Idle, CallStates, Steps
<1>2. QED
  BY <1>1 DEF Idle

LEMMA Initial == Init => IInv
<1> SUFFICES ASSUME Init PROVE IInv
  OBVIOUS
<1>1. TypeOK
  BY IdleIs DEF Init, TypeOK
<1>2. \A c \in Calls : call[c] = Idle
  BY DEF Init
<1>3. LeaseKeeps
  BY <1>2, IdleIs, GraphServiceAssumption DEF LeaseKeeps
<1>4. \A c \in Calls : ~Importing(call[c])
  BY <1>2, IdleIs DEF Importing
<1>5. VidsBelow /\ ImportInv /\ DuplicatesOverlap
  BY <1>4 DEF Init, VidsBelow, ImportInv, DuplicatesOverlap
<1>6. \A c \in Calls : HoldsInOrder(call[c]) /\ AnswerFollowsWrites(c, call[c], durable)
  BY <1>2, IdleIs DEF Init, HoldsInOrder, AnswerFollowsWrites
<1>7. QED
  BY <1>1, <1>3, <1>5, <1>6 DEF IInv

-----------------------------------------------------------------------------
(* Statements and their teardown *)

LEMMA ReceiveKeeps ==
    ASSUME IInv, NEW c \in Calls, NEW q \in Requests, Receive(c, q)
    PROVE  IInv'
<1> DEFINE s == [Idle EXCEPT !.req = q, !.step = "start"]
<1>1. call[c] = Idle /\ call' = [call EXCEPT ![c] = s] /\ UNCHANGED <<graph, durable, vertices, edges, nextVid>>
  BY DEF Receive, Set
<1>2. /\ s \in CallStates /\ s.step = "start" /\ s.req = q /\ s.lease = NoGraph /\ s.res = "none"
      /\ s.met = {} /\ ~s.session /\ ~s.tree /\ ~s.threw
  BY IdleIs DEF CallStates, Steps
<1>3. c \notin durable
  BY <1>1, IdleIs, OneCall DEF Ending
<1> HIDE DEF s
<1>5. HoldsInOrder(s) /\ AnswerFollowsWrites(c, s, durable') /\ ~Importing(s)
  BY <1>1, <1>2, <1>3 DEF HoldsInOrder, AnswerFollowsWrites, Importing
<1>6. s.met = call[c].met /\ s.lease \in {call[c].lease, NoGraph} /\ durable' = durable
  BY <1>1, <1>2, IdleIs
<1>7. QED
  BY <1>1, <1>2, <1>5, <1>6, MoveKeeps

LEMMA ExecuteKeeps ==
    ASSUME IInv, NEW c \in Calls, executeCypher(c)
    PROVE  IInv'
<1> DEFINE r == call[c]
           s == [r EXCEPT !.lease = r.req.graph, !.step = "prepare"]
<1>1. /\ r.req.op = "query" /\ r.step = "start"
      /\ UNCHANGED <<graph, durable, vertices, edges, nextVid>>
      /\ call' = [call EXCEPT ![c] = IF Serves(r.req.graph) THEN s ELSE End(r, "error")]
  BY DEF executeCypher, Set
<1>2. /\ r \in CallStates /\ HoldsInOrder(r) /\ AnswerFollowsWrites(c, r, durable)
      /\ (r.tree => r.session) /\ (r.session => r.lease = r.req.graph /\ r.lease # NoGraph /\ r.req.op # "drop")
      /\ c \notin durable /\ ~r.session
  BY <1>1, OneCall DEF Ending, HoldsInOrder
<1>3. CASE Serves(r.req.graph)
  <2>1. r.req \in Requests /\ r.req.graph \in Graphs \cup {Default} /\ r.req.graph # NoGraph
    BY <1>1, <1>2, GraphServiceAssumption DEF HoldsInOrder
  <2>2. /\ s \in CallStates /\ s.step = "prepare" /\ s.lease = r.req.graph /\ s.req = r.req
        /\ s.session = r.session /\ s.tree = r.tree /\ s.res = r.res /\ s.threw = r.threw /\ s.met = r.met
    BY <1>2, <2>1 DEF CallStates, Steps
  <2>3. call' = [call EXCEPT ![c] = s]
    BY <1>1, <1>3
  <2> HIDE DEF s
  <2>4. HoldsInOrder(s) /\ AnswerFollowsWrites(c, s, durable') /\ ~Importing(s)
    BY <1>1, <1>2, <2>1, <2>2 DEF HoldsInOrder, AnswerFollowsWrites, Importing
  <2>5. QED
    BY <1>1, <1>3, <2>2, <2>3, <2>4, MoveKeeps
<1>4. CASE ~Serves(r.req.graph)
  <2>1. call' = [call EXCEPT ![c] = End(r, "error")]
    BY <1>1, <1>4
  <2>2. QED
    BY <1>1, <1>2, <2>1, EndKeeps DEF Results
<1>5. QED
  BY <1>3, <1>4

LEMMA PrepareKeeps ==
    ASSUME IInv, NEW c \in Calls, prepareStream(c)
    PROVE  IInv'
<1> DEFINE r == call[c]
           begun == [r EXCEPT !.session = TRUE]
           s == [begun EXCEPT !.tree = TRUE, !.step = "prefetch"]
<1>1. /\ r.req.op = "query" /\ r.step = "prepare"
      /\ UNCHANGED <<graph, durable, vertices, edges, nextVid>>
      /\ \/ call' = [call EXCEPT ![c] = End(r, "error")]
         \/ call' = [call EXCEPT ![c] = End(begun, "error")]
         \/ call' = [call EXCEPT ![c] = s]
  BY DEF prepareStream, Set
<1>2. /\ r \in CallStates /\ HoldsInOrder(r) /\ AnswerFollowsWrites(c, r, durable)
      /\ (r.tree => r.session) /\ (r.session => r.lease = r.req.graph /\ r.lease # NoGraph /\ r.req.op # "drop")
      /\ c \notin durable /\ r.lease = r.req.graph /\ r.lease # NoGraph /\ r.req.op # "drop"
  BY <1>1, OneCall DEF Ending, HoldsInOrder
<1>3. /\ begun \in CallStates /\ begun.session /\ begun.tree = r.tree /\ begun.lease = r.lease /\ begun.req = r.req
      /\ begun.met = r.met /\ begun.threw = r.threw /\ begun.res = r.res /\ begun.step = r.step
  BY <1>2 DEF CallStates
<1> HIDE DEF begun
<1>4. CASE call' = [call EXCEPT ![c] = End(r, "error")]
  BY <1>1, <1>2, <1>4, EndKeeps DEF Results
<1>5. CASE call' = [call EXCEPT ![c] = End(begun, "error")]
  BY <1>1, <1>2, <1>3, <1>5, EndKeeps DEF Results
<1>6. CASE call' = [call EXCEPT ![c] = s]
  <2>1. /\ s \in CallStates /\ s.step = "prefetch" /\ s.session /\ s.tree /\ s.lease = r.lease /\ s.req = r.req
        /\ s.met = r.met /\ s.threw = r.threw /\ s.res = r.res
    BY <1>3 DEF CallStates, Steps
  <2> HIDE DEF s
  <2>2. HoldsInOrder(s) /\ AnswerFollowsWrites(c, s, durable') /\ ~Importing(s)
    BY <1>1, <1>2, <2>1 DEF HoldsInOrder, AnswerFollowsWrites, Importing
  <2>3. QED
    BY <1>1, <1>6, <2>1, <2>2, MoveKeeps
<1>7. QED
  BY <1>1, <1>4, <1>5, <1>6

LEMMA PrefetchKeeps ==
    ASSUME IInv, NEW c \in Calls, Prefetch(c)
    PROVE  IInv'
<1> DEFINE r == call[c]
<1>1. PICK first \in {"chunk", "end", "throw"} :
        call' = [call EXCEPT ![c] = [r EXCEPT !.first = first, !.threw = (first = "throw"), !.wrote = TRUE,
                                              !.step = "stream"]]
  BY DEF Prefetch, Set
<1> DEFINE s == [r EXCEPT !.first = first, !.threw = (first = "throw"), !.wrote = TRUE, !.step = "stream"]
<1>2. r.step = "prefetch" /\ UNCHANGED <<graph, durable, vertices, edges, nextVid>>
  BY DEF Prefetch
<1>3. /\ r \in CallStates /\ HoldsInOrder(r) /\ AnswerFollowsWrites(c, r, durable)
      /\ (r.tree => r.session) /\ (r.session => r.lease = r.req.graph /\ r.lease # NoGraph /\ r.req.op # "drop")
      /\ c \notin durable
  BY <1>2, OneCall DEF Ending
<1>4. /\ s \in CallStates /\ s.step = "stream" /\ s.session = r.session /\ s.tree = r.tree /\ s.lease = r.lease
      /\ s.req = r.req /\ s.met = r.met /\ s.res = r.res /\ s.first = first /\ (s.threw => first = "throw")
  BY <1>3 DEF CallStates, Steps
<1> HIDE DEF s
<1>5. HoldsInOrder(s) /\ AnswerFollowsWrites(c, s, durable') /\ ~Importing(s)
  BY <1>2, <1>3, <1>4 DEF HoldsInOrder, AnswerFollowsWrites, Importing
<1>6. call' = [call EXCEPT ![c] = s]
  BY <1>1 DEF s
<1>7. QED
  BY <1>2, <1>4, <1>5, <1>6, MoveKeeps

LEMMA PullFirstKeeps ==
    ASSUME IInv, NEW c \in Calls, PullFirst(c)
    PROVE  IInv'
<1> DEFINE r == call[c]
           s == [r EXCEPT !.started = TRUE, !.first = "none"]
           t == [s EXCEPT !.step = "commit"]
<1>1. /\ r.step = "stream" /\ r.first # "none"
      /\ UNCHANGED <<graph, durable, vertices, edges, nextVid>>
  BY DEF PullFirst
<1>2. /\ r \in CallStates /\ HoldsInOrder(r) /\ AnswerFollowsWrites(c, r, durable)
      /\ (r.tree => r.session) /\ (r.session => r.lease = r.req.graph /\ r.lease # NoGraph /\ r.req.op # "drop")
      /\ c \notin durable /\ r.first \in {"none", "chunk", "end", "throw"} /\ (r.threw => r.first = "throw")
  BY <1>1, OneCall DEF Ending, AnswerFollowsWrites, CallStates
<1>3. /\ s \in CallStates /\ s.step = "stream" /\ s.session = r.session /\ s.tree = r.tree /\ s.lease = r.lease
      /\ s.req = r.req /\ s.met = r.met /\ s.res = r.res /\ s.threw = r.threw
  BY <1>1, <1>2 DEF CallStates
<1>4. \/ r.first = "chunk" /\ call' = [call EXCEPT ![c] = s]
      \/ r.first = "end" /\ call' = [call EXCEPT ![c] = t]
      \/ call' = [call EXCEPT ![c] = End(s, "error")]
  BY <1>1, <1>2 DEF PullFirst, Set
<1> HIDE DEF s
<1>5. /\ t \in CallStates /\ t.step = "commit" /\ t.session = r.session /\ t.tree = r.tree /\ t.lease = r.lease
      /\ t.req = r.req /\ t.met = r.met /\ t.res = r.res /\ t.threw = r.threw
  BY <1>3 DEF CallStates, Steps
<1> HIDE DEF t
<1>6. CASE r.first = "chunk" /\ call' = [call EXCEPT ![c] = s]
  <2>1. HoldsInOrder(s) /\ AnswerFollowsWrites(c, s, durable') /\ ~Importing(s)
    BY <1>1, <1>2, <1>3, <1>6 DEF HoldsInOrder, AnswerFollowsWrites, Importing
  <2>2. QED
    BY <1>1, <1>3, <1>6, <2>1, MoveKeeps
<1>7. CASE r.first = "end" /\ call' = [call EXCEPT ![c] = t]
  <2>1. HoldsInOrder(t) /\ AnswerFollowsWrites(c, t, durable') /\ ~Importing(t)
    BY <1>1, <1>2, <1>5, <1>7 DEF HoldsInOrder, AnswerFollowsWrites, Importing
  <2>2. QED
    BY <1>1, <1>5, <1>7, <2>1, MoveKeeps
<1>8. CASE call' = [call EXCEPT ![c] = End(s, "error")]
  BY <1>1, <1>2, <1>3, <1>8, EndKeeps DEF Results
<1>9. QED
  BY <1>4, <1>6, <1>7, <1>8

LEMMA PullNextKeeps ==
    ASSUME IInv, NEW c \in Calls, PullNext(c)
    PROVE  IInv'
<1> DEFINE r == call[c]
           s == [r EXCEPT !.step = "commit"]
           t == [r EXCEPT !.threw = TRUE]
<1>1. /\ r.step = "stream" /\ r.first = "none"
      /\ UNCHANGED <<graph, durable, vertices, edges, nextVid>>
      /\ \/ call' = [call EXCEPT ![c] = s]
         \/ call' = [call EXCEPT ![c] = End(t, "error")]
  BY DEF PullNext, Set
<1>2. /\ r \in CallStates /\ HoldsInOrder(r) /\ AnswerFollowsWrites(c, r, durable)
      /\ (r.tree => r.session) /\ (r.session => r.lease = r.req.graph /\ r.lease # NoGraph /\ r.req.op # "drop")
      /\ c \notin durable /\ ~r.threw
  BY <1>1, OneCall DEF Ending, AnswerFollowsWrites
<1>3. /\ s \in CallStates /\ s.step = "commit" /\ s.session = r.session /\ s.tree = r.tree /\ s.lease = r.lease
      /\ s.req = r.req /\ s.met = r.met /\ s.res = r.res /\ s.threw = r.threw
  BY <1>2 DEF CallStates, Steps
<1>4. /\ t \in CallStates /\ t.session = r.session /\ t.tree = r.tree /\ t.lease = r.lease
      /\ t.req = r.req /\ t.met = r.met
  BY <1>2 DEF CallStates
<1> HIDE DEF s, t
<1>5. HoldsInOrder(s) /\ AnswerFollowsWrites(c, s, durable') /\ ~Importing(s)
  BY <1>1, <1>2, <1>3 DEF HoldsInOrder, AnswerFollowsWrites, Importing
<1>6. CASE call' = [call EXCEPT ![c] = s]
  BY <1>1, <1>3, <1>5, <1>6, MoveKeeps
<1>7. CASE call' = [call EXCEPT ![c] = End(t, "error")]
  BY <1>1, <1>2, <1>4, <1>7, EndKeeps DEF Results
<1>8. QED
  BY <1>1, <1>6, <1>7

LEMMA CommitStreamKeeps ==
    ASSUME IInv, NEW c \in Calls, CommitStream(c)
    PROVE  IInv'
<1> DEFINE r == call[c]
           over == [r EXCEPT !.wrote = FALSE]
           s == [over EXCEPT !.step = "summary"]
<1>1. /\ r.step = "commit" /\ UNCHANGED <<graph, vertices, edges, nextVid>>
      /\ \/ durable' = durable \cup {c} /\ call' = [call EXCEPT ![c] = End(over, "ok")]
         \/ durable' = durable \cup {c} /\ call' = [call EXCEPT ![c] = s]
         \/ durable' = durable /\ call' = [call EXCEPT ![c] = End(r, "error")]
  BY DEF CommitStream, Set
<1>2. /\ r \in CallStates /\ HoldsInOrder(r) /\ AnswerFollowsWrites(c, r, durable)
      /\ (r.tree => r.session) /\ (r.session => r.lease = r.req.graph /\ r.lease # NoGraph /\ r.req.op # "drop")
      /\ c \notin durable /\ ~r.threw /\ r.res = "none"
  BY <1>1, OneCall DEF Ending, AnswerFollowsWrites
<1>3. /\ over \in CallStates /\ over.session = r.session /\ over.tree = r.tree /\ over.lease = r.lease
      /\ over.req = r.req /\ over.met = r.met /\ over.res = r.res /\ over.threw = r.threw
  BY <1>2 DEF CallStates
<1> HIDE DEF over
<1>4. CASE durable' = durable \cup {c} /\ call' = [call EXCEPT ![c] = End(over, "ok")]
  BY <1>1, <1>2, <1>3, <1>4, EndKeeps DEF Results
<1>5. CASE durable' = durable \cup {c} /\ call' = [call EXCEPT ![c] = s]
  <2>1. /\ s \in CallStates /\ s.step = "summary" /\ s.session = r.session /\ s.tree = r.tree /\ s.lease = r.lease
        /\ s.req = r.req /\ s.met = r.met /\ s.res = r.res /\ s.threw = r.threw
    BY <1>3 DEF CallStates, Steps
  <2> HIDE DEF s
  <2>2. HoldsInOrder(s) /\ AnswerFollowsWrites(c, s, durable') /\ ~Importing(s)
    BY <1>1, <1>2, <1>5, <2>1 DEF HoldsInOrder, AnswerFollowsWrites, Importing
  <2>3. QED
    BY <1>1, <1>5, <2>1, <2>2, MoveKeeps
<1>6. CASE durable' = durable /\ call' = [call EXCEPT ![c] = End(r, "error")]
  BY <1>1, <1>2, <1>6, EndKeeps DEF Results
<1>7. QED
  BY <1>1, <1>4, <1>5, <1>6

LEMMA PullSummaryKeeps ==
    ASSUME IInv, NEW c \in Calls, PullSummary(c)
    PROVE  IInv'
<1> DEFINE r == call[c]
<1>1. /\ r.step = "summary" /\ UNCHANGED <<graph, durable, vertices, edges, nextVid>>
      /\ call' = [call EXCEPT ![c] = End(r, "ok")]
  BY DEF PullSummary, Set
<1>2. /\ r \in CallStates /\ HoldsInOrder(r) /\ AnswerFollowsWrites(c, r, durable)
      /\ (r.tree => r.session) /\ (r.session => r.lease = r.req.graph /\ r.lease # NoGraph /\ r.req.op # "drop")
      /\ c \in durable /\ ~r.threw
  BY <1>1, OneCall DEF AnswerFollowsWrites
<1>3. QED
  BY <1>1, <1>2, EndKeeps DEF Results

LEMMA CancelKeeps ==
    ASSUME IInv, NEW c \in Calls, Cancel(c)
    PROVE  IInv'
<1> DEFINE r == call[c]
<1>1. /\ UNCHANGED <<graph, durable, vertices, edges, nextVid>>
      /\ \/ r.step = "stream" /\ call' = [call EXCEPT ![c] = End(r, "cancelled")]
         \/ r.step = "summary" /\ call' = [call EXCEPT ![c] = End(r, "unread")]
  BY DEF Cancel, Set
<1>2. /\ r \in CallStates /\ HoldsInOrder(r) /\ AnswerFollowsWrites(c, r, durable)
      /\ (r.tree => r.session) /\ (r.session => r.lease = r.req.graph /\ r.lease # NoGraph /\ r.req.op # "drop")
      /\ (r.step = "stream" => c \notin durable) /\ (c \in durable => ~r.threw)
  BY OneCall DEF Ending, AnswerFollowsWrites
<1>3. CASE r.step = "stream" /\ call' = [call EXCEPT ![c] = End(r, "cancelled")]
  BY <1>1, <1>2, <1>3, EndKeeps DEF Results
<1>4. CASE r.step = "summary" /\ call' = [call EXCEPT ![c] = End(r, "unread")]
  BY <1>1, <1>2, <1>4, EndKeeps DEF Results
<1>5. QED
  BY <1>1, <1>3, <1>4

LEMMA DestroyTreeKeeps ==
    ASSUME IInv, NEW c \in Calls, DestroyTree(c)
    PROVE  IInv'
<1> DEFINE r == call[c]
           s == [r EXCEPT !.tree = FALSE, !.step = "session", !.wrote = r.wrote /\ ~r.started]
<1>1. /\ r.step = "tree" /\ call' = [call EXCEPT ![c] = s]
      /\ UNCHANGED <<graph, durable, vertices, edges, nextVid>>
  BY DEF DestroyTree, Set
<1>2. /\ r \in CallStates /\ HoldsInOrder(r) /\ AnswerFollowsWrites(c, r, durable)
      /\ (r.tree => r.session) /\ (r.session => r.lease = r.req.graph /\ r.lease # NoGraph /\ r.req.op # "drop")
      /\ r.step = "tree"
  BY <1>1, OneCall DEF Ending, HoldsInOrder
<1>3. /\ s \in CallStates /\ s.req = r.req /\ s.res = r.res /\ s.threw = r.threw /\ s.met = r.met
      /\ s.step = "session" /\ ~s.tree /\ s.session = r.session /\ s.lease = r.lease
  BY <1>2 DEF CallStates, Steps
<1> HIDE DEF s
<1>4. HoldsInOrder(s) /\ AnswerFollowsWrites(c, s, durable') /\ ~Importing(s)
  BY <1>1, <1>2, <1>3 DEF HoldsInOrder, AnswerFollowsWrites, Importing
<1>5. QED
  BY <1>1, <1>3, <1>4, MoveKeeps

LEMMA ReturnSessionKeeps ==
    ASSUME IInv, NEW c \in Calls, ReturnSession(c)
    PROVE  IInv'
<1> DEFINE r == call[c]
           s == [r EXCEPT !.session = FALSE, !.wrote = FALSE, !.step = "lease"]
<1>1. /\ r.step = "session" /\ call' = [call EXCEPT ![c] = s]
      /\ UNCHANGED <<graph, durable, vertices, edges, nextVid>>
  BY DEF ReturnSession, Set
<1>2. /\ r \in CallStates /\ HoldsInOrder(r) /\ AnswerFollowsWrites(c, r, durable)
      /\ (r.tree => r.session) /\ (r.session => r.lease = r.req.graph /\ r.lease # NoGraph /\ r.req.op # "drop")
      /\ ~r.tree
  BY <1>1, OneCall DEF Ending, HoldsInOrder
<1>3. /\ s \in CallStates /\ s.req = r.req /\ s.res = r.res /\ s.threw = r.threw /\ s.met = r.met
      /\ s.step = "lease" /\ s.tree = r.tree /\ ~s.session /\ s.lease = r.lease
  BY <1>2 DEF CallStates, Steps
<1> HIDE DEF s
<1>4. HoldsInOrder(s) /\ AnswerFollowsWrites(c, s, durable') /\ ~Importing(s)
  BY <1>1, <1>2, <1>3 DEF HoldsInOrder, AnswerFollowsWrites, Importing
<1>5. QED
  BY <1>1, <1>3, <1>4, MoveKeeps

LEMMA ReleaseLeaseKeeps ==
    ASSUME IInv, NEW c \in Calls, ReleaseLease(c)
    PROVE  IInv'
<1> DEFINE r == call[c]
           s == [r EXCEPT !.lease = NoGraph, !.session = FALSE, !.step = "done", !.started = FALSE]
<1>1. /\ r.step = "lease" /\ call' = [call EXCEPT ![c] = s]
      /\ UNCHANGED <<graph, durable, vertices, edges, nextVid>>
  BY DEF ReleaseLease, Set
<1>2. /\ r \in CallStates /\ HoldsInOrder(r) /\ AnswerFollowsWrites(c, r, durable)
      /\ (r.tree => r.session) /\ (r.session => r.lease = r.req.graph /\ r.lease # NoGraph /\ r.req.op # "drop")
      /\ ~r.session
  BY <1>1, OneCall DEF Ending, HoldsInOrder
<1>3. /\ s \in CallStates /\ s.req = r.req /\ s.res = r.res /\ s.threw = r.threw /\ s.met = r.met
      /\ s.step = "done" /\ s.tree = r.tree /\ ~s.session /\ s.lease = NoGraph
  BY <1>2 DEF CallStates, Steps
<1> HIDE DEF s
<1>4. HoldsInOrder(s) /\ AnswerFollowsWrites(c, s, durable') /\ ~Importing(s)
  BY <1>1, <1>2, <1>3 DEF HoldsInOrder, AnswerFollowsWrites, Importing
<1>5. QED
  BY <1>1, <1>3, <1>4, MoveKeeps

-----------------------------------------------------------------------------
(* DROP DATABASE *)

LEMMA ResolveKeeps ==
    ASSUME IInv, NEW c \in Calls, ResolveSelected(c)
    PROVE  IInv'
<1> DEFINE r == call[c]
           g == r.req.selected
           lease == IF g = NoGraph THEN NoGraph ELSE IF Serves(g) THEN g ELSE Default
           s == [r EXCEPT !.step = "drop", !.lease = lease]
<1>1. /\ r.req.op = "drop" /\ r.step = "start" /\ call' = [call EXCEPT ![c] = s]
      /\ UNCHANGED <<graph, durable, vertices, edges, nextVid>>
  BY DEF ResolveSelected, Set
<1>2. /\ r \in CallStates /\ HoldsInOrder(r) /\ AnswerFollowsWrites(c, r, durable)
      /\ (r.tree => r.session) /\ (r.session => r.lease = r.req.graph /\ r.lease # NoGraph /\ r.req.op # "drop")
      /\ c \notin durable /\ ~r.session /\ r.req \in Requests
  BY <1>1, OneCall DEF Ending, HoldsInOrder
<1>3. lease \in Graphs \cup {Default, NoGraph} /\ (lease = NoGraph \/ Serves(lease))
  BY <1>1, <1>2, GraphServiceAssumption DEF Serves
<1> HIDE DEF lease
<1>4. /\ s \in CallStates /\ s.step = "drop" /\ s.lease = lease /\ s.req = r.req /\ s.session = r.session
      /\ s.tree = r.tree /\ s.res = r.res /\ s.threw = r.threw /\ s.met = r.met
  BY <1>2, <1>3 DEF CallStates, Steps
<1> HIDE DEF s
<1>5. HoldsInOrder(s) /\ AnswerFollowsWrites(c, s, durable') /\ ~Importing(s)
  BY <1>1, <1>2, <1>4 DEF HoldsInOrder, AnswerFollowsWrites, Importing
<1>6. s.lease \in {call[c].lease, NoGraph} \/ Serves(s.lease)
  BY <1>3, <1>4
<1>7. QED
  BY <1>1, <1>4, <1>5, <1>6, MoveKeeps

\* A drop changes one graph, and removes it only when nobody leases it.
LEMMA DropStep ==
    ASSUME IInv, NEW c \in Calls, NEW s \in CallStates, NEW g,
           NEW x \in {"open", "closing", "leaked", "removed"},
           call' = [call EXCEPT ![c] = s], s.lease = call[c].lease,
           graph' = [graph EXCEPT ![g] = x],
           x = "removed" => Inflight(g) = {}
    PROVE  LeaseKeeps' /\ graph' \in [Graphs -> {"open", "closing", "leaked", "removed"}]
<1>1. /\ call \in [Calls -> CallStates] /\ LeaseKeeps
      /\ graph \in [Graphs -> {"open", "closing", "leaked", "removed"}]
  BY DEF IInv, TypeOK
<1>2. \A d \in Calls : call'[d].lease = call[d].lease
  BY <1>1
<1>3. ASSUME NEW d \in Calls, call[d].lease \in Graphs PROVE graph'[call[d].lease] # "removed"
  <2>1. CASE call[d].lease = g
    BY <1>1, <1>3, <2>1 DEF Inflight
  <2>2. CASE call[d].lease # g
    BY <1>1, <1>3, <2>2 DEF LeaseKeeps
  <2>3. QED
    BY <2>1, <2>2
<1>4. QED
  BY <1>1, <1>2, <1>3 DEF LeaseKeeps

LEMMA DropGraphKeeps ==
    ASSUME IInv, NEW c \in Calls, dropGraph(c)
    PROVE  IInv'
<1> DEFINE r == call[c]
           g == r.req.graph
           s == [r EXCEPT !.step = "drain"]
<1>1. /\ r.step = "drop" /\ UNCHANGED <<durable, vertices, edges, nextVid>>
      /\ \/ graph' = [graph EXCEPT ![g] = "closing"] /\ call' = [call EXCEPT ![c] = s]
         \/ graph' = graph /\ call' = [call EXCEPT ![c] = End(r, "failed")]
  BY DEF dropGraph, Set
<1>2. /\ r \in CallStates /\ HoldsInOrder(r) /\ AnswerFollowsWrites(c, r, durable)
      /\ (r.tree => r.session) /\ (r.session => r.lease = r.req.graph /\ r.lease # NoGraph /\ r.req.op # "drop")
      /\ c \notin durable /\ ~r.session /\ r.req \in Requests /\ r.req.op = "drop"
  BY <1>1, OneCall DEF Ending, HoldsInOrder
<1>3. /\ s \in CallStates /\ s.step = "drain" /\ s.lease = r.lease /\ s.req = r.req /\ s.session = r.session
      /\ s.tree = r.tree /\ s.res = r.res /\ s.threw = r.threw /\ s.met = r.met
  BY <1>2 DEF CallStates, Steps
<1> HIDE DEF s
<1>4. CASE graph' = [graph EXCEPT ![g] = "closing"] /\ call' = [call EXCEPT ![c] = s]
  <2>1. HoldsInOrder(s) /\ AnswerFollowsWrites(c, s, durable') /\ ~Importing(s)
    BY <1>1, <1>2, <1>3 DEF HoldsInOrder, AnswerFollowsWrites, Importing
  <2>2. LeaseKeeps' /\ graph' \in [Graphs -> {"open", "closing", "leaked", "removed"}]
    BY <1>3, <1>4, DropStep
  <2>3. nextVid' \in Nat \ {0} /\ nextVid' >= nextVid /\ edges' \subseteq EdgeRows
    BY <1>1 DEF IInv, TypeOK
  <2>4. QED
    BY <1>1, <1>3, <1>4, <2>1, <2>2, <2>3, StepKeeps
<1>5. CASE graph' = graph /\ call' = [call EXCEPT ![c] = End(r, "failed")]
  BY <1>1, <1>2, <1>5, EndKeeps DEF Results
<1>6. QED
  BY <1>1, <1>4, <1>5

\* The end of a drop's wait: removed with nobody left, or leaked.
LEMMA WaitOverKeeps ==
    ASSUME IInv, NEW c \in Calls, NEW res \in {"ok", "failed"}, NEW x \in {"leaked", "removed"},
           call[c].step = "drain",
           x = "removed" => Inflight(call[c].req.graph) = {},
           graph' = [graph EXCEPT ![call[c].req.graph] = x],
           call' = [call EXCEPT ![c] = End(call[c], res)],
           UNCHANGED <<durable, vertices, edges, nextVid>>
    PROVE  IInv'
<1> DEFINE r == call[c]
           s == End(r, res)
<1>1. /\ r \in CallStates /\ HoldsInOrder(r) /\ AnswerFollowsWrites(c, r, durable)
      /\ (r.tree => r.session) /\ (r.session => r.lease = r.req.graph /\ r.lease # NoGraph /\ r.req.op # "drop")
      /\ c \notin durable /\ r.req.op = "drop"
  BY OneCall DEF Ending, HoldsInOrder
<1>2. /\ s \in CallStates /\ s.met = r.met /\ s.lease = r.lease
      /\ HoldsInOrder(s) /\ AnswerFollowsWrites(c, s, durable') /\ ~Importing(s)
  BY <1>1, EndFacts DEF Results
<1>3. call' = [call EXCEPT ![c] = s]
  OBVIOUS
<1> HIDE DEF s
<1>4. LeaseKeeps' /\ graph' \in [Graphs -> {"open", "closing", "leaked", "removed"}]
  BY <1>2, <1>3, DropStep
<1>5. nextVid' \in Nat \ {0} /\ nextVid' >= nextVid /\ edges' \subseteq EdgeRows
  BY DEF IInv, TypeOK
<1>6. QED
  BY <1>2, <1>3, <1>4, <1>5, StepKeeps

LEMMA DrainedKeeps ==
    ASSUME IInv, NEW c \in Calls, Drained(c) \/ DrainTimeout(c)
    PROVE  IInv'
<1> DEFINE r == call[c]
           g == r.req.graph
           lent == \E d \in Calls : call[d].session /\ call[d].req.graph = g
<1>1. CASE Drained(c)
  <2>1. /\ r.step = "drain" /\ Inflight(g) = {} /\ UNCHANGED <<durable, vertices, edges, nextVid>>
        /\ graph' = [graph EXCEPT ![g] = IF lent THEN "leaked" ELSE "removed"]
        /\ call' = [call EXCEPT ![c] = End(r, IF lent THEN "failed" ELSE "ok")]
    BY <1>1 DEF Drained, Set
  <2>2. CASE lent
    BY <2>1, <2>2, WaitOverKeeps
  <2>3. CASE ~lent
    BY <2>1, <2>3, WaitOverKeeps
  <2>4. QED
    BY <2>2, <2>3
<1>2. CASE DrainTimeout(c)
  <2>1. /\ r.step = "drain" /\ UNCHANGED <<durable, vertices, edges, nextVid>>
        /\ graph' = [graph EXCEPT ![g] = "leaked"]
        /\ call' = [call EXCEPT ![c] = End(r, "failed")]
    BY <1>2 DEF DrainTimeout, Set
  <2>2. QED
    BY <2>1, WaitOverKeeps
<1>3. QED
  BY <1>1, <1>2

-----------------------------------------------------------------------------
(* Batch import *)

\* A batch that begins knows what is committed, and meets the running imports,
\* which from now on have met it.
LEMMA BegunKeeps ==
    ASSUME IInv, NEW c \in Calls, NEW s \in CallStates, NEW others,
           others = {d \in Calls \ {c} : Importing(call[d])},
           HoldsInOrder(s), AnswerFollowsWrites(c, s, durable), s.step = "batch",
           Serves(s.lease), s.seen = vertices, s.met = others,
           call' = [d \in Calls |-> IF d = c THEN s
                                    ELSE IF d \in others THEN [call[d] EXCEPT !.met = @ \cup {c}] ELSE call[d]],
           UNCHANGED <<graph, durable, vertices, edges, nextVid>>
    PROVE  IInv'
<1>1. /\ TypeOK /\ call \in [Calls -> CallStates] /\ vertices \subseteq VertexRows
      /\ LeaseKeeps /\ VidsBelow /\ ImportInv /\ DuplicatesOverlap
  BY DEF IInv, TypeOK
<1>2. call'[c] = s
  OBVIOUS
<1>3. ASSUME NEW d \in Calls, d # c
      PROVE  /\ call'[d] \in CallStates /\ call'[d].met = IF d \in others THEN call[d].met \cup {c} ELSE call[d].met
             /\ call'[d].req = call[d].req /\ call'[d].step = call[d].step /\ call'[d].lease = call[d].lease
             /\ call'[d].session = call[d].session /\ call'[d].tree = call[d].tree
             /\ call'[d].first = call[d].first /\ call'[d].threw = call[d].threw /\ call'[d].res = call[d].res
             /\ call'[d].seen = call[d].seen /\ call'[d].kept = call[d].kept
  <2>1. call[d] \in CallStates
    BY <1>1
  <2>2. CASE d \notin others
    BY <1>3, <2>1, <2>2
  <2>3. CASE d \in others
    <3> DEFINE e == [call[d] EXCEPT !.met = call[d].met \cup {c}]
    <3>1. call'[d] = e
      BY <1>3, <2>3
    <3>2. e \in CallStates
      BY <2>1 DEF CallStates
    <3>3. /\ e.met = call[d].met \cup {c}
          /\ e.req = call[d].req /\ e.step = call[d].step /\ e.lease = call[d].lease
          /\ e.session = call[d].session /\ e.tree = call[d].tree
          /\ e.first = call[d].first /\ e.threw = call[d].threw /\ e.res = call[d].res
          /\ e.seen = call[d].seen /\ e.kept = call[d].kept
      BY <2>1 DEF CallStates
    <3> HIDE DEF e
    <3>4. QED
      BY <3>1, <3>2, <3>3, <2>3
  <2>4. QED
    BY <2>2, <2>3
<1>4. TypeOK'
  <2>1. \A d \in Calls : call'[d] \in CallStates
    BY <1>2, <1>3
  <2>2. call' \in [Calls -> CallStates]
    BY <2>1
  <2>3. QED
    BY <1>1, <2>2 DEF TypeOK
<1>5. LeaseKeeps'
  <2>1. s.lease \in Graphs => graph[s.lease] # "removed"
    BY GraphServiceAssumption DEF Serves
  <2>2. QED
    BY <1>1, <1>2, <1>3, <2>1 DEF LeaseKeeps
<1>6. \A d \in Calls : d # c => (Importing(call'[d]) <=> Importing(call[d]))
  BY <1>3 DEF Importing
<1>7. \A d \in Calls : d # c => call[d].met \subseteq call'[d].met
  BY <1>3
<1>8. ImportInv'
  <2>1. \A v \in vertices : v.by \in durable
    BY <1>1 DEF ImportInv
  <2>2. ASSUME NEW d \in Calls, NEW e \in Calls, d # e, Importing(call'[d]), Importing(call'[e])
        PROVE  e \in call'[d].met
    <3>1. CASE d = c
      BY <1>2, <1>6, <2>2, <3>1
    <3>2. CASE e = c
      BY <1>3, <1>6, <2>2, <3>2
    <3>3. CASE d # c /\ e # c
      BY <1>1, <1>6, <1>7, <2>2, <3>3 DEF ImportInv
    <3>4. QED
      BY <3>1, <3>2, <3>3
  <2>3. ASSUME NEW d \in Calls, Importing(call'[d]), NEW v \in vertices
        PROVE  v \in call'[d].seen \/ v.by \in call'[d].met
    <3>1. CASE d = c
      BY <1>2, <3>1
    <3>2. CASE d # c
      BY <1>1, <1>3, <1>6, <1>7, <2>3, <3>2 DEF ImportInv
    <3>3. QED
      BY <3>1, <3>2
  <2>4. ASSUME NEW d \in Calls, Importing(call'[d]), call'[d].step = "staged"
        PROVE  StagedOnce(d, call'[d])
    <3>1. d # c
      BY <1>2, <2>4
    <3>2. StagedOnce(d, call[d])
      BY <1>1, <1>3, <1>6, <2>4, <3>1 DEF ImportInv
    <3>3. call'[d].seen = call[d].seen /\ call'[d].kept = call[d].kept
      BY <1>3, <3>1
    <3>4. QED
      BY <3>2, <3>3 DEF StagedOnce
  <2>5. QED
    BY <2>1, <2>2, <2>3, <2>4 DEF ImportInv
<1>9. DuplicatesOverlap'
  <2>1. \A v \in vertices : v.by \in Calls
    BY <1>1 DEF VertexRows
  <2>2. \A v \in vertices : v.by # c
    BY <1>1 DEF ImportInv, AnswerFollowsWrites
  <2>3. QED
    BY <1>1, <1>7, <2>1, <2>2 DEF DuplicatesOverlap
<1>10. ASSUME NEW d \in Calls PROVE HoldsInOrder(call'[d]) /\ AnswerFollowsWrites(d, call'[d], durable')
  <2>1. CASE d = c
    BY <1>2, <2>1
  <2>2. CASE d # c
    <3>1. HoldsInOrder(call[d]) /\ AnswerFollowsWrites(d, call[d], durable)
      BY DEF IInv
    <3>2. QED
      BY <1>3, <2>2, <3>1 DEF HoldsInOrder, AnswerFollowsWrites
  <2>3. QED
    BY <2>1, <2>2
<1>11. VidsBelow'
  <2>1. ASSUME NEW d \in Calls, Importing(call'[d])
        PROVE  /\ \A v \in call'[d].seen : v.vid < nextVid
               /\ call'[d].step = "staged" => \A v \in call'[d].kept : v.vid < nextVid
    <3>1. CASE d = c
      BY <1>1, <1>2, <3>1 DEF VidsBelow
    <3>2. CASE d # c
      BY <1>1, <1>3, <1>6, <2>1, <3>2 DEF VidsBelow
    <3>3. QED
      BY <3>1, <3>2
  <2>2. QED
    BY <1>1, <2>1 DEF VidsBelow
<1>12. QED
  BY <1>4, <1>5, <1>8, <1>9, <1>10, <1>11 DEF IInv

LEMMA BatchBeginKeeps ==
    ASSUME IInv, NEW c \in Calls, BatchBegin(c)
    PROVE  IInv'
<1> DEFINE r == call[c]
           g == r.req.graph
           leased == [r EXCEPT !.lease = g]
           others == {d \in Calls \ {c} : call[d].step \in {"batch", "staged"} /\ call[d].req.op = "vertices"}
           s == [leased EXCEPT !.session = TRUE, !.step = "batch", !.seen = vertices, !.met = others]
<1>1. /\ r.req.op \in {"vertices", "edges"} /\ r.step = "start"
      /\ UNCHANGED <<graph, durable, vertices, edges, nextVid>>
      /\ \/ call' = [call EXCEPT ![c] = End(r, "error")]
         \/ Serves(g) /\ call' = [call EXCEPT ![c] = End(leased, "error")]
         \/ /\ Serves(g)
            /\ call' = [d \in Calls |-> IF d = c THEN s
                                       ELSE IF d \in others THEN [call[d] EXCEPT !.met = @ \cup {c}] ELSE call[d]]
  BY DEF BatchBegin, Set
<1>2. /\ r \in CallStates /\ HoldsInOrder(r) /\ AnswerFollowsWrites(c, r, durable)
      /\ (r.tree => r.session) /\ (r.session => r.lease = r.req.graph /\ r.lease # NoGraph /\ r.req.op # "drop")
      /\ c \notin durable /\ ~r.session /\ r.req \in Requests /\ r.res = "none" /\ ~r.threw
  BY <1>1, OneCall DEF Ending, HoldsInOrder, AnswerFollowsWrites
<1>3. g \in Graphs \cup {Default} /\ g # NoGraph
  BY <1>2, GraphServiceAssumption
<1>4. /\ leased \in CallStates /\ leased.lease = g /\ leased.req = r.req /\ leased.session = r.session
      /\ leased.tree = r.tree /\ leased.res = r.res /\ leased.threw = r.threw /\ leased.met = r.met
  BY <1>2, <1>3 DEF CallStates
<1> HIDE DEF leased
<1>5. CASE call' = [call EXCEPT ![c] = End(r, "error")]
  BY <1>1, <1>2, <1>5, EndKeeps DEF Results
<1>6. CASE Serves(g) /\ call' = [call EXCEPT ![c] = End(leased, "error")]
  BY <1>1, <1>2, <1>4, <1>6, EndKeeps DEF Results
<1>7. CASE /\ Serves(g)
           /\ call' = [d \in Calls |-> IF d = c THEN s
                                      ELSE IF d \in others THEN [call[d] EXCEPT !.met = @ \cup {c}] ELSE call[d]]
  <2>1. others = {d \in Calls \ {c} : Importing(call[d])} /\ others \subseteq Calls
    BY DEF Importing
  <2>2. vertices \subseteq VertexRows
    BY DEF IInv, TypeOK
  <2> HIDE DEF others
  <2>3. /\ s \in CallStates /\ s.step = "batch" /\ s.lease = g /\ s.req = r.req /\ s.session = TRUE
        /\ s.tree = r.tree /\ s.res = r.res /\ s.threw = r.threw /\ s.met = others /\ s.seen = vertices
    BY <1>4, <2>1, <2>2 DEF CallStates, Steps
  <2> HIDE DEF s
  <2>4. HoldsInOrder(s) /\ AnswerFollowsWrites(c, s, durable)
    BY <1>1, <1>2, <1>3, <2>3 DEF HoldsInOrder, AnswerFollowsWrites
  <2>5. QED
    BY <1>1, <1>7, <2>1, <2>3, <2>4, BegunKeeps
<1>8. QED
  BY <1>1, <1>5, <1>6, <1>7

\* The records a batch keeps: the first of each key, none indexed in its snapshot.
LEMMA KeptOnce ==
    ASSUME NEW r, r.req.keys \in Seq(Nat), r.seen \subseteq VertexRows
    PROVE  /\ Kept(r) \subseteq DOMAIN r.req.keys
           /\ IsFiniteSet(Kept(r))
           /\ \A i, j \in Kept(r) : r.req.keys[i] # 0 /\ r.req.keys[i] = r.req.keys[j] => i = j
           /\ \A i \in Kept(r) : r.req.keys[i] # 0 =>
                 \A w \in r.seen : ~(w.graph = r.req.graph /\ w.label = r.req.label /\ w.key = r.req.keys[i] /\ w.entry)
<1> DEFINE ks == r.req.keys
<1>1. DOMAIN ks = 1..Len(ks) /\ Len(ks) \in Nat
  OBVIOUS
<1>2. Kept(r) \subseteq DOMAIN ks
  BY DEF Kept
<1>3. IsFiniteSet(Kept(r))
  <2>1. IsFiniteSet(1..Len(ks))
    BY <1>1, FS_Interval, Len(ks) \in Int, 1 \in Int
  <2>2. QED
    BY <1>1, <1>2, <2>1, FS_Subset
<1>4. ASSUME NEW i \in Kept(r), NEW j \in Kept(r), ks[i] # 0, ks[i] = ks[j] PROVE i = j
  <2>1. /\ i \in 1..Len(ks) /\ j \in 1..Len(ks)
        /\ \A k \in 1..(i - 1) : ks[k] # ks[i]
        /\ \A k \in 1..(j - 1) : ks[k] # ks[j]
    BY <1>1, <1>2, <1>4 DEF Kept
  <2>2. ~(i < j) /\ ~(j < i)
    BY <1>1, <1>4, <2>1
  <2>3. QED
    BY <1>1, <2>1, <2>2
<1>5. ASSUME NEW i \in Kept(r), ks[i] # 0
      PROVE  \A w \in r.seen : ~(w.graph = r.req.graph /\ w.label = r.req.label /\ w.key = ks[i] /\ w.entry)
  <2>1. lookupVertexByPrimaryKey(r.seen, r.req.graph, r.req.label, ks[i]) = 0
    BY <1>5 DEF Kept
  <2>2. QED
    BY <2>1, LookupMisses
<1>6. QED
  BY <1>2, <1>3, <1>4, <1>5

LEMMA InsertVerticesKeeps ==
    ASSUME IInv, NEW c \in Calls, batchInsertVertices(c)
    PROVE  IInv'
<1>0. PICK live \in BOOLEAN :
        call' = [call EXCEPT ![c] = [call[c] EXCEPT
                  !.kept = {[vid |-> nextVid + Cardinality({j \in Kept(call[c]) : j < i}), key |-> call[c].req.keys[i],
                             label |-> call[c].req.label, graph |-> call[c].req.graph, entry |-> live, by |-> c]
                              : i \in Kept(call[c])},
                  !.step = "staged"]]
  BY DEF batchInsertVertices, Set
<1> DEFINE r == call[c]
           kept == Kept(r)
           row(i) == [vid |-> nextVid + Cardinality({j \in kept : j < i}), key |-> r.req.keys[i],
                      label |-> r.req.label, graph |-> r.req.graph, entry |-> live, by |-> c]
           staged == {row(i) : i \in kept}
           s == [r EXCEPT !.kept = staged, !.step = "staged"]
<1>1. /\ r.req.op = "vertices" /\ r.step = "batch" /\ nextVid' = nextVid + Cardinality(kept)
      /\ call' = [call EXCEPT ![c] = s] /\ UNCHANGED <<graph, durable, vertices, edges>>
  BY <1>0 DEF batchInsertVertices
<1>2. /\ r \in CallStates /\ HoldsInOrder(r) /\ AnswerFollowsWrites(c, r, durable)
      /\ (r.tree => r.session) /\ (r.session => r.lease = r.req.graph /\ r.lease # NoGraph /\ r.req.op # "drop")
      /\ c \notin durable /\ r.seen \subseteq VertexRows /\ nextVid \in Nat \ {0}
  BY <1>1, OneCall DEF Ending, CallStates, IInv, TypeOK
<1>3. r.req \in Requests
  BY <1>1, <1>2 DEF CallStates, NoRequest
<1>4. r.req.keys \in Seq(Nat) /\ r.req.label \in Nat /\ r.req.graph \in Graphs \cup {Default}
  BY <1>1, <1>3, GraphServiceAssumption
<1>5. /\ kept \subseteq DOMAIN r.req.keys /\ IsFiniteSet(kept)
      /\ \A i, j \in kept : r.req.keys[i] # 0 /\ r.req.keys[i] = r.req.keys[j] => i = j
      /\ \A i \in kept : r.req.keys[i] # 0 =>
            \A w \in r.seen : ~(w.graph = r.req.graph /\ w.label = r.req.label /\ w.key = r.req.keys[i] /\ w.entry)
  BY <1>2, <1>4, KeptOnce
<1> HIDE DEF kept
<1>6. \A i \in kept : r.req.keys[i] \in Nat
  BY <1>4, <1>5
<1>7. /\ Cardinality(kept) \in Nat
      /\ \A i \in kept : Cardinality({j \in kept : j < i}) \in Nat /\ Cardinality({j \in kept : j < i}) < Cardinality(kept)
  <2>1. Cardinality(kept) \in Nat
    BY <1>5, FS_CardinalityType
  <2>2. ASSUME NEW i \in kept
        PROVE  /\ Cardinality({j \in kept : j < i}) \in Nat
               /\ Cardinality({j \in kept : j < i}) < Cardinality(kept)
    <3> DEFINE before == {j \in kept : j < i}
    <3>1. i \in Nat
      BY <1>4, <1>5
    <3>2. before \subseteq kept /\ i \notin before
      BY <3>1
    <3>3. before # kept
      BY <3>2
    <3> HIDE DEF before
    <3>4. IsFiniteSet(before)
      BY <1>5, <3>2, FS_Subset
    <3>5. Cardinality(before) =< Cardinality(kept) /\ (Cardinality(before) = Cardinality(kept) => before = kept)
      BY <1>5, <3>2, FS_Subset
    <3>6. Cardinality(before) \in Nat
      BY <3>4, FS_CardinalityType
    <3>7. Cardinality(before) < Cardinality(kept)
      BY <2>1, <3>3, <3>5, <3>6
    <3>8. QED
      BY <3>6, <3>7 DEF before
  <2>3. QED
    BY <2>1, <2>2
<1>8. ASSUME NEW i \in kept
      PROVE  /\ row(i) \in VertexRows /\ row(i).by = c /\ row(i).key = r.req.keys[i]
             /\ row(i).label = r.req.label /\ row(i).graph = r.req.graph
             /\ row(i).vid >= nextVid /\ row(i).vid < nextVid'
  <2>1. /\ nextVid + Cardinality({j \in kept : j < i}) \in Nat \ {0}
        /\ nextVid + Cardinality({j \in kept : j < i}) >= nextVid
        /\ nextVid + Cardinality({j \in kept : j < i}) < nextVid'
    BY <1>1, <1>2, <1>7
  <2>2. QED
    BY <1>4, <1>6, <2>1 DEF VertexRows
<1>9. ASSUME NEW v \in staged
      PROVE  /\ v \in VertexRows /\ v.by = c /\ v.vid < nextVid'
             /\ \A w \in r.seen : w.vid < v.vid /\ (SameKey(v, w) => ~w.entry)
             /\ \A w \in staged : v # w => ~SameKey(v, w)
  <2>1. PICK i \in kept : v = row(i)
    OBVIOUS
  <2>2. ASSUME NEW w \in r.seen PROVE w.vid < v.vid /\ (SameKey(v, w) => ~w.entry)
    <3>1. SameKey(v, w) => ~w.entry
      BY <1>5, <1>8, <2>1 DEF SameKey
    <3>2. w.vid < nextVid /\ w.vid \in Nat
      BY <1>1, <1>2 DEF IInv, VidsBelow, Importing, VertexRows
    <3>3. v.vid >= nextVid /\ v.vid \in Nat
      BY <1>8, <2>1 DEF VertexRows
    <3>4. QED
      BY <1>2, <3>1, <3>2, <3>3
  <2>3. ASSUME NEW w \in staged, v # w PROVE ~SameKey(v, w)
    <3>1. PICK j \in kept : w = row(j)
      OBVIOUS
    <3>2. i # j
      BY <2>1, <2>3, <3>1
    <3>3. v.key = r.req.keys[i] /\ w.key = r.req.keys[j]
      BY <1>8, <2>1, <3>1
    <3>4. QED
      BY <1>5, <3>2, <3>3 DEF SameKey
  <2>4. QED
    BY <1>8, <2>1, <2>2, <2>3
<1>10. staged \subseteq VertexRows
  BY <1>9
<1> HIDE DEF staged
<1>11. /\ s \in CallStates /\ s.step = "staged" /\ s.lease = r.lease /\ s.req = r.req /\ s.session = r.session
       /\ s.tree = r.tree /\ s.res = r.res /\ s.threw = r.threw /\ s.met = r.met /\ s.seen = r.seen
       /\ s.kept = staged
  BY <1>2, <1>10 DEF CallStates, Steps
<1> HIDE DEF s
<1>12. HoldsInOrder(s) /\ AnswerFollowsWrites(c, s, durable') /\ Importing(r)
  BY <1>1, <1>2, <1>11 DEF HoldsInOrder, AnswerFollowsWrites, Importing
<1>13. StagedOnce(c, s) /\ \A v \in s.kept : v.vid < nextVid'
  BY <1>9, <1>11 DEF StagedOnce
<1>14. LeaseKeeps' /\ graph' \in [Graphs -> {"open", "closing", "leaked", "removed"}]
  BY <1>1, <1>11, LeaseStep
<1>15. nextVid' \in Nat \ {0} /\ nextVid' >= nextVid /\ edges' \subseteq EdgeRows
  BY <1>1, <1>2, <1>7 DEF IInv, TypeOK
<1>16. QED
  BY <1>1, <1>11, <1>12, <1>13, <1>14, <1>15, StepKeeps

LEMMA InsertEdgesKeeps ==
    ASSUME IInv, NEW c \in Calls, batchInsertEdges(c)
    PROVE  IInv'
<1> DEFINE r == call[c]
           src == resolve_endpoint(r.seen, r.req.graph, r.req.src[1], r.req.src[2])
           dst == resolve_endpoint(r.seen, r.req.graph, r.req.dst[1], r.req.dst[2])
           kept == {[src |-> src, dst |-> dst, by |-> c]}
           s == [r EXCEPT !.kept = kept, !.step = "staged"]
<1>1. /\ r.req.op = "edges" /\ r.step = "batch" /\ UNCHANGED <<graph, durable, vertices, edges, nextVid>>
      /\ \/ call' = [call EXCEPT ![c] = End(r, "skipped")]
         \/ call' = [call EXCEPT ![c] = s]
  BY DEF batchInsertEdges, Set
<1>2. /\ r \in CallStates /\ HoldsInOrder(r) /\ AnswerFollowsWrites(c, r, durable)
      /\ (r.tree => r.session) /\ (r.session => r.lease = r.req.graph /\ r.lease # NoGraph /\ r.req.op # "drop")
      /\ c \notin durable /\ r.seen \subseteq VertexRows
  BY <1>1, OneCall DEF Ending, CallStates
<1>3. src \in Nat /\ dst \in Nat
  BY <1>2, EndpointTyped
<1> HIDE DEF src, dst
<1>4. kept \subseteq EdgeRows
  BY <1>3 DEF EdgeRows
<1> HIDE DEF kept
<1>5. CASE call' = [call EXCEPT ![c] = End(r, "skipped")]
  BY <1>1, <1>2, <1>5, EndKeeps DEF Results
<1>6. CASE call' = [call EXCEPT ![c] = s]
  <2>1. /\ s \in CallStates /\ s.step = "staged" /\ s.lease = r.lease /\ s.req = r.req /\ s.session = r.session
        /\ s.tree = r.tree /\ s.res = r.res /\ s.threw = r.threw /\ s.met = r.met /\ s.kept = kept
    BY <1>2, <1>4 DEF CallStates, Steps
  <2> HIDE DEF s
  <2>2. HoldsInOrder(s) /\ AnswerFollowsWrites(c, s, durable') /\ ~Importing(s)
    BY <1>1, <1>2, <1>4, <2>1 DEF HoldsInOrder, AnswerFollowsWrites, Importing
  <2>3. QED
    BY <1>1, <1>6, <2>1, <2>2, MoveKeeps
<1>7. QED
  BY <1>1, <1>5, <1>6

\* A vertex batch that commits adds what it has staged: every running import
\* has met it, and a key it repeats is of a batch it has met.
LEMMA PublishKeeps ==
    ASSUME IInv, NEW c \in Calls, NEW s \in CallStates,
           Importing(call[c]), call[c].step = "staged",
           call' = [call EXCEPT ![c] = s],
           HoldsInOrder(s), AnswerFollowsWrites(c, s, durable'), ~Importing(s),
           s.met = call[c].met, s.lease = call[c].lease, c \notin durable,
           durable' = durable \cup {c}, vertices' = vertices \cup call[c].kept,
           UNCHANGED <<graph, edges, nextVid>>
    PROVE  IInv'
<1>1. /\ TypeOK /\ call \in [Calls -> CallStates] /\ vertices \subseteq VertexRows
      /\ ImportInv /\ DuplicatesOverlap /\ durable \subseteq Calls
  BY DEF IInv, TypeOK
<1>2. call'[c] = s /\ \A d \in Calls : d # c => call'[d] = call[d]
  BY <1>1
<1>3. \A d \in Calls : call'[d].met = call[d].met
  BY <1>2
<1>4. /\ call[c].kept \subseteq VertexRows
      /\ \A v \in call[c].kept : /\ v.by = c
                                 /\ \A w \in call[c].seen : w.vid < v.vid /\ (SameKey(v, w) => ~w.entry)
      /\ \A v, w \in call[c].kept : v # w => ~SameKey(v, w)
  BY <1>1 DEF ImportInv, StagedOnce
<1>5. LeaseKeeps' /\ graph' \in [Graphs -> {"open", "closing", "leaked", "removed"}]
  BY LeaseStep
<1>6. TypeOK'
  BY <1>1, <1>4, <1>5 DEF TypeOK
<1>7. \A d \in Calls : HoldsInOrder(call'[d]) /\ AnswerFollowsWrites(d, call'[d], durable')
  BY <1>2, OthersKeep
<1>8. \A v \in vertices : v.by \in Calls /\ v.by \in durable /\ v.by # c
  BY <1>1 DEF ImportInv
<1>9. ImportInv'
  <2>1. \A v \in vertices' : v.by \in durable'
    BY <1>4, <1>8
  <2>2. \A d \in Calls : Importing(call'[d]) => d # c /\ call'[d] = call[d] /\ Importing(call[d])
    BY <1>2
  <2>3. \A d, e \in Calls : d # e /\ Importing(call'[d]) /\ Importing(call'[e]) => e \in call'[d].met
    BY <1>1, <2>2 DEF ImportInv
  <2>4. ASSUME NEW d \in Calls, Importing(call'[d]), NEW v \in vertices'
        PROVE  v \in call'[d].seen \/ v.by \in call'[d].met
    <3>1. CASE v \in vertices
      BY <1>1, <2>2, <2>4, <3>1 DEF ImportInv
    <3>2. CASE v \in call[c].kept
      BY <1>1, <1>4, <2>2, <2>4, <3>2 DEF ImportInv
    <3>3. QED
      BY <3>1, <3>2
  <2>5. \A d \in Calls : Importing(call'[d]) /\ call'[d].step = "staged" => StagedOnce(d, call'[d])
    BY <1>1, <2>2 DEF ImportInv
  <2>6. QED
    BY <2>1, <2>3, <2>4, <2>5 DEF ImportInv
<1>10. DuplicatesOverlap'
  <2>1. SUFFICES ASSUME NEW v \in vertices', NEW w \in vertices', v # w, SameKey(v, w)
                 PROVE  /\ v.by # w.by
                        /\ \/ v.by \in call[w.by].met \/ w.by \in call[v.by].met
                           \/ v.vid < w.vid /\ ~v.entry
                           \/ w.vid < v.vid /\ ~w.entry
    <3>1. \A v \in vertices' : v.by \in Calls
      BY <1>4, <1>8
    <3>2. QED
      BY <1>3, <2>1, <3>1 DEF DuplicatesOverlap, SameKey
  <2>2. SameKey(w, v)
    BY <2>1 DEF SameKey
  <2>3. CASE v \in vertices /\ w \in vertices
    BY <1>1, <2>1, <2>3 DEF DuplicatesOverlap, SameKey
  <2>4. CASE v \in vertices /\ w \in call[c].kept
    <3>1. CASE v \in call[c].seen
      BY <1>4, <1>8, <2>2, <2>4, <3>1
    <3>2. CASE v.by \in call[c].met
      BY <1>4, <1>8, <2>4, <3>2
    <3>3. QED
      BY <1>1, <2>4, <3>1, <3>2 DEF ImportInv
  <2>5. CASE v \in call[c].kept /\ w \in vertices
    <3>1. CASE w \in call[c].seen
      BY <1>4, <1>8, <2>1, <2>5, <3>1
    <3>2. CASE w.by \in call[c].met
      BY <1>4, <1>8, <2>5, <3>2
    <3>3. QED
      BY <1>1, <2>5, <3>1, <3>2 DEF ImportInv
  <2>6. CASE v \in call[c].kept /\ w \in call[c].kept
    BY <1>4, <2>1, <2>6
  <2>7. QED
    BY <2>3, <2>4, <2>5, <2>6
<1>11. VidsBelow'
  <2>1. VidsBelow
    BY DEF IInv
  <2>2. \A d \in Calls : Importing(call'[d]) => call'[d] = call[d]
    BY <1>2
  <2>3. \A v \in vertices' : v.vid < nextVid'
    BY <2>1 DEF VidsBelow
  <2>4. QED
    BY <2>1, <2>2, <2>3 DEF VidsBelow
<1>12. QED
  BY <1>5, <1>6, <1>7, <1>9, <1>10, <1>11 DEF IInv

LEMMA CommitBatchKeeps ==
    ASSUME IInv, NEW c \in Calls, CommitBatch(c)
    PROVE  IInv'
<1> DEFINE r == call[c]
           s == End(r, "ok")
<1>1. /\ r.step = "staged" /\ UNCHANGED <<graph, nextVid>>
      /\ \/ /\ call' = [call EXCEPT ![c] = s] /\ durable' = durable \cup {c}
            /\ vertices' = IF r.req.op = "vertices" THEN vertices \cup r.kept ELSE vertices
            /\ edges' = IF r.req.op = "edges" THEN edges \cup r.kept ELSE edges
         \/ call' = [call EXCEPT ![c] = End(r, "error")] /\ UNCHANGED <<durable, vertices, edges>>
  BY DEF CommitBatch, Set
<1>2. /\ r \in CallStates /\ HoldsInOrder(r) /\ AnswerFollowsWrites(c, r, durable)
      /\ (r.tree => r.session) /\ (r.session => r.lease = r.req.graph /\ r.lease # NoGraph /\ r.req.op # "drop")
      /\ c \notin durable /\ ~r.threw
  BY <1>1, OneCall DEF Ending, AnswerFollowsWrites
<1>3. CASE call' = [call EXCEPT ![c] = End(r, "error")] /\ UNCHANGED <<durable, vertices, edges>>
  BY <1>1, <1>2, <1>3, EndKeeps DEF Results
<1>4. CASE /\ call' = [call EXCEPT ![c] = s] /\ durable' = durable \cup {c}
           /\ vertices' = IF r.req.op = "vertices" THEN vertices \cup r.kept ELSE vertices
           /\ edges' = IF r.req.op = "edges" THEN edges \cup r.kept ELSE edges
  <2>1. /\ s \in CallStates /\ s.met = r.met /\ s.lease = r.lease
        /\ HoldsInOrder(s) /\ AnswerFollowsWrites(c, s, durable') /\ ~Importing(s)
    BY <1>2, <1>4, EndFacts DEF Results
  <2> HIDE DEF s
  <2>2. CASE r.req.op = "vertices"
    <3>1. Importing(r)
      BY <1>1, <2>2 DEF Importing
    <3>2. vertices' = vertices \cup r.kept /\ edges' = edges
      BY <1>4, <2>2
    <3>3. QED
      BY <1>1, <1>2, <1>4, <2>1, <3>1, <3>2, PublishKeeps
  <2>3. CASE r.req.op = "edges"
    <3>1. r.kept \subseteq EdgeRows /\ vertices' = vertices /\ edges' = edges \cup r.kept
      BY <1>1, <1>2, <1>4, <2>3 DEF HoldsInOrder
    <3>2. nextVid' \in Nat \ {0} /\ nextVid' >= nextVid /\ edges' \subseteq EdgeRows
      BY <1>1, <3>1 DEF IInv, TypeOK
    <3>3. LeaseKeeps' /\ graph' \in [Graphs -> {"open", "closing", "leaked", "removed"}]
      BY <1>1, <1>4, <2>1, LeaseStep
    <3>4. QED
      BY <1>1, <1>4, <2>1, <3>1, <3>2, <3>3, StepKeeps
  <2>4. CASE r.req.op \notin {"vertices", "edges"}
    <3>1. vertices' = vertices /\ edges' = edges
      BY <1>4, <2>4
    <3>2. QED
      BY <1>1, <1>4, <2>1, <3>1, MoveKeeps
  <2>5. QED
    BY <2>2, <2>3, <2>4
<1>5. QED
  BY <1>1, <1>3, <1>4

-----------------------------------------------------------------------------
(* The theorems *)

LEMMA Inductive == IInv /\ [Next]_vars => IInv'
<1> SUFFICES ASSUME IInv, [Next]_vars PROVE IInv'
  OBVIOUS
<1>1. CASE UNCHANGED vars
  BY <1>1 DEF vars, IInv, TypeOK, LeaseKeeps, VidsBelow, ImportInv, DuplicatesOverlap
<1>2. ASSUME NEW c \in Calls, Query(c) PROVE IInv'
  BY <1>2, ExecuteKeeps, PrepareKeeps, PrefetchKeeps, CommitStreamKeeps DEF Query
<1>3. ASSUME NEW c \in Calls, Teardown(c) PROVE IInv'
  BY <1>3, DestroyTreeKeeps, ReturnSessionKeeps, ReleaseLeaseKeeps DEF Teardown
<1>4. ASSUME NEW c \in Calls, Drop(c) PROVE IInv'
  BY <1>4, ResolveKeeps, DropGraphKeeps, DrainedKeeps DEF Drop
<1>5. ASSUME NEW c \in Calls, Batch(c) PROVE IInv'
  BY <1>5, BatchBeginKeeps, InsertVerticesKeeps, InsertEdgesKeeps, CommitBatchKeeps DEF Batch
<1>6. ASSUME NEW c \in Calls, Client(c) PROVE IInv'
  BY <1>6, PullFirstKeeps, PullNextKeeps, PullSummaryKeeps, CancelKeeps, ReceiveKeeps DEF Client
<1>7. QED
  BY <1>1, <1>2, <1>3, <1>4, <1>5, <1>6 DEF Next

\* IInv holds in every state the service reaches.
THEOREM Invariance == Spec => []IInv
BY Initial, Inductive, PTL DEF Spec

\* Every call record, row and counter of the service has its type.
THEOREM TypeCorrect == Spec => []TypeOK
<1>1. IInv => TypeOK
  BY DEF IInv
<1>2. QED
  BY <1>1, Invariance, PTL

\* dropGraph closes a graph's connection and removes its directory only when no
\* statement has a session on it or cursors in it: a session is taken under a
\* lease on the same graph and given back before it, and waitDrained lets the
\* drop go on only when the leases are gone.
THEOREM DropSafety == Spec => []RemovedIsUnused
<1>1. IInv => RemovedIsUnused
  <2> SUFFICES ASSUME IInv, NEW c \in Calls
               PROVE  /\ call[c].session /\ call[c].req.graph # Default => graph[call[c].req.graph] # "removed"
                      /\ call[c].tree => call[c].session
    BY DEF RemovedIsUnused
  <2>1. /\ HoldsInOrder(call[c]) /\ call[c] \in CallStates /\ LeaseKeeps
    BY DEF IInv, TypeOK
  <2>2. call[c].tree => call[c].session
    BY <2>1 DEF HoldsInOrder
  <2>3. ASSUME call[c].session, call[c].req.graph # Default PROVE graph[call[c].req.graph] # "removed"
    <3>1. /\ call[c].lease = call[c].req.graph /\ call[c].lease # NoGraph
          /\ call[c].lease \in Graphs \cup {Default, NoGraph}
      BY <2>1, <2>3 DEF HoldsInOrder, CallStates
    <3>2. QED
      BY <2>1, <2>3, <3>1 DEF LeaseKeeps
  <2>4. QED
    BY <2>2, <2>3
<1>2. QED
  BY <1>1, Invariance, PTL

\* The answer of a statement agrees with its transaction: "ok" only after
\* commitAsync, and no error or abandoned stream after it, whichever batch of
\* the stream raised it, the prefetched one included.
THEOREM StreamHonesty == Spec => []StreamTellsTheTruth
<1>1. IInv => StreamTellsTheTruth
  BY DEF IInv, AnswerFollowsWrites, StreamTellsTheTruth
<1>2. QED
  BY <1>1, Invariance, PTL

\* batchInsertVertices looks keys up in the index entries of its snapshot and in
\* the batch itself, so one primary key gets two vertices only from two batches
\* that overlapped, or after a batch that wrote no entries because the index was
\* in state ERROR, which findPrimaryIndexId does not look at.
THEOREM DuplicateOrigin == Spec => []DuplicatesOverlap
<1>1. IInv => DuplicatesOverlap
  BY DEF IInv
<1>2. QED
  BY <1>1, Invariance, PTL
=============================================================================
