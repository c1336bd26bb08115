------------------------- MODULE EventRuntimeProofs -------------------------
(***************************************************************************)
(* Proofs about EventRuntime, for every cluster, every trace and every     *)
(* policy that keeps the contract of policies.py:6-8; then that it         *)
(* implements AdmissionQueue: the safety part of ImplementsQueue, step by  *)
(* step, from the inductive invariant of the loop and the accounts of its  *)
(* nodes; and last, in the queue's phases, how many steps a run can take.  *)
(* That what can start does start is checked, not proved.                  *)
(***************************************************************************)
EXTENDS EventRuntimeRefinement, Lemmas

-----------------------------------------------------------------------------
(* The trace.                                                              *)

\* A trace is a sequence of timed pods, sorted; so pods are numbered 1, 2, ..
\* in order of submission.
LEMMA TraceFacts ==
  ASSUME trace \in Traces
  PROVE  /\ Len(trace) \in Nat /\ Pods = 1 .. Len(trace)
         /\ \A i \in Pods :
              /\ Pod(i) \in PodResource /\ SubmitTime(i) \in Nat
              /\ trace[i].duration \in Nat
         /\ \A i, j \in Pods : i < j => SubmitTime(i) <= SubmitTime(j)
<1>1. trace \in Seq(TimedPodEvent) /\ Sorted(trace)
  BY TracesAssumption
<1>2. Len(trace) \in Nat /\ Pods = 1 .. Len(trace)
  BY <1>1 DEF Pods
<1>3. \A i \in Pods : trace[i] \in TimedPodEvent
  BY <1>1, <1>2
<1> QED
  BY <1>1, <1>2, <1>3 DEF TimedPodEvent, Sorted, Pod, SubmitTime, Pods

\* What kind says about an entry of the heap.
LEMMA HeapKinds ==
  ASSUME TypeOK, NEW e \in heap
  PROVE  /\ e.ev \in Pods /\ e.time \in Nat /\ e.seq \in Int
         /\ e.kind = "arrival" => e = Arrival(e.ev)
         /\ e.kind = "release" => e.node \in Nodes
         /\ e.kind \in {"arrival", "release"}
<1>1. trace \in Traces /\ e \in HeapEntry
  BY DEF TypeOK
<1>2. CASE \E i \in Pods : e = Arrival(i)
  BY <1>1, <1>2, TraceFacts DEF Arrival
<1>3. CASE e \in [time : Nat, seq : Nat, kind : {"release"}, ev : Pods, node : Nodes]
  BY <1>3
<1> QED
  BY <1>1, <1>2, <1>3 DEF HeapEntry

\* Placing a pod keeps the types, and leaves no pod more nodes than it had.
LEMMA PlaceFacts ==
  ASSUME TypeOK, UNCHANGED config, NEW i \in Pods, NEW n \in Nodes, NEW t \in Nat,
         SubmitTime(i) <= t, Place(i, n, t)
  PROVE  /\ remaining' \in [Nodes -> Remaining]
         /\ allocated' \in [Nodes -> SUBSET Pods]
         /\ outcomes' \in [Pods -> Outcome]
         /\ \A j \in Pods : Feasible(j)' \subseteq Feasible(j)
         /\ outcomes'[i] = PlacedAt(i, n, t) /\ Admitted(i)'
         /\ \A j \in Pods : j # i => outcomes'[j] = outcomes[j] /\ (Admitted(j)' <=> Admitted(j))
<1>1. /\ trace \in Traces /\ remaining \in [Nodes -> Remaining]
      /\ allocated \in [Nodes -> SUBSET Pods] /\ outcomes \in [Pods -> Outcome]
      /\ trace' = trace
  BY DEF TypeOK, config
<1>2. Pod(i) \in PodResource /\ SubmitTime(i) \in Nat /\ trace[i].duration \in Nat
  BY <1>1, TraceFacts
<1>3. remaining' = [remaining EXCEPT ![n] = Take(remaining[n], Pod(i))]
  BY DEF Place
<1>4. remaining' \in [Nodes -> Remaining]
  BY <1>1, <1>2, <1>3, TakeType
<1>5. allocated' \in [Nodes -> SUBSET Pods]
  BY <1>1 DEF Place
<1>6. PlacedAt(i, n, t) \in Outcome
  BY <1>2 DEF PlacedAt, Outcome
<1>7. outcomes' \in [Pods -> Outcome]
  BY <1>1, <1>6 DEF Place
<1>8. ASSUME NEW j \in Pods, NEW m \in Feasible(j)'
      PROVE  m \in Feasible(j)
  <2>1. m \in Nodes /\ FitsIn(Pod(j), NodeOf[m], remaining'[m])
    BY <1>1, <1>8 DEF Feasible, Pod
  <2>2. Pod(j) \in PodResource
    BY <1>1, TraceFacts
  <2>3. FitsIn(Pod(j), NodeOf[m], remaining[m])
    BY <1>1, <1>2, <1>3, <2>1, <2>2, PlacingOnlyConsumes
  <2> QED
    BY <2>1, <2>3 DEF Feasible
<1>9. outcomes'[i] = PlacedAt(i, n, t) /\ \A j \in Pods : j # i => outcomes'[j] = outcomes[j]
  BY <1>1 DEF Place
<1> QED
  BY <1>4, <1>5, <1>7, <1>8, <1>9 DEF Admitted, PlacedAt

\* As the clock moves on, who waits keeps having been submitted.
LEMMA QueueIsPast ==
  ASSUME TypeOK, Timely, NEW t \in Nat, now <= t
  PROVE  /\ \A k \in DOMAIN pending : SubmitTime(pending[k]) <= t
         /\ \A k \in DOMAIN kept : SubmitTime(kept[k]) <= t
<1>1. trace \in Traces /\ now \in Nat /\ pending \in Seq(Pods) /\ kept \in Seq(Pods)
  BY DEF TypeOK
<1>2. \A j \in Pods : SubmitTime(j) \in Nat
  BY <1>1, TraceFacts
<1>3. ASSUME NEW k \in DOMAIN pending PROVE SubmitTime(pending[k]) <= t
  <2>1. pending[k] \in Pods
    BY <1>1
  <2>2. SubmitTime(pending[k]) \in Nat /\ SubmitTime(pending[k]) <= now
    BY <1>2, <2>1 DEF Timely
  <2> QED
    BY <1>1, <2>2
<1>4. ASSUME NEW k \in DOMAIN kept PROVE SubmitTime(kept[k]) <= t
  <2>1. kept[k] \in Pods
    BY <1>1
  <2>2. SubmitTime(kept[k]) \in Nat /\ SubmitTime(kept[k]) <= now
    BY <1>2, <2>1 DEF Timely
  <2> QED
    BY <1>1, <2>2
<1> QED
  BY <1>3, <1>4

-----------------------------------------------------------------------------
(* The initial states.                                                     *)

\* When run() has filled the heap with the arrivals, nobody waits and no node
\* is in use, and the invariant holds (event_runtime.py:146-158).
LEMMA InitInv == Init => IndInv
<1> SUFFICES ASSUME Init PROVE IndInv
  OBVIOUS
<1>1. /\ trace \in Traces /\ max_queue_time \in MaxQueueTimes
      /\ heap = {Arrival(i) : i \in Pods} /\ now = 0 /\ seq = Len(trace)
      /\ pending = <<>> /\ kept = <<>> /\ scan = 1 /\ pc = "loop"
      /\ allocated = [n \in Nodes |-> {}]
      /\ outcomes = [i \in Pods |-> Unplaced]
  BY DEF Init
<1>2. /\ Len(trace) \in Nat /\ \A i \in Pods : SubmitTime(i) \in Nat /\ Pods = 1 .. Len(trace)
  BY <1>1, TraceFacts
<1>3. \A i \in Pods : ~Admitted(i) /\ ~Waiting(i) /\ ~Arrived(i)
  BY <1>1 DEF Admitted, Unplaced, Waiting, Arrived
<1>4. \A e \in heap : e.kind = "arrival" /\ e.time \in Nat
  BY <1>1, <1>2 DEF Arrival
<1>5. TypeOK
  <2>1. remaining \in [Nodes -> Remaining]
    BY NodesAssumption, EmptyType DEF Init
  <2>2. heap \subseteq HeapEntry
    BY <1>1 DEF HeapEntry
  <2>3. outcomes \in [Pods -> Outcome]
    BY <1>1 DEF Outcome
  <2> QED
    BY <1>1, <1>2, <2>1, <2>2, <2>3 DEF TypeOK
<1>6. Timely
  BY <1>1, <1>2, <1>4 DEF Timely
<1>12. ReleasesNumberedLast
  BY <1>1, <1>2, <1>4 DEF ReleasesNumberedLast
<1>7. QueueUnfit /\ QueueInOrder
  BY <1>1 DEF QueueUnfit, WorkConserving, QueueInOrder, Increasing
<1>8. ArrivalsInOrder
  BY <1>1, <1>2, <1>3 DEF ArrivalsInOrder
<1>9. ArrivalsFirst /\ DrainOccasion
  BY <1>1 DEF ArrivalsFirst, DrainOccasion
<1>10. WaitBounded /\ Accounted /\ PassedIsGone /\ StartsOnOccasion
  BY <1>3 DEF WaitBounded, Accounted, PassedIsGone, StartsOnOccasion
<1>11. ReleasesMatchHoldings
  BY <1>1, <1>4 DEF ReleasesMatchHoldings
<1> QED
  BY <1>5, <1>6, <1>7, <1>8, <1>9, <1>10, <1>11, <1>12 DEF IndInv

-----------------------------------------------------------------------------
(* Arrivals.                                                               *)

\* Popping the arrival e of a pod: the clock moves on, every earlier pod has
\* arrived, this one is new, and nothing else arrives.
LEMMA ArrivalFacts ==
  ASSUME IndInv, UNCHANGED config, NEW e \in heap, IsNext(e), e.kind = "arrival",
         heap \ {e} \subseteq heap', e \notin heap',
         \A f \in heap' : f \in heap \/ f.kind = "release"
  PROVE  /\ e.ev \in Pods /\ e = Arrival(e.ev) /\ e.time = SubmitTime(e.ev)
         /\ e.time \in Nat /\ now <= e.time
         /\ \A f \in heap : e.time <= f.time
         /\ ~Arrived(e.ev) /\ ~Admitted(e.ev) /\ ~Waiting(e.ev)
         /\ \A j \in Pods : Arrived(j)' <=> Arrived(j) \/ j = e.ev
         /\ \A j \in Pods : j < e.ev \/ SubmitTime(j) < e.time => Arrived(j)
<1>1. TypeOK /\ Timely /\ ArrivalsInOrder /\ trace' = trace /\ trace \in Traces
  BY DEF IndInv, TypeOK, config
<1>2. e.ev \in Pods /\ e = Arrival(e.ev) /\ e.time \in Nat
  BY <1>1, HeapKinds
<1>3. /\ Pods = 1 .. Len(trace) /\ Len(trace) \in Nat
      /\ \A j \in Pods : SubmitTime(j) \in Nat
      /\ \A i, j \in Pods : i < j => SubmitTime(i) <= SubmitTime(j)
  BY <1>1, TraceFacts
<1>4. e.time = SubmitTime(e.ev)
  BY <1>2 DEF Arrival
<1>5. now \in Nat /\ now <= e.time
  BY <1>1, <1>2 DEF Timely, TypeOK
<1>6. \A f \in heap : e.time <= f.time
  BY <1>1, <1>2, HeapKinds DEF IsNext, ComesBefore
<1>7. ~Arrived(e.ev) /\ ~Admitted(e.ev) /\ ~Waiting(e.ev)
  BY <1>1, <1>2 DEF Arrived, ArrivalsInOrder
<1>8. ASSUME NEW j \in Pods PROVE Arrived(j)' <=> Arrived(j) \/ j = e.ev
  <2>1. Arrival(j)' = Arrival(j) /\ Arrival(j).ev = j /\ Arrival(j).kind = "arrival"
    BY <1>1 DEF Arrival, SubmitTime
  <2> QED
    BY <1>2, <2>1 DEF Arrived
<1>9. ASSUME NEW j \in Pods, j < e.ev \/ SubmitTime(j) < e.time
      PROVE  Arrived(j)
  <2> SUFFICES ASSUME Arrival(j) \in heap PROVE FALSE
    BY DEF Arrived
  <2>1. ComesBefore(e, Arrival(j))
    BY DEF IsNext
  <2>2. e.time < SubmitTime(j) \/ (e.time = SubmitTime(j) /\ e.ev - 1 <= j - 1)
    BY <1>2, <2>1 DEF ComesBefore, Arrival
  <2> QED
    BY <1>2, <1>3, <1>4, <1>9, <2>2
<1> QED
  BY <1>2, <1>4, <1>5, <1>6, <1>7, <1>8, <1>9

-----------------------------------------------------------------------------
(* Holdings and releases.                                                  *)

\* A pod that was never placed is on no node and has no release.
LEMMA HeldIsAdmitted ==
  ASSUME TypeOK, ReleasesMatchHoldings, NEW i \in Pods, ~Admitted(i)
  PROVE  /\ \A m \in Nodes : i \notin allocated[m]
         /\ \A f \in heap : f.kind = "release" => f.ev # i
<1>1. outcomes[i] = Unplaced
  BY DEF TypeOK, Outcome, Admitted
<1>2. \A f \in heap : f.kind = "release" => f.ev # i
  BY <1>1, HeapKinds, NoneAssumption DEF ReleasesMatchHoldings, Unplaced
<1> QED
  BY <1>2 DEF ReleasesMatchHoldings

\* A placement on a heap that loses at most an arrival keeps the nodes'
\* holdings and the heap's releases in step.
LEMMA PlaceKeepsReleases ==
  ASSUME TypeOK, ReleasesMatchHoldings, UNCHANGED config,
         NEW i \in Pods, ~Admitted(i), NEW n \in Nodes, NEW t \in Nat, SubmitTime(i) <= t,
         NEW s, Place(i, n, t), CompletionAt(i, n, t, s) \in heap',
         \A f \in heap : f.kind = "release" => f \in heap',
         \A f \in heap' : f \in heap \/ f = CompletionAt(i, n, t, s),
         now' \in Nat, now' <= t, \A f \in heap : f.kind = "release" => f.time >= now'
  PROVE  ReleasesMatchHoldings'
<1> DEFINE new == CompletionAt(i, n, t, s)
<1>1. /\ trace \in Traces /\ allocated \in [Nodes -> SUBSET Pods]
      /\ outcomes \in [Pods -> Outcome] /\ trace' = trace
  BY DEF TypeOK, config
<1>2. trace[i].duration \in Nat
  BY <1>1, TraceFacts
<1>3. /\ new.kind = "release" /\ new.ev = i /\ new.node = n
      /\ new.time = t + trace[i].duration
  BY DEF CompletionAt, Release
<1>4. /\ \A m \in Nodes : i \notin allocated[m]
      /\ \A f \in heap : f.kind = "release" => f.ev # i
  BY HeldIsAdmitted
<1>5. /\ outcomes'[i] = PlacedAt(i, n, t)
      /\ \A j \in Pods : j # i => outcomes'[j] = outcomes[j]
  BY <1>1 DEF Place
<1>6. /\ allocated'[n] = allocated[n] \cup {i}
      /\ \A m \in Nodes : m # n => allocated'[m] = allocated[m]
  BY <1>1 DEF Place
<1>7. \A f \in heap : f.kind = "release" => f \in heap' /\ f.ev \in Pods /\ f.node \in Nodes
  BY HeapKinds
<1>8. new \in heap' /\ \A f \in heap' : f = new \/ f \in heap
  OBVIOUS
<1> HIDE DEF new
<1>9. ASSUME NEW m \in Nodes, NEW j \in allocated'[m]
      PROVE  \E f \in heap' : f.kind = "release" /\ f.ev = j /\ f.node = m
  <2>1. CASE j \in allocated[m]
    BY <1>7, <2>1 DEF ReleasesMatchHoldings
  <2>2. CASE j \notin allocated[m]
    BY <1>3, <1>6, <1>8, <1>9, <2>2
  <2> QED
    BY <2>1, <2>2
<1>10. ASSUME NEW f \in heap', f.kind = "release"
       PROVE  /\ f.ev \in allocated'[f.node]
              /\ outcomes'[f.ev].node_id = f.node
              /\ outcomes'[f.ev].completion_time = f.time
              /\ f.time >= now'
              /\ \A g \in heap' : g.kind = "release" /\ g.ev = f.ev => g = f
  <2>1. CASE f = new
    <3>1. f.ev \in allocated'[f.node]
      BY <1>3, <1>6, <2>1
    <3>2. outcomes'[f.ev].node_id = f.node /\ outcomes'[f.ev].completion_time = f.time
      BY <1>3, <1>5, <2>1 DEF PlacedAt
    <3>3. f.time >= now'
      BY <1>2, <1>3, <2>1
    <3> QED
      BY <1>3, <1>4, <1>8, <2>1, <3>1, <3>2, <3>3
  <2>2. CASE f \in heap
    <3>1. f.ev \in Pods /\ f.ev # i /\ f.node \in Nodes
      BY <1>4, <1>7, <1>10, <2>2
    <3>2. /\ f.ev \in allocated[f.node] /\ outcomes[f.ev].node_id = f.node
          /\ outcomes[f.ev].completion_time = f.time
          /\ \A g \in heap : g.kind = "release" /\ g.ev = f.ev => g = f
      BY <1>10, <2>2 DEF ReleasesMatchHoldings
    <3>3. f.ev \in allocated'[f.node]
      BY <1>6, <3>1, <3>2
    <3> QED
      BY <1>3, <1>5, <1>8, <1>10, <2>2, <3>1, <3>2, <3>3
  <2> QED
    BY <1>8, <2>1, <2>2
<1> QED
  BY <1>9, <1>10 DEF ReleasesMatchHoldings

-----------------------------------------------------------------------------
(* Placing a pod, on arrival or from the queue.                            *)

\* What is recorded of the pods stays right when pod p is placed at time t:
\* every earlier pod has arrived, those of them that wait fit nowhere, no
\* larger pod placed so far came later, p is in time, and t is its submission
\* or the completion of another pod.
LEMMA PlaceKeepsRecord ==
  ASSUME IndInv, UNCHANGED config, NEW p \in Pods, ~Admitted(p),
         NEW n \in Nodes, NEW t \in Nat, SubmitTime(p) <= t, Place(p, n, t),
         now <= t, now' = t, ~Expired(p, t),
         \A j \in Pods : Waiting(j)' <=> Waiting(j) /\ j # p,
         \A j \in Pods : Arrived(j)' <=> Arrived(j) \/ j = p,
         \A i \in Pods : i < p => Arrived(i),
         \A i \in Pods : i < p /\ Waiting(i) => Feasible(i) = {},
         \A j \in Pods : p < j /\ Admitted(j) => ~AsksNoLess(Pod(j), Pod(p)),
         \/ t = SubmitTime(p)
         \/ \E j \in Pods : Admitted(j) /\ outcomes[j].completion_time = t
  PROVE  WaitBounded' /\ Accounted' /\ PassedIsGone' /\ StartsOnOccasion'
<1>1. /\ trace \in Traces /\ max_queue_time \in MaxQueueTimes /\ now \in Nat
      /\ remaining \in [Nodes -> Remaining] /\ outcomes \in [Pods -> Outcome]
      /\ trace' = trace /\ max_queue_time' = max_queue_time
  BY DEF IndInv, TypeOK, config
<1>2. /\ Pods = 1 .. Len(trace) /\ Len(trace) \in Nat
      /\ \A j \in Pods : SubmitTime(j) \in Nat /\ Pod(j) \in PodResource
      /\ trace[p].duration \in Nat
  BY <1>1, TraceFacts
<1>3. max_queue_time \in Nat \/ max_queue_time = None
  BY <1>1, MaxQueueTimesAssumption
<1>4. /\ outcomes'[p] = PlacedAt(p, n, t) /\ Admitted(p)'
      /\ \A j \in Pods : j # p => outcomes'[j] = outcomes[j] /\ (Admitted(j)' <=> Admitted(j))
  BY PlaceFacts DEF IndInv
<1>5. Pods' = Pods /\ \A j \in Pods : Pod(j)' = Pod(j) /\ SubmitTime(j)' = SubmitTime(j)
  BY <1>1 DEF Pods, Pod, SubmitTime
<1>6. \A j \in Pods : outcomes[j].admitted => outcomes[j].start_time \in Nat
  <2>1. ASSUME NEW o \in Outcome, o.admitted PROVE o.start_time \in Nat
    <3>1. o # Unplaced
      <4>1. ~Unplaced.admitted
        BY DEF Unplaced
      <4> QED
        BY <2>1, <4>1
    <3> QED
      BY <3>1 DEF Outcome
  <2> QED
    BY <1>1, <2>1
<1>7. WaitBounded'
  <2>1. ASSUME NEW j \in Pods, Admitted(j)'
        PROVE  /\ SubmitTime(j) <= outcomes'[j].start_time /\ outcomes'[j].start_time <= t
               /\ outcomes'[j].start_time = SubmitTime(j) + outcomes'[j].wait_time
               /\ max_queue_time # None => outcomes'[j].wait_time <= max_queue_time
    <3>1. CASE j = p
      BY <1>2, <1>3, <1>4, <3>1 DEF PlacedAt, Expired
    <3>2. CASE j # p
      BY <1>1, <1>2, <1>4, <1>6, <2>1, <3>2 DEF IndInv, WaitBounded, Admitted
    <3> QED
      BY <3>1, <3>2
  <2> QED
    BY <1>1, <1>5, <2>1 DEF WaitBounded, Admitted
<1>8. Accounted'
  <2>1. \A j \in Pods : Waiting(j)' => ~Admitted(j)'
    BY <1>4 DEF IndInv, Accounted
  <2>2. ASSUME NEW j \in Pods, Arrived(j)', ~Admitted(j)', ~Waiting(j)'
        PROVE  Expired(j, t)
    <3>1. Expired(j, now)
      BY <1>4, <2>2 DEF IndInv, Accounted
    <3> QED
      BY <1>1, <1>2, <1>3, <3>1 DEF Expired
  <2>3. \A j \in Pods : Expired(j, now)' <=> Expired(j, t)
    BY <1>1, <1>5 DEF Expired
  <2> QED
    BY <1>5, <2>1, <2>2, <2>3 DEF Accounted
<1>9. PassedIsGone'
  <2>1. ASSUME NEW i \in Pods, NEW j \in Pods, i < j, Admitted(j)', AsksNoLess(Pod(j), Pod(i))
        PROVE  \/ Admitted(i)' /\ outcomes'[i].start_time <= outcomes'[j].start_time
               \/ ~Admitted(i)' /\ ~Waiting(i)' /\ Expired(i, outcomes'[j].start_time)
    <3>1. CASE j = p
      <4>1. Arrived(i) /\ i # p /\ outcomes'[p].start_time = t
        BY <1>2, <1>4, <2>1, <3>1 DEF PlacedAt
      <4>2. CASE Admitted(i)
        BY <1>1, <1>4, <1>6, <3>1, <4>1, <4>2 DEF IndInv, WaitBounded, Admitted
      <4>3. CASE Waiting(i)
        <5>1. Feasible(i) = {}
          BY <2>1, <3>1, <4>3
        <5>2. n \in Feasible(i)
          BY <1>1, <1>2, <2>1, <3>1, RoomForLess DEF Place, Feasible
        <5> QED
          BY <5>1, <5>2
      <4>4. CASE ~Admitted(i) /\ ~Waiting(i)
        <5>1. Expired(i, now)
          BY <4>1, <4>4 DEF IndInv, Accounted
        <5> QED
          BY <1>1, <1>2, <1>3, <1>4, <3>1, <4>1, <4>4, <5>1 DEF Expired
      <4> QED
        BY <4>2, <4>3, <4>4
    <3>2. CASE j # p
      <4>1. Admitted(j) /\ outcomes'[j] = outcomes[j] /\ i # p
        BY <1>4, <2>1, <3>2
      <4> QED
        BY <1>4, <2>1, <4>1 DEF IndInv, PassedIsGone
    <3> QED
      BY <3>1, <3>2
  <2>2. \A i \in Pods : \A u : Expired(i, u)' <=> Expired(i, u)
    BY <1>1, <1>5 DEF Expired
  <2> QED
    BY <1>5, <2>1, <2>2 DEF PassedIsGone, Admitted, Expired
<1>10. StartsOnOccasion'
  <2>1. ASSUME NEW i \in Pods, Admitted(i)'
        PROVE  \/ outcomes'[i].start_time = SubmitTime(i)
               \/ \E j \in Pods \ {i} :
                    Admitted(j)' /\ outcomes'[j].completion_time = outcomes'[i].start_time
    <3>1. CASE i = p
      <4>1. outcomes'[p].start_time = t
        BY <1>4 DEF PlacedAt
      <4> QED
        BY <1>4, <3>1, <4>1
    <3>2. CASE i # p
      <4>1. Admitted(i) /\ outcomes'[i] = outcomes[i]
        BY <1>4, <2>1, <3>2
      <4>2. \A j \in Pods : Admitted(j) => Admitted(j)' /\ outcomes'[j] = outcomes[j]
        BY <1>4
      <4> QED
        BY <4>1, <4>2 DEF IndInv, StartsOnOccasion
    <3> QED
      BY <3>1, <3>2
  <2> QED
    BY <1>5, <2>1 DEF StartsOnOccasion, Admitted
<1> QED
  BY <1>7, <1>8, <1>9, <1>10

-----------------------------------------------------------------------------
(* Steps that place nobody.                                                *)

\* What is recorded of the pods stays right if only pods that just arrived
\* enter the queue, only those that timed out leave it, and no arrival is
\* lost.
LEMMA NothingPlaced ==
  ASSUME IndInv, UNCHANGED config, UNCHANGED outcomes, now' \in Nat, now <= now',
         \A i \in Pods : Waiting(i)' => Waiting(i) \/ ~Arrived(i),
         \A i \in Pods : Waiting(i) => Waiting(i)' \/ Expired(i, now'),
         \A i \in Pods : Arrived(i)' => Arrived(i) \/ Waiting(i)'
  PROVE  WaitBounded' /\ Accounted' /\ PassedIsGone' /\ StartsOnOccasion'
<1>1. /\ trace \in Traces /\ max_queue_time \in MaxQueueTimes /\ now \in Nat
      /\ outcomes \in [Pods -> Outcome]
      /\ trace' = trace /\ max_queue_time' = max_queue_time /\ outcomes' = outcomes
  BY DEF IndInv, TypeOK, config
<1>2. \A j \in Pods : SubmitTime(j) \in Nat
  BY <1>1, TraceFacts
<1>3. max_queue_time \in Nat \/ max_queue_time = None
  BY <1>1, MaxQueueTimesAssumption
<1>4. Pods' = Pods /\ \A j \in Pods : Pod(j)' = Pod(j) /\ SubmitTime(j)' = SubmitTime(j)
  BY <1>1 DEF Pods, Pod, SubmitTime
<1>5. /\ \A j \in Pods : Admitted(j)' <=> Admitted(j)
      /\ \A j \in Pods : \A u : Expired(j, u)' <=> Expired(j, u)
  BY <1>1, <1>4 DEF Admitted, Expired
<1>6. \A j \in Pods : Expired(j, now) => Expired(j, now')
  BY <1>1, <1>2, <1>3 DEF Expired
<1>7. WaitBounded'
  <2>1. ASSUME NEW j \in Pods, Admitted(j)
        PROVE  outcomes[j].start_time \in Nat
    <3>1. outcomes[j] # Unplaced
      <4>1. ~Unplaced.admitted
        BY DEF Unplaced
      <4> QED
        BY <2>1, <4>1 DEF Admitted
    <3> QED
      BY <1>1, <3>1 DEF Outcome
  <2> QED
    BY <1>1, <1>4, <1>5, <2>1 DEF IndInv, WaitBounded
<1>8. Accounted'
  <2>1. ASSUME NEW j \in Pods, Waiting(j)' PROVE ~Admitted(j)'
    BY <1>5, <2>1 DEF IndInv, Accounted, ArrivalsInOrder
  <2>2. ASSUME NEW j \in Pods, Arrived(j)', ~Admitted(j)', ~Waiting(j)'
        PROVE  Expired(j, now')
    BY <1>5, <1>6, <2>2 DEF IndInv, Accounted
  <2>3. \A j \in Pods : Expired(j, now)' <=> Expired(j, now')
    BY <1>1, <1>4 DEF Expired
  <2> QED
    BY <1>4, <2>1, <2>2, <2>3 DEF Accounted
<1>9. PassedIsGone'
  <2>1. ASSUME NEW i \in Pods, NEW j \in Pods, i < j, Admitted(j), AsksNoLess(Pod(j), Pod(i))
        PROVE  \/ Admitted(i) /\ outcomes[i].start_time <= outcomes[j].start_time
               \/ ~Admitted(i) /\ ~Waiting(i)' /\ Expired(i, outcomes[j].start_time)
    BY <2>1 DEF IndInv, PassedIsGone, ArrivalsInOrder
  <2> QED
    BY <1>1, <1>4, <1>5, <2>1 DEF PassedIsGone, Admitted, Expired
<1>10. StartsOnOccasion'
  BY <1>1, <1>4, <1>5 DEF IndInv, StartsOnOccasion
<1> QED
  BY <1>7, <1>8, <1>9, <1>10

-----------------------------------------------------------------------------
(* The steps of the loop.                                                  *)

\* An arriving pod is placed at once, ahead of all that wait: it takes room
\* no one of them could have used (event_runtime.py:180-184).
LEMMA ArrivePlacedInv ==
  ASSUME IndInv, NEW e \in heap, NEW n \in Nodes, ArrivePlaced(e, n)
  PROVE  IndInv'
<1> DEFINE p == e.ev
           new == CompletionAt(p, n, e.time, seq + 1)
<1>1. /\ trace \in Traces /\ max_queue_time \in MaxQueueTimes /\ heap \subseteq HeapEntry
      /\ seq \in Nat /\ now \in Nat /\ pending \in Seq(Pods) /\ kept \in Seq(Pods)
      /\ outcomes \in [Pods -> Outcome] /\ scan \in 1 .. Len(pending) + 1
  BY DEF IndInv, TypeOK
<1>2. /\ pc = "loop" /\ IsNext(e) /\ e.kind = "arrival" /\ now' = e.time /\ seq' = seq + 1
      /\ Place(p, n, e.time) /\ heap' = (heap \ {e}) \cup {new}
      /\ UNCHANGED config /\ trace' = trace /\ max_queue_time' = max_queue_time
      /\ UNCHANGED <<pending, pc, scan, kept>>
  BY DEF ArrivePlaced, config
<1>3. /\ p \in Pods /\ e = Arrival(p) /\ e.time = SubmitTime(p)
      /\ e.time \in Nat /\ now <= e.time /\ \A f \in heap : e.time <= f.time
      /\ ~Arrived(p) /\ ~Admitted(p) /\ ~Waiting(p)
      /\ \A j \in Pods : Arrived(j)' <=> Arrived(j) \/ j = p
      /\ \A j \in Pods : j < p \/ SubmitTime(j) < e.time => Arrived(j)
  <2>1. new.kind = "release"
    BY DEF CompletionAt, Release
  <2> HIDE DEF new, p
  <2>2. /\ heap \ {e} \subseteq heap' /\ e \notin heap'
        /\ \A f \in heap' : f \in heap \/ f.kind = "release"
    BY <1>2, <2>1
  <2> QED
    BY <1>2, <2>2, ArrivalFacts DEF p
<1>4. /\ remaining' \in [Nodes -> Remaining] /\ allocated' \in [Nodes -> SUBSET Pods]
      /\ outcomes' \in [Pods -> Outcome]
      /\ \A j \in Pods : Feasible(j)' \subseteq Feasible(j)
      /\ outcomes'[p] = PlacedAt(p, n, e.time) /\ Admitted(p)'
      /\ \A j \in Pods : j # p => outcomes'[j] = outcomes[j] /\ (Admitted(j)' <=> Admitted(j))
  <2> HIDE DEF p
  <2> QED
    BY <1>2, <1>3, PlaceFacts DEF IndInv
<1>5. /\ Pods = 1 .. Len(trace) /\ Len(trace) \in Nat
      /\ \A j \in Pods : SubmitTime(j) \in Nat /\ Pod(j) \in PodResource
      /\ trace[p].duration \in Nat
  BY <1>1, <1>3, TraceFacts
<1>6. \A j \in Pods : Waiting(j)' <=> Waiting(j)
  BY <1>2 DEF Waiting
<1>7. new \in [time : Nat, seq : Nat, kind : {"release"}, ev : Pods, node : Nodes]
  BY <1>1, <1>3, <1>5, SMTT(30) DEF CompletionAt, Release
<1>8. new.time = e.time + trace[p].duration /\ new.seq = seq + 1
  BY DEF CompletionAt, Release
<1> HIDE DEF p, new
<1>9. TypeOK'
  <2>1. heap' \subseteq HeapEntry'
    <3>1. HeapEntry' = HeapEntry
      BY <1>2 DEF HeapEntry, Pods, Arrival, SubmitTime
    <3> QED
      BY <1>1, <1>2, <1>7, <3>1 DEF HeapEntry
  <2>2. Pods' = Pods
    BY <1>2 DEF Pods
  <2> QED
    BY <1>1, <1>2, <1>3, <1>4, <2>1, <2>2 DEF IndInv, TypeOK
<1>10. Timely'
  <2>1. \A f \in heap' : f.time >= now'
    BY <1>1, <1>2, <1>3, <1>5, <1>8 DEF IndInv, Timely
  <2>2. /\ \A k \in DOMAIN pending : SubmitTime(pending[k]) <= e.time
        /\ \A k \in DOMAIN kept : SubmitTime(kept[k]) <= e.time
    BY <1>3, QueueIsPast DEF IndInv
  <2> QED
    BY <1>2, <2>1, <2>2 DEF Timely, SubmitTime
<1>11. QueueUnfit'
  <2>1. \A j \in Pods : Feasible(j) = {} => Feasible(j)' = {}
    BY <1>4
  <2>2. \A k \in DOMAIN pending : Feasible(pending[k])' = {}
    BY <1>1, <1>2, <2>1 DEF IndInv, QueueUnfit, WorkConserving
  <2>3. kept = <<>>
    BY <1>2 DEF IndInv, QueueInOrder
  <2> QED
    BY <1>2, <2>2, <2>3 DEF QueueUnfit, WorkConserving, Feasible, Pod
<1>12. QueueInOrder'
  BY <1>2 DEF IndInv, QueueInOrder, Increasing
<1>13. ArrivalsInOrder'
  <2>1. \A i, j \in Pods : i < j /\ Arrived(j)' => Arrived(i)'
    BY <1>3, <1>5 DEF IndInv, ArrivalsInOrder
  <2>2. \A i \in Pods : SubmitTime(i) < now' => Arrived(i)'
    BY <1>2, <1>3
  <2>3. \A i \in Pods : Waiting(i)' \/ Admitted(i)' => Arrived(i)'
    BY <1>3, <1>4, <1>6 DEF IndInv, ArrivalsInOrder
  <2> QED
    BY <1>2, <2>1, <2>2, <2>3 DEF ArrivalsInOrder, Pods, SubmitTime
<1>14. ArrivalsFirst' /\ DrainOccasion'
  BY <1>2 DEF ArrivalsFirst, DrainOccasion
<1>15. ReleasesMatchHoldings'
  <2>1. /\ new \in heap' /\ \A f \in heap : f.kind = "release" => f \in heap'
        /\ \A f \in heap' : f \in heap \/ f = new
    BY <1>2
  <2> QED
    BY <1>2, <1>3, <2>1, PlaceKeepsReleases DEF new, IndInv
<1>16. WaitBounded' /\ Accounted' /\ PassedIsGone' /\ StartsOnOccasion'
  <2>1. ~Expired(p, e.time)
    BY <1>1, <1>3, <1>5, MaxQueueTimesAssumption DEF Expired
  <2>2. \A i \in Pods : i < p => Arrived(i)
    BY <1>3
  <2>3. \A i \in Pods : Waiting(i) => Feasible(i) = {}
    BY <1>1, <1>2 DEF IndInv, QueueUnfit, WorkConserving, Waiting
  <2>4. \A j \in Pods : p < j => ~Admitted(j)
    BY <1>3 DEF IndInv, ArrivalsInOrder
  <2>5. \A j \in Pods : Waiting(j)' <=> Waiting(j) /\ j # p
    BY <1>3, <1>6
  <2>6. SubmitTime(p) <= e.time
    BY <1>3
  <2> QED
    BY <1>2, <1>3, <2>1, <2>2, <2>3, <2>4, <2>5, <2>6, PlaceKeepsRecord
<1>17. ReleasesNumberedLast'
  BY <1>1, <1>2, <1>5, <1>8 DEF IndInv, ReleasesNumberedLast
<1> QED
  BY <1>9, <1>10, <1>11, <1>12, <1>13, <1>14, <1>15, <1>16, <1>17 DEF IndInv

-----------------------------------------------------------------------------
\* An arriving pod that fits nowhere joins the queue at its end.
LEMMA ArriveQueuedInv ==
  ASSUME IndInv, NEW e \in heap, ArriveQueued(e)
  PROVE  IndInv'
<1> DEFINE p == e.ev
<1>1. /\ trace \in Traces /\ max_queue_time \in MaxQueueTimes /\ heap \subseteq HeapEntry
      /\ seq \in Nat /\ now \in Nat /\ pending \in Seq(Pods) /\ kept \in Seq(Pods)
      /\ kept = <<>> /\ scan = 1
  BY DEF IndInv, TypeOK, ArriveQueued, QueueInOrder
<1>2. /\ pc = "loop" /\ IsNext(e) /\ e.kind = "arrival" /\ now' = e.time /\ seq' = seq + 1
      /\ Feasible(p) = {} /\ pending' = Append(pending, p) /\ heap' = heap \ {e}
      /\ UNCHANGED config /\ trace' = trace /\ max_queue_time' = max_queue_time
      /\ UNCHANGED <<remaining, allocated, outcomes, pc, scan, kept>>
  BY DEF ArriveQueued, config, cluster
<1>3. /\ p \in Pods /\ e = Arrival(p) /\ e.time = SubmitTime(p)
      /\ e.time \in Nat /\ now <= e.time /\ \A f \in heap : e.time <= f.time
      /\ ~Arrived(p) /\ ~Admitted(p) /\ ~Waiting(p)
      /\ \A j \in Pods : Arrived(j)' <=> Arrived(j) \/ j = p
      /\ \A j \in Pods : j < p \/ SubmitTime(j) < e.time => Arrived(j)
  BY <1>2, ArrivalFacts
<1> HIDE DEF p
<1>4. /\ Pods = 1 .. Len(trace) /\ Len(trace) \in Nat
      /\ \A j \in Pods : SubmitTime(j) \in Nat
  BY <1>1, TraceFacts
<1>5. /\ Pods' = Pods /\ HeapEntry' = HeapEntry
      /\ \A j \in Pods : SubmitTime(j)' = SubmitTime(j)
      /\ \A j \in Pods : Feasible(j)' = Feasible(j)
      /\ \A j \in Pods : Admitted(j)' <=> Admitted(j)
  BY <1>2 DEF Pods, HeapEntry, Arrival, SubmitTime, Feasible, Pod, Admitted
<1>6. /\ pending' \in Seq(Pods) /\ Len(pending') = Len(pending) + 1
      /\ pending'[Len(pending) + 1] = p
      /\ \A k \in 1 .. Len(pending) : pending'[k] = pending[k] /\ pending[k] \in Pods
      /\ DOMAIN pending = 1 .. Len(pending) /\ DOMAIN pending' = 1 .. Len(pending) + 1
      /\ Len(pending) \in Nat
  BY <1>1, <1>2, <1>3
<1>7. \A j \in Pods : Waiting(j)' <=> Waiting(j) \/ j = p
  BY <1>2, <1>6 DEF Waiting
<1>8. TypeOK'
  <2>1. scan \in 1 .. Len(pending') + 1
    BY <1>1, <1>6
  <2> QED
    BY <1>1, <1>2, <1>3, <1>5, <1>6, <2>1 DEF IndInv, TypeOK
<1>9. Timely'
  <2>1. \A k \in DOMAIN pending : SubmitTime(pending[k]) <= e.time
    BY <1>3, QueueIsPast DEF IndInv
  <2>2. \A k \in DOMAIN pending' : SubmitTime(pending'[k]) <= e.time
    BY <1>3, <1>6, <2>1
  <2> QED
    BY <1>1, <1>2, <1>3, <2>2 DEF Timely, SubmitTime
<1>10. ReleasesNumberedLast'
  BY <1>1, <1>2, <1>4 DEF IndInv, ReleasesNumberedLast
<1>11. QueueUnfit'
  <2>1. \A k \in DOMAIN pending' : Feasible(pending'[k]) = {}
    BY <1>2, <1>6 DEF IndInv, QueueUnfit, WorkConserving
  <2> QED
    BY <1>1, <1>2, <2>1 DEF QueueUnfit, WorkConserving, Feasible, Pod
<1>12. QueueInOrder'
  <2>1. ASSUME NEW k \in 1 .. Len(pending) PROVE pending[k] < p
    <3>1. pending[k] \in Pods /\ Waiting(pending[k])
      BY <1>2, <1>6 DEF Waiting
    <3>2. Arrived(pending[k])
      BY <3>1 DEF IndInv, ArrivalsInOrder
    <3> QED
      BY <1>3, <1>4, <3>1, <3>2 DEF IndInv, ArrivalsInOrder
  <2>2. Increasing(pending)
    BY DEF IndInv, QueueInOrder
  <2>3. ASSUME NEW k \in DOMAIN pending', NEW l \in DOMAIN pending', k < l
        PROVE  pending'[k] < pending'[l]
    <3>1. k \in 1 .. Len(pending)
      BY <1>6, <2>3
    <3>2. CASE l = Len(pending) + 1
      BY <1>6, <2>1, <3>1, <3>2
    <3>3. CASE l \in 1 .. Len(pending)
      BY <1>6, <2>2, <2>3, <3>1, <3>3 DEF Increasing
    <3> QED
      BY <1>6, <3>2, <3>3
  <2> QED
    BY <1>1, <1>2, <2>3 DEF QueueInOrder, Increasing
<1>13. ArrivalsInOrder'
  <2>1. \A i, j \in Pods : i < j /\ Arrived(j)' => Arrived(i)'
    BY <1>3, <1>4 DEF IndInv, ArrivalsInOrder
  <2>2. \A i \in Pods : SubmitTime(i) < now' => Arrived(i)'
    BY <1>2, <1>3
  <2>3. \A i \in Pods : Waiting(i)' \/ Admitted(i)' => Arrived(i)'
    BY <1>3, <1>5, <1>7 DEF IndInv, ArrivalsInOrder
  <2> QED
    BY <1>2, <2>1, <2>2, <2>3 DEF ArrivalsInOrder, Pods, SubmitTime
<1>14. ArrivalsFirst' /\ DrainOccasion'
  BY <1>2 DEF ArrivalsFirst, DrainOccasion
<1>15. ReleasesMatchHoldings'
  <2>1. \A f \in heap : f.kind = "release" => f \in heap'
    BY <1>2
  <2> QED
    BY <1>2, <1>3, <2>1 DEF IndInv, ReleasesMatchHoldings
<1>16. WaitBounded' /\ Accounted' /\ PassedIsGone' /\ StartsOnOccasion'
  <2>1. now' \in Nat /\ now <= now'
    BY <1>2, <1>3
  <2>2. \A i \in Pods : Waiting(i)' => Waiting(i) \/ ~Arrived(i)
    BY <1>3, <1>7
  <2>3. \A i \in Pods : Waiting(i) => Waiting(i)' \/ Expired(i, now')
    BY <1>7
  <2>4. \A i \in Pods : Arrived(i)' => Arrived(i) \/ Waiting(i)'
    BY <1>3, <1>7
  <2> QED
    BY <1>2, <2>1, <2>2, <2>3, <2>4, NothingPlaced
<1> QED
  BY <1>8, <1>9, <1>10, <1>11, <1>12, <1>13, <1>14, <1>15, <1>16 DEF IndInv

-----------------------------------------------------------------------------
\* A release frees its pod (event_runtime.py:188-190).  From then on nothing
\* is known to fit nowhere, as nothing has been looked at yet.
LEMMA ReleasePodInv ==
  ASSUME IndInv, NEW e \in heap, ReleasePod(e)
  PROVE  IndInv'
<1> DEFINE p == e.ev
           m == e.node
<1>1. /\ trace \in Traces /\ max_queue_time \in MaxQueueTimes /\ heap \subseteq HeapEntry
      /\ remaining \in [Nodes -> Remaining] /\ allocated \in [Nodes -> SUBSET Pods]
      /\ outcomes \in [Pods -> Outcome]
      /\ seq \in Nat /\ now \in Nat /\ pending \in Seq(Pods) /\ Len(pending) \in Nat
      /\ DOMAIN pending = 1 .. Len(pending)
  BY DEF IndInv, TypeOK
<1>2. /\ IsNext(e) /\ e.kind = "release" /\ now' = e.time /\ seq' = seq + 1
      /\ heap' = heap \ {e} /\ pc = "loop" /\ pc' = "drain" /\ scan' = 1 /\ kept' = <<>>
      /\ UNCHANGED config /\ trace' = trace /\ max_queue_time' = max_queue_time
      /\ UNCHANGED <<pending, outcomes>>
  BY DEF ReleasePod, config
<1>3. /\ p \in Pods /\ m \in Nodes /\ e.time \in Nat /\ e.seq \in Int
      /\ now <= e.time /\ e.seq >= Len(trace)
  BY <1>2, HeapKinds DEF IndInv, Timely, ReleasesNumberedLast
<1>4. /\ p \in allocated[m] /\ outcomes[p].node_id = m /\ outcomes[p].completion_time = e.time
      /\ \A f \in heap : f.kind = "release" /\ f.ev = p => f = e
  BY <1>2 DEF IndInv, ReleasesMatchHoldings
<1>5. /\ allocated' = [allocated EXCEPT ![m] = allocated[m] \ {p}]
      /\ remaining' = [remaining EXCEPT ![m] = GiveBack(remaining[m], Pod(p))]
  BY <1>4 DEF ReleasePod
<1> HIDE DEF p, m
<1>6. /\ Pods = 1 .. Len(trace) /\ Len(trace) \in Nat
      /\ \A j \in Pods : SubmitTime(j) \in Nat /\ Pod(j) \in PodResource
  BY <1>1, TraceFacts
<1>7. /\ Pods' = Pods /\ HeapEntry' = HeapEntry
      /\ \A j \in Pods : SubmitTime(j)' = SubmitTime(j)
      /\ \A j \in Pods : Admitted(j)' <=> Admitted(j)
  BY <1>2 DEF Pods, HeapEntry, Arrival, SubmitTime, Admitted
<1>8. \A j \in Pods : Waiting(j)' <=> Waiting(j)
  BY <1>1, <1>2 DEF Waiting
<1>9. \A j \in Pods : Arrived(j)' <=> Arrived(j)
  <2>1. \A j \in Pods : Arrival(j)' = Arrival(j) /\ Arrival(j).kind = "arrival"
    BY <1>2 DEF Arrival, SubmitTime
  <2> QED
    BY <1>2, <2>1 DEF Arrived
<1>10. \A f \in heap : e.time <= f.time
  BY <1>2, <1>3, HeapKinds DEF IndInv, IsNext, ComesBefore
<1>11. ASSUME NEW j \in Pods, SubmitTime(j) <= e.time PROVE Arrived(j)
  <2> SUFFICES ASSUME Arrival(j) \in heap PROVE FALSE
    BY DEF Arrived
  <2>1. ComesBefore(e, Arrival(j))
    BY <1>2 DEF IsNext
  <2>2. e.time < SubmitTime(j) \/ (e.time = SubmitTime(j) /\ e.seq <= j - 1)
    BY <2>1 DEF ComesBefore, Arrival
  <2> QED
    BY <1>3, <1>6, <1>11, <2>2
<1>12. TypeOK'
  <2>1. remaining' \in [Nodes -> Remaining] /\ allocated' \in [Nodes -> SUBSET Pods]
    BY <1>1, <1>3, <1>5, <1>6, TakeType
  <2>2. kept' \in Seq(Pods) /\ scan' \in 1 .. Len(pending) + 1
    BY <1>1, <1>2
  <2> QED
    BY <1>1, <1>2, <1>3, <1>7, <2>1, <2>2 DEF TypeOK
<1>13. Timely'
  <2>1. \A k \in DOMAIN pending : SubmitTime(pending[k]) <= e.time
    BY <1>3, QueueIsPast DEF IndInv
  <2> QED
    BY <1>2, <1>10, <2>1 DEF Timely, SubmitTime
<1>14. ReleasesNumberedLast'
  BY <1>1, <1>2, <1>6 DEF IndInv, ReleasesNumberedLast
<1>15. QueueUnfit' /\ QueueInOrder'
  BY <1>2 DEF IndInv, QueueUnfit, WorkConserving, QueueInOrder, Increasing
<1>16. ArrivalsInOrder'
  <2>1. \A i, j \in Pods : i < j /\ Arrived(j)' => Arrived(i)'
    BY <1>9 DEF IndInv, ArrivalsInOrder
  <2>2. \A i \in Pods : SubmitTime(i) < now' => Arrived(i)'
    BY <1>2, <1>3, <1>6, <1>9, <1>11
  <2>3. \A i \in Pods : Waiting(i)' \/ Admitted(i)' => Arrived(i)'
    BY <1>7, <1>8, <1>9 DEF IndInv, ArrivalsInOrder
  <2> QED
    BY <1>2, <2>1, <2>2, <2>3 DEF ArrivalsInOrder, Pods, SubmitTime
<1>17. ArrivalsFirst'
  BY <1>2, <1>7, <1>9, <1>11 DEF ArrivalsFirst
<1>18. DrainOccasion'
  <2>1. Admitted(p)
    BY <1>1, <1>3, <1>4, HeldIsAdmitted DEF IndInv
  <2> QED
    BY <1>2, <1>3, <1>4, <1>7, <2>1 DEF DrainOccasion
<1>19. ReleasesMatchHoldings'
  <2>1. ASSUME NEW n \in Nodes, NEW j \in allocated'[n]
        PROVE  \E f \in heap' : f.kind = "release" /\ f.ev = j /\ f.node = n
    <3>1. j \in allocated[n] /\ ~(j = p /\ n = m)
      BY <1>1, <1>3, <1>5, <2>1
    <3>2. PICK f \in heap : f.kind = "release" /\ f.ev = j /\ f.node = n
      BY <3>1 DEF IndInv, ReleasesMatchHoldings
    <3>3. f # e
      BY <3>1, <3>2 DEF p, m
    <3> QED
      BY <1>2, <3>2, <3>3
  <2>2. ASSUME NEW f \in heap', f.kind = "release"
        PROVE  /\ f.ev \in allocated'[f.node]
               /\ outcomes[f.ev].node_id = f.node
               /\ outcomes[f.ev].completion_time = f.time
               /\ f.time >= e.time
               /\ \A g \in heap' : g.kind = "release" /\ g.ev = f.ev => g = f
    <3>1. f \in heap /\ f # e /\ f.ev # p /\ f.node \in Nodes
      BY <1>2, <1>4, <2>2, HeapKinds DEF IndInv
    <3>2. f.ev \in allocated'[f.node]
      BY <1>1, <1>5, <2>2, <3>1 DEF IndInv, ReleasesMatchHoldings
    <3>3. f.time >= e.time
      BY <1>3, <1>10, <3>1, HeapKinds DEF IndInv
    <3> QED
      BY <1>2, <2>2, <3>1, <3>2, <3>3 DEF IndInv, ReleasesMatchHoldings
  <2> QED
    BY <1>2, <2>1, <2>2 DEF ReleasesMatchHoldings
<1>20. WaitBounded' /\ Accounted' /\ PassedIsGone' /\ StartsOnOccasion'
  <2>1. now' \in Nat /\ now <= now'
    BY <1>2, <1>3
  <2> QED
    BY <1>2, <1>8, <1>9, <2>1, NothingPlaced
<1> QED
  BY <1>12, <1>13, <1>14, <1>15, <1>16, <1>17, <1>18, <1>19, <1>20 DEF IndInv

-----------------------------------------------------------------------------
(* The steps of a drain.                                                   *)

\* Where a drain stands: the pod it looks at waits, and it comes after the
\* pods kept and before the pods still to be looked at.
LEMMA ScanFacts ==
  ASSUME IndInv, Scanning
  PROVE  /\ scan \in Nat /\ scan \in DOMAIN pending /\ pending[scan] \in Pods
         /\ Waiting(pending[scan]) /\ ~Admitted(pending[scan]) /\ Arrived(pending[scan])
         /\ \A k \in DOMAIN kept : kept[k] \in Pods /\ kept[k] < pending[scan]
         /\ \A l \in scan + 1 .. Len(pending) :
              pending[l] \in Pods /\ pending[scan] < pending[l]
<1>1. /\ pending \in Seq(Pods) /\ kept \in Seq(Pods) /\ scan \in 1 .. Len(pending) + 1
      /\ pc = "drain" /\ scan <= Len(pending) /\ Len(pending) \in Nat
      /\ DOMAIN pending = 1 .. Len(pending)
  BY DEF IndInv, TypeOK, Scanning
<1>2. scan \in Nat /\ scan \in 1 .. Len(pending) /\ scan \in scan .. Len(pending)
  BY <1>1
<1>3. pending[scan] \in Pods /\ Waiting(pending[scan])
  BY <1>1, <1>2 DEF Waiting
<1>4. ~Admitted(pending[scan]) /\ Arrived(pending[scan])
  BY <1>3 DEF IndInv, Accounted, ArrivalsInOrder
<1>5. \A k \in DOMAIN kept : kept[k] \in Pods /\ kept[k] < pending[scan]
  BY <1>1, <1>2 DEF IndInv, QueueInOrder
<1>6. ASSUME NEW l \in scan + 1 .. Len(pending)
      PROVE  pending[l] \in Pods /\ pending[scan] < pending[l]
  BY <1>1, <1>2 DEF IndInv, QueueInOrder, Increasing
<1> QED
  BY <1>1, <1>2, <1>3, <1>4, <1>5, <1>6

\* What no step of a drain changes: the events handled, hence who arrived.
LEMMA DrainKeepsArrivals ==
  ASSUME IndInv, UNCHANGED config, now' = now, heap \subseteq heap',
         \A f \in heap' : f \in heap \/ f.kind = "release",
         \A i \in Pods : Waiting(i)' \/ Admitted(i)' => Waiting(i) \/ Admitted(i),
         pc = "drain"
  PROVE  ArrivalsInOrder' /\ ArrivalsFirst'
<1>1. Pods' = Pods /\ \A j \in Pods : SubmitTime(j)' = SubmitTime(j)
  BY DEF Pods, SubmitTime, config
<1>2. ASSUME NEW j \in Pods PROVE Arrived(j)' <=> Arrived(j)
  <2>1. Arrival(j)' = Arrival(j) /\ Arrival(j).kind = "arrival"
    BY DEF Arrival, SubmitTime, config
  <2> QED
    BY <2>1 DEF Arrived
<1>3. \A i, j \in Pods : i < j /\ Arrived(j)' => Arrived(i)'
  BY <1>2 DEF IndInv, ArrivalsInOrder
<1>4. \A i \in Pods : SubmitTime(i) < now => Arrived(i)'
  BY <1>2 DEF IndInv, ArrivalsInOrder
<1>5. \A i \in Pods : Waiting(i)' \/ Admitted(i)' => Arrived(i)'
  BY <1>2 DEF IndInv, ArrivalsInOrder
<1>6. \A i \in Pods : SubmitTime(i) <= now => Arrived(i)'
  BY <1>2 DEF IndInv, ArrivalsFirst
<1> QED
  BY <1>1, <1>3, <1>4, <1>5, <1>6 DEF ArrivalsInOrder, ArrivalsFirst

\* A step of a drain that changes only the pending list and the drain's own
\* place in it leaves the rest of the invariant alone.
LEMMA DrainKeepsCluster ==
  ASSUME IndInv, UNCHANGED <<config, cluster, heap, seq, now, outcomes>>, pc = "drain",
         \A i \in Pods : Waiting(i)' => Waiting(i),
         \A i \in Pods : Waiting(i) => Waiting(i)' \/ Expired(i, now)
  PROVE  /\ Pods' = Pods /\ HeapEntry' = HeapEntry
         /\ \A i \in Pods : SubmitTime(i)' = SubmitTime(i) /\ Feasible(i)' = Feasible(i)
         /\ ReleasesNumberedLast' /\ ReleasesMatchHoldings' /\ DrainOccasion'
         /\ ArrivalsInOrder' /\ ArrivalsFirst'
         /\ WaitBounded' /\ Accounted' /\ PassedIsGone' /\ StartsOnOccasion'
<1>1. /\ trace' = trace /\ max_queue_time' = max_queue_time /\ UNCHANGED config
      /\ UNCHANGED <<remaining, allocated, heap, seq, now, outcomes>>
  BY DEF config, cluster
<1>2. /\ Pods' = Pods /\ HeapEntry' = HeapEntry
      /\ \A i \in Pods : SubmitTime(i)' = SubmitTime(i) /\ Feasible(i)' = Feasible(i)
      /\ \A i \in Pods : Admitted(i)' <=> Admitted(i)
      /\ \A i \in Pods : Arrived(i)' <=> Arrived(i)
  BY <1>1 DEF Pods, HeapEntry, Arrival, SubmitTime, Feasible, Pod, Admitted, Arrived
<1>3. ReleasesNumberedLast' /\ ReleasesMatchHoldings' /\ DrainOccasion'
  BY <1>1, <1>2
     DEF IndInv, ReleasesNumberedLast, ReleasesMatchHoldings, DrainOccasion
<1>4. ArrivalsInOrder' /\ ArrivalsFirst'
  BY <1>1, <1>2, DrainKeepsArrivals
<1>5. now' \in Nat /\ now <= now'
  BY <1>1 DEF IndInv, TypeOK
<1>6. WaitBounded' /\ Accounted' /\ PassedIsGone' /\ StartsOnOccasion'
  BY <1>1, <1>2, <1>5, NothingPlaced
<1> QED
  BY <1>2, <1>3, <1>4, <1>6

-----------------------------------------------------------------------------
\* A drain drops a pod that has waited too long (event_runtime.py:208).
LEMMA DrainExpiredInv ==
  ASSUME IndInv, DrainExpired
  PROVE  IndInv'
<1>1. /\ pending \in Seq(Pods) /\ kept \in Seq(Pods) /\ Len(pending) \in Nat
      /\ DOMAIN pending = 1 .. Len(pending) /\ now \in Nat
  BY DEF IndInv, TypeOK
<1>2. /\ Scanning /\ pc = "drain" /\ scan <= Len(pending) /\ Expired(pending[scan], now)
      /\ scan' = scan + 1 /\ UNCHANGED <<config, cluster, heap, seq, now, outcomes>>
      /\ UNCHANGED <<trace, max_queue_time, remaining, allocated, heap, seq, now>>
      /\ UNCHANGED <<pending, outcomes, pc, kept>>
  BY DEF DrainExpired, Scanning, config, cluster
<1>3. scan \in Nat /\ scan \in DOMAIN pending
  BY <1>2, ScanFacts
<1>4. \A i \in Pods : Waiting(i)' => Waiting(i)
  BY <1>1, <1>2, <1>3 DEF Waiting
<1>5. \A i \in Pods : Waiting(i) => Waiting(i)' \/ Expired(i, now)
  <2>1. ASSUME NEW i \in Pods, Waiting(i), ~Waiting(i)' PROVE i = pending[scan]
    BY <1>1, <1>2, <1>3, <2>1 DEF Waiting
  <2> QED
    BY <1>2, <2>1
<1>6. /\ Pods' = Pods /\ HeapEntry' = HeapEntry
      /\ \A i \in Pods : SubmitTime(i)' = SubmitTime(i) /\ Feasible(i)' = Feasible(i)
      /\ ReleasesNumberedLast' /\ ReleasesMatchHoldings' /\ DrainOccasion'
      /\ ArrivalsInOrder' /\ ArrivalsFirst'
      /\ WaitBounded' /\ Accounted' /\ PassedIsGone' /\ StartsOnOccasion'
  BY <1>2, <1>4, <1>5, DrainKeepsCluster
<1>7. TypeOK'
  <2>1. scan' \in 1 .. Len(pending) + 1
    BY <1>1, <1>2, <1>3
  <2> QED
    BY <1>2, <1>6, <2>1 DEF IndInv, TypeOK
<1>8. Timely'
  BY <1>2 DEF IndInv, Timely, SubmitTime
<1>9. QueueUnfit'
  BY <1>2 DEF IndInv, QueueUnfit, WorkConserving, Feasible, Pod
<1>10. QueueInOrder'
  BY <1>1, <1>2, <1>3 DEF IndInv, QueueInOrder, Increasing
<1> QED
  BY <1>6, <1>7, <1>8, <1>9, <1>10 DEF IndInv

\* A drain keeps a pod that fits nowhere, in its place in the queue.
LEMMA DrainKeptInv ==
  ASSUME IndInv, DrainKept
  PROVE  IndInv'
<1> DEFINE p == pending[scan]
<1>1. /\ pending \in Seq(Pods) /\ kept \in Seq(Pods) /\ Len(pending) \in Nat
      /\ DOMAIN pending = 1 .. Len(pending) /\ now \in Nat
  BY DEF IndInv, TypeOK
<1>2. /\ Scanning /\ pc = "drain" /\ scan <= Len(pending) /\ Feasible(p) = {}
      /\ scan' = scan + 1 /\ UNCHANGED <<config, cluster, heap, seq, now, outcomes>>
      /\ kept' = Append(kept, p)
      /\ UNCHANGED <<trace, max_queue_time, remaining, allocated, heap, seq, now>>
      /\ UNCHANGED <<pending, outcomes, pc>>
  BY DEF DrainKept, Scanning, config, cluster
<1>3. /\ scan \in Nat /\ scan \in DOMAIN pending /\ p \in Pods
      /\ \A k \in DOMAIN kept : kept[k] \in Pods /\ kept[k] < p
      /\ \A l \in scan + 1 .. Len(pending) : pending[l] \in Pods /\ p < pending[l]
  BY <1>2, ScanFacts
<1>4. /\ kept' \in Seq(Pods) /\ DOMAIN kept' = DOMAIN kept \cup {Len(kept) + 1}
      /\ Len(kept) \in Nat /\ DOMAIN kept = 1 .. Len(kept)
      /\ kept'[Len(kept) + 1] = p /\ \A k \in DOMAIN kept : kept'[k] = kept[k]
  <2> HIDE DEF p
  <2> QED
    BY <1>1, <1>2, <1>3
<1>5. \A i \in Pods : Waiting(i)' <=> Waiting(i)
  <2>1. ASSUME NEW i \in Pods
        PROVE  (\E k \in DOMAIN kept' : kept'[k] = i)
               <=> (\E k \in DOMAIN kept : kept[k] = i) \/ i = p
    BY <1>4
  <2>2. ASSUME NEW i \in Pods
        PROVE  (\E k \in scan .. Len(pending) : pending[k] = i)
               <=> (\E k \in scan + 1 .. Len(pending) : pending[k] = i) \/ i = p
    BY <1>1, <1>2, <1>3
  <2> QED
    BY <1>2, <2>1, <2>2 DEF Waiting
<1>6. /\ Pods' = Pods /\ HeapEntry' = HeapEntry
      /\ \A i \in Pods : SubmitTime(i)' = SubmitTime(i) /\ Feasible(i)' = Feasible(i)
      /\ ReleasesNumberedLast' /\ ReleasesMatchHoldings' /\ DrainOccasion'
      /\ ArrivalsInOrder' /\ ArrivalsFirst'
      /\ WaitBounded' /\ Accounted' /\ PassedIsGone' /\ StartsOnOccasion'
  BY <1>2, <1>5, DrainKeepsCluster
<1> HIDE DEF p
<1>7. TypeOK'
  <2>1. scan' \in 1 .. Len(pending) + 1
    BY <1>1, <1>2, <1>3
  <2> QED
    BY <1>2, <1>4, <1>6, <2>1 DEF IndInv, TypeOK
<1>8. Timely'
  <2>1. \A k \in DOMAIN kept' : SubmitTime(kept'[k]) <= now
    BY <1>3, <1>4 DEF IndInv, Timely, p
  <2> QED
    BY <1>2, <2>1 DEF IndInv, Timely, SubmitTime
<1>9. QueueUnfit'
  <2>1. \A k \in DOMAIN kept' : Feasible(kept'[k]) = {}
    BY <1>2, <1>4 DEF IndInv, QueueUnfit
  <2> QED
    BY <1>2, <2>1 DEF QueueUnfit, WorkConserving, Feasible, Pod
<1>10. QueueInOrder'
  <2>1. ASSUME NEW k \in DOMAIN kept', NEW l \in DOMAIN kept', k < l
        PROVE  kept'[k] < kept'[l]
    <3>1. k \in DOMAIN kept
      BY <1>4, <2>1
    <3> QED
      BY <1>3, <1>4, <2>1, <3>1 DEF IndInv, QueueInOrder, Increasing
  <2>2. ASSUME NEW k \in DOMAIN kept', NEW l \in scan + 1 .. Len(pending)
        PROVE  kept'[k] < pending[l]
    <3>1. CASE k \in DOMAIN kept
      <4>1. l \in scan .. Len(pending)
        BY <1>1, <1>3
      <4> QED
        BY <1>4, <3>1, <4>1 DEF IndInv, QueueInOrder
    <3>2. CASE k = Len(kept) + 1
      BY <1>3, <1>4, <3>2
    <3> QED
      BY <1>4, <3>1, <3>2
  <2> QED
    BY <1>2, <2>1, <2>2 DEF IndInv, QueueInOrder, Increasing
<1> QED
  BY <1>6, <1>7, <1>8, <1>9, <1>10 DEF IndInv

\* When all have been looked at, those kept become the queue.
LEMMA DrainEndInv ==
  ASSUME IndInv, DrainEnd
  PROVE  IndInv'
<1>1. /\ pending \in Seq(Pods) /\ kept \in Seq(Pods) /\ Len(pending) \in Nat
      /\ Len(kept) \in Nat /\ DOMAIN kept = 1 .. Len(kept)
      /\ scan \in 1 .. Len(pending) + 1
  BY DEF IndInv, TypeOK
<1>2. /\ pc = "drain" /\ scan > Len(pending) /\ pending' = kept /\ pc' = "loop"
      /\ scan' = 1 /\ kept' = <<>>
      /\ UNCHANGED <<config, cluster, heap, seq, now, outcomes>>
      /\ UNCHANGED <<trace, max_queue_time, remaining, allocated, heap, seq, now, outcomes>>
  BY DEF DrainEnd, config, cluster
<1>3. scan .. Len(pending) = {}
  BY <1>1, <1>2
<1>4. \A i \in Pods : Waiting(i)' <=> Waiting(i)
  BY <1>2, <1>3 DEF Waiting
<1>5. /\ Pods' = Pods /\ HeapEntry' = HeapEntry
      /\ \A i \in Pods : SubmitTime(i)' = SubmitTime(i) /\ Feasible(i)' = Feasible(i)
      /\ ReleasesNumberedLast' /\ ReleasesMatchHoldings' /\ DrainOccasion'
      /\ ArrivalsInOrder' /\ ArrivalsFirst'
      /\ WaitBounded' /\ Accounted' /\ PassedIsGone' /\ StartsOnOccasion'
  BY <1>2, <1>4, DrainKeepsCluster
<1>6. TypeOK'
  <2>1. kept' \in Seq(Pods) /\ scan' \in 1 .. Len(pending') + 1
    BY <1>1, <1>2
  <2> QED
    BY <1>1, <1>2, <1>5, <2>1 DEF IndInv, TypeOK
<1>7. Timely'
  BY <1>2 DEF IndInv, Timely, SubmitTime
<1>8. QueueUnfit'
  BY <1>2 DEF IndInv, QueueUnfit, WorkConserving, Feasible, Pod
<1>9. QueueInOrder'
  BY <1>2 DEF IndInv, QueueInOrder, Increasing
<1> QED
  BY <1>5, <1>6, <1>7, <1>8, <1>9 DEF IndInv

-----------------------------------------------------------------------------
\* A drain places a pod: no pod ahead of it that asks for no more was kept,
\* and those kept still fit nowhere.
LEMMA DrainPlacedInv ==
  ASSUME IndInv, NEW n \in Nodes, DrainPlaced(n)
  PROVE  IndInv'
<1>p. PICK p \in Pods : p = pending[scan]
  BY ScanFacts DEF DrainPlaced
<1>t. PICK t \in Nat : t = now
  BY DEF IndInv, TypeOK
<1> DEFINE new == CompletionAt(p, n, t, seq)
<1>1. /\ trace \in Traces /\ max_queue_time \in MaxQueueTimes /\ heap \subseteq HeapEntry
      /\ seq \in Nat /\ now \in Nat /\ pending \in Seq(Pods) /\ kept \in Seq(Pods)
      /\ Len(pending) \in Nat /\ DOMAIN pending = 1 .. Len(pending)
  BY DEF IndInv, TypeOK
<1>2. /\ Scanning /\ pc = "drain" /\ scan <= Len(pending) /\ ~Expired(p, t)
      /\ Place(p, n, t) /\ heap' = heap \cup {new} /\ scan' = scan + 1
      /\ UNCHANGED config /\ trace' = trace /\ max_queue_time' = max_queue_time
      /\ UNCHANGED <<seq, now, pending, pc, kept>>
  BY <1>p, <1>t DEF DrainPlaced, Scanning, config
<1>3. /\ scan \in Nat /\ scan \in DOMAIN pending /\ p \in Pods
      /\ Waiting(p) /\ ~Admitted(p) /\ Arrived(p)
      /\ \A k \in DOMAIN kept : kept[k] \in Pods /\ kept[k] < p
      /\ \A l \in scan + 1 .. Len(pending) : pending[l] \in Pods /\ p < pending[l]
  BY <1>2, <1>p, ScanFacts
<1>4. /\ Pods = 1 .. Len(trace) /\ Len(trace) \in Nat
      /\ \A j \in Pods : SubmitTime(j) \in Nat /\ Pod(j) \in PodResource
      /\ trace[p].duration \in Nat
  BY <1>1, <1>3, TraceFacts
<1>5. /\ new \in [time : Nat, seq : Nat, kind : {"release"}, ev : Pods, node : Nodes]
      /\ new.time = t + trace[p].duration /\ new.seq = seq /\ new.kind = "release"
  BY <1>1, <1>3, <1>4, SMTT(30) DEF CompletionAt, Release
<1>6. SubmitTime(p) <= t
  BY <1>3, <1>p, <1>t DEF IndInv, Timely
<1> HIDE DEF new
<1>7. /\ remaining' \in [Nodes -> Remaining] /\ allocated' \in [Nodes -> SUBSET Pods]
      /\ outcomes' \in [Pods -> Outcome]
      /\ \A j \in Pods : Feasible(j)' \subseteq Feasible(j)
      /\ outcomes'[p] = PlacedAt(p, n, t) /\ Admitted(p)'
      /\ \A j \in Pods : j # p => outcomes'[j] = outcomes[j] /\ (Admitted(j)' <=> Admitted(j))
  BY <1>2, <1>3, <1>6, PlaceFacts DEF IndInv
<1>8. \A j \in Pods : Waiting(j)' <=> Waiting(j) /\ j # p
  <2>1. ASSUME NEW j \in Pods
        PROVE  (\E k \in scan + 1 .. Len(pending) : pending[k] = j)
               <=> (\E k \in scan .. Len(pending) : pending[k] = j) /\ j # p
    <3>1. scan .. Len(pending) = {scan} \cup (scan + 1 .. Len(pending))
      BY <1>1, <1>2, <1>3
    <3>2. \A k \in scan + 1 .. Len(pending) : pending[k] # p
      BY <1>3, <1>4
    <3> QED
      BY <1>p, <3>1, <3>2
  <2>2. \A k \in DOMAIN kept : kept[k] # p
    BY <1>3, <1>4
  <2> QED
    BY <1>2, <2>1, <2>2 DEF Waiting
<1>9. /\ Pods' = Pods /\ HeapEntry' = HeapEntry
      /\ \A j \in Pods : SubmitTime(j)' = SubmitTime(j)
  BY <1>2 DEF Pods, HeapEntry, Arrival, SubmitTime
<1>10. /\ new \in heap' /\ heap \subseteq heap'
       /\ \A f \in heap' : f \in heap \/ f = new
  BY <1>2
<1>11. TypeOK'
  <2>1. heap' \subseteq HeapEntry
    BY <1>1, <1>2, <1>5 DEF HeapEntry
  <2>2. scan' \in 1 .. Len(pending) + 1
    BY <1>1, <1>2, <1>3
  <2> QED
    BY <1>1, <1>2, <1>7, <1>9, <2>1, <2>2 DEF IndInv, TypeOK
<1>12. Timely'
  <2>1. \A f \in heap' : f.time >= now
    BY <1>1, <1>4, <1>5, <1>10, <1>t DEF IndInv, Timely
  <2> QED
    BY <1>2, <2>1 DEF IndInv, Timely, SubmitTime
<1>13. ReleasesNumberedLast'
  BY <1>2, <1>5, <1>10 DEF IndInv, ReleasesNumberedLast
<1>14. QueueUnfit'
  <2>1. \A j \in Pods : Feasible(j) = {} => Feasible(j)' = {}
    BY <1>7
  <2>2. \A k \in DOMAIN kept : Feasible(kept[k])' = {}
    BY <1>2, <1>3, <2>1 DEF IndInv, QueueUnfit
  <2> QED
    BY <1>2, <2>2 DEF QueueUnfit, WorkConserving, Feasible, Pod
<1>15. QueueInOrder'
  BY <1>1, <1>2, <1>3 DEF IndInv, QueueInOrder, Increasing
<1>16. ArrivalsInOrder' /\ ArrivalsFirst'
  <2>1. \A f \in heap' : f \in heap \/ f.kind = "release"
    BY <1>5, <1>10
  <2>2. \A i \in Pods : Waiting(i)' \/ Admitted(i)' => Waiting(i) \/ Admitted(i)
    BY <1>3, <1>7, <1>8
  <2> QED
    BY <1>2, <1>10, <2>1, <2>2, DrainKeepsArrivals
<1>17. \E j \in Pods : Admitted(j) /\ outcomes[j].completion_time = t
  BY <1>2, <1>t DEF IndInv, DrainOccasion
<1>18. DrainOccasion'
  BY <1>2, <1>3, <1>7, <1>9, <1>17, <1>t DEF DrainOccasion
<1>19. ReleasesMatchHoldings'
  <2>1. now' \in Nat /\ now' <= t
    BY <1>1, <1>2, <1>t
  <2>2. \A f \in heap : f.kind = "release" => f.time >= now'
    BY <1>2 DEF IndInv, Timely
  <2> QED
    BY <1>1, <1>2, <1>3, <1>6, <1>10, <2>1, <2>2, PlaceKeepsReleases DEF IndInv, new
<1>20. WaitBounded' /\ Accounted' /\ PassedIsGone' /\ StartsOnOccasion'
  <2>1. \A j \in Pods : Arrived(j)' <=> Arrived(j) \/ j = p
    <3>1. \A j \in Pods : Arrival(j)' = Arrival(j) /\ Arrival(j).kind = "arrival"
      BY <1>2 DEF Arrival, SubmitTime
    <3> QED
      BY <1>3, <1>5, <1>10, <3>1 DEF Arrived
  <2>2. \A i \in Pods : i < p => Arrived(i)
    BY <1>3 DEF IndInv, ArrivalsInOrder
  <2>3. ASSUME NEW i \in Pods, i < p, Waiting(i) PROVE Feasible(i) = {}
    <3>1. \A l \in scan .. Len(pending) : pending[l] = p \/ p < pending[l]
      BY <1>1, <1>2, <1>3, <1>p
    <3>2. ASSUME NEW l \in scan .. Len(pending) PROVE pending[l] # i
      <4>1. i \in Nat /\ p \in Nat /\ i < p
        BY <1>3, <1>4, <2>3
      <4>2. CASE pending[l] = p
        BY <4>1, <4>2
      <4>3. CASE p < pending[l]
        BY <4>1, <4>3
      <4> QED
        BY <3>1, <4>2, <4>3
    <3>3. PICK k \in DOMAIN kept : kept[k] = i
      BY <1>2, <2>3, <3>2 DEF Waiting
    <3> QED
      BY <3>3 DEF IndInv, QueueUnfit
  <2>4. \A j \in Pods : p < j /\ Admitted(j) => ~AsksNoLess(Pod(j), Pod(p))
    BY <1>3 DEF IndInv, PassedIsGone
  <2>5. now <= t /\ now' = t
    BY <1>1, <1>2, <1>t
  <2> QED
    BY <1>1, <1>2, <1>3, <1>6, <1>8, <1>17, <2>1, <2>2, <2>3, <2>4, <2>5, PlaceKeepsRecord
<1> QED
  BY <1>11, <1>12, <1>13, <1>14, <1>15, <1>16, <1>18, <1>19, <1>20 DEF IndInv

-----------------------------------------------------------------------------
(* The theorems.                                                           *)

\* The invariant is inductive: no iteration of run()'s loop, nor any part of
\* one (event_runtime.py:176-212), leads out of it.
LEMMA NextInv ==
  ASSUME IndInv, [Next]_vars
  PROVE  IndInv'
<1>1. ASSUME NEW e \in heap, NEW n \in Nodes, ArrivePlaced(e, n) PROVE IndInv'
  BY <1>1, ArrivePlacedInv
<1>2. ASSUME NEW e \in heap, ArriveQueued(e) PROVE IndInv'
  BY <1>2, ArriveQueuedInv
<1>3. ASSUME NEW e \in heap, ReleasePod(e) PROVE IndInv'
  BY <1>3, ReleasePodInv
<1>4. CASE DrainExpired
  BY <1>4, DrainExpiredInv
<1>5. ASSUME NEW n \in Nodes, DrainPlaced(n) PROVE IndInv'
  BY <1>5, DrainPlacedInv
<1>6. CASE DrainKept
  BY <1>6, DrainKeptInv
<1>7. CASE DrainEnd
  BY <1>7, DrainEndInv
<1>8. CASE UNCHANGED vars
  <2>1. /\ UNCHANGED <<trace, max_queue_time, remaining, allocated, heap, seq, now>>
        /\ UNCHANGED <<pending, outcomes, pc, scan, kept>>
    BY <1>8 DEF vars, config, cluster
  <2>2. /\ Pods' = Pods /\ HeapEntry' = HeapEntry
        /\ \A i \in Pods : SubmitTime(i)' = SubmitTime(i) /\ Feasible(i)' = Feasible(i)
        /\ \A i \in Pods : Admitted(i)' <=> Admitted(i)
        /\ \A i \in Pods : Waiting(i)' <=> Waiting(i)
        /\ \A i \in Pods : Arrived(i)' <=> Arrived(i)
    BY <2>1 DEF Pods, HeapEntry, Arrival, SubmitTime, Feasible, Pod, Admitted, Waiting, Arrived
  <2>3. TypeOK' /\ Timely' /\ ReleasesNumberedLast'
    BY <2>1, <2>2 DEF IndInv, TypeOK, Timely, ReleasesNumberedLast, SubmitTime
  <2>4. QueueUnfit' /\ QueueInOrder'
    BY <2>1 DEF IndInv, QueueUnfit, WorkConserving, QueueInOrder, Increasing, Feasible, Pod
  <2>5. ArrivalsInOrder' /\ ArrivalsFirst'
    BY <2>1, <2>2 DEF IndInv, ArrivalsInOrder, ArrivalsFirst
  <2>6. ReleasesMatchHoldings' /\ DrainOccasion'
    BY <2>1, <2>2 DEF IndInv, ReleasesMatchHoldings, DrainOccasion
  <2>7. now' \in Nat /\ now <= now' /\ UNCHANGED config /\ UNCHANGED outcomes
    BY <1>8, <2>1 DEF IndInv, TypeOK, vars
  <2>8. WaitBounded' /\ Accounted' /\ PassedIsGone' /\ StartsOnOccasion'
    BY <2>2, <2>7, NothingPlaced
  <2> QED
    BY <2>3, <2>4, <2>5, <2>6, <2>8 DEF IndInv
<1> QED
  BY <1>1, <1>2, <1>3, <1>4, <1>5, <1>6, <1>7, <1>8 DEF Next

\* In every reachable state of every run the invariant holds.
THEOREM Invariance == Spec => []IndInv
<1>1. Init => IndInv
  BY InitInv
<1>2. IndInv /\ [Next]_vars => IndInv'
  BY NextInv
<1> QED
  BY <1>1, <1>2, PTL DEF Spec

\* Every variable of the loop keeps its type; in particular waits and times
\* are natural numbers, and a placed pod's outcome is complete.
THEOREM TypeCorrect == Spec => []TypeOK
<1>1. IndInv => TypeOK
  BY DEF IndInv
<1> QED
  BY <1>1, Invariance, PTL

\* One pass per release is enough (event_runtime.py:191-212): between two
\* events no waiting pod fits any node, whatever the policy chooses.
THEOREM SinglePassSuffices == Spec => []WorkConserving
<1>1. IndInv => WorkConserving
  BY DEF IndInv, QueueUnfit
<1> QED
  BY <1>1, Invariance, PTL

\* A release is never handled before an arrival of the same instant or an
\* earlier one, through the heap order (time, seq, ..) alone.
THEOREM ReleasesComeLast == Spec => []ArrivalsFirst
<1>1. IndInv => ArrivalsFirst
  BY DEF IndInv
<1> QED
  BY <1>1, Invariance, PTL

\* No admitted pod waited longer than max_queue_time, although the time-out
\* is looked at only when a pod completes (event_runtime.py:208).
THEOREM WaitsAreBounded == Spec => []WaitBounded
<1>1. IndInv => WaitBounded
  BY DEF IndInv
<1> QED
  BY <1>1, Invariance, PTL

\* Although smaller pods pass larger ones in the queue, no pod is passed by
\* one that asks for no less, except after its time-out.
THEOREM NobodyPassedByLarger == Spec => []NotPassedByLarger
<1>1. IndInv => NotPassedByLarger
  BY DEF IndInv, PassedIsGone, NotPassedByLarger
<1> QED
  BY <1>1, Invariance, PTL

\* Nodes hold exactly the pods whose release is in the heap, so every pod
\* placed is released once, from its own node, at its completion time.
THEOREM HoldingsMatchReleases == Spec => []ReleasesMatchHoldings
<1>1. IndInv => ReleasesMatchHoldings
  BY DEF IndInv
<1> QED
  BY <1>1, Invariance, PTL

\* A pod that had to wait starts at the completion of another.
THEOREM LateStartsAtCompletions == Spec => []StartsOnOccasion
<1>1. IndInv => StartsOnOccasion
  BY DEF IndInv
<1> QED
  BY <1>1, Invariance, PTL

\* Simulated time never runs backwards, and what run() recorded of a pod is
\* final: no later step moves a placed pod or places one that timed out.
THEOREM RecordedForGood == Spec => OutcomesFinal
<1> DEFINE Final == /\ now' >= now
                    /\ \A i \in Pods : Admitted(i) => outcomes'[i] = outcomes[i]
                    /\ \A i \in Pods : Dropped(i) => ~outcomes'[i].admitted
<1>1. ASSUME IndInv, [Next]_vars PROVE [Final]_vars
  <2>1. now \in Nat
    BY <1>1 DEF IndInv, TypeOK
  <2>2. ASSUME now' >= now, UNCHANGED outcomes PROVE Final
    BY <2>2 DEF Dropped, Admitted
  <2>3. ASSUME NEW p \in Pods, NEW n \in Nodes, NEW t \in Nat, Place(p, n, t),
               ~Admitted(p), ~Dropped(p), now' >= now
        PROVE  Final
    <3>1. \A j \in Pods : j # p => outcomes'[j] = outcomes[j]
      BY <1>1, <2>3 DEF Place, IndInv, TypeOK
    <3> QED
      BY <2>3, <3>1 DEF Dropped, Admitted
  <2>4. ASSUME NEW e \in heap, NEW n \in Nodes, ArrivePlaced(e, n) PROVE Final
    <3>1. /\ IsNext(e) /\ e.kind = "arrival" /\ now' = e.time /\ Place(e.ev, n, e.time)
      BY <2>4 DEF ArrivePlaced
    <3>2. /\ e.ev \in Pods /\ e.time \in Nat /\ e = Arrival(e.ev) /\ now' >= now
      BY <1>1, <2>1, <3>1, HeapKinds DEF IndInv, Timely
    <3>3. ~Arrived(e.ev)
      BY <3>2 DEF Arrived
    <3>4. ~Admitted(e.ev) /\ ~Dropped(e.ev)
      BY <1>1, <3>2, <3>3 DEF IndInv, ArrivalsInOrder, Dropped
    <3> HIDE DEF Final
    <3> QED
      BY <2>3, <3>1, <3>2, <3>4
  <2>5. ASSUME NEW e \in heap, ArriveQueued(e) \/ ReleasePod(e) PROVE Final
    <3>1. now' = e.time /\ UNCHANGED outcomes
      BY <2>5 DEF ArriveQueued, ReleasePod
    <3>2. e.time \in Nat /\ e.time >= now
      BY <1>1, HeapKinds DEF IndInv, Timely
    <3> HIDE DEF Final
    <3> QED
      BY <2>1, <2>2, <3>1, <3>2
  <2>6. CASE DrainExpired \/ DrainKept \/ DrainEnd
    <3>1. now' >= now /\ UNCHANGED outcomes
      BY <2>1, <2>6 DEF DrainExpired, DrainKept, DrainEnd
    <3> HIDE DEF Final
    <3> QED
      BY <2>2, <3>1
  <2>7. ASSUME NEW n \in Nodes, DrainPlaced(n) PROVE Final
    <3>1. PICK p \in Pods : p = pending[scan] /\ Waiting(p) /\ ~Admitted(p)
      BY <1>1, <2>7, ScanFacts DEF DrainPlaced
    <3>2. PICK t \in Nat : t = now
      BY <2>1
    <3>3. Place(p, n, t) /\ now' >= now
      BY <2>1, <2>7, <3>1, <3>2 DEF DrainPlaced
    <3>4. ~Dropped(p)
      BY <3>1 DEF Dropped
    <3> HIDE DEF Final
    <3> QED
      BY <2>3, <3>1, <3>3, <3>4
  <2> QED
    BY <1>1, <2>4, <2>5, <2>6, <2>7 DEF Next
<1>2. Spec => [][Final]_vars
  <2> HIDE DEF Final
  <2> QED
    BY <1>1, Invariance, PTL DEF Spec
<1> QED
  BY <1>2 DEF OutcomesFinal

-----------------------------------------------------------------------------
(* Capacity.                                                               *)

Asked == [i \in Pods |-> Pod(i)]

\* What the pods on a node ask for is well typed.
LEMMA AskedFacts ==
  ASSUME TypeOK
  PROVE  /\ DOMAIN Asked = Pods
         /\ \A i \in Pods : Asked[i] = Pod(i) /\ Asked[i] \in PodResource
         /\ \A n \in Nodes : /\ allocated[n] \in SUBSET Pods /\ IsFiniteSet(allocated[n])
                             /\ Empty(NodeOf[n]) \in Remaining
<1>1. trace \in Traces /\ allocated \in [Nodes -> SUBSET Pods]
  BY DEF TypeOK
<1>2. \A i \in Pods : Pod(i) \in PodResource
  BY <1>1, TraceFacts
<1>3. IsFiniteSet(Pods)
  BY <1>1, TraceFacts, FS_Interval
<1>4. \A n \in Nodes : allocated[n] \in SUBSET Pods /\ IsFiniteSet(allocated[n])
  BY <1>1, <1>3, FS_Subset
<1>5. \A n \in Nodes : Empty(NodeOf[n]) \in Remaining
  BY NodesAssumption, EmptyType
<1> QED
  BY <1>2, <1>4, <1>5 DEF Asked

\* Placing a pod takes from a node with room, so nothing becomes negative.
LEMMA PlaceConserves ==
  ASSUME TypeOK, CapacityConserved, UNCHANGED config, NEW i \in Pods, NEW n \in Nodes,
         NEW t, i \notin allocated[n], Place(i, n, t)
  PROVE  CapacityConserved'
<1>1. /\ remaining \in [Nodes -> Remaining] /\ allocated \in [Nodes -> SUBSET Pods]
      /\ trace' = trace
  BY DEF TypeOK, config
<1>2. Asked' = Asked
  BY <1>1 DEF Asked, Pods, Pod
<1>3. /\ remaining' = [remaining EXCEPT ![n] = Take(remaining[n], Pod(i))]
      /\ allocated' = [allocated EXCEPT ![n] = allocated[n] \cup {i}]
      /\ FitsIn(Pod(i), NodeOf[n], remaining[n])
  BY DEF Place, Feasible
<1>4. SUFFICES ASSUME NEW m \in Nodes
               PROVE  /\ remaining'[m] = TakeAll(Empty(NodeOf[m]), Asked, allocated'[m])
                      /\ NotOvercommitted(remaining'[m])
  BY <1>2 DEF CapacityConserved, Asked
<1>5. /\ remaining[m] = TakeAll(Empty(NodeOf[m]), Asked, allocated[m])
      /\ NotOvercommitted(remaining[m])
  BY DEF CapacityConserved, Asked
<1>6. CASE m # n
  BY <1>1, <1>3, <1>5, <1>6
<1>7. CASE m = n
  <2>1. /\ remaining'[n] = Take(remaining[n], Pod(i))
        /\ allocated'[n] = allocated[n] \cup {i}
    BY <1>1, <1>3
  <2>2. TakeAll(Empty(NodeOf[n]), Asked, allocated[n] \cup {i}) =
          Take(TakeAll(Empty(NodeOf[n]), Asked, allocated[n]), Asked[i])
    BY AskedFacts, TakeOneMore
  <2>3. Pod(i) \in PodResource /\ Asked[i] = Pod(i)
    BY AskedFacts
  <2>4. NotOvercommitted(Take(remaining[n], Pod(i)))
    BY <1>1, <1>3, <2>3 DEF FitsIn, NotOvercommitted, Take, PodResource, Remaining
  <2> QED
    BY <1>5, <1>7, <2>1, <2>2, <2>3, <2>4
<1> QED
  BY <1>6, <1>7

\* A release gives back what the pod took.
LEMMA ReleaseConserves ==
  ASSUME TypeOK, ReleasesMatchHoldings, CapacityConserved, NEW e \in heap, ReleasePod(e)
  PROVE  CapacityConserved'
<1> DEFINE i == e.ev
           n == e.node
<1>1. /\ remaining \in [Nodes -> Remaining] /\ allocated \in [Nodes -> SUBSET Pods]
      /\ trace' = trace
  BY DEF TypeOK, config, ReleasePod
<1>2. Asked' = Asked
  BY <1>1 DEF Asked, Pods, Pod
<1>3. i \in Pods /\ n \in Nodes /\ i \in allocated[n]
  BY HeapKinds DEF ReleasePod, ReleasesMatchHoldings
<1>4. /\ remaining' = [remaining EXCEPT ![n] = GiveBack(remaining[n], Pod(i))]
      /\ allocated' = [allocated EXCEPT ![n] = allocated[n] \ {i}]
  BY <1>3 DEF ReleasePod
<1> HIDE DEF i, n
<1>5. SUFFICES ASSUME NEW m \in Nodes
               PROVE  /\ remaining'[m] = TakeAll(Empty(NodeOf[m]), Asked, allocated'[m])
                      /\ NotOvercommitted(remaining'[m])
  BY <1>2 DEF CapacityConserved, Asked
<1>6. /\ remaining[m] = TakeAll(Empty(NodeOf[m]), Asked, allocated[m])
      /\ NotOvercommitted(remaining[m])
  BY DEF CapacityConserved, Asked
<1>7. CASE m # n
  BY <1>1, <1>4, <1>6, <1>7
<1>8. CASE m = n
  <2>1. /\ remaining'[n] = GiveBack(remaining[n], Pod(i))
        /\ allocated'[n] = allocated[n] \ {i}
    BY <1>1, <1>3, <1>4
  <2>2. TakeAll(Empty(NodeOf[n]), Asked, allocated[n] \ {i}) =
          GiveBack(TakeAll(Empty(NodeOf[n]), Asked, allocated[n]), Asked[i])
    BY <1>3, AskedFacts, TakeOneFewer
  <2>3. Pod(i) \in PodResource /\ Asked[i] = Pod(i)
    BY <1>3, AskedFacts
  <2>4. NotOvercommitted(GiveBack(remaining[n], Pod(i)))
    BY <1>1, <1>3, <1>6, <1>8, <2>3 DEF NotOvercommitted, GiveBack, PodResource, Remaining
  <2> QED
    BY <1>6, <1>8, <2>1, <2>2, <2>3, <2>4
<1> QED
  BY <1>7, <1>8

\* Idle nodes have all of their capacity.
LEMMA InitConserves ==
  ASSUME Init
  PROVE  CapacityConserved
<1>1. TypeOK
  BY InitInv DEF IndInv
<1>2. ASSUME NEW n \in Nodes
      PROVE  /\ remaining[n] = TakeAll(Empty(NodeOf[n]), Asked, allocated[n])
             /\ NotOvercommitted(remaining[n])
  <2>1. remaining[n] = Empty(NodeOf[n]) /\ allocated[n] = {}
    BY DEF Init
  <2>2. NotOvercommitted(Empty(NodeOf[n]))
    BY NodesAssumption
    DEF NotOvercommitted, Empty, MilliGpuCapacity, MILLI, NodeResource
  <2> QED
    BY <1>1, <2>1, <2>2, AskedFacts, TakeNone
<1> QED
  BY <1>2 DEF CapacityConserved, Asked

\* add() and remove() keep the accounts of every node.
LEMMA NextConserves ==
  ASSUME IndInv, CapacityConserved, [Next]_vars
  PROVE  CapacityConserved'
<1>1. TypeOK /\ ReleasesMatchHoldings
  BY DEF IndInv
<1>2. ASSUME NEW e \in heap, NEW n \in Nodes, ArrivePlaced(e, n) PROVE CapacityConserved'
  <2>1. e.ev \in Pods /\ e = Arrival(e.ev)
    BY <1>1, <1>2, HeapKinds DEF ArrivePlaced
  <2>2. ~Admitted(e.ev)
    BY <1>2, <2>1 DEF IndInv, ArrivalsInOrder, Arrived
  <2>3. e.ev \notin allocated[n]
    BY <1>1, <2>1, <2>2, HeldIsAdmitted
  <2> QED
    BY <1>1, <1>2, <2>1, <2>3, PlaceConserves DEF ArrivePlaced
<1>3. ASSUME NEW e \in heap, ReleasePod(e) PROVE CapacityConserved'
  BY <1>1, <1>3, ReleaseConserves
<1>4. ASSUME NEW n \in Nodes, DrainPlaced(n) PROVE CapacityConserved'
  <2>1. pending[scan] \in Pods /\ ~Admitted(pending[scan])
    BY <1>4, ScanFacts DEF DrainPlaced
  <2>2. pending[scan] \notin allocated[n]
    BY <1>1, <2>1, HeldIsAdmitted
  <2> QED
    BY <1>1, <1>4, <2>1, <2>2, PlaceConserves DEF DrainPlaced
<1>5. ASSUME UNCHANGED <<trace, remaining, allocated>> PROVE CapacityConserved'
  BY <1>5 DEF CapacityConserved, Pods, Pod
<1>6. ASSUME NEW e \in heap, ArriveQueued(e) PROVE UNCHANGED <<trace, remaining, allocated>>
  BY <1>6 DEF ArriveQueued, config, cluster
<1>7. ASSUME DrainExpired \/ DrainKept \/ DrainEnd \/ UNCHANGED vars
      PROVE  UNCHANGED <<trace, remaining, allocated>>
  BY <1>7 DEF DrainExpired, DrainKept, DrainEnd, vars, config, cluster
<1> QED
  BY <1>2, <1>3, <1>4, <1>5, <1>6, <1>7 DEF Next

\* The counters of every node are at any time its capacity less what the pods
\* on it asked for, in whatever order they came and went, and no node is ever
\* overcommitted (resource.py:71-92).
THEOREM NothingLeaks == Spec => []CapacityConserved
<1>1. Init => CapacityConserved
  BY InitConserves
<1>2. IndInv /\ CapacityConserved /\ [Next]_vars => CapacityConserved'
  BY NextConserves
<1> QED
  BY <1>1, <1>2, Invariance, PTL DEF Spec

\* What run() returns: all nodes are idle again, and only pods that timed out
\* or that no idle node could hold are rejected, whatever the policy chose.
THEOREM RejectedWithCause == Spec => []RejectedForCause
<1>1. ASSUME IndInv, CapacityConserved PROVE RejectedForCause
  <2> SUFFICES ASSUME Finished PROVE RejectedForCause
    BY DEF RejectedForCause
  <2>1. TypeOK /\ heap = {} /\ pc = "loop"
    BY <1>1 DEF IndInv, Finished
  <2>2. ASSUME NEW n \in Nodes PROVE allocated[n] = {}
    BY <1>1, <2>1 DEF IndInv, ReleasesMatchHoldings
  <2>3. ASSUME NEW n \in Nodes PROVE remaining[n] = Empty(NodeOf[n])
    <3>1. remaining[n] = TakeAll(Empty(NodeOf[n]), Asked, {})
      BY <1>1, <2>2 DEF CapacityConserved, Asked
    <3> QED
      BY <2>1, <3>1, AskedFacts, TakeNone
  <2>4. ASSUME NEW i \in Pods, ~Admitted(i), ~(Dropped(i) /\ Expired(i, now))
        PROVE  \A n \in Nodes : ~FitsIn(Pod(i), NodeOf[n], Empty(NodeOf[n]))
    <3>1. Arrived(i)
      BY <2>1 DEF Arrived
    <3>2. Waiting(i)
      BY <1>1, <2>4, <3>1 DEF IndInv, Accounted, Dropped
    <3>3. Feasible(i) = {}
      BY <1>1, <2>1, <3>2 DEF IndInv, QueueUnfit, WorkConserving, Waiting
    <3> QED
      BY <2>3, <3>3 DEF Feasible
  <2> QED
    BY <2>2, <2>3, <2>4 DEF RejectedForCause
<1> QED
  BY <1>1, Invariance, NothingLeaks, PTL

-----------------------------------------------------------------------------
(* The mapping.                                                            *)

\* The queue's words for pods and nodes mean what the loop's mean.
LEMMA SameWords ==
  /\ Queue!Pods = Pods /\ \A i : Queue!Pod(i) = Pod(i)
  /\ \A p, n, l : Queue!FitsIn(p, n, l) <=> FitsIn(p, n, l)
  /\ \A n : Queue!Empty(n) = Empty(n)
  /\ \A q, p : Queue!AsksNoLess(q, p) <=> AsksNoLess(q, p)
<1>1. Queue!Pods = Pods /\ \A i : Queue!Pod(i) = Pod(i)
  BY DEF Queue!Pods, Pods, Queue!Pod, Pod
<1>2. \A p, n, l : Queue!FitsIn(p, n, l) <=> FitsIn(p, n, l)
  BY DEF Queue!FitsIn, FitsIn, Queue!TypesAgree, TypesAgree, Queue!AnyType, AnyType
<1>3. \A n : Queue!Empty(n) = Empty(n)
  <2>1. \A n : Queue!MilliGpuCapacity(n) = MilliGpuCapacity(n)
    BY DEF Queue!MilliGpuCapacity, MilliGpuCapacity, Queue!MILLI, MILLI
  <2> QED
    BY <2>1 DEF Queue!Empty, Empty
<1>4. \A q, p : Queue!AsksNoLess(q, p) <=> AsksNoLess(q, p)
  BY DEF Queue!AsksNoLess, AsksNoLess, Queue!AnyType, AnyType
<1> QED
  BY <1>1, <1>2, <1>3, <1>4

\* So do its sums.
LEMMA SameRest ==
  ASSUME NEW left, NEW P, NEW held
  PROVE  Queue!TakeAll(left, P, held) = TakeAll(left, P, held)
BY DEF Queue!TakeAll, TakeAll, Queue!MapThenSumSet, MapThenSumSet,
   Queue!MapThenFoldSet, MapThenFoldSet

\* A pod is in one phase, and which is plain from where the loop keeps it.
LEMMA PhaseFacts ==
  ASSUME IndInv, NEW i \in Pods
  PROVE  /\ PhaseOf(i) = "unseen" <=> ~Arrived(i)
         /\ PhaseOf(i) = "waiting" <=> Waiting(i)
         /\ PhaseOf(i) = "running" <=> Running(i)
         /\ Running(i) => Arrived(i) /\ Admitted(i) /\ ~Waiting(i)
         /\ Waiting(i) => Arrived(i) /\ ~Admitted(i)
         /\ Admitted(i) => Arrived(i)
<1>1. Waiting(i) \/ Admitted(i) => Arrived(i)
  BY DEF IndInv, ArrivalsInOrder
<1>2. Waiting(i) => ~Admitted(i)
  BY DEF IndInv, Accounted
<1>3. Running(i) => Admitted(i)
  BY HeldIsAdmitted DEF IndInv, Running
<1> QED
  BY <1>1, <1>2, <1>3 DEF PhaseOf

\* The pods running on a node, by phase and home, are those it holds.
LEMMA RunningOnHolds ==
  ASSUME IndInv, NEW n \in Nodes
  PROVE  Queue!RunningOn(n) = allocated[n]
<1>1. allocated[n] \subseteq Pods
  BY DEF IndInv, TypeOK
<1>2. ASSUME NEW i \in Pods, NEW m \in Nodes, i \in allocated[m]
      PROVE  outcomes[i].node_id = m
  BY <1>2 DEF IndInv, ReleasesMatchHoldings
<1>3. ASSUME NEW i \in Pods
      PROVE  i \in allocated[n] <=> PhaseOf(i) = "running" /\ HomeOf(i) = n
  <2>1. CASE Running(i)
    BY <1>2, <2>1, PhaseFacts DEF HomeOf, Running
  <2>2. CASE ~Running(i)
    BY <2>2, PhaseFacts DEF Running
  <2> QED
    BY <2>1, <2>2
<1> QED
  BY <1>1, <1>3, SameWords DEF Queue!RunningOn

\* A node has room in the queue's view if it has by its counters.
LEMMA RoomIsFeasible ==
  ASSUME IndInv, CapacityConserved, NEW i \in Pods, NEW n \in Nodes
  PROVE  Queue!Room(i, n) <=> n \in Feasible(i)
<1>1. remaining[n] = TakeAll(Empty(NodeOf[n]), [j \in Pods |-> Pod(j)], allocated[n])
  BY DEF CapacityConserved
<1>2. [j \in Queue!Pods |-> Queue!Pod(j)] = [j \in Pods |-> Pod(j)]
  BY SameWords
<1>3. Queue!TakeAll(Queue!Empty(NodeOf[n]), [j \in Queue!Pods |-> Queue!Pod(j)], Queue!RunningOn(n))
        = remaining[n]
  BY <1>1, <1>2, SameRest, SameWords, RunningOnHolds
<1> QED
  BY <1>3, SameWords DEF Queue!Room, Feasible

-----------------------------------------------------------------------------
(* The initial states.                                                     *)

\* Nothing has been submitted.
LEMMA InitMaps == Init => Queue!Init
<1> SUFFICES ASSUME Init PROVE Queue!Init
  OBVIOUS
<1>1. \A i \in Pods : ~Arrived(i) /\ ~Running(i)
  BY DEF Init, Arrived, Running
<1>2. \A i \in Pods : PhaseOf(i) = "unseen" /\ HomeOf(i) = None
  BY <1>1 DEF PhaseOf, HomeOf
<1> QED
  BY <1>2, SameWords DEF Init, Queue!Init

-----------------------------------------------------------------------------
(* The steps.                                                              *)

\* Placing a pod, on arrival or from the queue, is Start.
LEMMA PlaceStarts ==
  ASSUME IndInv, CapacityConserved, UNCHANGED config,
         NEW i \in Pods, NEW n \in Nodes, NEW t \in Nat, SubmitTime(i) <= t, Place(i, n, t),
         Waiting(i) \/ (~Arrived(i) /\ \A j \in Pods : j < i => Arrived(j)),
         \A j \in Pods : j < i /\ Waiting(j) => Feasible(j) = {},
         \A j \in Pods : Waiting(j)' <=> Waiting(j) /\ j # i,
         \A j \in Pods : Arrived(j)' <=> Arrived(j) \/ j = i
  PROVE  Queue!Start(i, n)
<1>1. /\ TypeOK /\ trace' = trace /\ max_queue_time' = max_queue_time /\ Pods' = Pods
      /\ allocated \in [Nodes -> SUBSET Pods] /\ n \in Feasible(i)
      /\ remaining \in [Nodes -> Remaining] /\ trace \in Traces
  BY DEF IndInv, TypeOK, config, Pods, Place
<1>2. /\ outcomes'[i] = PlacedAt(i, n, t)
      /\ \A j \in Pods : j # i => outcomes'[j] = outcomes[j] /\ (Admitted(j)' <=> Admitted(j))
  BY <1>1, PlaceFacts
<1>3. \A j \in Pods : Running(j)' <=> Running(j) \/ j = i
  BY <1>1 DEF Place, Running
<1>4. PhaseOf(i)' = "running" /\ \A j \in Pods : j # i => PhaseOf(j)' = PhaseOf(j)
  BY <1>2, <1>3 DEF PhaseOf
<1>5. HomeOf(i)' = n /\ \A j \in Pods : j # i => HomeOf(j)' = HomeOf(j)
  BY <1>2, <1>3 DEF HomeOf, PlacedAt
<1>6. PhaseOf(i) = "waiting" \/ (PhaseOf(i) = "unseen" /\ \A j \in Pods : j < i => PhaseOf(j) # "unseen")
  BY PhaseFacts
<1>7. Queue!Room(i, n)
  BY <1>1, RoomIsFeasible
<1>8. ASSUME NEW j \in Pods, j < i, PhaseOf(j) = "waiting", AsksNoLess(Pod(i), Pod(j)) PROVE FALSE
  <2>1. Feasible(j) = {}
    BY <1>8, PhaseFacts
  <2>2. Pod(i) \in PodResource /\ Pod(j) \in PodResource
    BY <1>1, TraceFacts
  <2>3. n \in Feasible(j)
    BY <1>1, <1>8, <2>2, RoomForLess DEF Feasible
  <2> QED
    BY <2>1, <2>3
<1>9. Queue!Passed(i) = {}
  BY <1>8, SameWords DEF Queue!Passed
<1>10. /\ [j \in Pods |-> PhaseOf(j)]' = [[j \in Pods |-> PhaseOf(j)] EXCEPT ![i] = "running"]
       /\ [j \in Pods |-> HomeOf(j)]' = [[j \in Pods |-> HomeOf(j)] EXCEPT ![i] = n]
  BY <1>1, <1>4, <1>5
<1> QED
  BY <1>1, <1>6, <1>7, <1>9, <1>10, SameWords DEF Queue!Start, Queue!InTurn

\* A step that changes no pod's phase and no home stutters.
LEMMA Stutters ==
  ASSUME UNCHANGED <<config, allocated, outcomes>>,
         \A i \in Pods : (Waiting(i)' <=> Waiting(i)) /\ (Arrived(i)' <=> Arrived(i))
  PROVE  UNCHANGED Queue!vars
<1>1. Pods' = Pods /\ trace' = trace /\ max_queue_time' = max_queue_time
  BY DEF Pods, config
<1>2. \A i \in Pods : (Running(i)' <=> Running(i)) /\ (Admitted(i)' <=> Admitted(i))
  BY DEF Running, Admitted
<1>3. \A i \in Pods : PhaseOf(i)' = PhaseOf(i) /\ HomeOf(i)' = HomeOf(i)
  BY <1>2 DEF PhaseOf, HomeOf
<1> QED
  BY <1>1, <1>3 DEF Queue!vars

\* The pass goes past a pod without keeping it: the others go on waiting.
LEMMA ScanLeaves ==
  ASSUME IndInv, Scanning, NEW p \in Pods, p = pending[scan],
         UNCHANGED <<pending, pc, kept>>, scan' = scan + 1
  PROVE  \A j \in Pods : Waiting(j)' <=> Waiting(j) /\ j # p
<1>1. /\ trace \in Traces /\ pending \in Seq(Pods) /\ Len(pending) \in Nat
      /\ pc = "drain" /\ scan <= Len(pending)
  BY DEF IndInv, TypeOK, Scanning
<1>2. Pods = 1 .. Len(trace) /\ Len(trace) \in Nat
  BY <1>1, TraceFacts
<1>3. /\ scan \in Nat
      /\ \A k \in DOMAIN kept : kept[k] \in Pods /\ kept[k] < p
      /\ \A l \in scan + 1 .. Len(pending) : pending[l] \in Pods /\ p < pending[l]
  BY ScanFacts
<1>4. ASSUME NEW j \in Pods
      PROVE  (\E k \in scan + 1 .. Len(pending) : pending[k] = j)
             <=> (\E k \in scan .. Len(pending) : pending[k] = j) /\ j # p
  <2>1. scan .. Len(pending) = {scan} \cup (scan + 1 .. Len(pending))
    BY <1>1, <1>3
  <2>2. \A k \in scan + 1 .. Len(pending) : pending[k] # p
    BY <1>2, <1>3
  <2> QED
    BY <2>1, <2>2
<1>5. \A k \in DOMAIN kept : kept[k] # p
  BY <1>2, <1>3
<1> QED
  BY <1>1, <1>4, <1>5 DEF Waiting

\* A pod that is kept goes on waiting, and so do the others.
LEMMA DrainKeptWaits ==
  ASSUME IndInv, DrainKept
  PROVE  /\ UNCHANGED <<config, allocated, outcomes>>
         /\ \A i \in Pods : (Waiting(i)' <=> Waiting(i)) /\ (Arrived(i)' <=> Arrived(i))
<1>1. /\ pending \in Seq(Pods) /\ kept \in Seq(Pods) /\ Len(pending) \in Nat
      /\ Len(kept) \in Nat /\ DOMAIN kept = 1 .. Len(kept)
  BY DEF IndInv, TypeOK
<1>2. /\ Scanning /\ pc = "drain" /\ pc' = "drain" /\ scan <= Len(pending) /\ scan' = scan + 1
      /\ kept' = Append(kept, pending[scan]) /\ UNCHANGED config
      /\ UNCHANGED <<trace, allocated, outcomes, heap, pending>>
  BY DEF DrainKept, Scanning, config, cluster
<1>3. scan \in Nat
  BY <1>2, ScanFacts
<1>4. PICK p \in Pods : p = pending[scan]
  BY <1>2, ScanFacts
<1>5. /\ DOMAIN kept' = 1 .. Len(kept) + 1 /\ kept'[Len(kept) + 1] = p
      /\ \A k \in 1 .. Len(kept) : kept'[k] = kept[k]
  BY <1>1, <1>2, <1>4
<1>6. scan .. Len(pending) = {scan} \cup (scan + 1 .. Len(pending))
  BY <1>1, <1>2, <1>3
<1>7. \A i \in Pods : Waiting(i)' <=> Waiting(i)
  <2>1. ASSUME NEW i \in Pods
        PROVE  (\E k \in DOMAIN kept' : kept'[k] = i)
               <=> (\E k \in DOMAIN kept : kept[k] = i) \/ i = p
    BY <1>1, <1>5
  <2>2. ASSUME NEW i \in Pods
        PROVE  (\E k \in scan .. Len(pending) : pending[k] = i)
               <=> (\E k \in scan + 1 .. Len(pending) : pending[k] = i) \/ i = p
    BY <1>4, <1>6
  <2> QED
    BY <1>2, <2>1, <2>2 DEF Waiting
<1>8. \A i \in Pods : Arrived(i)' <=> Arrived(i)
  BY <1>2 DEF Arrived, Arrival, SubmitTime
<1> QED
  BY <1>2, <1>7, <1>8

\* When those kept become the queue, the same pods wait.
LEMMA DrainEndWaits ==
  ASSUME IndInv, DrainEnd
  PROVE  /\ UNCHANGED <<config, allocated, outcomes>>
         /\ \A i \in Pods : (Waiting(i)' <=> Waiting(i)) /\ (Arrived(i)' <=> Arrived(i))
<1>1. /\ pc = "drain" /\ pc' = "loop" /\ scan > Len(pending) /\ pending' = kept
      /\ UNCHANGED config /\ UNCHANGED <<trace, allocated, outcomes, heap>>
  BY DEF DrainEnd, config, cluster
<1>2. scan .. Len(pending) = {}
  BY <1>1 DEF IndInv, TypeOK
<1>3. \A i \in Pods : Waiting(i)' <=> Waiting(i)
  BY <1>1, <1>2 DEF Waiting
<1>4. \A i \in Pods : Arrived(i)' <=> Arrived(i)
  BY <1>1 DEF Arrived, Arrival, SubmitTime
<1> QED
  BY <1>1, <1>3, <1>4

\* An arrival that finds room starts at once; nobody who waits could use it.
LEMMA ArrivePlacedMaps ==
  ASSUME IndInv, CapacityConserved, NEW e \in heap, NEW n \in Nodes, ArrivePlaced(e, n)
  PROVE  Queue!Start(e.ev, n)
<1>1. /\ pc = "loop" /\ IsNext(e) /\ e.kind = "arrival" /\ Place(e.ev, n, e.time)
      /\ heap' = (heap \ {e}) \cup {CompletionAt(e.ev, n, e.time, seq + 1)}
      /\ UNCHANGED config /\ UNCHANGED <<pending, pc, scan, kept>>
  BY DEF ArrivePlaced
<1>2. /\ e.ev \in Pods /\ e.time = SubmitTime(e.ev) /\ e.time \in Nat
      /\ ~Arrived(e.ev) /\ ~Waiting(e.ev)
      /\ \A j \in Pods : Arrived(j)' <=> Arrived(j) \/ j = e.ev
      /\ \A j \in Pods : j < e.ev => Arrived(j)
  <2> DEFINE new == CompletionAt(e.ev, n, e.time, seq + 1)
  <2>1. new.kind = "release"
    BY DEF CompletionAt, Release
  <2> HIDE DEF new
  <2>2. /\ heap \ {e} \subseteq heap' /\ e \notin heap'
        /\ \A f \in heap' : f \in heap \/ f.kind = "release"
    BY <1>1, <2>1 DEF new
  <2> QED
    BY <1>1, <2>2, ArrivalFacts
<1>3. \A j \in Pods : Waiting(j)' <=> Waiting(j) /\ j # e.ev
  BY <1>1, <1>2 DEF Waiting
<1>4. \A j \in Pods : Waiting(j) => Feasible(j) = {}
  BY <1>1 DEF IndInv, QueueUnfit, WorkConserving, Waiting
<1>5. SubmitTime(e.ev) <= e.time
  BY <1>2
<1> QED
  BY <1>1, <1>2, <1>3, <1>4, <1>5, PlaceStarts

\* An arrival that fits nowhere by the counters fits nowhere in the queue's
\* view of the nodes, and waits.
LEMMA ArriveQueuedMaps ==
  ASSUME IndInv, CapacityConserved, NEW e \in heap, ArriveQueued(e)
  PROVE  Queue!Enqueue(e.ev)
<1>1. /\ pc = "loop" /\ pc' = "loop" /\ IsNext(e) /\ e.kind = "arrival" /\ Feasible(e.ev) = {}
      /\ pending' = Append(pending, e.ev) /\ heap' = heap \ {e} /\ UNCHANGED config
      /\ trace' = trace /\ max_queue_time' = max_queue_time
      /\ UNCHANGED <<allocated, outcomes>>
  BY DEF ArriveQueued, config, cluster
<1>2. PICK p \in Pods : p = e.ev
  BY <1>1, HeapKinds DEF IndInv
<1>3. /\ ~Arrived(p) /\ ~Admitted(p)
      /\ \A j \in Pods : Arrived(j)' <=> Arrived(j) \/ j = p
      /\ \A j \in Pods : j < p => Arrived(j)
  BY <1>1, <1>2, ArrivalFacts
<1>4. \A j \in Pods : Waiting(j)' <=> Waiting(j) \/ j = p
  <2>1. /\ pending \in Seq(Pods) /\ Len(pending) \in Nat /\ DOMAIN pending = 1 .. Len(pending)
    BY DEF IndInv, TypeOK
  <2>2. /\ DOMAIN pending' = 1 .. Len(pending) + 1 /\ pending'[Len(pending) + 1] = p
        /\ \A k \in 1 .. Len(pending) : pending'[k] = pending[k]
    BY <1>1, <1>2, <2>1
  <2> QED
    BY <1>1, <2>1, <2>2 DEF Waiting
<1>5. /\ Pods' = Pods
      /\ \A j \in Pods : (Running(j)' <=> Running(j)) /\ (Admitted(j)' <=> Admitted(j))
  BY <1>1 DEF Pods, Running, Admitted
<1>6. /\ PhaseOf(p)' = "waiting" /\ PhaseOf(p) = "unseen"
      /\ \A j \in Pods : j # p => PhaseOf(j)' = PhaseOf(j)
  BY <1>3, <1>4, <1>5 DEF PhaseOf
<1>7. \A j \in Pods : HomeOf(j)' = HomeOf(j)
  BY <1>1, <1>5 DEF HomeOf
<1>8. \A j \in Pods : j < p => PhaseOf(j) # "unseen"
  BY <1>3, PhaseFacts
<1>9. \A n \in Nodes : ~Queue!Room(p, n)
  BY <1>1, <1>2, RoomIsFeasible
<1>10. /\ [j \in Pods |-> PhaseOf(j)]' = [[j \in Pods |-> PhaseOf(j)] EXCEPT ![p] = "waiting"]
       /\ [j \in Pods |-> HomeOf(j)]' = [j \in Pods |-> HomeOf(j)]
  BY <1>5, <1>6, <1>7
<1>11. Queue!Enqueue(p)
  BY <1>1, <1>6, <1>8, <1>9, <1>10, SameWords DEF Queue!Enqueue, Queue!InTurn
<1> QED
  BY <1>2, <1>11

\* A release finishes the pod it names, on the one node that holds it.
LEMMA ReleasePodMaps ==
  ASSUME IndInv, NEW e \in heap, ReleasePod(e)
  PROVE  Queue!Finish(e.ev)
<1>1. /\ pc = "loop" /\ pc' = "drain" /\ scan' = 1 /\ kept' = <<>> /\ e.kind = "release"
      /\ heap' = heap \ {e} /\ UNCHANGED config /\ UNCHANGED <<pending, outcomes>>
      /\ trace' = trace /\ max_queue_time' = max_queue_time
  BY DEF ReleasePod, config
<1>2. PICK p \in Pods, m \in Nodes : p = e.ev /\ m = e.node
  BY <1>1, HeapKinds DEF IndInv
<1>3. p \in allocated[m] /\ \A k \in Nodes : p \in allocated[k] => k = m
  BY <1>1, <1>2 DEF IndInv, ReleasesMatchHoldings
<1>4. allocated' = [allocated EXCEPT ![m] = allocated[m] \ {p}]
  BY <1>2, <1>3 DEF ReleasePod
<1>5. allocated \in [Nodes -> SUBSET Pods] /\ pending \in Seq(Pods)
  BY DEF IndInv, TypeOK
<1>6. Pods' = Pods /\ \A j \in Pods : Admitted(j)' <=> Admitted(j)
  BY <1>1 DEF Pods, Admitted
<1>7. \A j \in Pods : Running(j)' <=> Running(j) /\ j # p
  BY <1>3, <1>4, <1>5 DEF Running
<1>8. \A j \in Pods : Waiting(j)' <=> Waiting(j)
  BY <1>1, <1>5 DEF Waiting
<1>9. \A j \in Pods : Arrived(j)' <=> Arrived(j)
  <2>1. \A j \in Pods : Arrival(j)' = Arrival(j) /\ Arrival(j).kind = "arrival"
    BY <1>1 DEF Arrival, SubmitTime
  <2> QED
    BY <1>1, <2>1 DEF Arrived
<1>10. Running(p) /\ Arrived(p) /\ Admitted(p) /\ ~Waiting(p) /\ PhaseOf(p) = "running"
  BY <1>3, PhaseFacts DEF Running
<1>11. PhaseOf(p)' = "finished" /\ \A j \in Pods : j # p => PhaseOf(j)' = PhaseOf(j)
  BY <1>6, <1>7, <1>8, <1>9, <1>10 DEF PhaseOf
<1>12. HomeOf(p)' = None /\ \A j \in Pods : j # p => HomeOf(j)' = HomeOf(j)
  BY <1>1, <1>7 DEF HomeOf
<1>13. /\ [j \in Pods |-> PhaseOf(j)]' = [[j \in Pods |-> PhaseOf(j)] EXCEPT ![p] = "finished"]
       /\ [j \in Pods |-> HomeOf(j)]' = [[j \in Pods |-> HomeOf(j)] EXCEPT ![p] = None]
  BY <1>6, <1>11, <1>12
<1>14. Queue!Finish(p)
  BY <1>1, <1>10, <1>13 DEF Queue!Finish
<1> QED
  BY <1>2, <1>14

\* A pod dropped from the queue is rejected, and only where a time-out is set.
LEMMA DrainExpiredMaps ==
  ASSUME IndInv, DrainExpired
  PROVE  Queue!Reject(pending[scan])
<1>1. /\ Scanning /\ pc = "drain" /\ pc' = "drain" /\ scan <= Len(pending)
      /\ Expired(pending[scan], now) /\ scan' = scan + 1 /\ UNCHANGED config
      /\ UNCHANGED <<trace, max_queue_time, allocated, heap, pending, outcomes, kept>>
  BY DEF DrainExpired, Scanning, config, cluster
<1>2. PICK p \in Pods : p = pending[scan]
  BY <1>1, ScanFacts
<1>3. /\ scan \in Nat /\ scan \in DOMAIN pending /\ Waiting(p) /\ ~Admitted(p) /\ Arrived(p)
      /\ \A k \in DOMAIN kept : kept[k] \in Pods /\ kept[k] < p
      /\ \A l \in scan + 1 .. Len(pending) : pending[l] \in Pods /\ p < pending[l]
  BY <1>1, <1>2, ScanFacts
<1>4. \A j \in Pods : Waiting(j)' <=> Waiting(j) /\ j # p
  BY <1>1, <1>2, <1>3, ScanLeaves
<1>5. /\ Pods' = Pods
      /\ \A j \in Pods : /\ Running(j)' <=> Running(j)
                         /\ Admitted(j)' <=> Admitted(j)
                         /\ Arrived(j)' <=> Arrived(j)
  BY <1>1 DEF Pods, Running, Admitted, Arrived, Arrival, SubmitTime
<1>6. PhaseOf(p) = "waiting" /\ ~Running(p)
  BY <1>3, PhaseFacts
<1>7. PhaseOf(p)' = "rejected" /\ \A j \in Pods : j # p => PhaseOf(j)' = PhaseOf(j)
  BY <1>3, <1>4, <1>5, <1>6 DEF PhaseOf
<1>8. \A j \in Pods : HomeOf(j)' = HomeOf(j)
  BY <1>1, <1>5 DEF HomeOf
<1>9. /\ [j \in Pods |-> PhaseOf(j)]' = [[j \in Pods |-> PhaseOf(j)] EXCEPT ![p] = "rejected"]
      /\ [j \in Pods |-> HomeOf(j)]' = [j \in Pods |-> HomeOf(j)]
  BY <1>5, <1>7, <1>8
<1>10. max_queue_time # None
  BY <1>1 DEF Expired
<1>11. Queue!Reject(p)
  BY <1>1, <1>6, <1>9, <1>10 DEF Queue!Reject
<1> QED
  BY <1>2, <1>11

\* A pod placed from the queue starts: whoever was kept ahead of it and asks
\* for no more would have fitted as well.
LEMMA DrainPlacedMaps ==
  ASSUME IndInv, CapacityConserved, NEW n \in Nodes, DrainPlaced(n)
  PROVE  Queue!Start(pending[scan], n)
<1>1. PICK p \in Pods : p = pending[scan]
  BY ScanFacts DEF DrainPlaced
<1>2. PICK t \in Nat : t = now
  BY DEF IndInv, TypeOK
<1>3. /\ Scanning /\ pc = "drain" /\ pc' = "drain" /\ scan <= Len(pending) /\ scan' = scan + 1
      /\ Place(p, n, t) /\ heap' = heap \cup {CompletionAt(p, n, t, seq)}
      /\ UNCHANGED config /\ trace' = trace /\ UNCHANGED <<pending, pc, kept>>
  BY <1>1, <1>2 DEF DrainPlaced, Scanning, config
<1>4. /\ scan \in Nat /\ scan \in DOMAIN pending /\ Waiting(p) /\ Arrived(p)
      /\ \A k \in DOMAIN kept : kept[k] \in Pods /\ kept[k] < p
      /\ \A l \in scan + 1 .. Len(pending) : pending[l] \in Pods /\ p < pending[l]
  BY <1>1, <1>3, ScanFacts
<1>5. SubmitTime(p) <= t
  BY <1>1, <1>2, <1>4 DEF IndInv, Timely
<1>6. \A j \in Pods : Waiting(j)' <=> Waiting(j) /\ j # p
  BY <1>1, <1>3, <1>4, ScanLeaves
<1>7. \A j \in Pods : Arrived(j)' <=> Arrived(j) \/ j = p
  <2>1. \A j \in Pods : Arrival(j)' = Arrival(j) /\ Arrival(j).kind = "arrival"
    BY <1>3 DEF Arrival, SubmitTime
  <2>2. CompletionAt(p, n, t, seq).kind = "release"
    BY DEF CompletionAt, Release
  <2> QED
    BY <1>3, <1>4, <2>1, <2>2 DEF Arrived
<1>8. ASSUME NEW j \in Pods, j < p, Waiting(j) PROVE Feasible(j) = {}
  <2>1. trace \in Traces /\ pending \in Seq(Pods) /\ Len(pending) \in Nat
    BY DEF IndInv, TypeOK
  <2>2. p \in Int /\ j \in Int
    BY <2>1, TraceFacts
  <2>3. \A k \in scan .. Len(pending) : k = scan \/ k \in scan + 1 .. Len(pending)
    BY <1>4, <2>1
  <2>4. \A k \in scan .. Len(pending) : pending[k] # j
    BY <1>1, <1>4, <1>8, <2>1, <2>2, <2>3, TraceFacts
  <2> QED
    BY <1>3, <1>8, <2>4 DEF IndInv, QueueUnfit, Waiting
<1>9. Queue!Start(p, n)
  BY <1>3, <1>4, <1>5, <1>6, <1>7, <1>8, PlaceStarts
<1> QED
  BY <1>1, <1>9

\* Every step of the loop is one of the queue or changes nothing there.
LEMMA NextMaps ==
  ASSUME IndInv, CapacityConserved, [Next]_vars
  PROVE  [Queue!Next]_(Queue!vars)
<1>1. ASSUME NEW e \in heap, NEW n \in Nodes, ArrivePlaced(e, n) PROVE Queue!Next
  <2>1. e.ev \in Queue!Pods
    BY <1>1, HeapKinds, SameWords DEF IndInv
  <2> QED
    BY <1>1, <2>1, ArrivePlacedMaps DEF Queue!Next, Queue!Admit
<1>2. ASSUME NEW e \in heap, ArriveQueued(e) PROVE Queue!Next
  <2>1. e.ev \in Queue!Pods
    BY <1>2, HeapKinds, SameWords DEF IndInv
  <2> QED
    BY <1>2, <2>1, ArriveQueuedMaps DEF Queue!Next, Queue!Admit
<1>3. ASSUME NEW e \in heap, ReleasePod(e) PROVE Queue!Next
  <2>1. e.ev \in Queue!Pods
    BY <1>3, HeapKinds, SameWords DEF IndInv
  <2> QED
    BY <1>3, <2>1, ReleasePodMaps DEF Queue!Next
<1>4. CASE DrainExpired
  <2>1. pending[scan] \in Queue!Pods
    BY <1>4, ScanFacts, SameWords DEF DrainExpired
  <2> QED
    BY <1>4, <2>1, DrainExpiredMaps DEF Queue!Next
<1>5. ASSUME NEW n \in Nodes, DrainPlaced(n) PROVE Queue!Next
  <2>1. pending[scan] \in Queue!Pods
    BY <1>5, ScanFacts, SameWords DEF DrainPlaced
  <2> QED
    BY <1>5, <2>1, DrainPlacedMaps DEF Queue!Next, Queue!Admit
<1>6. CASE DrainKept
  BY <1>6, DrainKeptWaits, Stutters
<1>7. CASE DrainEnd
  BY <1>7, DrainEndWaits, Stutters
<1>8. CASE UNCHANGED vars
  <2>1. UNCHANGED <<config, allocated, outcomes, trace, heap, pending, pc, scan, kept>>
    BY <1>8 DEF vars, cluster, config
  <2>2. \A i \in Pods : (Waiting(i)' <=> Waiting(i)) /\ (Arrived(i)' <=> Arrived(i))
    BY <2>1 DEF Waiting, Arrived, Arrival, SubmitTime
  <2> QED
    BY <2>1, <2>2, Stutters
<1> QED
  BY <1>1, <1>2, <1>3, <1>4, <1>5, <1>6, <1>7, <1>8 DEF Next

-----------------------------------------------------------------------------
\* The loop with its heap, its counters and its single pass per release does
\* only what the admission queue allows, for every cluster, trace and policy:
\* rooms are what the running pods leave, submissions are in turn, and no pod
\* passes a waiting one that could use its room (event_runtime.py:176-212).
THEOREM LoopIsQueue == Spec => Queue!Spec
<1>1. Init => Queue!Init
  BY InitMaps
<1>2. IndInv /\ CapacityConserved /\ [Next]_vars => [Queue!Next]_(Queue!vars)
  BY NextMaps
<1> QED
  BY <1>1, <1>2, Invariance, NothingLeaks, PTL DEF Spec, Queue!Spec

-----------------------------------------------------------------------------
(* The loop ends.  What is left to do is counted in phases: a pod not yet  *)
(* seen counts for more than one in hand, and one in hand for more than    *)
(* the pass its release will make.                                         *)

\* Nobody waits twice, so the queue is no longer than the trace.
LEMMA QueueIsShort ==
  ASSUME IndInv
  PROVE  Len(pending) \in Nat /\ Len(pending) <= Len(trace)
<1>1. /\ pending \in Seq(Pods) /\ Len(pending) \in Nat
      /\ Pods = 1 .. Len(trace) /\ Len(trace) \in Nat
  BY TraceFacts DEF IndInv, TypeOK
<1>2. /\ pending \in [1 .. Len(pending) -> Pods]
      /\ \A k, l \in 1 .. Len(pending) : k < l => pending[k] < pending[l]
  BY <1>1 DEF IndInv, QueueInOrder, Increasing
<1>3. ASSUME NEW k \in 1 .. Len(pending), NEW l \in 1 .. Len(pending), pending[k] = pending[l]
      PROVE  k = l
  <2>1. pending[k] \in Int /\ k \in Int /\ l \in Int
    BY <1>1, <1>2
  <2>2. ~(k < l) /\ ~(l < k)
    BY <1>2, <1>3, <2>1
  <2> QED
    BY <2>1, <2>2
<1>4. pending \in Injection(1 .. Len(pending), 1 .. Len(trace))
  BY <1>1, <1>2, <1>3 DEF Injection, IsInjective
<1>5. \A m \in Nat : IsFiniteSet(1 .. m) /\ Cardinality(1 .. m) = m
  <2>1. ASSUME NEW m \in Nat PROVE IsFiniteSet(1 .. m) /\ Cardinality(1 .. m) = m
    <3>1. 1 \in Int /\ m \in Int /\ (IF 1 > m THEN 0 ELSE m - 1 + 1) = m
      OBVIOUS
    <3> QED
      BY <3>1, FS_Interval
  <2> QED
    BY <2>1
<1>6. Cardinality(1 .. Len(pending)) <= Cardinality(1 .. Len(trace))
  BY <1>1, <1>4, <1>5, FS_Injection
<1> QED
  BY <1>1, <1>5, <1>6

\* What is counted are pods in three phases, and of an unfinished pass at
\* least its end is to come.
CountFacts ==
  /\ Unseen = {i \in Pods : PhaseOf(i) = "unseen"}
  /\ InHand = {i \in Pods : PhaseOf(i) \in {"waiting", "running"}}
  /\ IsFiniteSet(Unseen) /\ Cardinality(Unseen) \in Nat
  /\ IsFiniteSet(InHand) /\ Cardinality(InHand) \in Nat
  /\ Len(trace) \in Nat /\ Len(pending) \in Nat /\ Len(pending) <= Len(trace)
  /\ scan \in Nat /\ PassLeft \in Nat
  /\ pc = "loop" => PassLeft = 0
  /\ pc = "drain" => PassLeft = Len(pending) - scan + 2 /\ PassLeft > 0

LEMMA CountFactsHold == IndInv => CountFacts
<1> SUFFICES ASSUME IndInv PROVE CountFacts
  OBVIOUS
<1>1. Len(trace) \in Nat /\ IsFiniteSet(Pods)
  BY TraceFacts, FS_Interval DEF IndInv, TypeOK
<1>2. Unseen \in SUBSET Pods /\ InHand \in SUBSET Pods
  BY DEF Unseen, InHand
<1>3. /\ IsFiniteSet(Unseen) /\ Cardinality(Unseen) \in Nat
      /\ IsFiniteSet(InHand) /\ Cardinality(InHand) \in Nat
  BY <1>1, <1>2, FS_Subset, FS_CardinalityType
<1>4. /\ Len(pending) \in Nat /\ Len(pending) <= Len(trace)
      /\ scan \in 1 .. Len(pending) + 1 /\ pc \in {"loop", "drain"}
  BY QueueIsShort DEF IndInv, TypeOK
<1>5. /\ PassLeft \in Nat /\ scan \in Nat
      /\ pc = "loop" => PassLeft = 0
      /\ pc = "drain" => PassLeft = Len(pending) - scan + 2 /\ PassLeft > 0
  BY <1>4 DEF PassLeft
<1>6. /\ Unseen = {i \in Pods : PhaseOf(i) = "unseen"}
      /\ InHand = {i \in Pods : PhaseOf(i) \in {"waiting", "running"}}
  <2>1. \A i \in Pods : /\ PhaseOf(i) = "unseen" <=> ~Arrived(i)
                        /\ PhaseOf(i) = "waiting" <=> Waiting(i)
                        /\ PhaseOf(i) = "running" <=> Running(i)
    BY PhaseFacts
  <2> QED
    BY <2>1 DEF Unseen, InHand
<1> QED
  BY <1>1, <1>3, <1>4, <1>5, <1>6 DEF CountFacts

\* They hold after a step as well.
LEMMA CountFactsNext == (IndInv => CountFacts)'
BY CountFactsHold, PTL

\* A step that takes one pod from a phase to another moves it in the counts.
LEMMA PodMoves ==
  ASSUME IndInv, IndInv', UNCHANGED config, NEW i \in Pods, NEW to, to # "unseen",
         [j \in Pods |-> PhaseOf(j)]' = [[j \in Pods |-> PhaseOf(j)] EXCEPT ![i] = to]
  PROVE  /\ Cardinality(Unseen)' = IF PhaseOf(i) = "unseen" THEN Cardinality(Unseen) - 1
                                   ELSE Cardinality(Unseen)
         /\ Cardinality(InHand)' =
              IF to \in {"waiting", "running"}
              THEN IF PhaseOf(i) \in {"waiting", "running"} THEN Cardinality(InHand)
                   ELSE Cardinality(InHand) + 1
              ELSE IF PhaseOf(i) \in {"waiting", "running"} THEN Cardinality(InHand) - 1
                   ELSE Cardinality(InHand)
<1>1. Pods' = Pods
  BY DEF config, Pods
<1>2. \A j \in Pods : PhaseOf(j)' = IF j = i THEN to ELSE PhaseOf(j)
  BY <1>1
<1>3. /\ Unseen' = {j \in Pods : PhaseOf(j)' = "unseen"}
      /\ InHand' = {j \in Pods : PhaseOf(j)' \in {"waiting", "running"}}
  BY <1>1, CountFactsNext DEF CountFacts
<1>4. /\ Unseen = {j \in Pods : PhaseOf(j) = "unseen"}
      /\ InHand = {j \in Pods : PhaseOf(j) \in {"waiting", "running"}}
      /\ IsFiniteSet(Unseen) /\ IsFiniteSet(InHand)
  BY CountFactsHold DEF CountFacts
<1>5. Unseen' = Unseen \ {i}
  BY <1>1, <1>2, <1>3, <1>4
<1>6. InHand' = IF to \in {"waiting", "running"} THEN InHand \cup {i} ELSE InHand \ {i}
  BY <1>1, <1>2, <1>3, <1>4
<1>7. Cardinality(Unseen)' = IF i \in Unseen THEN Cardinality(Unseen) - 1 ELSE Cardinality(Unseen)
  BY <1>4, <1>5, FS_RemoveElement
<1>8. CASE to \in {"waiting", "running"}
  <2>1. Cardinality(InHand)' = IF i \in InHand THEN Cardinality(InHand)
                               ELSE Cardinality(InHand) + 1
    BY <1>4, <1>6, <1>8, FS_AddElement
  <2> QED
    BY <1>4, <1>7, <1>8, <2>1
<1>9. CASE to \notin {"waiting", "running"}
  <2>1. Cardinality(InHand)' = IF i \in InHand THEN Cardinality(InHand) - 1
                               ELSE Cardinality(InHand)
    BY <1>4, <1>6, <1>9, FS_RemoveElement
  <2> QED
    BY <1>4, <1>7, <1>9, <2>1
<1> QED
  BY <1>8, <1>9

\* A step that moves no pod leaves the counts alone.
LEMMA NobodyMoves ==
  ASSUME UNCHANGED <<config, allocated, outcomes>>,
         \A i \in Pods : (Waiting(i)' <=> Waiting(i)) /\ (Arrived(i)' <=> Arrived(i))
  PROVE  Cardinality(Unseen)' = Cardinality(Unseen) /\ Cardinality(InHand)' = Cardinality(InHand)
<1>1. Pods' = Pods /\ \A i \in Pods : Running(i)' <=> Running(i)
  BY DEF Pods, config, Running
<1>2. Unseen' = Unseen /\ InHand' = InHand
  BY <1>1 DEF Unseen, InHand
<1> QED
  BY <1>2

\* The arithmetic of a step: an arrival puts a pod in hand, a release frees
\* one and begins a pass, and a step of a pass lets nobody in.
LEMMA CountsFall ==
  ASSUME NEW len \in Nat, NEW u \in Nat, NEW h \in Nat, NEW q \in Nat,
         NEW u2 \in Nat, NEW h2 \in Nat, NEW q2 \in Nat,
         \/ u2 = u - 1 /\ h2 = h + 1 /\ q = 0 /\ q2 = 0
         \/ u2 = u /\ h2 = h - 1 /\ q = 0 /\ q2 <= len + 1
         \/ u2 = u /\ h2 <= h /\ q2 < q
  PROVE  /\ 0 <= (len + 2 + 1) * u2 + (len + 2) * h2 + q2
         /\ (len + 2 + 1) * u2 + (len + 2) * h2 + q2 < (len + 2 + 1) * u + (len + 2) * h + q
<1> DEFINE p == len + 2
<1>1. p * u2 \in Nat /\ p * h2 \in Nat /\ (p + 1) * u2 = p * u2 + u2
  OBVIOUS
<1>2. p * h2 <= p * h \/ ~(h2 <= h)
  OBVIOUS
<1>3. (p + 1) * (u - 1) + p * (h + 1) = (p + 1) * u + p * h - 1
  OBVIOUS
<1>4. p * (h - 1) = p * h - p
  OBVIOUS
<1>5. (p + 1) * u \in Nat /\ p * h \in Nat
  OBVIOUS
<1> QED
  BY <1>1, <1>2, <1>3, <1>4, <1>5

\* .. for the counts of the loop.
LEMMA StepsFall ==
  ASSUME IndInv, IndInv', UNCHANGED config,
         \/ /\ Cardinality(Unseen)' = Cardinality(Unseen) - 1
            /\ Cardinality(InHand)' = Cardinality(InHand) + 1
            /\ pc = "loop" /\ pc' = "loop"
         \/ /\ Cardinality(Unseen)' = Cardinality(Unseen)
            /\ Cardinality(InHand)' = Cardinality(InHand) - 1
            /\ pc = "loop" /\ pc' = "drain" /\ scan' = 1
         \/ /\ Cardinality(Unseen)' = Cardinality(Unseen)
            /\ Cardinality(InHand)' <= Cardinality(InHand)
            /\ pc = "drain"
            /\ pc' = "loop" \/ (pc' = "drain" /\ scan' = scan + 1 /\ pending' = pending)
  PROVE  0 <= StepsLeft' /\ StepsLeft' < StepsLeft
<1>1. /\ Len(trace) \in Nat /\ Len(pending) \in Nat /\ scan \in Nat /\ PassLeft \in Nat
      /\ Cardinality(Unseen) \in Nat /\ Cardinality(InHand) \in Nat
      /\ pc = "loop" => PassLeft = 0
      /\ pc = "drain" => PassLeft = Len(pending) - scan + 2 /\ PassLeft > 0
  BY CountFactsHold DEF CountFacts
<1>2. /\ Cardinality(Unseen)' \in Nat /\ Cardinality(InHand)' \in Nat
      /\ Len(pending') \in Nat /\ Len(pending') <= Len(trace') /\ PassLeft' \in Nat
      /\ pc' = "loop" => PassLeft' = 0
      /\ pc' = "drain" => PassLeft' = Len(pending') - scan' + 2
  BY CountFactsNext DEF CountFacts
<1>3. trace' = trace
  BY DEF config
<1>4. \/ /\ Cardinality(Unseen)' = Cardinality(Unseen) - 1
         /\ Cardinality(InHand)' = Cardinality(InHand) + 1
         /\ PassLeft = 0 /\ PassLeft' = 0
      \/ /\ Cardinality(Unseen)' = Cardinality(Unseen)
         /\ Cardinality(InHand)' = Cardinality(InHand) - 1
         /\ PassLeft = 0 /\ PassLeft' <= Len(trace) + 1
      \/ /\ Cardinality(Unseen)' = Cardinality(Unseen)
         /\ Cardinality(InHand)' <= Cardinality(InHand)
         /\ PassLeft' < PassLeft
  BY <1>1, <1>2, <1>3
<1>5. /\ StepsLeft = (Len(trace) + 2 + 1) * Cardinality(Unseen)
                     + (Len(trace) + 2) * Cardinality(InHand) + PassLeft
      /\ StepsLeft' = (Len(trace) + 2 + 1) * Cardinality(Unseen)'
                      + (Len(trace) + 2) * Cardinality(InHand)' + PassLeft'
  BY <1>3 DEF StepsLeft, PassLength
<1>6. ASSUME NEW len \in Nat, NEW u \in Nat, NEW h \in Nat, NEW q \in Nat,
             NEW u2 \in Nat, NEW h2 \in Nat, NEW q2 \in Nat,
             len = Len(trace), u = Cardinality(Unseen), h = Cardinality(InHand), q = PassLeft,
             u2 = Cardinality(Unseen)', h2 = Cardinality(InHand)', q2 = PassLeft'
      PROVE  0 <= StepsLeft' /\ StepsLeft' < StepsLeft
  <2>1. \/ u2 = u - 1 /\ h2 = h + 1 /\ q = 0 /\ q2 = 0
        \/ u2 = u /\ h2 = h - 1 /\ q = 0 /\ q2 <= len + 1
        \/ u2 = u /\ h2 <= h /\ q2 < q
    BY <1>4, <1>6
  <2>2. /\ 0 <= (len + 2 + 1) * u2 + (len + 2) * h2 + q2
        /\ (len + 2 + 1) * u2 + (len + 2) * h2 + q2 < (len + 2 + 1) * u + (len + 2) * h + q
    BY <2>1, CountsFall
  <2>3. /\ StepsLeft = (len + 2 + 1) * u + (len + 2) * h + q
        /\ StepsLeft' = (len + 2 + 1) * u2 + (len + 2) * h2 + q2
    BY <1>5, <1>6
  <2> QED
    BY <2>2, <2>3
<1> QED
  BY <1>1, <1>2, <1>6

\* Every step of the loop leaves fewer.
LEMMA NextFalls ==
  ASSUME IndInv, IndInv', CapacityConserved, Next
  PROVE  0 <= StepsLeft' /\ StepsLeft' < StepsLeft
<1> DEFINE phases == [j \in Pods |-> PhaseOf(j)]
<1>1. ASSUME NEW e \in heap, e.kind = "arrival" PROVE e.ev \in Pods /\ PhaseOf(e.ev) = "unseen"
  <2>1. e.ev \in Pods /\ e = Arrival(e.ev)
    BY <1>1, HeapKinds DEF IndInv
  <2> QED
    BY <2>1 DEF PhaseOf, Arrived
<1>2. ASSUME NEW e \in heap, pc = "loop", pc' = "loop", UNCHANGED config, e.kind = "arrival",
             NEW to \in {"waiting", "running"}, phases' = [phases EXCEPT ![e.ev] = to]
      PROVE  0 <= StepsLeft' /\ StepsLeft' < StepsLeft
  <2>1. e.ev \in Pods /\ PhaseOf(e.ev) = "unseen"
    BY <1>1, <1>2
  <2>2. /\ Cardinality(Unseen)' = Cardinality(Unseen) - 1
        /\ Cardinality(InHand)' = Cardinality(InHand) + 1
    BY <1>2, <2>1, PodMoves
  <2> QED
    BY <1>2, <2>2, StepsFall
<1>3. ASSUME NEW e \in heap, NEW n \in Nodes, ArrivePlaced(e, n)
      PROVE  0 <= StepsLeft' /\ StepsLeft' < StepsLeft
  <2>1. pc = "loop" /\ pc' = "loop" /\ UNCHANGED config /\ e.kind = "arrival"
    BY <1>3 DEF ArrivePlaced
  <2>2. phases' = [phases EXCEPT ![e.ev] = "running"]
    BY <1>3, ArrivePlacedMaps DEF Queue!Start
  <2> QED
    BY <1>2, <2>1, <2>2
<1>4. ASSUME NEW e \in heap, ArriveQueued(e)
      PROVE  0 <= StepsLeft' /\ StepsLeft' < StepsLeft
  <2>1. pc = "loop" /\ pc' = "loop" /\ UNCHANGED config /\ e.kind = "arrival"
    BY <1>4 DEF ArriveQueued
  <2>2. phases' = [phases EXCEPT ![e.ev] = "waiting"]
    BY <1>4, ArriveQueuedMaps DEF Queue!Enqueue
  <2> QED
    BY <1>2, <2>1, <2>2
<1>5. ASSUME NEW e \in heap, ReleasePod(e)
      PROVE  0 <= StepsLeft' /\ StepsLeft' < StepsLeft
  <2>1. pc = "loop" /\ pc' = "drain" /\ scan' = 1 /\ UNCHANGED config /\ e.kind = "release"
    BY <1>5 DEF ReleasePod
  <2>2. PICK p \in Pods : p = e.ev
    BY <2>1, HeapKinds DEF IndInv
  <2>3. PhaseOf(p) = "running" /\ phases' = [phases EXCEPT ![p] = "finished"]
    BY <1>5, <2>2, ReleasePodMaps DEF Queue!Finish
  <2>4. /\ Cardinality(Unseen)' = Cardinality(Unseen)
        /\ Cardinality(InHand)' = Cardinality(InHand) - 1
    BY <2>1, <2>3, PodMoves
  <2> QED
    BY <2>1, <2>4, StepsFall
<1>6. ASSUME Scanning, NEW p \in Pods, p = pending[scan], NEW to \in {"running", "rejected"},
             UNCHANGED <<config, pending, pc>>, scan' = scan + 1,
             phases' = [phases EXCEPT ![p] = to]
      PROVE  0 <= StepsLeft' /\ StepsLeft' < StepsLeft
  <2>1. PhaseOf(p) = "waiting"
    BY <1>6, ScanFacts, PhaseFacts
  <2>2. Cardinality(InHand) \in Nat
    BY CountFactsHold DEF CountFacts
  <2>3. /\ Cardinality(Unseen)' = Cardinality(Unseen)
        /\ Cardinality(InHand)' <= Cardinality(InHand)
    BY <1>6, <2>1, <2>2, PodMoves
  <2> QED
    BY <1>6, <2>3, StepsFall DEF Scanning
<1>7. CASE DrainExpired
  <2>1. PICK p \in Pods : p = pending[scan]
    BY <1>7, ScanFacts DEF DrainExpired
  <2>2. Scanning /\ UNCHANGED <<config, pending, pc>> /\ scan' = scan + 1
    BY <1>7 DEF DrainExpired
  <2>3. phases' = [phases EXCEPT ![p] = "rejected"]
    BY <1>7, <2>1, DrainExpiredMaps DEF Queue!Reject
  <2> QED
    BY <1>6, <2>1, <2>2, <2>3
<1>8. ASSUME NEW n \in Nodes, DrainPlaced(n)
      PROVE  0 <= StepsLeft' /\ StepsLeft' < StepsLeft
  <2>1. PICK p \in Pods : p = pending[scan]
    BY <1>8, ScanFacts DEF DrainPlaced
  <2>2. Scanning /\ UNCHANGED <<config, pending, pc>> /\ scan' = scan + 1
    BY <1>8 DEF DrainPlaced
  <2>3. phases' = [phases EXCEPT ![p] = "running"]
    BY <1>8, <2>1, DrainPlacedMaps DEF Queue!Start
  <2> QED
    BY <1>6, <2>1, <2>2, <2>3
<1>9. ASSUME DrainKept \/ DrainEnd
      PROVE  0 <= StepsLeft' /\ StepsLeft' < StepsLeft
  <2>1. /\ Cardinality(Unseen)' = Cardinality(Unseen)
        /\ Cardinality(InHand)' = Cardinality(InHand)
    BY <1>9, DrainKeptWaits, DrainEndWaits, NobodyMoves
  <2>2. /\ UNCHANGED config /\ pc = "drain"
        /\ pc' = "loop" \/ (pc' = "drain" /\ scan' = scan + 1 /\ pending' = pending)
    BY <1>9 DEF DrainKept, DrainEnd, Scanning
  <2>3. Cardinality(InHand) \in Nat
    BY CountFactsHold DEF CountFacts
  <2> QED
    BY <2>1, <2>2, <2>3, StepsFall
<1> HIDE DEF phases
<1> QED
  BY <1>3, <1>4, <1>5, <1>7, <1>8, <1>9 DEF Next

\* At first every pod of the trace is still to be seen.
LEMMA InitSteps == Init => StepsLeft = Len(trace) * (Len(trace) + 3)
<1> SUFFICES ASSUME Init PROVE StepsLeft = Len(trace) * (Len(trace) + 3)
  OBVIOUS
<1>1. /\ Len(trace) \in Nat /\ Pods = 1 .. Len(trace) /\ pc = "loop" /\ pending = <<>>
      /\ heap = {Arrival(i) : i \in Pods} /\ allocated = [n \in Nodes |-> {}]
  BY TraceFacts DEF Init
<1>2. Unseen = 1 .. Len(trace) /\ InHand = {}
  BY <1>1 DEF Unseen, InHand, Arrived, Waiting, Running
<1>3. Cardinality(Unseen) = Len(trace) /\ Cardinality(InHand) = 0
  <2>1. 1 \in Int /\ Len(trace) \in Int
        /\ (IF 1 > Len(trace) THEN 0 ELSE Len(trace) - 1 + 1) = Len(trace)
    BY <1>1
  <2> QED
    BY <1>2, <2>1, FS_Interval, FS_EmptySet
<1>4. \A len \in Nat : (len + 2 + 1) * len + (len + 2) * 0 + 0 = len * (len + 3)
  OBVIOUS
<1> QED
  BY <1>1, <1>3, <1>4 DEF StepsLeft, PassLength, PassLeft

\* Whatever the policy chooses, the loop ends on every trace: of n pods it
\* makes at most n * (n + 3) steps, as each leaves fewer to be made than the
\* one before it and there are never fewer than none (event_runtime.py:176-212).
THEOREM StepsAreBounded ==
  Spec => StepsLeft = Len(trace) * (Len(trace) + 3) /\ StepsRunOut
<1>1. IndInv /\ CapacityConserved /\ [Next]_vars
        => [0 <= StepsLeft' /\ StepsLeft' < StepsLeft]_vars
  BY NextInv, NextFalls
<1>2. Spec => [][0 <= StepsLeft' /\ StepsLeft' < StepsLeft]_vars
  BY <1>1, Invariance, NothingLeaks, PTL DEF Spec
<1>3. Spec => StepsLeft = Len(trace) * (Len(trace) + 3)
  BY InitSteps DEF Spec
<1> QED
  BY <1>2, <1>3 DEF StepsRunOut
=============================================================================
