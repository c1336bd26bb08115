------------------------- MODULE PolicyRuntimeProofs -------------------------
(***************************************************************************)
(* Proofs about PolicyRuntime, for every cluster, trace and policy.  What  *)
(* EventRuntimeProofs shows of a loop whose policy may choose any node     *)
(* with room carries over to the loop with a real policy, which is what    *)
(* the first two parts are about.  The others are about what a run leaves  *)
(* behind: the outcomes it returns, the samples it took, and the rows      *)
(* reported of them.                                                       *)
(***************************************************************************)
EXTENDS PolicyRuntime, EventRuntimeProofs

-----------------------------------------------------------------------------
\* A step with a policy is a step of the loop, or leaves the loop alone: the
\* policy only narrows the choice of the node (event_runtime.py:174-195).
LEMMA RunStepIsStep ==
  ASSUME [RunNext]_runVars
  PROVE  [Next]_vars
<1>1. CASE \E e \in heap : \E n \in Nodes : RunArrivePlaced(e, n)
  BY <1>1 DEF RunArrivePlaced, Next
<1>2. CASE \E e \in heap : RunArriveQueued(e)
  BY <1>2 DEF RunArriveQueued, Next
<1>3. CASE \E n \in Nodes : RunDrainPlaced(n)
  BY <1>3 DEF RunDrainPlaced, Next
<1>4. CASE RunOther
  BY <1>4 DEF RunOther, Next
<1>5. CASE UNCHANGED runVars
  BY <1>5 DEF runVars
<1> QED
  BY <1>1, <1>2, <1>3, <1>4, <1>5 DEF RunNext

\* A run with any policy is a run of the loop (experiment.py:112-117).
THEOREM RunIsLoop == RunSpec => Spec
<1>1. RunInit => Init
  BY DEF RunInit
<1>2. [RunNext]_runVars => [Next]_vars
  BY RunStepIsStep
<1> QED
  BY <1>1, <1>2, PTL DEF RunSpec, Spec

-----------------------------------------------------------------------------
(* The contract.  The runs' Policy and the policies ClusterProofs speaks   *)
(* of are two instances of one module; they are equal operator by operator. *)
(* Of ClusterProofs only the contract is used here: no batch is scheduled.  *)

Proved == INSTANCE ClusterProofs WITH
            NodeList <- NodeOf, Batches <- {}, pods <- <<>>, results <- <<>>

\* What Cluster and StaticRows assume of their arguments is met.
LEMMA ArgumentsMet ==
  /\ Proved!NodeListAssumption /\ Proved!ArgumentsAssumption /\ Proved!ReportAssumption
<1>1. Proved!NodeListAssumption
  BY NodeListAssumption DEF Proved!NodeListAssumption, Proved!NodeResource, NodeResource
<1>2. DOMAIN NodeOf = Nodes
  BY NodesAssumption
<1>3. Proved!PodResource = PodResource /\ Proved!POLICIES = Policy!POLICIES
  BY DEF Proved!PodResource, PodResource, Proved!POLICIES, Policy!POLICIES
<1>4. Proved!ArgumentsAssumption
  BY <1>2, <1>3, PolicyAssumption, NoneAssumption
  DEF Proved!ArgumentsAssumption, Proved!Typical, Proved!NodeIds
<1>5. Proved!ReportAssumption
  BY <1>3, ReportAssumption DEF Proved!ReportAssumption
<1> QED
  BY <1>1, <1>4, <1>5

\* The two instances measure and compare alike.
LEMMA SameMeasures ==
  /\ \A p, l : Policy!Feasible(p, l) = Proved!Feasible(p, l)
  /\ \A S : Policy!FirstOf(S) = Proved!FirstOf(S)
  /\ \A S, f : Policy!Least(S, f) = Proved!Least(S, f)
  /\ \A a, b : Policy!Plus(a, b) = Proved!Plus(a, b)
  /\ \A a : Policy!Negated(a) = Proved!Negated(a)
  /\ \A p, n, l : Policy!FitsIn(p, n, l) <=> Proved!FitsIn(p, n, l)
  /\ \A l, p : Policy!Take(l, p) = Proved!Take(l, p)
<1>1. \A a, b : Policy!AtMost(a, b) <=> Proved!AtMost(a, b)
  BY DEF Policy!AtMost, Proved!AtMost
<1>2. \A p, n, l : Policy!FitsIn(p, n, l) <=> Proved!FitsIn(p, n, l)
  BY DEF Policy!FitsIn, Proved!FitsIn, Policy!TypesAgree, Proved!TypesAgree, Policy!AnyType,
         Proved!AnyType
<1>3. \A p, l : Policy!Feasible(p, l) = Proved!Feasible(p, l)
  BY <1>2 DEF Policy!Feasible, Proved!Feasible, Policy!NodeIds, Proved!NodeIds
<1>4. \A S : Policy!FirstOf(S) = Proved!FirstOf(S)
  BY DEF Policy!FirstOf, Proved!FirstOf
<1>5. \A S, f : Policy!Least(S, f) = Proved!Least(S, f)
  BY <1>1 DEF Policy!Least, Proved!Least
<1>6. \A a, b : Policy!Plus(a, b) = Proved!Plus(a, b)
  BY DEF Policy!Plus, Proved!Plus
<1>7. \A a : Policy!Negated(a) = Proved!Negated(a)
  BY DEF Policy!Negated, Proved!Negated
<1>8. \A l, p : Policy!Take(l, p) = Proved!Take(l, p)
  BY DEF Policy!Take, Proved!Take
<1> QED
  BY <1>2, <1>3, <1>4, <1>5, <1>6, <1>7, <1>8

\* They score alike.
LEMMA SameScores ==
  /\ \A n, l : Policy!GpuUtilization(n, l) = Proved!GpuUtilization(n, l)
  /\ \A n, l : Policy!CpuUtilization(n, l) = Proved!CpuUtilization(n, l)
  /\ \A t, n, l : Policy!UnfitFraction(t, n, l) = Proved!UnfitFraction(t, n, l)
  /\ \A t, n, l : Policy!UnfitFractionWeighted(t, n, l) = Proved!UnfitFractionWeighted(t, n, l)
<1>1. \A c, l : Policy!UsedShare(c, l) = Proved!UsedShare(c, l)
  BY DEF Policy!UsedShare, Proved!UsedShare
<1>2. \A n : Policy!MilliGpuCapacity(n) = Proved!MilliGpuCapacity(n)
  BY DEF Policy!MilliGpuCapacity, Proved!MilliGpuCapacity, Policy!MILLI, Proved!MILLI
<1>3. \A n, l : Policy!GpuUtilization(n, l) = Proved!GpuUtilization(n, l)
  BY <1>1, <1>2 DEF Policy!GpuUtilization, Proved!GpuUtilization
<1>4. \A n, l : Policy!CpuUtilization(n, l) = Proved!CpuUtilization(n, l)
  BY <1>1 DEF Policy!CpuUtilization, Proved!CpuUtilization
<1>5. \A t, n, l : Policy!Unfit(t, n, l) = Proved!Unfit(t, n, l)
  BY SameMeasures DEF Policy!Unfit, Proved!Unfit
<1>6. \A S : Policy!Cardinality(S) = Proved!Cardinality(S)
  BY DEF Policy!Cardinality, Proved!Cardinality
<1>7. \A t, n, l : Policy!UnfitFraction(t, n, l) = Proved!UnfitFraction(t, n, l)
  BY <1>5, <1>6 DEF Policy!UnfitFraction, Proved!UnfitFraction
<1>8. ASSUME NEW t, NEW K PROVE Policy!WeightOf(t, K) = Proved!WeightOf(t, K)
  BY DEF Policy!WeightOf, Proved!WeightOf, Policy!MapThenSumSet, Proved!MapThenSumSet,
         MapThenSumSet, Policy!MapThenFoldSet, Proved!MapThenFoldSet, MapThenFoldSet
<1>9. \A t, n, l : Policy!UnfitFractionWeighted(t, n, l) = Proved!UnfitFractionWeighted(t, n, l)
  BY <1>5, <1>8 DEF Policy!UnfitFractionWeighted, Proved!UnfitFractionWeighted
<1> QED
  BY <1>3, <1>4, <1>7, <1>9

\* They choose alike.
LEMMA SameChoice ==
  ASSUME NEW name, NEW p, NEW l, NEW c, NEW t
  PROVE  Policy!Chosen(name, p, l, c, t) = Proved!Chosen(name, p, l, c, t)
<1>1. \A left : Policy!Leftover(p, left) = Proved!Leftover(p, left)
  BY DEF Policy!Leftover, Proved!Leftover
<1>2. Policy!BestFit(p, l) = Proved!BestFit(p, l)
  BY <1>1, SameMeasures DEF Policy!BestFit, Proved!BestFit
<1>3. Policy!WorstFit(p, l) = Proved!WorstFit(p, l)
  BY <1>1, SameMeasures DEF Policy!WorstFit, Proved!WorstFit
<1>4. Policy!GpuPacking(p, l) = Proved!GpuPacking(p, l)
  BY SameMeasures, SameScores DEF Policy!GpuPacking, Proved!GpuPacking
<1>5. Policy!LeastRequested(p, l) = Proved!LeastRequested(p, l)
  BY SameMeasures, SameScores DEF Policy!LeastRequested, Proved!LeastRequested
<1>6. Policy!RoundRobin(p, l, c) = Proved!RoundRobin(p, l, c)
  BY SameMeasures DEF Policy!RoundRobin, Proved!RoundRobin, Policy!Offset, Proved!Offset
<1>7. \A a, b : Policy!Gradient(a, b) = Proved!Gradient(a, b)
  BY SameMeasures DEF Policy!Gradient, Proved!Gradient
<1>8. Policy!Fgd(p, l, t) = Proved!Fgd(p, l, t)
  BY <1>2, <1>7, SameMeasures, SameScores DEF Policy!Fgd, Proved!Fgd
<1>9. \A score : Policy!WeightedScore(p, l, t, score) = Proved!WeightedScore(p, l, t, score)
  BY <1>2, <1>8, SameMeasures DEF Policy!WeightedScore, Proved!WeightedScore
<1>10. \A n : Policy!WeightedGradient(p, n, l, t) = Proved!WeightedGradient(p, n, l, t)
  BY <1>7, SameMeasures, SameScores DEF Policy!WeightedGradient, Proved!WeightedGradient
<1>11. Policy!WFgd(p, l, t) = Proved!WFgd(p, l, t)
  BY <1>9, <1>10, SameMeasures DEF Policy!WFgd, Proved!WFgd
<1>12. Policy!WFgdBalanced(p, l, t) = Proved!WFgdBalanced(p, l, t)
  BY <1>9, <1>10, SameMeasures, SameScores
  DEF Policy!WFgdBalanced, Proved!WFgdBalanced, Policy!BalanceLambda, Proved!BalanceLambda
<1> QED
  BY <1>2, <1>3, <1>4, <1>5, <1>6, <1>8, <1>11, <1>12, SameMeasures DEF Policy!Chosen, Proved!Chosen

\* What a run keeps of its choice of policy and typical pods, and the cursor.
Configured == policy \in Names /\ typical \in Typicals /\ round_robin_state \in Int

\* The policy and the typical pods stay, and the cursor stays a number.
LEMMA StaysConfigured == RunSpec => []Configured
<1>1. RunInit => Configured
  BY DEF RunInit, Configured
<1>2. ASSUME Configured, [RunNext]_runVars PROVE Configured'
  <2>1. ASSUME NEW n \in Nodes PROVE Policy!CursorAfter(n) \in Int
    <3>1. NodeOf \in Seq(NodeResource) /\ NodeOf # <<>> /\ Nodes = DOMAIN NodeOf
      BY NodeListAssumption, NodesAssumption
    <3>2. n \in Int /\ Len(NodeOf) \in Nat \ {0}
      BY <3>1
    <3> QED
      BY <3>2 DEF Policy!CursorAfter
  <2>2. ASSUME NEW n \in Nodes, CursorMoves(n) PROVE round_robin_state' \in Int
    BY <1>2, <2>1, <2>2 DEF CursorMoves, Configured
  <2>3. CASE \E e \in heap : \E n \in Nodes : RunArrivePlaced(e, n)
    BY <1>2, <2>2, <2>3 DEF RunArrivePlaced, Configured, choice
  <2>4. CASE \E e \in heap : RunArriveQueued(e)
    BY <1>2, <2>4 DEF RunArriveQueued, Configured, choice
  <2>5. CASE \E n \in Nodes : RunDrainPlaced(n)
    BY <1>2, <2>2, <2>5 DEF RunDrainPlaced, Configured, choice
  <2>6. CASE RunOther
    BY <1>2, <2>6 DEF RunOther, Configured, choice
  <2>7. CASE UNCHANGED runVars
    BY <1>2, <2>7 DEF runVars, Configured, choice
  <2> QED
    BY <1>2, <2>3, <2>4, <2>5, <2>6, <2>7 DEF RunNext
<1> QED
  BY <1>1, <1>2, PTL DEF RunSpec

\* In every state of every run the policy returns a node with room if there
\* is one, and None otherwise (policies.py:6-8): the loop's assumption about
\* its policy (event_runtime.py:174) is met by all ten.
THEOREM ContractAlwaysKept == RunSpec => []ContractKept
<1>1. ASSUME TypeOK, Configured PROVE ContractKept
  <2> SUFFICES ASSUME NEW i \in Pods
               PROVE  Pick(i) \subseteq Feasible(i) /\ (Feasible(i) # {} => Pick(i) # {})
    BY DEF ContractKept
  <2>1. NodeOf \in Seq(NodeResource) /\ NodeOf # <<>> /\ Nodes = DOMAIN NodeOf
    BY NodeListAssumption, NodesAssumption
  <2>2. Pod(i) \in PodResource
    BY <1>1, TraceFacts DEF TypeOK
  <2>3. Proved!NodeIds = Nodes
    BY <2>1 DEF Proved!NodeIds
  <2>4. remaining \in [Nodes -> Remaining]
    BY <1>1 DEF TypeOK
  <2>5. Proved!Weighted(typical)
    BY <1>1, PolicyAssumption DEF Proved!Weighted, Configured, Proved!PodResource, PodResource
  <2>6. policy \in Proved!POLICIES /\ round_robin_state \in Int
    BY <1>1, PolicyAssumption DEF Proved!POLICIES, Policy!POLICIES, Configured
  <2>7. Proved!Keeps(Proved!Feasible(Pod(i), remaining),
                     Proved!Chosen(policy, Pod(i), remaining, round_robin_state, typical))
    <3>1. NodeOf \in Seq(Proved!NodeResource)
      BY <2>1 DEF Proved!NodeResource, NodeResource
    <3>2. Pod(i) \in Proved!PodResource
      BY <2>2 DEF Proved!PodResource, PodResource
    <3>3. remaining \in [Proved!NodeIds -> Proved!Remaining]
      BY <2>3, <2>4 DEF Proved!Remaining, Remaining
    <3> QED
      BY <2>1, <2>5, <2>6, <3>1, <3>2, <3>3, ArgumentsMet, Proved!PolicyContract
  <2>8. Proved!Feasible(Pod(i), remaining) = Feasible(i)
    BY <2>3 DEF Proved!Feasible, Feasible, Proved!FitsIn, FitsIn,
       Proved!TypesAgree, TypesAgree, Proved!AnyType, AnyType
  <2>9. Proved!Chosen(policy, Pod(i), remaining, round_robin_state, typical) = Pick(i)
    BY SameChoice DEF Pick
  <2> QED
    BY <2>7, <2>8, <2>9 DEF Proved!Keeps
<1>2. RunSpec => []TypeOK
  BY RunIsLoop, TypeCorrect, PTL
<1> QED
  BY <1>1, <1>2, StaysConfigured, PTL

-----------------------------------------------------------------------------
(* What one step does to the record.                                       *)

\* Pod p is put on node n, as it arrives or as another pod completes.
NewlyPlaced(p, n) ==
  /\ ~Admitted(p) /\ Place(p, n, now') /\ SubmitTime(p) <= now'
  /\ \/ ~Arrived(p) /\ now' = SubmitTime(p)
     \/ pc = "drain" /\ now' = now

\* The clock does not run back, nor past the completion of a pod on a node.
ClockMoves ==
  /\ now \in Nat /\ now' \in Nat /\ now <= now'
  /\ \A i \in Pods : Running(i) => Admitted(i) /\ now' <= outcomes[i].completion_time

\* An arrival is handled at its time, and is behind the loop from then on.
Arrivals ==
  \A i \in Pods : /\ Arrived(i) => Arrived(i)'
                  /\ Arrived(i)' => Arrived(i) \/ SubmitTime(i) = now'

\* A pod leaves its node only as it completes; a drain follows.
Departures ==
  \A i \in Pods : Running(i) =>
    Running(i)' \/ (outcomes[i].completion_time = now' /\ pc' = "drain")

\* A pod on a node is admitted, and its completion lies ahead.
LEMMA RunningFacts ==
  ASSUME TypeOK, ReleasesMatchHoldings, NEW i \in Pods, NEW n \in Nodes, i \in allocated[n]
  PROVE  /\ Admitted(i) /\ outcomes[i].node_id = n
         /\ \E f \in heap : /\ f.kind = "release" /\ f.ev = i /\ f.node = n
                            /\ f.time = outcomes[i].completion_time
<1>1. PICK f \in heap : f.kind = "release" /\ f.ev = i /\ f.node = n
  BY DEF ReleasesMatchHoldings
<1>2. outcomes[i].node_id = n /\ outcomes[i].completion_time = f.time
  BY <1>1 DEF ReleasesMatchHoldings
<1>3. Admitted(i)
  BY HeldIsAdmitted
<1> QED
  BY <1>1, <1>2, <1>3

\* As an event is popped the clock moves to its time, and no further than to
\* the completions still ahead.
LEMMA PoppedNext ==
  ASSUME IndInv, NEW e \in heap, IsNext(e), now' = e.time
  PROVE  ClockMoves
<1>1. TypeOK /\ Timely /\ ReleasesMatchHoldings /\ now \in Nat
  BY DEF IndInv, TypeOK
<1>2. e.time \in Nat /\ now <= e.time
  BY <1>1, HeapKinds DEF Timely
<1>3. ASSUME NEW i \in Pods, Running(i)
      PROVE  Admitted(i) /\ e.time <= outcomes[i].completion_time
  <2>1. PICK n \in Nodes : i \in allocated[n]
    BY <1>3 DEF Running
  <2>2. PICK f \in heap : f.time = outcomes[i].completion_time
    BY <1>1, <2>1, RunningFacts
  <2>3. e.time <= f.time
    BY <1>1, <1>2, HeapKinds DEF IsNext, ComesBefore
  <2> QED
    BY <1>1, <2>1, <2>2, <2>3, RunningFacts
<1> QED
  BY <1>1, <1>2, <1>3 DEF ClockMoves

\* While the clock stands still, nothing completes.
LEMMA StandsStill ==
  ASSUME IndInv, now' = now
  PROVE  ClockMoves
<1>1. TypeOK /\ Timely /\ ReleasesMatchHoldings /\ now \in Nat
  BY DEF IndInv, TypeOK
<1>2. ASSUME NEW i \in Pods, Running(i)
      PROVE  Admitted(i) /\ now <= outcomes[i].completion_time
  <2>1. PICK n \in Nodes : i \in allocated[n]
    BY <1>2 DEF Running
  <2>2. PICK f \in heap : f.time = outcomes[i].completion_time
    BY <1>1, <2>1, RunningFacts
  <2>3. now <= f.time
    BY <1>1, HeapKinds DEF Timely
  <2> QED
    BY <1>1, <2>1, <2>2, <2>3, RunningFacts
<1> QED
  BY <1>1, <1>2 DEF ClockMoves

\* A step that places pod p on node n.
LEMMA PlacingStep ==
  ASSUME IndInv, UNCHANGED config, NEW p \in Pods, NEW n \in Nodes,
         ~Admitted(p), Place(p, n, now')
  PROVE  /\ Departures
         /\ \A i \in Pods : Running(i)' <=> Running(i) \/ i = p
<1>1. /\ allocated \in [Nodes -> SUBSET Pods]
      /\ allocated' = [allocated EXCEPT ![n] = allocated[n] \cup {p}]
  BY DEF IndInv, TypeOK, Place
<1>2. \A i \in Pods : Running(i)' <=> Running(i) \/ i = p
  BY <1>1 DEF Running
<1> QED
  BY <1>2 DEF Departures

\* Every step of the loop: the clock, the arrivals, the departures, and what
\* is recorded (event_runtime.py:161-212).
LEMMA StepFacts ==
  ASSUME IndInv, [Next]_vars
  PROVE  /\ UNCHANGED config /\ ClockMoves /\ Arrivals /\ Departures
         /\ UNCHANGED outcomes \/ \E p \in Pods, n \in Nodes : NewlyPlaced(p, n)
<1>1. TypeOK /\ ReleasesMatchHoldings
  BY DEF IndInv
<1>2. UNCHANGED config
  BY DEF Next, ArrivePlaced, ArriveQueued, ReleasePod, DrainExpired, DrainPlaced, DrainKept,
     DrainEnd, vars
<1>3. \A i \in Pods : Arrival(i)' = Arrival(i) /\ Arrival(i).kind = "arrival" /\ Arrival(i).ev = i
  BY <1>2 DEF config, Arrival, SubmitTime
<1>4. ASSUME NEW e \in heap, NEW n \in Nodes, ArrivePlaced(e, n)
      PROVE  ClockMoves /\ Arrivals /\ Departures /\ NewlyPlaced(e.ev, n) /\ e.ev \in Pods
  <2>1. /\ IsNext(e) /\ e.kind = "arrival" /\ now' = e.time /\ Place(e.ev, n, now')
        /\ heap' = (heap \ {e}) \cup {CompletionAt(e.ev, n, e.time, seq + 1)}
    BY <1>4 DEF ArrivePlaced
  <2>2. e.ev \in Pods /\ e = Arrival(e.ev) /\ e.time \in Nat
    BY <1>1, <2>1, HeapKinds
  <2>3. e.time = SubmitTime(e.ev) /\ ~Admitted(e.ev) /\ ~Arrived(e.ev)
    BY <2>2 DEF Arrival, IndInv, ArrivalsInOrder, Arrived
  <2>4. CompletionAt(e.ev, n, e.time, seq + 1).kind = "release"
    BY DEF CompletionAt, Release
  <2>5. Arrivals
    BY <1>3, <2>1, <2>2, <2>3, <2>4 DEF Arrivals, Arrived
  <2>6. NewlyPlaced(e.ev, n)
    BY <2>1, <2>2, <2>3 DEF NewlyPlaced
  <2> QED
    BY <1>2, <2>1, <2>2, <2>3, <2>5, <2>6, PoppedNext, PlacingStep
<1>5. ASSUME NEW e \in heap, ArriveQueued(e)
      PROVE  ClockMoves /\ Arrivals /\ Departures /\ UNCHANGED outcomes
  <2>1. /\ IsNext(e) /\ e.kind = "arrival" /\ now' = e.time /\ heap' = heap \ {e}
        /\ UNCHANGED outcomes /\ allocated' = allocated
    BY <1>5 DEF ArriveQueued, cluster
  <2>2. e.ev \in Pods /\ e = Arrival(e.ev) /\ e.time = SubmitTime(e.ev)
    BY <1>1, <2>1, HeapKinds DEF Arrival
  <2>3. Arrivals
    BY <1>3, <2>1, <2>2 DEF Arrivals, Arrived
  <2>4. Departures
    BY <2>1 DEF Departures, Running
  <2> QED
    BY <2>1, <2>3, <2>4, PoppedNext
<1>6. ASSUME NEW e \in heap, ReleasePod(e)
      PROVE  ClockMoves /\ Arrivals /\ Departures /\ UNCHANGED outcomes
  <2>1. /\ IsNext(e) /\ e.kind = "release" /\ now' = e.time /\ heap' = heap \ {e}
        /\ UNCHANGED outcomes /\ pc' = "drain"
    BY <1>6 DEF ReleasePod
  <2>2. e.ev \in allocated[e.node] /\ outcomes[e.ev].completion_time = e.time /\ e.node \in Nodes
    BY <1>1, <2>1, HeapKinds DEF ReleasesMatchHoldings
  <2>3. /\ allocated' = [allocated EXCEPT ![e.node] = allocated[e.node] \ {e.ev}]
        /\ allocated \in [Nodes -> SUBSET Pods]
    BY <1>1, <1>6, <2>2 DEF ReleasePod, TypeOK
  <2>4. Arrivals
    BY <1>3, <2>1 DEF Arrivals, Arrived
  <2>5. Departures
    BY <2>1, <2>2, <2>3 DEF Departures, Running
  <2> QED
    BY <2>1, <2>4, <2>5, PoppedNext
<1>7. ASSUME NEW n \in Nodes, DrainPlaced(n)
      PROVE  /\ ClockMoves /\ Arrivals /\ Departures
             /\ pending[scan] \in Pods /\ NewlyPlaced(pending[scan], n)
  <2>1. PICK p \in Pods : p = pending[scan] /\ ~Admitted(p)
    BY <1>7, ScanFacts DEF DrainPlaced
  <2>2. /\ now' = now /\ Place(p, n, now') /\ pc = "drain"
        /\ heap' = heap \cup {CompletionAt(p, n, now, seq)}
    BY <1>7, <2>1 DEF DrainPlaced, Scanning
  <2>3. SubmitTime(p) <= now
    BY <1>7, <2>1, ScanFacts DEF IndInv, Timely, DrainPlaced
  <2>4. CompletionAt(p, n, now, seq).kind = "release"
    BY DEF CompletionAt, Release
  <2>5. Arrivals
    BY <1>3, <2>2, <2>4 DEF Arrivals, Arrived
  <2>6. NewlyPlaced(p, n)
    BY <2>1, <2>2, <2>3 DEF NewlyPlaced
  <2> QED
    BY <1>2, <2>1, <2>2, <2>5, <2>6, StandsStill, PlacingStep
<1>8. ASSUME DrainExpired \/ DrainKept \/ DrainEnd \/ UNCHANGED vars
      PROVE  ClockMoves /\ Arrivals /\ Departures /\ UNCHANGED outcomes
  <2>1. UNCHANGED <<trace, heap, now, outcomes, allocated>>
    BY <1>8 DEF DrainExpired, DrainKept, DrainEnd, vars, config, cluster
  <2>2. Arrivals /\ Departures
    BY <1>3, <2>1 DEF Arrivals, Departures, Arrived, Running
  <2> QED
    BY <2>1, <2>2, StandsStill
<1> QED
  BY <1>2, <1>4, <1>5, <1>6, <1>7, <1>8 DEF Next

-----------------------------------------------------------------------------
(* The record and the clock.                                               *)

\* A pod that arrived was submitted by now; an admitted pod runs for its
\* duration, on one node; one that has left its node completed by now, and the
\* arrivals of that instant had been handled before.
Recorded(i) ==
  /\ outcomes[i].node_id \in Nodes /\ outcomes[i].start_time \in Nat
  /\ outcomes[i].start_time <= now
  /\ outcomes[i].completion_time = outcomes[i].start_time + trace[i].duration

LeftInTime(i) ==
  /\ outcomes[i].completion_time <= now
  /\ \A j \in Pods : SubmitTime(j) <= outcomes[i].completion_time => Arrived(j)

History ==
  \A i \in Pods :
    /\ Arrived(i) => SubmitTime(i) <= now
    /\ Admitted(i) => Recorded(i)
    /\ Admitted(i) /\ ~Running(i) => LeftInTime(i)

\* What NewlyPlaced writes into the record, and what it leaves.
LEMMA NewRecord ==
  ASSUME IndInv, UNCHANGED config, now' \in Nat, NEW p \in Pods, NEW n \in Nodes, NewlyPlaced(p, n)
  PROVE  /\ Admitted(p)' /\ Running(p)'
         /\ outcomes'[p].node_id = n /\ outcomes'[p].start_time = now'
         /\ outcomes'[p].completion_time = now' + trace[p].duration
         /\ \A j \in Pods : j # p => outcomes'[j] = outcomes[j] /\ (Admitted(j)' <=> Admitted(j))
<1>1. TypeOK /\ SubmitTime(p) <= now' /\ Place(p, n, now') /\ ~Admitted(p)
  BY DEF IndInv, NewlyPlaced
<1>2. /\ outcomes'[p] = PlacedAt(p, n, now') /\ Admitted(p)'
      /\ \A j \in Pods : j # p => outcomes'[j] = outcomes[j] /\ (Admitted(j)' <=> Admitted(j))
  BY <1>1, PlaceFacts
<1>3. Running(p)'
  BY <1>1, PlacingStep
<1> QED
  BY <1>2, <1>3 DEF PlacedAt

\* A step keeps the record true: only the clock moves for those recorded.
LEMMA HistoryKept ==
  ASSUME IndInv, IndInv', History, [Next]_vars
  PROVE  History'
<1>1. /\ trace \in Traces /\ trace' = trace /\ Pods' = Pods
      /\ \A i \in Pods : SubmitTime(i)' = SubmitTime(i) /\ SubmitTime(i) \in Nat
                         /\ trace[i].duration \in Nat
  <2>1. trace \in Traces /\ trace' = trace
    BY StepFacts DEF IndInv, TypeOK, config
  <2> QED
    BY <2>1, TraceFacts DEF Pods, SubmitTime
<1>2. now \in Nat /\ now' \in Nat /\ now <= now'
  BY StepFacts DEF ClockMoves
<1>3. ASSUME NEW i \in Pods, Arrived(i)' PROVE SubmitTime(i)' <= now'
  BY <1>1, <1>2, <1>3, StepFacts DEF Arrivals, History
<1>4. ASSUME NEW i \in Pods, Admitted(i), outcomes'[i] = outcomes[i]
      PROVE  Recorded(i)' /\ (~Running(i)' => LeftInTime(i)')
  <2>1. Recorded(i) /\ outcomes[i].completion_time \in Nat
    BY <1>1, <1>4 DEF History, Recorded
  <2>2. Recorded(i)'
    BY <1>1, <1>2, <1>4, <2>1 DEF Recorded
  <2>3. CASE Running(i) /\ ~Running(i)'
    <3>1. outcomes[i].completion_time = now' /\ pc' = "drain"
      BY <2>3, StepFacts DEF Departures
    <3>2. \A j \in Pods : SubmitTime(j) <= now' => Arrived(j)'
      BY <1>1, <3>1 DEF IndInv, ArrivalsFirst
    <3> QED
      BY <1>1, <1>2, <1>4, <2>2, <3>1, <3>2 DEF LeftInTime
  <2>4. CASE ~Running(i)
    <3>1. LeftInTime(i)
      BY <1>4, <2>4 DEF History
    <3>2. outcomes[i].completion_time <= now'
      BY <1>2, <2>1, <3>1 DEF LeftInTime
    <3>3. \A j \in Pods : SubmitTime(j) <= outcomes[i].completion_time => Arrived(j)'
      BY <3>1, StepFacts DEF LeftInTime, Arrivals
    <3> QED
      BY <1>1, <1>4, <2>2, <3>2, <3>3 DEF LeftInTime
  <2> QED
    BY <2>2, <2>3, <2>4
<1>5. CASE UNCHANGED outcomes
  BY <1>1, <1>3, <1>4, <1>5 DEF History, Admitted
<1>6. ASSUME NEW p \in Pods, NEW n \in Nodes, NewlyPlaced(p, n) PROVE History'
  <2>1. /\ Admitted(p)' /\ Running(p)'
        /\ outcomes'[p].node_id = n /\ outcomes'[p].start_time = now'
        /\ outcomes'[p].completion_time = now' + trace[p].duration
        /\ \A j \in Pods : j # p => outcomes'[j] = outcomes[j] /\ (Admitted(j)' <=> Admitted(j))
    BY <1>2, <1>6, StepFacts, NewRecord
  <2>2. Recorded(p)'
    BY <1>1, <1>2, <2>1 DEF Recorded
  <2> QED
    BY <1>1, <1>3, <1>4, <2>1, <2>2 DEF History
<1> QED
  BY <1>5, <1>6, StepFacts

\* The record is true in every state of every run.
LEMMA HistoryHolds == Spec => []History
<1>1. Init => History
  <2> SUFFICES ASSUME Init PROVE History
    OBVIOUS
  <2>1. \A i \in Pods : ~Admitted(i) /\ ~Arrived(i)
    BY DEF Init, Admitted, Unplaced, Arrived
  <2> QED
    BY <2>1 DEF History
<1>2. IndInv /\ IndInv' /\ History /\ [Next]_vars => History'
  BY HistoryKept
<1> QED
  BY <1>1, <1>2, Invariance, PTL DEF Spec

\* The times recorded of an admitted pod are numbers, in order.
LEMMA RecordFacts ==
  ASSUME TypeOK, History, NEW i \in Pods, Admitted(i)
  PROVE  /\ outcomes[i].node_id \in Nodes
         /\ outcomes[i].start_time \in Nat /\ outcomes[i].completion_time \in Nat
         /\ outcomes[i].start_time <= now
         /\ outcomes[i].start_time <= outcomes[i].completion_time
<1>1. Recorded(i)
  BY DEF History
<1>2. trace[i].duration \in Nat
  BY TraceFacts DEF TypeOK
<1> QED
  BY <1>1, <1>2 DEF Recorded

-----------------------------------------------------------------------------
(* No time is lost.                                                        *)

Durations == Asks(trace, "duration")
LastSubmission == Max({0} \cup {SubmitTime(i) : i \in Pods})

\* What was admitted completed no later than if it had run one by one after
\* the last submission.
OneByOne ==
  \A i \in Pods : Admitted(i) =>
    outcomes[i].completion_time <= LastSubmission + Total(Durations, AdmittedOnes(outcomes))

\* The pods admitted so far are finitely many, and the outcomes number all.
LEMMA AdmittedFacts ==
  ASSUME TypeOK
  PROVE  /\ IsFiniteSet(Pods) /\ DOMAIN outcomes = Pods /\ DOMAIN trace = Pods
         /\ AdmittedOnes(outcomes) \in SUBSET Pods /\ IsFiniteSet(AdmittedOnes(outcomes))
         /\ \A i \in Pods : i \in AdmittedOnes(outcomes) <=> Admitted(i)
<1>1. IsFiniteSet(Pods) /\ DOMAIN outcomes = Pods
  BY TraceFacts, FS_Interval DEF TypeOK
<1>2. AdmittedOnes(outcomes) \in SUBSET Pods
  BY <1>1 DEF AdmittedOnes
<1> QED
  BY <1>1, <1>2, FS_Subset DEF AdmittedOnes, Admitted, Pods

\* Durations are natural, and so are sums of them.
LEMMA DurationFacts ==
  ASSUME TypeOK
  PROVE  /\ \A i \in Pods : Durations[i] = trace[i].duration /\ Durations[i] \in Nat
         /\ \A S \in SUBSET Pods : Total(Durations, S) \in Nat
<1>1. \A i \in Pods : Durations[i] = trace[i].duration /\ Durations[i] \in Nat
  BY TraceFacts DEF TypeOK, Durations, Asks, Pods
<1>2. ASSUME NEW S \in SUBSET Pods PROVE Total(Durations, S) \in Nat
  <2>1. IsFiniteSet(S)
    BY AdmittedFacts, FS_Subset
  <2>2. \A x \in S : Durations[x] \in Nat
    BY <1>1
  <2> QED
    BY <2>1, <2>2, TotalType
<1> QED
  BY <1>1, <1>2

\* No pod is submitted after the last submission.
LEMMA SubmittedByThen ==
  ASSUME TypeOK
  PROVE  LastSubmission \in Nat /\ \A i \in Pods : SubmitTime(i) <= LastSubmission
<1> DEFINE f == [i \in Pods |-> SubmitTime(i)]
           S == {0} \cup {SubmitTime(i) : i \in Pods}
<1>1. \A i \in Pods : SubmitTime(i) \in Nat
  BY TraceFacts DEF TypeOK
<1>2. IsFiniteSet({f[i] : i \in Pods})
  BY AdmittedFacts, ImageFinite
<1>3. S = {f[i] : i \in Pods} \cup {0}
  OBVIOUS
<1>4. IsFiniteSet(S)
  BY <1>2, <1>3, FS_AddElement
<1>5. S # {} /\ \A x \in S : x \in Nat
  BY <1>1
<1>6. \A i \in Pods : SubmitTime(i) \in S
  OBVIOUS
<1>7. LastSubmission = Max(S)
  BY DEF LastSubmission
<1> HIDE DEF S
<1> QED
  BY <1>4, <1>5, <1>6, <1>7, MaxIsGreatest

\* The makespan is the last completion, or 0 if there is none.
LEMMA MakespanFacts ==
  ASSUME TypeOK, History
  PROVE  /\ Makespan(outcomes) \in Nat
         /\ \A i \in Pods : Admitted(i) => outcomes[i].completion_time <= Makespan(outcomes)
         /\ \/ Makespan(outcomes) = 0
            \/ \E i \in Pods : Admitted(i) /\ Makespan(outcomes) = outcomes[i].completion_time
<1> DEFINE Completions == {outcomes[i].completion_time : i \in AdmittedOnes(outcomes)}
           S == {0} \cup Completions
           f == [i \in Pods |-> outcomes[i].completion_time]
<1>1. \A i \in AdmittedOnes(outcomes) : i \in Pods /\ Admitted(i)
  BY AdmittedFacts
<1>2. \A x \in S : x \in Nat
  BY <1>1, RecordFacts
<1>3. IsFiniteSet(S)
  <2>1. Completions = {f[i] : i \in AdmittedOnes(outcomes)}
    BY <1>1
  <2>2. IsFiniteSet({f[i] : i \in AdmittedOnes(outcomes)})
    BY AdmittedFacts, ImageFinite
  <2> QED
    BY <2>1, <2>2, FS_AddElement
<1>4. S # {} /\ Makespan(outcomes) = Max(S)
  BY DEF Makespan
<1>5. Max(S) \in S /\ \A x \in S : x <= Max(S)
  <2> HIDE DEF S
  <2> QED
    BY <1>2, <1>3, <1>4, MaxIsGreatest
<1>6. \A i \in Pods : Admitted(i) => outcomes[i].completion_time \in S
  BY AdmittedFacts
<1> QED
  BY <1>1, <1>2, <1>4, <1>5, <1>6

\* A pod placed starts at its submission or as another completes; it adds its
\* duration to both sides.
LEMMA OneByOneKept ==
  ASSUME IndInv, IndInv', History, OneByOne, [Next]_vars
  PROVE  OneByOne'
<1>1. TypeOK /\ TypeOK'
  BY DEF IndInv
<1>2. trace' = trace /\ Pods' = Pods /\ Durations' = Durations /\ LastSubmission' = LastSubmission
  BY StepFacts DEF config, Pods, Durations, LastSubmission, SubmitTime
<1>3. CASE UNCHANGED outcomes
  BY <1>2, <1>3 DEF OneByOne, Admitted
<1>4. ASSUME NEW p \in Pods, NEW n \in Nodes, NewlyPlaced(p, n) PROVE OneByOne'
  <2> DEFINE before == Total(Durations, AdmittedOnes(outcomes))
             after == Total(Durations, AdmittedOnes(outcomes)')
  <2>1. now' \in Nat
    BY StepFacts DEF ClockMoves
  <2>2. /\ outcomes'[p].completion_time = now' + trace[p].duration /\ Admitted(p)'
        /\ \A j \in Pods : j # p => outcomes'[j] = outcomes[j] /\ (Admitted(j)' <=> Admitted(j))
    BY <1>4, <2>1, StepFacts, NewRecord
  <2>3. ~Admitted(p)
    BY <1>4 DEF NewlyPlaced
  <2>4. AdmittedOnes(outcomes)' = AdmittedOnes(outcomes) \cup {p}
    <3>1. DOMAIN outcomes' = Pods
      BY <1>1, <1>2 DEF TypeOK
    <3>2. /\ \A i \in Pods : i \in AdmittedOnes(outcomes)' <=> Admitted(i)'
          /\ AdmittedOnes(outcomes)' \in SUBSET Pods
      BY <3>1 DEF AdmittedOnes, Admitted
    <3>3. \A i \in Pods : i \in AdmittedOnes(outcomes) <=> Admitted(i)
      BY <1>1, AdmittedFacts
    <3>4. AdmittedOnes(outcomes) \in SUBSET Pods
      BY <1>1, AdmittedFacts
    <3> QED
      BY <2>2, <2>3, <3>2, <3>3, <3>4
  <2>5. /\ after = trace[p].duration + before
        /\ before \in Nat /\ trace[p].duration \in Nat
    <3>1. /\ IsFiniteSet(AdmittedOnes(outcomes)) /\ p \notin AdmittedOnes(outcomes)
          /\ AdmittedOnes(outcomes) \in SUBSET Pods
      BY <1>1, <2>3, AdmittedFacts
    <3>2. \A y \in AdmittedOnes(outcomes) \cup {p} : Durations[y] \in Int
      BY <1>1, <3>1, DurationFacts
    <3>3. Total(Durations, AdmittedOnes(outcomes) \cup {p}) = Durations[p] + before
      BY <3>1, <3>2, TotalAdd
    <3> QED
      BY <1>1, <2>4, <3>1, <3>3, DurationFacts
  <2>6. LastSubmission \in Nat /\ SubmitTime(p) <= LastSubmission
    BY <1>1, SubmittedByThen
  <2> HIDE DEF before, after
  <2>7. now' <= LastSubmission + before
    <3>1. CASE now' = SubmitTime(p)
      BY <1>1, <2>5, <2>6, <3>1, TraceFacts DEF TypeOK
    <3>2. CASE pc = "drain" /\ now' = now
      <4>1. PICK j \in Pods : Admitted(j) /\ outcomes[j].completion_time = now
        BY <3>2 DEF IndInv, DrainOccasion
      <4>2. outcomes[j].completion_time <= LastSubmission + before
        BY <4>1 DEF OneByOne, before
      <4> QED
        BY <3>2, <4>1, <4>2
    <3> QED
      BY <1>4, <3>1, <3>2 DEF NewlyPlaced
  <2>8. ASSUME NEW i \in Pods, Admitted(i)'
        PROVE  outcomes'[i].completion_time <= LastSubmission + after
    <3>1. CASE i = p
      BY <2>1, <2>2, <2>5, <2>6, <2>7, <3>1
    <3>2. CASE i # p
      <4>1. Admitted(i) /\ outcomes'[i] = outcomes[i]
        BY <2>2, <2>8, <3>2
      <4>2. outcomes[i].completion_time \in Nat
        BY <1>1, <4>1, RecordFacts
      <4>3. outcomes[i].completion_time <= LastSubmission + before
        BY <4>1 DEF OneByOne, before
      <4> QED
        BY <2>5, <2>6, <4>1, <4>2, <4>3
    <3> QED
      BY <3>1, <3>2
  <2>9. Total(Durations, AdmittedOnes(outcomes))' = after
    BY <1>2 DEF after
  <2> QED
    BY <1>2, <2>8, <2>9 DEF OneByOne
<1> QED
  BY <1>3, <1>4, StepFacts

\* A run lasts no longer than if everything admitted ran one by one after the
\* last submission: never do all nodes idle while a pod that fits waits.
THEOREM NothingIdlesAway == RunSpec => []NoTimeLost
<1>1. Init => OneByOne
  <2> SUFFICES ASSUME Init PROVE OneByOne
    OBVIOUS
  <2>1. \A i \in Pods : ~Admitted(i)
    BY DEF Init, Admitted, Unplaced
  <2> QED
    BY <2>1 DEF OneByOne
<1>2. IndInv /\ IndInv' /\ History /\ OneByOne /\ [Next]_vars => OneByOne'
  BY OneByOneKept
<1>3. Spec => []OneByOne
  BY <1>1, <1>2, Invariance, HistoryHolds, PTL DEF Spec
<1>4. ASSUME IndInv, History, OneByOne PROVE NoTimeLost
  <2> DEFINE end == LastSubmission + Total(Durations, AdmittedOnes(outcomes))
  <2>1. TypeOK
    BY <1>4 DEF IndInv
  <2>2. end \in Nat
    BY <2>1, AdmittedFacts, DurationFacts, SubmittedByThen
  <2>3. Makespan(outcomes) <= end
    <3>1. CASE Makespan(outcomes) = 0
      BY <2>2, <3>1
    <3>2. ASSUME NEW i \in Pods, Admitted(i), Makespan(outcomes) = outcomes[i].completion_time
          PROVE  Makespan(outcomes) <= end
      BY <1>4, <3>2 DEF OneByOne
    <3> QED
      BY <1>4, <2>1, <3>1, <3>2, MakespanFacts
  <2>4. MapThenSumSet(LAMBDA i : trace[i].duration, AdmittedOnes(outcomes)) =
          Total(Durations, AdmittedOnes(outcomes))
    <3>1. AdmittedOnes(outcomes) \in SUBSET DOMAIN trace
      BY <2>1, AdmittedFacts
    <3> QED
      BY <3>1, SumOfAsks DEF Durations
  <2> QED
    BY <2>3, <2>4 DEF NoTimeLost, LastSubmission
<1> QED
  BY <1>3, <1>4, RunIsLoop, Invariance, HistoryHolds, PTL

-----------------------------------------------------------------------------
(* The final row of a sweep.                                               *)

\* Only pods an idle node could hold are ever admitted.
FitsIdle ==
  \A i \in Pods : Admitted(i) =>
    \E n \in Nodes : FitsIn(Pod(i), NodeOf[n], Empty(NodeOf[n]))

\* A node with room for one more pod had room for it when it was idle.
LEMMA FitsIdleKept ==
  ASSUME IndInv, CapacityConserved, FitsIdle, [Next]_vars
  PROVE  FitsIdle'
<1>1. TypeOK /\ trace' = trace /\ Pods' = Pods /\ \A i \in Pods : Pod(i)' = Pod(i)
  BY StepFacts DEF IndInv, config, Pods, Pod
<1>2. CASE UNCHANGED outcomes
  BY <1>1, <1>2 DEF FitsIdle, Admitted
<1>3. ASSUME NEW p \in Pods, NEW n \in Nodes, NewlyPlaced(p, n) PROVE FitsIdle'
  <2>1. FitsIn(Pod(p), NodeOf[n], remaining[n])
    BY <1>3 DEF NewlyPlaced, Place, Feasible
  <2>2. remaining[n] = TakeAll(Empty(NodeOf[n]), Asked, allocated[n])
    BY DEF CapacityConserved, Asked
  <2>3. FitsIn(Pod(p), NodeOf[n], Empty(NodeOf[n]))
    <3>1. FitsIn(Asked[p], NodeOf[n], TakeAll(Empty(NodeOf[n]), Asked, allocated[n]))
      BY <1>1, <2>1, <2>2, AskedFacts
    <3> QED
      BY <1>1, <3>1, AskedFacts, IdleHasMost
  <2>4. now' \in Nat
    BY StepFacts DEF ClockMoves
  <2>5. \A j \in Pods : j # p => (Admitted(j)' <=> Admitted(j))
    BY <1>3, <2>4, StepFacts, NewRecord
  <2> QED
    BY <1>1, <2>3, <2>5 DEF FitsIdle
<1> QED
  BY <1>2, <1>3, StepFacts

\* The capacity in use is a sum over the nodes.
LEMMA UtilizationIsTotal ==
  ASSUME NEW f, \A n \in Nodes : f[n] = MilliGpuCapacity(NodeOf[n]) - remaining[n].milli_gpu
  PROVE  SweepRow.final_gpu_utilization = Total(f, Nodes)
<1> DEFINE InUse(g) == g = [s \in SUBSET Nodes |->
                              IF s = {} THEN 0
                              ELSE (MilliGpuCapacity(NodeOf[First(s)])
                                     - remaining[First(s)].milli_gpu) + g[s \ {First(s)}]]
<1>1. \A s \in SUBSET Nodes : s # {} =>
        f[First(s)] = MilliGpuCapacity(NodeOf[First(s)]) - remaining[First(s)].milli_gpu
  BY FirstIn
<1>2. SweepRow.final_gpu_utilization = (CHOOSE g : InUse(g))[Nodes]
  BY DEF SweepRow, MapThenSumSet, MapThenFoldSet, First
<1>3. \A g : InUse(g) <=> Iterates(f, g, Nodes)
  BY <1>1 DEF Iterates, Unroll
<1> HIDE DEF InUse
<1>4. (CHOOSE g : InUse(g)) = (CHOOSE g : Iterates(f, g, Nodes))
  BY <1>3
<1> QED
  BY <1>2, <1>4, TotalDef

\* A node list is finite, and numbers its nodes.
LEMMA NodesFinite == IsFiniteSet(Nodes) /\ Nodes = 1 .. Len(NodeOf) /\ Len(NodeOf) \in Nat
<1>1. NodeOf \in Seq(NodeResource) /\ Nodes = DOMAIN NodeOf
  BY NodeListAssumption, NodesAssumption
<1>2. Nodes = 1 .. Len(NodeOf) /\ Len(NodeOf) \in Nat
  BY <1>1
<1> QED
  BY <1>2, FS_Interval

\* At the end of a sweep's run the score and the utilization are those of idle
\* nodes, and without a time-out the pods rejected are those no idle node can
\* hold: two of its three figures never, and the third only with a time-out,
\* depend on the policy or on when pods arrive (experiment.py:118-124).
THEOREM FinalRowSaysNothing == RunSpec => []FinalRowIsBlind
<1>1. Init => FitsIdle
  BY DEF Init, FitsIdle, Admitted, Unplaced
<1>2. IndInv /\ CapacityConserved /\ FitsIdle /\ [Next]_vars => FitsIdle'
  BY FitsIdleKept
<1>3. Spec => []FitsIdle
  BY <1>1, <1>2, Invariance, NothingLeaks, PTL DEF Spec
<1>4. ASSUME TypeOK, RejectedForCause, FitsIdle PROVE FinalRowIsBlind
  <2> DEFINE able == {i \in Pods : \E n \in Nodes : FitsIn(Pod(i), NodeOf[n], Empty(NodeOf[n]))}
  <2> SUFFICES ASSUME Finished
               PROVE  /\ SweepRow.final_fragmentation_score =
                           FinalScore([n \in Nodes |-> Empty(NodeOf[n])])
                      /\ SweepRow.final_gpu_utilization = 0
                      /\ max_queue_time = None =>
                           /\ SweepRow.rejection_rate =
                                <<Len(trace) - Cardinality(able), Len(trace)>>
                           /\ DOMAIN PerUserMeanWait(outcomes, UserOf) = {UserOf[i] : i \in able}
    BY DEF FinalRowIsBlind
  <2>1. \A n \in Nodes : remaining[n] = Empty(NodeOf[n])
    BY <1>4 DEF RejectedForCause
  <2>2. SweepRow.final_fragmentation_score = FinalScore([n \in Nodes |-> Empty(NodeOf[n])])
    <3>1. remaining = [n \in Nodes |-> Empty(NodeOf[n])]
      BY <1>4, <2>1 DEF TypeOK
    <3>2. SweepRow.final_fragmentation_score = FinalScore(remaining)
      BY DEF SweepRow
    <3> QED
      BY <3>1, <3>2
  <2>3. SweepRow.final_gpu_utilization = 0
    <3> DEFINE f == [n \in Nodes |-> 0]
    <3>1. \A n \in Nodes : f[n] = MilliGpuCapacity(NodeOf[n]) - remaining[n].milli_gpu
      <4>1. ASSUME NEW n \in Nodes
            PROVE  MilliGpuCapacity(NodeOf[n]) - remaining[n].milli_gpu = 0
        <5>1. Empty(NodeOf[n]).milli_gpu = MilliGpuCapacity(NodeOf[n])
          BY DEF Empty
        <5>2. Empty(NodeOf[n]).milli_gpu \in Int
          BY NodesAssumption, EmptyType DEF Remaining
        <5> QED
          BY <2>1, <5>1, <5>2
      <4> QED
        BY <4>1
    <3>2. SweepRow.final_gpu_utilization = Total(f, Nodes)
      BY <3>1, UtilizationIsTotal
    <3>3. \A n \in Nodes : f[n] = 0
      OBVIOUS
    <3> HIDE DEF f
    <3>4. Total(f, Nodes) = 0 * Cardinality(Nodes)
      BY <3>3, NodesFinite, TotalOfConstant
    <3> QED
      BY <3>2, <3>4, NodesFinite, FS_CardinalityType
  <2>4. ASSUME max_queue_time = None
        PROVE  /\ SweepRow.rejection_rate = <<Len(trace) - Cardinality(able), Len(trace)>>
               /\ DOMAIN PerUserMeanWait(outcomes, UserOf) = {UserOf[i] : i \in able}
    <3>1. \A i \in Pods : Admitted(i) <=> i \in able
      BY <1>4, <2>4 DEF RejectedForCause, FitsIdle, Expired
    <3>2. AdmittedOnes(outcomes) = able
      BY <1>4, <3>1, AdmittedFacts
    <3>3. Len(outcomes) = Len(trace)
      <4>1. outcomes \in [1 .. Len(trace) -> Outcome] /\ Len(trace) \in Nat
        BY <1>4, TraceFacts DEF TypeOK
      <4> QED
        BY <4>1
    <3>4. SweepRow.rejection_rate = RejectionRate(outcomes)
      BY DEF SweepRow
    <3>5. DOMAIN PerUserMeanWait(outcomes, UserOf) = {UserOf[i] : i \in AdmittedOnes(outcomes)}
      BY DEF PerUserMeanWait
    <3> HIDE DEF able
    <3> QED
      BY <3>2, <3>3, <3>4, <3>5 DEF RejectionRate
  <2> QED
    BY <2>2, <2>3, <2>4
<1> QED
  BY <1>3, <1>4, RunIsLoop, TypeCorrect, RejectedWithCause, PTL

-----------------------------------------------------------------------------
(* The samples.                                                            *)

Notes == {<<t, Score(left)>> : t \in Nat, left \in [Nodes -> Remaining]}

\* Arrivals are counted as they are handled, and after every Every-th there
\* is one sample more.
InTurn ==
  /\ n_processed \in Nat /\ n_processed <= Len(trace)
  /\ \A j \in Pods : Arrived(j) <=> j <= n_processed
  /\ fragmentation_trace \in Seq(Notes)
  /\ Len(fragmentation_trace) * Every <= n_processed
  /\ typical.pods # <<>> => n_processed < (Len(fragmentation_trace) + 1) * Every

\* Of n arrivals the L-th E has been completed and the next has not: the next
\* arrival completes it exactly if its number is a multiple of E.
LEMMA EveryTurn ==
  ASSUME NEW n \in Nat, NEW L \in Nat, NEW E \in Nat \ {0}, L * E <= n, n < (L + 1) * E
  PROVE  /\ (n + 1) % E = 0 => n + 1 = (L + 1) * E
         /\ (n + 1) % E # 0 => n + 1 < (L + 1) * E
<1>1. ASSUME (n + 1) % E = 0 PROVE n + 1 = (L + 1) * E
  <2>1. PICK q \in Nat : n + 1 = E * q
    BY <1>1
  <2>2. L * E < E * q /\ E * q <= (L + 1) * E
    BY <2>1, Z3
  <2>3. q = L + 1
    BY <2>2, Z3
  <2> QED
    BY <2>1, <2>3, Z3
<1>2. ASSUME n + 1 >= (L + 1) * E PROVE (n + 1) % E = 0
  <2>1. n + 1 = (L + 1) * E
    BY <1>2, Z3
  <2>2. ((L + 1) * E) % E = 0
    BY Z3
  <2> QED
    BY <2>1, <2>2
<1>3. n + 1 \in Nat /\ (L + 1) * E \in Nat
  BY Z3
<1> QED
  BY <1>1, <1>2, <1>3

\* One more pod arrives, the one with number p, and is placed or not.
Comes(p) ==
  /\ p \in Pods /\ now' = SubmitTime(p) /\ ~Arrived(p) /\ ~Admitted(p)
  /\ UNCHANGED <<allocated, outcomes>> \/ \E n \in Nodes : Place(p, n, now')
  /\ \A j \in Pods : Arrived(j)' <=> Arrived(j) \/ j = p
  /\ \A j \in Pods : j < p => Arrived(j)

\* The samples with that pod counted.
Counted(p) ==
  /\ Comes(p) /\ [Next]_vars /\ UNCHANGED choice
  /\ Sample(Score(remaining'))

\* The samples as they are, with nobody coming.
NoneComes ==
  /\ \A j \in Pods : Arrived(j)' <=> Arrived(j)
  /\ [Next]_vars /\ UNCHANGED <<choice, samples>>

\* Every step of a run handles an arrival, and counts it, or does neither.
LEMMA RunStepFacts ==
  ASSUME IndInv, [RunNext]_runVars
  PROVE  (\E p \in Pods : Counted(p)) \/ NoneComes
<1>1. [Next]_vars
  BY RunStepIsStep
<1>2. TypeOK /\ UNCHANGED config
  BY <1>1, StepFacts DEF IndInv
<1>3. \A i \in Pods : Arrival(i)' = Arrival(i) /\ Arrival(i).kind = "arrival"
  BY <1>2 DEF config, Arrival, SubmitTime
<1>4. ASSUME NEW e \in heap, IsNext(e), e.kind = "arrival", now' = e.time,
             heap \ {e} \subseteq heap', e \notin heap',
             \A f \in heap' : f \in heap \/ f.kind = "release",
             UNCHANGED <<allocated, outcomes>> \/ \E n \in Nodes : Place(e.ev, n, e.time)
      PROVE  Comes(e.ev)
  BY <1>2, <1>4, ArrivalFacts DEF Comes
<1>5. ASSUME NEW e \in heap, NEW n \in Nodes, RunArrivePlaced(e, n) PROVE Counted(e.ev)
  <2>1. /\ IsNext(e) /\ e.kind = "arrival" /\ now' = e.time
        /\ heap' = (heap \ {e}) \cup {CompletionAt(e.ev, n, e.time, seq + 1)}
        /\ UNCHANGED choice /\ Sample(Score(remaining')) /\ Place(e.ev, n, e.time)
    BY <1>5 DEF RunArrivePlaced, ArrivePlaced
  <2>2. CompletionAt(e.ev, n, e.time, seq + 1).kind = "release"
    BY DEF CompletionAt, Release
  <2>3. Comes(e.ev)
    BY <1>4, <2>1, <2>2
  <2> QED
    BY <1>1, <2>1, <2>3 DEF Counted
<1>6. ASSUME NEW e \in heap, RunArriveQueued(e) PROVE Counted(e.ev)
  <2>1. /\ IsNext(e) /\ e.kind = "arrival" /\ now' = e.time /\ heap' = heap \ {e}
        /\ UNCHANGED choice /\ Sample(Score(remaining))
        /\ UNCHANGED <<remaining, allocated, outcomes>>
    BY <1>6 DEF RunArriveQueued, ArriveQueued, cluster
  <2>2. Comes(e.ev)
    BY <1>4, <2>1
  <2> QED
    BY <1>1, <2>1, <2>2 DEF Counted
<1>7. ASSUME UNCHANGED <<choice, samples>>,
             \A f \in heap : f.kind = "release" \/ f \in heap',
             \A f \in heap' : f \in heap \/ f.kind = "release"
      PROVE  NoneComes
  BY <1>1, <1>3, <1>7 DEF NoneComes, Arrived
<1>8. ASSUME NEW n \in Nodes, RunDrainPlaced(n) PROVE NoneComes
  <2>1. heap' = heap \cup {CompletionAt(pending[scan], n, now, seq)} /\ UNCHANGED <<choice, samples>>
    BY <1>8 DEF RunDrainPlaced, DrainPlaced
  <2>2. CompletionAt(pending[scan], n, now, seq).kind = "release"
    BY DEF CompletionAt, Release
  <2> QED
    BY <1>7, <2>1, <2>2
<1>9. CASE RunOther
  <2>1. UNCHANGED <<choice, samples>>
    BY <1>9 DEF RunOther
  <2>2. heap' = heap \/ \E e \in heap : e.kind = "release" /\ heap' = heap \ {e}
    BY <1>9 DEF RunOther, ReleasePod, DrainExpired, DrainKept, DrainEnd
  <2> QED
    BY <1>7, <2>1, <2>2
<1>10. CASE UNCHANGED runVars
  BY <1>7, <1>10 DEF runVars, vars
<1>11. ASSUME NEW e \in heap, NEW n \in Nodes, RunArrivePlaced(e, n) PROVE e.ev \in Pods
  BY <1>5, <1>11 DEF Counted, Comes
<1>12. ASSUME NEW e \in heap, RunArriveQueued(e) PROVE e.ev \in Pods
  BY <1>6, <1>12 DEF Counted, Comes
<1> QED
  BY <1>5, <1>6, <1>8, <1>9, <1>10, <1>11, <1>12 DEF RunNext

\* The pod that comes is the next in the trace.
LEMMA ComesNext ==
  ASSUME TypeOK, InTurn, NEW p \in Pods, Comes(p)
  PROVE  p = n_processed + 1
<1>1. Pods = 1 .. Len(trace) /\ Len(trace) \in Nat
  BY TraceFacts DEF TypeOK
<1>2. ~(p <= n_processed) /\ \A j \in Pods : j < p => j <= n_processed
  BY DEF Comes, InTurn
<1>3. p \in Nat /\ n_processed \in Nat
  BY <1>1 DEF InTurn
<1>4. CASE p = 1
  BY <1>2, <1>3, <1>4
<1>5. CASE p > 1
  <2>1. p - 1 \in Pods /\ p - 1 < p
    BY <1>1, <1>3, <1>5
  <2> QED
    BY <1>2, <1>3, <2>1
<1> QED
  BY <1>1, <1>4, <1>5

\* What a sample adds to the list.
LEMMA SampleFacts ==
  ASSUME IndInv, IndInv', InTurn, NEW p \in Pods, Counted(p)
  PROVE  LET L == Len(fragmentation_trace)
         IN  /\ L \in Nat /\ n_processed' = n_processed + 1 /\ fragmentation_trace' \in Seq(Notes)
             /\ typical' = typical /\ Notes' = Notes
             /\ \/ /\ fragmentation_trace' = fragmentation_trace
                   /\ typical.pods # <<>> => (n_processed + 1) % Every # 0
                \/ /\ typical.pods # <<>> /\ (n_processed + 1) % Every = 0
                   /\ Len(fragmentation_trace') = L + 1
                   /\ fragmentation_trace'[L + 1] = <<now', Score(remaining')>>
                   /\ \A k \in 1 .. L : fragmentation_trace'[k] = fragmentation_trace[k]
<1> DEFINE note == <<now', Score(remaining')>>
<1>1. /\ n_processed' = n_processed + 1 /\ typical' = typical
      /\ fragmentation_trace' = IF n_processed' % Every = 0 /\ typical.pods # <<>>
                                THEN Append(fragmentation_trace, note)
                                ELSE fragmentation_trace
  BY DEF Counted, Sample, choice
<1>2. Notes' = Notes
  BY <1>1 DEF Notes, Score
<1>3. note \in Notes
  <2>1. now' \in Nat /\ remaining' \in [Nodes -> Remaining]
    BY DEF IndInv, TypeOK
  <2>2. \A t \in Nat, left \in [Nodes -> Remaining] : <<t, Score(left)>> \in Notes
    BY DEF Notes
  <2> QED
    BY <2>1, <2>2
<1>4. fragmentation_trace \in Seq(Notes)
  BY DEF InTurn
<1> HIDE DEF note
<1>5. /\ Append(fragmentation_trace, note) \in Seq(Notes)
      /\ Len(fragmentation_trace) \in Nat
      /\ Len(Append(fragmentation_trace, note)) = Len(fragmentation_trace) + 1
      /\ Append(fragmentation_trace, note)[Len(fragmentation_trace) + 1] = note
      /\ \A k \in 1 .. Len(fragmentation_trace) :
           Append(fragmentation_trace, note)[k] = fragmentation_trace[k]
  BY <1>3, <1>4
<1> QED
  BY <1>1, <1>2, <1>4, <1>5 DEF note

\* Arrivals and samples keep in step.
LEMMA InTurnKept ==
  ASSUME IndInv, IndInv', InTurn, [RunNext]_runVars
  PROVE  InTurn'
<1>1. TypeOK /\ trace' = trace /\ Pods' = Pods /\ Pods = 1 .. Len(trace) /\ Len(trace) \in Nat
  <2>1. TypeOK /\ [Next]_vars
    BY RunStepIsStep DEF IndInv
  <2> QED
    BY <2>1, StepFacts, TraceFacts DEF config, Pods, TypeOK
<1>2. ASSUME NEW p \in Pods, Counted(p) PROVE InTurn'
  <2> DEFINE L == Len(fragmentation_trace)
  <2>1. p = n_processed + 1
    BY <1>1, <1>2, ComesNext DEF Counted
  <2>2. \A j \in Pods : Arrived(j)' <=> j <= n_processed + 1
    <3>1. \A j \in Pods : j \in Nat /\ (Arrived(j) <=> j <= n_processed) /\ n_processed \in Nat
      BY <1>1 DEF InTurn
    <3> QED
      BY <1>2, <2>1, <3>1 DEF Counted, Comes
  <2>3. /\ L \in Nat /\ n_processed \in Nat /\ L * Every <= n_processed
        /\ typical.pods # <<>> => n_processed < (L + 1) * Every
    BY <1>2, SampleFacts DEF InTurn
  <2>4. Every \in Nat \ {0}
    BY EveryAssumption
  <2>5. /\ L * Every \in Nat /\ (L + 1) * Every \in Nat /\ (L + 1 + 1) * Every \in Nat
        /\ (L + 1) * Every < (L + 1 + 1) * Every
    BY <2>3, <2>4, Z3
  <2>6. typical.pods # <<>> =>
          /\ (n_processed + 1) % Every = 0 => n_processed + 1 = (L + 1) * Every
          /\ (n_processed + 1) % Every # 0 => n_processed + 1 < (L + 1) * Every
    BY <2>3, <2>4, EveryTurn
  <2>7. /\ Len(fragmentation_trace') * Every <= n_processed + 1
        /\ typical.pods # <<>> => n_processed + 1 < (Len(fragmentation_trace') + 1) * Every
    <3>1. CASE /\ fragmentation_trace' = fragmentation_trace
               /\ typical.pods # <<>> => (n_processed + 1) % Every # 0
      BY <2>3, <2>5, <2>6, <3>1
    <3>2. CASE /\ typical.pods # <<>> /\ (n_processed + 1) % Every = 0
               /\ Len(fragmentation_trace') = L + 1
      BY <2>3, <2>5, <2>6, <3>2
    <3> QED
      BY <1>2, <3>1, <3>2, SampleFacts
  <2>8. /\ n_processed' = n_processed + 1 /\ fragmentation_trace' \in Seq(Notes)
        /\ typical' = typical /\ Notes' = Notes
    BY <1>2, SampleFacts
  <2> QED
    BY <1>1, <2>1, <2>2, <2>3, <2>7, <2>8 DEF InTurn
<1>3. CASE NoneComes
  BY <1>1, <1>3 DEF NoneComes, InTurn, choice, samples, Notes, Score
<1> QED
  BY <1>2, <1>3, RunStepFacts

Started(k) == {j \in 1 .. k * Every : Admitted(j)}
Sure(k, t) ==
  {j \in Started(k) : outcomes[j].start_time < t /\ outcomes[j].completion_time >= t}
AtOnce(k, t) == {j \in Started(k) : outcomes[j].start_time = t}
Freed(t) == \E j \in Pods : Admitted(j) /\ outcomes[j].completion_time = t

\* The k-th sample is right by the outcomes, as SamplesMatchOutcomes has it.
Matches(k) ==
  /\ fragmentation_trace[k][1] = SubmitTime(k * Every)
  /\ \E S \in SUBSET AtOnce(k, fragmentation_trace[k][1]) :
       /\ Freed(fragmentation_trace[k][1]) \/ S = AtOnce(k, fragmentation_trace[k][1])
       /\ fragmentation_trace[k][2] = Score(LeftBy(Sure(k, fragmentation_trace[k][1]) \cup S))

\* The property, sample by sample.
LEMMA MatchesAll ==
  ASSUME \A k \in DOMAIN fragmentation_trace : Matches(k)
  PROVE  SamplesMatchOutcomes
<1> SUFFICES ASSUME NEW k \in DOMAIN fragmentation_trace
             PROVE  LET t == fragmentation_trace[k][1]
                    IN  /\ t = SubmitTime(k * Every)
                        /\ \E S \in IF Freed(t) THEN SUBSET AtOnce(k, t) ELSE {AtOnce(k, t)} :
                             fragmentation_trace[k][2] = Score(LeftBy(Sure(k, t) \cup S))
  BY DEF SamplesMatchOutcomes, Freed, AtOnce, Sure, Started
<1> QED
  BY DEF Matches

\* What a set of pods leaves depends on their nodes alone.
LEMMA LeftBySame ==
  ASSUME UNCHANGED trace, NEW U, \A j \in U : outcomes'[j] = outcomes[j]
  PROVE  LeftBy(U)' = LeftBy(U)
<1>1. \A n \in Nodes : OnNode(n, U)' = OnNode(n, U)
  BY DEF OnNode
<1>2. [i \in Pods |-> Pod(i)]' = [i \in Pods |-> Pod(i)]
  BY DEF Pods, Pod
<1> QED
  BY <1>1, <1>2 DEF LeftBy

\* A sample taken stays right: a pod placed later starts after it or, if at
\* the same instant, in a drain, as others complete.
LEMMA MatchStays ==
  ASSUME IndInv, IndInv', History, [Next]_vars, UNCHANGED typical,
         NEW k, k * Every \in Pods, \A j \in 1 .. k * Every : j \in Pods /\ Arrived(j),
         fragmentation_trace'[k] = fragmentation_trace[k], Matches(k)
  PROVE  Matches(k)'
<1>1. TypeOK /\ trace' = trace /\ Pods' = Pods /\ SubmitTime(k * Every)' = SubmitTime(k * Every)
  BY StepFacts DEF IndInv, config, Pods, SubmitTime
<1>2. PICK t : t = fragmentation_trace[k][1]
  OBVIOUS
<1>3. k * Every \in 1 .. k * Every
  <2>1. k * Every \in Nat /\ k * Every >= 1
    BY <1>1, TraceFacts DEF TypeOK
  <2> QED
    BY <2>1
<1>4. t = SubmitTime(k * Every) /\ t \in Nat /\ t <= now
  <2>1. SubmitTime(k * Every) \in Nat
    BY <1>1, TraceFacts DEF TypeOK
  <2> QED
    BY <1>2, <1>3, <2>1 DEF Matches, History
<1>5. PICK S \in SUBSET AtOnce(k, t) :
        /\ Freed(t) \/ S = AtOnce(k, t)
        /\ fragmentation_trace[k][2] = Score(LeftBy(Sure(k, t) \cup S))
  BY <1>2 DEF Matches
<1>6. PICK U : U = Sure(k, t) \cup S
  OBVIOUS
<1>7. \A j \in U : j \in Pods /\ Admitted(j)
  BY <1>5, <1>6 DEF Sure, AtOnce, Started
<1>8. ASSUME \A j \in U : outcomes'[j] = outcomes[j], Sure(k, t)' = Sure(k, t),
             S \subseteq AtOnce(k, t)', Freed(t)' \/ S = AtOnce(k, t)'
      PROVE  Matches(k)'
  <2>1. LeftBy(U)' = LeftBy(U)
    BY <1>1, <1>8, LeftBySame
  <2>2. Score(LeftBy(Sure(k, t) \cup S))' = Score(LeftBy(U))
    <3>1. LeftBy(Sure(k, t) \cup S)' = LeftBy(U)'
      BY <1>6, <1>8
    <3> QED
      BY <2>1, <3>1 DEF Score
  <2>3. fragmentation_trace'[k][2] = Score(LeftBy(Sure(k, t) \cup S))'
    BY <1>5, <1>6, <2>2
  <2>4. fragmentation_trace'[k][1] = t
    BY <1>2
  <2> QED
    BY <1>1, <1>4, <1>8, <2>3, <2>4 DEF Matches
<1>9. CASE UNCHANGED outcomes
  <2>1. Started(k)' = Started(k)
    BY <1>9 DEF Started, Admitted
  <2>2. Sure(k, t)' = Sure(k, t) /\ AtOnce(k, t)' = AtOnce(k, t) /\ (Freed(t)' <=> Freed(t))
    BY <1>1, <1>9, <2>1 DEF Sure, AtOnce, Freed, Admitted
  <2> QED
    BY <1>5, <1>8, <1>9, <2>2
<1>10. ASSUME NEW p \in Pods, NEW n \in Nodes, NewlyPlaced(p, n) PROVE Matches(k)'
  <2>1. now \in Nat /\ now' \in Nat /\ now <= now'
    BY StepFacts DEF ClockMoves
  <2>2. /\ ~Admitted(p) /\ Admitted(p)' /\ outcomes'[p].start_time = now'
        /\ \A j \in Pods : j # p => outcomes'[j] = outcomes[j] /\ (Admitted(j)' <=> Admitted(j))
    BY <1>10, <2>1, StepFacts, NewRecord DEF NewlyPlaced
  <2>3. \A j \in U : outcomes'[j] = outcomes[j]
    BY <1>7, <2>2
  <2>4. \A j \in 1 .. k * Every : j # p => (j \in Started(k)' <=> j \in Started(k))
    BY <2>2 DEF Started
  <2>5. Sure(k, t)' = Sure(k, t)
    <3>1. p \notin Sure(k, t)' /\ p \notin Sure(k, t)
      BY <1>4, <2>1, <2>2 DEF Sure, Started
    <3>2. \A j \in 1 .. k * Every : j # p => (j \in Sure(k, t)' <=> j \in Sure(k, t))
      BY <2>2, <2>4 DEF Sure, Started
    <3> QED
      BY <3>1, <3>2 DEF Sure, Started
  <2>6. \A j \in 1 .. k * Every : j # p => (j \in AtOnce(k, t)' <=> j \in AtOnce(k, t))
    BY <2>2, <2>4 DEF AtOnce, Started
  <2>7. p \notin AtOnce(k, t)
    BY <2>2 DEF AtOnce, Started
  <2>8. S \subseteq AtOnce(k, t)'
    BY <1>5, <2>6, <2>7 DEF AtOnce, Started
  <2>9. Freed(t) => Freed(t)'
    BY <1>1, <2>2 DEF Freed
  <2>10. Freed(t)' \/ S = AtOnce(k, t)'
    <3>1. CASE p \notin AtOnce(k, t)'
      <4>1. AtOnce(k, t)' = AtOnce(k, t)
        BY <2>6, <2>7, <3>1 DEF AtOnce, Started
      <4> QED
        BY <1>5, <2>9, <4>1
    <3>2. CASE p \in AtOnce(k, t)'
      <4>1. now' = t /\ Arrived(p)
        BY <2>2, <3>2 DEF AtOnce, Started
      <4>2. pc = "drain" /\ now = t
        BY <1>10, <4>1 DEF NewlyPlaced
      <4>3. Freed(t)
        BY <4>2 DEF IndInv, DrainOccasion, Freed
      <4> QED
        BY <2>9, <4>3
    <3> QED
      BY <3>1, <3>2
  <2> QED
    BY <1>8, <2>3, <2>5, <2>8, <2>10
<1> QED
  BY <1>9, <1>10, StepFacts

\* As pod p has been handled, the pods on a node are those admitted there that
\* started before and complete no earlier than now, or that start just now: a
\* pod that has left completed before p came.
LEMMA OnNodesNow ==
  ASSUME IndInv, History, [Next]_vars, NEW p \in Pods, Comes(p), NEW i \in Pods, NEW n \in Nodes
  PROVE  i \in allocated'[n] <=>
           /\ Admitted(i)' /\ outcomes'[i].node_id = n
           /\ \/ outcomes'[i].start_time < now' /\ outcomes'[i].completion_time >= now'
              \/ outcomes'[i].start_time = now'
<1>1. TypeOK /\ ReleasesMatchHoldings /\ now' = SubmitTime(p) /\ ~Arrived(p) /\ ~Admitted(p)
  BY DEF IndInv, Comes
<1>2. now \in Nat /\ now' \in Nat /\ now <= now' /\ UNCHANGED config
  BY StepFacts DEF ClockMoves
<1>3. i \in allocated[n] <=>
        /\ Admitted(i) /\ outcomes[i].node_id = n
        /\ \/ outcomes[i].start_time < now' /\ outcomes[i].completion_time >= now'
           \/ outcomes[i].start_time = now'
  <2>1. ASSUME i \in allocated[n]
        PROVE  /\ Admitted(i) /\ outcomes[i].node_id = n
               /\ \/ outcomes[i].start_time < now' /\ outcomes[i].completion_time >= now'
                  \/ outcomes[i].start_time = now'
    <3>1. Admitted(i) /\ outcomes[i].node_id = n
      BY <1>1, <2>1, RunningFacts
    <3>2. outcomes[i].completion_time >= now'
      <4>1. Running(i)
        BY <2>1 DEF Running
      <4> QED
        BY <1>1, <1>2, <3>1, <4>1, StepFacts, RecordFacts DEF ClockMoves
    <3>3. outcomes[i].start_time \in Nat /\ outcomes[i].start_time <= now
      BY <1>1, <3>1, RecordFacts
    <3> QED
      BY <1>2, <3>1, <3>2, <3>3
  <2>2. ASSUME Admitted(i), outcomes[i].node_id = n, i \notin allocated[n]
        PROVE  /\ outcomes[i].start_time < now'
               /\ outcomes[i].completion_time < now'
    <3>1. ~Running(i)
      BY <1>1, <2>2, RunningFacts DEF Running
    <3>2. LeftInTime(i)
      BY <2>2, <3>1 DEF History
    <3>3. ~(now' <= outcomes[i].completion_time)
      BY <1>1, <3>2 DEF LeftInTime
    <3>4. /\ outcomes[i].start_time \in Nat /\ outcomes[i].completion_time \in Nat
          /\ outcomes[i].start_time <= outcomes[i].completion_time
      BY <1>1, <2>2, RecordFacts
    <3> QED
      BY <1>2, <3>3, <3>4
  <2>3. Admitted(i) => outcomes[i].start_time \in Nat /\ outcomes[i].completion_time \in Nat
    BY <1>1, RecordFacts
  <2> QED
    BY <1>2, <2>1, <2>2, <2>3
<1>4. CASE UNCHANGED <<allocated, outcomes>>
  BY <1>3, <1>4 DEF Admitted
<1>5. ASSUME NEW m \in Nodes, Place(p, m, now')
      PROVE  i \in allocated'[n] <=>
               /\ Admitted(i)' /\ outcomes'[i].node_id = n
               /\ \/ outcomes'[i].start_time < now' /\ outcomes'[i].completion_time >= now'
                  \/ outcomes'[i].start_time = now'
  <2>1. /\ allocated' = [allocated EXCEPT ![m] = allocated[m] \cup {p}]
        /\ allocated \in [Nodes -> SUBSET Pods]
    BY <1>1, <1>5 DEF Place, TypeOK
  <2>2. NewlyPlaced(p, m)
    BY <1>1, <1>2, <1>5 DEF NewlyPlaced
  <2>3. /\ Admitted(p)' /\ outcomes'[p].node_id = m /\ outcomes'[p].start_time = now'
        /\ \A j \in Pods : j # p => outcomes'[j] = outcomes[j] /\ (Admitted(j)' <=> Admitted(j))
    BY <1>2, <2>2, NewRecord
  <2>4. CASE i = p
    <3>1. p \notin allocated[n]
      BY <1>1, HeldIsAdmitted
    <3>2. i \in allocated'[n] <=> n = m
      BY <2>1, <2>4, <3>1
    <3> QED
      BY <2>3, <2>4, <3>2
  <2>5. CASE i # p
    <3>1. i \in allocated'[n] <=> i \in allocated[n]
      BY <2>1, <2>5
    <3> QED
      BY <1>3, <2>3, <2>5, <3>1
  <2> QED
    BY <2>4, <2>5
<1> QED
  BY <1>4, <1>5 DEF Comes

\* A sample is right when it is taken.
LEMMA MatchTaken ==
  ASSUME IndInv, IndInv', CapacityConserved', History, InTurn', NEW p \in Pods, Counted(p),
         NEW k, k * Every = p, n_processed' = p,
         fragmentation_trace'[k] = <<now', Score(remaining')>>
  PROVE  Matches(k)'
<1>1. [Next]_vars /\ Comes(p) /\ now' = SubmitTime(p) /\ UNCHANGED typical
  BY DEF Counted, Comes, choice
<1>2. /\ TypeOK /\ TypeOK' /\ trace' = trace /\ Pods' = Pods /\ SubmitTime(p)' = SubmitTime(p)
      /\ Pods = 1 .. Len(trace) /\ Len(trace) \in Nat /\ Asked' = Asked
  <2>1. TypeOK /\ TypeOK' /\ trace' = trace
    BY <1>1, StepFacts DEF IndInv, config
  <2> QED
    BY <2>1, TraceFacts DEF TypeOK, Pods, SubmitTime, Asked, Pod
<1>3. PICK t : t = now'
  OBVIOUS
<1>4. \A j \in Pods : Admitted(j)' <=> j \in Started(k)'
  <2>1. \A j \in Pods : Admitted(j)' => j <= p
    BY <1>2 DEF IndInv, ArrivalsInOrder, InTurn
  <2> QED
    BY <1>2, <2>1 DEF Started
<1>5. Started(k)' \subseteq Pods
  BY <1>2 DEF Started
<1>6. ASSUME NEW n \in Nodes
      PROVE  OnNode(n, Sure(k, t) \cup AtOnce(k, t))' = allocated'[n]
  <2>1. allocated'[n] \subseteq Pods
    BY <1>2 DEF TypeOK
  <2>2. OnNode(n, Sure(k, t) \cup AtOnce(k, t))' \subseteq Pods
    BY <1>5 DEF OnNode, Sure, AtOnce
  <2>3. ASSUME NEW i \in Pods
        PROVE  i \in allocated'[n] <=> i \in OnNode(n, Sure(k, t) \cup AtOnce(k, t))'
    <3>1. i \in OnNode(n, Sure(k, t) \cup AtOnce(k, t))' <=>
            /\ i \in Started(k)' /\ outcomes'[i].node_id = n
            /\ \/ outcomes'[i].start_time < t /\ outcomes'[i].completion_time >= t
               \/ outcomes'[i].start_time = t
      BY DEF OnNode, Sure, AtOnce
    <3> QED
      BY <1>1, <1>3, <1>4, <3>1, OnNodesNow
  <2> QED
    BY <2>1, <2>2, <2>3
<1>7. LeftBy(Sure(k, t) \cup AtOnce(k, t))' = remaining'
  <2>1. \A n \in Nodes : remaining'[n] = TakeAll(Empty(NodeOf[n]), Asked, allocated'[n])
    BY <1>2 DEF CapacityConserved, Asked
  <2>2. remaining' = [n \in Nodes |-> remaining'[n]]
    BY <1>2 DEF TypeOK
  <2>3. LeftBy(Sure(k, t) \cup AtOnce(k, t))' =
          [n \in Nodes |-> TakeAll(Empty(NodeOf[n]), Asked,
                                   OnNode(n, Sure(k, t) \cup AtOnce(k, t))')]
    BY <1>2 DEF LeftBy, Asked
  <2> QED
    BY <1>6, <2>1, <2>2, <2>3
<1>8. fragmentation_trace'[k][2] = Score(LeftBy(Sure(k, t) \cup AtOnce(k, t)))'
  BY <1>1, <1>7 DEF Score
<1>9. fragmentation_trace'[k][1] = t /\ SubmitTime(k * Every)' = t
  BY <1>1, <1>2, <1>3
<1>10. PICK S : S = AtOnce(k, t)'
  OBVIOUS
<1>11. fragmentation_trace'[k][2] = Score(LeftBy(Sure(k, t) \cup S))'
  <2>1. LeftBy(Sure(k, t) \cup S)' = LeftBy(Sure(k, t) \cup AtOnce(k, t))'
    BY <1>10
  <2> QED
    BY <1>8, <2>1 DEF Score
<1> QED
  BY <1>9, <1>10, <1>11 DEF Matches

\* The samples are right: by what the outcomes say in the end, each is the
\* score of the cluster as it was when every Every-th pod had been handled,
\* although it is taken before the releases of that instant
\* (event_runtime.py:180-186).
THEOREM SamplesAreRight == RunSpec => []SamplesMatchOutcomes
<1> DEFINE AllMatch == \A k \in DOMAIN fragmentation_trace : Matches(k)
<1>1. RunInit => InTurn /\ AllMatch
  <2> SUFFICES ASSUME RunInit PROVE InTurn /\ AllMatch
    OBVIOUS
  <2>1. /\ trace \in Traces /\ heap = {Arrival(i) : i \in Pods}
        /\ n_processed = 0 /\ fragmentation_trace = <<>>
    BY DEF RunInit, Init
  <2>2. \A j \in Pods : ~Arrived(j) /\ j \in Nat /\ j >= 1
    BY <2>1, TraceFacts DEF Arrived
  <2>3. Len(trace) \in Nat /\ Every \in Nat \ {0}
    BY <2>1, TraceFacts, EveryAssumption
  <2>4. Len(fragmentation_trace) = 0 /\ fragmentation_trace \in Seq(Notes)
    BY <2>1
  <2>5. AllMatch
    BY <2>1
  <2>6. InTurn
    <3>1. Len(fragmentation_trace) * Every = 0 /\ (Len(fragmentation_trace) + 1) * Every > 0
      BY <2>3, <2>4
    <3> QED
      <4>1. \A j \in Pods : ~Arrived(j) /\ ~(j <= n_processed)
        BY <2>1, <2>2
      <4> QED
        BY <2>1, <2>3, <2>4, <3>1, <4>1 DEF InTurn
  <2> QED
    BY <2>5, <2>6
<1>2. ASSUME IndInv, IndInv', CapacityConserved', History, InTurn, InTurn', AllMatch,
             [RunNext]_runVars
      PROVE  AllMatch'
  <2> PICK L : L = Len(fragmentation_trace)
    OBVIOUS
  <2>1. /\ TypeOK /\ [Next]_vars /\ Pods = 1 .. Len(trace) /\ Len(trace) \in Nat
    BY <1>2, RunStepIsStep, TraceFacts DEF IndInv, TypeOK
  <2>2. /\ L \in Nat /\ DOMAIN fragmentation_trace = 1 .. L /\ Every \in Nat \ {0}
        /\ n_processed \in Nat /\ L * Every <= n_processed /\ n_processed <= Len(trace)
    BY <1>2, EveryAssumption DEF InTurn
  <2>3. ASSUME NEW k \in 1 .. L
        PROVE  k * Every \in Pods /\ \A j \in 1 .. k * Every : j \in Pods /\ Arrived(j)
    <3>1. k * Every \in Nat /\ 1 <= k * Every /\ k * Every <= L * Every /\ L * Every \in Nat
      BY <2>2, Z3
    <3>2. k * Every <= n_processed
      BY <2>2, <3>1
    <3> QED
      BY <1>2, <2>1, <2>2, <3>1, <3>2 DEF InTurn
  <2>4. ASSUME UNCHANGED typical, NEW k \in 1 .. L, fragmentation_trace'[k] = fragmentation_trace[k]
        PROVE  Matches(k)'
    BY <1>2, <2>1, <2>2, <2>3, <2>4, MatchStays
  <2>5. CASE NoneComes
    BY <2>2, <2>4, <2>5 DEF NoneComes, choice, samples
  <2>6. ASSUME NEW p \in Pods, Counted(p) PROVE AllMatch'
    <3>1. /\ n_processed' = n_processed + 1 /\ fragmentation_trace' \in Seq(Notes)
          /\ UNCHANGED typical /\ p = n_processed + 1
      BY <1>2, <2>1, <2>6, SampleFacts, ComesNext DEF Counted
    <3>2. CASE fragmentation_trace' = fragmentation_trace
      BY <2>2, <2>4, <3>1, <3>2
    <3>3. CASE /\ typical.pods # <<>> /\ (n_processed + 1) % Every = 0
               /\ Len(fragmentation_trace') = L + 1
               /\ fragmentation_trace'[L + 1] = <<now', Score(remaining')>>
               /\ \A k \in 1 .. L : fragmentation_trace'[k] = fragmentation_trace[k]
      <4>1. (L + 1) * Every = p
        BY <1>2, <2>2, <3>1, <3>3, EveryTurn DEF InTurn
      <4>2. Matches(L + 1)'
        BY <1>2, <2>6, <3>1, <3>3, <4>1, MatchTaken
      <4>3. DOMAIN fragmentation_trace' = 1 .. L + 1
        BY <3>1, <3>3
      <4> QED
        BY <2>2, <2>4, <3>1, <3>3, <4>2, <4>3
    <3> QED
      BY <1>2, <2>6, <3>2, <3>3, SampleFacts
  <2> QED
    BY <1>2, <2>5, <2>6, RunStepFacts
<1>3. IndInv /\ IndInv' /\ InTurn /\ [RunNext]_runVars => InTurn'
  BY InTurnKept
<1>4. AllMatch => SamplesMatchOutcomes
  BY MatchesAll
<1> HIDE DEF AllMatch
<1> QED
  BY <1>1, <1>2, <1>3, <1>4, RunIsLoop, Invariance, NothingLeaks, HistoryHolds, PTL DEF RunSpec

-----------------------------------------------------------------------------
(* GPU-hours.                                                              *)

OnRecord(n) == {i \in Pods : Admitted(i) /\ outcomes[i].node_id = n}

\* The time a pod has been running until now, and the device-time it has had.
Until(i) == IF outcomes[i].completion_time <= now THEN outcomes[i].completion_time ELSE now
Spent(n) ==
  [i \in Pods |-> IF i \in OnRecord(n)
                  THEN Pod(i).gpu_number * (Until(i) - outcomes[i].start_time) ELSE 0]

\* The devices the pods on a node hold.
Held(n) == [i \in Pods |-> IF i \in allocated[n] THEN Pod(i).gpu_number ELSE 0]

\* The pods recorded on a node have had no more than all of its devices for as
\* long as any of them ran, counted from 0.
NotOverused(n) ==
  \A u \in Nat :
    (\A i \in OnRecord(n) : Until(i) <= u) => Total(Spent(n), Pods) <= u * NodeOf[n].gpu_count

NoneOverused == \A n \in Nodes : NotOverused(n)

\* The pods on a node hold no more devices than it has.
LEMMA HeldFacts ==
  ASSUME TypeOK, CapacityConserved, NEW n \in Nodes
  PROVE  /\ NodeOf[n].gpu_count \in Nat
         /\ \A i \in Pods : Held(n)[i] \in Nat
         /\ Total(Held(n), Pods) \in Nat /\ Total(Held(n), Pods) <= NodeOf[n].gpu_count
         /\ allocated[n] = {} => Total(Held(n), Pods) = 0
<1> DEFINE asks == Asks(Asked, "gpu_number")
<1>1. NodeOf[n].gpu_count \in Nat
  BY NodesAssumption DEF NodeResource
<1>2. \A i \in Pods : Pod(i).gpu_number \in Nat
  BY TraceFacts DEF TypeOK, PodResource
<1>3. IsFiniteSet(Pods) /\ allocated[n] \in SUBSET Pods
  BY AdmittedFacts DEF TypeOK
<1>4. \A i \in Pods : Held(n)[i] \in Nat
  BY <1>2 DEF Held
<1>5. Total(Held(n), Pods) \in Nat
  BY <1>3, <1>4, TotalType
<1>6. Total(Held(n), Pods) = Total(asks, allocated[n])
  <2>1. \A i \in allocated[n] : Held(n)[i] \in Int /\ asks[i] = Held(n)[i]
    BY <1>2, <1>3 DEF Held, Asks, Asked
  <2>2. \A i \in Pods \ allocated[n] : Held(n)[i] = 0
    BY DEF Held
  <2> HIDE DEF asks
  <2> QED
    BY <1>3, <2>1, <2>2, TotalOfPart
<1>7. Total(asks, allocated[n]) <= NodeOf[n].gpu_count
  <2>1. remaining[n] = TakeAll(Empty(NodeOf[n]), Asked, allocated[n]) /\ remaining[n].gpu_count >= 0
    BY DEF CapacityConserved, Asked, NotOvercommitted
  <2>2. remaining[n].gpu_count = Empty(NodeOf[n]).gpu_count - Total(asks, allocated[n])
    <3>1. allocated[n] \in SUBSET DOMAIN Asked
      BY <1>3, AskedFacts
    <3> QED
      BY <2>1, <3>1, TakeAllDef
  <2>3. Empty(NodeOf[n]).gpu_count = NodeOf[n].gpu_count
    BY DEF Empty
  <2>4. Total(asks, allocated[n]) \in Nat
    BY <1>5, <1>6
  <2> HIDE DEF asks
  <2> QED
    BY <1>1, <2>1, <2>2, <2>3, <2>4
<1>8. allocated[n] = {} => Total(Held(n), Pods) = 0
  BY <1>6, TotalOfNone
<1> QED
  BY <1>1, <1>4, <1>5, <1>6, <1>7, <1>8

\* What pods have had is a number.
LEMMA SpentFacts ==
  ASSUME TypeOK, History, NEW n \in Nodes
  PROVE  /\ \A i \in Pods : Spent(n)[i] \in Int
         /\ Total(Spent(n), Pods) \in Int
         /\ \A i \in OnRecord(n) : i \in Pods /\ Until(i) \in Nat /\ Until(i) <= now
<1>1. \A i \in OnRecord(n) : i \in Pods /\ Until(i) \in Nat /\ Until(i) <= now
  BY RecordFacts DEF OnRecord, Until, TypeOK
<1>2. ASSUME NEW i \in Pods PROVE Spent(n)[i] \in Int
  <2>1. CASE i \in OnRecord(n)
    <3>1. /\ Until(i) \in Int /\ outcomes[i].start_time \in Int
      BY <1>1, <2>1, RecordFacts DEF OnRecord
    <3>2. Pod(i).gpu_number \in Int
      BY TraceFacts DEF TypeOK, PodResource
    <3>3. Spent(n)[i] = Pod(i).gpu_number * (Until(i) - outcomes[i].start_time)
      BY <2>1 DEF Spent
    <3> QED
      BY <3>1, <3>2, <3>3
  <2>2. CASE i \notin OnRecord(n)
    BY <2>2 DEF Spent
  <2> QED
    BY <2>1, <2>2
<1> QED
  BY <1>1, <1>2, AdmittedFacts, TotalType

\* As time passes, the pods on a node get what they hold, for that time.
LEMMA SpentGrows ==
  ASSUME IndInv, IndInv', History, [Next]_vars, NEW n \in Nodes, NEW i \in Pods
  PROVE  /\ Spent(n)'[i] = Spent(n)[i] + (now' - now) * Held(n)[i]
         /\ i \in OnRecord(n) => i \in OnRecord(n)'
         /\ i \in OnRecord(n) /\ i \notin allocated[n] => Until(i)' = Until(i)
         /\ i \in allocated[n] => i \in OnRecord(n) /\ Until(i)' = now'
<1>1. /\ TypeOK /\ ReleasesMatchHoldings /\ trace' = trace /\ Pods' = Pods
      /\ \A j \in Pods : Pod(j)' = Pod(j) /\ Pod(j).gpu_number \in Nat /\ trace[j].duration \in Nat
  <2>1. TypeOK /\ ReleasesMatchHoldings /\ trace' = trace
    BY StepFacts DEF IndInv, config
  <2> QED
    BY <2>1, TraceFacts DEF TypeOK, Pods, Pod, PodResource
<1>2. now \in Nat /\ now' \in Nat /\ now <= now'
  BY StepFacts DEF ClockMoves
<1>3. /\ Spent(n)[i] = IF i \in OnRecord(n)
                       THEN Pod(i).gpu_number * (Until(i) - outcomes[i].start_time) ELSE 0
      /\ Spent(n)'[i] = IF i \in OnRecord(n)'
                        THEN Pod(i).gpu_number * (Until(i)' - outcomes'[i].start_time) ELSE 0
      /\ Held(n)[i] = IF i \in allocated[n] THEN Pod(i).gpu_number ELSE 0
  BY <1>1 DEF Spent, Held
<1>4. i \in allocated[n] => i \in OnRecord(n) /\ Admitted(i)
  BY <1>1, RunningFacts DEF OnRecord
<1>5. ASSUME outcomes'[i] = outcomes[i]
      PROVE  /\ Spent(n)'[i] = Spent(n)[i] + (now' - now) * Held(n)[i]
             /\ i \in OnRecord(n) => i \in OnRecord(n)'
             /\ i \in OnRecord(n) /\ i \notin allocated[n] => Until(i)' = Until(i)
             /\ i \in allocated[n] => i \in OnRecord(n) /\ Until(i)' = now'
  <2>1. i \in OnRecord(n)' <=> i \in OnRecord(n)
    BY <1>1, <1>5 DEF OnRecord, Admitted
  <2>2. CASE i \notin OnRecord(n)
    BY <1>2, <1>3, <1>4, <2>1, <2>2
  <2>3. CASE i \in OnRecord(n)
    <3>1. /\ Admitted(i) /\ outcomes[i].start_time \in Nat /\ outcomes[i].completion_time \in Nat
      BY <1>1, <2>3, RecordFacts DEF OnRecord
    <3>2. CASE i \in allocated[n]
      <4>1. now' <= outcomes[i].completion_time
        BY <1>1, <3>2, StepFacts DEF ClockMoves, Running
      <4>2. Until(i) = now /\ Until(i)' = now'
        BY <1>2, <1>5, <3>1, <4>1 DEF Until
      <4>3. \A g, s \in Nat : g * (now' - s) = g * (now - s) + (now' - now) * g
        BY <1>2, Z3
      <4> QED
        BY <1>1, <1>3, <1>5, <2>1, <2>3, <3>1, <3>2, <4>2, <4>3
    <3>3. CASE i \notin allocated[n]
      <4>1. ~Running(i)
        BY <1>1, <2>3, <3>3, RunningFacts DEF Running, OnRecord
      <4>2. outcomes[i].completion_time <= now
        BY <3>1, <4>1 DEF History, LeftInTime
      <4>3. Until(i)' = Until(i) /\ Until(i) \in Nat
        BY <1>2, <1>5, <3>1, <4>2 DEF Until
      <4>4. Pod(i).gpu_number * (Until(i) - outcomes[i].start_time) \in Int
        BY <1>1, <3>1, <4>3
      <4> QED
        BY <1>2, <1>3, <1>5, <2>1, <2>3, <3>3, <4>3, <4>4
    <3> QED
      BY <3>2, <3>3
  <2> QED
    BY <2>2, <2>3
<1>6. ASSUME NEW m \in Nodes, NewlyPlaced(i, m)
      PROVE  /\ Spent(n)'[i] = Spent(n)[i] + (now' - now) * Held(n)[i]
             /\ i \notin OnRecord(n) /\ i \notin allocated[n]
  <2>1. ~Admitted(i)
    BY <1>6 DEF NewlyPlaced
  <2>2. i \notin OnRecord(n) /\ i \notin allocated[n]
    BY <1>4, <2>1 DEF OnRecord
  <2>3. /\ outcomes'[i].start_time = now'
        /\ outcomes'[i].completion_time = now' + trace[i].duration
    BY <1>2, <1>6, StepFacts, NewRecord
  <2>4. Until(i)' = now'
    BY <1>1, <1>2, <2>3 DEF Until
  <2>5. Spent(n)'[i] = 0
    BY <1>1, <1>2, <1>3, <2>3, <2>4
  <2> QED
    BY <1>2, <1>3, <2>2, <2>5
<1>7. CASE UNCHANGED outcomes
  BY <1>5, <1>7
<1>8. ASSUME NEW p \in Pods, NEW m \in Nodes, NewlyPlaced(p, m)
      PROVE  outcomes'[i] = outcomes[i] \/ i = p
  BY <1>2, <1>8, StepFacts, NewRecord
<1> QED
  BY <1>5, <1>6, <1>7, <1>8, StepFacts

\* While pods run on a node, they hold no more devices than it has; while none
\* does, nothing is spent there.
LEMMA NotOverusedKept ==
  ASSUME IndInv, IndInv', History, History', CapacityConserved, NoneOverused, [Next]_vars
  PROVE  NoneOverused'
<1> SUFFICES ASSUME NEW n \in Nodes, NEW u \in Nat, \A i \in OnRecord(n)' : Until(i)' <= u
             PROVE  Total(Spent(n)', Pods) <= u * NodeOf[n].gpu_count
  <2>1. Pods' = Pods
    BY StepFacts DEF config, Pods
  <2> QED
    BY <2>1 DEF NoneOverused, NotOverused
<1> DEFINE G == NodeOf[n].gpu_count
           d == now' - now
           grown == [i \in Pods |-> d * Held(n)[i]]
<1>1. TypeOK
  BY DEF IndInv
<1>2. now \in Nat /\ now' \in Nat /\ d \in Nat /\ now' = now + d
  BY StepFacts DEF ClockMoves
<1>3. /\ G \in Nat /\ Total(Held(n), Pods) \in Nat /\ Total(Held(n), Pods) <= G
      /\ \A i \in Pods : Held(n)[i] \in Nat
      /\ allocated[n] = {} => Total(Held(n), Pods) = 0
  BY <1>1, HeldFacts
<1>4. /\ \A i \in Pods : Spent(n)[i] \in Int
      /\ Total(Spent(n), Pods) \in Int
      /\ \A i \in OnRecord(n) : i \in Pods /\ Until(i) \in Nat /\ Until(i) <= now
  BY <1>1, SpentFacts
<1>5. Total(Spent(n)', Pods) = Total(Spent(n), Pods) + d * Total(Held(n), Pods)
  <2>1. /\ \A i \in Pods : Spent(n)'[i] = Spent(n)[i] + grown[i]
    BY SpentGrows
  <2>2. \A i \in Pods : Held(n)[i] \in Int /\ grown[i] = d * Held(n)[i] /\ grown[i] \in Int
    BY <1>2, <1>3
  <2>3. IsFiniteSet(Pods)
    BY <1>1, AdmittedFacts
  <2> HIDE DEF grown, d
  <2>4. Total(grown, Pods) = d * Total(Held(n), Pods)
    BY <1>2, <2>2, <2>3, TotalTimes
  <2>5. Total(Spent(n)', Pods) = Total(Spent(n), Pods) + Total(grown, Pods)
    BY <1>4, <2>1, <2>2, <2>3, TotalPlus
  <2> QED
    BY <2>4, <2>5
<1>6. ASSUME NEW v \in Nat, \A i \in OnRecord(n) : Until(i) <= v
      PROVE  Total(Spent(n), Pods) <= v * G
  BY <1>6 DEF NoneOverused, NotOverused
<1> HIDE DEF G, d
<1>7. CASE allocated[n] = {}
  <2>1. \A i \in OnRecord(n) : Until(i) <= u
    BY <1>4, <1>7, SpentGrows
  <2>2. Total(Spent(n), Pods) <= u * G
    BY <1>6, <2>1
  <2>3. d * Total(Held(n), Pods) = 0
    BY <1>2, <1>3, <1>7
  <2> QED
    BY <1>4, <1>5, <2>2, <2>3 DEF G
<1>8. CASE allocated[n] # {}
  <2>1. PICK i \in allocated[n] : i \in Pods
    BY <1>1, <1>8 DEF TypeOK
  <2>2. now' <= u
    BY <2>1, SpentGrows
  <2>3. Total(Spent(n), Pods) <= now * G
    BY <1>2, <1>4, <1>6
  <2>4. \A h \in Nat : h <= G => d * h <= d * G
    BY <1>2, <1>3, Z3
  <2>5. now * G + d * G <= u * G /\ u * G \in Int /\ now * G \in Int /\ d * G \in Int
    BY <1>2, <1>3, <2>2, Z3
  <2>6. d * Total(Held(n), Pods) \in Int
    BY <1>2, <1>3
  <2> QED
    BY <1>3, <1>4, <1>5, <2>3, <2>4, <2>5, <2>6 DEF G
<1> QED
  BY <1>7, <1>8

\* No node ever runs pods on more devices than it has.
LEMMA NeverOverused == Spec => []NoneOverused
<1>1. Init => NoneOverused
  <2> SUFFICES ASSUME Init, NEW n \in Nodes, NEW u \in Nat
               PROVE  Total(Spent(n), Pods) <= u * NodeOf[n].gpu_count
    BY DEF NoneOverused, NotOverused
  <2>1. \A i \in Pods : Spent(n)[i] = 0
    BY DEF Init, Spent, OnRecord, Admitted, Unplaced
  <2>2. IsFiniteSet(Pods)
    BY InitInv, AdmittedFacts DEF IndInv
  <2>3. Total(Spent(n), Pods) = 0
    <3>1. Total(Spent(n), Pods) = 0 * Cardinality(Pods)
      BY <2>1, <2>2, TotalOfConstant
    <3> QED
      BY <2>2, <3>1, FS_CardinalityType
  <2>4. NodeOf[n].gpu_count \in Nat
    BY NodesAssumption DEF NodeResource
  <2>5. 0 <= u * NodeOf[n].gpu_count
    BY <2>4, Z3
  <2> QED
    BY <2>3, <2>5
<1>2. IndInv /\ IndInv' /\ History /\ History' /\ CapacityConserved /\ NoneOverused /\ [Next]_vars
        => NoneOverused'
  BY NotOverusedKept
<1> QED
  BY <1>1, <1>2, Invariance, HistoryHolds, NothingLeaks, PTL DEF Spec

-----------------------------------------------------------------------------
(* The GPU-hours reported.                                                 *)

Devices == Asks(NodeOf, "gpu_count")

\* The device-time of an admitted pod that has run.
Used == [i \in Pods |-> GpuOf(trace[i].pod) * (outcomes[i].completion_time - outcomes[i].start_time)]

\* The sums the metrics take, as sums of functions.
LEMMA HoursAreTotals ==
  ASSUME TypeOK
  PROVE  /\ GpuHoursUsed(trace, outcomes) = Total(Used, AdmittedOnes(outcomes))
         /\ GpuHoursAvailable(NodeOf, outcomes) =
              Makespan(outcomes) * MILLI * Total(Devices, Nodes)
<1> DEFINE A == AdmittedOnes(outcomes)
           ByUse(g) == g = [s \in SUBSET A |->
                              IF s = {} THEN 0
                              ELSE (GpuOf(trace[First(s)].pod) *
                                     (outcomes[First(s)].completion_time
                                       - outcomes[First(s)].start_time)) + g[s \ {First(s)}]]
<1>1. \A s \in SUBSET A : s # {} =>
        Used[First(s)] = GpuOf(trace[First(s)].pod) *
                           (outcomes[First(s)].completion_time - outcomes[First(s)].start_time)
  <2>1. \A s \in SUBSET A : s # {} => First(s) \in Pods
    BY FirstIn, AdmittedFacts
  <2> QED
    BY <2>1 DEF Used
<1>2. GpuHoursUsed(trace, outcomes) = (CHOOSE g : ByUse(g))[A]
  BY DEF GpuHoursUsed, MapThenSumSet, MapThenFoldSet, First
<1>3. \A g : ByUse(g) <=> Iterates(Used, g, A)
  BY <1>1 DEF Iterates, Unroll
<1> HIDE DEF ByUse, A
<1>4. (CHOOSE g : ByUse(g)) = (CHOOSE g : Iterates(Used, g, A))
  BY <1>3
<1>5. GpuHoursUsed(trace, outcomes) = Total(Used, A)
  BY <1>2, <1>4, TotalDef
<1>6. MapThenSumSet(LAMBDA n : NodeOf[n].gpu_count, DOMAIN NodeOf) = Total(Devices, DOMAIN NodeOf)
  BY SumOfAsks DEF Devices
<1>7. DOMAIN NodeOf = Nodes
  BY NodesAssumption
<1> QED
  BY <1>5, <1>6, <1>7 DEF GpuHoursAvailable, A

\* At the end all pods have had all of their time.
LEMMA AllSpent ==
  ASSUME TypeOK, History, RejectedForCause, Finished, NEW n \in Nodes, NEW i \in OnRecord(n)
  PROVE  /\ Admitted(i) /\ i \in Pods /\ Until(i) = outcomes[i].completion_time
         /\ Spent(n)[i] = Pod(i).gpu_number * (outcomes[i].completion_time - outcomes[i].start_time)
         /\ Until(i) <= Makespan(outcomes)
<1>1. Admitted(i) /\ i \in Pods
  BY DEF OnRecord
<1>2. ~Running(i)
  BY DEF RejectedForCause, Running
<1>3. outcomes[i].completion_time <= now
  BY <1>1, <1>2 DEF History, LeftInTime
<1> QED
  BY <1>1, <1>3, MakespanFacts DEF Until, Spent

\* Pods that ask for whole devices have used no more device-time than there
\* was from 0 to the makespan.
LEMMA UsedIsAvailable ==
  ASSUME TypeOK, History, RejectedForCause, NoneOverused, Finished, WholeDevices
  PROVE  /\ GpuHoursUsed(trace, outcomes) \in Int /\ GpuHoursAvailable(NodeOf, outcomes) \in Int
         /\ GpuHoursUsed(trace, outcomes) <= GpuHoursAvailable(NodeOf, outcomes)
<1> DEFINE A == AdmittedOnes(outcomes)
           worked == [i \in Pods |-> Pod(i).gpu_number *
                                       (outcomes[i].completion_time - outcomes[i].start_time)]
           M == Makespan(outcomes)
           part == [n \in Nodes |-> OnRecord(n)]
           by == [n \in Nodes |-> Total(Spent(n), Pods)]
           most == [n \in Nodes |-> M * Devices[n]]
           class == [i \in Pods |-> outcomes[i].node_id]
<1>1. /\ IsFiniteSet(Pods) /\ IsFiniteSet(A) /\ A \in SUBSET Pods
      /\ \A i \in Pods : i \in A <=> Admitted(i)
  BY AdmittedFacts
<1>2. IsFiniteSet(Nodes) /\ \A n \in Nodes : Devices[n] = NodeOf[n].gpu_count /\ Devices[n] \in Nat
  BY NodesFinite, NodesAssumption DEF Devices, Asks, NodeResource
<1>3. M \in Nat
  BY MakespanFacts
<1>4. \A i \in A : worked[i] \in Int /\ i \in Pods
  <2>1. ASSUME NEW i \in A
        PROVE  /\ i \in Pods /\ Pod(i).gpu_number \in Int
               /\ outcomes[i].completion_time \in Int /\ outcomes[i].start_time \in Int
    <3>1. i \in Pods /\ Admitted(i)
      BY <1>1
    <3>2. Pod(i) \in PodResource
      BY <3>1, TraceFacts DEF TypeOK
    <3>3. outcomes[i].completion_time \in Nat /\ outcomes[i].start_time \in Nat
      BY <3>1, RecordFacts
    <3> QED
      BY <3>1, <3>2, <3>3 DEF PodResource
  <2> QED
    BY <2>1
<1>5. Total(Used, A) = MILLI * Total(worked, A)
  <2>1. ASSUME NEW i \in A PROVE Used[i] = MILLI * worked[i]
    <3>1. /\ i \in Pods /\ Pod(i) = trace[i].pod /\ Pod(i).gpu_number \in Nat /\ Pod(i).milli_gpu \in Nat
          /\ outcomes[i].completion_time \in Int /\ outcomes[i].start_time \in Int
      <4>1. i \in Pods /\ Admitted(i) /\ Pod(i) \in PodResource
        BY <1>1, TraceFacts DEF TypeOK
      <4> QED
        BY <4>1, RecordFacts DEF PodResource, Pod
    <3>2. Pod(i).gpu_number = 0 => Pod(i).milli_gpu = 0
      BY <3>1 DEF WholeDevices
    <3>3. GpuOf(trace[i].pod) = MILLI * Pod(i).gpu_number
      BY <3>1, <3>2 DEF GpuOf, MILLI
    <3>4. PICK t \in Int : t = outcomes[i].completion_time - outcomes[i].start_time
      BY <3>1
    <3>5. PICK g \in Int : g = Pod(i).gpu_number
      BY <3>1
    <3>6. Used[i] = (MILLI * g) * t /\ worked[i] = g * t
      BY <3>1, <3>3, <3>4, <3>5 DEF Used
    <3>7. (MILLI * g) * t = MILLI * (g * t)
      BY Z3 DEF MILLI
    <3> HIDE DEF worked
    <3> QED
      BY <3>6, <3>7
  <2>2. MILLI \in Int
    BY DEF MILLI
  <2> HIDE DEF worked, A
  <2> QED
    BY <1>1, <1>4, <2>1, <2>2, TotalTimes
<1>6. \A n \in Nodes : by[n] = Total(worked, part[n]) /\ by[n] \in Int /\ by[n] <= most[n]
  <2> SUFFICES ASSUME NEW n \in Nodes
               PROVE  by[n] = Total(worked, part[n]) /\ by[n] \in Int /\ by[n] <= most[n]
    OBVIOUS
  <2>1. /\ \A i \in OnRecord(n) : Spent(n)[i] \in Int /\ worked[i] = Spent(n)[i]
        /\ \A i \in Pods \ OnRecord(n) : Spent(n)[i] = 0
        /\ OnRecord(n) \in SUBSET Pods
    BY AllSpent, SpentFacts DEF Spent, OnRecord
  <2>2. Total(Spent(n), Pods) = Total(worked, OnRecord(n))
    <3> HIDE DEF worked
    <3> QED
      BY <1>1, <2>1, TotalOfPart
  <2>3. Total(Spent(n), Pods) \in Int
    BY SpentFacts
  <2>4. Total(Spent(n), Pods) <= M * NodeOf[n].gpu_count
    BY <1>3, AllSpent DEF NoneOverused, NotOverused
  <2> QED
    BY <1>2, <2>2, <2>3, <2>4
<1>7. Total(by, Nodes) = Total(worked, A)
  <2>1. SplitBy(class, A, Nodes, part)
    <3>1. \A i \in A : class[i] = outcomes[i].node_id /\ class[i] \in Nodes
      BY <1>1, RecordFacts
    <3>2. \A n \in Nodes : \A i \in A : i \in part[n] <=> outcomes[i].node_id = n
      BY <1>1 DEF OnRecord
    <3>3. \A n \in Nodes : part[n] \in SUBSET A
      BY <1>1 DEF OnRecord
    <3> QED
      BY <3>1, <3>2, <3>3 DEF SplitBy
  <2> HIDE DEF worked, by, part, class, A
  <2> QED
    BY <1>1, <1>2, <1>4, <1>6, <2>1, TotalByClass
<1>8. \A n \in Nodes : most[n] = M * Devices[n] /\ most[n] \in Int
  BY <1>2, <1>3
<1>9. GpuHoursUsed(trace, outcomes) = Total(Used, A)
  BY HoursAreTotals
<1>10. GpuHoursAvailable(NodeOf, outcomes) = M * MILLI * Total(Devices, Nodes)
  BY HoursAreTotals
<1> HIDE DEF worked, by, most, A, M
<1>11. Total(by, Nodes) <= Total(most, Nodes)
  BY <1>2, <1>6, <1>8, TotalAtMost
<1>12. Total(most, Nodes) = M * Total(Devices, Nodes) /\ Total(Devices, Nodes) \in Nat
  <2>1. Total(most, Nodes) = M * Total(Devices, Nodes)
    BY <1>2, <1>3, <1>8, TotalTimes
  <2> QED
    BY <1>2, <2>1, TotalType
<1>13. Total(worked, A) \in Int
  BY <1>1, <1>4, TotalType
<1>14. \A w \in Int, m, t \in Nat : w <= m * t => MILLI * w <= m * MILLI * t
  BY Z3 DEF MILLI
<1>15. MILLI * Total(worked, A) <= M * MILLI * Total(Devices, Nodes)
  BY <1>3, <1>7, <1>11, <1>12, <1>13, <1>14
<1> QED
  BY <1>3, <1>5, <1>9, <1>10, <1>12, <1>13, <1>15 DEF MILLI

\* If every pod that uses a GPU asks for whole devices, GPU-hours used and
\* wasted add up to those there are, and the utilization is at most 1: max(..,
\* 0) never cuts anything off (broader_metrics.py:125-131).
THEOREM NothingCutOff == RunSpec => []WastedIsTheRest
<1>1. ASSUME TypeOK, History, RejectedForCause, NoneOverused PROVE WastedIsTheRest
  <2> SUFFICES ASSUME Finished, WholeDevices
               PROVE  /\ TimeDrivenRow.gpu_hours_used + TimeDrivenRow.gpu_hours_wasted =
                           GpuHoursAvailable(NodeOf, outcomes)
                      /\ TimeDrivenRow.avg_gpu_utilization[1] <= TimeDrivenRow.avg_gpu_utilization[2]
    BY DEF WastedIsTheRest
  <2> DEFINE used == GpuHoursUsed(trace, outcomes)
             there == GpuHoursAvailable(NodeOf, outcomes)
  <2>1. used \in Int /\ there \in Int /\ used <= there
    BY <1>1, UsedIsAvailable
  <2>2. /\ TimeDrivenRow.gpu_hours_used = used
        /\ TimeDrivenRow.gpu_hours_wasted = GpuHoursWasted(trace, NodeOf, outcomes)
        /\ TimeDrivenRow.avg_gpu_utilization = GpuUtilizationOverTime(trace, NodeOf, outcomes)
    BY DEF TimeDrivenRow
  <2>3. GpuHoursWasted(trace, NodeOf, outcomes) = Max({0, there - used})
    BY DEF GpuHoursWasted
  <2>4. GpuUtilizationOverTime(trace, NodeOf, outcomes) = IF there = 0 THEN <<0, 1>> ELSE <<used, there>>
    BY DEF GpuUtilizationOverTime
  <2> HIDE DEF used, there
  <2>5. Max({0, there - used}) = there - used
    <3> DEFINE S == {0, there - used}
    <3>1. IsFiniteSet(S)
      <4>1. IsFiniteSet({0})
        BY FS_Singleton
      <4>2. IsFiniteSet({0} \cup {there - used})
        BY <4>1, FS_AddElement
      <4>3. S = {0} \cup {there - used}
        OBVIOUS
      <4> QED
        BY <4>2, <4>3
    <3>2. S # {} /\ \A x \in S : x \in Int
      BY <2>1
    <3>3. Max(S) \in S /\ \A x \in S : x <= Max(S)
      <4> HIDE DEF S
      <4> QED
        BY <3>1, <3>2, MaxIsGreatest
    <3> QED
      BY <2>1, <3>3
  <2> QED
    BY <2>1, <2>2, <2>3, <2>4, <2>5 DEF there
<1>2. Spec => [](TypeOK /\ History /\ RejectedForCause /\ NoneOverused)
  BY TypeCorrect, HistoryHolds, RejectedWithCause, NeverOverused, PTL
<1> QED
  BY <1>1, <1>2, RunIsLoop, PTL

-----------------------------------------------------------------------------
(* Percentiles and the service level.                                      *)

\* The waits of the pods admitted, sorted (event_runtime.py:95-106).
LEMMA WaitsAreSorted ==
  ASSUME TypeOK
  PROVE  \E n \in Nat : /\ SortedWaits(outcomes) \in [1 .. n -> Nat]
                        /\ \A k, l \in 1 .. n : k < l =>
                             SortedWaits(outcomes)[k] <= SortedWaits(outcomes)[l]
<1> DEFINE A == AdmittedOnes(outcomes)
           n == Cardinality(A)
           ids == Ascending(A)
           waits == [k \in DOMAIN ids |-> outcomes[ids[k]].wait_time]
<1>1. A \in SUBSET Int /\ IsFiniteSet(A) /\ \A i \in A : outcomes[i].wait_time \in Nat
  <2>1. Pods = 1 .. Len(trace) /\ Len(trace) \in Nat
    BY TraceFacts DEF TypeOK
  <2>2. A \in SUBSET Pods /\ IsFiniteSet(A)
    BY AdmittedFacts
  <2>3. \A i \in A : outcomes[i].admitted /\ outcomes[i] \in Outcome
    BY <2>2 DEF TypeOK, AdmittedOnes
  <2>4. ASSUME NEW o \in Outcome, o.admitted PROVE o.wait_time \in Nat
    <3>1. o # Unplaced
      <4>1. ~Unplaced.admitted
        BY DEF Unplaced
      <4> QED
        BY <2>4, <4>1
    <3> QED
      BY <3>1 DEF Outcome
  <2> HIDE DEF A
  <2> QED
    BY <2>1, <2>2, <2>3, <2>4
<1> HIDE DEF A
<1>2. n \in Nat /\ ids \in [1 .. n -> A]
  BY <1>1, AscendingIs
<1> HIDE DEF n, ids
<1>3. DOMAIN waits = 1 .. n /\ \A k \in 1 .. n : waits[k] \in Nat
  BY <1>1, <1>2
<1>4. SortedWaits(outcomes) = SortedBy(waits, waits)
  BY DEF SortedWaits, A, ids
<1> HIDE DEF waits
<1>5. PICK place : /\ Sorts(place, n, waits)
                   /\ SortedBy(waits, waits) = [k \in 1 .. n |-> waits[place[k]]]
  <2>1. SortsTo(SortedBy(waits, waits), waits, n, waits)
    BY <1>2, <1>3, SortedByIs
  <2> QED
    BY <2>1 DEF SortsTo
<1>6. /\ SortedWaits(outcomes) = [k \in 1 .. n |-> waits[place[k]]]
      /\ \A k \in 1 .. n : place[k] \in 1 .. n
      /\ \A k, l \in 1 .. n : k < l =>
           waits[place[k]] < waits[place[l]] \/ waits[place[k]] = waits[place[l]]
  BY <1>4, <1>5 DEF Sorts
<1>7. \A k, l \in 1 .. n : k < l => SortedWaits(outcomes)[k] <= SortedWaits(outcomes)[l]
  BY <1>3, <1>6
<1>8. SortedWaits(outcomes) \in [1 .. n -> Nat]
  BY <1>3, <1>6
<1> QED
  BY <1>2, <1>7, <1>8

\* Of the elements of a sorted sequence the last ones exceed a threshold: as
\* many as there are.
LEMMA LastExceed ==
  ASSUME NEW n \in Nat, NEW waits \in [1 .. n -> Nat],
         \A k, l \in 1 .. n : k < l => waits[k] <= waits[l],
         NEW t \in Nat
  PROVE  LET v == Cardinality({k \in 1 .. n : waits[k] > t})
         IN  v \in 0 .. n /\ \A k \in 1 .. n : waits[k] > t <=> k > n - v
<1> DEFINE V == {k \in 1 .. n : waits[k] > t}
           v == Cardinality(V)
<1>1. IsFiniteSet(1 .. n) /\ Cardinality(1 .. n) = n
  BY UpTo, Zenon
<1>2. V \in SUBSET (1 .. n)
  OBVIOUS
<1>3. IsFiniteSet(V) /\ v \in Nat /\ v <= n
  <2> DEFINE All == 1 .. n
  <2>1. IsFiniteSet(All) /\ Cardinality(All) = n /\ V \in SUBSET All
    BY <1>1, <1>2
  <2> HIDE DEF V, All
  <2> QED
    BY <2>1, FS_Subset, FS_CardinalityType
<1>4. ASSUME NEW k \in 1 .. n PROVE IsFiniteSet(k .. n) /\ Cardinality(k .. n) = n - k + 1
  <2> DEFINE K == k .. n
  <2>1. /\ IsFiniteSet(K)
        /\ Cardinality(K) = IF k > n THEN 0 ELSE n - k + 1
    <3>1. k \in Int /\ n \in Int
      OBVIOUS
    <3> QED
      BY <3>1, FS_Interval, Zenon
  <2> HIDE DEF K
  <2>2. IsFiniteSet(K) /\ Cardinality(K) = n - k + 1
    BY <2>1
  <2> QED
    BY <2>2 DEF K
<1>5. ASSUME NEW k \in 1 .. n, waits[k] > t PROVE k > n - v
  <2>1. \A l \in k .. n : l \in 1 .. n /\ waits[l] > t
    BY <1>5
  <2>2. (k .. n) \in SUBSET V
    BY <2>1
  <2> HIDE DEF V
  <2>3. Cardinality(k .. n) <= v
    BY <1>3, <2>2, FS_Subset
  <2> QED
    BY <1>3, <1>4, <2>3
<1>6. ASSUME NEW k \in 1 .. n, ~(waits[k] > t) PROVE ~(k > n - v)
  <2>1. \A l \in 1 .. n : waits[l] > t => l > k
    BY <1>6
  <2>2. V \in SUBSET ((k .. n) \ {k})
    BY <2>1
  <2>3. IsFiniteSet((k .. n) \ {k}) /\ Cardinality((k .. n) \ {k}) = n - k
    <3> DEFINE K == k .. n
    <3>1. k \in K /\ IsFiniteSet(K) /\ Cardinality(K) = n - k + 1
      BY <1>4
    <3> HIDE DEF K
    <3>2. IsFiniteSet(K \ {k}) /\ Cardinality(K \ {k}) = Cardinality(K) - 1
      BY <3>1, FS_RemoveElement
    <3> QED
      BY <3>1, <3>2 DEF K
  <2> DEFINE After == (k .. n) \ {k}
  <2>4. IsFiniteSet(After) /\ Cardinality(After) = n - k /\ V \in SUBSET After
    BY <2>2, <2>3
  <2> HIDE DEF V, After
  <2>5. v <= n - k
    BY <2>4, FS_Subset
  <2> QED
    BY <1>3, <2>5
<1> QED
  BY <1>3, <1>5, <1>6

\* A percentile and the SLA violation rate tell one story: the value reported
\* for q is over the threshold exactly if at least 1 - q of the pods admitted
\* violate it (broader_metrics.py:68-72, 101, 137-140, event_runtime.py:103-109).
THEOREM PercentilesAgree == RunSpec => []SlaMatchesPercentiles
<1>1. ASSUME TypeOK PROVE SlaMatchesPercentiles
  <2> DEFINE waits == SortedWaits(outcomes)
             Q == {<<1, 2>>, <<95, 100>>, <<99, 100>>}
             v == SlaViolations(waits, Threshold)
  <2>1. PICK n \in Nat : /\ waits \in [1 .. n -> Nat]
                         /\ \A k, l \in 1 .. n : k < l => waits[k] <= waits[l]
    BY <1>1, WaitsAreSorted
  <2>2. DOMAIN TimeDrivenRow.p_wait_time = Q /\ TimeDrivenRow.sla_violation_rate = <<v, Len(waits)>>
    BY DEF TimeDrivenRow
  <2>3. \A q \in Q : TimeDrivenRow.p_wait_time[q] = Percentile(waits, q)
    BY DEF TimeDrivenRow, WaitPercentile
  <2> HIDE DEF waits
  <2>4. DOMAIN waits = 1 .. n /\ waits \in Seq(Nat)
    BY <2>1
  <2>5. Len(waits) = n
    BY <2>1, <2>4
  <2>6. v \in 0 .. n /\ \A k \in 1 .. n : waits[k] > Threshold <=> k > n - v
    <3>1. v = Cardinality({k \in 1 .. n : waits[k] > Threshold})
      BY <2>4 DEF SlaViolations
    <3> HIDE DEF v
    <3> QED
      BY <2>1, <3>1, LastExceed, ReportAssumption
  <2> HIDE DEF v
  <2>7. ASSUME NEW q \in Q, n > 0
        PROVE  Percentile(waits, q) > Threshold <=> v * q[2] >= n * (q[2] - q[1])
    <3> DEFINE f == (n * q[1]) \div q[2]
    <3>1. \/ q[1] = 1 /\ q[2] = 2
          \/ q[1] = 95 /\ q[2] = 100
          \/ q[1] = 99 /\ q[2] = 100
      OBVIOUS
    <3>2. f \in 0 .. n - 1 /\ (f >= n - v <=> v * q[2] >= n * (q[2] - q[1]))
      BY <2>6, <2>7, <3>1
    <3> HIDE DEF f
    <3>3. Min({f, n - 1}) = f
      BY <2>7, <3>2 DEF Min
    <3>4. waits # <<>>
      BY <2>5, <2>7
    <3>5. Percentile(waits, q) = waits[f + 1]
      BY <2>5, <3>3, <3>4 DEF Percentile, f
    <3> QED
      BY <2>6, <2>7, <3>2, <3>5
  <2> QED
    BY <2>2, <2>3, <2>5, <2>6, <2>7 DEF SlaMatchesPercentiles
<1> QED
  BY <1>1, RunIsLoop, TypeCorrect, PTL
=============================================================================
