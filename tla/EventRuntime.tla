---------------------------- MODULE EventRuntime ----------------------------
(***************************************************************************)
(* The discrete-event scheduling loop, k8s_sim/event_runtime.py:           *)
(* EventDrivenRunner.run.  A heap merges the arrivals of a trace with the  *)
(* releases of the pods that were placed.  A pod that fits no node when it *)
(* arrives waits in a pending list; every release frees one pod and then   *)
(* makes a single pass over that list.                                     *)
(*                                                                         *)
(* The loop is sequential.  `pc' is where it is: "loop" between two events *)
(* and "drain" inside the pass a release makes, which takes one step per   *)
(* pending pod.  No event is popped before the pass is over.               *)
(*                                                                         *)
(* Which node a pod gets is the policy's choice.  All this module knows is *)
(* the contract every policy has (policies.py:6-8): a node with room       *)
(* whenever there is one, and None otherwise.                              *)
(*                                                                         *)
(* A definition whose name has the form Name_Bug is Name with a plausible  *)
(* mistake.  No behaviour uses it: it serves to show that the properties   *)
(* at the end of the module notice the mistake.                            *)
(***************************************************************************)
EXTENDS Resources, Sequences

CONSTANTS
  Nodes,            \* ids of the cluster's nodes
  NodeOf,           \* NodeOf[n] is the NodeResource of node n
  Traces,           \* the event lists a run may be given
  MaxQueueTimes,    \* the values RunConfig.max_queue_time may have
  None              \* Python's None

\* TimedPodEvent (gputrace_bridge.py:38-42).  Its index in the trace stands
\* for pod_id, so pod ids are unique, as in every trace the bridge exports.
TimedPodEvent == [pod : PodResource, submit_time : Nat, duration : Nat]

Sorted(events) ==
  \A i, j \in DOMAIN events :
    i < j => events[i].submit_time <= events[j].submit_time

ASSUME NodesAssumption == NodeOf \in [Nodes -> NodeResource]

\* run() requires events sorted by submit_time (event_runtime.py:131).
ASSUME TracesAssumption ==
  \A events \in Traces : events \in Seq(TimedPodEvent) /\ Sorted(events)

ASSUME MaxQueueTimesAssumption == MaxQueueTimes \subseteq Nat \cup {None}

ASSUME NoneAssumption == None \notin Nat /\ None \notin Nodes

VARIABLES
  trace,            \* the argument `events'; never changes
  max_queue_time,   \* RunConfig.max_queue_time; never changes
  remaining,        \* per node: remaining_milli_cpu, ..gpu, ..gpu_count
  allocated,        \* per node: the pods it holds
  heap,             \* the entries still to be popped
  seq,              \* the loop's tie-breaking counter
  now,              \* time of the event popped last
  pending,          \* indices of the waiting pods, in queue order
  outcomes,         \* one PodOutcome per pod
  pc,               \* "loop" or "drain"
  scan,             \* in a drain: position in pending of the next pod
  kept              \* in a drain: the list that will replace pending

config == <<trace, max_queue_time>>
cluster == <<remaining, allocated>>
vars == <<config, cluster, heap, seq, now, pending, outcomes, pc, scan, kept>>

Pods == DOMAIN trace
Pod(i) == trace[i].pod
SubmitTime(i) == trace[i].submit_time

-----------------------------------------------------------------------------
(* Heap entries.  heapq compares (time, seq, kind, payload).  No arrival   *)
(* shares its seq with another entry; two releases do when one drain       *)
(* placed both, and then their payload (node_id, pod_id) decides.  Names   *)
(* are abstract here, so such releases come in either order.               *)

Arrival(i) ==
  [time |-> SubmitTime(i), seq |-> i - 1, kind |-> "arrival", ev |-> i, node |-> None]

Release(i, n, t, s) ==
  [time |-> t, seq |-> s, kind |-> "release", ev |-> i, node |-> n]

ComesBefore_TimeOnly(e, f) == e.time <= f.time
ComesBefore_SeqOnly(e, f) == e.seq <= f.seq

ComesBefore(e, f) == e.time < f.time \/ (e.time = f.time /\ e.seq <= f.seq)

IsNext(e) == e \in heap /\ \A f \in heap : ComesBefore(e, f)

-----------------------------------------------------------------------------
Unplaced ==
  [admitted |-> FALSE, node_id |-> None, start_time |-> None,
   wait_time |-> None, completion_time |-> None]

Init ==
  /\ trace \in Traces
  /\ max_queue_time \in MaxQueueTimes
  /\ remaining = [n \in Nodes |-> Empty(NodeOf[n])]
  /\ allocated = [n \in Nodes |-> {}]
  /\ heap = {Arrival(i) : i \in Pods}
  /\ seq = Len(trace)
  /\ now = 0
  /\ pending = <<>>
  /\ outcomes = [i \in Pods |-> Unplaced]
  /\ pc = "loop"
  /\ scan = 1
  /\ kept = <<>>

-----------------------------------------------------------------------------
(* try_place and Cluster.schedule_pod.                                     *)

Feasible(i) == {n \in Nodes : FitsIn(Pod(i), NodeOf[n], remaining[n])}

PlacedAt_SwappedWait(i, n, t) ==
  [admitted |-> TRUE, node_id |-> n, start_time |-> t,
   wait_time |-> SubmitTime(i) - t,
   completion_time |-> t + trace[i].duration]

\* The wait counts twice.
PlacedAt_LateCompletion(i, n, t) ==
  [admitted |-> TRUE, node_id |-> n, start_time |-> t,
   wait_time |-> t - SubmitTime(i),
   completion_time |-> t + (t - SubmitTime(i)) + trace[i].duration]

PlacedAt(i, n, t) ==
  [admitted |-> TRUE, node_id |-> n, start_time |-> t,
   wait_time |-> t - SubmitTime(i),
   completion_time |-> t + trace[i].duration]

\* The pod is placed on n at time t: Cluster.schedule_pod's add(), and the
\* PodOutcome.  The release is pushed by the caller, on the heap it leaves.
Place(i, n, t) ==
  /\ n \in Feasible(i)
  /\ remaining' = [remaining EXCEPT ![n] = Take(@, Pod(i))]
  /\ allocated' = [allocated EXCEPT ![n] = @ \cup {i}]
  /\ outcomes' = [outcomes EXCEPT ![i] = PlacedAt(i, n, t)]

CompletionAt_FromSubmit(i, n, t, s) == Release(i, n, SubmitTime(i) + trace[i].duration, s)

CompletionAt(i, n, t, s) == Release(i, n, t + trace[i].duration, s)

-----------------------------------------------------------------------------
(* The loop: one event popped, one more count of seq.                      *)

ArrivePlaced(e, n) ==
  /\ pc = "loop"
  /\ IsNext(e) /\ e.kind = "arrival"
  /\ now' = e.time
  /\ seq' = seq + 1
  /\ Place(e.ev, n, e.time)
  /\ heap' = (heap \ {e}) \cup {CompletionAt(e.ev, n, e.time, seq + 1)}
  /\ UNCHANGED <<config, pending, pc, scan, kept>>

ArriveQueued_Lifo(e) ==
  /\ pc = "loop"
  /\ IsNext(e) /\ e.kind = "arrival"
  /\ now' = e.time
  /\ seq' = seq + 1
  /\ Feasible(e.ev) = {}
  /\ pending' = <<e.ev>> \o pending
  /\ heap' = heap \ {e}
  /\ UNCHANGED <<config, cluster, outcomes, pc, scan, kept>>

ArriveQueued(e) ==
  /\ pc = "loop"
  /\ IsNext(e) /\ e.kind = "arrival"
  /\ now' = e.time
  /\ seq' = seq + 1
  /\ Feasible(e.ev) = {}
  /\ pending' = Append(pending, e.ev)
  /\ heap' = heap \ {e}
  /\ UNCHANGED <<config, cluster, outcomes, pc, scan, kept>>

\* NodeResource.remove, then the pass over pending begins.
ReleasePod(e) ==
  /\ pc = "loop"
  /\ IsNext(e) /\ e.kind = "release"
  /\ now' = e.time
  /\ seq' = seq + 1
  /\ IF e.ev \in allocated[e.node]
     THEN /\ allocated' = [allocated EXCEPT ![e.node] = @ \ {e.ev}]
          /\ remaining' = [remaining EXCEPT ![e.node] = GiveBack(@, Pod(e.ev))]
     ELSE UNCHANGED cluster
  /\ heap' = heap \ {e}
  /\ pc' = "drain" /\ scan' = 1 /\ kept' = <<>>
  /\ UNCHANGED <<config, pending, outcomes>>

-----------------------------------------------------------------------------
(* The pass: every pending pod is dropped, placed or kept, in queue order. *)

\* `if max_queue_time and ..' would take 0 for None.
Expired_ZeroIsNone(i, t) ==
  max_queue_time \notin {None, 0} /\ t - SubmitTime(i) > max_queue_time

Expired(i, t) == max_queue_time # None /\ t - SubmitTime(i) > max_queue_time

Scanning == pc = "drain" /\ scan <= Len(pending)

DrainExpired ==
  /\ Scanning
  /\ Expired(pending[scan], now)
  /\ scan' = scan + 1
  /\ UNCHANGED <<config, cluster, heap, seq, now, pending, outcomes, pc, kept>>

DrainPlaced(n) ==
  /\ Scanning
  /\ ~Expired(pending[scan], now)
  /\ Place(pending[scan], n, now)
  /\ heap' = heap \cup {CompletionAt(pending[scan], n, now, seq)}
  /\ scan' = scan + 1
  /\ UNCHANGED <<config, seq, now, pending, pc, kept>>

\* The pass stops at the first pod that does not fit.
DrainKept_StopsThere ==
  /\ Scanning
  /\ ~Expired(pending[scan], now)
  /\ Feasible(pending[scan]) = {}
  /\ kept' = kept \o SubSeq(pending, scan, Len(pending))
  /\ scan' = Len(pending) + 1
  /\ UNCHANGED <<config, cluster, heap, seq, now, pending, outcomes, pc>>

DrainKept ==
  /\ Scanning
  /\ ~Expired(pending[scan], now)
  /\ Feasible(pending[scan]) = {}
  /\ kept' = Append(kept, pending[scan])
  /\ scan' = scan + 1
  /\ UNCHANGED <<config, cluster, heap, seq, now, pending, outcomes, pc>>

\* The pass is repeated until nobody waits.
DrainEnd_UntilEmpty ==
  /\ pc = "drain" /\ scan > Len(pending)
  /\ pending' = kept
  /\ pc' = IF kept = <<>> THEN "loop" ELSE "drain"
  /\ scan' = 1 /\ kept' = <<>>
  /\ UNCHANGED <<config, cluster, heap, seq, now, outcomes>>

DrainEnd ==
  /\ pc = "drain" /\ scan > Len(pending)
  /\ pending' = kept
  /\ pc' = "loop" /\ scan' = 1 /\ kept' = <<>>
  /\ UNCHANGED <<config, cluster, heap, seq, now, outcomes>>

-----------------------------------------------------------------------------
Next ==
  \/ \E e \in heap : \E n \in Nodes : ArrivePlaced(e, n)
  \/ \E e \in heap : ArriveQueued(e)
  \/ \E e \in heap : ReleasePod(e)
  \/ DrainExpired
  \/ \E n \in Nodes : DrainPlaced(n)
  \/ DrainKept
  \/ DrainEnd

Spec == Init /\ [][Next]_vars

\* The loop is a plain `while': it runs on as long as it can.
FairSpec == Spec /\ WF_vars(Next)

\* `while heap' ends; run() returns the outcomes.
Finished == pc = "loop" /\ heap = {}
-----------------------------------------------------------------------------
(* Vocabulary of the properties.                                           *)

Admitted(i) == outcomes[i].admitted

\* In the pending list, as the loop will see it when the drain is over.
Waiting(i) ==
  \/ pc = "loop" /\ \E k \in DOMAIN pending : pending[k] = i
  \/ pc = "drain" /\ \/ \E k \in DOMAIN kept : kept[k] = i
                     \/ \E k \in scan .. Len(pending) : pending[k] = i

Arrived(i) == Arrival(i) \notin heap

\* Timed out: no longer queued and never placed.
Dropped(i) == Arrived(i) /\ ~Admitted(i) /\ ~Waiting(i)

Running(i) == \E n \in Nodes : i \in allocated[n]

Outcome ==
  {Unplaced} \cup
  [admitted : {TRUE}, node_id : Nodes, start_time : Nat, wait_time : Nat,
   completion_time : Nat]

HeapEntry ==
  {Arrival(i) : i \in Pods} \cup
  [time : Nat, seq : Nat, kind : {"release"}, ev : Pods, node : Nodes]

TypeOK ==
  /\ trace \in Traces
  /\ max_queue_time \in MaxQueueTimes
  /\ remaining \in [Nodes -> Remaining]
  /\ allocated \in [Nodes -> SUBSET Pods]
  /\ heap \subseteq HeapEntry
  /\ seq \in Nat /\ now \in Nat
  /\ pending \in Seq(Pods) /\ kept \in Seq(Pods)
  /\ outcomes \in [Pods -> Outcome]
  /\ pc \in {"loop", "drain"}
  /\ scan \in 1 .. Len(pending) + 1

-----------------------------------------------------------------------------
(* Safety.                                                                 *)

\* Between two events no waiting pod fits any node.  This is what makes one
\* pass per release enough (event_runtime.py:191-195), although the pass goes
\* on past pods that do not fit and arrivals never look at the queue.
WorkConserving ==
  pc = "loop" => \A k \in DOMAIN pending : Feasible(pending[k]) = {}

\* The counters of a node always are its capacity less what the pods it holds
\* asked for, whatever the order of placements and releases, and none of them
\* is ever negative (resource.py:71-92).
CapacityConserved ==
  \A n \in Nodes :
    /\ remaining[n] = TakeAll(Empty(NodeOf[n]), [i \in Pods |-> Pod(i)], allocated[n])
    /\ NotOvercommitted(remaining[n])

\* A node holds a pod exactly as long as the heap holds that pod's RELEASE,
\* on that node, at the completion time its outcome reports; so no pod is
\* leaked, released twice, released elsewhere or kept past its completion.
ReleasesMatchHoldings ==
  /\ \A n \in Nodes : \A i \in allocated[n] :
       \E e \in heap : e.kind = "release" /\ e.ev = i /\ e.node = n
  /\ \A e \in heap : e.kind = "release" =>
       /\ e.ev \in allocated[e.node]
       /\ outcomes[e.ev].node_id = e.node
       /\ outcomes[e.ev].completion_time = e.time
       /\ e.time >= now
       /\ \A f \in heap : f.kind = "release" /\ f.ev = e.ev => f = e

\* Releases never overtake arrivals of the same instant: when a release is
\* handled, every pod submitted up to that moment has been seen (heap order
\* (time, seq, ..) with all arrivals numbered before any release, 149/173).
ArrivalsFirst ==
  pc = "drain" => \A i \in Pods : SubmitTime(i) <= now => Arrived(i)

\* An admitted pod started no earlier than it was submitted, waited what its
\* outcome says, and never longer than max_queue_time, although only releases
\* check the time-out (event_runtime.py:169-172, 208).
WaitBounded ==
  \A i \in Pods : Admitted(i) =>
    /\ SubmitTime(i) <= outcomes[i].start_time /\ outcomes[i].start_time <= now
    /\ outcomes[i].start_time = SubmitTime(i) + outcomes[i].wait_time
    /\ max_queue_time # None => outcomes[i].wait_time <= max_queue_time

\* The queue is not FIFO, smaller pods pass larger ones; but a pod is never
\* passed by one that asks for no less of anything than it does: when the
\* later pod j was placed, the earlier pod i was already placed or timed out.
NotPassedByLarger ==
  \A i, j \in Pods :
    i < j /\ Admitted(j) /\ AsksNoLess(Pod(j), Pod(i)) =>
      \/ Admitted(i) /\ outcomes[i].start_time <= outcomes[j].start_time
      \/ ~Admitted(i) /\ Expired(i, outcomes[j].start_time)

\* A pod that starts after its submission starts at the very moment another
\* pod completes: the loop has no other occasion to look at the queue.
StartsOnOccasion ==
  \A i \in Pods : Admitted(i) =>
    \/ outcomes[i].start_time = SubmitTime(i)
    \/ \E j \in Pods \ {i} :
         Admitted(j) /\ outcomes[j].completion_time = outcomes[i].start_time

\* What run() returns: the heap is empty only when every node is empty again,
\* and a pod was rejected only because it timed out or because no node of the
\* cluster, even empty, can hold it.  Which pods are rejected without a
\* time-out therefore does not depend on the policy (36-40, 214).
RejectedForCause ==
  Finished =>
    /\ \A n \in Nodes : remaining[n] = Empty(NodeOf[n]) /\ allocated[n] = {}
    /\ \A i \in Pods : ~Admitted(i) =>
         \/ Dropped(i) /\ Expired(i, now)
         \/ \A n \in Nodes : ~FitsIn(Pod(i), NodeOf[n], Empty(NodeOf[n]))

-----------------------------------------------------------------------------
(* What a step may never do.                                               *)

\* Simulated time never runs backwards, and what run() has recorded of a pod
\* is final: a placed pod is never moved, and one that timed out never placed.
OutcomesFinal ==
  [][/\ now' >= now
     /\ \A i \in Pods : Admitted(i) => outcomes'[i] = outcomes[i]
     /\ \A i \in Pods : Dropped(i) => ~outcomes'[i].admitted]_vars

\* Documented (event_runtime.py:26-29), and not what the pass does: the queue
\* is drained first come, first served, until `the front pod still doesn't
\* fit anywhere', so a pod is placed only when none is kept ahead of it.
DrainIsFcfs ==
  [][pc = "drain" /\ outcomes' # outcomes => kept = <<>>]_vars

-----------------------------------------------------------------------------
(* Liveness.                                                               *)

\* `while heap' terminates, although handling an event pushes new ones.
Termination == <>Finished

\* How many steps a run has left.  A pass is a release, a look at each pod
\* that may wait and an end; every pod in hand has one such pass to come, and
\* every pod not yet seen an arrival before that.
PassLength == Len(trace) + 2

Unseen == {i \in Pods : ~Arrived(i)}
InHand == {i \in Pods : Waiting(i) \/ Running(i)}

PassLeft == IF pc = "drain" THEN Len(pending) - scan + 2 ELSE 0

StepsLeft ==
  (PassLength + 1) * Cardinality(Unseen) + PassLength * Cardinality(InHand) + PassLeft

\* No step leaves as many as it found: the loop ends on a trace of n pods
\* after at most n * (n + 3) steps, although each release makes a pass over
\* all who wait and that pass pushes new releases (event_runtime.py:176-212).
StepsRunOut ==
  [][0 <= StepsLeft' /\ StepsLeft' < StepsLeft]_vars

-----------------------------------------------------------------------------
(***************************************************************************)
(* The inductive invariant behind the safety properties; the module        *)
(* EventRuntimeProofs proves them from it.                                 *)
(***************************************************************************)

\* Nothing in the heap lies in the past, nothing in the queue in the future.
Timely ==
  /\ \A e \in heap : e.time >= now
  /\ \A k \in DOMAIN pending : SubmitTime(pending[k]) <= now
  /\ \A k \in DOMAIN kept : SubmitTime(kept[k]) <= now

\* The counter starts behind the arrivals' numbers and never falls back, so a
\* release is numbered behind every arrival.
ReleasesNumberedLast ==
  /\ seq >= Len(trace)
  /\ \A e \in heap : e.kind = "release" => e.seq >= Len(trace)

\* What has been looked at and not placed fits nowhere: in the loop all that
\* wait, in a drain those kept so far.
QueueUnfit ==
  /\ WorkConserving
  /\ \A k \in DOMAIN kept : Feasible(kept[k]) = {}

Increasing(s) == \A k, l \in DOMAIN s : k < l => s[k] < s[l]

\* The queue is in order of arrival, and a drain keeps it so.
QueueInOrder ==
  /\ Increasing(pending) /\ Increasing(kept)
  /\ pc = "loop" => kept = <<>> /\ scan = 1
  /\ \A k \in DOMAIN kept : \A l \in scan .. Len(pending) : kept[k] < pending[l]

\* Pods arrive in the order of the trace, those submitted before `now' have
\* arrived, and only pods that arrived wait or were placed.
ArrivalsInOrder ==
  /\ \A i, j \in Pods : i < j /\ Arrived(j) => Arrived(i)
  /\ \A i \in Pods : SubmitTime(i) < now => Arrived(i)
  /\ \A i \in Pods : Waiting(i) \/ Admitted(i) => Arrived(i)

\* A pod that arrived was placed, or waits, or timed out; no two of these.
Accounted ==
  \A i \in Pods :
    /\ Waiting(i) => ~Admitted(i)
    /\ Arrived(i) => Admitted(i) \/ Waiting(i) \/ Expired(i, now)

\* NotPassedByLarger, and a pod that was passed for having timed out is gone.
PassedIsGone ==
  \A i, j \in Pods :
    i < j /\ Admitted(j) /\ AsksNoLess(Pod(j), Pod(i)) =>
      \/ Admitted(i) /\ outcomes[i].start_time <= outcomes[j].start_time
      \/ ~Admitted(i) /\ ~Waiting(i) /\ Expired(i, outcomes[j].start_time)

\* A drain takes place at the completion of a pod that ran.
DrainOccasion ==
  pc = "drain" => \E j \in Pods :
                    Admitted(j) /\ outcomes[j].completion_time = now

IndInv ==
  /\ TypeOK /\ Timely /\ ReleasesNumberedLast /\ QueueUnfit /\ QueueInOrder
  /\ ArrivalsInOrder /\ ArrivalsFirst /\ WaitBounded /\ Accounted /\ PassedIsGone
  /\ ReleasesMatchHoldings /\ DrainOccasion /\ StartsOnOccasion
=============================================================================
