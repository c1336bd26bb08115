--------------------------- MODULE AdmissionQueue ---------------------------
(***************************************************************************)
(* What the event-driven runner promises, without its event loop: no time, *)
(* no heap, no counters, no pass over a list.  Every pod of a trace is     *)
(* submitted in turn and is then waiting, running on a node, finished or   *)
(* rejected.  A pod starts only on a node whose running pods leave room    *)
(* for it, and only if it passes no waiting pod that could have used that  *)
(* room as well as it can.  EventRuntimeRefinement shows that the loop of  *)
(* k8s_sim/event_runtime.py implements this.                               *)
(***************************************************************************)
EXTENDS Resources, Sequences

CONSTANTS Nodes, NodeOf, Traces, MaxQueueTimes, None

VARIABLES
  trace,            \* the events submitted; never changes
  max_queue_time,   \* None: pods may wait for ever; never changes
  phase,            \* what has become of each pod
  home              \* the node of each running pod

vars == <<trace, max_queue_time, phase, home>>

Pods == DOMAIN trace
Pod(i) == trace[i].pod
Phases == {"unseen", "waiting", "running", "finished", "rejected"}

RunningOn(n) == {i \in Pods : phase[i] = "running" /\ home[i] = n}

\* Room is what the running pods leave, counted afresh.
Room(i, n) ==
  FitsIn(Pod(i), NodeOf[n],
         TakeAll(Empty(NodeOf[n]), [j \in Pods |-> Pod(j)], RunningOn(n)))

\* The pods submitted before i that still wait and ask for no more than i.
Passed(i) == {j \in Pods : j < i /\ phase[j] = "waiting" /\ AsksNoLess(Pod(i), Pod(j))}

Init ==
  /\ trace \in Traces
  /\ max_queue_time \in MaxQueueTimes
  /\ phase = [i \in Pods |-> "unseen"]
  /\ home = [i \in Pods |-> None]

\* Submitted in order; a pod may start at once, see Start.
InTurn(i) == \A j \in Pods : j < i => phase[j] # "unseen"

Enqueue(i) ==
  /\ phase[i] = "unseen" /\ InTurn(i)
  /\ \A n \in Nodes : ~Room(i, n)
  /\ phase' = [phase EXCEPT ![i] = "waiting"]
  /\ UNCHANGED <<trace, max_queue_time, home>>

Start(i, n) ==
  /\ phase[i] = "waiting" \/ (phase[i] = "unseen" /\ InTurn(i))
  /\ Room(i, n)
  /\ Passed(i) = {}
  /\ phase' = [phase EXCEPT ![i] = "running"]
  /\ home' = [home EXCEPT ![i] = n]
  /\ UNCHANGED <<trace, max_queue_time>>

Finish(i) ==
  /\ phase[i] = "running"
  /\ phase' = [phase EXCEPT ![i] = "finished"]
  /\ home' = [home EXCEPT ![i] = None]
  /\ UNCHANGED <<trace, max_queue_time>>

Reject(i) ==
  /\ phase[i] = "waiting"
  /\ max_queue_time # None
  /\ phase' = [phase EXCEPT ![i] = "rejected"]
  /\ UNCHANGED <<trace, max_queue_time, home>>

Admit(i) == Enqueue(i) \/ \E n \in Nodes : Start(i, n)

Next == \E i \in Pods : Admit(i) \/ Finish(i) \/ Reject(i)

Spec == Init /\ [][Next]_vars

(***************************************************************************)
(* Every pod is submitted, one that could start for ever starts, and one   *)
(* that runs finishes.  Rejecting is allowed, never required.  Fairness is *)
(* stated for the indices a trace may have, Index, as Pods is no constant. *)
(***************************************************************************)
Index == UNION {DOMAIN events : events \in Traces}

FairSpec ==
  /\ Spec
  /\ \A i \in Index : WF_vars(i \in Pods /\ Admit(i)) /\ WF_vars(i \in Pods /\ Finish(i))
=============================================================================
