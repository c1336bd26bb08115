----------------------- MODULE EventRuntimeRefinement -----------------------
(***************************************************************************)
(* EventRuntime implements AdmissionQueue.  The mapping forgets the heap,  *)
(* the clock and the counters: what phase a pod is in follows from where   *)
(* the loop keeps it.                                                      *)
(***************************************************************************)
EXTENDS EventRuntime

PhaseOf(i) ==
  IF ~Arrived(i) THEN "unseen"
  ELSE IF Waiting(i) THEN "waiting"
  ELSE IF Running(i) THEN "running"
  ELSE IF Admitted(i) THEN "finished"
  ELSE "rejected"

HomeOf(i) == IF Running(i) THEN outcomes[i].node_id ELSE None

Queue == INSTANCE AdmissionQueue WITH
           phase <- [i \in Pods |-> PhaseOf(i)],
           home <- [i \in Pods |-> HomeOf(i)]

\* Every behaviour of the loop is one of the admission queue: a node's
\* remaining counters always say what its running pods leave, no pod passes
\* an earlier one that could use the same room, and every pod that could
\* start for ever starts (event_runtime.py:176-212).
ImplementsQueue == Queue!FairSpec
=============================================================================
