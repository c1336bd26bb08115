---------------------------- MODULE PolicyRuntime ----------------------------
(***************************************************************************)
(* The event loop with a real policy: one run of the time-driven sweep     *)
(* (experiment.py:97-125).  A fresh copy of the cluster, one policy, one   *)
(* set of typical pods; the loop of EventRuntime, whose choice of a node   *)
(* is now that of Policies; the samples of the fragmentation score run()   *)
(* takes on the way; and at the end the figures that are reported.         *)
(*                                                                         *)
(* EventRuntime lets the policy choose any node with room.  ContractKept   *)
(* says that every policy, in every state of a run, makes such a choice,   *)
(* so that a step here is a step there.                                    *)
(***************************************************************************)
EXTENDS EventRuntime, RunMetrics

CONSTANTS
  Names,      \* the policies considered
  Typicals,   \* the typical pods and weights a sweep may have derived
  Every,      \* track_fragmentation_every
  ReportTypical,   \* the typical pods every policy is scored by at the end
  UserOf,     \* the user of the i-th pod
  Threshold   \* sla_threshold

ASSUME NodeListAssumption == NodeOf \in Seq(NodeResource) /\ NodeOf # <<>>
ASSUME EveryAssumption == Every \in Nat \ {0}
ASSUME ReportAssumption ==
  /\ \A events \in Traces : DOMAIN events \subseteq DOMAIN UserOf
  /\ ReportTypical \in Seq(PodResource) /\ Threshold \in Nat

Policy == INSTANCE Policies WITH NodeList <- NodeOf

\* build_typical_pods_weighted returns one weight per pod (fragmentation.py:79).
ASSUME PolicyAssumption ==
  /\ Names \subseteq Policy!POLICIES
  /\ \A t \in Typicals :
       /\ t \in [pods : Seq(PodResource), weights : Seq(Nat \ {0})]
       /\ t.weights = <<>> \/ Len(t.weights) = Len(t.pods)

VARIABLES
  policy,                \* RunConfig.policy; never changes
  typical,               \* typical_pods, typical_weights; never change
  round_robin_state,     \* Cluster's cursor
  n_processed,           \* arrivals handled
  fragmentation_trace    \* the samples: <<time, score>>

choice == <<policy, typical>>
samples == <<n_processed, fragmentation_trace>>
runVars == <<vars, choice, round_robin_state, samples>>

\* Only these are given weights (experiment.py:43, 100-109).
WEIGHT_AWARE_POLICIES == {"w_fgd", "w_fgd_balanced"}

RunInit ==
  /\ Init
  /\ policy \in Names
  /\ typical \in Typicals
  /\ policy \in WEIGHT_AWARE_POLICIES <=> typical.weights # <<>>
  /\ round_robin_state = 0
  /\ n_processed = 0
  /\ fragmentation_trace = <<>>

-----------------------------------------------------------------------------
Pick(i) == Policy!Chosen(policy, Pod(i), remaining, round_robin_state, typical)

CursorMoves(n) ==
  round_robin_state' =
    IF policy = "round_robin" THEN Policy!CursorAfter(n) ELSE round_robin_state

\* The score is that of the cluster before the arrival was handled.
Sample_TooEarly(score) ==
  /\ n_processed' = n_processed + 1
  /\ fragmentation_trace' =
       IF n_processed' % Every = 0 /\ typical.pods # <<>>
       THEN Append(fragmentation_trace, <<now', Policy!ClusterFragmentation(typical, remaining)>>)
       ELSE fragmentation_trace

\* Every so many arrivals the score is noted, with the time.
Sample(score) ==
  /\ n_processed' = n_processed + 1
  /\ fragmentation_trace' =
       IF n_processed' % Every = 0 /\ typical.pods # <<>>
       THEN Append(fragmentation_trace, <<now', score>>)
       ELSE fragmentation_trace

Score(left) == Policy!ClusterFragmentation(typical, left)

RunArrivePlaced(e, n) ==
  /\ n \in Pick(e.ev)
  /\ ArrivePlaced(e, n)
  /\ CursorMoves(n)
  /\ Sample(Score(remaining'))
  /\ UNCHANGED choice

RunArriveQueued(e) ==
  /\ ArriveQueued(e)
  /\ Sample(Score(remaining))
  /\ UNCHANGED <<choice, round_robin_state>>

RunDrainPlaced(n) ==
  /\ Scanning /\ n \in Pick(pending[scan])
  /\ DrainPlaced(n)
  /\ CursorMoves(n)
  /\ UNCHANGED <<choice, samples>>

\* Steps in which no pod is offered to the policy, or to no avail.
RunOther ==
  /\ (\E e \in heap : ReleasePod(e)) \/ DrainExpired \/ DrainKept \/ DrainEnd
  /\ UNCHANGED <<choice, round_robin_state, samples>>

RunNext ==
  \/ \E e \in heap : \E n \in Nodes : RunArrivePlaced(e, n)
  \/ \E e \in heap : RunArriveQueued(e)
  \/ \E n \in Nodes : RunDrainPlaced(n)
  \/ RunOther

RunSpec == RunInit /\ [][RunNext]_runVars

-----------------------------------------------------------------------------
(* The rows of a run (experiment.py:112-125, broader_metrics.py:133-151).  *)

FinalScore(left) ==
  Policy!ClusterFragmentation([pods |-> ReportTypical, weights |-> <<>>], left)

SweepRow ==
  [rejection_rate |-> RejectionRate(outcomes),
   final_fragmentation_score |-> FinalScore(remaining),
   final_gpu_utilization |->
     MapThenSumSet(LAMBDA n : MilliGpuCapacity(NodeOf[n]) - remaining[n].milli_gpu, Nodes)]

WaitPercentile(q) == Percentile(SortedWaits(outcomes), q)

TimeDrivenRow ==
  LET waits == SortedWaits(outcomes)
  IN  [p_wait_time |-> [q \in {<<1, 2>>, <<95, 100>>, <<99, 100>>} |-> WaitPercentile(q)],
       sla_violation_rate |-> <<SlaViolations(waits, Threshold), Len(waits)>>,
       jains_fairness_per_user_wait |-> JainsFairnessIndex(PerUserMeanWait(outcomes, UserOf)),
       avg_gpu_utilization |-> GpuUtilizationOverTime(trace, NodeOf, outcomes),
       gpu_hours_wasted |-> GpuHoursWasted(trace, NodeOf, outcomes),
       gpu_hours_used |-> GpuHoursUsed(trace, outcomes),
       makespan |-> Makespan(outcomes)]

-----------------------------------------------------------------------------
(* Properties.                                                             *)

\* Whatever scores, cursors and releases have made of the cluster, a policy
\* returns None only when no node has room for the pod it is offered, and
\* otherwise a node with room (policies.py:6-8): no pod waits, and none is
\* recorded as placed, by a policy's mistake.
ContractKept ==
  \A i \in Pods :
    /\ Pick(i) \subseteq Feasible(i)
    /\ Feasible(i) # {} => Pick(i) # {}

\* The k-th sample was taken when pod k * Every arrived.  By the outcomes, on
\* a node at that moment, for certain, were the pods that started before and
\* had not completed; possibly also pods that started at that very instant,
\* or not yet if a completion at the same instant made room for them later.
OnNode(n, S) == {j \in S : outcomes[j].node_id = n}
LeftBy(S) ==
  [n \in Nodes |-> TakeAll(Empty(NodeOf[n]), [i \in Pods |-> Pod(i)], OnNode(n, S))]

\* Every sample is the score of a cluster that ran just what the outcomes say
\* was running then, although releases of that instant are still to come when
\* it is taken (event_runtime.py:180-186).
SamplesMatchOutcomes ==
  \A k \in DOMAIN fragmentation_trace :
    LET t == fragmentation_trace[k][1]
        started == {j \in 1 .. k * Every : Admitted(j)}
        sure == {j \in started : /\ outcomes[j].start_time < t
                                 /\ outcomes[j].completion_time >= t}
        atOnce == {j \in started : outcomes[j].start_time = t}
        freed == \E j \in Pods : Admitted(j) /\ outcomes[j].completion_time = t
    IN  /\ t = SubmitTime(k * Every)
        /\ \E S \in IF freed THEN SUBSET atOnce ELSE {atOnce} :
             fragmentation_trace[k][2] = Score(LeftBy(sure \cup S))

\* The sweep's final score and utilization, and without a time-out its rejection
\* rate and the users the fairness of waits is taken over, are the same for
\* every policy and every arrival pattern: at the end all nodes are idle, and
\* rejected are the pods no idle node can hold (experiment.py:118-124,
\* broader_metrics.py:104-108).
FinalRowIsBlind ==
  Finished =>
    LET able == {i \in Pods : \E n \in Nodes : FitsIn(Pod(i), NodeOf[n], Empty(NodeOf[n]))}
    IN  /\ SweepRow.final_fragmentation_score = FinalScore([n \in Nodes |-> Empty(NodeOf[n])])
        /\ SweepRow.final_gpu_utilization = 0
        /\ max_queue_time = None =>
             /\ SweepRow.rejection_rate = <<Len(trace) - Cardinality(able), Len(trace)>>
             /\ DOMAIN PerUserMeanWait(outcomes, UserOf) = {UserOf[i] : i \in able}

WholeDevices == \A i \in Pods : Pod(i).milli_gpu > 0 => Pod(i).gpu_number > 0

\* The GPU-hours used and those reported as wasted are together the ones there
\* are from time 0 to the makespan, if every pod that uses a GPU asks for whole
\* devices: no device is ever held twice, by start and completion times, and
\* max(.., 0) cuts nothing off.  A pod that asks for a share only, gpu_number
\* 0, is counted by its share while its device is counted as a whole for
\* another, and more may be used than there is (broader_metrics.py:21-23, 131).
WastedIsTheRest ==
  LET row == TimeDrivenRow
  IN  Finished /\ WholeDevices =>
        /\ row.gpu_hours_used + row.gpu_hours_wasted = GpuHoursAvailable(NodeOf, outcomes)
        /\ row.avg_gpu_utilization[1] <= row.avg_gpu_utilization[2]

\* No time is lost: from the last arrival on some pod runs until all that can
\* be placed are, so a run lasts no longer than if everything that was
\* admitted ran one by one after the last submission (event_runtime.py:111-115).
NoTimeLost ==
  Finished =>
    Makespan(outcomes) <=
      Max({0} \cup {SubmitTime(i) : i \in Pods})
      + MapThenSumSet(LAMBDA i : trace[i].duration, AdmittedOnes(outcomes))

\* A percentile and the SLA violation rate tell one story, whatever the waits:
\* the value reported for q is over the threshold exactly if at least 1 - q of
\* the pods admitted violate it (broader_metrics.py:10-13, 68-72, 101, 137-140,
\* event_runtime.py:103-109).
SlaMatchesPercentiles ==
  LET row == TimeDrivenRow
      violations == row.sla_violation_rate
  IN  Finished /\ violations[2] > 0 =>
        \A q \in DOMAIN row.p_wait_time :
          row.p_wait_time[q] > Threshold
            <=> violations[1] * q[2] >= violations[2] * (q[2] - q[1])
=============================================================================
