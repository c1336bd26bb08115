----------------------------- MODULE StaticRows -----------------------------
(***************************************************************************)
(* What is reported of a static batch once schedule_pods has returned: the *)
(* rows of run_static_sweep (experiment.py:148-171), of                    *)
(* static_broader_metrics (broader_metrics.py:166-197) and of the two      *)
(* demos that compare policies (demo.py:60-83, trace_demo.py:41-53).       *)
(*                                                                         *)
(* Some figures are computed from the results, some from the counters of   *)
(* the nodes; a row has both.  GPUs are in milli-units, rates are          *)
(* fractions <<numerator, denominator>>.  Names Name_Bug: see EventRuntime.*)
(***************************************************************************)
EXTENDS Cluster, RunMetrics

CONSTANTS
  UserOf,         \* the user of the k-th pod of a batch
  ReportTypical   \* the typical pods every policy is scored by

ASSUME ReportAssumption ==
  /\ \A batch \in Batches : DOMAIN batch \subseteq DOMAIN UserOf
  /\ ReportTypical \in Seq(PodResource)

\* The script reports when the batch is through.
Reported == Len(results) = Len(pods)

-----------------------------------------------------------------------------
AdmittedPods == {k \in DOMAIN results : results[k] # None}

\* By the results ..
DemandOf(K) == MapThenSumSet(LAMBDA k : pods[k].milli_gpu, K)
AdmittedDemand == DemandOf(AdmittedPods)
TotalDemand == DemandOf(DOMAIN pods)

\* .. and by the counters of the nodes.
GpuCapacity == MapThenSumSet(LAMBDA n : MilliGpuCapacity(NodeList[n]), NodeIds)

\* Devices taken count in full.
Allocated_WholeDevices ==
  MapThenSumSet(LAMBDA n : (NodeList[n].gpu_count - remaining[n].gpu_count) * MILLI, NodeIds)

Allocated ==
  MapThenSumSet(LAMBDA n : MilliGpuCapacity(NodeList[n]) - remaining[n].milli_gpu, NodeIds)

PackingEfficiency == IF Allocated = 0 THEN <<0, 1>> ELSE <<AdmittedDemand, Allocated>>

Rate(part) == IF GpuCapacity = 0 THEN <<0, 1>> ELSE <<part, GpuCapacity>>
TotalGpuUtilization == Rate(Allocated)
OfferedLoadRatio == Rate(TotalDemand)

\* Every policy is scored by the same shapes, without weights.
FragmentationScore(left) ==
  ClusterFragmentation([pods |-> ReportTypical, weights |-> <<>>], left)

-----------------------------------------------------------------------------
(* Fairness: Jain's index over the admission rates of the users.           *)

PodsOf(u) == {k \in DOMAIN pods : UserOf[k] = u}

\* Whoever had no pod admitted is left out.
PerUserRate_ServedOnly ==
  [u \in {UserOf[k] : k \in AdmittedPods} |->
     <<Cardinality(PodsOf(u) \cap AdmittedPods), Cardinality(PodsOf(u))>>]

PerUserRate ==
  [u \in {UserOf[k] : k \in DOMAIN pods} |->
     <<Cardinality(PodsOf(u) \cap AdmittedPods), Cardinality(PodsOf(u))>>]

-----------------------------------------------------------------------------
(* The rows.                                                               *)

RejectedShare == <<Len(pods) - Cardinality(AdmittedPods), Len(pods)>>

\* static_broader_metrics
StaticRow ==
  [n_submitted |-> Len(pods),
   n_admitted |-> Cardinality(AdmittedPods),
   rejection_rate |-> RejectedShare,
   jains_fairness_per_user_admission |-> JainsFairnessIndex(PerUserRate),
   packing_efficiency |-> PackingEfficiency,
   gpu_utilization |-> TotalGpuUtilization,
   offered_load_ratio |-> OfferedLoadRatio]

\* run_static_sweep
SweepRow ==
  [n_submitted |-> Len(pods),
   n_admitted |-> Cardinality(AdmittedPods),
   rejection_rate |-> RejectedShare,
   fragmentation_score |-> FragmentationScore(remaining),
   gpu_utilization |-> TotalGpuUtilization]

-----------------------------------------------------------------------------
(* Properties.                                                             *)

\* The figures of a row from the results and those from the counters agree.
\* What the pods admitted ask for is what is allocated, so packing_efficiency
\* is 1 whatever the policy, or 0 if nothing is allocated, and cannot tell
\* `badly packed' from `nothing wants to run' (broader_metrics.py:24-27,
\* 185-187).  And the utilization falls short of the offered load only by pods
\* that were rejected (cluster.py:84-89, broader_metrics.py:196).
RowAddsUp ==
  LET row == StaticRow
  IN  Reported =>
        /\ row.packing_efficiency[1] \in {0, row.packing_efficiency[2]}
        /\ AtMost(row.gpu_utilization, row.offered_load_ratio)
        /\ GpuCapacity > 0 =>
             (row.gpu_utilization = row.offered_load_ratio <=>
                \A k \in DOMAIN pods : pods[k].milli_gpu > 0 => results[k] # None)

\* Starving users shows: the index is at most the share of the users who had a
\* pod admitted, it is 1 only if all have the same admission rate, and it never
\* sinks below one user's share (broader_metrics.py:16-20, 55-65, 177-183).
StarvedUsersShow ==
  Reported /\ AdmittedPods # {} =>
    LET users == {UserOf[k] : k \in DOMAIN pods}
        served == {UserOf[k] : k \in AdmittedPods}
        J == StaticRow.jains_fairness_per_user_admission
    IN  /\ AtMost(J, <<Cardinality(served), Cardinality(users)>>)
        /\ AtMost(<<1, Cardinality(users)>>, J)
        /\ J[1] = J[2] <=>
             \A u, v \in users : AtMost(PerUserRate[u], PerUserRate[v])

\* The score does not hide a rejection: the typical shapes that ask for no less
\* than some pod rejected count as unfit on every node, so a policy whose score
\* is good has rejected few of the shapes it is scored by, although it is scored
\* on what it admitted alone (experiment.py:163-168, fragmentation.py:127-145,
\* demo.py:98-100).
ScoreSeesRejections ==
  LET refused == {t \in DOMAIN ReportTypical :
                    \E k \in DOMAIN results :
                      results[k] = None /\ AsksNoLess(ReportTypical[t], pods[k])}
  IN  SweepRow.fragmentation_score >= Cardinality(refused) * Len(NodeList)
=============================================================================
