----------------------------- MODULE RunMetrics -----------------------------
(***************************************************************************)
(* What is reported of a run once it is over: RunResult's properties       *)
(* (event_runtime.py:73-115), and what experiments/broader_metrics.py      *)
(* derives from the outcomes.  All are functions of the trace, the nodes   *)
(* and the outcomes, which are sequences of records as in EventRuntime.    *)
(* Rates are fractions <<numerator, denominator>>; GPUs are counted in     *)
(* milli-units.  Names Name_Bug: see EventRuntime.                         *)
(***************************************************************************)
EXTENDS Resources, Sequences, Functions, Ordering

AdmittedOnes(outcomes) == {i \in DOMAIN outcomes : outcomes[i].admitted}

RejectionRate(outcomes) ==
  <<Len(outcomes) - Cardinality(AdmittedOnes(outcomes)), Len(outcomes)>>

Makespan(outcomes) ==
  Max({0} \cup {outcomes[i].completion_time : i \in AdmittedOnes(outcomes)})

\* sorted(admitted_wait_times).
SortedWaits(outcomes) ==
  LET admitted == Ascending(AdmittedOnes(outcomes))
      waits == [k \in DOMAIN admitted |-> outcomes[admitted[k]].wait_time]
  IN  SortedBy(waits, waits)

-----------------------------------------------------------------------------
(* p95_wait_time and percentile(): q is a fraction, waits are sorted.      *)

\* The index counted from 1.
Percentile_FromOne(waits, q) ==
  IF waits = <<>> THEN 0
  ELSE waits[Max({1, (Len(waits) * q[1]) \div q[2]})]

Percentile(waits, q) ==
  IF waits = <<>> THEN 0
  ELSE waits[Min({(Len(waits) * q[1]) \div q[2], Len(waits) - 1}) + 1]

-----------------------------------------------------------------------------
(* jains_fairness_index: of the values of a function, fractions, over their *)
(* common denominator; 1 if there are none or all are 0.                    *)

JainsFairnessIndex(values) ==
  LET whole == FoldFunction(LAMBDA v, product : v[2] * product, 1, values)
      Scaled(x) == values[x][1] * (whole \div values[x][2])
      sum == MapThenSumSet(Scaled, DOMAIN values)
      squares == MapThenSumSet(LAMBDA x : Scaled(x) * Scaled(x), DOMAIN values)
  IN  IF sum = 0 THEN <<1, 1>>
      ELSE <<sum * sum, Cardinality(DOMAIN values) * squares>>

-----------------------------------------------------------------------------
(* Service level and fairness.                                             *)

SlaViolations(waits, threshold) == Cardinality({k \in DOMAIN waits : waits[k] > threshold})

\* The mean wait of the admitted pods of every user who has any.
PerUserMeanWait(outcomes, userOf) ==
  LET Of(u) == {i \in AdmittedOnes(outcomes) : userOf[i] = u}
  IN  [u \in {userOf[i] : i \in AdmittedOnes(outcomes)} |->
         <<MapThenSumSet(LAMBDA i : outcomes[i].wait_time, Of(u)), Cardinality(Of(u))>>]

-----------------------------------------------------------------------------
(* GPU-hours, in milli-GPUs times units of time.                           *)

\* gpu_of: whole devices if the pod asks for any, else its share.
GpuOf(pod) == IF pod.gpu_number # 0 THEN pod.gpu_number * MILLI ELSE pod.milli_gpu

GpuHoursUsed(trace, outcomes) ==
  MapThenSumSet(
    LAMBDA i : GpuOf(trace[i].pod) * (outcomes[i].completion_time - outcomes[i].start_time),
    AdmittedOnes(outcomes))

GpuHoursAvailable(nodes, outcomes) ==
  Makespan(outcomes) * MILLI * MapThenSumSet(LAMBDA n : nodes[n].gpu_count, DOMAIN nodes)

GpuHoursWasted(trace, nodes, outcomes) ==
  Max({0, GpuHoursAvailable(nodes, outcomes) - GpuHoursUsed(trace, outcomes)})

\* avg_gpu_utilization
GpuUtilizationOverTime(trace, nodes, outcomes) ==
  IF GpuHoursAvailable(nodes, outcomes) = 0 THEN <<0, 1>>
  ELSE <<GpuHoursUsed(trace, outcomes), GpuHoursAvailable(nodes, outcomes)>>
=============================================================================
