# Verification of k8s_sim

TLA+ models of `k8s_sim`, a simulator of GPU-cluster scheduling: a Python
package that places pods on nodes under ten policies, replays traces through a
discrete-event loop, and schedules on a topology hypergraph (H-TAFM). The
modules here say what those components do and what must hold of them; TLC
checks that on small instances. TLAPS proves the safety properties for every
trace, cluster and policy: those of the event loop, that it implements an
abstract admission queue, that the ten policies keep the contract it relies on,
the accounts of static batches, the figures of the rows, the index of H-TAFM,
what the event loop is given by the trace bridge and the scaling, and that the
two engines can be compared.

Line references are to the repository: `event_runtime.py:207` is line 207 of
`src/k8s_sim/event_runtime.py`.

## 1. The system

### Components, state, operations

| Component (file) | State it keeps | Operations that change it | Modelled in |
|---|---|---|---|
| Resources (`resource.py`) | a node's `remaining_milli_cpu`, `remaining_milli_gpu`, `remaining_gpu_count`, `allocated` | `NodeResource.add`, `remove`; `__post_init__` fills in the GPU capacity | `Resources` |
| Event loop (`event_runtime.py`) | heap of events, `seq`, `now`, `pending` list, `outcomes`, and the cluster's nodes | `EventDrivenRunner.run`: pop an arrival or a release, place, queue, drain | `EventRuntime` |
| Policies (`policies.py`) | `_round_robin_state`, shared by all calls; otherwise none, though the three gradient policies take from a node and give back while they score it | ten policy functions | `Policies` |
| Cluster, static mode (`cluster.py`) | the nodes | `schedule_pod`, `schedule_pods` | `Cluster` |
| Fragmentation scores (`fragmentation.py`) | none | `unfit_fraction`, its weighted form, `cluster_fragmentation_score`; two builders of typical pods | `Policies`; `TypicalPods` |
| Topology (`topology.py`) | per vertex `free_milli_cpu`, `free_memory_mib`, `free_gpu_milli[]`; the hypergraph is fixed | `from_nodes`, `TopoVertex.place` | `Topology` |
| H-TAFM (`htafm.py`) | the scheduler's topology; `pending_demands` is fixed | `schedule_one`, `schedule` | `HTAFM`, `Logarithms` |
| Trace bridge (`gputrace_bridge.py`) | none | turns a job table into `TimedPodEvent`s and makes up nodes for them, or reads both from files | `GputraceBridge` |
| Loaders (`trace.py`) | none | rows of raw and of exported CSV files to pods and nodes; a fresh copy of a cluster | `TraceLoaders` |
| Sweeps (`experiment.py`) | none between runs | scale a trace, run each policy on a fresh cluster, report | `ScaledTrace`, `SweepTraces`, `PolicyRuntime`, `StaticRows` |
| Metrics (`RunResult`, `experiments/broader_metrics.py`) | none | figures computed from the outcomes of a run or the results of a batch | `RunMetrics`, `StaticRows` |
| Scenario matrix (`experiments/full_scenario_matrix.py`) | none | converts nodes and pods for H-TAFM, runs both engines, reports both | `ScenarioMatrix` |
| Demo of both engines (`htafm_demo.py`) | none | reads the raw trace for each engine, runs both, reports both | `HtafmDemo` |
| Other demos, example script | none | drivers and plots | no |

### How they interact

Everything is synchronous calls in one thread. `run` pops an event and calls
`Cluster.schedule_pod`, which calls a policy, which reads the nodes and
returns one of them or `None`; `schedule_pod` then calls `node.add`. A release
popped from the heap names its node and pod by id and calls `node.remove`.
Policies and cluster share the node objects; `round_robin` calls share one
module-global cursor. H-TAFM does not use `Cluster` at all: it has vertices of
its own, with memory and one free counter per GPU device. The two engines meet in
two scripts, which put the results of both in one table: the scenario matrix
converts the nodes and pods of one into those of the other, `htafm_demo.py`
reads the same files by two loaders.

Around the event loop there is a pipeline of functions: the bridge makes
events and a cluster of a table of jobs, `_scale_events` makes a lighter or
heavier trace of them, the builders of typical pods derive from them the
shapes that policies score by, and after the run the metrics are computed from
the outcomes. Each relies on the form of what it is handed.

### What is hard about it, and what makes it correct

There are no threads and nothing is persisted, so there are no races and no
crash recovery. What is hard are *simulated* concurrency and long sequences.

* **Event loop.** Arrivals and releases of one instant are ordered only by a
  counter; releases pushed in one drain share that counter. Arrivals bypass
  the queue, the drain goes past pods that do not fit, and it makes one pass
  only. Time-outs are looked at only when something completes. A release
  refers to a pod placed long before. Correct means: nobody who fits is left
  waiting, no resource is lost or released twice, waits respect
  `max_queue_time`, a pod is never overtaken by one that asks for no less, a
  pod is rejected only for a reason, and the loop ends.
* **Policies and cluster.** A policy must return a node whenever one has room,
  whatever its score or cursor does; round-robin must be fair although nodes
  are skipped and pods rejected; packing policies must pack; the fragmentation
  score must behave as its users assume.
* **H-TAFM.** The scheduler decides by a *predicted* change of the index,
  computed from a hypothetical total and only some of the hyperedges, whereas
  `place` deducts device by device. Both must agree. `from_nodes` must build a
  hierarchy that loses nothing but rounding remainders.
* **Traces.** What the bridge and `_scale_events` return must be what the event
  loop requires: sorted, no id twice that was not twice before, ties in their
  old order. The load must be the one asked for, also of an empty trace, and a
  cluster made up for a trace must hold it, but for what rounding adds.
* **Typical pods.** Quantiles and strata of small or lumpy workloads: every pod
  counted once, weights that sum to 1, shapes in the order they claim.
* **Metrics.** They look at outcomes after the fact, when all pods have gone,
  some at admitted pods only; and two ways of counting a pod's GPUs meet. A row
  has figures from the results next to figures from the counters of the nodes,
  and they have to tell one story.
* **Two engines in one table.** `milli_gpu` is per pod for one engine and per
  device for the other, and each has loaders of its own: the rows have to be
  about the same pods, nodes and units.

The hazards with their lines are in `PROJECT.json`, each with the properties
that would notice it.

## 2. Modules

```
Resources --+-- EventRuntime --+-- EventRuntimeRefinement ...... AdmissionQueue
            |                  +-- PolicyRuntime (+ RunMetrics) . Policies
            +-- RunMetrics
            +-- Policies ---- Cluster ---- StaticRows (+ RunMetrics)
            +-- TypicalPods
            +-- TraceLoaders ---- GputraceBridge ---- SweepTraces .. ScaledTrace
            +-- ScenarioMatrix ................................. Cluster, HTAFM
            |         +-- HtafmDemo (+ TraceLoaders)
            +-- Topology ---- HTAFM

Ordering ---- RunMetrics, TypicalPods, GputraceBridge, ScaledTrace, Lemmas

Lemmas --+-- EventRuntimeProofs ---- PolicyRuntimeProofs ....... ClusterProofs
         +-- ClusterProofs
         +-- HTAFMProofs
         +-- ScenarioMatrixProofs ................. ClusterProofs, HTAFMProofs
         +-- SweepTracesProofs
         +-- TypicalPodsProofs

---- extends      .... instantiates
```

| Module | What it is |
|---|---|
| `Resources` | `PodResource`, `NodeResource`, `fits_in`, `add`, `remove` as pure operators |
| `EventRuntime` | the state machine of `EventDrivenRunner.run`, its properties and its inductive invariant |
| `AdmissionQueue` | the abstract specification: what an event-driven runner promises, without clock, heap or counters |
| `EventRuntimeRefinement` | the refinement mapping from the first to the second |
| `Ordering` | sorting, as `list.sort`, `sorted` and `np.sort` do it |
| `Lemmas` | on sums over finite sets, quotients and sorting; on one node and the pods it holds |
| `XProofs` | the theorems about module `X`, which it extends; `EventRuntimeProofs` has also the refinement, `ClusterProofs` the policies and the rows of `StaticRows`, `ScenarioMatrixProofs` both scripts that compare the engines |
| `Policies` | the ten policies and the fragmentation scores, as pure operators |
| `Cluster` | the state machine of `Cluster.schedule_pods` over those policies |
| `StaticRows` | what the static sweep and the static part of `broader_metrics.py` report of a batch |
| `PolicyRuntime` | one run of the time-driven sweep: the event loop with a policy of `Policies`, the fragmentation samples, the figures reported |
| `RunMetrics` | the statistics of `RunResult` and of `broader_metrics.py`, as pure operators |
| `Topology` | `from_nodes`, `fits`, `place` as pure operators |
| `HTAFM` | TAFI, its gradient and the state machine of `HTAFMScheduler.schedule` |
| `Logarithms` | a table of natural logarithms for TLC, standing for `math.log` |
| `ScenarioMatrix` | both engines on one scenario, with the conversions between them |
| `TraceLoaders` | the CSV loaders as functions of a table's rows |
| `HtafmDemo` | both engines on the raw trace, each with its own loaders |
| `ScaledTrace` | `_scale_events` |
| `TypicalPods` | `build_typical_pods`, `build_typical_pods_weighted` |
| `GputraceBridge` | `load_gputrace_dataframe`, `load_gputrace_export` |
| `SweepTraces` | the bridge and `_scale_events` composed: from a table of jobs or a file to the trace of a run |
| `MC*` | instances for TLC |

A definition called `Name_Bug` next to `Name` is `Name` with a plausible
mistake (a dropped guard, a swapped order). No behaviour uses them. Each
property has one that it notices; `PROJECT.json` "mutants" pairs them.

### EventRuntime: state and actions

| Variable | In the code |
|---|---|
| `trace`, `max_queue_time` | the arguments `events`, `RunConfig.max_queue_time` |
| `remaining`, `allocated` | the `NodeResource`s of the cluster |
| `heap`, `seq`, `now` | the locals `heap`, `seq`, and the `time` last popped |
| `pending`, `outcomes` | the locals of these names |
| `pc`, `scan`, `kept` | where the loop is: between events or in the pass of lines 207-212; `kept` is the list `remaining` |

| Action | In the code |
|---|---|
| `ArrivePlaced(e, n)` | pop an ARRIVE and `try_place` succeeds: node, outcome, RELEASE pushed |
| `ArriveQueued(e)` | pop an ARRIVE that fits no node: append to `pending` |
| `ReleasePod(e)` | pop a RELEASE: `node.remove`, and the pass over `pending` begins |
| `DrainExpired` | the pod in hand has waited too long: dropped |
| `DrainPlaced(n)` | the pod in hand is placed on `n`, RELEASE pushed |
| `DrainKept` | it fits no node: kept |
| `DrainEnd` | `pending = remaining` |

Abstractions, and why they lose nothing the properties tell apart:

* *The policy* is a nondeterministic choice of a node with room, which is the
  contract all ten policies have; `ClusterProofs` proves that they have it
  (`PolicyContract`). So what holds here holds under each of them, and
  under a policy that changes its mind in mid-run.
* *Time* is a natural number where the code has floats. The loop only adds and
  compares times. (A trace whose times differ by less than a float's precision
  is outside the model.)
* *Heap order.* The code compares `(time, seq, kind, payload)`. An arrival
  never shares its `seq` with anything. Two releases share one when a single
  drain pushed both; the payload, that is the ids, then decides, and as ids
  are abstract here either order is possible.
* *Pod ids* are positions in the trace, hence unique, as in all traces the
  bridge exports. What duplicate ids would do is listed as a hazard and is
  not modelled.
* `allocated` holds pods; `remove` of an absent pod (the ELSE in `ReleasePod`)
  is there because the code has it, and `ReleasesMatchHoldings` shows that it
  is never needed.

### Cluster and Policies

`Cluster` has one action per turn of the loop in `schedule_pods`: `Placed(n)`
and `Rejected`. `Chosen` (in `Policies`) returns the *set* of nodes a policy
may return: empty for `None`, a singleton where the code is deterministic.
It has several members for `random`, and where the exact scores of two nodes
tie but the code compares sums or differences of floats, which rounding may
tell apart. Scores are exact fractions; typical-pod weights are integers in a
common unit. The temporary `add`/`remove` with which the gradient policies
score a node is the pure `Take`.

`StaticRows` extends `Cluster` with the rows its callers make when the batch is
through: `StaticRow` (`static_broader_metrics`) and `SweepRow`
(`run_static_sweep`). The score in them is over one set of shapes for all
policies, `ReportTypical`, whatever shapes the policy was given.

### Topology and HTAFM

`FromNodes` builds vertices and hyperedges as `from_nodes` does: NUMA nodes
with floored shares of cpu and memory, GPUs dealt round-robin, hyperedges per
socket, server and rack with at least two members. `HTAFM` has one action per
demand: `Schedule(v)`, `LeaveUnscheduled`. TAFI-Cut and TAFI-Hier are sums of
multiples of 1/|e| and kept as integers. TAFI-Entropy is computed as
ln T - (sum of f ln f)/T from the integers f, which are shares of capacities in
units of 1/`Shares`, and the constant `Ln`; the instances choose `Shares` so
that the f are exact. `Ln` is in 10^-5 nats, off by two units at most. An
entropy is then off by five, a gradient, over edges of weight 8, 4 and 1 before
and after, by 130, and the comparison of two by 260: this is `Tolerance`. Of
the vertices within it of the least the scheduler may take any, the one the
code takes among them.

### PolicyRuntime and RunMetrics

`PolicyRuntime` extends `EventRuntime` and keeps its variables and actions.
`RunArrivePlaced` and `RunDrainPlaced` are the actions of the loop with the
node drawn from what the policy may return (`Pick`); they move the round-robin
cursor, and arrivals take the sample of lines 184-186 (`Sample`).
`RunArriveQueued` and `RunOther` are the steps in which no pod is placed; that
the guard of the loop, "fits no node", and the policy's `None` are the same
thing is `ContractKept`, checked in every state for every pod, and proved. It is
what joins the two levels: with it a step of `PolicyRuntime` is a step of
`EventRuntime`, and all that is proved about the loop holds under each policy.

Typical pods are given to a policy as the sweep gives them: with weights to
`w_fgd` and `w_fgd_balanced`, without to the others. `SweepRow` and
`TimeDrivenRow` are what `run_time_driven_sweep` and
`time_driven_broader_metrics` report.

### ScaledTrace, TypicalPods, GputraceBridge

Each is a function of the code turned into a small state machine with one
action per turn of its loops: `Unscaled`, `Subsample`, `StartCopying`,
`Duplicate`, `SortOut`; `CpuQuantile`, `GpuQuantile`, `UniformFallback`,
`TakeStratum`, `SkipStratum`; `Convert`, `ConvertEnd`, `SortEvents`,
`SizeCluster`, `AssignType` for a job table, `ReadRow`, `ReadEnd` for a file.
`SubsampleRaises` is `rng.choice` refusing to take one of an empty trace.
`SweepTraces` hands the events of the bridge to `_scale_events`, an empty list
like any other, and states its properties from end to end. A job's demands are
integers counted in parts, `Unit` of which make a whole, so that the three
`round` calls of the conversion do round; `num_gpu` may be negative, and is
clamped for the pod (`NumGpu`) but not in the sums. Pod ids are a name and the
numbers of copies added to it (`PodId`); tables and files may repeat them.
Draws of the random generator (the subsample, the jitter, the type of a node)
are nondeterministic choices. Arithmetic is exact; where the code computes in
floats and an exact result is an integer or a half, both sides are allowed
(`Truncated`, `Rounded`), and so is either order of two pods that an unstable
`argsort` may swap.

### ScenarioMatrix, HtafmDemo, TraceLoaders

`ScenarioMatrix` instantiates `Cluster` and `HTAFM` side by side on the same
nodes and pods and has the conversions between them, `ToTopoNode` and `ToTopoDemand`. A
`RunNodePolicy` step is one of `Cluster`; when the batch is through,
`RunHtafmVariant` steps are those of `HTAFM` on the converted input.

A table is a sequence of rows, a row a record of the columns used, and each
loader a function of it; `EMPTY` is an empty cell. `HtafmDemo` has the initial
states of `htafm_demo.py`, in which each engine's input comes from its own
loader; the steps are those of `ScenarioMatrix`. `CompareSpec` is either script.

## 3. The abstract specification

`AdmissionQueue` keeps for each pod one of five phases (unseen, waiting,
running, finished, rejected) and the node of the running ones. A pod starts on
a node only if what the *running pods* leave there has room, counted afresh,
and only if it passes no earlier waiting pod that asks for no more. Every pod
that could start for ever starts. `EventRuntimeRefinement!ImplementsQueue`
says the loop implements it, fairness included: its in-place counters always
agree with a fresh count, its peculiar queue discipline never lets a pod be
overtaken unfairly, and its one pass per release starves nobody.

## 4. Runs

`CHECK_DEADLOCK FALSE` everywhere: every program here ends (the heap is empty,
the list is done), and a finished program has no further step.

| Run | Instance | States | Checks |
|---|---|---|---|
| `event_loop` | 2 unlike nodes; 3 pods of 4 shapes, submit times 0-2, durations 0, 1; and 4 pods of 3 shapes that only one node can hold, times 0-1, durations 1, 2; time-out None, 0, 1 | 363 k | `ArrivalsFirst`, `WaitBounded`, `RejectedForCause`, `WorkConserving`, `CapacityConserved`, `ReleasesMatchHoldings`, `NotPassedByLarger`, `StartsOnOccasion`, `IndInv` (with `TypeOK`), `OutcomesFinal`, `StepsRunOut` |
| `event_live` | 2 nodes, 3 pods of 4 shapes, times and durations 0-1, time-out None, 0 | 45 k | `Termination`, `ImplementsQueue` |
| `event_fcfs` | 4 pods that contend for one node, no time-out | violation | `DrainIsFcfs` |
| `cluster_static` | 3 nodes (2 alike, 1 without GPUs), every batch of 4 pods of 5 shapes, 3 users, all 10 policies, no typical pods / unweighted / weighted | 147 k | `ResultsAccountFor`, `RejectedStaysUnfit`, `RowAddsUp`, `StarvedUsersShow`, `ScoreSeesRejections`, `RoundRobinFair`, `FgdRaisesScoreLeast`, `PacksOrSpreads` |
| `cluster_balanced` | 2 nodes alike | violation | `BalancedLeavesNodesEmpty` |
| `htafm_schedule` | 3 physical nodes, 4 fan-outs, every list of 3 demands of 4 shapes, 2 pending sets, 3 variants | 18 k | `PlacementsAccountFor`, `UnscheduledStaysUnfit`, `HierarchyWellFormed`, `DeltaIsExact`, `GreedyIsBest`, `WholeDevicesKept`, `HierNeverFalls` |
| `htafm_cut` | the same, 4 demands, TAFI-Cut | violation | `CutNeverFalls` |
| `policy_run` | 2 unlike nodes, 3 pods of 4 shapes, times 0-1, durations 1-2, all 10 policies, a sample at every arrival | 238 k | `ContractKept`, `SamplesMatchOutcomes`, `FinalRowIsBlind`, `WastedIsTheRest`, `NoTimeLost`, `SlaMatchesPercentiles` |
| `typical_pods` | all workloads of 0-6 pods of 5 kinds | 126 k | `TypicalNested`, `ShapesAreRanked` |
| `scenario_matrix` | 2 nodes (4 GPUs and 1); every exported list of 4 pods of 6 shapes under 4 policies, and every raw list of 4 rows of 4 kinds, 3 of them read, under 3; 3 variants | 251 k | `RowsComparable` |
| `scenario_matrix_large` | the same, 2 pods | violation | `LargeJobsAreFine` |
| `sweep_traces` | all tables of 0-2 jobs of 7 kinds, demands in twelfths, at times 0-1, of 3 plain jobs at times 0-3 with ids of 3 patterns, and of 3 jobs asking for thirds; ticks of half a second; targets 3/5 and 1, number of nodes free or 2; the empty file, and all files of 3 rows of 2 kinds at times 0-3 with these ids; factors 1/4, 1/2, 1, 3/2, 2, 3 | 418 k | `SizedToTarget`, `Runnable`, `OriginalsKeepTheirTurn` |

Each runs over *all* traces or batches of its length, which the initial states
enumerate; of traces that differ by a shift in time `event_*` takes the one
that starts at 0. There is no symmetry reduction: pods are ordered and nodes differ.

Why these bounds are enough:

* Four pods that contend for one node: one pod runs, two or three wait, one
  release starts two of them or passes one and starts another, and a later
  arrival slips in ahead; these are all the relations the queue properties
  speak of (they compare two pods).
  Three pods on two nodes add the choice of a node, type mismatches, a pod
  no node can hold, and releases that coincide.
* Times and durations make arrivals and releases coincide, and include 0 (a
  pod that completes as it starts) and a duration twice another, so that pods
  of different starts are released at once; two pods of duration 1 one after
  the other let a third wait beyond the time-out.
* `MaxQueueTimes` holds None, the edge value 0, and 1, which some waits meet
  exactly and some exceed.
* Cluster: four pods make the round-robin cursor wrap with a node skipped. One
  user has two pods, two have one, so that rates of 0, 1/2 and 1 meet.
* H-TAFM: the fan-outs yield socket edges, server edges and rack edges,
  vertices that no hyperedge touches, uneven GPU hands and remainders.
* `policy_run`: three pods make one wait while the cursor stands elsewhere and
  a release puts room back; a pod of a type no node has, and one that only one
  node can hold, make both kinds of rejection and of skipping. The SLA threshold
  is 0, which some waits equal and some exceed; three waits put the median and
  the two high percentiles at different places.
* `sweep_traces`: factor 3 goes twice round the trace; with three events 1/4
  keeps none but for the floor of one; two ticks per second let a copy land
  before, on and behind the next event. Files are in any order and have ties.
  Ids are all different, all the same, or one is that of a copy of another.
  Halves, two thirds, three quarters and two and a half GPUs, and two and two
  thirds of a cpu, round down, up and to even; three jobs of the last kind ask
  for more than is sized for them. One job asks for -1 GPU. The demand both falls
  short of one node and exceeds several. Empty tables and files meet every factor.
* `typical_pods`: 0 to 4 pods leave strata empty, 5 fill them, 6 leave a
  remainder, and repeated kinds give ties. The lists are enumerated up to
  order, on which the builders do not depend except among ties, left open.
* `scenario_matrix`: the node of 4 GPUs splits into two vertices of 2, that of
  1 into one of 1 and one of none; three pods fill a vertex. Half a GPU comes with a
  device and with none. Reading three rows of
  four makes a prefix differ from a sample.

### Fairness

`FairSpec` is `Spec /\ WF_vars(Next)`: a sequential `while heap` loop goes on
as long as it has a step. Nothing is assumed of single actions or of the
policy's choice. `AdmissionQueue!FairSpec` asks weak fairness of admitting and
finishing each pod; that is what is shown, not what is assumed.

## 5. Proofs

Everything below is proved for *every* value of the constants that satisfies
the assumptions of the modules: nodes are `NodeResource`s (in a finite list
where policies compare them), traces are sequences of `TimedPodEvent`s sorted
by submit time (which `run` requires), time-outs are naturals or None, None is
neither a number nor a node, weighted typical pods have one positive weight
each, tables of jobs and rows of files have naturals, demands of jobs counted in any
`Unit` and numbers of GPUs also negative, ids that need not differ; targets and
factors are positive fractions. The table of logarithms that stands for `math.log` has to
reach as far as the index asks (`LogarithmsReach`); of its entries only that
they are naturals is assumed, and nothing of `Tolerance`, by which the property has
the same choice as the scheduler. Traces and batches may be of any length, sets
of them infinite.

Of the scripts that compare the engines this is assumed besides
(`MatrixAssumption`, `EnginesAssumption`, `HtafmDemoAssumption`): policies and
typical pods are those `Cluster` accepts; a node has 1000 milli-units per
device, as in all nodes the scripts read; no row of the default pod list names
a GPU type, and for the demo the nodes are those of the node table.

| Module | Theorem | Says |
|---|---|---|
| `EventRuntimeProofs` | `Invariance` | `IndInv` is an invariant |
| | `TypeCorrect` | `TypeOK` |
| | `SinglePassSuffices` | `WorkConserving` |
| | `ReleasesComeLast` | `ArrivalsFirst` |
| | `WaitsAreBounded` | `WaitBounded` |
| | `NobodyPassedByLarger` | `NotPassedByLarger` |
| | `HoldingsMatchReleases` | `ReleasesMatchHoldings` |
| | `LateStartsAtCompletions` | `StartsOnOccasion` |
| | `RecordedForGood` | `OutcomesFinal` |
| | `NothingLeaks` | `CapacityConserved` |
| | `RejectedWithCause` | `RejectedForCause` |
| | `LoopIsQueue` | `Spec => Queue!Spec`, the safety part of `ImplementsQueue` |
| | `StepsAreBounded` | `StepsRunOut`, and that the count begins at n (n + 3) for n pods |
| `PolicyRuntimeProofs` | `RunIsLoop` | `RunSpec => Spec`: a run with a real policy is one of the loop |
| | `ContractAlwaysKept` | `ContractKept` |
| | `NothingIdlesAway` | `NoTimeLost` |
| | `FinalRowSaysNothing` | `FinalRowIsBlind` |
| | `SamplesAreRight` | `SamplesMatchOutcomes` |
| | `NothingCutOff` | `WastedIsTheRest` |
| | `PercentilesAgree` | `SlaMatchesPercentiles` |
| `ClusterProofs` | `PolicyContract` | each of the ten policies returns a node with room if there is one, else None |
| | `ClusterTyped` | `TypeOK` |
| | `NobodyOverlooked` | `RejectedStaysUnfit` |
| | `ResultsAccounted` | `ResultsAccountFor` |
| | `RoundRobinIsFair` | `RoundRobinFair` |
| | `FgdIsGlobal` | `FgdRaisesScoreLeast` |
| | `PacksAndSpreads` | `PacksOrSpreads`, if whoever asks for devices asks for some cpu or GPU share |
| | `RejectionsScored` | `ScoreSeesRejections` |
| | `FiguresAgree` | `RowAddsUp` |
| | `StarvationShows` | `StarvedUsersShow` |
| `HTAFMProofs` | `NeverOverbooked` | `TypeOK` |
| | `NobodyOverlooked` | `UnscheduledStaysUnfit` |
| | `PlacementsAddUp` | `PlacementsAccountFor` |
| | `DeltaExact` | `DeltaIsExact` |
| | `GreedyBest` | `GreedyIsBest` |
| | `HierNeverDecreases` | `HierNeverFalls` |
| | `KeepsWholeDevices` | `WholeDevicesKept` |
| | `HierarchyHolds` | `HierarchyWellFormed` |
| `SweepTracesProofs` | `ClusterSuffices` | `SizedToTarget` |
| | `ScaledIsRunnable` | `Runnable` |
| | `OriginalsInTurn` | `OriginalsKeepTheirTurn` |
| `TypicalPodsProofs` | `ShapesNest` | `TypicalNested` |
| | `ShapesRanked` | `ShapesAreRanked` |
| `ScenarioMatrixProofs` | `EnginesRunUndisturbed` | `CompareSpec => CP!Spec /\ HP!Spec`: within either script, `Cluster` and `HTAFM` run as they do alone |
| | `RowsAreComparable` | `RowsComparable` |

They join up: `PolicyContract` and `ContractAlwaysKept` are what the loop
assumes of its policy, `RunIsLoop` carries all that is proved of the loop over
to a run with any policy, and `LoopIsQueue` says what such a run comes to.
`ScaledIsRunnable` is what the loop assumes of its trace, shown of what the
sweeps hand it: sorted events, each with an id of its own provided that the
recorded ids differ and none looks like that of a copy. `EnginesRunUndisturbed`
carries what is proved of static batches and of H-TAFM into the two scripts.

### The inductive invariant of the loop

None of the properties is inductive alone. What each conjunct of `IndInv` is
for:

* `ReleasesNumberedLast` (the counter starts at `len(events)` and only grows)
  with `ArrivalsInOrder` gives `ArrivalsFirst`: at equal times an arrival's
  number is smaller, so the heap yields it first.
* `Timely` (nothing in the heap lies in the past, nothing in the queue in the
  future) gives that `now` never runs back and waits are not negative.
* `QueueUnfit` extends `WorkConserving` into the drain: what has been kept so
  far fits nowhere. It survives because between two events, and in a drain,
  placing only consumes (`PlacingOnlyConsumes`), and the only step that gives
  resources back is followed by a look at *every* pending pod.
* `QueueInOrder`, `Accounted`, `PassedIsGone` give `NotPassedByLarger`. When
  `j` is placed, an earlier `i` that asks for no more cannot be waiting: if it
  has been looked at it fits nowhere, so neither does `j` (`RoomForLess`); and
  it has been looked at, because it is ahead in the queue. What remains is
  that `i` was placed, or had timed out by then, and then it is gone for good.
* `ReleasesMatchHoldings` is close to inductive; it needs that a pod in the
  queue or not yet arrived is on no node (`HeldIsAdmitted`).
* `DrainOccasion` is the missing half of `StartsOnOccasion`: a drain is under
  way only at a completion time.

`NextInv` has one case per action, each a lemma of its own
(`ArrivePlacedInv`, `ArriveQueuedInv`, `ReleasePodInv`, `DrainExpiredInv`,
`DrainPlacedInv`, `DrainKeptInv`, `DrainEndInv`). The facts all drain steps
share are `DrainKeepsArrivals` and `DrainKeepsCluster`.

### How long the loop runs

Handling an event pushes new ones, so the heap alone is no measure. `StepsLeft`
counts, for a trace of n pods, n + 3 for a pod not yet seen (its arrival and
what follows), n + 2 for one that waits or runs (its release, a look at each of
at most n waiting pods, the end of the pass), and what is left of the pass under
way. The mapping to the queue says which pod a step moves from which phase to
which (`PodMoves`), no pod waits twice (`QueueIsShort`), and so every step of
`Next` lowers the count (`NextFalls`). What the prover cannot say is that a step
is possible until the heap is empty, which is `ENABLED`; TLC checks that, and
the fairness, in `Termination`.

### Sums, quotients, orders

What the pods on a node ask for is a sum over a set, and `MapThenSumSet` of the
community modules computes it by recursion over an element chosen at each turn.
Induction is out of reach, because the library's induction theorems take an
operator. `Lemmas` does without: of the subsets of a finite set for which a
statement fails there would be a minimal one, as proper inclusion is well
founded there, and the statement follows for it from the smaller ones. In this
way it shows that the function the recursion defines exists, that a sum does
not depend on the order chosen (`TotalAdd`, `TotalRemove`) and that it grows
with its terms (`TotalLess`). From it follows what a node has left when a pod
comes (`TakeOneMore`) or goes (`TakeOneFewer`).

Products over a set (`ProductDivides`, for common denominators) and the
inequality of Cauchy and Schwarz (`CauchySchwarz`, for Jain's index) are shown
in the same way; `\div` and `%`, of which the solver knows little, by `Division`
and `DivisionIs`.

The provers cannot look into the `SortSeq` and `SelectSeq` of the standard
modules. `Ordering` therefore says of an element the place it sorts to: the
number of those before it. `InOrderIs` shows that this enumerates the set,
`SortedByIs` that sorting a list permutes it and keeps ties in their order.

### The accounts of the loop

`CapacityConserved` is inductive together with `IndInv`: a pod that is placed
is not on the node already (`HeldIsAdmitted`), one that is released is there
(`ReleasesMatchHoldings`), so that sums change by just its demand. When the heap
is empty nobody is on a node, hence `RejectedForCause`: nodes are what they were
at the start, and who still waits fits none of them by `WorkConserving`.

### The refinement

`RoomIsFeasible` is its core: the room the abstract queue counts afresh is
what the counters say. With it `ArriveQueued` maps to `Enqueue` and, by `PlaceStarts`,
both placements to `Start`: whoever waits ahead fits nowhere, so nobody is
passed who could use the room. `ReleasePod` maps to `Finish`,
`DrainExpired` to `Reject`; `DrainKept` and `DrainEnd` move pods between
two lists and change no phase (`Stutters`).

### Policies, cluster, H-TAFM

`PolicyContract` goes policy by policy. Where one takes a least score, the
point is that scores are comparable, so that some node with room has a least
one; for `round_robin`, that the search from the cursor comes past all nodes.
`SameChoice` carries it through the instance of `Policies` in `PolicyRuntime`.

`RoundRobinFair` speaks of what nodes have left now, and is inductive because
a node that had no room when it was skipped has none later (`PastIsPast`).
`CursorMovesOn` says what a turn does to the order in which the search comes
by the nodes: who had it comes last, and the others keep their order, so that a
node comes again only after all others with room.
`PacksAndSpreads` has an invariant of its own, `UseShows`: a node in use has less
cpu and GPU share left, taken together, than it would have idle. The scores of
best_fit and worst_fit are made of just these two, so that nodes of a kind
compare by score as they do by use. Devices are in neither score: a pod that asks
for devices and nothing else makes a node used that still scores as idle, and
best_fit may then open another. No pod of `data/` or of the committed exports is
like that, and the theorem has it as its hypothesis. For gpu_packing it is
utilizations that compare, as fractions that are not negative.

`FgdIsGlobal` writes the score of the cluster as a sum over nodes, of which a
placement changes one term.

In `HTAFMProofs` the difficulty is that `place` walks the devices in order of
what they have left. `RanksAreAll` and `PicksAsMany` show that the ranks by
which `Picked` orders the devices with room are 0, 1, .. without gap or
repetition, so that exactly as many are taken as the demand asks for, given
that `fits` counted enough; `PlaceTakesAll` then gives the sum.

`RowAddsUp` comes from `ResultsAccountFor`: what was taken from the counters
is a sum over nodes of sums over the pods on them, which is one over the pods
admitted (`TotalByClass`). For `StarvedUsersShow` rates are brought to a common
denominator and then it is a statement on natural numbers.

### Runs with a policy

What the figures say of a run needs its history, which the loop does not keep;
the invariants tie outcomes and clock together.

* `History`: who was admitted runs for as long as it asks for, on one node; who
  has left its node completed by now, and after the arrivals of that instant.
* `OneByOne`: what was admitted is done no later than if it had run one by one
  after the last submission. A pod placed in a drain starts as another
  completes, so each adds at most its duration to the makespan. This is
  `NoTimeLost`.
* `FitsIdle`: an admitted pod fits an idle node; with `RejectedForCause`, who is
  rejected without a time-out is who fits none, hence `FinalRowIsBlind`.
* `InTurn` says how many samples there are, `Matches` that each agrees with the
  outcomes. A sample taken stays right although later pods are admitted: they
  start after it or, at the same instant, in a drain, as others complete.
* `NoneOverused`: the device-time spent on a node is at most its devices times
  the time gone by, which holds as time passes since the pods on it hold no more
  than it has; at the end that is `WastedIsTheRest`.

`SlaMatchesPercentiles` is about one row: in a sorted list those over a
threshold are the last ones, and `int(n * q)` points at or behind the first of
them exactly if they are enough.

### The index of H-TAFM

`Built` keeps that the topology is what `from_nodes` makes of the nodes, so that
edges of one level are disjoint groups of vertices (`EdgeIsGroup`), and
`Within` that free vectors stay between zero and the capacity. A placement
changes the vector of one vertex; by `DeltaIsExact` the sum over all edges
changes as that over the edges at this vertex, for terms of any kind, and
`PlaceTakesAll` makes the hypothetical vector the real one. `GreedyIsBest`
follows for the exact variants; for TAFI-Entropy the theorem has the tolerance
the property has. `HierNeverFalls` shows each edge's term to grow as less is
free. `WholeDevicesKept` compares the devices `place` picks with any others: it
takes from a whole one only if it has taken all the others with room.

`HierarchyWellFormed` is about `from_nodes` alone: numbering vertices by
quotient and remainder (`Division`), dealing out GPUs by remainders, each
vertex's share of cpu a floor.

### Traces

`Loading` says where the loader is and what it has: up to the sort, event `k` is
that of row `k`; after it, the events are the rows' in the order of a stable
sort. `ClusterSuffices` compares a demand rounded pod by pod with a capacity
rounded up as a whole, for each of cpu, GPU units and devices. Rounding adds at
most half a unit to a pod, and nothing to a whole demand (`Rounds`), so a pod
asks for no more than its job and the `Excess` (`JobPodIs`); summed up, the pods
ask for no more than the jobs and the sum of these (`DemandOfEvents`), and the
ceilings cover the jobs (`NodesAdd`, `DemandBelow`). The `Excess` cannot be left
out: section 6 has the examples. `Scales` adds the list of
scaled events before its sort: the recorded events, then copies, the `k`-th
with number `k - 1`, none before its original. That the sort is stable then puts
no copy ahead of its original, even at equal times. An empty trace leaves an
empty list, or raises, and nothing else does: of `n > 0` events at least one and
at most `n` are kept (`KeptIs`, `RaisesOnNothing`). Two copies have different
numbers at the end of their ids, whatever stands before (`NumbersTell`).

### Two engines

`ScenarioMatrixProofs` instantiates the modules with the theorems: `CP` is
`ClusterProofs`, `HP` is `HTAFMProofs`, each with the nodes of the scripts and
with any batch. An instance has its own copies of all definitions, so it is
first shown that they are the same as those the scripts run: topology, scores,
choices, steps (`SameTopology` to `SameClusterSteps`). Then either script starts
both engines on input each of them accepts (`MatrixStarts`, `DemoStarts`): an
exported pod and its demand ask for the same (`ExportedJobs`), and so do the pod
and the demand that two loaders make of one raw row (`RawJobs`). A step is one of
one engine and leaves the variables of the other alone (`StepsApart`). That is
`EnginesRunUndisturbed`.

`RowsComparable` then follows from what the theorems about each engine say at
any time (`Engines`). For a node, the demands put on its vertices are those put
on each (`OnVertices`); a vertex had what was put on it (`VertexTakes`), and the
vertices of a node have together no more than the node (`NodeShares`), so the
node has it too (`NodeTakes`, `NodeFits`). Types agree because `fits` looks at
them and placements stay (`TypesFit`, an invariant of `HTAFM` for this purpose).
For the figures, what is not free of all devices is what the demands admitted ask
for (`UnallocatedIs`), what the counters of the nodes have lost is what the pods
admitted ask for (from `ResultsAccounted`), and term by term the two differ by
`Surplus`, which is negative for a pod with a share and no device. Such a pod
takes nothing from any vertex, so its share is left out of `PlacedFits`.

### Typical pods

`Chained` ties each shape built to its level. The levels grow, and so does a
quantile with its level (`QuantilesGrow`): it stands between two neighbours of
a sorted list, which grows. What needs care is the rounding, which is left open
where floats may fall to either side. If the quantile at a higher level is
larger, it may be cut to the integer below only from an integer, and the lower
one is less than that; if two quantiles are equal, both stand at a value or
between equal ones, and there floats are exact (`CutsGrow`).

`Stratified` counts: the strata so far have taken as many pods as `array_split`
gives them, none larger than one that is left. A pod of the next stratum then
has all those taken, and itself, at or below its magnitude, and below it at most
the others of its stratum and those taken (`OneStratum`). Nothing is used of the
medoid but that it is of its stratum.

TLC has checked `Loading`, `Scales`, `Chained`, `Stratified`, `UseShows`,
`TypesFit` and the invariants of runs with a policy too, on the instances of
section 4 (`Chained` and `Stratified` with up to 4 pods).

### Only model-checked

* `Termination` and the fairness part of `ImplementsQueue`: liveness under
  fairness is beyond the prover. Of the first, that no run has more than
  n (n + 3) steps is proved (`StepsAreBounded`).
* the properties of the runs that end in a violation, which do not hold.

## 6. Where code and documentation disagree

Four runs end in a violation.

* `event_fcfs`: the module docstring says the queue is drained FCFS until the
  front pod does not fit; the code goes on past it.
* `cluster_balanced`: the docstring of `w_fgd_balanced` says it leaves more
  nodes empty; the term it adds prefers the emptiest node.
* `htafm_cut`: `docs/HTAFM.md` says TAFI-Cut never decreases; it does when the
  aggregate gets too small for the pending demand.
* `scenario_matrix_large`: `_to_topo_demand` copies a pod's `milli_gpu`, which
  is for all its devices, into a demand's, which is for each of them. A pod of
  two or more whole GPUs then fits no vertex at all, where `docs/HTAFM.md`
  says that such jobs are fine. The committed results in
  `experiments/runs/2026-09-12_fgd_vs_wfgd_htafm` agree: in none of the 14
  scenarios does H-TAFM admit more pods than ask for at most one GPU
  (baseline: 219 of 300, the other 81 being larger). This one is a mistake of
  the code: the comparison of the two engines in that table is affected.

Further disagreements, met while modelling and visible in the definitions, but
without a run of their own:

* `fragmentation.py:139-141` leaves nodes without GPUs out of the mean and
  counts empty ones as 0; lines 144-145, `ClusterFragmentation`, average over
  all, so that an idle cluster with a node without GPUs scores above 0.
* `resource.py:23-25` says `gpu_number=1, milli_gpu=250` is a quarter of a
  device; lines 38 and 79, `FitsIn` and `Take`, count the device as taken, and
  a second quarter does not fit beside the first.
* `broader_metrics.py:21-22` defines wasted GPU-hours as the rest of those
  available. `WastedIsTheRest` holds with the condition `WholeDevices` only:
  a pod with half a device's units and `gpu_number` 1 and one with the other
  half and `gpu_number` 0 count as one and a half devices (line 85), and
  line 131 reports 0.
* `broader_metrics.py:16-20` says that starving users shows in Jain's index.
  Over admission rates it does (`StarvedUsersShow`); over mean waits, users of
  whom nothing was admitted are not among its values (104-108). The index also
  is said to lie above 1/n, and is 1/n when one of n users has everything.
* `broader_metrics.py:24-27` says that packing efficiency tells "badly packed"
  from "nothing wants to run"; it is 1 for every policy, or 0 if nothing is
  allocated (`RowAddsUp`), as both parts of the quotient count the same pods.
* `data/ORIGINAL_DATA_README.md:46` says a pod with `V100M16|V100M32` can run on
  either; `resource.py:42` and `topology.py:91` compare the whole text with one
  type, and such a pod runs on no node that has one.
* `htafm_demo.py:6-7, 115` calls unallocated GPUs a common ground metric. Raw
  rows have `gpu_milli` per device (44 pods of the default trace ask for 8 GPUs
  with 1000). H-TAFM takes it from each; `load_real_trace_pods` (107) hands it
  to `Cluster`, where it stands for all. `RowsComparable` holds up to just this
  difference. `demo.py:39-40` makes up pods in the same way.
* `README.md:168-169` has the cluster made up from aggregate demand at a target
  utilization; its pods may ask for more. `SizedToTarget` holds only with its
  `Excess`. Each pod is rounded on its own (`gputrace_bridge.py:102-107`): at
  target 1, three jobs of 2 2/3 cpus get a node of 8000 milli-cpu and ask for
  3 * 2667 = 8001, and four jobs of 3/4 GPU, with nodes of one GPU, get three
  GPUs and ask for four devices. And a
  negative `num_gpu` is clamped at 0 for the pod (101) but deducted from the sum
  (120), so that it takes room from the other jobs.
* `experiment.py:47` scales any event list; an empty one stays empty from factor
  1 on, and below makes `rng.choice` (61) raise (`SubsampleRaises`).
* A job of at most half a GPU becomes a pod with a share and `gpu_number` 0
  (`gputrace_bridge.py:102-107`). `Cluster` takes the share; `TopoVertex.place`
  walks `gpu_number` devices (`topology.py:120-126`) and takes nothing, so that
  in `full_scenario_matrix.py` H-TAFM can admit any number of such pods as far as
  cpu and memory reach. `RowsComparable` says so by counting none for no device.
* `experiment.py:50-52` keeps copies within the gap to the next event; the
  jitter (72, `Duplicate`) is up to one second whatever the gap.
* `fragmentation.py:65-67` says a shape weighs what share of the workload is
  closest to it; strata (97, `StratumSize`) have equal counts, whatever they
  hold.

`FinalRowIsBlind` holds, and is worth knowing about: the sweep's
`final_fragmentation_score`, `final_gpu_utilization` and, without a time-out,
`rejection_rate` come out the same for every policy and every arrival pattern.
`broader_metrics.py:112-120` notes it of the utilization. It follows that a
rejection rate that differs between arrival patterns (`README.md:53-54`) can
only come from runs with `max_queue_time` set.

## 7. Not modelled, and why

* **Parsing of files**: rows are records of numbers and types; what a malformed
  cell raises is left out.
* **`demo.py`, `trace_demo.py`, `simulation_demo.py`, `full_pipeline_example.py`,
  loops over scenarios, CSV rows and command lines**: drivers without state of
  their own. `simulation_demo.py` imports modules the repository does not have.
* **H-TAFM with other thresholds or level weights**: every caller leaves the
  defaults.
* **Missing demands in a job table** (NaN), and negative cpus, of which the code
  would make pods that give a node more than it has.
* **Duplicate pod ids in the loop**: positions in the trace are ids in
  `EventRuntime`. `Runnable` shows that scaling makes no two equal unless one
  comes with the trace; that no recorded id comes twice, or ends like a copy's,
  is left to whoever made the trace.
* **Floating point**: exact integers and fractions, with ties left open.

## 8. Plan

Done: the modules above, with runs; the proofs of section 5. Every safety
property a passing run checks is stated by a theorem; with TLC remains
liveness. Should the code come to read alternatives of GPU types as such, or
`_to_topo_demand` to divide by the devices, `FitsIn` and `ToTopoDemand` are the
places to follow it, and `LargeJobsAreFine` is already stated for the latter.
