--------------------------- MODULE GputraceBridge ---------------------------
(***************************************************************************)
(* k8s_sim/gputrace_bridge.py: its two loaders return the events of a      *)
(* trace and a cluster.  load_gputrace_dataframe turns a table of jobs     *)
(* into events and makes up a cluster for them, large enough for the jobs' *)
(* total demand at a target utilization; load_gputrace_export reads both   *)
(* from a pair of files.                                                   *)
(*                                                                         *)
(* Jobs may ask for parts of a GPU or of a cpu: these demands are counted  *)
(* in parts of which Unit make a whole, and are exact where the code has   *)
(* floats.  The type of every node is drawn from the types that jobs with  *)
(* GPUs ask for.  Names Name_Bug: see EventRuntime.                        *)
(***************************************************************************)
EXTENDS TraceLoaders, Ordering

CONSTANTS
  Unit,             \* parts in a whole GPU or cpu
  Tables,           \* the tables considered: sequences of jobs
  GpusPerNode,      \* gpus_per_node
  Targets,          \* target_utilization, as <<numerator, denominator>>
  NodeCounts,       \* n_nodes; 0 leaves the number to the function
  PodFiles,         \* the files pods.csv considered, as sequences of rows
  NodeFile          \* the file nodes.csv

\* A pod id; copies made of a pod have the number of the copy added to it.
PodId == [name : STRING, dups : Seq(Nat)]

\* gpu_milli is what a job asks of each device, if given.  A job_id becomes
\* a pod_id.  Nothing makes ids unique.
Job == [pod_id : PodId, num_cpu : Nat, num_gpu : Int, gpu_milli : (0 .. MILLI) \cup {EMPTY},
        gpu_type : STRING, submit_time : Nat, duration : Nat]
PodRow == [pod_id : PodId, milli_cpu : Nat, milli_gpu : Nat \cup {EMPTY},
           gpu_number : Nat \cup {EMPTY}, gpu_type : STRING, submit_time : Nat, duration : Nat]

ASSUME GputraceBridgeAssumption ==
  /\ Unit \in Nat \ {0}
  /\ Tables \subseteq Seq(Job)
  /\ GpusPerNode \in Nat \ {0}
  /\ Targets \subseteq (Nat \ {0}) \X (Nat \ {0})
  /\ NodeCounts \subseteq Nat
  /\ PodFiles \subseteq Seq(PodRow) /\ LoadNodesCsv(NodeFile) \in Seq(NodeResource)

VARIABLES
  df, target, wanted,   \* the arguments, df also the file; never change
  events,               \* the list of events
  cpu_per_node,         \* in cpus; 0 before the cluster is sized
  n_nodes,              \* the number of nodes; 0 before
  nodes,                \* the nodes made so far
  pc                    \* "convert", "sort", "size" or "assign"; "read"

arguments == <<df, target, wanted>>
vars == <<arguments, events, cpu_per_node, n_nodes, nodes, pc>>

InitDataframe ==
  /\ df \in Tables /\ target \in Targets /\ wanted \in NodeCounts
  /\ events = <<>>
  /\ cpu_per_node = 0 /\ n_nodes = 0
  /\ nodes = <<>>
  /\ pc = "convert"

\* The nodes are read first; there is no target.
InitExport ==
  /\ df \in PodFiles /\ target = <<1, 1>> /\ wanted = Len(NodeFile)
  /\ events = <<>>
  /\ cpu_per_node = 0 /\ n_nodes = Len(NodeFile)
  /\ nodes = LoadNodesCsv(NodeFile)
  /\ pc = "read"

Init == InitDataframe \/ InitExport

-----------------------------------------------------------------------------
(* Jobs to events.                                                         *)

\* Python's round(n / d): halves go to the even neighbour.
Round(n, d) ==
  LET q == n \div d
      r == 2 * (n % d)
  IN  IF r > d \/ (r = d /\ q % 2 = 1) THEN q + 1 ELSE q

GpuMilliPerDevice(job) == IF job.gpu_milli = EMPTY THEN MILLI ELSE job.gpu_milli

\* A pod asks for no less than none.
NumGpu(job) == Max({job.num_gpu, 0})

PodOf(job) ==
  [milli_cpu |-> Round(job.num_cpu * 1000, Unit),
   milli_gpu |-> Round(NumGpu(job) * GpuMilliPerDevice(job), Unit),
   gpu_number |-> Round(NumGpu(job), Unit),
   gpu_type |-> job.gpu_type]

\* Every event remembers its job or row.
EventOf(k, pod) ==
  [job |-> k, pod_id |-> df[k].pod_id, pod |-> pod,
   submit_time |-> df[k].submit_time, duration |-> df[k].duration]

Convert ==
  /\ pc = "convert" /\ Len(events) < Len(df)
  /\ LET k == Len(events) + 1 IN events' = Append(events, EventOf(k, PodOf(df[k])))
  /\ UNCHANGED <<arguments, cpu_per_node, n_nodes, nodes, pc>>

ConvertEnd ==
  /\ pc = "convert" /\ Len(events) = Len(df)
  /\ pc' = "sort"
  /\ UNCHANGED <<arguments, events, cpu_per_node, n_nodes, nodes>>

\* list.sort, which is stable.
ByTime == SortedBy(events, [k \in DOMAIN events |-> events[k].submit_time])

SortEvents ==
  /\ pc = "sort"
  /\ events' = ByTime
  /\ pc' = "size"
  /\ UNCHANGED <<arguments, cpu_per_node, n_nodes, nodes>>

\* load_gputrace_export
ReadRow ==
  /\ pc = "read" /\ Len(events) < Len(df)
  /\ LET k == Len(events) + 1 IN events' = Append(events, EventOf(k, LoadPodsCsv(df)[k]))
  /\ UNCHANGED <<arguments, cpu_per_node, n_nodes, nodes, pc>>

ReadEnd ==
  /\ pc = "read" /\ Len(events) = Len(df)
  /\ events' = ByTime
  /\ pc' = "assign"
  /\ UNCHANGED <<arguments, cpu_per_node, n_nodes, nodes>>

-----------------------------------------------------------------------------
(* The cluster.                                                            *)

CeilDiv_Floor(n, d) == n \div d
CeilDiv(n, d) == (n + d - 1) \div d

\* Of the demands as they are: negative ones are deducted.
TotalGpu == MapThenSumSet(LAMBDA k : df[k].num_gpu, DOMAIN df)
TotalCpu == MapThenSumSet(LAMBDA k : df[k].num_cpu, DOMAIN df)

\* At least one node, whose GPUs the capacity is never less than.
NodesSized ==
  Max({1, CeilDiv(TotalGpu * target[2], Unit * target[1] * GpusPerNode)})

CpuSized(count) ==
  Max({4, CeilDiv(TotalCpu * target[2], Unit * target[1] * count)})

SizeCluster ==
  LET count == IF wanted # 0 THEN wanted ELSE NodesSized
  IN  /\ pc = "size"
      /\ n_nodes' = count
      /\ cpu_per_node' = CpuSized(count)
      /\ pc' = "assign"
      /\ UNCHANGED <<arguments, events, nodes>>

Types ==
  LET asked == {df[k].gpu_type : k \in {j \in DOMAIN df : df[j].num_gpu > 0}}
  IN  IF asked = {} THEN {"A100"} ELSE asked

AssignType ==
  /\ pc = "assign" /\ Len(nodes) < n_nodes
  /\ \E type \in Types :
       nodes' = Append(nodes, [milli_cpu_capacity |-> cpu_per_node * 1000,
                               milli_gpu_capacity |-> GpusPerNode * MILLI,
                               gpu_count |-> GpusPerNode, gpu_type |-> type])
  /\ UNCHANGED <<arguments, events, cpu_per_node, n_nodes, pc>>

Next ==
  \/ Convert \/ ConvertEnd \/ SortEvents \/ SizeCluster \/ AssignType
  \/ ReadRow \/ ReadEnd

Spec == Init /\ [][Next]_vars

-----------------------------------------------------------------------------
(* Properties.                                                             *)

Loaded == pc = "assign" /\ Len(nodes) = n_nodes

Sum(list, r) == MapThenSumSet(LAMBDA k : list[k][r], DOMAIN list)

CapacityFor == [milli_cpu |-> "milli_cpu_capacity", milli_gpu |-> "milli_gpu_capacity",
                gpu_number |-> "gpu_count"]

\* Half of one, if n / Unit is not whole, counted in parts of 1 / (2 * Unit).
HalfIfRounded(n) == IF n % Unit = 0 THEN 0 ELSE Unit

\* By how much a pod may exceed its job, in these parts: by what rounding adds,
\* and by all of a negative demand.
Excess(job) ==
  LET deducted == NumGpu(job) - job.num_gpu
  IN  [milli_cpu |-> HalfIfRounded(job.num_cpu * 1000),
       milli_gpu |-> HalfIfRounded(NumGpu(job) * GpuMilliPerDevice(job)) + 2 * MILLI * deducted,
       gpu_number |-> HalfIfRounded(NumGpu(job)) + 2 * deducted]

\* A cluster made up without being given a size holds at the target what the
\* pods, all running at once, ask for, in cpu, GPU units and devices, except for
\* half a unit of each pod whose demand is rounded, and for negative demands,
\* which no pod has but the sum deducts.  Each pod is rounded on its own, the
\* cluster in whole nodes and cpus: only where all jobs ask for whole units do
\* all pods fit below the target (gputrace_bridge.py:101-107, 120-125;
\* README.md:168-169).
SizedToTarget ==
  Loaded /\ wanted = 0 /\ cpu_per_node > 0 =>
    LET asked == [k \in DOMAIN events |-> events[k].pod]
        excess == [k \in DOMAIN df |-> Excess(df[k])]
    IN  \A r \in DOMAIN CapacityFor :
          (2 * Unit * Sum(asked, r) - Sum(excess, r)) * target[2]
            <= 2 * Unit * Sum(nodes, CapacityFor[r]) * target[1]
=============================================================================
