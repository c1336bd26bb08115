--------------------------- MODULE ScenarioMatrix ---------------------------
(***************************************************************************)
(* experiments/full_scenario_matrix.py: both placement engines on the same *)
(* nodes and pods, side by side in one table.  A batch of pods first goes  *)
(* through Cluster under a policy, then, turned into demands, through the  *)
(* H-TAFM scheduler on a topology made of the same nodes.  This module has *)
(* the two conversions between them and what the table reports of each.    *)
(*                                                                         *)
(* A run here is one policy and one variant; the script repeats that on    *)
(* fresh copies of the nodes.  Names Name_Bug: see EventRuntime.           *)
(***************************************************************************)
EXTENDS Resources, Sequences

CONSTANTS
  NodesMaster,   \* the nodes of the scenario, nodes.csv
  PodLists,      \* the pod lists considered, pods.csv
  Names,         \* the policies considered
  Typicals,      \* the typical pods and weights they may be given
  Shares, Ln, Tolerance,   \* see HTAFM
  None                     \* Python's None

\* A pod may ask for a GPU share and no device, as jobs of half a GPU or less do once
\* gputrace_bridge.py:107 has rounded their number.
ASSUME MatrixAssumption ==
  /\ NodesMaster \in Seq(NodeResource) /\ NodesMaster # <<>>
  /\ PodLists \subseteq Seq(PodResource)
  /\ \A n \in DOMAIN NodesMaster :
       MilliGpuCapacity(NodesMaster[n]) = NodesMaster[n].gpu_count * MILLI

VARIABLES
  pods, policy, typical, remaining, round_robin_state, results,  \* of Cluster
  nodes, topology, cfg, demands, left, placement                 \* of HTAFM

clusterVars == <<pods, policy, typical, remaining, round_robin_state, results>>
htafmVars == <<nodes, topology, cfg, demands, left, placement>>
matrixVars == <<clusterVars, htafmVars>>

-----------------------------------------------------------------------------
(* The conversions.                                                        *)

MEM_PER_MILLI_CPU == 8

\* The pod's milli_gpu is for all its devices, the demand's for each of them.
ToTopoDemand(pod) ==
  [milli_cpu |-> pod.milli_cpu,
   memory_mib |-> pod.milli_cpu * MEM_PER_MILLI_CPU,
   milli_gpu |-> pod.milli_gpu,
   gpu_number |-> pod.gpu_number,
   gpu_type |-> pod.gpu_type]

TopoDemands(list) == [i \in DOMAIN list |-> ToTopoDemand(list[i])]

\* No memory is known of a node: _memory_capacity_of takes 8 MiB per milli-cpu.
ToTopoNode(node) ==
  [milli_cpu_capacity |-> node.milli_cpu_capacity,
   memory_mib_capacity |-> node.milli_cpu_capacity * 8,
   milli_gpu_left_list |-> [g \in 1 .. node.gpu_count |-> MILLI],
   gpu_types |-> {node.gpu_type} \ {AnyType}]

TopoNodes == [n \in DOMAIN NodesMaster |-> ToTopoNode(NodesMaster[n])]

\* from_nodes is called without a fan-out.
DefaultFanout == [numa_per_socket |-> 1, sockets_per_node |-> 2, nodes_per_rack |-> 40]

Pending(variant, list) ==
  IF variant = "cut" THEN SubSeq(TopoDemands(list), 1, Min({5, Len(list)})) ELSE <<>>

-----------------------------------------------------------------------------
(* The two engines, and the script's use of them.                          *)

C == INSTANCE Cluster WITH NodeList <- NodesMaster, Batches <- PodLists
H == INSTANCE HTAFM WITH
       NodeLists <- {TopoNodes},
       Fanouts <- {DefaultFanout},
       Batches <- {TopoDemands(list) : list \in PodLists},
       Pendings <- {<<>>} \cup {Pending("cut", list) : list \in PodLists},
       Variants <- {"cut", "entropy", "hier"}

\* Only these are given weights.
WEIGHT_AWARE_POLICIES == {"w_fgd", "w_fgd_balanced"}

\* What the engines assume of their arguments (see Cluster and HTAFM).
ASSUME EnginesAssumption ==
  /\ Names \subseteq C!POLICIES
  /\ \A t \in Typicals :
       /\ t \in C!Typical
       /\ t.weights = <<>> \/ Len(t.weights) = Len(t.pods)
  /\ Shares \in Nat \ {0} /\ Ln \in Seq(Nat) /\ Tolerance \in Nat
  /\ None \notin Nat
  /\ H!LnReaches(TopoNodes, DefaultFanout)

MatrixInit ==
  /\ C!Init
  /\ policy \in WEIGHT_AWARE_POLICIES <=> typical.weights # <<>>
  /\ nodes = TopoNodes
  /\ topology = H!FromNodes(nodes, DefaultFanout)
  /\ cfg \in {[variant |-> v, pending_demands |-> Pending(v, pods)] : v \in H!VARIANTS}
  /\ demands = TopoDemands(pods)
  /\ left = [v \in DOMAIN topology.vertices |-> H!Untouched(topology.vertices[v])]
  /\ placement = <<>>

RunNodePolicy == C!Next /\ UNCHANGED htafmVars

RunHtafmVariant ==
  /\ Len(results) = Len(pods)
  /\ H!Next
  /\ UNCHANGED clusterVars

MatrixNext == RunNodePolicy \/ RunHtafmVariant

MatrixSpec == MatrixInit /\ [][MatrixNext]_matrixVars

-----------------------------------------------------------------------------
(* What the rows report; GPUs in milli-units.                              *)

NodeAdmitted == {i \in DOMAIN results : results[i] # None}
HtafmAdmitted == {i \in DOMAIN placement : placement[i] # None}

\* gpu_utilization times the capacity: total_gpu_utilization ..
NodeGpuUsed ==
  MapThenSumSet(LAMBDA n : MilliGpuCapacity(NodesMaster[n]) - remaining[n].milli_gpu,
                DOMAIN NodesMaster)

\* .. and (total_gpus - unallocated) / total_gpus.
HtafmGpuUsed ==
  MapThenSumSet(LAMBDA n : NodesMaster[n].gpu_count * MILLI, DOMAIN NodesMaster)
  - H!UnallocatedGpus

-----------------------------------------------------------------------------
(* Properties.                                                             *)

\* What H-TAFM has put on the vertices of a node the node itself has the cpu,
\* the GPU share and the type for, by the rules of the other engine.  Devices
\* are left out: H-TAFM shares them, a node does not.  So are the shares of pods
\* that ask for no device: H-TAFM finds none to take them from.
PlacedFits(n) ==
  LET mine == {i \in HtafmAdmitted : topology.vertices[placement[i]].server = n}
      withDevices == {i \in mine : pods[i].gpu_number > 0}
  IN  /\ TakeAll(Empty(NodesMaster[n]), pods, mine).milli_cpu >= 0
      /\ TakeAll(Empty(NodesMaster[n]), pods, withDevices).milli_gpu >= 0
      /\ \A i \in mine : TypesAgree(pods[i], NodesMaster[n])

\* By how much the milli_gpu that H-TAFM takes, of each device, exceeds that which
\* Cluster takes, once; negative if no device is asked for.
Surplus(d) == (d.gpu_number - 1) * d.milli_gpu

\* The rows of the two engines can be compared up to the number of devices,
\* although each counts in units of its own on a cluster converted from that
\* of the other, or loaded apart.  H-TAFM admits nothing to a node that the
\* node has no room for in sum (the converse does not hold: a node knows no
\* memory and none of its vertices); and where both have admitted the same pods
\* the one row reports, from what is left of every device, as much GPU used as
\* the other from the counters of the nodes, but for what the number of devices
\* makes of a pod's milli_gpu: H-TAFM takes it for each device, so for none of
\* no devices, Cluster once (full_scenario_matrix.py:66-81, 104, 120-126,
\* htafm_demo.py:35, 67, 82, trace.py:107, resource.py:35-44, topology.py:95,
\* 121-128).
RowsComparable ==
  /\ \A n \in DOMAIN NodesMaster : PlacedFits(n)
  /\ Len(placement) = Len(pods) /\ NodeAdmitted = HtafmAdmitted =>
       HtafmGpuUsed - NodeGpuUsed
         = MapThenSumSet(LAMBDA i : Surplus(demands[i]), HtafmAdmitted)

\* An idle vertex with the cpu, the type and as many devices.
Roomy(v, pod) ==
  /\ left[v] = H!Untouched(topology.vertices[v])
  /\ pod.milli_cpu <= left[v].milli_cpu
  /\ pod.gpu_type \in {AnyType} \cup topology.vertices[v].gpu_types
  /\ pod.gpu_number <= Len(left[v].gpus)

\* Documented, and not so in this script: `a 4-GPU job on an 8-GPU node that
\* got split into 2 vertices of 4 GPUs each is fine' (docs/HTAFM.md:138-141).
\* A pod is left unscheduled only if no idle vertex has as many devices.
LargeJobsAreFine ==
  \A i \in DOMAIN placement : placement[i] = None =>
    \A v \in DOMAIN left : ~Roomy(v, pods[i])
=============================================================================
