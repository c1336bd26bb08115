------------------------------ MODULE HtafmDemo ------------------------------
(***************************************************************************)
(* htafm_demo.py: the other script that compares the two engines, on the   *)
(* raw trace.  Each engine has loaders of its own for the same files: the  *)
(* nodes become NodeResources for one and, with their memory, a topology   *)
(* for the other; the first rows of the pod list become pods and demands.  *)
(* From there on the engines run as in ScenarioMatrix, whose variables and *)
(* actions this module uses.                                               *)
(***************************************************************************)
EXTENDS ScenarioMatrix, TraceLoaders

CONSTANTS
  NodeTable,   \* openb_node_list_all_node.csv
  PodTables,   \* what openb_pod_list_default.csv may hold
  Limit        \* n_demands

\* No pod of the default list asks for a type.
ASSUME HtafmDemoAssumption ==
  /\ NodeTable \in Seq(RawNode) /\ PodTables \subseteq Seq(RawPod)
  /\ \A table \in PodTables : \A k \in DOMAIN table : table[k].gpu_spec = AnyType
  /\ NodesMaster = LoadRealTraceNodes(NodeTable)
  /\ Limit \in Nat

\* A random subset, as trace_demo.py takes it.
PodsOf_Sampled(table) == {LoadRealTracePods(rows) : rows \in ReadRows(table, Limit, TRUE)}

\* The same prefix as for the demands.
PodsOf(table) == {LoadRealTracePods(rows) : rows \in ReadRows(table, Limit, FALSE)}

DemandsOf(table) == LoadDemands(SubSeq(table, 1, Min({Limit, Len(table)})))

\* The first five demands, without a type.
DemoPending(variant, list) ==
  IF variant # "cut" THEN <<>>
  ELSE [k \in 1 .. Min({5, Len(list)}) |-> [list[k] EXCEPT !.gpu_type = AnyType]]

DemoInit ==
  \E table \in PodTables :
    /\ pods \in PodsOf(table)
    /\ policy \in {"random", "best_fit", "fgd"}
    /\ typical \in Typicals /\ typical.weights = <<>>
    /\ remaining = [n \in DOMAIN NodesMaster |-> Empty(ResetCluster(NodesMaster)[n])]
    /\ round_robin_state = 0
    /\ results = <<>>
    /\ nodes = LoadTopologyNodes(NodeTable)
    /\ topology = H!FromNodes(nodes, DefaultFanout)
    /\ demands = DemandsOf(table)
    /\ cfg \in {[variant |-> v, pending_demands |-> DemoPending(v, demands)] : v \in H!VARIANTS}
    /\ left = [v \in DOMAIN topology.vertices |-> H!Untouched(topology.vertices[v])]
    /\ placement = <<>>

\* Either script.
CompareSpec == (MatrixInit \/ DemoInit) /\ [][MatrixNext]_matrixVars
=============================================================================
