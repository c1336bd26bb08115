------------------------ MODULE ScenarioMatrixProofs ------------------------
(***************************************************************************)
(* Proofs about ScenarioMatrix and HtafmDemo, for every cluster, list of   *)
(* pods, policy and variant.  First that neither engine notices the other: *)
(* CP and HP are the modules with the theorems about each, and a run of    *)
(* either script is a run of both.  Their theorems then hold within the    *)
(* scripts, and the rows the two engines fill can be compared.             *)
(***************************************************************************)
EXTENDS HtafmDemo, Lemmas

\* The engines again, as the modules that hold their theorems have them: with
\* any batch, policy and pending demands there may be.
CP == INSTANCE ClusterProofs WITH
        NodeList <- NodesMaster,
        Batches <- Seq(PodResource),
        Names <- C!POLICIES,
        UserOf <- [k \in Nat |-> 0],
        ReportTypical <- <<>>

HP == INSTANCE HTAFMProofs WITH
        NodeLists <- {TopoNodes, LoadTopologyNodes(NodeTable)},
        Fanouts <- {DefaultFanout},
        Batches <- Seq(H!TopoDemand),
        Pendings <- Seq(H!TopoDemand),
        Variants <- {"cut", "entropy", "hier"}

\* The nodes either script builds a topology of are such as HTAFM takes.
LEMMA NodesAreLegal ==
  /\ TopoNodes \in Seq(HP!TraceNode) /\ LoadTopologyNodes(NodeTable) \in Seq(HP!TraceNode)
  /\ Len(TopoNodes) = Len(NodesMaster) /\ Len(LoadTopologyNodes(NodeTable)) = Len(NodesMaster)
<1>1. \A k \in Nat : [g \in 1 .. k |-> MILLI] \in Seq(0 .. HP!MILLI)
  <2>1. MILLI \in 0 .. HP!MILLI
    BY DEF MILLI, HP!MILLI
  <2> QED
    BY <2>1
<1>2. NodesMaster \in Seq(NodeResource) /\ NodeTable \in Seq(RawNode) /\ Len(NodesMaster) = Len(NodeTable)
  BY MatrixAssumption, HtafmDemoAssumption DEF LoadRealTraceNodes
<1>3. \A n \in DOMAIN NodesMaster : ToTopoNode(NodesMaster[n]) \in HP!TraceNode
  <2>1. \A n \in DOMAIN NodesMaster : NodesMaster[n] \in NodeResource
    BY <1>2
  <2> QED
    BY <1>1, <2>1 DEF ToTopoNode, HP!TraceNode, NodeResource
<1>4. TopoNodes \in Seq(HP!TraceNode) /\ Len(TopoNodes) = Len(NodesMaster)
  BY <1>2, <1>3 DEF TopoNodes
<1>5. \A n \in DOMAIN NodeTable :
        [milli_cpu_capacity |-> NodeTable[n].cpu_milli,
         memory_mib_capacity |-> NodeTable[n].memory_mib,
         milli_gpu_left_list |-> [g \in 1 .. NodeTable[n].gpu |-> MILLI],
         gpu_types |-> {NodeTable[n].model} \ {AnyType}] \in HP!TraceNode
  <2>1. \A n \in DOMAIN NodeTable : NodeTable[n] \in RawNode
    BY <1>2
  <2> QED
    BY <1>1, <2>1 DEF HP!TraceNode, RawNode
<1>6. LoadTopologyNodes(NodeTable) \in Seq(HP!TraceNode)
      /\ Len(LoadTopologyNodes(NodeTable)) = Len(NodesMaster)
  BY <1>2, <1>5 DEF LoadTopologyNodes
<1> QED
  BY <1>4, <1>6

\* Both engines' assumptions are met: those of HTAFM ..
LEMMA HtafmArguments == HP!HTAFMArguments /\ HP!LogarithmsReach
<1>1. DefaultFanout \in HP!Fanout
  BY DEF DefaultFanout, HP!Fanout
<1>2. H!TopoDemand = HP!TopoDemand
  BY DEF H!TopoDemand, HP!TopoDemand
<1>3. HP!HTAFMArguments
  BY <1>1, <1>2, NodesAreLegal, EnginesAssumption DEF HP!HTAFMArguments, HP!VARIANTS
<1>4. HP!LnReaches(TopoNodes, DefaultFanout)
  BY EnginesAssumption DEF H!LnReaches, HP!LnReaches, H!NumaPerNode, HP!NumaPerNode
<1>5. HP!LnReaches(LoadTopologyNodes(NodeTable), DefaultFanout)
  BY <1>4, NodesAreLegal DEF HP!LnReaches
<1> QED
  BY <1>3, <1>4, <1>5 DEF HP!LogarithmsReach

\* The two instances build one topology.
LEMMA SameTopology ==
  ASSUME NEW list, NEW fan
  PROVE  /\ H!FromNodes(list, fan) = HP!FromNodes(list, fan)
         /\ \A vertex : H!Untouched(vertex) = HP!Untouched(vertex)
         /\ H!NumaPerNode(fan) = HP!NumaPerNode(fan)
<1>1. H!NumaPerNode(fan) = HP!NumaPerNode(fan)
  BY DEF H!NumaPerNode, HP!NumaPerNode
<1>2. \A gpus, x, hands : H!Dealt(gpus, x, hands) = HP!Dealt(gpus, x, hands)
  BY DEF H!Dealt, HP!Dealt
<1>3. \A v, node : H!RackOf(v, node, fan) = HP!RackOf(v, node, fan)
  BY DEF H!RackOf, HP!RackOf
<1>4. \A v : H!Vertex(list, fan, v) = HP!Vertex(list, fan, v)
  BY <1>1, <1>2, <1>3 DEF H!Vertex, HP!Vertex
<1>5. \A level, key : H!EdgesOf(level, key) = HP!EdgesOf(level, key)
  <2>1. \A S : H!Cardinality(S) = HP!Cardinality(S)
    BY DEF H!Cardinality, HP!Cardinality
  <2> QED
    BY <2>1 DEF H!EdgesOf, HP!EdgesOf, H!LevelWeight, HP!LevelWeight
<1>6. H!FromNodes(list, fan) = HP!FromNodes(list, fan)
  <2> DEFINE vertices == [v \in 1 .. Len(list) * HP!NumaPerNode(fan) |-> HP!Vertex(list, fan, v)]
             socket == [v \in DOMAIN vertices |-> vertices[v].socket]
             server == [v \in DOMAIN vertices |-> vertices[v].server]
             rack == [v \in DOMAIN vertices |-> vertices[v].rack]
  <2>1. [v \in 1 .. Len(list) * H!NumaPerNode(fan) |-> H!Vertex(list, fan, v)] = vertices
    BY <1>1, <1>4
  <2>2. H!FromNodes(list, fan) =
          [vertices |-> vertices,
           edges |-> H!EdgesOf("socket", socket) \cup H!EdgesOf("server", server)
                     \cup H!EdgesOf("rack", rack)]
    BY <2>1, Zenon DEF H!FromNodes
  <2>3. HP!FromNodes(list, fan) =
          [vertices |-> vertices,
           edges |-> HP!EdgesOf("socket", socket) \cup HP!EdgesOf("server", server)
                     \cup HP!EdgesOf("rack", rack)]
    BY DEF HP!FromNodes
  <2> HIDE DEF socket, server, rack, vertices
  <2> QED
    BY <2>2, <2>3, <1>5
<1> QED
  BY <1>1, <1>6 DEF H!Untouched, HP!Untouched
\* They see the same of a vertex.
LEMMA SameVertices ==
  /\ \A l : H!FreeVector(l) = HP!FreeVector(l)
  /\ \A vertex : H!CapacityVector(vertex) = HP!CapacityVector(vertex)
  /\ \A d : H!TotalMilliGpu(d) = HP!TotalMilliGpu(d)
  /\ \A vertex, l, d : H!Fits(vertex, l, d) <=> HP!Fits(vertex, l, d)
  /\ \A l, d : H!AfterPlace(l, d) = HP!AfterPlace(l, d)
  /\ \A topo, v : H!EdgesTouching(topo, v) = HP!EdgesTouching(topo, v)
<1>1. \A S : H!Cardinality(S) = HP!Cardinality(S)
  BY DEF H!Cardinality, HP!Cardinality
<1>2. \A l, d : H!Devices(l, d) = HP!Devices(l, d)
  BY DEF H!Devices, HP!Devices
<1>3. \A l, i, j : H!Fuller(l, i, j) <=> HP!Fuller(l, i, j)
  BY DEF H!Fuller, HP!Fuller
<1>4. ASSUME NEW l, NEW d PROVE H!Picked(l, d) = HP!Picked(l, d)
  <2>1. \A i : {j \in H!Devices(l, d) : H!Fuller(l, j, i)} = {j \in HP!Devices(l, d) : HP!Fuller(l, j, i)}
    BY <1>2, <1>3
  <2> QED
    BY <1>1, <1>2, <2>1 DEF H!Picked, HP!Picked
<1>5. \A l, d : H!AfterPlace(l, d) = HP!AfterPlace(l, d)
  BY <1>4 DEF H!AfterPlace, HP!AfterPlace
<1>6. \A vertex, l, d : H!Fits(vertex, l, d) <=> HP!Fits(vertex, l, d)
  BY <1>1, <1>2 DEF H!Fits, HP!Fits, H!AnyType, HP!AnyType
<1>7. ASSUME NEW f PROVE H!SumFunction(f) = HP!SumFunction(f)
  BY DEF H!SumFunction, HP!SumFunction, SumFunction, H!SumFunctionOnSet, HP!SumFunctionOnSet,
         SumFunctionOnSet,
     H!FoldFunctionOnSet, HP!FoldFunctionOnSet, FoldFunctionOnSet, H!MapThenFoldSet,
     HP!MapThenFoldSet, MapThenFoldSet
<1>8. \A l : H!FreeVector(l) = HP!FreeVector(l)
  BY <1>7 DEF H!FreeVector, HP!FreeVector
<1>9. \A vertex : H!CapacityVector(vertex) = HP!CapacityVector(vertex)
  BY DEF H!CapacityVector, HP!CapacityVector, H!MILLI, HP!MILLI
<1>10. \A topo, v : H!EdgesTouching(topo, v) = HP!EdgesTouching(topo, v)
  BY DEF H!EdgesTouching, HP!EdgesTouching
<1> QED
  BY <1>5, <1>6, <1>8, <1>9, <1>10 DEF H!TotalMilliGpu, HP!TotalMilliGpu

\* Sums have one value; so does the product in the unit of TAFI.
LEMMA SameSums ==
  /\ \A f, S : H!MapThenSumSet(LAMBDA x : f[x], S) = Total(f, S)
  /\ \A f, S : HP!MapThenSumSet(LAMBDA x : f[x], S) = Total(f, S)
  /\ \A f, S : HP!Total(f, S) = Total(f, S)
  /\ \A S : H!ProductSet(S) = HP!ProductSet(S)
<1>1. ASSUME NEW f, NEW S PROVE H!MapThenSumSet(LAMBDA x : f[x], S) = Total(f, S)
  BY DEF H!MapThenSumSet, MapThenSumSet, H!MapThenFoldSet, MapThenFoldSet, Total
<1>2. ASSUME NEW f, NEW S PROVE HP!MapThenSumSet(LAMBDA x : f[x], S) = Total(f, S)
  BY DEF HP!MapThenSumSet, MapThenSumSet, HP!MapThenFoldSet, MapThenFoldSet, Total
<1>3. \A f, S : HP!Total(f, S) = Total(f, S)
  BY <1>2 DEF HP!Total
<1>4. ASSUME NEW S PROVE H!ProductSet(S) = HP!ProductSet(S)
  BY DEF H!ProductSet, HP!ProductSet, H!FoldSet, HP!FoldSet, H!MapThenFoldSet, HP!MapThenFoldSet,
         MapThenFoldSet
<1> QED
  BY <1>1, <1>2, <1>3, <1>4
\* They give an index the same value.
LEMMA SameTafi ==
  ASSUME NEW topo, NEW config, NEW edges, NEW free
  PROVE  H!Tafi(topo, config, edges, free) = HP!Tafi(topo, config, edges, free)
BY DEF H!DemandLeq, HP!DemandLeq, H!Aggregate, HP!Aggregate, H!IsCut, HP!IsCut,
    H!BelowThreshold, HP!BelowThreshold, H!IsFragmented, HP!IsFragmented, H!CapacityVector,
    HP!CapacityVector, H!TotalMilliGpu, HP!TotalMilliGpu, H!MILLI, HP!MILLI, H!FreeNorm,
    HP!FreeNorm, H!PhiEntropy, HP!PhiEntropy, H!Unit, HP!Unit, H!PhiCut, HP!PhiCut,
    H!PhiHier, HP!PhiHier, H!Phi, HP!Phi, H!Tafi, HP!Tafi, H!MapThenSumSet,
    HP!MapThenSumSet, H!MapThenFoldSet, HP!MapThenFoldSet, H!FoldSet, HP!FoldSet,
    H!ProductSet, HP!ProductSet, H!Cardinality, HP!Cardinality, MapThenSumSet,
    MapThenFoldSet, FoldSet

\* They choose alike.
LEMMA SameVertexChosen ==
  ASSUME NEW d
  PROVE  H!Choice(d) = HP!Choice(d)
<1>1. H!Free = HP!Free
  BY SameVertices DEF H!Free, HP!Free
<1>2. \A free, v : H!DeltaTafi(free, v, d) = HP!DeltaTafi(free, v, d)
  BY SameVertices, SameTafi DEF H!DeltaTafi, HP!DeltaTafi, H!Hypothetical, HP!Hypothetical
<1>3. H!Candidates(d) = HP!Candidates(d)
  BY SameVertices DEF H!Candidates, HP!Candidates
<1>4. H!Gradient(d, H!Candidates(d)) = HP!Gradient(d, HP!Candidates(d))
  BY <1>1, <1>2, <1>3 DEF H!Gradient, HP!Gradient
<1>5. \A delta : H!Least(delta) = HP!Least(delta)
  BY DEF H!Least, HP!Least, H!Slack, HP!Slack
<1> QED
  BY <1>4, <1>5 DEF H!Choice, HP!Choice

\* They take the same steps.
LEMMA SameHtafmSteps == H!Next <=> HP!Next
BY SameVertexChosen, SameVertices
DEF H!Next, HP!Next, H!Schedule, HP!Schedule, H!LeaveUnscheduled, HP!LeaveUnscheduled,
    H!Candidates, HP!Candidates, H!Unscheduled, HP!Unscheduled, H!Demand, HP!Demand,
    H!arguments, HP!arguments

-----------------------------------------------------------------------------
(* The same of Cluster.                                                    *)

\* .. and those of Cluster.
LEMMA ClusterArguments ==
  CP!NodeListAssumption /\ CP!ArgumentsAssumption /\ CP!ReportAssumption
<1>1. CP!NodeResource = NodeResource /\ CP!PodResource = PodResource
  BY DEF CP!NodeResource, NodeResource, CP!PodResource, PodResource
<1>2. CP!POLICIES = C!POLICIES
  BY DEF CP!POLICIES, C!POLICIES
<1>3. CP!NodeIds \subseteq Nat
  <2>1. DOMAIN NodesMaster = 1 .. Len(NodesMaster)
    BY MatrixAssumption
  <2> QED
    BY <2>1 DEF CP!NodeIds
<1>4. CP!ArgumentsAssumption
  <2>1. \A t \in Typicals :
          t \in CP!Typical /\ (t.weights = <<>> \/ Len(t.weights) = Len(t.pods))
    BY <1>1, EnginesAssumption DEF C!Typical, CP!Typical, C!PodResource, CP!PodResource
  <2> QED
    BY <1>1, <1>2, <1>3, <2>1, EnginesAssumption DEF CP!ArgumentsAssumption
<1>5. CP!ReportAssumption
  <2>1. \A batch \in Seq(PodResource) : DOMAIN batch \subseteq Nat
    OBVIOUS
  <2> QED
    BY <1>1, <2>1 DEF CP!ReportAssumption
<1> QED
  BY <1>1, <1>4, <1>5, MatrixAssumption DEF CP!NodeListAssumption

\* The two instances compare nodes alike.
LEMMA SameOrder ==
  /\ \A pod, l : C!Feasible(pod, l) = CP!Feasible(pod, l)
  /\ \A S : C!FirstOf(S) = CP!FirstOf(S)
  /\ \A S, score : C!Least(S, score) = CP!Least(S, score)
  /\ \A a, b : C!Plus(a, b) = CP!Plus(a, b)
  /\ \A a : C!Negated(a) = CP!Negated(a)
  /\ \A l, pod : C!Take(l, pod) = CP!Take(l, pod)
BY DEF C!Feasible, CP!Feasible, C!FitsIn, CP!FitsIn, C!TypesAgree, CP!TypesAgree, C!AnyType,
       CP!AnyType, C!NodeIds, CP!NodeIds,
       C!FirstOf, CP!FirstOf, C!Least, CP!Least, C!AtMost, CP!AtMost, C!Plus, CP!Plus, C!Negated,
       CP!Negated, C!Take, CP!Take

\* They score them alike.
LEMMA SameShares ==
  /\ \A n, l : C!GpuUtilization(n, l) = CP!GpuUtilization(n, l)
  /\ \A n, l : C!CpuUtilization(n, l) = CP!CpuUtilization(n, l)
BY DEF C!GpuUtilization, CP!GpuUtilization, C!CpuUtilization, CP!CpuUtilization, C!UsedShare,
       CP!UsedShare,
       C!MilliGpuCapacity, CP!MilliGpuCapacity, C!MILLI, CP!MILLI

\* They count the same typical pods as unfit.
LEMMA SameUnfit ==
  ASSUME NEW t, NEW n, NEW l
  PROVE  /\ C!UnfitFraction(t, n, l) = CP!UnfitFraction(t, n, l)
         /\ C!UnfitFractionWeighted(t, n, l) = CP!UnfitFractionWeighted(t, n, l)
BY
  DEF C!UnfitFraction, CP!UnfitFraction, C!UnfitFractionWeighted, CP!UnfitFractionWeighted,
      C!Unfit, CP!Unfit, C!WeightOf, CP!WeightOf, C!FitsIn, CP!FitsIn, C!TypesAgree,
      CP!TypesAgree, C!AnyType, CP!AnyType, C!Cardinality, CP!Cardinality, C!MapThenSumSet,
      CP!MapThenSumSet, C!MapThenFoldSet, CP!MapThenFoldSet, MapThenSumSet, MapThenFoldSet

\* They choose alike.
LEMMA SameNodeChosen ==
  ASSUME NEW name, NEW pod, NEW l, NEW cursor, NEW t
  PROVE  C!Chosen(name, pod, l, cursor, t) = CP!Chosen(name, pod, l, cursor, t)
<1>1. \A left1 : C!Leftover(pod, left1) = CP!Leftover(pod, left1)
  BY DEF C!Leftover, CP!Leftover
<1>2. C!BestFit(pod, l) = CP!BestFit(pod, l)
  BY <1>1, SameOrder DEF C!BestFit, CP!BestFit
<1>3. C!WorstFit(pod, l) = CP!WorstFit(pod, l)
  BY <1>1, SameOrder DEF C!WorstFit, CP!WorstFit
<1>4. C!GpuPacking(pod, l) = CP!GpuPacking(pod, l)
  BY SameOrder, SameShares DEF C!GpuPacking, CP!GpuPacking
<1>5. C!LeastRequested(pod, l) = CP!LeastRequested(pod, l)
  BY SameOrder, SameShares DEF C!LeastRequested, CP!LeastRequested
<1>6. C!RoundRobin(pod, l, cursor) = CP!RoundRobin(pod, l, cursor)
  BY SameOrder DEF C!RoundRobin, CP!RoundRobin, C!Offset, CP!Offset
<1>7. \A a, b : C!Gradient(a, b) = CP!Gradient(a, b)
  BY SameOrder DEF C!Gradient, CP!Gradient
<1>8. C!Fgd(pod, l, t) = CP!Fgd(pod, l, t)
  BY <1>2, <1>7, SameOrder, SameUnfit DEF C!Fgd, CP!Fgd
<1>9. \A score : C!WeightedScore(pod, l, t, score) = CP!WeightedScore(pod, l, t, score)
  BY <1>2, <1>8, SameOrder DEF C!WeightedScore, CP!WeightedScore
<1>10. \A n : C!WeightedGradient(pod, n, l, t) = CP!WeightedGradient(pod, n, l, t)
  BY <1>7, SameOrder, SameUnfit DEF C!WeightedGradient, CP!WeightedGradient
<1>11. C!WFgd(pod, l, t) = CP!WFgd(pod, l, t)
  BY <1>9, <1>10, SameOrder DEF C!WFgd, CP!WFgd
<1>12. C!WFgdBalanced(pod, l, t) = CP!WFgdBalanced(pod, l, t)
  BY <1>9, <1>10, SameOrder, SameShares
  DEF C!WFgdBalanced, CP!WFgdBalanced, C!BalanceLambda, CP!BalanceLambda
<1> QED
  BY <1>2, <1>3, <1>4, <1>5, <1>6, <1>8, <1>11, <1>12, SameOrder DEF C!Chosen, CP!Chosen

\* They take the same steps.
LEMMA SameClusterSteps == C!Next <=> CP!Next
BY SameNodeChosen, SameOrder
DEF C!Next, CP!Next, C!Placed, CP!Placed, C!Rejected, CP!Rejected, C!Choice, CP!Choice,
    C!NextPod, CP!NextPod, C!Unscheduled, CP!Unscheduled, C!CursorAfter, CP!CursorAfter,
    C!NodeIds, CP!NodeIds, C!arguments, CP!arguments

-----------------------------------------------------------------------------
(* What both scripts prepare: one list of jobs and one cluster, twice.     *)

\* A demand and a pod that ask for the same.
Alike(demand, pod) ==
  /\ demand.milli_cpu = pod.milli_cpu /\ demand.milli_gpu = pod.milli_gpu
  /\ demand.gpu_number = pod.gpu_number /\ demand.gpu_type = pod.gpu_type

SameJobs ==
  /\ pods \in Seq(PodResource) /\ demands \in Seq(H!TopoDemand) /\ Len(demands) = Len(pods)
  /\ \A i \in DOMAIN pods : Alike(demands[i], pods[i])

SameNodes ==
  /\ nodes \in {TopoNodes, LoadTopologyNodes(NodeTable)}
  /\ topology = HP!FromNodes(nodes, DefaultFanout)

\* The smaller of two numbers.
LEMMA LesserOf ==
  ASSUME NEW a \in Nat, NEW b \in Nat
  PROVE  Min({a, b}) \in Nat /\ Min({a, b}) <= a /\ Min({a, b}) <= b
<1>1. \E m \in {a, b} : \A y \in {a, b} : m <= y
  BY Z3
<1> QED
  BY <1>1 DEF Min

\* A prefix of a list.
LEMMA PrefixOf ==
  ASSUME NEW S, NEW s \in Seq(S), NEW m \in Nat, m <= Len(s)
  PROVE  /\ SubSeq(s, 1, m) \in Seq(S) /\ DOMAIN SubSeq(s, 1, m) = 1 .. m /\ 1 .. m \subseteq DOMAIN s
         /\ \A k \in 1 .. m : SubSeq(s, 1, m)[k] = s[k] /\ s[k] \in S
<1>1. SubSeq(s, 1, m) = [k \in 1 .. m |-> s[k]]
  <2>1. SubSeq(s, 1, m) = [k \in 1 .. m |-> s[1 + k - 1]]
    BY SMT
  <2>2. \A k \in 1 .. m : 1 + k - 1 = k
    OBVIOUS
  <2> QED
    BY <2>1, <2>2
<1>2. \A k \in 1 .. m : k \in DOMAIN s /\ s[k] \in S
  OBVIOUS
<1>3. [k \in 1 .. m |-> s[k]] \in Seq(S)
  BY <1>2
<1> QED
  BY <1>1, <1>2, <1>3

\* An exported pod becomes a demand of the same resources.
LEMMA ExportedJobs ==
  ASSUME NEW list \in PodLists
  PROVE  /\ list \in Seq(PodResource) /\ TopoDemands(list) \in Seq(H!TopoDemand)
         /\ Len(TopoDemands(list)) = Len(list)
         /\ \A i \in DOMAIN list : Alike(TopoDemands(list)[i], list[i])
         /\ \A variant : Pending(variant, list) \in Seq(H!TopoDemand)
<1>1. list \in Seq(PodResource)
  BY MatrixAssumption
<1>2. \A pod \in PodResource : ToTopoDemand(pod) \in H!TopoDemand
  BY DEF PodResource, H!TopoDemand, ToTopoDemand, MEM_PER_MILLI_CPU
<1>3. \A i \in DOMAIN list : list[i] \in PodResource /\ TopoDemands(list)[i] = ToTopoDemand(list[i])
  BY <1>1 DEF TopoDemands
<1>4. TopoDemands(list) \in Seq(H!TopoDemand) /\ Len(TopoDemands(list)) = Len(list)
  BY <1>1, <1>2, <1>3 DEF TopoDemands
<1>5. \A i \in DOMAIN list : Alike(TopoDemands(list)[i], list[i])
  <2>1. TAKE i \in DOMAIN list
  <2>2. TopoDemands(list)[i] =
          [milli_cpu |-> list[i].milli_cpu, memory_mib |-> list[i].milli_cpu * MEM_PER_MILLI_CPU,
           milli_gpu |-> list[i].milli_gpu, gpu_number |-> list[i].gpu_number,
           gpu_type |-> list[i].gpu_type]
    BY <1>3 DEF ToTopoDemand
  <2> QED
    BY <2>2 DEF Alike
<1>6. \A variant : Pending(variant, list) \in Seq(H!TopoDemand)
  <2>1. Min({5, Len(list)}) \in Nat /\ Min({5, Len(list)}) <= Len(list)
    BY <1>1, LesserOf
  <2>2. SubSeq(TopoDemands(list), 1, Min({5, Len(list)})) \in Seq(H!TopoDemand)
    BY <1>4, <2>1, PrefixOf
  <2>3. <<>> \in Seq(H!TopoDemand)
    OBVIOUS
  <2> QED
    BY <2>2, <2>3 DEF Pending
<1> QED
  BY <1>1, <1>4, <1>5, <1>6

\* Both loaders of the raw trace read the same rows the same way.
LEMMA RawJobs ==
  ASSUME NEW table \in PodTables, NEW list \in PodsOf(table)
  PROVE  /\ list \in Seq(PodResource) /\ DemandsOf(table) \in Seq(H!TopoDemand)
         /\ Len(DemandsOf(table)) = Len(list)
         /\ \A i \in DOMAIN list : Alike(DemandsOf(table)[i], list[i])
         /\ \A variant : DemoPending(variant, DemandsOf(table)) \in Seq(H!TopoDemand)
<1> DEFINE rows == SubSeq(table, 1, Min({Limit, Len(table)}))
<1>1. table \in Seq(RawPod) /\ Limit \in Nat
  BY HtafmDemoAssumption
<1>2. /\ Min({Limit, Len(table)}) \in Nat
      /\ Min({Limit, Len(table)}) <= Len(table) /\ Min({Limit, Len(table)}) <= Limit
  BY <1>1, LesserOf
<1>3. ReadRows(table, Limit, FALSE) = {rows}
  <2>1. CASE Limit >= Len(table)
    <3>1. Min({Limit, Len(table)}) = Len(table)
      <4>1. Min({Limit, Len(table)}) \in {Limit, Len(table)}
        BY <1>1, <2>1 DEF Min
      <4> QED
        BY <1>1, <1>2, <2>1, <4>1
    <3>2. rows = table
      BY <1>1, <3>1
    <3> QED
      BY <2>1, <3>2 DEF ReadRows
  <2>2. CASE ~(Limit >= Len(table))
    <3>1. Min({Limit, Len(table)}) = Limit
      <4>1. Min({Limit, Len(table)}) \in {Limit, Len(table)}
        BY <1>1, <2>2 DEF Min
      <4> QED
        BY <1>1, <1>2, <2>2, <4>1
    <3> QED
      BY <2>2, <3>1 DEF ReadRows
  <2> QED
    BY <2>1, <2>2
<1>4. list = LoadRealTracePods(rows) /\ DemandsOf(table) = LoadDemands(rows)
  BY <1>3 DEF PodsOf, DemandsOf
<1>5. /\ rows \in Seq(RawPod)
      /\ \A k \in DOMAIN rows : rows[k] \in RawPod /\ rows[k].gpu_spec = AnyType
  <2>1. /\ rows \in Seq(RawPod) /\ DOMAIN rows \subseteq DOMAIN table
        /\ \A k \in DOMAIN rows : rows[k] = table[k] /\ table[k] \in RawPod
    <3>1. \A m \in Nat : m <= Len(table) =>
            /\ SubSeq(table, 1, m) \in Seq(RawPod) /\ DOMAIN SubSeq(table, 1, m) \subseteq DOMAIN table
            /\ \A k \in DOMAIN SubSeq(table, 1, m) : SubSeq(table, 1, m)[k] = table[k] /\ table[k] \in RawPod
      BY <1>1, PrefixOf
    <3> QED
      BY <1>2, <3>1
  <2> QED
    BY <2>1, HtafmDemoAssumption
<1> HIDE DEF rows
<1>6. ASSUME NEW row \in RawPod
      PROVE  /\ row.cpu_milli \in Nat /\ row.memory_mib \in Nat /\ row.num_gpu \in Nat
             /\ GpuMilli(row) \in Nat
             /\ row.gpu_spec \in STRING
  BY DEF RawPod, GpuMilli, Cell
<1>7. CleanGpuSpec(AnyType) = AnyType
  BY DEF CleanGpuSpec, AnyType
<1>8. ASSUME NEW k \in DOMAIN rows
      PROVE  /\ list[k] = [milli_cpu |-> rows[k].cpu_milli, milli_gpu |-> GpuMilli(rows[k]),
                           gpu_number |-> rows[k].num_gpu, gpu_type |-> AnyType]
             /\ DemandsOf(table)[k] =
                  [milli_cpu |-> rows[k].cpu_milli, memory_mib |-> rows[k].memory_mib,
                   milli_gpu |-> GpuMilli(rows[k]), gpu_number |-> rows[k].num_gpu,
                   gpu_type |-> AnyType]
             /\ list[k] \in PodResource /\ DemandsOf(table)[k] \in H!TopoDemand
             /\ Alike(DemandsOf(table)[k], list[k])
             /\ DemandsOf(table)[k].gpu_type = AnyType
  <2>1. list[k] = [milli_cpu |-> rows[k].cpu_milli, milli_gpu |-> GpuMilli(rows[k]),
                   gpu_number |-> rows[k].num_gpu, gpu_type |-> AnyType]
    BY <1>4, <1>5, <1>7 DEF LoadRealTracePods
  <2>2. DemandsOf(table)[k] =
          [milli_cpu |-> rows[k].cpu_milli, memory_mib |-> rows[k].memory_mib,
           milli_gpu |-> GpuMilli(rows[k]), gpu_number |-> rows[k].num_gpu,
           gpu_type |-> AnyType]
    BY <1>4, <1>5 DEF LoadDemands
  <2>3. AnyType \in STRING
    BY <1>5, <1>6
  <2> QED
    BY <1>5, <1>6, <2>1, <2>2, <2>3 DEF PodResource, H!TopoDemand, Alike
<1>9. /\ DOMAIN list = DOMAIN rows /\ DOMAIN DemandsOf(table) = DOMAIN rows
      /\ list \in Seq(PodResource) /\ DemandsOf(table) \in Seq(H!TopoDemand)
      /\ Len(list) = Len(rows) /\ Len(DemandsOf(table)) = Len(rows)
  <2>1. DOMAIN rows = 1 .. Len(rows) /\ Len(rows) \in Nat
    BY <1>5
  <2>2. list = [k \in 1 .. Len(rows) |-> list[k]]
        /\ DemandsOf(table) = [k \in 1 .. Len(rows) |-> DemandsOf(table)[k]]
    BY <1>4, <2>1 DEF LoadRealTracePods, LoadDemands
  <2>3. \A k \in 1 .. Len(rows) : list[k] \in PodResource /\ DemandsOf(table)[k] \in H!TopoDemand
    BY <1>8, <2>1
  <2> QED
    BY <2>1, <2>2, <2>3
<1>10. \A variant : DemoPending(variant, DemandsOf(table)) \in Seq(H!TopoDemand)
  <2> DEFINE n == Min({5, Len(DemandsOf(table))})
  <2>1. n \in Nat /\ n <= Len(DemandsOf(table))
    BY <1>9, LesserOf
  <2>2. \A k \in 1 .. n : [DemandsOf(table)[k] EXCEPT !.gpu_type = AnyType] \in H!TopoDemand
    <3>1. TAKE k \in 1 .. n
    <3>2. k \in DOMAIN rows
      <4> HIDE DEF n
      <4> QED
        BY <1>9, <2>1
    <3>3. DemandsOf(table)[k].gpu_type = AnyType /\ DemandsOf(table)[k] \in H!TopoDemand
      BY <1>8, <3>2
    <3> QED
      BY <3>3 DEF H!TopoDemand
  <2>3. [k \in 1 .. n |-> [DemandsOf(table)[k] EXCEPT !.gpu_type = AnyType]] \in Seq(H!TopoDemand)
    <3> HIDE DEF n
    <3> QED
      BY <2>1, <2>2
  <2>4. <<>> \in Seq(H!TopoDemand)
    OBVIOUS
  <2> QED
    BY <2>3, <2>4 DEF DemoPending, n
<1> QED
  BY <1>8, <1>9, <1>10
-----------------------------------------------------------------------------
(* Each engine, within either script, behaves as on its own.               *)

\* Loading leaves a node what it was before: all of it is free.
LEMMA ResetIsEmpty ==
  ASSUME NEW n \in DOMAIN NodesMaster
  PROVE  Empty(ResetCluster(NodesMaster)[n]) = Empty(NodesMaster[n])
<1> DEFINE node == NodesMaster[n]
           reset == [node EXCEPT !.milli_gpu_capacity = MilliGpuCapacity(node)]
<1>1. node \in NodeResource
  BY MatrixAssumption
<1>2. ResetCluster(NodesMaster)[n] = reset
  BY DEF ResetCluster
<1>3. /\ reset.milli_cpu_capacity = node.milli_cpu_capacity /\ reset.gpu_count = node.gpu_count
      /\ reset.milli_gpu_capacity = MilliGpuCapacity(node)
  BY <1>1 DEF NodeResource
<1>4. MilliGpuCapacity(reset) = MilliGpuCapacity(node)
  BY <1>1, <1>3 DEF MilliGpuCapacity, NodeResource, MILLI
<1> QED
  BY <1>2, <1>3, <1>4 DEF Empty

\* What Cluster starts with.
LEMMA ClusterStarts ==
  ASSUME pods \in Seq(PodResource), policy \in C!POLICIES, typical \in Typicals,
         remaining = [n \in DOMAIN NodesMaster |-> Empty(NodesMaster[n])],
         round_robin_state = 0, results = <<>>
  PROVE  CP!Init
<1>1. CP!NodeIds = DOMAIN NodesMaster
  BY DEF CP!NodeIds
<1>2. \A n \in DOMAIN NodesMaster : CP!Empty(NodesMaster[n]) = Empty(NodesMaster[n])
  BY DEF CP!Empty, Empty, CP!MilliGpuCapacity, MilliGpuCapacity, CP!MILLI, MILLI
<1>3. remaining = [n \in CP!NodeIds |-> CP!Empty(NodesMaster[n])]
  BY <1>1, <1>2
<1> QED
  BY <1>3 DEF CP!Init

\* What HTAFM starts with.
LEMMA HtafmStarts ==
  ASSUME nodes \in {TopoNodes, LoadTopologyNodes(NodeTable)},
         topology = H!FromNodes(nodes, DefaultFanout),
         NEW variant \in H!VARIANTS, NEW pending \in Seq(H!TopoDemand),
         cfg = [variant |-> variant, pending_demands |-> pending],
         demands \in Seq(H!TopoDemand),
         left = [v \in DOMAIN topology.vertices |-> H!Untouched(topology.vertices[v])],
         placement = <<>>
  PROVE  HP!Init /\ SameNodes
<1>1. topology = HP!FromNodes(nodes, DefaultFanout)
  BY SameTopology
<1>2. \A vertex : H!Untouched(vertex) = HP!Untouched(vertex)
  BY SameTopology
<1>3. left = [v \in DOMAIN topology.vertices |-> HP!Untouched(topology.vertices[v])]
  BY <1>2
<1> QED
  BY <1>1, <1>3 DEF HP!Init, SameNodes, H!VARIANTS

\* Either script starts both engines: the matrix on what it converts ..
LEMMA MatrixStarts == MatrixInit => CP!Init /\ HP!Init /\ SameJobs /\ SameNodes
<1> SUFFICES ASSUME MatrixInit PROVE CP!Init /\ HP!Init /\ SameJobs /\ SameNodes
  OBVIOUS
<1>1. pods \in PodLists /\ C!Init
  BY DEF MatrixInit, C!Init
<1>2. /\ pods \in Seq(PodResource) /\ TopoDemands(pods) \in Seq(H!TopoDemand)
      /\ Len(TopoDemands(pods)) = Len(pods)
      /\ \A i \in DOMAIN pods : Alike(TopoDemands(pods)[i], pods[i])
      /\ \A variant : Pending(variant, pods) \in Seq(H!TopoDemand)
  BY <1>1, ExportedJobs
<1>3. PICK variant \in H!VARIANTS :
        cfg = [variant |-> variant, pending_demands |-> Pending(variant, pods)]
  BY DEF MatrixInit
<1>4. HP!Init /\ SameNodes
  BY <1>2, <1>3, HtafmStarts DEF MatrixInit
<1>5. CP!Init
  <2>1. C!NodeIds = DOMAIN NodesMaster
    BY DEF C!NodeIds
  <2>2. \A n \in DOMAIN NodesMaster : C!Empty(NodesMaster[n]) = Empty(NodesMaster[n])
    BY DEF C!Empty, Empty, C!MilliGpuCapacity, MilliGpuCapacity, C!MILLI, MILLI
  <2>3. remaining = [n \in DOMAIN NodesMaster |-> Empty(NodesMaster[n])]
    BY <1>1, <2>1, <2>2 DEF C!Init
  <2>4. policy \in C!POLICIES
    BY <1>1, EnginesAssumption DEF C!Init
  <2> QED
    BY <1>1, <1>2, <2>3, <2>4, ClusterStarts DEF C!Init
<1>6. SameJobs
  BY <1>2 DEF SameJobs, MatrixInit
<1> QED
  BY <1>4, <1>5, <1>6

\* .. and the demo on what each loader reads.
LEMMA DemoStarts == DemoInit => CP!Init /\ HP!Init /\ SameJobs /\ SameNodes
<1> SUFFICES ASSUME DemoInit PROVE CP!Init /\ HP!Init /\ SameJobs /\ SameNodes
  OBVIOUS
<1>1. PICK table \in PodTables :
        /\ pods \in PodsOf(table)
        /\ policy \in {"random", "best_fit", "fgd"}
        /\ typical \in Typicals
        /\ remaining = [n \in DOMAIN NodesMaster |-> Empty(ResetCluster(NodesMaster)[n])]
        /\ round_robin_state = 0 /\ results = <<>>
        /\ nodes = LoadTopologyNodes(NodeTable)
        /\ topology = H!FromNodes(nodes, DefaultFanout)
        /\ demands = DemandsOf(table)
        /\ cfg \in {[variant |-> v, pending_demands |-> DemoPending(v, demands)] : v \in H!VARIANTS}
        /\ left = [v \in DOMAIN topology.vertices |-> H!Untouched(topology.vertices[v])]
        /\ placement = <<>>
  BY DEF DemoInit
<1>2. /\ pods \in Seq(PodResource) /\ DemandsOf(table) \in Seq(H!TopoDemand)
      /\ Len(DemandsOf(table)) = Len(pods)
      /\ \A i \in DOMAIN pods : Alike(DemandsOf(table)[i], pods[i])
      /\ \A variant : DemoPending(variant, DemandsOf(table)) \in Seq(H!TopoDemand)
  BY <1>1, RawJobs
<1>3. PICK variant \in H!VARIANTS :
        cfg = [variant |-> variant, pending_demands |-> DemoPending(variant, demands)]
  BY <1>1
<1>4. HP!Init /\ SameNodes
  BY <1>1, <1>2, <1>3, HtafmStarts
<1>5. CP!Init
  <2>1. remaining = [n \in DOMAIN NodesMaster |-> Empty(NodesMaster[n])]
    BY <1>1, ResetIsEmpty
  <2>2. policy \in C!POLICIES
    BY <1>1 DEF C!POLICIES
  <2> QED
    BY <1>1, <1>2, <2>1, <2>2, ClusterStarts
<1>6. SameJobs
  BY <1>1, <1>2 DEF SameJobs
<1> QED
  BY <1>4, <1>5, <1>6

\* A step of a script is one of an engine, the other left alone.
LEMMA StepsApart ==
  ASSUME [MatrixNext]_matrixVars
  PROVE  [CP!Next]_(CP!vars) /\ [HP!Next]_(HP!vars)
<1>1. /\ UNCHANGED clusterVars => UNCHANGED CP!vars
      /\ UNCHANGED htafmVars => UNCHANGED HP!vars
  BY DEF CP!vars, CP!arguments, clusterVars, HP!vars, HP!arguments, htafmVars
<1>2. UNCHANGED matrixVars => UNCHANGED clusterVars /\ UNCHANGED htafmVars
  BY DEF matrixVars
<1>3. RunNodePolicy => CP!Next /\ UNCHANGED htafmVars
  BY SameClusterSteps DEF RunNodePolicy
<1>4. RunHtafmVariant => HP!Next /\ UNCHANGED clusterVars
  BY SameHtafmSteps DEF RunHtafmVariant
<1> QED
  BY <1>1, <1>2, <1>3, <1>4 DEF MatrixNext

\* Neither script disturbs an engine: within it Cluster and HTAFM each run as
\* their modules have them run alone, so all that is proved of either there
\* holds here (full_scenario_matrix.py:66-126, htafm_demo.py:48-96).
THEOREM EnginesRunUndisturbed == CompareSpec => CP!Spec /\ HP!Spec
<1>1. MatrixInit \/ DemoInit => CP!Init /\ HP!Init
  BY MatrixStarts, DemoStarts
<1>2. [MatrixNext]_matrixVars => [CP!Next]_(CP!vars) /\ [HP!Next]_(HP!vars)
  BY StepsApart
<1> QED
  BY <1>1, <1>2, PTL DEF CompareSpec, CP!Spec, HP!Spec
-----------------------------------------------------------------------------
(* The rows.                                                               *)

\* What is true of the engines at any time, and of what they were given.
Engines ==
  /\ CP!TypeOK /\ CP!ResultsAccountFor
  /\ HP!TypeOK /\ HP!Built /\ HP!Accounts /\ HP!TypesFit
  /\ SameJobs /\ SameNodes

\* It is true in either script, by the theorems about each engine.
LEMMA EnginesAlways == CompareSpec => []Engines
<1>1. CP!Spec => [](CP!TypeOK /\ CP!ResultsAccountFor)
  BY ClusterArguments, CP!ClusterTyped, CP!ResultsAccounted, PTL
<1>2. HP!Spec => [](HP!TypeOK /\ HP!Built /\ HP!Accounts /\ HP!TypesFit)
  BY HtafmArguments, HP!NeverOverbooked, HP!AlwaysBuilt, HP!AlwaysAccounts, HP!TypesAlwaysFit, PTL
<1>3. MatrixInit \/ DemoInit => SameJobs /\ SameNodes
  BY MatrixStarts, DemoStarts
<1>4. SameJobs /\ SameNodes /\ [MatrixNext]_matrixVars => (SameJobs /\ SameNodes)'
  <2>1. [MatrixNext]_matrixVars => UNCHANGED <<pods, demands, nodes, topology>>
    BY StepsApart
    DEF CP!Next, CP!Placed, CP!Rejected, CP!vars, CP!arguments,
        HP!Next, HP!Schedule, HP!LeaveUnscheduled, HP!vars, HP!arguments
  <2> QED
    BY <2>1 DEF SameJobs, SameNodes
<1> QED
  BY <1>1, <1>2, <1>3, <1>4, EnginesRunUndisturbed, PTL DEF CompareSpec, Engines

\* Either loader makes the same of a node for both engines.
LEMMA SameCluster ==
  ASSUME SameNodes, NEW n \in DOMAIN NodesMaster
  PROVE  /\ DOMAIN nodes = DOMAIN NodesMaster
         /\ nodes[n].milli_cpu_capacity = NodesMaster[n].milli_cpu_capacity
         /\ nodes[n].milli_gpu_left_list \in Seq({HP!MILLI})
         /\ Len(nodes[n].milli_gpu_left_list) = NodesMaster[n].gpu_count
         /\ \A t \in {AnyType} \cup nodes[n].gpu_types :
              t = AnyType \/ NodesMaster[n].gpu_type = AnyType \/ t = NodesMaster[n].gpu_type
<1>1. /\ NodesMaster \in Seq(NodeResource) /\ NodeTable \in Seq(RawNode)
      /\ NodesMaster = LoadRealTraceNodes(NodeTable)
  BY MatrixAssumption, HtafmDemoAssumption
<1>2. DOMAIN NodesMaster = DOMAIN NodeTable /\ NodeTable[n] \in RawNode /\ NodesMaster[n] \in NodeResource
  BY <1>1 DEF LoadRealTraceNodes
<1>3. ASSUME NEW k \in Nat
      PROVE  [g \in 1 .. k |-> MILLI] \in Seq({HP!MILLI}) /\ Len([g \in 1 .. k |-> MILLI]) = k
  BY DEF MILLI, HP!MILLI
<1>4. CASE nodes = TopoNodes
  <2>1. DOMAIN nodes = DOMAIN NodesMaster /\ nodes[n] = ToTopoNode(NodesMaster[n])
    BY <1>4 DEF TopoNodes
  <2>2. NodesMaster[n].gpu_count \in Nat
    BY <1>2 DEF NodeResource
  <2>3. /\ nodes[n].milli_cpu_capacity = NodesMaster[n].milli_cpu_capacity
        /\ nodes[n].milli_gpu_left_list = [g \in 1 .. NodesMaster[n].gpu_count |-> MILLI]
        /\ nodes[n].gpu_types = {NodesMaster[n].gpu_type} \ {AnyType}
    BY <2>1 DEF ToTopoNode
  <2> QED
    BY <1>3, <2>1, <2>2, <2>3
<1>5. CASE nodes = LoadTopologyNodes(NodeTable)
  <2> DEFINE row == NodeTable[n]
  <2>1. /\ DOMAIN nodes = DOMAIN NodeTable /\ nodes[n].milli_cpu_capacity = row.cpu_milli
        /\ nodes[n].milli_gpu_left_list = [g \in 1 .. row.gpu |-> MILLI]
        /\ nodes[n].gpu_types = {row.model} \ {AnyType}
    BY <1>2, <1>5 DEF LoadTopologyNodes
  <2>2. /\ NodesMaster[n].milli_cpu_capacity = row.cpu_milli /\ NodesMaster[n].gpu_count = row.gpu
        /\ NodesMaster[n].gpu_type = CleanGpuSpec(row.model)
    BY <1>1, <1>2 DEF LoadRealTraceNodes
  <2>3. row.gpu \in Nat
    BY <1>2 DEF RawNode
  <2> HIDE DEF row
  <2> QED
    BY <1>2, <1>3, <2>1, <2>2, <2>3 DEF CleanGpuSpec
<1> QED
  BY <1>4, <1>5 DEF SameNodes

\* The demands admitted are those of pods, and as many.
LEMMA JobFacts ==
  ASSUME Engines
  PROVE  /\ HtafmAdmitted = HP!Admitted /\ HtafmAdmitted \in SUBSET DOMAIN pods
         /\ IsFiniteSet(HtafmAdmitted) /\ DOMAIN demands = DOMAIN pods
         /\ \A i \in DOMAIN pods :
              /\ Alike(demands[i], pods[i])
              /\ pods[i].milli_cpu \in Nat /\ pods[i].milli_gpu \in Nat
              /\ pods[i].gpu_number > 0 => pods[i].milli_gpu <= HP!AsksInTotal[i]
              /\ HP!AsksInTotal[i] \in Nat /\ Surplus(demands[i]) \in Int
              /\ HP!AsksInTotal[i] = pods[i].milli_gpu + Surplus(demands[i])
<1>1. /\ pods \in Seq(PodResource) /\ demands \in Seq(H!TopoDemand) /\ Len(demands) = Len(pods)
      /\ \A i \in DOMAIN pods : Alike(demands[i], pods[i])
  BY DEF Engines, SameJobs
<1>2. DOMAIN demands = DOMAIN pods /\ \A i \in DOMAIN pods : pods[i] \in PodResource
  BY <1>1
<1>3. HtafmAdmitted = HP!Admitted
  BY DEF HtafmAdmitted, HP!Admitted
<1>4. HP!Admitted \in SUBSET DOMAIN demands /\ IsFiniteSet(DOMAIN demands)
  BY HtafmArguments, HP!AdmittedFacts DEF Engines, HP!IsFiniteSet, IsFiniteSet
<1>5. IsFiniteSet(HtafmAdmitted)
  BY <1>3, <1>4, FS_Subset
<1>6. ASSUME NEW i \in DOMAIN pods
      PROVE  /\ pods[i].milli_cpu \in Nat /\ pods[i].milli_gpu \in Nat
             /\ pods[i].gpu_number > 0 => pods[i].milli_gpu <= HP!AsksInTotal[i]
             /\ HP!AsksInTotal[i] \in Nat /\ Surplus(demands[i]) \in Int
             /\ HP!AsksInTotal[i] = pods[i].milli_gpu + Surplus(demands[i])
  <2>1. PICK m \in Nat, k \in Nat : /\ m = pods[i].milli_gpu /\ k = pods[i].gpu_number
                                   /\ pods[i].milli_cpu \in Nat
    BY <1>2 DEF PodResource
  <2>2. demands[i].milli_gpu = m /\ demands[i].gpu_number = k
    BY <1>1, <2>1 DEF Alike
  <2>3. HP!AsksInTotal[i] = m * k /\ Surplus(demands[i]) = (k - 1) * m
    BY <1>2, <2>2 DEF HP!AsksInTotal, HP!TotalMilliGpu, Surplus
  <2>4. \A a, b \in Nat : /\ a * b \in Nat /\ (b - 1) * a \in Int /\ a * b = a + (b - 1) * a
                          /\ b > 0 => a <= a * b
    BY Z3T(30)
  <2>5. /\ m * k \in Nat /\ (k - 1) * m \in Int /\ m * k = m + (k - 1) * m
        /\ k > 0 => m <= m * k
    BY <2>4
  <2> QED
    BY <2>1, <2>3, <2>5
<1> QED
  BY <1>1, <1>2, <1>3, <1>4, <1>5, <1>6

\* H-TAFM admits nothing that the node has no room for.
LEMMA NodeFits ==
  ASSUME Engines, NEW n \in DOMAIN NodesMaster
  PROVE  PlacedFits(n)
<1> DEFINE mine == {i \in HtafmAdmitted : topology.vertices[placement[i]].server = n}
           withDevices == {i \in mine : pods[i].gpu_number > 0}
           node == NodesMaster[n]
           cpu == Asks(pods, "milli_cpu")
           gpu == Asks(pods, "milli_gpu")
           share == [i \in mine |-> IF i \in withDevices THEN gpu[i] ELSE 0]
           cpuAsked == Asks(demands, "milli_cpu")
<1>1. /\ nodes[n].milli_cpu_capacity = node.milli_cpu_capacity /\ n \in DOMAIN nodes
      /\ Len(nodes[n].milli_gpu_left_list) = node.gpu_count
      /\ \A t \in {AnyType} \cup nodes[n].gpu_types :
           t = AnyType \/ node.gpu_type = AnyType \/ t = node.gpu_type
  BY SameCluster DEF Engines
<1>2. mine = HP!AdmittedOn(n) /\ mine \in SUBSET DOMAIN pods /\ IsFiniteSet(mine)
  <2>1. mine = HP!AdmittedOn(n)
    BY JobFacts DEF HP!AdmittedOn
  <2>2. mine \in SUBSET HtafmAdmitted
    OBVIOUS
  <2> QED
    BY <2>1, <2>2, JobFacts, FS_Subset
<1>3. /\ Total(cpuAsked, mine) <= nodes[n].milli_cpu_capacity
      /\ Total(HP!AsksInTotal, mine) <= MILLI * Len(nodes[n].milli_gpu_left_list)
  <2>1. /\ HP!Total(HP!Asks(demands, "milli_cpu"), mine) <= nodes[n].milli_cpu_capacity
        /\ HP!Total(HP!AsksInTotal, mine) <= HP!MILLI * HP!NodeGpus[n]
    BY <1>1, <1>2, HtafmArguments, HP!NodeTakes DEF Engines
  <2>2. HP!Asks(demands, "milli_cpu") = cpuAsked /\ HP!MILLI = MILLI
        /\ HP!NodeGpus[n] = Len(nodes[n].milli_gpu_left_list)
    BY <1>1 DEF HP!Asks, Asks, HP!MILLI, MILLI, HP!NodeGpus
  <2> QED
    BY <2>1, <2>2, SameSums
<1>4. \A i \in mine : /\ cpu[i] = cpuAsked[i] /\ cpu[i] \in Nat /\ gpu[i] \in Int
                      /\ HP!AsksInTotal[i] \in Int /\ share[i] <= HP!AsksInTotal[i]
                      /\ share[i] \in Int
  <2>1. TAKE i \in mine
  <2>2. /\ i \in DOMAIN pods /\ Alike(demands[i], pods[i])
        /\ pods[i].milli_cpu \in Nat /\ pods[i].milli_gpu \in Nat /\ HP!AsksInTotal[i] \in Nat
        /\ pods[i].gpu_number > 0 => pods[i].milli_gpu <= HP!AsksInTotal[i]
    BY <1>2, JobFacts
  <2>3. cpu[i] = pods[i].milli_cpu /\ gpu[i] = pods[i].milli_gpu /\ cpuAsked[i] = pods[i].milli_cpu
    BY <2>2, JobFacts DEF Asks, Alike
  <2>4. share[i] = IF pods[i].gpu_number > 0 THEN gpu[i] ELSE 0
    OBVIOUS
  <2> QED
    BY <2>2, <2>3, <2>4
<1>5. /\ Total(cpu, mine) = Total(cpuAsked, mine)
      /\ Total(gpu, withDevices) <= Total(HP!AsksInTotal, mine)
      /\ Total(cpu, mine) \in Int /\ Total(gpu, withDevices) \in Int
      /\ Total(HP!AsksInTotal, mine) \in Int
  <2>1. withDevices \in SUBSET mine
    OBVIOUS
  <2>2. /\ \A i \in withDevices : share[i] \in Int /\ gpu[i] = share[i]
        /\ \A i \in mine \ withDevices : share[i] = 0
    BY <1>4, <2>1
  <2> HIDE DEF mine, cpu, gpu, cpuAsked, withDevices, share
  <2>3. \A i \in mine : cpu[i] \in Int
    BY <1>4
  <2>4. Total(share, mine) = Total(gpu, withDevices)
    BY <1>2, <2>1, <2>2, TotalOfPart
  <2>5. Total(share, mine) <= Total(HP!AsksInTotal, mine) /\ Total(share, mine) \in Int
    BY <1>2, <1>4, TotalAtMost, TotalType
  <2> QED
    BY <1>2, <1>4, <2>3, <2>4, <2>5, TotalOfSame, TotalType
<1>6. node.gpu_count \in Nat /\ node.milli_cpu_capacity \in Nat /\ MilliGpuCapacity(node) = node.gpu_count * MILLI
  <2>1. node \in NodeResource
    BY MatrixAssumption
  <2> QED
    BY <2>1, MatrixAssumption DEF NodeResource
<1>7. /\ TakeAll(Empty(node), pods, mine).milli_cpu >= 0
      /\ TakeAll(Empty(node), pods, withDevices).milli_gpu >= 0
  <2>1. withDevices \in SUBSET DOMAIN pods
    BY <1>2
  <2>2. /\ TakeAll(Empty(node), pods, mine).milli_cpu = Empty(node).milli_cpu - Total(cpu, mine)
        /\ TakeAll(Empty(node), pods, withDevices).milli_gpu
             = Empty(node).milli_gpu - Total(gpu, withDevices)
    <3> HIDE DEF mine, withDevices, node
    <3> QED
      BY <1>2, <2>1, TakeAllDef
  <2>3. Empty(node).milli_cpu = node.milli_cpu_capacity /\ Empty(node).milli_gpu = node.gpu_count * MILLI
    BY <1>6 DEF Empty
  <2>4. MILLI * node.gpu_count = node.gpu_count * MILLI /\ node.gpu_count * MILLI \in Int
    BY <1>6 DEF MILLI
  <2> HIDE DEF mine, withDevices, cpu, gpu, cpuAsked, node
  <2>5. Total(cpu, mine) <= node.milli_cpu_capacity /\ Total(gpu, withDevices) <= node.gpu_count * MILLI
    BY <1>1, <1>3, <1>5, <1>6, <2>4
  <2> QED
    BY <1>5, <1>6, <2>2, <2>3, <2>4, <2>5
<1>8. \A i \in mine : TypesAgree(pods[i], node)
  <2>1. TAKE i \in mine
  <2>2. demands[i].gpu_type \in {HP!AnyType} \cup topology.vertices[placement[i]].gpu_types
    BY JobFacts DEF Engines, HP!TypesFit
  <2>3. topology.vertices[placement[i]].gpu_types = nodes[n].gpu_types
    <3>1. placement[i] \in DOMAIN topology.vertices
      BY JobFacts, HtafmArguments, HP!AdmittedFacts DEF Engines
    <3> QED
      BY <3>1, HtafmArguments, HP!VertexOfNode DEF Engines
  <2>4. demands[i].gpu_type = pods[i].gpu_type /\ HP!AnyType = AnyType
    BY <1>2, JobFacts DEF Alike, HP!AnyType, AnyType
  <2> QED
    BY <1>1, <2>2, <2>3, <2>4 DEF TypesAgree
<1> QED
  BY <1>7, <1>8 DEF PlacedFits

\* What the number of devices makes of each demand, and what each node has.
Surpluses == [i \in DOMAIN demands |-> Surplus(demands[i])]
Devices == [n \in DOMAIN NodesMaster |-> NodesMaster[n].gpu_count * MILLI]

\* The sums of the rows are sums of these.
LEMMA MatrixSums ==
  ASSUME Engines
  PROVE  /\ MapThenSumSet(LAMBDA i : Surplus(demands[i]), HtafmAdmitted) = Total(Surpluses, HtafmAdmitted)
         /\ MapThenSumSet(LAMBDA n : NodesMaster[n].gpu_count * MILLI, DOMAIN NodesMaster)
              = Total(Devices, DOMAIN NodesMaster)
<1> DEFINE K == HtafmAdmitted
           N == DOMAIN NodesMaster
           ByDemands(g) == g = [s \in SUBSET K |->
                                  IF s = {} THEN 0 ELSE Surplus(demands[First(s)]) + g[s \ {First(s)}]]
           ByNodes(g) == g = [s \in SUBSET N |->
                                IF s = {} THEN 0
                                ELSE NodesMaster[First(s)].gpu_count * MILLI + g[s \ {First(s)}]]
<1>1. \A s \in SUBSET K : s # {} => Surpluses[First(s)] = Surplus(demands[First(s)])
  BY FirstIn, JobFacts DEF Surpluses
<1>2. \A s \in SUBSET N : s # {} => Devices[First(s)] = NodesMaster[First(s)].gpu_count * MILLI
  BY FirstIn DEF Devices
<1>3. MapThenSumSet(LAMBDA i : Surplus(demands[i]), K) = (CHOOSE g : ByDemands(g))[K]
  BY DEF MapThenSumSet, MapThenFoldSet, First
<1>4. MapThenSumSet(LAMBDA n : NodesMaster[n].gpu_count * MILLI, N) = (CHOOSE g : ByNodes(g))[N]
  BY DEF MapThenSumSet, MapThenFoldSet, First
<1> HIDE DEF K, N
<1>5. \A g : ByDemands(g) <=> Iterates(Surpluses, g, K)
  BY <1>1 DEF Iterates, Unroll
<1>6. \A g : ByNodes(g) <=> Iterates(Devices, g, N)
  BY <1>2 DEF Iterates, Unroll
<1> HIDE DEF ByDemands, ByNodes
<1>7. /\ (CHOOSE g : ByDemands(g)) = (CHOOSE g : Iterates(Surpluses, g, K))
      /\ (CHOOSE g : ByNodes(g)) = (CHOOSE g : Iterates(Devices, g, N))
  BY <1>5, <1>6
<1> QED
  BY <1>3, <1>4, <1>7, TotalDef DEF K, N

\* What Cluster reports as used is what the pods it admitted ask for.
LEMMA NodeGpuUsedIs ==
  ASSUME Engines
  PROVE  NodeGpuUsed = Total(Asks(pods, "milli_gpu"), NodeAdmitted)
<1>1. NodeGpuUsed = CP!Allocated
  BY DEF NodeGpuUsed, CP!Allocated, CP!NodeIds, MapThenSumSet, CP!MapThenSumSet, MapThenFoldSet,
         CP!MapThenFoldSet, MilliGpuCapacity, CP!MilliGpuCapacity, MILLI, CP!MILLI
<1>2. CP!Allocated = CP!Total(CP!Asked, CP!AdmittedPods)
  BY ClusterArguments, CP!AllocatedIsAdmitted DEF Engines
<1>3. CP!AdmittedPods = NodeAdmitted /\ CP!Asked = Asks(pods, "milli_gpu")
  BY DEF CP!AdmittedPods, NodeAdmitted, CP!Asked, CP!Asks, Asks
<1>4. ASSUME NEW f, NEW S PROVE CP!Total(f, S) = Total(f, S)
  BY DEF CP!Total, Total, CP!MapThenSumSet, MapThenSumSet, CP!MapThenFoldSet, MapThenFoldSet
<1> QED
  BY <1>1, <1>2, <1>3, <1>4

\* What H-TAFM reports as used is what the demands it admitted ask for.
LEMMA HtafmGpuUsedIs ==
  ASSUME Engines
  PROVE  HtafmGpuUsed = Total(HP!AsksInTotal, HtafmAdmitted)
<1> DEFINE N == DOMAIN NodesMaster
<1>1. DOMAIN nodes = N /\ \A n \in DOMAIN nodes : nodes[n].milli_gpu_left_list \in Seq({HP!MILLI})
  <2>1. N # {}
    BY MatrixAssumption
  <2> QED
    BY <2>1, SameCluster DEF Engines
<1>2. H!UnallocatedGpus = HP!UnallocatedGpus
  <2>1. \A l : H!FreeVector(l) = HP!FreeVector(l)
    BY SameVertices
  <2> QED
    BY <2>1 DEF H!UnallocatedGpus, HP!UnallocatedGpus, H!MapThenSumSet, HP!MapThenSumSet,
                H!MapThenFoldSet, HP!MapThenFoldSet, MapThenFoldSet
<1>3. /\ HP!UnallocatedGpus = HP!MILLI * HP!Total(HP!NodeGpus, DOMAIN nodes)
                              - HP!Total(HP!AsksInTotal, HP!Admitted)
      /\ HP!Total(HP!NodeGpus, DOMAIN nodes) \in Nat /\ HP!Total(HP!AsksInTotal, HP!Admitted) \in Nat
  BY <1>1, HtafmArguments, HP!UnallocatedIs DEF Engines
<1>4. IsFiniteSet(N) /\ \A n \in N : HP!NodeGpus[n] \in Int /\ Devices[n] = MILLI * HP!NodeGpus[n]
  <2>1. Len(NodesMaster) \in Nat /\ N = 1 .. Len(NodesMaster)
    BY MatrixAssumption
  <2>2. IsFiniteSet(N)
    BY <2>1, UpTo, Zenon
  <2>3. ASSUME NEW n \in N PROVE HP!NodeGpus[n] \in Int /\ Devices[n] = MILLI * HP!NodeGpus[n]
    <3>1. NodesMaster[n].gpu_count \in Nat
      <4>1. NodesMaster[n] \in NodeResource
        BY MatrixAssumption
      <4> QED
        BY <4>1 DEF NodeResource
    <3>2. HP!NodeGpus[n] = NodesMaster[n].gpu_count
      BY <1>1, SameCluster DEF Engines, HP!NodeGpus
    <3> QED
      BY <3>1, <3>2 DEF Devices, MILLI
  <2> QED
    BY <2>2, <2>3
<1>5. HP!MILLI = MILLI /\ MILLI \in Int
  BY DEF HP!MILLI, MILLI
<1> HIDE DEF N
<1>6. Total(Devices, N) = MILLI * Total(HP!NodeGpus, N)
  BY <1>4, <1>5, TotalTimes
<1>7. HtafmGpuUsed = Total(Devices, N) - H!UnallocatedGpus
  BY MatrixSums DEF HtafmGpuUsed, N
<1>8. /\ HP!Total(HP!NodeGpus, DOMAIN nodes) = Total(HP!NodeGpus, N)
      /\ HP!Total(HP!AsksInTotal, HP!Admitted) = Total(HP!AsksInTotal, HtafmAdmitted)
  BY <1>1, SameSums, JobFacts
<1>9. \A k, t \in Nat : MILLI * k - (MILLI * k - t) = t
  BY DEF MILLI
<1> QED
  BY <1>2, <1>3, <1>5, <1>6, <1>7, <1>8, <1>9

\* The rows of the two engines can be compared: H-TAFM admits nothing to a node
\* that the other engine would have no room for there, and where they admit the
\* same pods one row reports as much GPU used as the other, but for what the number
\* of devices, which may be 0, makes of a pod's milli_gpu
\* (full_scenario_matrix.py:66-81, 104, 120-126, htafm_demo.py:35, 67, 82).
THEOREM RowsAreComparable == CompareSpec => []RowsComparable
<1>1. ASSUME Engines PROVE RowsComparable
  <2>1. \A n \in DOMAIN NodesMaster : PlacedFits(n)
    BY <1>1, NodeFits
  <2>2. ASSUME NodeAdmitted = HtafmAdmitted
        PROVE  HtafmGpuUsed - NodeGpuUsed
                 = MapThenSumSet(LAMBDA i : Surplus(demands[i]), HtafmAdmitted)
    <3> DEFINE K == HtafmAdmitted
               gpu == Asks(pods, "milli_gpu")
    <3>1. K \in SUBSET DOMAIN pods /\ IsFiniteSet(K)
      BY <1>1, JobFacts
    <3>2. \A i \in K : /\ gpu[i] \in Int /\ Surpluses[i] \in Int
                       /\ HP!AsksInTotal[i] = gpu[i] + Surpluses[i]
      BY <1>1, <3>1, JobFacts DEF Asks, Surpluses
    <3>3. /\ HtafmGpuUsed = Total(HP!AsksInTotal, K) /\ NodeGpuUsed = Total(gpu, K)
          /\ MapThenSumSet(LAMBDA i : Surplus(demands[i]), HtafmAdmitted) = Total(Surpluses, K)
      BY <1>1, <2>2, HtafmGpuUsedIs, NodeGpuUsedIs, MatrixSums
    <3>4. Total(HP!AsksInTotal, K) = Total(gpu, K) + Total(Surpluses, K)
          /\ Total(gpu, K) \in Int /\ Total(Surpluses, K) \in Int
      <4> HIDE DEF K, gpu
      <4> QED
        BY <3>1, <3>2, TotalPlus, TotalType
    <3>5. HtafmGpuUsed - NodeGpuUsed = Total(Surpluses, K)
      <4> HIDE DEF K, gpu
      <4> QED
        BY <3>3, <3>4
    <3> QED
      BY <3>3, <3>5
  <2> QED
    BY <2>1, <2>2 DEF RowsComparable
<1> QED
  BY <1>1, EnginesAlways, PTL
=============================================================================
