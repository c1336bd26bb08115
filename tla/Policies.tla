------------------------------ MODULE Policies ------------------------------
(***************************************************************************)
(* The ten scheduling policies of k8s_sim/policies.py and the scores of    *)
(* k8s_sim/fragmentation.py they use.  A policy is given a pod and what is *)
(* left of every node and picks one of the nodes with room.                *)
(*                                                                         *)
(* Chosen(..) is a set: {} is Python's None, more than one node means that *)
(* the outcome is not determined.  It is not for `random', nor where the   *)
(* exact scores of two nodes tie but the code compares sums or differences *)
(* of floating-point quotients: 0.6 - 0.4 is less than 0.4 - 0.2 there.    *)
(* Where a score is an integer or one correctly rounded quotient, equal    *)
(* scores compare equal and min() or max() returns the first.              *)
(*                                                                         *)
(* Nodes are numbered in the order of Cluster.node_list.  Scores are exact *)
(* fractions <<numerator, denominator>>.  Names Name_Bug: see EventRuntime.*)
(***************************************************************************)
EXTENDS Resources, Sequences

CONSTANT NodeList        \* the cluster's NodeResources, in dict order

ASSUME NodeListAssumption == NodeList \in Seq(NodeResource) /\ NodeList # <<>>

NodeIds == DOMAIN NodeList

Feasible(pod, left) == {n \in NodeIds : FitsIn(pod, NodeList[n], left[n])}

-----------------------------------------------------------------------------
(* Fractions, and Python's min and max over the feasible nodes.  Equal     *)
(* denominators are kept, as TLC's integers have 32 bits.                  *)

AtMost(a, b) ==
  IF a[2] = b[2] THEN a[1] <= b[1] ELSE a[1] * b[2] <= b[1] * a[2]
Plus(a, b) ==
  IF a[2] = b[2] THEN <<a[1] + b[1], a[2]>>
  ELSE <<a[1] * b[2] + b[1] * a[2], a[2] * b[2]>>
Negated(a) == <<0 - a[1], a[2]>>

Least(S, score) == {n \in S : \A m \in S : AtMost(score[n], score[m])}
FirstOf(S) == {n \in S : \A m \in S : n <= m}

-----------------------------------------------------------------------------
(* NodeResource.cpu_utilization and gpu_utilization, exactly.              *)

UsedShare(capacity, left) ==
  IF capacity = 0 THEN <<0, 1>> ELSE <<capacity - left, capacity>>

CpuUtilization(n, left) == UsedShare(NodeList[n].milli_cpu_capacity, left.milli_cpu)
GpuUtilization(n, left) == UsedShare(MilliGpuCapacity(NodeList[n]), left.milli_gpu)

-----------------------------------------------------------------------------
(* fragmentation.py.  `typical' is [pods, weights]; the weights, fractions *)
(* of a whole in the code, are integers in some common unit.               *)

Unfit(typical, n, left) ==
  {k \in DOMAIN typical.pods : ~FitsIn(typical.pods[k], NodeList[n], left)}

WeightOf(typical, K) == MapThenSumSet(LAMBDA k : typical.weights[k], K)

UnfitFraction(typical, n, left) ==
  IF typical.pods = <<>> THEN <<0, 1>>
  ELSE <<Cardinality(Unfit(typical, n, left)), Len(typical.pods)>>

UnfitFractionWeighted(typical, n, left) ==
  IF typical.pods = <<>> THEN <<0, 1>>
  ELSE <<WeightOf(typical, Unfit(typical, n, left)), WeightOf(typical, DOMAIN typical.pods)>>

\* Nodes without GPUs are left out, as the docstring has it (139-141).
ClusterFragmentation_GpuNodes(typical, left) ==
  MapThenSumSet(LAMBDA n : UnfitFraction(typical, n, left[n])[1],
                {n \in NodeIds : NodeList[n].gpu_count > 0})

\* The sum over the nodes; the code divides it by their number.
ClusterFragmentation(typical, left) ==
  MapThenSumSet(LAMBDA n : UnfitFraction(typical, n, left[n])[1], NodeIds)

-----------------------------------------------------------------------------
Leftover(pod, left) ==
  (left.milli_cpu - pod.milli_cpu) + (left.milli_gpu - pod.milli_gpu)

BestFit_KeepsMost(pod, left) ==
  LET F == Feasible(pod, left)
  IN  FirstOf(Least(F, [n \in F |-> Negated(<<Leftover(pod, left[n]), 1>>)]))

BestFit(pod, left) ==
  LET F == Feasible(pod, left)
  IN  FirstOf(Least(F, [n \in F |-> <<Leftover(pod, left[n]), 1>>]))

WorstFit(pod, left) ==
  LET F == Feasible(pod, left)
  IN  FirstOf(Least(F, [n \in F |-> Negated(<<Leftover(pod, left[n]), 1>>)]))

GpuPacking(pod, left) ==
  LET F == Feasible(pod, left)
  IN  FirstOf(Least(F, [n \in F |-> Negated(GpuUtilization(n, left[n]))]))

LeastRequested(pod, left) ==
  LET F == Feasible(pod, left)
  IN  Least(F, [n \in F |-> Plus(CpuUtilization(n, left[n]), GpuUtilization(n, left[n]))])

\* The cursor is an index from 0; node n sits at index n - 1.
Offset(n, cursor) == (n - 1 - cursor) % Len(NodeList)

RoundRobin_OnlyCursor(pod, left, cursor) ==
  {n \in Feasible(pod, left) : Offset(n, cursor) = 0}

RoundRobin(pod, left, cursor) ==
  LET F == Feasible(pod, left)
  IN  {n \in F : \A m \in F : Offset(n, cursor) <= Offset(m, cursor)}

\* The cursor stays on the node.
CursorAfter_StaysOnNode(n) == n - 1
CursorAfter(n) == n % Len(NodeList)

\* The three gradient policies score a node by what placing the pod there
\* would add to the node's unfit fraction.
Gradient(before, after) == Plus(after, Negated(before))

Fgd_IgnoresBefore(pod, left, typical) ==
  LET F == Feasible(pod, left)
  IN  IF typical.pods = <<>> THEN BestFit(pod, left)
      ELSE Least(F, [n \in F |-> UnfitFraction(typical, n, Take(left[n], pod))])

Fgd(pod, left, typical) ==
  LET F == Feasible(pod, left)
  IN  IF typical.pods = <<>> THEN BestFit(pod, left)
      ELSE Least(F, [n \in F |-> Gradient(UnfitFraction(typical, n, left[n]),
                                   UnfitFraction(typical, n, Take(left[n], pod)))])

\* w_fgd and w_fgd_balanced fall back alike.
WeightedScore(pod, left, typical, score) ==
  IF typical.pods = <<>> THEN BestFit(pod, left)
  ELSE IF typical.weights = <<>> THEN Fgd(pod, left, typical)
  ELSE Least(Feasible(pod, left), score)

WeightedGradient(pod, n, left, typical) ==
  Gradient(UnfitFractionWeighted(typical, n, left[n]),
           UnfitFractionWeighted(typical, n, Take(left[n], pod)))

WFgd(pod, left, typical) ==
  WeightedScore(pod, left, typical,
    [n \in Feasible(pod, left) |-> WeightedGradient(pod, n, left, typical)])

BalanceLambda == <<3, 20>>

WFgdBalanced(pod, left, typical) ==
  WeightedScore(pod, left, typical,
    [n \in Feasible(pod, left) |->
       LET after == GpuUtilization(n, Take(left[n], pod))
       IN  Plus(WeightedGradient(pod, n, left, typical),
                <<BalanceLambda[1] * after[1], BalanceLambda[2] * after[2]>>)])

-----------------------------------------------------------------------------
POLICIES ==
  {"random", "first_fit", "best_fit", "worst_fit", "round_robin", "gpu_packing",
   "least_requested", "fgd", "w_fgd", "w_fgd_balanced"}

Chosen(policy, pod, left, cursor, typical) ==
  CASE policy = "random"          -> Feasible(pod, left)
    [] policy = "first_fit"       -> FirstOf(Feasible(pod, left))
    [] policy = "best_fit"        -> BestFit(pod, left)
    [] policy = "worst_fit"       -> WorstFit(pod, left)
    [] policy = "round_robin"     -> RoundRobin(pod, left, cursor)
    [] policy = "gpu_packing"     -> GpuPacking(pod, left)
    [] policy = "least_requested" -> LeastRequested(pod, left)
    [] policy = "fgd"             -> Fgd(pod, left, typical)
    [] policy = "w_fgd"           -> WFgd(pod, left, typical)
    [] policy = "w_fgd_balanced"  -> WFgdBalanced(pod, left, typical)
=============================================================================
