---------------------------- MODULE ClusterProofs ----------------------------
(***************************************************************************)
(* Proofs about Policies, Cluster and StaticRows, for every cluster, batch,*)
(* policy and set of typical pods.  First the contract of policies.py:6-8: *)
(* each of the ten policies returns a node with room whenever there is     *)
(* one.  Then the batch: what the nodes have left is what the results say, *)
(* no policy overlooks a node, round_robin is fair, and the rows reported  *)
(* of a batch agree with each other and with what was placed.              *)
(***************************************************************************)
EXTENDS StaticRows, Lemmas

\* Typical pods and their weights, as the sweeps give them to a policy.
Weighted(shapes) ==
  /\ shapes \in [pods : Seq(PodResource), weights : Seq(Nat \ {0})]
  /\ shapes.weights = <<>> \/ Len(shapes.weights) = Len(shapes.pods)

Fraction == Int \X (Nat \ {0})

-----------------------------------------------------------------------------
(* Fractions.                                                              *)

\* Fractions compare as their cross products.
LEMMA AtMostCross ==
  ASSUME NEW a \in Fraction, NEW b \in Fraction
  PROVE  AtMost(a, b) <=> a[1] * b[2] <= b[1] * a[2]
<1>1. a[1] \in Int /\ b[1] \in Int /\ a[2] \in Nat \ {0} /\ b[2] \in Nat \ {0}
  BY DEF Fraction
<1>2. \A x, y \in Int : \A d \in Nat \ {0} : x <= y <=> x * d <= y * d
  BY Z3
<1> QED
  BY <1>1, <1>2 DEF AtMost

\* Of two fractions one is at most the other.
LEMMA AtMostTotal ==
  ASSUME NEW a \in Fraction, NEW b \in Fraction
  PROVE  AtMost(a, b) \/ AtMost(b, a)
<1>1. \A x, y \in Int : x <= y \/ y <= x
  OBVIOUS
<1>2. a[1] * b[2] \in Int /\ b[1] * a[2] \in Int
  BY DEF Fraction
<1> QED
  BY <1>1, <1>2, AtMostCross

\* Comparing fractions is transitive.
LEMMA AtMostTransitive ==
  ASSUME NEW a \in Fraction, NEW b \in Fraction, NEW c \in Fraction, AtMost(a, b), AtMost(b, c)
  PROVE  AtMost(a, c)
<1>1. /\ a[1] \in Int /\ b[1] \in Int /\ c[1] \in Int
      /\ a[2] \in Nat \ {0} /\ b[2] \in Nat \ {0} /\ c[2] \in Nat \ {0}
  BY DEF Fraction
<1>2. a[1] * b[2] <= b[1] * a[2] /\ b[1] * c[2] <= c[1] * b[2]
  BY AtMostCross
<1>3. \A x, y \in Int : \A d \in Nat \ {0} : x <= y <=> x * d <= y * d
  BY Z3
<1>4. (a[1] * b[2]) * c[2] <= (b[1] * a[2]) * c[2]
  BY <1>1, <1>2, <1>3
<1>5. (b[1] * c[2]) * a[2] <= (c[1] * b[2]) * a[2]
  BY <1>1, <1>2, <1>3
<1>6. (a[1] * c[2]) * b[2] <= (c[1] * a[2]) * b[2]
  BY <1>1, <1>4, <1>5, Z3
<1>7. a[1] * c[2] <= c[1] * a[2]
  BY <1>1, <1>3, <1>6
<1> QED
  BY <1>7, AtMostCross

\* Fractions are closed under addition and negation.
LEMMA PlusType ==
  ASSUME NEW a \in Fraction, NEW b \in Fraction
  PROVE  Plus(a, b) \in Fraction /\ Negated(a) \in Fraction
<1>1. a[1] \in Int /\ b[1] \in Int /\ a[2] \in Nat \ {0} /\ b[2] \in Nat \ {0}
  BY DEF Fraction
<1>2. a[2] * b[2] \in Nat \ {0}
  BY <1>1, Z3
<1> QED
  BY <1>1, <1>2 DEF Plus, Negated, Fraction

\* min() over a set that is not empty returns something.
LEMMA LeastExists ==
  ASSUME NEW S, IsFiniteSet(S), S # {}, NEW score, \A n \in S : score[n] \in Fraction
  PROVE  Least(S, score) # {}
<1> DEFINE Below(n) == {m \in S : AtMost(score[m], score[n])}
           Sets == {Below(n) : n \in S}
<1>1. Sets \subseteq SUBSET S /\ Sets # {}
  OBVIOUS
<1>2. PICK U \in Sets : \A V \in Sets : V \subseteq U => V = U
  <2> HIDE DEF Sets
  <2> QED
    BY <1>1, MinimalSubset
<1>3. PICK n \in S : U = Below(n)
  OBVIOUS
<1>4. ASSUME NEW m \in S PROVE AtMost(score[n], score[m])
  <2>1. CASE AtMost(score[m], score[n])
    <3>1. Below(m) \subseteq Below(n)
      BY <2>1, AtMostTransitive
    <3>2. Below(m) = Below(n)
      BY <1>2, <1>3, <3>1
    <3>3. n \in Below(n)
      BY AtMostTotal
    <3> QED
      BY <3>2, <3>3
  <2> QED
    BY <2>1, AtMostTotal
<1> QED
  BY <1>4 DEF Least

-----------------------------------------------------------------------------
(* Scores.                                                                 *)

\* Nodes are numbered from 1, and there is one.
LEMMA NodeFacts ==
  /\ IsFiniteSet(NodeIds) /\ NodeIds = 1 .. Len(NodeList) /\ Len(NodeList) \in Nat \ {0}
  /\ \A n \in NodeIds : NodeList[n] \in NodeResource
<1>1. NodeList \in Seq(NodeResource) /\ NodeList # <<>>
  BY NodeListAssumption
<1> QED
  BY <1>1, FS_Interval DEF NodeIds

\* Utilizations are fractions, also of a capacity of zero.
LEMMA UtilizationType ==
  ASSUME NEW n \in NodeIds, NEW left \in Remaining
  PROVE  CpuUtilization(n, left) \in Fraction /\ GpuUtilization(n, left) \in Fraction
<1>1. NodeList[n] \in NodeResource
  BY NodeFacts
<1>2. NodeList[n].milli_cpu_capacity \in Nat /\ MilliGpuCapacity(NodeList[n]) \in Nat
  BY <1>1 DEF MilliGpuCapacity, MILLI, NodeResource
<1>3. left.milli_cpu \in Int /\ left.milli_gpu \in Int
  BY DEF Remaining
<1> QED
  BY <1>2, <1>3 DEF CpuUtilization, GpuUtilization, UsedShare, Fraction

\* Unfit fractions are fractions: their denominators are not zero.
LEMMA UnfitFractionType ==
  ASSUME NEW shapes, Weighted(shapes), shapes.pods # <<>>, NEW n, NEW left
  PROVE  /\ UnfitFraction(shapes, n, left) \in Fraction
         /\ shapes.weights # <<>> => UnfitFractionWeighted(shapes, n, left) \in Fraction
<1> DEFINE K == DOMAIN shapes.pods
           W == shapes.weights
<1>1. /\ Len(shapes.pods) \in Nat \ {0} /\ K = 1 .. Len(shapes.pods)
      /\ IsFiniteSet(K)
  BY FS_Interval DEF Weighted
<1>2. Unfit(shapes, n, left) \in SUBSET K
  BY DEF Unfit
<1>3. Cardinality(Unfit(shapes, n, left)) \in Nat
  BY <1>1, <1>2, FS_Subset, FS_CardinalityType
<1>4. UnfitFraction(shapes, n, left) \in Fraction
  BY <1>1, <1>3 DEF UnfitFraction, Fraction
<1>5. ASSUME W # <<>> PROVE UnfitFractionWeighted(shapes, n, left) \in Fraction
  <2>1. \A k \in K : W[k] \in Nat /\ W[k] > 0
    BY <1>1, <1>5 DEF Weighted
  <2>2. ASSUME NEW J \in SUBSET K PROVE WeightOf(shapes, J) = Total(W, J) /\ Total(W, J) \in Nat
    <3>1. IsFiniteSet(J)
      BY <1>1, FS_Subset
    <3>2. Total(W, J) \in Nat
      BY <2>1, <3>1, TotalType
    <3> QED
      BY <3>2 DEF WeightOf, Total
  <2>3. Total(W, K) > 0
    <3>1. First(K) \in K
      <4>1. 1 \in K
        BY <1>1
      <4> QED
        BY <4>1, FirstIn, Zenon
    <3>2. Total(W, K) = W[First(K)] + Total(W, K \ {First(K)})
      BY <1>1, <3>1, TotalUnroll
    <3>3. Total(W, K \ {First(K)}) \in Nat
      BY <2>2
    <3> QED
      BY <2>1, <3>1, <3>2, <3>3
  <2> QED
    BY <1>2, <2>2, <2>3 DEF UnfitFractionWeighted, Fraction
<1> QED
  BY <1>4, <1>5

-----------------------------------------------------------------------------
(* The policies.                                                           *)

\* Every policy's choice from the nodes F that have room.
Keeps(F, choice) == choice \subseteq F /\ (F # {} => choice # {})

\* min() over the nodes with room keeps the contract.
LEMMA LeastKeeps ==
  ASSUME NEW F \in SUBSET NodeIds, NEW score, \A n \in F : score[n] \in Fraction
  PROVE  Keeps(F, Least(F, score))
<1>1. IsFiniteSet(F)
  BY NodeFacts, FS_Subset
<1> QED
  BY <1>1, LeastExists DEF Keeps, Least

\* So does the first node with room.
LEMMA FirstOfKeeps ==
  ASSUME NEW F \in SUBSET NodeIds
  PROVE  Keeps(F, FirstOf(F))
<1> DEFINE score == [n \in F |-> <<n, 1>>]
<1>1. \A n \in F : n \in Int
  BY NodeFacts
<1>2. \A n \in F : score[n] \in Fraction
  BY <1>1 DEF Fraction
<1>3. Least(F, score) = FirstOf(F)
  BY <1>1 DEF Least, FirstOf, AtMost
<1> QED
  BY <1>2, <1>3, LeastKeeps

\* So does the first of the least.
LEMMA FirstLeastKeeps ==
  ASSUME NEW F \in SUBSET NodeIds, NEW score, \A n \in F : score[n] \in Fraction
  PROVE  Keeps(F, FirstOf(Least(F, score)))
<1>1. Keeps(F, Least(F, score))
  BY LeastKeeps
<1>2. Least(F, score) \in SUBSET NodeIds
  BY <1>1 DEF Keeps
<1>3. Keeps(Least(F, score), FirstOf(Least(F, score)))
  BY <1>2, FirstOfKeeps
<1> QED
  BY <1>1, <1>3 DEF Keeps

\* So does the walk from the cursor (policies.py:80-96), wherever it stands.
LEMMA RoundRobinKeeps ==
  ASSUME NEW pod, NEW left, NEW cursor \in Int
  PROVE  Keeps(Feasible(pod, left), RoundRobin(pod, left, cursor))
<1> DEFINE F == Feasible(pod, left)
           score == [n \in F |-> <<Offset(n, cursor), 1>>]
<1>1. F \in SUBSET NodeIds
  BY DEF Feasible
<1>2. \A n \in F : Offset(n, cursor) \in Int
  BY <1>1, NodeFacts DEF Offset
<1> HIDE DEF F
<1>3. \A n \in F : score[n] \in Fraction
  BY <1>2 DEF Fraction
<1>4. Least(F, score) = RoundRobin(pod, left, cursor)
  BY <1>2 DEF Least, RoundRobin, AtMost, F
<1> QED
  BY <1>1, <1>3, <1>4, LeastKeeps DEF F

\* A gradient is a fraction.
LEMMA GradientType ==
  ASSUME NEW shapes, Weighted(shapes), shapes.pods # <<>>,
         NEW pod, NEW n, NEW left
  PROVE  /\ Gradient(UnfitFraction(shapes, n, left[n]),
                     UnfitFraction(shapes, n, Take(left[n], pod))) \in Fraction
         /\ shapes.weights # <<>> => WeightedGradient(pod, n, left, shapes) \in Fraction
BY UnfitFractionType, PlusType DEF Gradient, WeightedGradient

\* best_fit and worst_fit keep the contract (policies.py:50-76).
LEMMA BestFitKeeps ==
  ASSUME NEW pod \in PodResource, NEW left \in [NodeIds -> Remaining]
  PROVE  /\ Keeps(Feasible(pod, left), BestFit(pod, left))
         /\ Keeps(Feasible(pod, left), WorstFit(pod, left))
<1> DEFINE F == Feasible(pod, left)
           most == [n \in F |-> <<Leftover(pod, left[n]), 1>>]
           least == [n \in F |-> Negated(<<Leftover(pod, left[n]), 1>>)]
<1>1. F \in SUBSET NodeIds
  BY DEF Feasible
<1> HIDE DEF F
<1>2. \A n \in F : Leftover(pod, left[n]) \in Int
  BY <1>1 DEF Leftover, Remaining, PodResource
<1>3. \A n \in F : most[n] \in Fraction /\ least[n] \in Fraction
  BY <1>2 DEF Fraction, Negated
<1> HIDE DEF most, least
<1>4. Keeps(F, FirstOf(Least(F, most))) /\ Keeps(F, FirstOf(Least(F, least)))
  BY <1>1, <1>3, FirstLeastKeeps
<1> QED
  BY <1>4 DEF BestFit, WorstFit, F, most, least

\* gpu_packing and least_requested keep it (policies.py:99-116).
LEMMA UtilizationKeeps ==
  ASSUME NEW pod, NEW left \in [NodeIds -> Remaining]
  PROVE  /\ Keeps(Feasible(pod, left), GpuPacking(pod, left))
         /\ Keeps(Feasible(pod, left), LeastRequested(pod, left))
<1> DEFINE F == Feasible(pod, left)
           packed == [n \in F |-> Negated(GpuUtilization(n, left[n]))]
           used == [n \in F |-> Plus(CpuUtilization(n, left[n]), GpuUtilization(n, left[n]))]
<1>1. F \in SUBSET NodeIds
  BY DEF Feasible
<1> HIDE DEF F
<1>2. \A n \in F : packed[n] \in Fraction /\ used[n] \in Fraction
  BY <1>1, UtilizationType, PlusType
<1> HIDE DEF packed, used
<1>3. Keeps(F, FirstOf(Least(F, packed))) /\ Keeps(F, Least(F, used))
  BY <1>1, <1>2, FirstLeastKeeps, LeastKeeps
<1> QED
  BY <1>3 DEF GpuPacking, LeastRequested, F, packed, used

\* fgd keeps it, with typical pods and without.
LEMMA FgdKeeps ==
  ASSUME NEW pod \in PodResource, NEW left \in [NodeIds -> Remaining],
         NEW shapes, Weighted(shapes)
  PROVE  Keeps(Feasible(pod, left), Fgd(pod, left, shapes))
<1> DEFINE F == Feasible(pod, left)
           score == [n \in F |-> Gradient(UnfitFraction(shapes, n, left[n]),
                                          UnfitFraction(shapes, n, Take(left[n], pod)))]
<1>1. F \in SUBSET NodeIds
  BY DEF Feasible
<1> HIDE DEF F
<1>2. CASE shapes.pods = <<>>
  BY <1>2, BestFitKeeps DEF Fgd
<1>3. CASE shapes.pods # <<>>
  <2>1. \A n \in F : score[n] \in Fraction
    BY <1>3, GradientType
  <2> HIDE DEF score
  <2>2. Keeps(F, Least(F, score))
    BY <1>1, <2>1, LeastKeeps
  <2> QED
    BY <1>3, <2>2 DEF Fgd, F, score
<1> QED
  BY <1>2, <1>3

\* The weighted policies keep it, also where they fall back.
LEMMA WeightedScoreKeeps ==
  ASSUME NEW pod \in PodResource, NEW left \in [NodeIds -> Remaining],
         NEW shapes, Weighted(shapes), NEW score,
         shapes.pods # <<>> /\ shapes.weights # <<>> =>
           \A n \in Feasible(pod, left) : score[n] \in Fraction
  PROVE  Keeps(Feasible(pod, left), WeightedScore(pod, left, shapes, score))
<1>1. Feasible(pod, left) \in SUBSET NodeIds
  BY DEF Feasible
<1>2. CASE shapes.pods = <<>>
  BY <1>2, BestFitKeeps DEF WeightedScore
<1>3. CASE shapes.pods # <<>> /\ shapes.weights = <<>>
  BY <1>3, FgdKeeps DEF WeightedScore
<1>4. CASE shapes.pods # <<>> /\ shapes.weights # <<>>
  BY <1>1, <1>4, LeastKeeps DEF WeightedScore
<1> QED
  BY <1>2, <1>3, <1>4

\* w_fgd and w_fgd_balanced keep it.
LEMMA WFgdKeeps ==
  ASSUME NEW pod \in PodResource, NEW left \in [NodeIds -> Remaining],
         NEW shapes, Weighted(shapes)
  PROVE  /\ Keeps(Feasible(pod, left), WFgd(pod, left, shapes))
         /\ Keeps(Feasible(pod, left), WFgdBalanced(pod, left, shapes))
<1> DEFINE F == Feasible(pod, left)
           After(n) == GpuUtilization(n, Take(left[n], pod))
           Penalty(n) == <<BalanceLambda[1] * After(n)[1], BalanceLambda[2] * After(n)[2]>>
           plain == [n \in F |-> WeightedGradient(pod, n, left, shapes)]
           balanced == [n \in F |-> Plus(WeightedGradient(pod, n, left, shapes), Penalty(n))]
<1>1. F \in SUBSET NodeIds
  BY DEF Feasible
<1>2. ASSUME NEW n \in F PROVE Penalty(n) \in Fraction
  <2>1. Take(left[n], pod) \in Remaining
    BY <1>1, TakeType
  <2>2. After(n) \in Fraction
    BY <1>1, <2>1, UtilizationType
  <2> HIDE DEF After
  <2> QED
    BY <2>2 DEF BalanceLambda, Fraction
<1> HIDE DEF F, Penalty
<1>3. shapes.pods # <<>> /\ shapes.weights # <<>> =>
        \A n \in F : plain[n] \in Fraction /\ balanced[n] \in Fraction
  BY <1>2, GradientType, PlusType
<1> HIDE DEF plain, balanced
<1>4. /\ Keeps(F, WeightedScore(pod, left, shapes, plain))
      /\ Keeps(F, WeightedScore(pod, left, shapes, balanced))
  BY <1>3, WeightedScoreKeeps DEF F
<1> QED
  BY <1>4 DEF WFgd, WFgdBalanced, F, plain, balanced, Penalty

\* A policy returns None only when no node has room for the pod, and otherwise
\* a node with room (policies.py:6-8), whatever the cursor, the cluster's
\* state, the typical pods and their weights.
THEOREM PolicyContract ==
  ASSUME NEW name \in POLICIES, NEW pod \in PodResource,
         NEW left \in [NodeIds -> Remaining], NEW cursor \in Int,
         NEW shapes, Weighted(shapes)
  PROVE  Keeps(Feasible(pod, left), Chosen(name, pod, left, cursor, shapes))
<1> DEFINE F == Feasible(pod, left)
<1>1. F \in SUBSET NodeIds
  BY DEF Feasible
<1>2. Keeps(F, F)
  BY DEF Keeps
<1>3. Keeps(F, FirstOf(F))
  BY <1>1, FirstOfKeeps
<1> QED
  BY <1>2, <1>3, BestFitKeeps, RoundRobinKeeps, UtilizationKeeps, FgdKeeps, WFgdKeeps
  DEF POLICIES, Chosen

-----------------------------------------------------------------------------
(* A turn of schedule_pods.                                                *)

\* The policy, the batch and the results are what the policies expect.
LEMMA ArgumentFacts ==
  ASSUME TypeOK
  PROVE  /\ policy \in POLICIES /\ Weighted(typical) /\ round_robin_state \in Int
         /\ Len(pods) \in Nat /\ DOMAIN pods = 1 .. Len(pods)
         /\ \A k \in DOMAIN pods : pods[k] \in PodResource
         /\ Len(results) \in Nat /\ DOMAIN results = 1 .. Len(results)
         /\ \A k \in DOMAIN results : results[k] \in NodeIds \cup {None}
<1>1. pods \in Seq(PodResource) /\ results \in Seq(NodeIds \cup {None})
  BY ArgumentsAssumption DEF TypeOK
<1>2. typical \in Typicals /\ policy \in POLICIES
  BY ArgumentsAssumption DEF TypeOK
<1>3. Weighted(typical)
  BY <1>2, ArgumentsAssumption DEF Weighted, Typical
<1>4. round_robin_state \in Int
  BY NodeFacts DEF TypeOK
<1> QED
  BY <1>1, <1>2, <1>3, <1>4

\* The policy keeps its contract on the next pod of the batch.
LEMMA ChoiceKeeps ==
  ASSUME TypeOK, Unscheduled
  PROVE  NextPod \in PodResource /\ Keeps(Feasible(NextPod, remaining), Choice)
<1>1. NextPod \in PodResource
  BY ArgumentFacts DEF Unscheduled, NextPod
<1>2. remaining \in [NodeIds -> Remaining]
  BY DEF TypeOK
<1> QED
  BY <1>1, <1>2, ArgumentFacts, PolicyContract DEF Choice

\* A pod that is placed: on a node with room, of which it takes its share.
LEMMA PlacedFacts ==
  ASSUME TypeOK, NEW n \in NodeIds, Placed(n)
  PROVE  /\ FitsIn(NextPod, NodeList[n], remaining[n])
         /\ remaining'[n] = Take(remaining[n], NextPod)
         /\ \A m \in NodeIds : m # n => remaining'[m] = remaining[m]
         /\ Len(results') = Len(results) + 1
         /\ results'[Len(results) + 1] = n
         /\ \A k \in DOMAIN results : results'[k] = results[k]
         /\ DOMAIN results' = DOMAIN results \cup {Len(results) + 1}
         /\ Len(results) + 1 \in DOMAIN pods
<1>1. n \in Feasible(NextPod, remaining)
  BY ChoiceKeeps DEF Placed, Keeps
<1>2. remaining \in [NodeIds -> Remaining] /\ results \in Seq(NodeIds \cup {None})
  BY DEF TypeOK
<1>3. /\ remaining' = [remaining EXCEPT ![n] = Take(remaining[n], NextPod)]
      /\ results' = Append(results, n) /\ Unscheduled
  BY DEF Placed
<1>4. Len(results) + 1 \in DOMAIN pods
  BY <1>3, ArgumentFacts DEF Unscheduled
<1> QED
  BY <1>1, <1>2, <1>3, <1>4 DEF Feasible

\* What lacks room keeps lacking it: nothing is released.
LEMMA OnlyConsumes ==
  ASSUME TypeOK, NEW n \in NodeIds, Placed(n), NEW pod \in PodResource, NEW m \in NodeIds,
         FitsIn(pod, NodeList[m], remaining'[m])
  PROVE  FitsIn(pod, NodeList[m], remaining[m])
<1>1. NextPod \in PodResource
  BY ChoiceKeeps DEF Placed
<1>2. remaining[m] \in Remaining
  BY DEF TypeOK
<1>3. CASE m = n
  BY <1>1, <1>2, <1>3, PlacedFacts, PlacingOnlyConsumes
<1>4. CASE m # n
  BY <1>4, PlacedFacts
<1> QED
  BY <1>3, <1>4

\* A rejected pod had room nowhere and is recorded as None.
LEMMA RejectedFacts ==
  ASSUME TypeOK, Rejected
  PROVE  /\ Feasible(NextPod, remaining) = {}
         /\ Len(results') = Len(results) + 1
         /\ results'[Len(results) + 1] = None
         /\ \A k \in DOMAIN results : results'[k] = results[k]
         /\ DOMAIN results' = DOMAIN results \cup {Len(results) + 1}
         /\ Len(results) + 1 \in DOMAIN pods
<1>1. Feasible(NextPod, remaining) = {}
  BY ChoiceKeeps DEF Rejected, Keeps
<1>2. results \in Seq(NodeIds \cup {None}) /\ results' = Append(results, None)
  BY DEF TypeOK, Rejected
<1>3. Len(results) + 1 \in DOMAIN pods
  BY ArgumentFacts DEF Rejected, Unscheduled
<1> QED
  BY <1>1, <1>2, <1>3

-----------------------------------------------------------------------------
(* Types.                                                                  *)

\* A fresh copy of the cluster is well typed.
LEMMA TypeInit == Init => TypeOK
<1> SUFFICES ASSUME Init PROVE TypeOK
  OBVIOUS
<1>1. \A n \in NodeIds : Empty(NodeList[n]) \in Remaining
  BY NodeFacts, EmptyType
<1>2. pods \in Seq(PodResource) /\ Len(NodeList) \in Nat \ {0}
  BY NodeFacts, ArgumentsAssumption DEF Init
<1> QED
  BY <1>1, <1>2 DEF Init, TypeOK

\* schedule_pod keeps the types (cluster.py:43-61).
LEMMA TypeNext ==
  ASSUME TypeOK, [Next]_vars
  PROVE  TypeOK'
<1>1. ASSUME NEW n \in NodeIds, Placed(n) PROVE TypeOK'
  <2>1. NextPod \in PodResource /\ Unscheduled
    BY <1>1, ChoiceKeeps DEF Placed
  <2>2. remaining' \in [NodeIds -> Remaining]
    <3>1. Take(remaining[n], NextPod) \in Remaining
      BY <2>1, TakeType DEF TypeOK
    <3> QED
      BY <1>1, <3>1 DEF TypeOK, Placed
  <2>3. CursorAfter(n) \in 0 .. Len(NodeList) - 1
    BY NodeFacts, Z3 DEF CursorAfter
  <2>4. round_robin_state' \in 0 .. Len(NodeList) - 1
    BY <1>1, <2>3 DEF Placed, TypeOK
  <2>5. results' \in Seq(NodeIds \cup {None}) /\ Len(results') <= Len(pods)
    BY <1>1, <2>1, ArgumentFacts DEF Placed, TypeOK, Unscheduled
  <2> QED
    BY <1>1, <2>2, <2>4, <2>5 DEF TypeOK, Placed, arguments
<1>2. CASE Rejected
  <2>1. results' \in Seq(NodeIds \cup {None}) /\ Len(results') <= Len(pods)
    BY <1>2, ArgumentFacts DEF Rejected, TypeOK, Unscheduled
  <2> QED
    BY <1>2, <2>1 DEF TypeOK, Rejected, arguments
<1>3. CASE UNCHANGED vars
  BY <1>3 DEF TypeOK, vars, arguments
<1> QED
  BY <1>1, <1>2, <1>3 DEF Next

\* Counters stay integers, the cursor stays an index of node_list, and there
\* is one result per pod scheduled.
THEOREM ClusterTyped == Spec => []TypeOK
BY TypeInit, TypeNext, PTL DEF Spec

-----------------------------------------------------------------------------
(* Rejected pods.                                                          *)

\* No pod gains room while others are placed, so none was overlooked.
LEMMA RejectedNext ==
  ASSUME TypeOK, RejectedStaysUnfit, [Next]_vars
  PROVE  RejectedStaysUnfit'
<1>1. ASSUME NEW n \in NodeIds, Placed(n) PROVE RejectedStaysUnfit'
  <2> SUFFICES ASSUME NEW k \in DOMAIN results', results'[k] = None,
                      NEW m \in NodeIds, FitsIn(pods[k], NodeList[m], remaining'[m])
               PROVE  FALSE
    BY <1>1 DEF RejectedStaysUnfit, Feasible, Placed, arguments
  <2>1. k \in DOMAIN results /\ results[k] = None
    BY <1>1, PlacedFacts, ArgumentsAssumption
  <2>2. pods[k] \in PodResource
    BY <2>1, ArgumentFacts DEF TypeOK
  <2>3. FitsIn(pods[k], NodeList[m], remaining[m])
    BY <1>1, <2>2, OnlyConsumes
  <2> QED
    BY <2>1, <2>3 DEF RejectedStaysUnfit, Feasible
<1>2. CASE Rejected
  <2>1. UNCHANGED <<pods, remaining>>
    BY <1>2 DEF Rejected, arguments
  <2>2. NextPod = pods[Len(results) + 1]
    BY DEF NextPod
  <2> QED
    BY <1>2, <2>1, <2>2, RejectedFacts DEF RejectedStaysUnfit, Feasible
<1>3. CASE UNCHANGED vars
  BY <1>3 DEF RejectedStaysUnfit, Feasible, vars, arguments
<1> QED
  BY <1>1, <1>2, <1>3 DEF Next

\* No policy overlooks a node: a pod rejected by any of the ten fits nowhere,
\* then and for the rest of the batch (policies.py:6-8, cluster.py:66-79).
THEOREM NobodyOverlooked == Spec => []RejectedStaysUnfit
<1>1. Init => RejectedStaysUnfit
  BY DEF Init, RejectedStaysUnfit
<1> QED
  BY <1>1, RejectedNext, ClusterTyped, PTL DEF Spec

-----------------------------------------------------------------------------
(* Counters.                                                               *)

\* The pods placed on a node are pods of the batch, each at its place in it.
LEMMA PlacedOnFacts ==
  ASSUME TypeOK, NEW n \in NodeIds
  PROVE  /\ PlacedOn(n) \in SUBSET DOMAIN pods /\ IsFiniteSet(PlacedOn(n))
         /\ Len(results) + 1 \notin PlacedOn(n)
         /\ Empty(NodeList[n]) \in Remaining
<1>1. DOMAIN results \subseteq DOMAIN pods
  BY ArgumentFacts DEF TypeOK
<1>2. IsFiniteSet(DOMAIN pods)
  BY ArgumentFacts, FS_Interval
<1>3. PlacedOn(n) \in SUBSET DOMAIN pods
  BY <1>1 DEF PlacedOn
<1>4. IsFiniteSet(PlacedOn(n))
  BY <1>2, <1>3, FS_Subset
<1> QED
  BY <1>3, <1>4, NodeFacts, EmptyType, ArgumentFacts DEF PlacedOn

\* add() charges the pod placed to its node, and to no other (resource.py:71-81).
LEMMA AccountNext ==
  ASSUME TypeOK, ResultsAccountFor, [Next]_vars
  PROVE  ResultsAccountFor'
<1>1. ASSUME NEW n \in NodeIds, Placed(n) PROVE ResultsAccountFor'
  <2> DEFINE k == Len(results) + 1
  <2>1. pods' = pods /\ k \in DOMAIN pods /\ NextPod = pods[k]
    BY <1>1, PlacedFacts DEF Placed, arguments, NextPod
  <2>2. SUFFICES ASSUME NEW m \in NodeIds
                 PROVE  /\ remaining'[m] = TakeAll(Empty(NodeList[m]), pods, PlacedOn(m)')
                        /\ NotOvercommitted(remaining'[m])
    BY <2>1 DEF ResultsAccountFor
  <2>3. /\ remaining[m] = TakeAll(Empty(NodeList[m]), pods, PlacedOn(m))
        /\ NotOvercommitted(remaining[m])
    BY DEF ResultsAccountFor
  <2>4. CASE m # n
    <3>1. PlacedOn(m)' = PlacedOn(m)
      BY <1>1, <2>4, PlacedFacts DEF PlacedOn
    <3> QED
      BY <1>1, <2>3, <2>4, <3>1, PlacedFacts
  <2>5. CASE m = n
    <3>1. PlacedOn(n)' = PlacedOn(n) \cup {k}
      BY <1>1, PlacedFacts DEF PlacedOn
    <3>2. TakeAll(Empty(NodeList[n]), pods, PlacedOn(n) \cup {k}) =
            Take(TakeAll(Empty(NodeList[n]), pods, PlacedOn(n)), pods[k])
      BY <2>1, PlacedOnFacts, ArgumentFacts, TakeOneMore
    <3>3. pods[k] \in PodResource /\ remaining[n] \in Remaining
      BY <2>1, ArgumentFacts DEF TypeOK
    <3>4. NotOvercommitted(Take(remaining[n], pods[k]))
      BY <1>1, <2>1, <3>3, PlacedFacts, RoomSuffices
    <3> QED
      BY <1>1, <2>1, <2>3, <2>5, <3>1, <3>2, <3>4, PlacedFacts
  <2> QED
    BY <2>4, <2>5
<1>2. CASE Rejected
  <2>1. UNCHANGED <<pods, remaining>>
    BY <1>2 DEF Rejected, arguments
  <2>2. \A n \in NodeIds : PlacedOn(n)' = PlacedOn(n)
    BY <1>2, RejectedFacts, ArgumentsAssumption DEF PlacedOn
  <2> QED
    BY <2>1, <2>2 DEF ResultsAccountFor
<1>3. CASE UNCHANGED vars
  BY <1>3 DEF ResultsAccountFor, PlacedOn, vars, arguments
<1> QED
  BY <1>1, <1>2, <1>3 DEF Next

\* The counters of every node are what the results leave of its capacity, and
\* no node is overcommitted (resource.py:71-81, cluster.py:62-63, 76-78).
THEOREM ResultsAccounted == Spec => []ResultsAccountFor
<1>1. ASSUME Init PROVE ResultsAccountFor
  <2>1. TypeOK
    BY <1>1, TypeInit
  <2>2. ASSUME NEW n \in NodeIds
        PROVE  /\ remaining[n] = TakeAll(Empty(NodeList[n]), pods, PlacedOn(n))
               /\ NotOvercommitted(remaining[n])
    <3>1. remaining[n] = Empty(NodeList[n]) /\ PlacedOn(n) = {}
      BY <1>1 DEF Init, PlacedOn
    <3>2. NotOvercommitted(Empty(NodeList[n]))
      BY NodeFacts DEF NotOvercommitted, Empty, MilliGpuCapacity, MILLI, NodeResource
    <3> QED
      BY <2>1, <3>1, <3>2, PlacedOnFacts, TakeNone
  <2> QED
    BY <2>2 DEF ResultsAccountFor
<1> QED
  BY <1>1, AccountNext, ClusterTyped, PTL DEF Spec

-----------------------------------------------------------------------------
(* round_robin.                                                            *)

\* Remainders of numbers around a modulus.
LEMMA SmallRemainder ==
  \A N \in Nat \ {0} :
    \A x \in 0 .. N - 1 : x % N = x /\ (x - N) % N = x /\ N % N = 0
BY Z3

\* The node at the cursor has offset 0, the one before it the largest.
LEMMA OffsetFacts ==
  ASSUME NEW N, N = Len(NodeList), NEW n \in NodeIds, NEW cursor \in 0 .. N - 1
  PROVE  /\ N \in Nat \ {0} /\ NodeIds = 1 .. N
         /\ Offset(n, cursor) = IF n - 1 >= cursor THEN n - 1 - cursor
                                ELSE n - 1 - cursor + N
         /\ CursorAfter(n) = IF n = N THEN 0 ELSE n
<1>1. N \in Nat \ {0} /\ NodeIds = 1 .. N
  BY NodeFacts
<1>2. Offset(n, cursor) = (n - 1 - cursor) % N /\ CursorAfter(n) = n % N
  BY DEF Offset, CursorAfter
<1>3. ASSUME n - 1 >= cursor PROVE Offset(n, cursor) = n - 1 - cursor
  <2>1. n - 1 - cursor \in 0 .. N - 1
    BY <1>1, <1>3
  <2>2. (n - 1 - cursor) % N = n - 1 - cursor
    BY <1>1, <2>1, SmallRemainder
  <2> QED
    BY <1>2, <2>2
<1>4. ASSUME ~(n - 1 >= cursor) PROVE Offset(n, cursor) = n - 1 - cursor + N
  <2> DEFINE x == n - 1 - cursor + N
  <2>1. x \in 0 .. N - 1 /\ n - 1 - cursor = x - N
    BY <1>1, <1>4
  <2> HIDE DEF x
  <2>2. (x - N) % N = x
    BY <1>1, <2>1, SmallRemainder
  <2> QED
    BY <1>2, <2>1, <2>2 DEF x
<1>5. CursorAfter(n) = IF n = N THEN 0 ELSE n
  <2>1. n = N \/ n \in 0 .. N - 1
    BY <1>1
  <2>2. 0 \in 0 .. N - 1
    BY <1>1
  <2>3. N % N = 0 /\ \A x \in 0 .. N - 1 : x % N = x
    BY <1>1, <2>2, SmallRemainder
  <2>4. n # N => n \in 0 .. N - 1
    BY <2>1
  <2> QED
    BY <1>2, <2>3, <2>4, Zenon
<1> QED
  BY <1>1, <1>3, <1>4, <1>5

\* Once p had its turn: it comes last, and of two nodes that came after it the
\* one that came first still does.
LEMMA CursorMovesOn ==
  ASSUME NEW p \in NodeIds, NEW cursor \in 0 .. Len(NodeList) - 1, NEW m \in NodeIds, m # p
  PROVE  /\ Offset(m, CursorAfter(p)) < Offset(p, CursorAfter(p))
         /\ \A n \in NodeIds :
              Offset(p, cursor) < Offset(m, cursor) /\ Offset(m, cursor) < Offset(n, cursor)
              => Offset(m, CursorAfter(p)) < Offset(n, CursorAfter(p))
<1> DEFINE N == Len(NodeList)
           Turns(n, c) == IF n - 1 >= c THEN n - 1 - c ELSE n - 1 - c + N
           next == IF p = N THEN 0 ELSE p
<1>1. N \in Nat \ {0} /\ NodeIds = 1 .. N /\ CursorAfter(p) = next
  BY OffsetFacts
<1>2. next \in 0 .. N - 1
  BY <1>1
<1> HIDE DEF N
<1>3. \A n \in NodeIds : Offset(n, cursor) = Turns(n, cursor)
  BY OffsetFacts DEF N
<1>4. \A n \in NodeIds : Offset(n, next) = Turns(n, next)
  <2> HIDE DEF next, Turns
  <2>1. TAKE n \in NodeIds
  <2>2. Offset(n, next) = Turns(n, next)
    BY <1>2, OffsetFacts DEF N, Turns
  <2> QED
    BY <2>2
<1>5. p \in 1 .. N /\ m \in 1 .. N /\ cursor \in 0 .. N - 1
  BY <1>1 DEF N
<1>6. Turns(m, next) < Turns(p, next)
  BY <1>1, <1>5
<1>7. ASSUME NEW n \in 1 .. N, Turns(p, cursor) < Turns(m, cursor),
             Turns(m, cursor) < Turns(n, cursor)
      PROVE  Turns(m, next) < Turns(n, next)
  BY <1>1, <1>5, <1>7, SMTT(30)
<1>8. NodeIds = 1 .. N
  BY <1>1
<1> HIDE DEF next, Turns
<1> QED
  BY <1>1, <1>3, <1>4, <1>6, <1>7, <1>8, SMTT(30)

HadTurn(a, b, m) == \E k \in a + 1 .. b : results[k] = m
HadNoRoom(a, b, m) ==
  \E k \in a + 1 .. b : results[k] # None /\ ~FitsIn(pods[k], NodeList[m], remaining[m])

\* Until a node had a turn, or no room, after the a-th result, the cursor
\* reaches it before it comes back to the node of that result.
CursorBetween ==
  policy = "round_robin" =>
    \A a \in DOMAIN results : results[a] # None =>
      \A m \in NodeIds \ {results[a]} :
        \/ HadTurn(a, Len(results), m) \/ HadNoRoom(a, Len(results), m)
        \/ Offset(m, round_robin_state) < Offset(results[a], round_robin_state)

\* RoundRobinFair, in these words.
LEMMA FairInWords ==
  RoundRobinFair <=>
    (policy = "round_robin" =>
       \A a, b \in DOMAIN results :
         a < b /\ results[a] = results[b] /\ results[a] # None =>
           \A m \in NodeIds \ {results[a]} : HadTurn(a, b, m) \/ HadNoRoom(a, b, m))
BY DEF RoundRobinFair, HadTurn, HadNoRoom

\* A turn taken is not undone, and a node without room does not get room.
LEMMA PastIsPast ==
  ASSUME TypeOK, TypeOK', NEW m \in NodeIds,
         pods' = pods, \A k \in DOMAIN results : k \in DOMAIN results' /\ results'[k] = results[k],
         \A pod \in PodResource : FitsIn(pod, NodeList[m], remaining'[m]) =>
                                    FitsIn(pod, NodeList[m], remaining[m]),
         NEW a \in DOMAIN results, NEW b \in DOMAIN results, NEW c \in Nat, b <= c
  PROVE  /\ HadTurn(a, b, m) => HadTurn(a, c, m)'
         /\ HadNoRoom(a, b, m) => HadNoRoom(a, c, m)'
<1>1. /\ DOMAIN results = 1 .. Len(results) /\ Len(results) \in Nat
      /\ Len(results) <= Len(pods) /\ DOMAIN pods = 1 .. Len(pods)
      /\ \A k \in DOMAIN pods : pods[k] \in PodResource
  BY ArgumentFacts DEF TypeOK
<1>2. \A k \in a + 1 .. b : k \in DOMAIN results /\ k \in DOMAIN pods /\ k \in a + 1 .. c
  BY <1>1
<1> QED
  BY <1>1, <1>2 DEF HadTurn, HadNoRoom

\* The chosen node is the first from the cursor on that has room.
LEMMA TurnFacts ==
  ASSUME TypeOK, policy = "round_robin", NEW p \in NodeIds, Placed(p)
  PROVE  /\ round_robin_state' = CursorAfter(p)
         /\ round_robin_state \in 0 .. Len(NodeList) - 1
         /\ \A m \in NodeIds : FitsIn(NextPod, NodeList[m], remaining[m]) =>
              Offset(p, round_robin_state) <= Offset(m, round_robin_state)
<1>1. p \in RoundRobin(NextPod, remaining, round_robin_state)
  BY Zenon DEF Placed, Choice, Chosen
<1> QED
  BY <1>1 DEF RoundRobin, Feasible, Placed, TypeOK

\* No two nodes are equally far from the cursor.
LEMMA DistinctOffsets ==
  ASSUME NEW m \in NodeIds, NEW n \in NodeIds, m # n, NEW cursor \in 0 .. Len(NodeList) - 1
  PROVE  Offset(m, cursor) # Offset(n, cursor) /\ Offset(m, cursor) \in Int
<1> DEFINE N == Len(NodeList)
<1>1. N \in Nat \ {0} /\ m \in 1 .. N /\ n \in 1 .. N /\ cursor \in 0 .. N - 1
  BY NodeFacts
<1>2. /\ Offset(m, cursor) = IF m - 1 >= cursor THEN m - 1 - cursor ELSE m - 1 - cursor + N
      /\ Offset(n, cursor) = IF n - 1 >= cursor THEN n - 1 - cursor ELSE n - 1 - cursor + N
  BY OffsetFacts
<1> HIDE DEF N
<1> QED
  BY <1>1, <1>2

\* Placing a pod moves the cursor past its node (policies.py:80-96).
LEMMA RoundRobinPlaced ==
  ASSUME TypeOK, TypeOK', RoundRobinFair, CursorBetween, NEW p \in NodeIds, Placed(p)
  PROVE  RoundRobinFair' /\ CursorBetween'
<1> DEFINE c == round_robin_state
<1>0. PICK L \in Nat : L = Len(results) + 1
  BY ArgumentFacts
<1>1. policy' = policy /\ pods' = pods
  BY DEF Placed, arguments
<1> SUFFICES ASSUME policy = "round_robin" PROVE RoundRobinFair' /\ CursorBetween'
  BY <1>1 DEF RoundRobinFair, CursorBetween
<1>2. /\ Len(results) \in Nat /\ DOMAIN results = 1 .. Len(results)
      /\ Len(results') = L /\ results'[L] = p /\ L \in DOMAIN pods
      /\ \A k \in DOMAIN results : results'[k] = results[k]
      /\ DOMAIN results' = DOMAIN results \cup {L}
      /\ NextPod = pods[L]
      /\ \A m \in NodeIds : m # p => remaining'[m] = remaining[m]
  BY <1>0, PlacedFacts, ArgumentFacts DEF NextPod
<1>3. /\ c' = CursorAfter(p) /\ c \in 0 .. Len(NodeList) - 1
      /\ \A m \in NodeIds : FitsIn(pods[L], NodeList[m], remaining[m]) =>
           Offset(p, c) <= Offset(m, c)
  BY <1>2, TurnFacts
<1>4. None \notin NodeIds
  BY ArgumentsAssumption
<1> HIDE DEF c
<1>5. ASSUME NEW a \in DOMAIN results, results[a] # None, NEW m \in NodeIds \ {results[a]}
      PROVE  \/ HadTurn(a, L, m)' \/ HadNoRoom(a, L, m)'
             \/ Offset(m, c') < Offset(results[a], c') /\ p # results[a]
  <2>1. /\ HadTurn(a, Len(results), m) => HadTurn(a, L, m)'
        /\ HadNoRoom(a, Len(results), m) => HadNoRoom(a, L, m)'
    <3>1. Len(results) \in DOMAIN results /\ Len(results) <= L /\ L \in Nat
      BY <1>0, <1>2, <1>5
    <3>2. \A pod \in PodResource : FitsIn(pod, NodeList[m], remaining'[m]) =>
                                     FitsIn(pod, NodeList[m], remaining[m])
      BY OnlyConsumes
    <3> QED
      BY <1>1, <1>2, <3>1, <3>2, PastIsPast
  <2>2. results[a] \in NodeIds
    BY <1>5, ArgumentFacts
  <2>3. CASE Offset(m, c) < Offset(results[a], c)
    <3>1. L \in a + 1 .. L
      BY <1>0, <1>2, <1>5
    <3>2. CASE m = p
      BY <1>2, <3>1, <3>2 DEF HadTurn
    <3>3. CASE m # p /\ ~FitsIn(pods[L], NodeList[m], remaining[m])
      <4>1. ~FitsIn(pods'[L], NodeList[m], remaining'[m]) /\ results'[L] # None
        BY <1>1, <1>2, <1>4, <3>3
      <4> QED
        BY <3>1, <4>1 DEF HadNoRoom
    <3>4. CASE m # p /\ FitsIn(pods[L], NodeList[m], remaining[m])
      <4>1. Offset(p, c) <= Offset(m, c) /\ Offset(p, c) # Offset(m, c)
            /\ Offset(p, c) \in Int /\ Offset(m, c) \in Int
        BY <1>3, <3>4, DistinctOffsets
      <4>2. Offset(p, c) < Offset(m, c)
        BY <4>1
      <4>3. Offset(m, c') < Offset(results[a], c')
        BY <1>3, <2>2, <2>3, <3>4, <4>2, CursorMovesOn
      <4>4. p # results[a]
        <5>1. ASSUME p = results[a] PROVE FALSE
          BY <2>3, <4>1, <4>2, <5>1
        <5> QED
          BY <5>1
      <4> QED
        BY <4>3, <4>4
    <3> QED
      BY <3>2, <3>3, <3>4
  <2> QED
    BY <1>5, <2>1, <2>3 DEF CursorBetween, c
<1>6. CursorBetween'
  <2>1. ASSUME NEW a \in DOMAIN results', results'[a] # None,
               NEW m \in NodeIds \ {results'[a]}
        PROVE  \/ HadTurn(a, L, m)' \/ HadNoRoom(a, L, m)'
               \/ Offset(m, c') < Offset(results'[a], c')
    <3>1. CASE a \in DOMAIN results
      BY <1>2, <1>5, <2>1, <3>1
    <3>2. CASE a = L
      BY <1>2, <1>3, <2>1, <3>2, CursorMovesOn
    <3> QED
      BY <1>2, <3>1, <3>2
  <2> QED
    BY <1>1, <1>2, <2>1 DEF CursorBetween, c
<1>7. RoundRobinFair'
  <2>1. ASSUME NEW a \in DOMAIN results', NEW b \in DOMAIN results', a < b,
               results'[a] = results'[b], results'[a] # None,
               NEW m \in NodeIds \ {results'[a]}
        PROVE  HadTurn(a, b, m)' \/ HadNoRoom(a, b, m)'
    <3>1. a \in DOMAIN results
      BY <1>0, <1>2, <2>1
    <3>2. CASE b \in DOMAIN results
      <4>1. HadTurn(a, b, m) \/ HadNoRoom(a, b, m)
        BY <1>2, <2>1, <3>1, <3>2, FairInWords
      <4>2. \A pod \in PodResource : FitsIn(pod, NodeList[m], remaining'[m]) =>
                                       FitsIn(pod, NodeList[m], remaining[m])
        BY OnlyConsumes
      <4> QED
        BY <1>1, <1>2, <3>1, <3>2, <4>1, <4>2, PastIsPast
    <3>3. CASE b = L
      BY <1>2, <1>5, <2>1, <3>1, <3>3
    <3> QED
      BY <1>2, <3>2, <3>3
  <2> QED
    BY <2>1 DEF RoundRobinFair, HadTurn, HadNoRoom
<1> QED
  BY <1>6, <1>7

\* A pod that fits nowhere leaves the cursor where it was.
LEMMA RoundRobinRejected ==
  ASSUME TypeOK, TypeOK', RoundRobinFair, CursorBetween, Rejected
  PROVE  RoundRobinFair' /\ CursorBetween'
<1>1. UNCHANGED <<policy, pods, remaining, round_robin_state>>
  BY DEF Rejected, arguments
<1>0. PICK L \in Nat : L = Len(results)
  BY ArgumentFacts
<1>2. /\ Len(results) = L /\ DOMAIN results = 1 .. L
      /\ Len(results') = L + 1 /\ results'[L + 1] = None
      /\ \A k \in DOMAIN results : results'[k] = results[k]
      /\ DOMAIN results' = DOMAIN results \cup {L + 1}
  BY <1>0, RejectedFacts, ArgumentFacts
<1>3. ASSUME NEW a \in DOMAIN results, NEW b \in DOMAIN results, NEW m \in NodeIds,
             NEW d \in {b, b + 1}, HadTurn(a, b, m) \/ HadNoRoom(a, b, m)
      PROVE  HadTurn(a, d, m)' \/ HadNoRoom(a, d, m)'
  <2>1. b <= d /\ d \in Nat
    BY <1>2
  <2> QED
    BY <1>1, <1>2, <1>3, <2>1, PastIsPast
<1>4. CursorBetween'
  <2>1. ASSUME policy = "round_robin", NEW a \in DOMAIN results', results'[a] # None,
               NEW m \in NodeIds \ {results'[a]}
        PROVE  \/ HadTurn(a, L + 1, m)' \/ HadNoRoom(a, L + 1, m)'
               \/ Offset(m, round_robin_state) < Offset(results'[a], round_robin_state)
    <3>1. a \in DOMAIN results /\ results'[a] = results[a] /\ L \in DOMAIN results
      BY <1>2, <2>1
    <3>2. \/ HadTurn(a, L, m) \/ HadNoRoom(a, L, m)
          \/ Offset(m, round_robin_state) < Offset(results[a], round_robin_state)
      BY <1>2, <2>1, <3>1 DEF CursorBetween
    <3>3. HadTurn(a, L, m) \/ HadNoRoom(a, L, m) =>
            HadTurn(a, L + 1, m)' \/ HadNoRoom(a, L + 1, m)'
      BY <1>3, <3>1
    <3> QED
      BY <1>2, <3>1, <3>2, <3>3
  <2> QED
    BY <1>1, <1>2, <2>1 DEF CursorBetween
<1>5. RoundRobinFair'
  <2>1. ASSUME policy = "round_robin", NEW a \in DOMAIN results', NEW b \in DOMAIN results',
               a < b, results'[a] = results'[b], results'[a] # None,
               NEW m \in NodeIds \ {results'[a]}
        PROVE  HadTurn(a, b, m)' \/ HadNoRoom(a, b, m)'
    <3>1. a \in DOMAIN results /\ b \in DOMAIN results
      BY <1>2, <2>1
    <3>2. HadTurn(a, b, m) \/ HadNoRoom(a, b, m)
      BY <1>2, <2>1, <3>1, FairInWords
    <3> QED
      BY <1>3, <3>1, <3>2
  <2> QED
    BY <1>1, <2>1 DEF RoundRobinFair, HadTurn, HadNoRoom
<1> QED
  BY <1>4, <1>5

\* Between two turns of a node every other node that had room had a turn of
\* its own, whatever was skipped or rejected meanwhile (policies.py:90-95).
THEOREM RoundRobinIsFair == Spec => []RoundRobinFair
<1>1. Init => RoundRobinFair /\ CursorBetween
  BY DEF Init, RoundRobinFair, CursorBetween
<1>2. ASSUME TypeOK, TypeOK', RoundRobinFair, CursorBetween, [Next]_vars
      PROVE  RoundRobinFair' /\ CursorBetween'
  <2>1. CASE UNCHANGED vars
    BY <1>2, <2>1 DEF vars, arguments, RoundRobinFair, CursorBetween, HadTurn, HadNoRoom
  <2> QED
    BY <1>2, <2>1, RoundRobinPlaced, RoundRobinRejected DEF Next
<1> QED
  BY <1>1, <1>2, ClusterTyped, PTL DEF Spec

-----------------------------------------------------------------------------
(* fgd.                                                                    *)

\* The number of the typical pods `shapes' that do not fit, per node.
UnfitsOf(shapes, left) == [n \in NodeIds |-> UnfitFraction(shapes, n, left[n])[1]]
Unfits(left) == UnfitsOf(typical, left)

\* The score of a cluster adds up the scores of its nodes.
LEMMA ScoreIsTotal ==
  ASSUME NEW shapes, NEW left
  PROVE  ClusterFragmentation(shapes, left) = Total(UnfitsOf(shapes, left), NodeIds)
<1> DEFINE f == UnfitsOf(shapes, left)
           ByNodes(g) == g = [s \in SUBSET NodeIds |->
                                IF s = {} THEN 0
                                ELSE UnfitFraction(shapes, First(s), left[First(s)])[1]
                                     + g[s \ {First(s)}]]
<1>1. \A s \in SUBSET NodeIds : s # {} =>
        f[First(s)] = UnfitFraction(shapes, First(s), left[First(s)])[1]
  BY FirstIn DEF UnfitsOf
<1>2. ClusterFragmentation(shapes, left) = (CHOOSE g : ByNodes(g))[NodeIds]
  BY DEF ClusterFragmentation, MapThenSumSet, MapThenFoldSet, First
<1> HIDE DEF f
<1>3. \A g : ByNodes(g) <=> Iterates(f, g, NodeIds)
  BY <1>1 DEF Iterates, Unroll
<1> HIDE DEF ByNodes
<1>4. (CHOOSE g : ByNodes(g)) = (CHOOSE g : Iterates(f, g, NodeIds))
  BY <1>3
<1> QED
  BY <1>2, <1>4, TotalDef DEF f

\* What one more pod on node n makes of the score.
LEMMA ScoreAfter ==
  ASSUME TypeOK, typical.pods # <<>>, NEW n \in NodeIds, NEW pod, NEW left,
         left[n] = Take(remaining[n], pod),
         \A m \in NodeIds : m # n => left[m] = remaining[m]
  PROVE  ClusterFragmentation(typical, left) =
           ClusterFragmentation(typical, remaining) - Unfits(remaining)[n]
             + UnfitFraction(typical, n, Take(remaining[n], pod))[1]
<1>1. \A m \in NodeIds : Unfits(remaining)[m] \in Int /\ Unfits(left)[m] \in Int
  BY ArgumentFacts, UnfitFractionType DEF Unfits, UnfitsOf, Fraction
<1>2. \A m \in NodeIds \ {n} : Unfits(remaining)[m] = Unfits(left)[m]
  BY DEF Unfits, UnfitsOf
<1>3. Total(Unfits(left), NodeIds) =
        Total(Unfits(remaining), NodeIds) - Unfits(remaining)[n] + Unfits(left)[n]
  BY <1>1, <1>2, NodeFacts, TotalChange, SMTT(30)
<1>4. Unfits(left)[n] = UnfitFraction(typical, n, Take(remaining[n], pod))[1]
  BY DEF Unfits, UnfitsOf
<1> QED
  BY <1>3, <1>4, ScoreIsTotal, SMTT(30) DEF Unfits

\* fgd compares nodes one by one, each by its own change, and so takes one that
\* makes the score of the whole cluster rise the least (policies.py:122-127).
THEOREM FgdIsGlobal == Spec => FgdRaisesScoreLeast
<1> DEFINE Step == policy = "fgd" /\ typical.pods # <<>> =>
                     \A m \in NodeIds :
                       Unscheduled /\ m \in Feasible(NextPod, remaining) =>
                         ClusterFragmentation(typical, remaining') <= Fragmentation(m)
<1>1. ASSUME TypeOK, [Next]_vars PROVE [Step]_vars
  <2> SUFFICES ASSUME policy = "fgd", typical.pods # <<>>, Next,
                      NEW m \in NodeIds, Unscheduled, m \in Feasible(NextPod, remaining)
               PROVE  ClusterFragmentation(typical, remaining') <= Fragmentation(m)
    BY <1>1
  <2> DEFINE F == Feasible(NextPod, remaining)
             Before(n) == UnfitFraction(typical, n, remaining[n])
             After(n) == UnfitFraction(typical, n, Take(remaining[n], NextPod))
             score == [n \in F |-> Gradient(Before(n), After(n))]
             D == Len(typical.pods)
  <2>1. PICK p \in NodeIds : Placed(p)
    BY <1>1, RejectedFacts DEF Next
  <2>2. p \in F /\ AtMost(score[p], score[m])
    <3>1. p \in Fgd(NextPod, remaining, typical)
      BY <2>1, Zenon DEF Placed, Choice, Chosen
    <3> QED
      BY <3>1 DEF Fgd, Least
  <2>3. ASSUME NEW n \in F
        PROVE  /\ Before(n)[1] \in Int /\ After(n)[1] \in Int
               /\ score[n] = <<After(n)[1] + (0 - Before(n)[1]), D>>
    <3>1. /\ Before(n) \in Fraction /\ After(n) \in Fraction
          /\ Before(n)[2] = D /\ After(n)[2] = D
      BY <1>1, ArgumentFacts, UnfitFractionType DEF UnfitFraction
    <3> HIDE DEF Before, After, F, D
    <3> QED
      BY <3>1 DEF Gradient, Plus, Negated, Fraction
  <2>4. After(p)[1] - Before(p)[1] <= After(m)[1] - Before(m)[1]
    <3> HIDE DEF Before, After, F, D, score
    <3>1. m \in F
      BY DEF F
    <3> QED
      BY <2>2, <2>3, <3>1, SMTT(30) DEF AtMost
  <2>5. ClusterFragmentation(typical, remaining') =
          ClusterFragmentation(typical, remaining) - Before(p)[1] + After(p)[1]
    BY <1>1, <2>1, PlacedFacts, ScoreAfter DEF Unfits, UnfitsOf
  <2>6. Fragmentation(m) =
          ClusterFragmentation(typical, remaining) - Before(m)[1] + After(m)[1]
    <3>1. remaining \in [NodeIds -> Remaining]
      BY <1>1 DEF TypeOK
    <3> DEFINE left == [remaining EXCEPT ![m] = Take(remaining[m], NextPod)]
    <3>2. left[m] = Take(remaining[m], NextPod) /\ \A n \in NodeIds : n # m => left[n] = remaining[n]
      BY <3>1
    <3>3. Fragmentation(m) = ClusterFragmentation(typical, left)
      BY DEF Fragmentation
    <3> HIDE DEF left
    <3> QED
      BY <1>1, <3>2, <3>3, ScoreAfter DEF Unfits, UnfitsOf
  <2>7. ClusterFragmentation(typical, remaining) \in Int
    <3>1. \A n \in NodeIds : Unfits(remaining)[n] \in Int
      BY <1>1, ArgumentFacts, UnfitFractionType DEF Unfits, UnfitsOf, Fraction
    <3> QED
      BY <3>1, NodeFacts, TotalType, ScoreIsTotal DEF Unfits
  <2>8. m \in F
    OBVIOUS
  <2> HIDE DEF Before, After, F, D, score
  <2>9. /\ Before(p)[1] \in Int /\ After(p)[1] \in Int
        /\ Before(m)[1] \in Int /\ After(m)[1] \in Int
    BY <2>2, <2>3, <2>8, Zenon
  <2> QED
    BY <2>4, <2>5, <2>6, <2>7, <2>9
<1> QED
  BY <1>1, ClusterTyped, PTL DEF Spec, FgdRaisesScoreLeast

-----------------------------------------------------------------------------
(* best_fit, worst_fit and gpu_packing.                                    *)

\* Who asks for devices asks for a share of them, or for a CPU: so do the pods
\* of the traces.  The scores of best_fit and worst_fit do not count devices.
DevicesComeWithShare ==
  \A k \in DOMAIN pods : pods[k].gpu_number > 0 => pods[k].milli_cpu + pods[k].milli_gpu > 0

\* No node has more left than it began with, and one in use has less CPU and
\* GPU share left, taken together, than it would have idle.
UseShows ==
  \A n \in NodeIds :
    /\ remaining[n].milli_gpu <= Empty(NodeList[n]).milli_gpu
    /\ Idle(n) \/ remaining[n].milli_cpu + remaining[n].milli_gpu
                    < Empty(NodeList[n]).milli_cpu + Empty(NodeList[n]).milli_gpu

PackingInv == DevicesComeWithShare => UseShows

\* It does at the start, when all nodes are idle.
LEMMA PackingInit == Init => PackingInv
<1> SUFFICES ASSUME Init, NEW n \in NodeIds
             PROVE  Idle(n) /\ remaining[n].milli_gpu <= Empty(NodeList[n]).milli_gpu
  BY Zenon DEF PackingInv, UseShows
<1>1. remaining[n] = Empty(NodeList[n]) /\ Empty(NodeList[n]) \in Remaining
  BY NodeFacts, EmptyType DEF Init
<1> QED
  BY <1>1 DEF Idle, Remaining

\* A pod makes a node used, unless it asks for nothing (cluster.py:62-63).
LEMMA PackingNext ==
  ASSUME TypeOK, PackingInv, [Next]_vars
  PROVE  PackingInv'
<1>1. ASSUME NEW n \in NodeIds, Placed(n) PROVE PackingInv'
  <2> SUFFICES ASSUME DevicesComeWithShare', NEW m \in NodeIds
               PROVE  /\ remaining'[m].milli_gpu <= Empty(NodeList[m]).milli_gpu
                      /\ \/ remaining'[m] = Empty(NodeList[m])
                         \/ remaining'[m].milli_cpu + remaining'[m].milli_gpu
                              < Empty(NodeList[m]).milli_cpu + Empty(NodeList[m]).milli_gpu
    BY DEF PackingInv, UseShows, Idle
  <2>1. pods' = pods
    BY <1>1 DEF Placed, arguments
  <2>2. DevicesComeWithShare
    BY <2>1 DEF DevicesComeWithShare
  <2>3. /\ remaining[m].milli_gpu <= Empty(NodeList[m]).milli_gpu
        /\ \/ remaining[m] = Empty(NodeList[m])
           \/ remaining[m].milli_cpu + remaining[m].milli_gpu
                < Empty(NodeList[m]).milli_cpu + Empty(NodeList[m]).milli_gpu
    BY <2>2 DEF PackingInv, UseShows, Idle
  <2>4. remaining[m] \in Remaining /\ Empty(NodeList[m]) \in Remaining
    BY NodeFacts, EmptyType DEF TypeOK
  <2>5. CASE m # n
    <3>1. remaining'[m] = remaining[m]
      BY <1>1, <2>5, PlacedFacts
    <3> QED
      BY <2>3, <3>1
  <2>6. CASE m = n
    <3>1. remaining'[m] = Take(remaining[m], NextPod)
      BY <1>1, <2>6, PlacedFacts
    <3>2. NextPod \in PodResource
      BY <1>1, ChoiceKeeps DEF Placed
    <3>3. NextPod.gpu_number > 0 => NextPod.milli_cpu + NextPod.milli_gpu > 0
      BY <1>1, <2>2, PlacedFacts DEF DevicesComeWithShare, NextPod
    <3>4. \/ remaining'[m] = remaining[m]
          \/ remaining'[m].milli_cpu + remaining'[m].milli_gpu
               < remaining[m].milli_cpu + remaining[m].milli_gpu
      <4>1. CASE NextPod.milli_cpu + NextPod.milli_gpu > 0
        BY <2>4, <3>1, <3>2, <4>1 DEF Take, PodResource, Remaining
      <4>2. CASE ~(NextPod.milli_cpu + NextPod.milli_gpu > 0)
        <5>1. NextPod.milli_cpu = 0 /\ NextPod.milli_gpu = 0 /\ NextPod.gpu_number = 0
          BY <3>2, <3>3, <4>2 DEF PodResource
        <5> QED
          BY <2>4, <3>1, <5>1 DEF Take, Remaining
      <4> QED
        BY <4>1, <4>2
    <3>5. remaining'[m].milli_gpu <= remaining[m].milli_gpu /\ remaining'[m] \in Remaining
      BY <2>4, <3>1, <3>2, TakeType DEF Take, PodResource, Remaining
    <3>6. /\ remaining[m].milli_gpu \in Int /\ remaining[m].milli_cpu \in Int
          /\ remaining'[m].milli_gpu \in Int /\ remaining'[m].milli_cpu \in Int
          /\ Empty(NodeList[m]).milli_gpu \in Int /\ Empty(NodeList[m]).milli_cpu \in Int
      BY <2>4, <3>5 DEF Remaining
    <3> QED
      BY <2>3, <3>4, <3>5, <3>6
  <2> QED
    BY <2>5, <2>6
<1>2. CASE Rejected \/ UNCHANGED vars
  BY <1>2 DEF Rejected, PackingInv, DevicesComeWithShare, UseShows, Idle, vars, arguments
<1> QED
  BY <1>1, <1>2 DEF Next

\* What best_fit and worst_fit compare.
LEMMA FitsCompare ==
  ASSUME TypeOK, NEW n \in NodeIds, Placed(n), NEW m \in Feasible(NextPod, remaining)
  PROVE  LET Left(k) == remaining[k].milli_cpu + remaining[k].milli_gpu
         IN  /\ policy = "best_fit" => Left(n) <= Left(m)
             /\ policy = "worst_fit" => Left(m) <= Left(n)
<1> DEFINE F == Feasible(NextPod, remaining)
           up == [k \in F |-> <<Leftover(NextPod, remaining[k]), 1>>]
           down == [k \in F |-> Negated(<<Leftover(NextPod, remaining[k]), 1>>)]
           Left(k) == remaining[k].milli_cpu + remaining[k].milli_gpu
<1>1. n \in F /\ m \in F /\ m \in NodeIds
  BY ChoiceKeeps DEF Placed, Keeps, Feasible
<1>2. NextPod \in PodResource /\ remaining[n] \in Remaining /\ remaining[m] \in Remaining
  BY <1>1, ChoiceKeeps DEF Placed, TypeOK
<1>3. \A k \in {n, m} : /\ Left(k) \in Int
                        /\ Leftover(NextPod, remaining[k])
                             = Left(k) - NextPod.milli_cpu - NextPod.milli_gpu
  BY <1>2 DEF Leftover, PodResource, Remaining
<1>4. NextPod.milli_cpu \in Int /\ NextPod.milli_gpu \in Int
  BY <1>2 DEF PodResource
<1>5. /\ up[n] = <<Leftover(NextPod, remaining[n]), 1>> /\ up[m] = <<Leftover(NextPod, remaining[m]), 1>>
      /\ down[n] = <<0 - Leftover(NextPod, remaining[n]), 1>>
      /\ down[m] = <<0 - Leftover(NextPod, remaining[m]), 1>>
  BY <1>1 DEF Negated
<1>6. policy = "best_fit" => n \in BestFit(NextPod, remaining)
  BY DEF Placed, Choice, Chosen
<1>7. policy = "worst_fit" => n \in WorstFit(NextPod, remaining)
  BY DEF Placed, Choice, Chosen
<1>8. policy = "best_fit" => AtMost(up[n], up[m])
  BY <1>1, <1>6 DEF BestFit, FirstOf, Least
<1>9. policy = "worst_fit" => AtMost(down[n], down[m])
  BY <1>1, <1>7 DEF WorstFit, FirstOf, Least
<1> HIDE DEF F, up, down, Left
<1>10. policy = "best_fit" => Left(n) <= Left(m)
  BY <1>3, <1>4, <1>5, <1>8 DEF AtMost
<1>11. policy = "worst_fit" => Left(m) <= Left(n)
  BY <1>3, <1>4, <1>5, <1>9 DEF AtMost
<1> QED
  BY <1>10, <1>11 DEF Left

\* gpu_packing takes an unused node only if no node with room is used.
LEMMA PackingCompares ==
  ASSUME TypeOK, UseShows, NEW n \in NodeIds, Placed(n), policy = "gpu_packing",
         GpuUtilization(n, remaining[n])[1] = 0, NEW m \in Feasible(NextPod, remaining)
  PROVE  GpuUtilization(m, remaining[m])[1] = 0
<1> DEFINE F == Feasible(NextPod, remaining)
           u(k) == GpuUtilization(k, remaining[k])
           score == [k \in F |-> Negated(u(k))]
<1>1. n \in F /\ m \in F /\ m \in NodeIds
  BY ChoiceKeeps DEF Placed, Keeps, Feasible
<1>2. remaining[n] \in Remaining /\ remaining[m] \in Remaining
  BY <1>1 DEF TypeOK
<1>3. u(n) \in Fraction /\ u(m) \in Fraction
  BY <1>1, <1>2, UtilizationType
<1>4. n \in GpuPacking(NextPod, remaining)
  BY DEF Placed, Choice, Chosen
<1>5. AtMost(score[n], score[m])
  BY <1>1, <1>4 DEF GpuPacking, FirstOf, Least
<1>6. u(m)[1] >= 0
  <2>1. /\ remaining[m].milli_gpu <= MilliGpuCapacity(NodeList[m])
        /\ remaining[m].milli_gpu \in Int /\ MilliGpuCapacity(NodeList[m]) \in Int
    <3>1. Empty(NodeList[m]).milli_gpu = MilliGpuCapacity(NodeList[m])
      BY DEF Empty
    <3>2. Empty(NodeList[m]) \in Remaining
      BY <1>1, NodeFacts, EmptyType
    <3> QED
      BY <1>1, <1>2, <3>1, <3>2 DEF UseShows, Remaining
  <2> QED
    BY <2>1 DEF GpuUtilization, UsedShare
<1>7. score[n] = <<0 - u(n)[1], u(n)[2]>> /\ score[m] = <<0 - u(m)[1], u(m)[2]>>
  BY <1>1 DEF Negated
<1>8. u(n)[1] = 0
  OBVIOUS
<1> HIDE DEF u, F, score
<1>9. u(n)[1] \in Int /\ u(n)[2] \in Nat \ {0} /\ u(m)[1] \in Int /\ u(m)[2] \in Nat \ {0}
  BY <1>3 DEF Fraction
<1>10. (0 - u(n)[1]) * u(m)[2] <= (0 - u(m)[1]) * u(n)[2]
  <2>1. score[n] \in Fraction /\ score[m] \in Fraction
    BY <1>7, <1>9 DEF Fraction
  <2> QED
    BY <1>5, <1>7, <2>1, AtMostCross
<1>11. \A d, e \in Nat \ {0} : \A x \in Int : (0 - 0) * e <= (0 - x) * d => x <= 0
  BY Z3
<1>12. u(m)[1] <= 0
  BY <1>8, <1>9, <1>10, <1>11
<1>13. u(m)[1] = 0
  BY <1>6, <1>9, <1>12
<1> QED
  BY <1>13 DEF u

\* best_fit and gpu_packing use up a node before they open an idle one of its
\* kind, and worst_fit the reverse (policies.py:50-76, 99-104), in any batch
\* whose pods ask for no devices without a share.
THEOREM PacksAndSpreads ==
  ASSUME \A batch \in Batches : \A k \in DOMAIN batch :
           batch[k].gpu_number > 0 => batch[k].milli_cpu + batch[k].milli_gpu > 0
  PROVE  Spec => PacksOrSpreads
<1> DEFINE Step == \A n \in NodeIds : remaining'[n] # remaining[n] =>
             \A m \in Feasible(NextPod, remaining) :
               /\ policy = "best_fit" /\ Alike(m, n) /\ Idle(n) => Idle(m)
               /\ policy = "worst_fit" /\ Alike(m, n) /\ Idle(m) => Idle(n)
               /\ policy = "gpu_packing" /\ GpuUtilization(n, remaining[n])[1] = 0 =>
                    GpuUtilization(m, remaining[m])[1] = 0
<1>1. ASSUME TypeOK, PackingInv, [Next]_vars PROVE [Step]_vars
  <2> SUFFICES ASSUME Next, NEW n \in NodeIds, remaining'[n] # remaining[n],
                      NEW m \in Feasible(NextPod, remaining)
               PROVE  /\ policy = "best_fit" /\ Alike(m, n) /\ Idle(n) => Idle(m)
                      /\ policy = "worst_fit" /\ Alike(m, n) /\ Idle(m) => Idle(n)
                      /\ policy = "gpu_packing" /\ GpuUtilization(n, remaining[n])[1] = 0 =>
                           GpuUtilization(m, remaining[m])[1] = 0
    BY <1>1
  <2>1. UseShows
    <3>1. pods \in Batches
      BY <1>1 DEF TypeOK
    <3> QED
      BY <1>1, <3>1 DEF PackingInv, DevicesComeWithShare
  <2>2. Placed(n)
    <3>1. CASE Rejected
      BY <3>1 DEF Rejected
    <3>2. ASSUME NEW p \in NodeIds, Placed(p) PROVE p = n
      BY <1>1, <3>2, PlacedFacts
    <3> QED
      BY <3>1, <3>2 DEF Next
  <2>3. m \in NodeIds
    BY DEF Feasible
  <2> DEFINE Left(k) == remaining[k].milli_cpu + remaining[k].milli_gpu
             Whole(k) == Empty(NodeList[k]).milli_cpu + Empty(NodeList[k]).milli_gpu
  <2>4. /\ policy = "best_fit" => Left(n) <= Left(m)
        /\ policy = "worst_fit" => Left(m) <= Left(n)
    BY <1>1, <2>2, FitsCompare
  <2>5. \A k \in {n, m} :
          /\ Left(k) \in Int /\ Whole(k) \in Int
          /\ Idle(k) \/ Left(k) < Whole(k)
          /\ Idle(k) => Left(k) = Whole(k)
    <3>1. \A k \in {n, m} : remaining[k] \in Remaining /\ Empty(NodeList[k]) \in Remaining
      BY <1>1, <2>3, NodeFacts, EmptyType DEF TypeOK
    <3> QED
      BY <2>1, <2>3, <3>1 DEF UseShows, Idle, Remaining
  <2>6. Alike(m, n) => Whole(m) = Whole(n)
    BY DEF Alike
  <2> HIDE DEF Left, Whole
  <2>7. policy = "best_fit" /\ Alike(m, n) /\ Idle(n) => Idle(m)
    BY <2>4, <2>5, <2>6
  <2>8. policy = "worst_fit" /\ Alike(m, n) /\ Idle(m) => Idle(n)
    BY <2>4, <2>5, <2>6
  <2>9. policy = "gpu_packing" /\ GpuUtilization(n, remaining[n])[1] = 0 =>
          GpuUtilization(m, remaining[m])[1] = 0
    BY <1>1, <2>1, <2>2, PackingCompares
  <2> QED
    BY <2>7, <2>8, <2>9
<1>2. Init /\ [][Next]_vars => [](TypeOK /\ PackingInv)
  BY TypeInit, TypeNext, PackingInit, PackingNext, PTL
<1> QED
  BY <1>1, <1>2, PTL DEF Spec, PacksOrSpreads

-----------------------------------------------------------------------------
(* The score.                                                              *)

\* A shape that asks for no less than a pod rejected fits nowhere, then and for
\* the rest of the batch.
LEMMA RefusedIsUnfit ==
  ASSUME TypeOK, RejectedStaysUnfit, NEW t \in DOMAIN ReportTypical, NEW k \in DOMAIN results,
         results[k] = None, AsksNoLess(ReportTypical[t], pods[k]), NEW n \in NodeIds
  PROVE  ~FitsIn(ReportTypical[t], NodeList[n], remaining[n])
<1>1. ReportTypical[t] \in PodResource /\ pods[k] \in PodResource /\ remaining[n] \in Remaining
  <2>1. ReportTypical \in Seq(PodResource)
    BY ReportAssumption
  <2>2. k \in DOMAIN pods
    BY ArgumentFacts DEF TypeOK
  <2> QED
    BY <2>1, <2>2, ArgumentFacts DEF TypeOK
<1>2. ~FitsIn(pods[k], NodeList[n], remaining[n])
  BY DEF RejectedStaysUnfit, Feasible
<1> QED
  BY <1>1, <1>2, RoomForLess

\* The score does not hide a rejection: whatever the policy, the shapes that ask
\* for no less than a pod it rejected count as unfit on every node
\* (experiment.py:163-168, fragmentation.py:127-145).
THEOREM RejectionsScored == Spec => []ScoreSeesRejections
<1>1. ASSUME TypeOK, RejectedStaysUnfit PROVE ScoreSeesRejections
  <2> DEFINE shapes == [pods |-> ReportTypical, weights |-> <<>>]
             refused == {t \in DOMAIN ReportTypical :
                           \E k \in DOMAIN results :
                             results[k] = None /\ AsksNoLess(ReportTypical[t], pods[k])}
             f == [n \in NodeIds |-> Cardinality(refused)]
             g == UnfitsOf(shapes, remaining)
  <2>1. /\ shapes.pods = ReportTypical /\ ReportTypical \in Seq(PodResource)
        /\ IsFiniteSet(DOMAIN ReportTypical)
    <3>1. ReportTypical \in Seq(PodResource)
      BY ReportAssumption
    <3>2. Len(ReportTypical) \in Nat /\ DOMAIN ReportTypical = 1 .. Len(ReportTypical)
      BY <3>1
    <3>3. 1 \in Int /\ Len(ReportTypical) \in Int
      BY <3>2
    <3>4. IsFiniteSet(DOMAIN ReportTypical)
      BY <3>2, <3>3, FS_Interval, Zenon
    <3> QED
      BY <3>1, <3>4
  <2>2. IsFiniteSet(refused) /\ Cardinality(refused) \in Nat
    <3>1. refused \in SUBSET DOMAIN ReportTypical
      OBVIOUS
    <3> HIDE DEF refused
    <3> QED
      BY <2>1, <3>1, FS_Subset, FS_CardinalityType
  <2>3. ASSUME NEW n \in NodeIds
        PROVE  g[n] \in Int /\ Cardinality(refused) <= g[n]
    <3>1. CASE ReportTypical # <<>>
      <4> DEFINE unfit == Unfit(shapes, n, remaining[n])
      <4>1. refused \subseteq unfit /\ unfit \in SUBSET DOMAIN ReportTypical
        BY <1>1, <2>1, RefusedIsUnfit DEF Unfit
      <4>2. g[n] = Cardinality(unfit)
        BY <2>1, <3>1 DEF UnfitsOf, UnfitFraction
      <4> HIDE DEF refused, unfit, g
      <4>3. IsFiniteSet(unfit)
        BY <2>1, <4>1, FS_Subset
      <4>4. Cardinality(refused) <= Cardinality(unfit) /\ Cardinality(unfit) \in Nat
        BY <4>1, <4>3, FS_Subset, FS_CardinalityType
      <4> QED
        BY <4>2, <4>4
    <3>2. CASE ReportTypical = <<>>
      <4>1. g[n] = 0
        BY <2>1, <3>2 DEF UnfitsOf, UnfitFraction
      <4>2. refused = {}
        BY <3>2
      <4> HIDE DEF refused, g
      <4> QED
        BY <4>1, <4>2, FS_EmptySet
    <3> QED
      BY <3>1, <3>2
  <2>4. \A n \in NodeIds : f[n] \in Int /\ g[n] \in Int /\ f[n] <= g[n] /\ f[n] = Cardinality(refused)
    BY <2>2, <2>3
  <2>5. Cardinality(NodeIds) = Len(NodeList)
    BY NodeFacts, FS_Interval
  <2>6. SweepRow.fragmentation_score = Total(g, NodeIds)
    BY ScoreIsTotal DEF SweepRow, FragmentationScore
  <2> HIDE DEF f, g, refused
  <2>7. Total(f, NodeIds) = Cardinality(refused) * Cardinality(NodeIds)
    BY <2>2, <2>4, NodeFacts, TotalOfConstant
  <2>8. Total(f, NodeIds) <= Total(g, NodeIds)
    BY <2>4, NodeFacts, TotalAtMost
  <2>9. Cardinality(refused) * Len(NodeList) <= SweepRow.fragmentation_score
    BY <2>5, <2>6, <2>7, <2>8
  <2>10. Cardinality(refused) * Len(NodeList) \in Int /\ SweepRow.fragmentation_score \in Int
    <3>1. Total(g, NodeIds) \in Int
      BY <2>4, NodeFacts, TotalType
    <3> QED
      BY <2>2, <2>6, <3>1, NodeFacts
  <2> QED
    BY <2>9, <2>10 DEF ScoreSeesRejections, refused
<1> QED
  BY <1>1, ClusterTyped, NobodyOverlooked, PTL

-----------------------------------------------------------------------------
(* The figures by the results and those by the counters.                   *)

\* What each pod asks for, and what each node has and has given away.
Asked == Asks(pods, "milli_gpu")
Capacities == [n \in NodeIds |-> MilliGpuCapacity(NodeList[n])]
Given == [n \in NodeIds |-> MilliGpuCapacity(NodeList[n]) - remaining[n].milli_gpu]

\* The sums of a row are sums of these.
LEMMA RowSums ==
  /\ \A K \in SUBSET DOMAIN pods : DemandOf(K) = Total(Asked, K)
  /\ GpuCapacity = Total(Capacities, NodeIds)
  /\ Allocated = Total(Given, NodeIds)
<1>1. \A K \in SUBSET DOMAIN pods : DemandOf(K) = Total(Asked, K)
  BY SumOfAsks DEF DemandOf, Asked
<1> DEFINE ByCapacity(g) == g = [s \in SUBSET NodeIds |->
                                   IF s = {} THEN 0
                                   ELSE MilliGpuCapacity(NodeList[First(s)]) + g[s \ {First(s)}]]
           ByGiven(g) == g = [s \in SUBSET NodeIds |->
                                IF s = {} THEN 0
                                ELSE MilliGpuCapacity(NodeList[First(s)]) - remaining[First(s)].milli_gpu
                                     + g[s \ {First(s)}]]
<1>2. \A s \in SUBSET NodeIds : s # {} =>
        /\ Capacities[First(s)] = MilliGpuCapacity(NodeList[First(s)])
        /\ Given[First(s)] = MilliGpuCapacity(NodeList[First(s)]) - remaining[First(s)].milli_gpu
  BY FirstIn DEF Capacities, Given
<1>3. GpuCapacity = (CHOOSE g : ByCapacity(g))[NodeIds]
  BY DEF GpuCapacity, MapThenSumSet, MapThenFoldSet, First
<1>4. Allocated = (CHOOSE g : ByGiven(g))[NodeIds]
  BY DEF Allocated, MapThenSumSet, MapThenFoldSet, First
<1>5. \A g : ByCapacity(g) <=> Iterates(Capacities, g, NodeIds)
  BY <1>2 DEF Iterates, Unroll
<1>6. \A g : ByGiven(g) <=> Iterates(Given, g, NodeIds)
  BY <1>2 DEF Iterates, Unroll
<1> HIDE DEF ByCapacity, ByGiven
<1>7. /\ (CHOOSE g : ByCapacity(g)) = (CHOOSE g : Iterates(Capacities, g, NodeIds))
      /\ (CHOOSE g : ByGiven(g)) = (CHOOSE g : Iterates(Given, g, NodeIds))
  BY <1>5, <1>6
<1> QED
  BY <1>1, <1>3, <1>4, <1>7, TotalDef

\* What pods ask for is natural, and so are the sums of it.
LEMMA AskedType ==
  ASSUME TypeOK
  PROVE  /\ IsFiniteSet(DOMAIN pods) /\ \A k \in DOMAIN pods : Asked[k] = pods[k].milli_gpu
         /\ \A k \in DOMAIN pods : Asked[k] \in Nat
         /\ \A K \in SUBSET DOMAIN pods : IsFiniteSet(K) /\ Total(Asked, K) \in Nat
         /\ AdmittedPods \in SUBSET DOMAIN pods
<1>1. IsFiniteSet(DOMAIN pods)
  <2>1. 1 \in Int /\ Len(pods) \in Int /\ DOMAIN pods = 1 .. Len(pods)
    BY ArgumentFacts
  <2> QED
    BY <2>1, FS_Interval, Zenon
<1>2. \A k \in DOMAIN pods : Asked[k] \in Nat /\ Asked[k] = pods[k].milli_gpu
  BY ArgumentFacts DEF Asked, Asks, PodResource
<1>3. ASSUME NEW K \in SUBSET DOMAIN pods PROVE IsFiniteSet(K) /\ Total(Asked, K) \in Nat
  BY <1>1, <1>2, FS_Subset, TotalType
<1>4. AdmittedPods \in SUBSET DOMAIN pods
  BY ArgumentFacts DEF AdmittedPods, TypeOK
<1> QED
  BY <1>1, <1>2, <1>3, <1>4

\* What the nodes have given away is what the pods admitted ask for.
LEMMA AllocatedIsAdmitted ==
  ASSUME TypeOK, ResultsAccountFor
  PROVE  Allocated = Total(Asked, AdmittedPods)
<1> DEFINE byNode == [n \in NodeIds |-> Total(Asked, {k \in AdmittedPods : results[k] = n})]
<1>1. ASSUME NEW n \in NodeIds PROVE Given[n] = byNode[n]
  <2>1. remaining[n] = TakeAll(Empty(NodeList[n]), pods, PlacedOn(n))
    BY DEF ResultsAccountFor
  <2>2. PlacedOn(n) \in SUBSET DOMAIN pods
    BY PlacedOnFacts
  <2>3. remaining[n].milli_gpu = Empty(NodeList[n]).milli_gpu - Total(Asked, PlacedOn(n))
    BY <2>1, <2>2, TakeAllDef DEF Asked
  <2>4. {k \in AdmittedPods : results[k] = n} = PlacedOn(n)
    BY ArgumentsAssumption DEF AdmittedPods, PlacedOn
  <2>5. Empty(NodeList[n]).milli_gpu = MilliGpuCapacity(NodeList[n])
    BY DEF Empty
  <2>6. MilliGpuCapacity(NodeList[n]) \in Int
    <3>1. NodeList[n] \in NodeResource
      BY NodeFacts
    <3> QED
      BY <3>1 DEF MilliGpuCapacity, MILLI, NodeResource
  <2>7. Total(Asked, PlacedOn(n)) \in Int
    BY <2>2, AskedType
  <2>8. Given[n] = Total(Asked, PlacedOn(n))
    BY <2>3, <2>5, <2>6, <2>7 DEF Given
  <2> QED
    BY <2>4, <2>8
<1>2. \A k \in AdmittedPods : results[k] \in NodeIds
  BY ArgumentFacts DEF AdmittedPods
<1>3. IsFiniteSet(AdmittedPods) /\ \A k \in AdmittedPods : Asked[k] \in Int
  BY AskedType
<1>4. Total(byNode, NodeIds) = Total(Asked, AdmittedPods)
  <2> DEFINE part == [n \in NodeIds |-> {k \in AdmittedPods : results[k] = n}]
  <2>1. \A n \in NodeIds : byNode[n] = Total(Asked, part[n])
    OBVIOUS
  <2>2. SplitBy(results, AdmittedPods, NodeIds, part)
    BY <1>2 DEF SplitBy
  <2>3. IsFiniteSet(NodeIds)
    BY NodeFacts
  <2> HIDE DEF byNode, part
  <2> QED
    BY <1>3, <2>1, <2>2, <2>3, TotalByClass
<1> HIDE DEF byNode
<1>5. Total(Given, NodeIds) = Total(byNode, NodeIds)
  BY <1>1, NodeFacts, TotalOfSame
<1> QED
  BY <1>4, <1>5, RowSums

\* Of what was asked for, all but what was admitted was rejected.
LEMMA RejectedIsTheRest ==
  ASSUME TypeOK, Reported
  PROVE  /\ Total(Asked, AdmittedPods) <= Total(Asked, DOMAIN pods)
         /\ Total(Asked, AdmittedPods) = Total(Asked, DOMAIN pods) <=>
              \A k \in DOMAIN pods : pods[k].milli_gpu > 0 => results[k] # None
<1> DEFINE D == DOMAIN pods
           A == AdmittedPods
           R == D \ A
           zero == [k \in R |-> 0]
<1>1. A \in SUBSET D /\ R \in SUBSET D /\ A \cap R = {} /\ A \cup R = D
  BY AskedType
<1>2. \A k \in D : k \in R <=> results[k] = None
  BY ArgumentFacts DEF Reported, AdmittedPods
<1>3. /\ IsFiniteSet(A) /\ IsFiniteSet(R) /\ \A k \in D : Asked[k] \in Nat /\ Asked[k] = pods[k].milli_gpu
      /\ Total(Asked, A) \in Nat /\ Total(Asked, R) \in Nat
  BY <1>1, AskedType
<1>4. \A k \in R : zero[k] = 0 /\ zero[k] <= Asked[k] /\ zero[k] \in Int /\ Asked[k] \in Int
  BY <1>3
<1> HIDE DEF D, A, R, zero
<1>5. Total(Asked, D) = Total(Asked, A) + Total(Asked, R)
  <2>1. Total(Asked, A \cup R) = Total(Asked, A) + Total(Asked, R)
    BY <1>1, <1>3, TotalUnion
  <2> QED
    BY <1>1, <2>1
<1>6. Total(zero, R) = 0 * Cardinality(R) /\ Cardinality(R) \in Nat
  BY <1>3, <1>4, TotalOfConstant, FS_CardinalityType
<1>7. Total(zero, R) = 0
  BY <1>6, Z3
<1>8. Total(zero, R) = Total(Asked, R) <=> \A k \in R : zero[k] = Asked[k]
  BY <1>3, <1>4, TotalAtMost
<1>9. Total(Asked, A) = Total(Asked, D) <=> \A k \in R : Asked[k] = 0
  BY <1>3, <1>4, <1>5, <1>7, <1>8
<1>10. (\A k \in R : Asked[k] = 0) <=> \A k \in D : pods[k].milli_gpu > 0 => results[k] # None
  BY <1>1, <1>2, <1>3
<1> QED
  BY <1>3, <1>5, <1>9, <1>10 DEF D, A

\* What the pods admitted ask for is what is allocated, so packing_efficiency is
\* 1, or 0 if nothing is allocated, and the utilization falls short of the
\* offered load only by pods that were rejected, whatever the policy
\* (broader_metrics.py:24-27, 185-187, 196, cluster.py:84-89).
THEOREM FiguresAgree == Spec => []RowAddsUp
<1>1. ASSUME TypeOK, ResultsAccountFor, Reported PROVE RowAddsUp
  <2> DEFINE row == StaticRow
  <2>1. /\ Allocated = AdmittedDemand /\ AdmittedDemand <= TotalDemand
        /\ Allocated \in Nat /\ TotalDemand \in Nat
        /\ Allocated = TotalDemand <=>
             \A k \in DOMAIN pods : pods[k].milli_gpu > 0 => results[k] # None
    <3>1. /\ AdmittedDemand = Total(Asked, AdmittedPods) /\ TotalDemand = Total(Asked, DOMAIN pods)
          /\ Total(Asked, AdmittedPods) \in Nat /\ Total(Asked, DOMAIN pods) \in Nat
      BY <1>1, AskedType, RowSums DEF AdmittedDemand, TotalDemand
    <3> QED
      BY <1>1, <3>1, AllocatedIsAdmitted, RejectedIsTheRest
  <2>2. /\ row.packing_efficiency = PackingEfficiency
        /\ row.gpu_utilization = Rate(Allocated) /\ row.offered_load_ratio = Rate(TotalDemand)
    BY DEF StaticRow, TotalGpuUtilization, OfferedLoadRatio
  <2>3. row.packing_efficiency[1] \in {0, row.packing_efficiency[2]}
    BY <2>1, <2>2 DEF PackingEfficiency
  <2>4. AtMost(row.gpu_utilization, row.offered_load_ratio)
    BY <2>1, <2>2 DEF Rate, AtMost
  <2>5. GpuCapacity > 0 =>
          (row.gpu_utilization = row.offered_load_ratio <=>
             \A k \in DOMAIN pods : pods[k].milli_gpu > 0 => results[k] # None)
    <3>1. GpuCapacity \in Int
      <4>1. \A n \in NodeIds : Capacities[n] \in Int
        BY NodeFacts DEF Capacities, MilliGpuCapacity, MILLI, NodeResource
      <4> QED
        BY <4>1, NodeFacts, RowSums, TotalType
    <3>2. GpuCapacity > 0 =>
            (row.gpu_utilization = row.offered_load_ratio <=> Allocated = TotalDemand)
      BY <2>2, <3>1 DEF Rate
    <3> QED
      BY <2>1, <3>2
  <2> HIDE DEF row
  <2> QED
    BY <2>3, <2>4, <2>5 DEF RowAddsUp, row
<1>2. ~Reported => RowAddsUp
  BY DEF RowAddsUp
<1> QED
  BY <1>1, <1>2, ClusterTyped, ResultsAccounted, PTL

-----------------------------------------------------------------------------
(* Jain's index.                                                           *)

\* The quotient of a multiple.
LEMMA ExactQuotient ==
  \A q \in Nat : \A d \in Nat \ {0} : (q * d) \div d = q
BY Z3

\* Integers that compare as the fractions do, and whose index is theirs.
IndexedBy(values, D, r) ==
  /\ \A x \in D : r[x] \in Nat /\ (r[x] = 0 <=> values[x][1] = 0)
  /\ \A x, y \in D : r[x] <= r[y] <=> AtMost(values[x], values[y])
  /\ JainsFairnessIndex(values) =
       IF Total(r, D) = 0 THEN <<1, 1>>
       ELSE <<Total(r, D) * Total(r, D),
              Cardinality(D) * Total([x \in D |-> r[x] * r[x]], D)>>

\* There are such integers: the fractions over their common denominator.
LEMMA IndexOfIntegers ==
  ASSUME NEW values, NEW D, D = DOMAIN values, IsFiniteSet(D),
         \A x \in D : values[x] \in Nat \X (Nat \ {0})
  PROVE  \E r : IndexedBy(values, D, r)
<1> DEFINE part == [x \in D |-> values[x][2]]
           whole == FoldFunction(LAMBDA v, product : v[2] * product, 1, values)
           r == [x \in D |-> values[x][1] * (whole \div values[x][2])]
           sq == [x \in D |-> r[x] * r[x]]
<1>1. \A x \in D : values[x][1] \in Nat /\ values[x][2] \in Nat \ {0} /\ part[x] = values[x][2]
  OBVIOUS
<1>2. whole = Product(part, D)
  <2> DEFINE ByValues(g) == g = [s \in SUBSET D |->
                                   IF s = {} THEN 1
                                   ELSE values[First(s)][2] * g[s \ {First(s)}]]
  <2>1. whole = (CHOOSE g : ByValues(g))[D]
    BY DEF FoldFunction, FoldFunctionOnSet, MapThenFoldSet, First
  <2>2. \A s \in SUBSET D : s # {} => part[First(s)] = values[First(s)][2]
    BY FirstIn
  <2> HIDE DEF part
  <2>3. \A g : ByValues(g) <=> Recurs("product", part, g, D)
    BY <2>2 DEF Recurs, Recur, Neutral, Apply
  <2> HIDE DEF ByValues
  <2>4. (CHOOSE g : ByValues(g)) = (CHOOSE g : Recurs("product", part, g, D))
    BY <2>3
  <2> HIDE DEF whole
  <2> QED
    BY <2>1, <2>4 DEF Product, Function
<1>3. JainsFairnessIndex(values) =
        IF Total(r, D) = 0 THEN <<1, 1>>
        ELSE <<Total(r, D) * Total(r, D), Cardinality(D) * Total(sq, D)>>
  <2> DEFINE Scaled(x) == values[x][1] * (whole \div values[x][2])
             ByScaled(g) == g = [s \in SUBSET D |->
                                   IF s = {} THEN 0 ELSE Scaled(First(s)) + g[s \ {First(s)}]]
             BySquare(g) == g = [s \in SUBSET D |->
                                   IF s = {} THEN 0
                                   ELSE Scaled(First(s)) * Scaled(First(s)) + g[s \ {First(s)}]]
             sum == MapThenSumSet(Scaled, D)
             squares == MapThenSumSet(LAMBDA x : Scaled(x) * Scaled(x), D)
  <2>1. JainsFairnessIndex(values) =
          IF sum = 0 THEN <<1, 1>> ELSE <<sum * sum, Cardinality(D) * squares>>
    BY DEF JainsFairnessIndex
  <2>2. sum = (CHOOSE g : ByScaled(g))[D]
    BY DEF MapThenSumSet, MapThenFoldSet, First
  <2>3. squares = (CHOOSE g : BySquare(g))[D]
    BY DEF MapThenSumSet, MapThenFoldSet, First
  <2>4. \A s \in SUBSET D : s # {} =>
          r[First(s)] = Scaled(First(s)) /\ sq[First(s)] = Scaled(First(s)) * Scaled(First(s))
    <3>1. \A x \in D : r[x] = Scaled(x) /\ sq[x] = Scaled(x) * Scaled(x)
      OBVIOUS
    <3> HIDE DEF r, sq, Scaled
    <3> QED
      BY <3>1, FirstIn
  <2> HIDE DEF r, sq, Scaled, sum, squares
  <2>5. \A g : ByScaled(g) <=> Iterates(r, g, D)
    BY <2>4 DEF Iterates, Unroll
  <2>6. \A g : BySquare(g) <=> Iterates(sq, g, D)
    BY <2>4 DEF Iterates, Unroll
  <2> HIDE DEF ByScaled, BySquare
  <2>7. /\ (CHOOSE g : ByScaled(g)) = (CHOOSE g : Iterates(r, g, D))
        /\ (CHOOSE g : BySquare(g)) = (CHOOSE g : Iterates(sq, g, D))
    BY <2>5, <2>6
  <2>8. sum = Total(r, D) /\ squares = Total(sq, D)
    BY <2>2, <2>3, <2>7, TotalDef
  <2> QED
    BY <2>1, <2>8
<1>4. \A x \in D : \E q \in Nat \ {0} : whole = q * values[x][2] /\ r[x] = values[x][1] * q
  <2>1. TAKE x \in D
  <2>2. PICK q \in Nat \ {0} : whole = q * values[x][2]
    <3> HIDE DEF part, whole
    <3> QED
      BY <1>1, <1>2, ProductDivides
  <2>3. whole \div values[x][2] = q
    BY <1>1, <2>2, ExactQuotient
  <2> QED
    BY <2>2, <2>3
<1>5. \A i, j \in Int : i * j \in Int
  BY Z3
<1> HIDE DEF part, whole, r
<1>6. ASSUME NEW x \in D PROVE r[x] \in Nat /\ (r[x] = 0 <=> values[x][1] = 0)
  <2>1. PICK q \in Nat \ {0} : r[x] = values[x][1] * q
    BY <1>4
  <2>2. \A i \in Nat : \A k \in Nat \ {0} : i * k \in Nat /\ (i * k = 0 <=> i = 0)
    BY Z3
  <2> QED
    BY <1>1, <2>1, <2>2
<1>7. ASSUME NEW x \in D, NEW y \in D
      PROVE  r[x] <= r[y] <=> AtMost(values[x], values[y])
  <2>1. PICK i \in Nat \ {0} : whole = i * values[x][2] /\ r[x] = values[x][1] * i
    BY <1>4
  <2>2. PICK j \in Nat \ {0} : whole = j * values[y][2] /\ r[y] = values[y][1] * j
    BY <1>4
  <2>3. PICK a \in Nat, d \in Nat \ {0} : a = values[x][1] /\ d = values[x][2]
    BY <1>1
  <2>4. PICK b \in Nat, e \in Nat \ {0} : b = values[y][1] /\ e = values[y][2]
    BY <1>1
  <2>5. AtMost(values[x], values[y]) <=> a * e <= b * d
    <3>1. values[x] \in Fraction /\ values[y] \in Fraction
      BY DEF Fraction
    <3> QED
      BY <2>3, <2>4, <3>1, AtMostCross
  <2>6. i * d = j * e
    BY <2>1, <2>2, <2>3, <2>4
  <2>7. a * i <= b * j <=> a * e <= b * d
    <3>1. \A u, v \in Int : \A m \in Nat \ {0} : u <= v <=> u * m <= v * m
      BY Z3
    <3>2. (a * e) * i = (a * i) * e /\ (b * d) * i = b * (i * d) /\ b * (j * e) = (b * j) * e
      BY Z3
    <3>3. (a * e) * i <= (b * d) * i <=> (a * i) * e <= (b * j) * e
      BY <2>6, <3>2
    <3>4. a * e \in Int /\ b * d \in Int /\ a * i \in Int /\ b * j \in Int
      BY <1>5
    <3> QED
      BY <3>1, <3>3, <3>4
  <2> QED
    BY <2>1, <2>2, <2>3, <2>4, <2>5, <2>7
<1> QED
  BY <1>3, <1>6, <1>7, Zenon DEF IndexedBy

\* The squares of natural numbers, and where the numbers are not 0.
SquaresOf(sq, r, D) == \A x \in D : r[x] \in Nat /\ sq[x] = r[x] * r[x]
NotZero(S, r, D) == S \in SUBSET D /\ S # {} /\ \A x \in D : x \in S <=> r[x] # 0

\* The index of natural numbers that are not all 0: at most the share of those
\* that are not 0, at least that of one of them, and 1 only if they are equal.
LEMMA IndexBounds ==
  ASSUME NEW D, IsFiniteSet(D), NEW r, NEW S, NotZero(S, r, D), NEW sq, SquaresOf(sq, r, D)
  PROVE  /\ Total(r, D) \in Nat \ {0} /\ Total(sq, D) \in Nat \ {0}
         /\ Total(r, D) * Total(r, D) <= Cardinality(S) * Total(sq, D)
         /\ Total(sq, D) <= Total(r, D) * Total(r, D)
         /\ Total(r, D) * Total(r, D) = Cardinality(D) * Total(sq, D) <=>
              \A x, y \in D : r[x] = r[y]
<1> USE DEF NotZero, SquaresOf
<1> DEFINE s == Total(r, D)
           R == D \ S
           up == [x \in D |-> s * r[x]]
<1>1. \A i, j \in Nat : i * j \in Nat
  BY Z3
<1>2. \A x \in D : sq[x] \in Nat /\ sq[x] = r[x] * r[x] /\ r[x] \in Int /\ sq[x] \in Int
  BY <1>1
<1>3. S \in SUBSET D /\ R \in SUBSET D /\ IsFiniteSet(S) /\ IsFiniteSet(R) /\ S \cap R = {} /\ S \cup R = D
  BY FS_Subset
<1>4. s \in Nat /\ Total(sq, D) \in Nat
  BY <1>2, TotalType
<1>5. \A x \in R : r[x] = 0 /\ sq[x] = 0
  BY <1>2
<1> HIDE DEF R
<1>6. Total(r, D) = Total(r, S) /\ Total(sq, D) = Total(sq, S)
  <2>1. Total(r, R) = 0 * Cardinality(R) /\ Total(sq, R) = 0 * Cardinality(R)
    BY <1>3, <1>5, TotalOfConstant
  <2>2. Cardinality(R) \in Nat
    BY <1>3, FS_CardinalityType
  <2>3. Total(r, R) = 0 /\ Total(sq, R) = 0
    BY <2>1, <2>2, Z3
  <2>4. \A x \in S \cup R : r[x] \in Int /\ sq[x] \in Int
    BY <1>2, <1>3
  <2>5. Total(r, S \cup R) = Total(r, S) + Total(r, R) /\ Total(sq, S \cup R) = Total(sq, S) + Total(sq, R)
    BY <1>3, <2>4, TotalUnion
  <2>6. Total(r, S) \in Int /\ Total(sq, S) \in Int
    BY <1>3, <2>4, TotalType
  <2>7. Total(r, D) = Total(r, S) + Total(r, R) /\ Total(sq, D) = Total(sq, S) + Total(sq, R)
    BY <1>3, <2>5, Zenon
  <2> QED
    BY <2>3, <2>6, <2>7
<1>7. Total(r, S) * Total(r, S) <= Cardinality(S) * Total(sq, S)
  BY <1>2, <1>3, CauchySchwarz
<1>8. s * s = Cardinality(D) * Total(sq, D) <=> \A x, y \in D : r[x] = r[y]
  BY <1>2, CauchySchwarz
<1>9. ASSUME NEW x \in D PROVE r[x] <= s
  <2>1. Total(r, D \ {x}) = s - r[x]
    BY <1>2, TotalRemove
  <2>2. Total(r, D \ {x}) \in Nat
    <3>1. IsFiniteSet(D \ {x}) /\ \A y \in D \ {x} : r[y] \in Nat
      BY FS_RemoveElement
    <3> QED
      BY <3>1, TotalType
  <2>3. r[x] \in Nat
    OBVIOUS
  <2> HIDE DEF s
  <2> QED
    BY <1>4, <2>1, <2>2, <2>3
<1>10. s # 0
  <2>1. PICK x \in S : r[x] # 0 /\ x \in D
    BY <1>3
  <2> HIDE DEF s
  <2> QED
    BY <1>4, <1>9, <2>1
<1>11. Total(sq, D) <= s * s
  <2> HIDE DEF s
  <2>1. \A x \in D : sq[x] \in Int /\ up[x] \in Int /\ sq[x] <= up[x]
    <3>1. TAKE x \in D
    <3>2. r[x] * r[x] <= s * r[x] /\ s * r[x] \in Nat
      <4>1. \A i, j \in Nat : i <= j => i * i <= j * i
        BY Z3
      <4>2. r[x] \in Nat /\ r[x] <= s
        BY <1>9
      <4> QED
        BY <1>1, <1>4, <4>1, <4>2
    <3> QED
      BY <1>2, <3>2
  <2>2. \A x \in D : r[x] \in Int /\ up[x] = s * r[x]
    BY <1>2
  <2> HIDE DEF up
  <2>3. Total(sq, D) <= Total(up, D)
    BY <2>1, TotalAtMost
  <2>4. Total(up, D) = s * Total(r, D)
    BY <1>4, <2>2, TotalTimes
  <2> QED
    BY <2>3, <2>4 DEF s
<1>12. Total(sq, D) # 0
  <2>1. ASSUME Total(sq, D) = 0 PROVE FALSE
    <3>1. Cardinality(S) \in Nat
      BY <1>3, FS_CardinalityType
    <3>2. s * s <= Cardinality(S) * Total(sq, D)
      BY <1>6, <1>7
    <3>3. Cardinality(S) * Total(sq, D) = 0
      BY <2>1, <3>1
    <3>4. \A i \in Nat \ {0} : i * i > 0
      BY Z3
    <3> HIDE DEF s
    <3>5. s * s > 0 /\ s * s \in Int
      BY <1>1, <1>4, <1>10, <3>4
    <3> QED
      BY <3>2, <3>3, <3>5
  <2> QED
    BY <2>1
<1> QED
  BY <1>4, <1>6, <1>7, <1>8, <1>10, <1>11, <1>12

\* Starving users shows in the index: it is at most the share of the users
\* served, at least one user's share, and 1 only if the rates are all the same
\* (broader_metrics.py:16-20, 55-65, 177-183).
THEOREM StarvationShows == Spec => []StarvedUsersShow
<1>1. ASSUME TypeOK, Reported, AdmittedPods # {} PROVE StarvedUsersShow
  <2> DEFINE users == {UserOf[k] : k \in DOMAIN pods}
             served == {UserOf[k] : k \in AdmittedPods}
             rate == PerUserRate
             n == Cardinality(users)
             J == StaticRow.jains_fairness_per_user_admission
  <2>1. IsFiniteSet(users) /\ users = DOMAIN rate /\ served \in SUBSET users
    <3>1. IsFiniteSet(users)
      BY <1>1, AskedType, ImageFinite
    <3>2. AdmittedPods \in SUBSET DOMAIN pods
      BY <1>1, AskedType
    <3> QED
      BY <3>1, <3>2 DEF PerUserRate
  <2>2. ASSUME NEW u \in users
        PROVE  /\ rate[u] \in Nat \X (Nat \ {0})
               /\ rate[u][1] # 0 <=> u \in served
    <3> DEFINE own == PodsOf(u)
               got == PodsOf(u) \cap AdmittedPods
    <3>1. own \in SUBSET DOMAIN pods /\ own # {} /\ got \in SUBSET DOMAIN pods
      BY DEF PodsOf
    <3>2. IsFiniteSet(own) /\ IsFiniteSet(got)
      BY <1>1, <3>1, AskedType
    <3>3. got # {} <=> u \in served
      BY <1>1, AskedType DEF PodsOf
    <3>4. rate[u] = <<Cardinality(got), Cardinality(own)>>
      BY DEF PerUserRate
    <3> HIDE DEF own, got
    <3>5. Cardinality(own) \in Nat \ {0} /\ Cardinality(got) \in Nat /\ (Cardinality(got) # 0 <=> got # {})
      BY <3>1, <3>2, FS_CardinalityType, FS_EmptySet
    <3> QED
      BY <3>3, <3>4, <3>5
  <2>3. served # {}
    BY <1>1
  <2>4. J = JainsFairnessIndex(rate)
    BY DEF StaticRow
  <2> HIDE DEF users, served, rate
  <2>15. PICK r : IndexedBy(rate, users, r)
    <3>1. IsFiniteSet(users) /\ users = DOMAIN rate /\ \A u \in users : rate[u] \in Nat \X (Nat \ {0})
      BY <2>1, <2>2
    <3> QED
      BY <3>1, IndexOfIntegers
  <2>5. /\ \A u \in users : r[u] \in Nat /\ (r[u] = 0 <=> rate[u][1] = 0)
        /\ \A u, v \in users : r[u] <= r[v] <=> AtMost(rate[u], rate[v])
        /\ JainsFairnessIndex(rate) =
             IF Total(r, users) = 0 THEN <<1, 1>>
             ELSE <<Total(r, users) * Total(r, users),
                    Cardinality(users) * Total([u \in users |-> r[u] * r[u]], users)>>
    BY <2>15 DEF IndexedBy
  <2> DEFINE sq == [u \in users |-> r[u] * r[u]]
             s == Total(r, users)
             q == Total(sq, users)
  <2>6. \A u \in users : u \in served <=> r[u] # 0
    BY <2>2, <2>5
  <2>7. /\ s \in Nat \ {0} /\ q \in Nat \ {0}
        /\ s * s <= Cardinality(served) * q /\ q <= s * s
        /\ s * s = n * q <=> \A u, v \in users : r[u] = r[v]
    <3>1. SquaresOf(sq, r, users)
      BY <2>5 DEF SquaresOf
    <3>2. NotZero(served, r, users)
      BY <2>1, <2>3, <2>6 DEF NotZero
    <3> HIDE DEF sq
    <3>3. /\ Total(r, users) \in Nat \ {0} /\ Total(sq, users) \in Nat \ {0}
          /\ Total(r, users) * Total(r, users) <= Cardinality(served) * Total(sq, users)
          /\ Total(sq, users) <= Total(r, users) * Total(r, users)
          /\ Total(r, users) * Total(r, users) = Cardinality(users) * Total(sq, users) <=>
               \A u, v \in users : r[u] = r[v]
      BY <2>1, <3>1, <3>2, IndexBounds
    <3> QED
      BY <3>3
  <2>8. J = <<s * s, n * q>>
    BY <2>4, <2>5, <2>7
  <2>9. n \in Nat \ {0} /\ Cardinality(served) \in Nat
    <3>1. IsFiniteSet(served) /\ n \in Nat /\ users # {}
      BY <2>1, <2>3, FS_Subset, FS_CardinalityType
    <3> QED
      BY <2>1, <3>1, FS_CardinalityType, FS_EmptySet
  <2> HIDE DEF J, n, s, q, sq
  <2>10. \A i, j \in Nat \ {0} : i * j \in Nat \ {0}
    BY Z3
  <2>11. s * s \in Nat \ {0} /\ n * q \in Nat \ {0} /\ J \in Fraction /\ J[1] = s * s /\ J[2] = n * q
    BY <2>7, <2>8, <2>9, <2>10 DEF Fraction
  <2>12. AtMost(J, <<Cardinality(served), n>>)
    <3>1. <<Cardinality(served), n>> \in Fraction
      BY <2>9 DEF Fraction
    <3>2. PICK c \in Nat : c = Cardinality(served)
      BY <2>9
    <3>3. (s * s) * n <= c * (n * q)
      <4>1. \A i, j \in Int : \A m \in Nat : i <= j => i * m <= j * m
        BY Z3
      <4>2. c * q \in Int /\ c * (n * q) = (c * q) * n
        BY <2>7, <2>9, Z3
      <4> QED
        BY <2>7, <2>9, <2>11, <3>2, <4>1, <4>2
    <3> QED
      BY <2>11, <3>1, <3>2, <3>3, AtMostCross
  <2>13. AtMost(<<1, n>>, J)
    <3>1. <<1, n>> \in Fraction
      BY <2>9 DEF Fraction
    <3>2. 1 * (n * q) <= (s * s) * n
      <4>1. \A i, j \in Int : \A m \in Nat : i <= j => m * i <= j * m
        BY Z3
      <4> QED
        BY <2>7, <2>9, <2>11, <4>1
    <3> QED
      BY <2>11, <3>1, <3>2, AtMostCross
  <2>14. J[1] = J[2] <=> \A u, v \in users : AtMost(rate[u], rate[v])
    <3>1. (\A u, v \in users : r[u] = r[v]) <=> \A u, v \in users : r[u] <= r[v]
      BY <2>5
    <3> QED
      BY <2>5, <2>7, <2>11, <3>1
  <2> QED
    BY <2>12, <2>13, <2>14 DEF StarvedUsersShow, users, served, rate, n, J
<1>2. TypeOK => StarvedUsersShow
  <2>1. ~Reported \/ AdmittedPods = {} => StarvedUsersShow
    BY DEF StarvedUsersShow
  <2> QED
    BY <1>1, <2>1
<1> QED
  BY <1>2, ClusterTyped, PTL
=============================================================================
