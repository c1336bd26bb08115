----------------------------- MODULE TypicalPods -----------------------------
(***************************************************************************)
(* The two builders of representative shapes in k8s_sim/fragmentation.py,  *)
(* in the order in which a sweep calls them on its pods:                   *)
(* build_typical_pods, whose shapes take every resource from the same      *)
(* quantile of the workload, and build_typical_pods_weighted, which cuts   *)
(* the workload into strata and takes one real pod from each.              *)
(*                                                                         *)
(* Quantiles are exact fractions of UNIT.  Where floating point may fall   *)
(* on either side of an integer or a half, the result is left open: a      *)
(* quantile that is exactly 3 may have come out as 2.999.. and been cut to *)
(* 2.  So is the order of pods of one magnitude, np.argsort not being      *)
(* stable, and the medoid among equally good ones.                         *)
(* Names Name_Bug: see EventRuntime.                                       *)
(***************************************************************************)
EXTENDS Resources, Sequences, Ordering

CONSTANT PodLists    \* the lists of pods the builders are given

ASSUME PodListsAssumption == PodLists \subseteq Seq(PodResource)

NShapes == 5         \* n_quantiles and n_shapes; no caller of a sweep changes it
UNIT == 20

VARIABLES
  pods,       \* the list; never changes
  gpu_pods,   \* those of it that ask for GPUs; neither does this
  typical,    \* shapes built by build_typical_pods so far
  stratum,    \* strata build_typical_pods_weighted has gone through
  left,       \* pods in no stratum so far
  shapes,     \* its shapes ..
  weights     \* .. and their weights, as fractions

weighted == <<stratum, left, shapes, weights>>
workload == <<pods, gpu_pods>>
vars == <<workload, typical, weighted>>

-----------------------------------------------------------------------------
AskForGpus(list) ==
  LET asking == Ascending({i \in DOMAIN list : list[i].gpu_number > 0 \/ list[i].milli_gpu > 0})
  IN  [k \in DOMAIN asking |-> list[asking[k]]]

CpuOnly == gpu_pods = <<>>

\* A pod that names no share asks for whole devices.
GpuMilli(p) == IF p.milli_gpu # 0 THEN p.milli_gpu ELSE p.gpu_number * MILLI

-----------------------------------------------------------------------------
(* np.quantile with linear interpolation, times UNIT.                      *)

\* In the order of the list.
Ranked_AsListed(values) == values
Ranked(values) == SortedBy(values, values)

Below(values, q) == Ranked(values)[((q * (Len(values) - 1)) \div UNIT) + 1]
Above(values, q) ==
  LET rank == ((q * (Len(values) - 1)) \div UNIT) + 2
  IN  Ranked(values)[Min({rank, Len(values)})]
Quantile(values, q) ==
  Below(values, q) * UNIT
    + (Above(values, q) - Below(values, q)) * ((q * (Len(values) - 1)) % UNIT)

\* The median alone is computed without rounding.
Exact(values, q) ==
  \/ (q * (Len(values) - 1)) % UNIT = 0
  \/ Below(values, q) = Above(values, q)
  \/ 2 * q = UNIT

\* int(..)
Truncated(values, q) ==
  LET v == Quantile(values, q)
  IN  {v \div UNIT} \cup
      {w \in {(v \div UNIT) - 1} : v % UNIT = 0 /\ ~Exact(values, q)}

\* int(round(..)): a half goes to the even neighbour.
Rounded(values, q) ==
  LET v == Quantile(values, q)
      down == v \div UNIT
  IN  IF 2 * (v % UNIT) # UNIT THEN {(2 * v + UNIT) \div (2 * UNIT)}
      ELSE IF Exact(values, q) THEN {down + (down % 2)}
      ELSE {down, down + 1}

\* np.linspace(0.2, 0.8, 5) and np.linspace(0.1, 0.9, 5)
CpuLevels == <<4, 7, 10, 13, 16>>
GpuLevels == <<2, 6, 10, 14, 18>>

-----------------------------------------------------------------------------
(* build_typical_pods.                                                     *)

Shape(c, g, n) ==
  [milli_cpu |-> c, milli_gpu |-> g, gpu_number |-> n, gpu_type |-> AnyType]

\* An empty list counts as one pod of one CPU.
CpuQuantile ==
  LET k == Len(typical) + 1
      cpu_vals == IF pods = <<>> THEN <<1000>> ELSE [i \in DOMAIN pods |-> pods[i].milli_cpu]
  IN  /\ CpuOnly /\ k <= NShapes
      /\ \E c \in Truncated(cpu_vals, CpuLevels[k]) : typical' = Append(typical, Shape(c, 0, 0))
      /\ UNCHANGED <<workload, weighted>>

GpuQuantile ==
  LET k == Len(typical) + 1
      cpu == [i \in DOMAIN gpu_pods |-> gpu_pods[i].milli_cpu]
      gpu_milli == [i \in DOMAIN gpu_pods |-> GpuMilli(gpu_pods[i])]
      gpu_n == [i \in DOMAIN gpu_pods |-> Max({gpu_pods[i].gpu_number, 1})]
  IN  /\ ~CpuOnly /\ k <= NShapes
      /\ \E c \in Truncated(cpu, GpuLevels[k]) :
         \E g \in Truncated(gpu_milli, GpuLevels[k]) :
         \E n \in Rounded(gpu_n, GpuLevels[k]) : typical' = Append(typical, Shape(c, g, n))
      /\ UNCHANGED <<workload, weighted>>

-----------------------------------------------------------------------------
(* build_typical_pods_weighted.                                            *)

N == Len(gpu_pods)

\* cpu.max() or 1.0, and gpu_milli.max(), which is not 0.
MaxCpu == Max({1} \cup {gpu_pods[i].milli_cpu : i \in DOMAIN gpu_pods})
MaxGpu == Max({GpuMilli(gpu_pods[i]) : i \in DOMAIN gpu_pods})

\* The sum of the two shares of the maximum, over their common denominator.
Magnitude(i) == gpu_pods[i].milli_cpu * MaxGpu + GpuMilli(gpu_pods[i]) * MaxCpu

\* np.array_split: the first strata take what does not divide.
StratumSize(k) == (N \div NShapes) + (IF k <= N % NShapes THEN 1 ELSE 0)

\* The next stratum: pods none of the others is smaller than.
Strata(size) ==
  {S \in kSubset(size, left) :
     \A i \in S : \A j \in left \ S : Magnitude(i) <= Magnitude(j)}

\* Twice np.median of the magnitudes.
TwiceMedian(S) ==
  LET ranked == InOrder(S, ByKey(S, [i \in S |-> Magnitude(i)]))
      size == Cardinality(S)
  IN  Magnitude(ranked[(size + 1) \div 2]) + Magnitude(ranked[(size \div 2) + 1])

Distance(i, S) == LET d == 2 * Magnitude(i) - TwiceMedian(S) IN IF d < 0 THEN 0 - d ELSE d

\* The medoid of all that is left.
Medoids_OfRest(S) == {i \in left : \A j \in left : Distance(i, left) <= Distance(j, left)}
Medoids(S) == {i \in S : \A j \in S : Distance(i, S) <= Distance(j, S)}

\* len(shapes) is never 0 here.
UniformFallback ==
  /\ CpuOnly /\ Len(typical) = NShapes /\ stratum = 0
  /\ stratum' = NShapes
  /\ shapes' = typical
  /\ weights' = [k \in 1 .. NShapes |-> <<1, NShapes>>]
  /\ UNCHANGED <<workload, typical, left>>

TakeStratum ==
  LET size == StratumSize(stratum + 1)
  IN  /\ ~CpuOnly /\ Len(typical) = NShapes /\ stratum < NShapes
      /\ size > 0
      /\ \E S \in Strata(size) : \E medoid \in {gpu_pods[i] : i \in Medoids(S)} :
           /\ shapes' = Append(shapes, medoid)
           /\ weights' = Append(weights, <<size, N>>)
           /\ left' = left \ S
      /\ stratum' = stratum + 1
      /\ UNCHANGED <<workload, typical>>

SkipStratum ==
  /\ ~CpuOnly /\ Len(typical) = NShapes /\ stratum < NShapes
  /\ StratumSize(stratum + 1) = 0
  /\ stratum' = stratum + 1
  /\ UNCHANGED <<workload, typical, left, shapes, weights>>

-----------------------------------------------------------------------------
Init ==
  /\ pods \in PodLists
  /\ gpu_pods = AskForGpus(pods)
  /\ typical = <<>>
  /\ stratum = 0
  /\ left = DOMAIN gpu_pods
  /\ shapes = <<>>
  /\ weights = <<>>

Next == CpuQuantile \/ GpuQuantile \/ UniformFallback \/ TakeStratum \/ SkipStratum

Spec == Init /\ [][Next]_vars

-----------------------------------------------------------------------------
(* Properties.                                                             *)

\* The shapes of build_typical_pods form a chain: a node with room for one
\* has room for those before it, so that unfit_fraction says up to which
\* quantile a node can still serve; and none is outside of what the workload
\* asks for, although no pod need look like it (fragmentation.py:41-52).
TypicalNested ==
  /\ \A k, l \in DOMAIN typical : k < l => AsksNoLess(typical[l], typical[k])
  /\ \A k \in DOMAIN typical : pods # <<>> =>
       /\ \E i \in DOMAIN pods : pods[i].milli_cpu <= typical[k].milli_cpu
       /\ \E i \in DOMAIN pods : pods[i].milli_cpu >= typical[k].milli_cpu
       /\ \E i \in DOMAIN pods : GpuMilli(pods[i]) >= typical[k].milli_gpu

Built == stratum = NShapes

Numerators == [k \in DOMAIN weights |-> weights[k][1]]
Weight(K) == MapThenSumSet(LAMBDA k : Numerators[k], K)
Whole == IF CpuOnly THEN NShapes ELSE N

\* Shapes and weights are the workload's: the weights sum to 1 and the strata
\* use up the workload (fragmentation.py:79), and a shape stands where the
\* weights put it: of the pods, a share of at least the weights before it is no
\* larger, and a share of less than the weights up to it is smaller
\* (fragmentation.py:96-111).
ShapesAreRanked ==
  /\ Built =>
       /\ Len(shapes) = Len(weights)
       /\ Weight(DOMAIN weights) = Whole
       /\ left = {}
  /\ ~CpuOnly =>
       \A k \in DOMAIN shapes :
         LET size == shapes[k].milli_cpu * MaxGpu + GpuMilli(shapes[k]) * MaxCpu
         IN  /\ Cardinality({i \in DOMAIN gpu_pods : Magnitude(i) <= size}) > Weight(1 .. k - 1)
             /\ Cardinality({i \in DOMAIN gpu_pods : Magnitude(i) < size}) < Weight(1 .. k)
=============================================================================
