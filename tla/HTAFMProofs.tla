----------------------------- MODULE HTAFMProofs -----------------------------
(***************************************************************************)
(* Proofs about HTAFM, for every list of nodes, every fan-out, every list  *)
(* of demands and every variant: no vertex is overbooked, and sharing      *)
(* wastes no whole device; whoever is left unscheduled fits nowhere for    *)
(* the rest of the list; the gradient of a placement is the change of the  *)
(* index it then makes, no other vertex would have left the index lower,   *)
(* and TAFI-Hier never falls; the hyperedges nest, and a node's vertices   *)
(* share out all of its GPUs.  The invariant is Built /\ Accounts: the     *)
(* topology is that of the nodes, and what is left of a vertex is what it  *)
(* started with less what is placed on it.  Last, what follows for a node  *)
(* as a whole.                                                             *)
(***************************************************************************)
EXTENDS HTAFM, Lemmas

-----------------------------------------------------------------------------
(* from_nodes.                                                             *)

\* Numbering n times h places by quotient and remainder.
LEMMA Places ==
  ASSUME NEW n \in Nat, NEW h \in Nat \ {0}, NEW a \in 0 .. n * h - 1
  PROVE  a \div h \in 0 .. n - 1 /\ a % h \in 0 .. h - 1
<1>1. /\ a \div h \in Int /\ a % h \in 0 .. h - 1
      /\ a = h * (a \div h) + (a % h)
  BY Z3
<1>2. a \div h >= 0
  BY <1>1, Z3T(30)
<1>3. ASSUME a \div h >= n PROVE FALSE
  <2>1. h * (a \div h) >= h * n
    BY <1>1, <1>3, Z3T(30)
  <2> QED
    BY <1>1, <2>1, Z3T(30)
<1> QED
  BY <1>1, <1>2, <1>3

\* Every hand is dealt devices of the node (topology.py:191-194).
LEMMA DealtType ==
  ASSUME NEW S, NEW gpus \in Seq(S), NEW h \in Nat \ {0}, NEW x \in 0 .. h - 1
  PROVE  Dealt(gpus, x, h) \in Seq(S)
<1> DEFINE q == (Len(gpus) - x + h - 1) \div h
<1>1. Len(gpus) \in Nat /\ q \in Nat
  BY Z3
<1>2. h * q <= Len(gpus) - x + h - 1
  BY <1>1, Z3T(30)
<1>3. ASSUME NEW k \in 1 .. q PROVE x + (k - 1) * h + 1 \in 1 .. Len(gpus)
  <2>1. (k - 1) * h >= 0 /\ k * h <= h * q /\ (k - 1) * h = k * h - h
    BY <1>1, Z3T(30)
  <2> HIDE DEF q
  <2> QED
    BY <1>1, <1>2, <2>1
<1> HIDE DEF q
<1>4. \A k \in 1 .. q : gpus[x + (k - 1) * h + 1] \in S
  BY <1>3
<1> QED
  BY <1>1, <1>4 DEF Dealt, q

\* A vertex starts with nothing negative and devices of its node
\* (topology.py:182-209).
LEMMA UntouchedType ==
  ASSUME NEW list \in Seq(TraceNode), NEW fan \in Fanout,
         NEW v \in 1 .. Len(list) * NumaPerNode(fan)
  PROVE  Untouched(Vertex(list, fan, v)) \in Left
<1> DEFINE h == NumaPerNode(fan)
           n == (v - 1) \div h
           x == (v - 1) % h
<1>1. h \in Nat \ {0}
  <2>1. fan.numa_per_socket \in Nat \ {0} /\ fan.sockets_per_node \in Nat \ {0}
    BY DEF Fanout
  <2> QED
    BY <2>1, Z3 DEF NumaPerNode
<1>2. n \in 0 .. Len(list) - 1 /\ x \in 0 .. h - 1
  <2>1. Len(list) \in Nat /\ v - 1 \in 0 .. Len(list) * h - 1
    BY <1>1, Z3T(30)
  <2> HIDE DEF h
  <2> QED
    BY <1>1, <2>1, Places
<1> DEFINE node == list[n + 1]
<1>3. node \in TraceNode
  BY <1>2
<1> HIDE DEF n, x, h
<1>4. node.milli_cpu_capacity \div h \in Nat /\ node.memory_mib_capacity \div h \in Nat
  <2>1. node.milli_cpu_capacity \in Nat /\ node.memory_mib_capacity \in Nat
    BY <1>3 DEF TraceNode
  <2> HIDE DEF node
  <2> QED
    BY <1>1, <2>1, Z3T(30)
<1>5. Dealt(node.milli_gpu_left_list, x, h) \in Seq(0 .. MILLI)
  BY <1>1, <1>2, <1>3, DealtType DEF TraceNode
<1> QED
  BY <1>4, <1>5 DEF Vertex, Untouched, Left, n, x, h

-----------------------------------------------------------------------------
(* schedule_one.                                                           *)

\* What being a sequence over a set means, and how to show it.
LEMMA SeqFacts ==
  ASSUME NEW S
  PROVE  /\ \A s \in Seq(S) : /\ Len(s) \in Nat /\ DOMAIN s = 1 .. Len(s)
                              /\ \A i \in DOMAIN s : s[i] \in S
         /\ \A n \in Nat : \A s \in [1 .. n -> S] : s \in Seq(S)
OBVIOUS

\* Milli-units left on the devices of a vertex.
LEMMA GpuFacts ==
  ASSUME NEW gpus \in Seq(0 .. MILLI)
  PROVE  /\ Len(gpus) \in Nat /\ DOMAIN gpus = 1 .. Len(gpus)
         /\ \A i \in DOMAIN gpus : gpus[i] \in Nat /\ gpus[i] <= MILLI
<1>1. Len(gpus) \in Nat /\ DOMAIN gpus = 1 .. Len(gpus) /\ \A i \in DOMAIN gpus : gpus[i] \in 0 .. MILLI
  BY SeqFacts
<1>2. \A a \in 0 .. MILLI : a \in Nat /\ a <= MILLI
  BY DEF MILLI
<1> QED
  BY <1>1, <1>2

\* A demand is placed only where it fits (htafm.py:219-230).
LEMMA ChosenFits ==
  ASSUME NEW d, NEW v \in Choice(d)
  PROVE  v \in DOMAIN left /\ Fits(topology.vertices[v], left[v], d)
<1>1. v \in Least(Gradient(d, Candidates(d)))
  BY DEF Choice
<1>2. v \in Candidates(d)
  BY <1>1 DEF Least, Gradient
<1> QED
  BY <1>2 DEF Candidates

\* What place() leaves is nowhere more than there was, and not negative.
LEMMA AfterPlaceShrinks ==
  ASSUME NEW l \in Left, NEW d \in TopoDemand, NEW vertex, Fits(vertex, l, d)
  PROVE  /\ AfterPlace(l, d) \in Left
         /\ DOMAIN AfterPlace(l, d).gpus = DOMAIN l.gpus
         /\ AfterPlace(l, d).milli_cpu <= l.milli_cpu
         /\ AfterPlace(l, d).memory_mib <= l.memory_mib
         /\ \A i \in DOMAIN l.gpus : AfterPlace(l, d).gpus[i] <= l.gpus[i]
<1>1. /\ l.milli_cpu \in Nat /\ l.memory_mib \in Nat /\ l.gpus \in Seq(0 .. MILLI)
      /\ d.milli_cpu \in Nat /\ d.memory_mib \in Nat /\ d.milli_gpu \in Nat
  BY DEF Left, TopoDemand
<1>2. d.milli_cpu <= l.milli_cpu /\ d.memory_mib <= l.memory_mib
  BY DEF Fits
<1>3. \A i \in Picked(l, d) : l.gpus[i] >= d.milli_gpu
  BY DEF Picked, Devices
<1>4. /\ DOMAIN l.gpus = 1 .. Len(l.gpus) /\ Len(l.gpus) \in Nat
      /\ \A i \in DOMAIN l.gpus : l.gpus[i] \in Nat /\ l.gpus[i] <= MILLI
  BY <1>1, GpuFacts
<1> DEFINE after == [i \in DOMAIN l.gpus |->
                       IF i \in Picked(l, d) THEN l.gpus[i] - d.milli_gpu ELSE l.gpus[i]]
<1>5. ASSUME NEW i \in DOMAIN l.gpus PROVE after[i] \in 0 .. MILLI /\ after[i] <= l.gpus[i]
  <2>1. MILLI \in Nat /\ l.gpus[i] \in Nat /\ l.gpus[i] <= MILLI /\ d.milli_gpu \in Nat
    BY <1>1, <1>4 DEF MILLI
  <2>2. CASE i \in Picked(l, d)
    <3>1. after[i] = l.gpus[i] - d.milli_gpu /\ d.milli_gpu <= l.gpus[i]
      BY <1>3, <2>2
    <3> HIDE DEF after
    <3> QED
      BY <2>1, <3>1
  <2>3. CASE i \notin Picked(l, d)
    BY <2>1, <2>3
  <2> QED
    BY <2>2, <2>3
<1>6. after \in Seq(0 .. MILLI)
  <2>2. \A i \in 1 .. Len(l.gpus) : after[i] \in 0 .. MILLI
    BY <1>4, <1>5
  <2>3. after = [i \in 1 .. Len(l.gpus) |-> after[i]]
    BY <1>4
  <2> HIDE DEF after
  <2>4. after \in [1 .. Len(l.gpus) -> 0 .. MILLI]
    BY <2>2, <2>3
  <2> QED
    BY <1>4, <2>4, SeqFacts
<1>7. AfterPlace(l, d) = [milli_cpu |-> l.milli_cpu - d.milli_cpu,
                          memory_mib |-> l.memory_mib - d.memory_mib, gpus |-> after]
  BY DEF AfterPlace
<1>8. DOMAIN after = DOMAIN l.gpus
  OBVIOUS
<1> HIDE DEF after
<1>9. l.milli_cpu - d.milli_cpu \in Nat /\ l.memory_mib - d.memory_mib \in Nat
  BY <1>1, <1>2
<1>10. AfterPlace(l, d) \in Left
  BY <1>6, <1>7, <1>9 DEF Left
<1> QED
  BY <1>1, <1>5, <1>7, <1>8, <1>10

\* What does not fit does not fit where there is less.
LEMMA FitsInLess ==
  ASSUME NEW l \in Left, NEW m \in Left, DOMAIN m.gpus = DOMAIN l.gpus,
         m.milli_cpu <= l.milli_cpu, m.memory_mib <= l.memory_mib,
         \A i \in DOMAIN l.gpus : m.gpus[i] <= l.gpus[i],
         NEW d \in TopoDemand, NEW vertex, Fits(vertex, m, d)
  PROVE  Fits(vertex, l, d)
<1>1. /\ l.milli_cpu \in Nat /\ l.memory_mib \in Nat /\ l.gpus \in Seq(0 .. MILLI)
      /\ m.milli_cpu \in Nat /\ m.memory_mib \in Nat /\ m.gpus \in Seq(0 .. MILLI)
      /\ d.milli_cpu \in Nat /\ d.memory_mib \in Nat /\ d.milli_gpu \in Nat
      /\ d.gpu_number \in Nat
  BY DEF Left, TopoDemand
<1>2. /\ DOMAIN l.gpus = 1 .. Len(l.gpus) /\ Len(l.gpus) \in Nat
      /\ \A i \in DOMAIN l.gpus : l.gpus[i] \in Nat /\ m.gpus[i] \in Nat
  BY <1>1, GpuFacts
<1>3. Devices(m, d) \subseteq Devices(l, d)
  BY <1>1, <1>2 DEF Devices
<1>4. IsFiniteSet(Devices(l, d))
  <2>1. Len(l.gpus) \in Int /\ 1 \in Int
    BY <1>2
  <2>2. IsFiniteSet(DOMAIN l.gpus)
    BY <1>2, <2>1, FS_Interval, Zenon
  <2>3. Devices(l, d) \subseteq DOMAIN l.gpus
    BY DEF Devices
  <2> QED
    BY <2>2, <2>3, FS_Subset, Zenon
<1>5. /\ Cardinality(Devices(m, d)) <= Cardinality(Devices(l, d))
      /\ Cardinality(Devices(m, d)) \in Nat /\ Cardinality(Devices(l, d)) \in Nat
  <2>1. IsFiniteSet(Devices(m, d)) /\ Cardinality(Devices(m, d)) <= Cardinality(Devices(l, d))
    BY <1>3, <1>4, FS_Subset, Zenon
  <2> QED
    BY <1>4, <2>1, FS_CardinalityType, Zenon
<1>6. d.milli_cpu <= l.milli_cpu /\ d.memory_mib <= l.memory_mib
  BY <1>1 DEF Fits
<1>7. d.gpu_type \in {AnyType} \cup vertex.gpu_types
  BY <1>1 DEF Fits
<1>8. Cardinality(Devices(l, d)) >= d.gpu_number
  <2>1. Cardinality(Devices(m, d)) >= d.gpu_number
    BY <1>1 DEF Fits
  <2> QED
    BY <1>1, <1>5, <2>1
<1> QED
  BY <1>6, <1>7, <1>8 DEF Fits

-----------------------------------------------------------------------------
(* The invariants.                                                         *)

\* The demand about to be scheduled is one.
LEMMA DemandType ==
  ASSUME TypeOK, Unscheduled
  PROVE  /\ Demand \in TopoDemand /\ demands \in Seq(TopoDemand)
         /\ Len(placement) \in Nat /\ Len(placement) + 1 <= Len(demands)
<1>1. demands \in Seq(TopoDemand)
  BY HTAFMArguments DEF TypeOK
<1>2. Len(placement) \in Nat /\ Len(placement) + 1 \in 1 .. Len(demands)
  BY <1>1 DEF TypeOK, Unscheduled
<1> QED
  BY <1>1, <1>2 DEF Demand

\* No vertex is overbooked in the first state.
LEMMA InitType == Init => TypeOK
<1> SUFFICES ASSUME Init PROVE TypeOK
  OBVIOUS
<1>1. PICK fan \in Fanouts : topology = FromNodes(nodes, fan)
  BY DEF Init
<1>2. nodes \in Seq(TraceNode) /\ fan \in Fanout /\ demands \in Seq(TopoDemand)
  BY HTAFMArguments DEF Init
<1>3. topology.vertices = [v \in 1 .. Len(nodes) * NumaPerNode(fan) |-> Vertex(nodes, fan, v)]
  BY <1>1 DEF FromNodes
<1>4. \A v \in DOMAIN topology.vertices : Untouched(topology.vertices[v]) \in Left
  BY <1>2, <1>3, UntouchedType
<1>5. left \in [DOMAIN topology.vertices -> Left]
  BY <1>4 DEF Init
<1>6. placement = <<>> /\ Len(demands) \in Nat
  BY <1>2 DEF Init
<1> QED
  BY <1>5, <1>6, HTAFMArguments DEF Init, TypeOK

\* A step books a vertex within what is left of it.
LEMMA StepType ==
  ASSUME TypeOK, Next
  PROVE  TypeOK'
<1>1. Unscheduled
  BY DEF Next
<1>2. ASSUME NEW v \in Choice(Demand), Schedule(v) PROVE TypeOK'
  <2>1. v \in DOMAIN left /\ Fits(topology.vertices[v], left[v], Demand)
    BY <1>2, ChosenFits
  <2>2. left[v] \in Left
    BY <2>1 DEF TypeOK
  <2>3. AfterPlace(left[v], Demand) \in Left
    BY <1>1, <2>1, <2>2, DemandType, AfterPlaceShrinks
  <2>4. left' \in [DOMAIN topology.vertices -> Left] /\ DOMAIN left' = DOMAIN left
    BY <1>2, <2>3 DEF Schedule, TypeOK
  <2>5. placement' \in Seq(DOMAIN left \cup {None}) /\ Len(placement') = Len(placement) + 1
    BY <1>2, <2>1 DEF Schedule, TypeOK
  <2> QED
    BY <1>1, <1>2, <2>4, <2>5, DemandType DEF Schedule, TypeOK, arguments
<1>3. ASSUME LeaveUnscheduled PROVE TypeOK'
  <2>1. placement' \in Seq(DOMAIN left \cup {None}) /\ Len(placement') = Len(placement) + 1
    BY <1>3 DEF LeaveUnscheduled, TypeOK
  <2> QED
    BY <1>1, <1>3, <2>1, DemandType DEF LeaveUnscheduled, TypeOK, arguments
<1> QED
  BY <1>2, <1>3 DEF Next

\* No vertex is ever overbooked, in cpu, memory or on any device
\* (topology.py:86-126).
THEOREM NeverOverbooked == Spec => []TypeOK
<1>1. TypeOK /\ [Next]_vars => TypeOK'
  <2>1. TypeOK /\ UNCHANGED vars => TypeOK'
    BY DEF TypeOK, vars, arguments
  <2> QED
    BY <2>1, StepType
<1> QED
  BY <1>1, InitType, PTL DEF Spec

\* A step leaves no vertex with room for a demand it had no room for.
LEMMA NoRoomGained ==
  ASSUME TypeOK, Next, NEW w \in DOMAIN left, NEW d \in TopoDemand,
         Fits(topology.vertices[w], left'[w], d)
  PROVE  Fits(topology.vertices[w], left[w], d)
<1>1. ASSUME NEW v \in Choice(Demand), Schedule(v), v = w PROVE Fits(topology.vertices[w], left[w], d)
  <2>1. Fits(topology.vertices[v], left[v], Demand) /\ left[v] \in Left /\ Demand \in TopoDemand
    BY ChosenFits, DemandType DEF TypeOK, Next
  <2>2. left'[w] = AfterPlace(left[w], Demand)
    BY <1>1 DEF Schedule, TypeOK
  <2> QED
    BY <1>1, <2>1, <2>2, AfterPlaceShrinks, FitsInLess
<1>2. ASSUME NEW v \in Choice(Demand), Schedule(v), v # w PROVE left'[w] = left[w]
  BY <1>2 DEF Schedule, TypeOK
<1>3. ASSUME LeaveUnscheduled PROVE left'[w] = left[w]
  BY <1>3 DEF LeaveUnscheduled
<1> QED
  BY <1>1, <1>2, <1>3 DEF Next

\* Topology.from_nodes has built the topology, and nothing changes it.
Built == nodes \in NodeLists /\ \E fan \in Fanouts : topology = FromNodes(nodes, fan)

\* The topology of a run is the one from_nodes built for it.
LEMMA AlwaysBuilt == Spec => []Built
<1>1. Init => Built
  BY HTAFMArguments DEF Init, Built
<1>2. Built /\ [Next]_vars => Built'
  BY DEF Built, Next, Schedule, LeaveUnscheduled, vars, arguments
<1> QED
  BY <1>1, <1>2, PTL DEF Spec

\* Vertices are numbered, None is not one, and each starts with nothing negative.
LEMMA VertexFacts ==
  ASSUME Built
  PROVE  /\ DOMAIN topology.vertices \subseteq Nat /\ None \notin DOMAIN topology.vertices
         /\ \A v \in DOMAIN topology.vertices : Untouched(topology.vertices[v]) \in Left
<1>1. PICK fan \in Fanout : topology = FromNodes(nodes, fan)
  BY HTAFMArguments DEF Built
<1>2. topology.vertices = [v \in 1 .. Len(nodes) * NumaPerNode(fan) |-> Vertex(nodes, fan, v)]
  BY <1>1 DEF FromNodes
<1>3. nodes \in Seq(TraceNode)
  BY HTAFMArguments DEF Built
<1>4. 1 .. Len(nodes) * NumaPerNode(fan) \subseteq Nat
  <2>1. \A n : 1 .. n \subseteq Nat
    OBVIOUS
  <2> QED
    BY <2>1
<1>5. \A v \in DOMAIN topology.vertices : Untouched(topology.vertices[v]) \in Left
  BY <1>2, <1>3, UntouchedType
<1> QED
  BY <1>2, <1>4, <1>5, HTAFMArguments

\* A step answers the demand at hand: with a vertex, or with None if it fits none.
LEMMA StepAnswers ==
  ASSUME TypeOK, Built, Next
  PROVE  \E r : placement' = Append(placement, r) /\ (r = None => Candidates(Demand) = {})
<1>1. ASSUME NEW v \in Choice(Demand), Schedule(v)
      PROVE  v # None /\ placement' = Append(placement, v)
  BY <1>1, ChosenFits, VertexFacts DEF TypeOK, Schedule
<1> QED
  BY <1>1 DEF Next, LeaveUnscheduled

\* A demand left unscheduled fits no vertex, neither then nor at any later
\* time (htafm.py:181-182, 220-222): no variant overlooks a vertex.
THEOREM NobodyOverlooked == Spec => []UnscheduledStaysUnfit
<1>1. Init => UnscheduledStaysUnfit
  BY DEF Init, UnscheduledStaysUnfit
<1>2. ASSUME TypeOK, Built, UnscheduledStaysUnfit, Next PROVE UnscheduledStaysUnfit'
  <2>1. UNCHANGED arguments /\ DOMAIN left' = DOMAIN left
    BY <1>2 DEF Next, Schedule, LeaveUnscheduled, TypeOK, arguments
  <2>2. PICK r : placement' = Append(placement, r) /\ (r = None => Candidates(Demand) = {})
    BY <1>2, StepAnswers
  <2>3. /\ demands \in Seq(TopoDemand) /\ Len(placement) \in Nat /\ Len(placement) < Len(demands)
        /\ placement \in Seq(DOMAIN left \cup {None})
    BY <1>2, DemandType DEF Next, TypeOK
  <2>4. ASSUME NEW k \in DOMAIN placement', placement'[k] = None, NEW v \in DOMAIN left
        PROVE  demands[k] \in TopoDemand /\ ~Fits(topology.vertices[v], left[v], demands[k])
    <3>1. CASE k \in DOMAIN placement
      <4>1. placement[k] = None /\ k \in DOMAIN demands
        BY <2>2, <2>3, <2>4, <3>1
      <4> QED
        BY <1>2, <2>3, <2>4, <4>1, <3>1 DEF UnscheduledStaysUnfit
    <3>2. CASE k = Len(placement) + 1
      <4>1. r = None /\ demands[k] = Demand /\ k \in DOMAIN demands
        BY <2>2, <2>3, <2>4, <3>2 DEF Demand
      <4>2. Candidates(Demand) = {}
        BY <2>2, <4>1
      <4>3. demands[k] \in TopoDemand
        BY <2>3, <4>1
      <4> QED
        BY <2>4, <4>1, <4>2, <4>3 DEF Candidates
    <3> QED
      BY <2>2, <2>3, <2>4, <3>1, <3>2
  <2>5. ASSUME NEW k \in DOMAIN placement', placement'[k] = None, NEW v \in DOMAIN left
        PROVE  ~Fits(topology.vertices[v], left'[v], demands[k])
    BY <1>2, <2>4, <2>5, NoRoomGained
  <2> QED
    BY <2>1, <2>5 DEF UnscheduledStaysUnfit, arguments
<1>3. UnscheduledStaysUnfit /\ UNCHANGED vars => UnscheduledStaysUnfit'
  BY DEF UnscheduledStaysUnfit, vars, arguments
<1> QED
  BY <1>1, <1>2, <1>3, NeverOverbooked, AlwaysBuilt, PTL DEF Spec

-----------------------------------------------------------------------------
(* place() takes as many devices as the demand asks for.                   *)

\* Where a device stands among those with room, counted from 0.
Rank(l, d, i) == Cardinality({j \in Devices(l, d) : Fuller(l, j, i)})

\* Sorting leaves no gap and no tie: the ranks of the devices with room are
\* 0, 1, .. (topology.py:121-123).
LEMMA RanksAreAll ==
  ASSUME NEW l \in Left, NEW d
  PROVE  LET D == Devices(l, d)
             rank == [i \in D |-> Rank(l, d, i)]
         IN  IsFiniteSet(D) /\ rank \in Bijection(D, 0 .. Cardinality(D) - 1)
<1> DEFINE D == Devices(l, d)
           rank == [i \in D |-> Rank(l, d, i)]
           Above(i) == {j \in D : Fuller(l, j, i)}
<1>1. /\ DOMAIN l.gpus = 1 .. Len(l.gpus) /\ Len(l.gpus) \in Nat
      /\ \A i \in DOMAIN l.gpus : l.gpus[i] \in Nat
  BY GpuFacts DEF Left
<1>2. IsFiniteSet(D) /\ \A i \in D : i \in Int /\ l.gpus[i] \in Int
  <2>1. D \subseteq DOMAIN l.gpus
    BY DEF Devices
  <2> HIDE DEF D
  <2>2. IsFiniteSet(DOMAIN l.gpus)
    BY <1>1, UpTo, Zenon
  <2>3. IsFiniteSet(D)
    BY <2>1, <2>2, FS_Subset
  <2> QED
    BY <1>1, <2>1, <2>3
<1>3. \A i \in D : rank[i] = Cardinality(Above(i))
  BY DEF Rank
<1>4. \A i, j \in D : i # j => Fuller(l, i, j) \/ Fuller(l, j, i)
  BY <1>2 DEF Fuller
<1>5. \A i, j, k \in D : Fuller(l, i, j) /\ Fuller(l, j, k) => Fuller(l, i, k)
  BY <1>2 DEF Fuller
<1>6. \A i \in D : ~Fuller(l, i, i)
  BY <1>2 DEF Fuller
<1> HIDE DEF D, rank
<1>7. ASSUME NEW i \in D PROVE rank[i] \in 0 .. Cardinality(D) - 1
  <2>1. Above(i) \in SUBSET D /\ Above(i) # D
    BY <1>6
  <2>2. /\ Cardinality(Above(i)) \in Nat /\ Cardinality(D) \in Nat
        /\ Cardinality(Above(i)) <= Cardinality(D) /\ Cardinality(Above(i)) # Cardinality(D)
    BY <1>2, <2>1, FS_Subset, FS_CardinalityType
  <2> QED
    BY <1>3, <2>2
<1>8. ASSUME NEW i \in D, NEW j \in D, Fuller(l, i, j) PROVE rank[i] < rank[j]
  <2>1. Above(i) \in SUBSET Above(j) /\ Above(i) # Above(j)
    <3>1. i \in Above(j) /\ i \notin Above(i)
      BY <1>6, <1>8
    <3>2. Above(i) \subseteq Above(j)
      BY <1>5, <1>8
    <3> QED
      BY <3>1, <3>2
  <2>2. IsFiniteSet(Above(j))
    BY <1>2, FS_Subset
  <2> HIDE DEF Above
  <2>3. /\ Cardinality(Above(i)) \in Nat /\ Cardinality(Above(j)) \in Nat
        /\ Cardinality(Above(i)) <= Cardinality(Above(j)) /\ Cardinality(Above(i)) # Cardinality(Above(j))
    BY <2>1, <2>2, FS_Subset, FS_CardinalityType
  <2> QED
    BY <1>3, <2>3
<1>9. rank \in [D -> 0 .. Cardinality(D) - 1]
  BY <1>7 DEF rank
<1>10. rank \in Injection(D, 0 .. Cardinality(D) - 1)
  <2>1. ASSUME NEW i \in D, NEW j \in D, rank[i] = rank[j] PROVE i = j
    <3>1. rank[i] \in Int /\ rank[j] \in Int
      BY <1>7
    <3>2. ~(rank[i] < rank[j]) /\ ~(rank[j] < rank[i])
      BY <2>1, <3>1
    <3> QED
      BY <1>4, <1>8, <3>2
  <2> QED
    BY <1>9, <2>1 DEF Injection, IsInjective
<1>11. Cardinality(D) \in Nat /\ IsFiniteSet(0 .. Cardinality(D) - 1)
       /\ Cardinality(0 .. Cardinality(D) - 1) = Cardinality(D)
  <2>1. Cardinality(D) \in Nat
    BY <1>2, FS_CardinalityType
  <2>2. /\ 0 \in Int /\ Cardinality(D) - 1 \in Int
        /\ (IF 0 > Cardinality(D) - 1 THEN 0 ELSE (Cardinality(D) - 1) - 0 + 1) = Cardinality(D)
    BY <2>1
  <2>3. /\ IsFiniteSet(0 .. Cardinality(D) - 1)
        /\ Cardinality(0 .. Cardinality(D) - 1)
             = IF 0 > Cardinality(D) - 1 THEN 0 ELSE (Cardinality(D) - 1) - 0 + 1
    BY <2>2, FS_Interval, Zenon
  <2> QED
    BY <2>1, <2>2, <2>3
<1>12. rank \in Surjection(D, 0 .. Cardinality(D) - 1)
  BY <1>10, <1>11, FS_Injection
<1> QED
  BY <1>2, <1>10, <1>12 DEF Bijection, D, rank

\* Once fits() has counted enough devices, place() deducts the share from
\* exactly gpu_number of them (topology.py:95-103, 121-126).
LEMMA PicksAsMany ==
  ASSUME NEW l \in Left, NEW d \in TopoDemand, NEW vertex, Fits(vertex, l, d)
  PROVE  Cardinality(Picked(l, d)) = d.gpu_number
<1> DEFINE D == Devices(l, d)
           rank == [i \in D |-> Rank(l, d, i)]
           P == Picked(l, d)
           n == Cardinality(D)
           first == [i \in P |-> rank[i]]
<1>1. IsFiniteSet(D) /\ rank \in Bijection(D, 0 .. n - 1)
  BY RanksAreAll
<1>2. n \in Nat /\ d.gpu_number \in Nat /\ d.gpu_number <= n
  BY <1>1, FS_CardinalityType DEF Fits, TopoDemand
<1>3. P = {i \in D : rank[i] < d.gpu_number}
  BY DEF Picked, Rank
<1> HIDE DEF D, rank, P, n
<1>4. /\ rank \in [D -> 0 .. n - 1]
      /\ \A i, j \in D : rank[i] = rank[j] => i = j
      /\ \A k \in 0 .. n - 1 : \E i \in D : rank[i] = k
  BY <1>1 DEF Bijection, Injection, IsInjective, Surjection
<1>5. first \in Injection(P, 0 .. d.gpu_number - 1)
  <2>1. first \in [P -> 0 .. d.gpu_number - 1]
    BY <1>2, <1>3, <1>4
  <2> QED
    BY <1>3, <1>4, <2>1 DEF Injection, IsInjective
<1>6. first \in Surjection(P, 0 .. d.gpu_number - 1)
  <2>1. first \in [P -> 0 .. d.gpu_number - 1]
    BY <1>5 DEF Injection
  <2>2. ASSUME NEW k \in 0 .. d.gpu_number - 1 PROVE \E i \in P : first[i] = k
    <3>1. k \in 0 .. n - 1 /\ k < d.gpu_number
      BY <1>2
    <3>2. PICK i \in D : rank[i] = k
      BY <1>4, <3>1
    <3> QED
      BY <1>3, <3>1, <3>2
  <2> QED
    BY <2>1, <2>2 DEF Surjection
<1>7. /\ IsFiniteSet(0 .. d.gpu_number - 1)
      /\ Cardinality(0 .. d.gpu_number - 1) = d.gpu_number
  <2>1. 0 \in Int /\ d.gpu_number - 1 \in Int
    BY <1>2
  <2>2. /\ IsFiniteSet(0 .. d.gpu_number - 1)
        /\ Cardinality(0 .. d.gpu_number - 1) =
             IF 0 > d.gpu_number - 1 THEN 0 ELSE d.gpu_number - 1 - 0 + 1
    BY <2>1, FS_Interval, Zenon
  <2> QED
    BY <1>2, <2>2
<1> HIDE DEF first
<1>8. Cardinality(P) = Cardinality(0 .. d.gpu_number - 1)
  BY <1>5, <1>6, <1>7, FS_Injection
<1> QED
  BY <1>7, <1>8 DEF P

-----------------------------------------------------------------------------
(* The accounts.                                                           *)

\* The sum over the devices is one over their numbers.
LEMMA DeviceSum ==
  ASSUME NEW gpus
  PROVE  SumFunction(gpus) = Total(gpus, DOMAIN gpus)
BY DEF SumFunction, SumFunctionOnSet, FoldFunctionOnSet, Total, MapThenSumSet

\* The free vector of a vertex has no negative entry.
LEMMA FreeType ==
  ASSUME NEW l \in Left
  PROVE  /\ FreeVector(l) \in [milli_cpu : Nat, memory_mib : Nat, milli_gpu : Nat]
         /\ IsFiniteSet(DOMAIN l.gpus) /\ \A i \in DOMAIN l.gpus : l.gpus[i] \in Nat
<1>1. /\ DOMAIN l.gpus = 1 .. Len(l.gpus) /\ Len(l.gpus) \in Nat
      /\ \A i \in DOMAIN l.gpus : l.gpus[i] \in Nat
  BY GpuFacts DEF Left
<1>2. IsFiniteSet(DOMAIN l.gpus)
  BY <1>1, UpTo, Zenon
<1>3. SumFunction(l.gpus) \in Nat
  BY <1>1, <1>2, DeviceSum, TotalType
<1> QED
  BY <1>1, <1>2, <1>3 DEF FreeVector, Left

\* place() takes the demand in full, its share of GPU once per device.
LEMMA PlaceTakesAll ==
  ASSUME NEW l \in Left, NEW d \in TopoDemand, NEW vertex, Fits(vertex, l, d)
  PROVE  FreeVector(AfterPlace(l, d)) =
           [milli_cpu |-> FreeVector(l).milli_cpu - d.milli_cpu,
            memory_mib |-> FreeVector(l).memory_mib - d.memory_mib,
            milli_gpu |-> FreeVector(l).milli_gpu - TotalMilliGpu(d)]
<1> DEFINE f == l.gpus
           g == AfterPlace(l, d).gpus
           P == Picked(l, d)
<1>1. /\ DOMAIN g = DOMAIN f
      /\ \A i \in DOMAIN f : g[i] = IF i \in P THEN f[i] - d.milli_gpu ELSE f[i]
  BY DEF AfterPlace
<1>2. P \in SUBSET DOMAIN f
  BY DEF Picked, Devices
<1>3. d.milli_gpu \in Int /\ d.gpu_number \in Int
  BY DEF TopoDemand
<1>4. Cardinality(P) = d.gpu_number
  BY PicksAsMany
<1>5. IsFiniteSet(DOMAIN f) /\ \A i \in DOMAIN f : f[i] \in Int
  BY FreeType
<1>6. Total(f, DOMAIN f) \in Int
  BY <1>5, TotalType
<1> HIDE DEF f, g, P
<1>7. Total(g, DOMAIN f) = Total(f, DOMAIN f) - d.milli_gpu * Cardinality(P)
  <2> DEFINE S == DOMAIN f
             c == d.milli_gpu
  <2>1. /\ IsFiniteSet(S) /\ P \in SUBSET S /\ c \in Int /\ \A i \in S : f[i] \in Int
        /\ \A i \in P : g[i] = f[i] - c
        /\ \A i \in S \ P : g[i] = f[i]
    BY <1>1, <1>2, <1>3, <1>5
  <2> HIDE DEF S, c
  <2>2. Total(g, S) = Total(f, S) - c * Cardinality(P)
    BY <2>1, TotalLess
  <2> QED
    BY <2>2 DEF S, c
<1>8. SumFunction(g) = SumFunction(f) - TotalMilliGpu(d)
  BY <1>1, <1>4, <1>7, DeviceSum DEF TotalMilliGpu
<1> QED
  BY <1>8 DEF FreeVector, AfterPlace, f, g

\* What the demands ask for, of GPUs in total.
AsksInTotal == [k \in DOMAIN demands |-> TotalMilliGpu(demands[k])]

\* PlacementsAccountFor adds up total_milli_gpu.
LEMMA SumOfTotals ==
  ASSUME NEW K \in SUBSET DOMAIN demands
  PROVE  MapThenSumSet(LAMBDA k : TotalMilliGpu(demands[k]), K) = Total(AsksInTotal, K)
<1> DEFINE ByDemands(g) == g = [s \in SUBSET K |->
                                  IF s = {} THEN 0
                                  ELSE TotalMilliGpu(demands[First(s)]) + g[s \ {First(s)}]]
<1>1. \A s \in SUBSET K : s # {} => AsksInTotal[First(s)] = TotalMilliGpu(demands[First(s)])
  BY FirstIn DEF AsksInTotal
<1>2. MapThenSumSet(LAMBDA k : TotalMilliGpu(demands[k]), K) = (CHOOSE g : ByDemands(g))[K]
  BY DEF MapThenSumSet, MapThenFoldSet, First
<1>3. \A g : ByDemands(g) <=> Iterates(AsksInTotal, g, K)
  BY <1>1 DEF Iterates, Unroll
<1> HIDE DEF ByDemands
<1>4. (CHOOSE g : ByDemands(g)) = (CHOOSE g : Iterates(AsksInTotal, g, K))
  BY <1>3
<1> QED
  BY <1>2, <1>4, TotalDef

\* What the demands K leave of start, by sums of what they ask for.
Rest(start, K) ==
  [milli_cpu |-> start.milli_cpu - Total(Asks(demands, "milli_cpu"), K),
   memory_mib |-> start.memory_mib - Total(Asks(demands, "memory_mib"), K),
   milli_gpu |-> start.milli_gpu - Total(AsksInTotal, K)]

Start(v) == FreeVector(Untouched(topology.vertices[v]))

\* PlacementsAccountFor, in these words.
Accounts == \A v \in DOMAIN left : FreeVector(left[v]) = Rest(Start(v), PlacedOn(v))

\* Its sums are those of PlacementsAccountFor.
LEMMA AccountsSuffice ==
  ASSUME TypeOK, Accounts
  PROVE  PlacementsAccountFor
<1>1. /\ demands \in Seq(TopoDemand) /\ Len(placement) <= Len(demands)
      /\ placement \in Seq(DOMAIN left \cup {None})
  BY HTAFMArguments DEF TypeOK
<1>2. \A v : PlacedOn(v) \in SUBSET DOMAIN demands
  BY <1>1 DEF PlacedOn
<1>3. ASSUME NEW v \in DOMAIN left
      PROVE  Rest(Start(v), PlacedOn(v)) =
             LET start == FreeVector(Untouched(topology.vertices[v]))
             IN  [milli_cpu |-> start.milli_cpu
                    - MapThenSumSet(LAMBDA k : demands[k].milli_cpu, PlacedOn(v)),
                  memory_mib |-> start.memory_mib
                    - MapThenSumSet(LAMBDA k : demands[k].memory_mib, PlacedOn(v)),
                  milli_gpu |-> start.milli_gpu
                    - MapThenSumSet(LAMBDA k : TotalMilliGpu(demands[k]), PlacedOn(v))]
  BY <1>2, SumOfAsks, SumOfTotals DEF Rest, Start
<1>4. \A v \in DOMAIN left : left[v] \in Left
  BY DEF TypeOK
<1> QED
  BY <1>3, <1>4 DEF PlacementsAccountFor, Accounts, Start

\* Nothing asked leaves all; one more demand takes what it asks for.
LEMMA RestFacts ==
  ASSUME TypeOK, NEW start \in [milli_cpu : Nat, memory_mib : Nat, milli_gpu : Nat]
  PROVE  /\ Rest(start, {}) = start
         /\ \A K \in SUBSET DOMAIN demands : \A k \in DOMAIN demands \ K :
              Rest(start, K \cup {k}) =
                [milli_cpu |-> Rest(start, K).milli_cpu - demands[k].milli_cpu,
                 memory_mib |-> Rest(start, K).memory_mib - demands[k].memory_mib,
                 milli_gpu |-> Rest(start, K).milli_gpu - TotalMilliGpu(demands[k])]
<1>1. Rest(start, {}) = start
  <2>1. \A f : Total(f, {}) = 0
    BY TotalUnroll, FS_EmptySet
  <2> QED
    BY <2>1 DEF Rest
<1>2. ASSUME NEW K \in SUBSET DOMAIN demands, NEW k \in DOMAIN demands \ K
      PROVE  Rest(start, K \cup {k}) =
                [milli_cpu |-> Rest(start, K).milli_cpu - demands[k].milli_cpu,
                 memory_mib |-> Rest(start, K).memory_mib - demands[k].memory_mib,
                 milli_gpu |-> Rest(start, K).milli_gpu - TotalMilliGpu(demands[k])]
  <2> DEFINE Sums == {Asks(demands, "milli_cpu"), Asks(demands, "memory_mib"), AsksInTotal}
  <2>1. demands \in Seq(TopoDemand)
    BY HTAFMArguments DEF TypeOK
  <2>2. IsFiniteSet(K) /\ \A i \in DOMAIN demands : demands[i] \in TopoDemand
    <3>1. DOMAIN demands = 1 .. Len(demands) /\ Len(demands) \in Nat
      BY <2>1
    <3>2. IsFiniteSet(DOMAIN demands)
      BY <3>1, UpTo, Zenon
    <3> QED
      BY <2>1, <3>2, FS_Subset
  <2>3. \A d \in TopoDemand : /\ d.milli_cpu \in Int /\ d.memory_mib \in Int
                              /\ d.milli_gpu \in Int /\ d.gpu_number \in Int
    BY DEF TopoDemand
  <2>4. \A a, b \in Int : a * b \in Int
    OBVIOUS
  <2>5. \A i \in DOMAIN demands : TotalMilliGpu(demands[i]) \in Int
    BY <2>2, <2>3, <2>4 DEF TotalMilliGpu
  <2>6. \A f \in Sums : \A i \in DOMAIN demands : f[i] \in Int
    BY <2>2, <2>3, <2>5 DEF Asks, AsksInTotal
  <2>7. ASSUME NEW f \in Sums
        PROVE  Total(f, K \cup {k}) = f[k] + Total(f, K) /\ Total(f, K) \in Int /\ f[k] \in Int
    BY <2>2, <2>6, TotalAdd, TotalType
  <2>8. /\ Asks(demands, "milli_cpu")[k] = demands[k].milli_cpu
        /\ Asks(demands, "memory_mib")[k] = demands[k].memory_mib
        /\ AsksInTotal[k] = TotalMilliGpu(demands[k])
    BY DEF Asks, AsksInTotal
  <2>9. start.milli_cpu \in Int /\ start.memory_mib \in Int /\ start.milli_gpu \in Int
    OBVIOUS
  <2> QED
    BY <2>7, <2>8, <2>9 DEF Rest
<1> QED
  BY <1>1, <1>2

\* The vertex a demand is placed on is charged with it, and no other.
LEMMA StepAccounts ==
  ASSUME TypeOK, Built, Accounts, Next
  PROVE  Accounts'
<1> DEFINE k == Len(placement) + 1
<1>1. /\ demands \in Seq(TopoDemand) /\ Len(placement) \in Nat /\ Len(placement) < Len(demands)
      /\ placement \in Seq(DOMAIN left \cup {None})
      /\ Demand = demands[k] /\ Demand \in TopoDemand
  BY DemandType DEF Next, TypeOK, Demand
<1>2. UNCHANGED arguments /\ DOMAIN left' = DOMAIN left
  BY DEF Next, Schedule, LeaveUnscheduled, TypeOK, arguments
<1>3. \A v \in DOMAIN left : FreeVector(left[v]) = Rest(Start(v), PlacedOn(v))
  BY DEF Accounts
<1>4. \A v \in DOMAIN left : PlacedOn(v) \in SUBSET DOMAIN demands /\ k \in DOMAIN demands \ PlacedOn(v)
  BY <1>1 DEF PlacedOn
<1>5. \A v \in DOMAIN left : Start(v) \in [milli_cpu : Nat, memory_mib : Nat, milli_gpu : Nat]
  BY VertexFacts, FreeType DEF Start, TypeOK
<1>6. ASSUME NEW r, placement' = Append(placement, r), NEW v \in DOMAIN left
      PROVE  PlacedOn(v)' = IF r = v THEN PlacedOn(v) \cup {k} ELSE PlacedOn(v)
  BY <1>1, <1>6 DEF PlacedOn
<1>7. ASSUME NEW v \in DOMAIN left
      PROVE  FreeVector(left'[v]) = Rest(Start(v), PlacedOn(v)')
  <2>1. CASE \E w \in Choice(Demand) : Schedule(w)
    <3>1. PICK w \in Choice(Demand) : Schedule(w)
      BY <2>1
    <3>2. w \in DOMAIN left /\ Fits(topology.vertices[w], left[w], Demand) /\ left[w] \in Left
      BY ChosenFits DEF TypeOK
    <3>3. placement' = Append(placement, w)
          /\ left'[v] = IF v = w THEN AfterPlace(left[v], Demand) ELSE left[v]
      BY <3>1 DEF Schedule, TypeOK
    <3>4. CASE v = w
      <4>1. FreeVector(left'[v]) =
              [milli_cpu |-> FreeVector(left[v]).milli_cpu - Demand.milli_cpu,
               memory_mib |-> FreeVector(left[v]).memory_mib - Demand.memory_mib,
               milli_gpu |-> FreeVector(left[v]).milli_gpu - TotalMilliGpu(Demand)]
        BY <1>1, <3>2, <3>3, <3>4, PlaceTakesAll
      <4>2. PlacedOn(v)' = PlacedOn(v) \cup {k}
        BY <1>6, <3>3, <3>4
      <4> HIDE DEF k
      <4>3. Rest(Start(v), PlacedOn(v) \cup {k}) =
              [milli_cpu |-> Rest(Start(v), PlacedOn(v)).milli_cpu - demands[k].milli_cpu,
               memory_mib |-> Rest(Start(v), PlacedOn(v)).memory_mib - demands[k].memory_mib,
               milli_gpu |-> Rest(Start(v), PlacedOn(v)).milli_gpu - TotalMilliGpu(demands[k])]
        BY <1>4, <1>5, RestFacts
      <4> QED
        BY <1>1, <1>3, <4>1, <4>2, <4>3
    <3>5. CASE v # w
      BY <1>3, <1>6, <3>3, <3>5
    <3> QED
      BY <3>4, <3>5
  <2>2. CASE LeaveUnscheduled
    <3>1. None # v
      BY VertexFacts DEF TypeOK
    <3>2. PlacedOn(v)' = PlacedOn(v) /\ left' = left
      BY <1>6, <2>2, <3>1 DEF LeaveUnscheduled
    <3> QED
      BY <1>3, <3>2
  <2> QED
    BY <2>1, <2>2 DEF Next
<1>8. \A v : Start(v)' = Start(v) /\ \A K : Rest(Start(v), K)' = Rest(Start(v), K)
  BY <1>2 DEF Start, Rest, AsksInTotal, arguments
<1> QED
  BY <1>2, <1>7, <1>8 DEF Accounts

\* The accounts hold at any time.
LEMMA AlwaysAccounts == Spec => []Accounts
<1>1. ASSUME Init, TypeOK, Built PROVE Accounts
  <2>1. \A v : PlacedOn(v) = {}
    BY <1>1 DEF Init, PlacedOn
  <2>2. ASSUME NEW v \in DOMAIN left PROVE FreeVector(left[v]) = Rest(Start(v), {})
    <3>1. left[v] = Untouched(topology.vertices[v]) /\ v \in DOMAIN topology.vertices
      BY <1>1 DEF Init
    <3>2. Start(v) \in [milli_cpu : Nat, memory_mib : Nat, milli_gpu : Nat]
      BY <1>1, <3>1, VertexFacts, FreeType DEF Start
    <3> QED
      BY <1>1, <3>1, <3>2, RestFacts DEF Start
  <2> QED
    BY <2>1, <2>2 DEF Accounts
<1>2. Accounts /\ UNCHANGED vars => Accounts'
  BY DEF Accounts, Start, Rest, AsksInTotal, PlacedOn, vars, arguments
<1> QED
  BY <1>1, <1>2, StepAccounts, NeverOverbooked, AlwaysBuilt, PTL DEF Spec

\* At any time a vertex has left what it started with less the demands it was
\* given, each in full (topology.py:86-126).
THEOREM PlacementsAddUp == Spec => []PlacementsAccountFor
BY AlwaysAccounts, AccountsSuffice, NeverOverbooked, PTL

-----------------------------------------------------------------------------
(* The hyperedges.                                                         *)

\* The vertices by their group of one level.
KeyOf(level) == [v \in DOMAIN topology.vertices |-> topology.vertices[v][level]]

\* Vertex w is in the group of vertex v.
Group(key, v) == {w \in DOMAIN key : key[w] = key[v]}

\* An edge of one level is a group of it.
LEMMA EdgeIsGroup ==
  ASSUME NEW level, NEW key, IsFiniteSet(DOMAIN key)
  PROVE  /\ IsFiniteSet(EdgesOf(level, key))
         /\ \A e \in EdgesOf(level, key) :
              /\ e.level = level /\ e.weight = LevelWeight[level]
              /\ \E v \in DOMAIN key : e.vertex_ids = Group(key, v)
              /\ e = [level |-> level, weight |-> LevelWeight[level], vertex_ids |-> e.vertex_ids]
<1> DEFINE edge == [v \in DOMAIN key |->
                      [level |-> level, weight |-> LevelWeight[level], vertex_ids |-> Group(key, v)]]
<1>1. EdgesOf(level, key) \subseteq {edge[v] : v \in DOMAIN key}
  BY DEF EdgesOf, Group
<1>2. IsFiniteSet({edge[v] : v \in DOMAIN key})
  <2> HIDE DEF edge
  <2> QED
    BY ImageFinite
<1>3. IsFiniteSet(EdgesOf(level, key))
  BY <1>1, <1>2, FS_Subset
<1>4. ASSUME NEW e \in EdgesOf(level, key) PROVE \E v \in DOMAIN key : e = edge[v]
  BY <1>1
<1> QED
  BY <1>3, <1>4

\* The topology of a run: numbered vertices, and edges that are groups of
\* vertices with a common socket, server or rack (topology.py:182-233).
LEMMA EdgeFacts ==
  ASSUME Built
  PROVE  /\ IsFiniteSet(DOMAIN topology.vertices) /\ IsFiniteSet(topology.edges)
         /\ \A e \in topology.edges :
              /\ e.level \in DOMAIN LevelWeight /\ e.weight = LevelWeight[e.level]
              /\ e = [level |-> e.level, weight |-> e.weight, vertex_ids |-> e.vertex_ids]
              /\ \E v \in DOMAIN topology.vertices : e.vertex_ids = Group(KeyOf(e.level), v)
              /\ e.vertex_ids \in SUBSET DOMAIN topology.vertices
              /\ IsFiniteSet(e.vertex_ids) /\ Cardinality(e.vertex_ids) \in Nat \ {0}
              /\ e.weight \in Nat
<1>1. PICK fan \in Fanout : topology = FromNodes(nodes, fan)
  BY HTAFMArguments DEF Built
<1> DEFINE V == DOMAIN topology.vertices
<1>2. V = 1 .. Len(nodes) * NumaPerNode(fan)
  BY <1>1 DEF FromNodes
<1>3. Len(nodes) * NumaPerNode(fan) \in Int
  <2>1. Len(nodes) \in Nat /\ fan.numa_per_socket \in Nat /\ fan.sockets_per_node \in Nat
    BY HTAFMArguments DEF Built, Fanout
  <2>2. \A a, b \in Nat : a * b \in Nat
    BY Z3
  <2> QED
    BY <2>1, <2>2 DEF NumaPerNode
<1>4. IsFiniteSet(V)
  BY <1>2, <1>3, FS_Interval
<1>5. topology.edges = EdgesOf("socket", KeyOf("socket")) \cup EdgesOf("server", KeyOf("server"))
                       \cup EdgesOf("rack", KeyOf("rack"))
  BY <1>1 DEF FromNodes, KeyOf
<1>6. \A level : DOMAIN KeyOf(level) = V
  BY DEF KeyOf
<1> HIDE DEF V
<1>7. \A level : IsFiniteSet(DOMAIN KeyOf(level))
  BY <1>4, <1>6
<1>8. IsFiniteSet(topology.edges)
  <2>1. \A level : IsFiniteSet(EdgesOf(level, KeyOf(level)))
    BY <1>7, EdgeIsGroup
  <2>2. IsFiniteSet(EdgesOf("socket", KeyOf("socket")) \cup EdgesOf("server", KeyOf("server")))
    BY <2>1, FS_Union
  <2> QED
    BY <1>5, <2>1, <2>2, FS_Union
<1>9. DOMAIN LevelWeight = {"socket", "server", "rack"} /\ \A k \in DOMAIN LevelWeight : LevelWeight[k] \in Nat
  BY DEF LevelWeight
<1>10. ASSUME NEW e \in topology.edges
       PROVE  /\ e.level \in DOMAIN LevelWeight /\ e.weight = LevelWeight[e.level] /\ e.weight \in Nat
              /\ e = [level |-> e.level, weight |-> e.weight, vertex_ids |-> e.vertex_ids]
              /\ \E v \in V : e.vertex_ids = Group(KeyOf(e.level), v)
              /\ e.vertex_ids \in SUBSET V
              /\ IsFiniteSet(e.vertex_ids) /\ Cardinality(e.vertex_ids) \in Nat \ {0}
  <2>1. PICK level \in {"socket", "server", "rack"} : e \in EdgesOf(level, KeyOf(level))
    BY <1>5
  <2>2. /\ e.level = level /\ e.weight = LevelWeight[level]
        /\ e = [level |-> level, weight |-> LevelWeight[level], vertex_ids |-> e.vertex_ids]
    BY <1>7, <2>1, EdgeIsGroup
  <2>3. PICK v \in V : e.vertex_ids = Group(KeyOf(level), v)
    BY <1>6, <1>7, <2>1, EdgeIsGroup
  <2>4. e.vertex_ids \in SUBSET V
    BY <1>6, <2>3 DEF Group
  <2>5. Cardinality(e.vertex_ids) > 1
    BY <2>1 DEF EdgesOf
  <2>6. IsFiniteSet(e.vertex_ids) /\ Cardinality(e.vertex_ids) \in Nat
    BY <1>4, <2>4, FS_Subset, FS_CardinalityType
  <2> QED
    BY <1>9, <2>2, <2>3, <2>4, <2>5, <2>6
<1> QED
  BY <1>4, <1>8, <1>10 DEF V

-----------------------------------------------------------------------------
(* The index as a sum.                                                     *)

\* The unit of the fractions is a positive number.
LEMMA UnitType ==
  ASSUME Built
  PROVE  Unit(topology) \in Nat \ {0}
<1> DEFINE size == [e \in topology.edges |-> Cardinality(e.vertex_ids)]
           D == {size[e] : e \in topology.edges}
           value == [x \in D |-> x]
           ByValues(g) == g = [s \in SUBSET D |->
                                 IF s = {} THEN 1 ELSE First(s) * g[s \ {First(s)}]]
<1>1. Unit(topology) = ProductSet(D)
  BY DEF Unit
<1>2. IsFiniteSet(D) /\ \A x \in D : x \in Nat \ {0}
  <2>1. \A e \in topology.edges : size[e] \in Nat \ {0}
    BY EdgeFacts
  <2>2. IsFiniteSet(topology.edges)
    BY EdgeFacts
  <2> HIDE DEF size
  <2> QED
    BY <2>1, <2>2, ImageFinite
<1> HIDE DEF D
<1>3. ProductSet(D) = (CHOOSE g : ByValues(g))[D]
  BY DEF ProductSet, FoldSet, MapThenFoldSet, First
<1>4. \A g : ByValues(g) <=> Recurs("product", value, g, D)
  <2>1. \A s \in SUBSET D : s # {} => value[First(s)] = First(s)
    BY FirstIn
  <2> HIDE DEF value
  <2> QED
    BY <2>1 DEF Recurs, Recur, Neutral, Apply
<1> HIDE DEF ByValues
<1>5. (CHOOSE g : ByValues(g)) = (CHOOSE g : Recurs("product", value, g, D))
  BY <1>4
<1>6. ProductSet(D) = Product(value, D)
  BY <1>3, <1>5 DEF Product, Function
<1> QED
  BY <1>1, <1>2, <1>6, ProductDivides

\* The term of every edge.
Weighted(config, free) ==
  [e \in topology.edges |-> e.weight * Phi(topology, config, e, free)]

\* The index adds up these terms.
LEMMA TafiIsTotal ==
  ASSUME NEW E \in SUBSET topology.edges, NEW config, NEW free
  PROVE  Tafi(topology, config, E, free) = Total(Weighted(config, free), E)
<1> DEFINE term == Weighted(config, free)
           Term(e) == e.weight * Phi(topology, config, e, free)
           ByEdges(g) == g = [s \in SUBSET E |->
                                IF s = {} THEN 0 ELSE Term(First(s)) + g[s \ {First(s)}]]
<1>1. \A s \in SUBSET E : s # {} => term[First(s)] = Term(First(s))
  BY FirstIn DEF Weighted
<1>2. Tafi(topology, config, E, free) = (CHOOSE g : ByEdges(g))[E]
  BY DEF Tafi, MapThenSumSet, MapThenFoldSet, First
<1> HIDE DEF Term, term
<1>3. \A g : ByEdges(g) <=> Iterates(term, g, E)
  BY <1>1 DEF Iterates, Unroll
<1> HIDE DEF ByEdges
<1>4. (CHOOSE g : ByEdges(g)) = (CHOOSE g : Iterates(term, g, E))
  BY <1>3
<1> QED
  BY <1>2, <1>4, TotalDef DEF term

\* What the vertices of an edge have together depends on them only.
LEMMA AggregateIsLocal ==
  ASSUME NEW e, IsFiniteSet(e.vertex_ids), NEW free, NEW other,
         e.vertex_ids \in SUBSET DOMAIN free, e.vertex_ids \in SUBSET DOMAIN other,
         \A v \in e.vertex_ids : free[v] = other[v]
  PROVE  Aggregate(e, free) = Aggregate(e, other)
<1> DEFINE S == e.vertex_ids
<1>1. \A r : Total(Asks(free, r), S) = Total(Asks(other, r), S)
  <2>1. \A r : \A v \in S : Asks(free, r)[v] = Asks(other, r)[v]
    BY DEF Asks
  <2> HIDE DEF S
  <2> QED
    BY <2>1, TotalOfSame DEF S
<1>2. ASSUME NEW f, S \in SUBSET DOMAIN f
      PROVE  /\ MapThenSumSet(LAMBDA v : f[v].milli_cpu, S) = Total(Asks(f, "milli_cpu"), S)
             /\ MapThenSumSet(LAMBDA v : f[v].memory_mib, S) = Total(Asks(f, "memory_mib"), S)
             /\ MapThenSumSet(LAMBDA v : f[v].milli_gpu, S) = Total(Asks(f, "milli_gpu"), S)
  BY <1>2, SumOfAsks
<1> QED
  BY <1>1, <1>2 DEF Aggregate

\* TAFI-Entropy of an edge, from the shares still free on its vertices.
EntropyOf(e, norm) ==
  LET total == MapThenSumSet(LAMBDA v : norm[v], e.vertex_ids)
      positive == {v \in e.vertex_ids : norm[v] > 0}
  IN  IF total <= 0 THEN 0
      ELSE Ln[total] - MapThenSumSet(LAMBDA v : norm[v] * Ln[norm[v]], positive) \div total

Norm(e, free) == [v \in e.vertex_ids |-> FreeNorm(topology.vertices[v], free[v])]

\* The index of an edge depends on its vertices only.
LEMMA PhiIsLocal ==
  ASSUME NEW e, IsFiniteSet(e.vertex_ids), NEW config, config.variant \in VARIANTS,
         NEW free, NEW other,
         e.vertex_ids \in SUBSET DOMAIN free, e.vertex_ids \in SUBSET DOMAIN other,
         \A v \in e.vertex_ids : free[v] = other[v]
  PROVE  Phi(topology, config, e, free) = Phi(topology, config, e, other)
<1>1. PhiCut(topology, e, free, config.pending_demands) = PhiCut(topology, e, other, config.pending_demands)
  BY AggregateIsLocal DEF PhiCut, IsCut
<1>2. PhiHier(topology, e, free) = PhiHier(topology, e, other)
  <2>1. {v \in e.vertex_ids : IsFragmented(topology.vertices[v], free[v])}
          = {v \in e.vertex_ids : IsFragmented(topology.vertices[v], other[v])}
    OBVIOUS
  <2> QED
    BY <2>1 DEF PhiHier
<1>3. PhiEntropy(topology, e, free) = PhiEntropy(topology, e, other)
  <2>1. Norm(e, free) = Norm(e, other)
    BY DEF Norm
  <2>2. \A f : PhiEntropy(topology, e, f) = EntropyOf(e, Norm(e, f))
    BY DEF PhiEntropy, EntropyOf, Norm
  <2> QED
    BY <2>1, <2>2
<1> QED
  BY <1>1, <1>2, <1>3 DEF Phi

\* Vectors of what may be free: no entry negative or above the capacity.
Vector == [milli_cpu : Nat, memory_mib : Nat, milli_gpu : Nat]

Within(free) ==
  /\ free \in [DOMAIN topology.vertices -> Vector]
  /\ \A v \in DOMAIN topology.vertices :
       LET cap == CapacityVector(topology.vertices[v])
       IN  /\ cap \in Vector
           /\ \A r \in {"milli_cpu", "memory_mib", "milli_gpu"} : free[v][r] <= cap[r]

\* A share of at most the whole, in units.
LEMMA ShareBound ==
  ASSUME NEW a \in Nat, NEW c \in Nat \ {0}, a <= c, NEW s \in Nat
  PROVE  (a * s) \div c \in 0 .. s
<1>1. a * s <= s * c /\ a * s >= 0 /\ a * s \in Nat
  BY Z3T(30)
<1>2. ASSUME NEW b \in Nat, b <= s * c PROVE b \div c \in 0 .. s
  <2>1. PICK q \in Nat, m \in Nat : q = b \div c /\ b = c * q + m
    <3>1. b \div c \in Nat /\ b % c \in 0 .. c - 1 /\ b = c * (b \div c) + (b % c)
      BY Division
    <3> QED
      BY <3>1
  <2>2. b = c * q + m
    BY <2>1
  <2>3. ASSUME q >= s + 1 PROVE FALSE
    <3>1. \A i, j, k \in Nat : i >= j + 1 => k * i >= j * k + k
      BY Z3T(30)
    <3>2. c * q >= s * c + c
      BY <2>3, <3>1
    <3>3. PICK x \in Nat, y \in Nat : x = c * q /\ y = s * c
      BY Z3
    <3> QED
      BY <1>2, <2>2, <3>2, <3>3
  <2> QED
    BY <2>1, <2>3
<1> QED
  BY <1>1, <1>2

\* Three shares of resources at most count for a vertex.
LEMMA NormBound ==
  ASSUME NEW vertex, CapacityVector(vertex) \in Vector, NEW f \in Vector,
         \A r \in {"milli_cpu", "memory_mib", "milli_gpu"} : f[r] <= CapacityVector(vertex)[r]
  PROVE  FreeNorm(vertex, f) \in 0 .. 3 * Shares
<1> DEFINE All == {"milli_cpu", "memory_mib", "milli_gpu"}
           cap == CapacityVector(vertex)
           R == {r \in All : cap[r] > 0}
           Share(r) == (f[r] * Shares) \div cap[r]
           share == [r \in R |-> Share(r)]
           ByShares(g) == g = [s \in SUBSET R |->
                                 IF s = {} THEN 0 ELSE Share(First(s)) + g[s \ {First(s)}]]
<1>1. FreeNorm(vertex, f) = Total(share, R)
  <2>1. \A s \in SUBSET R : s # {} => share[First(s)] = Share(First(s))
    BY FirstIn
  <2>2. FreeNorm(vertex, f) = (CHOOSE g : ByShares(g))[R]
    BY DEF FreeNorm, MapThenSumSet, MapThenFoldSet, First
  <2> HIDE DEF Share, share, R
  <2>3. \A g : ByShares(g) <=> Iterates(share, g, R)
    BY <2>1 DEF Iterates, Unroll
  <2> HIDE DEF ByShares
  <2>4. (CHOOSE g : ByShares(g)) = (CHOOSE g : Iterates(share, g, R))
    BY <2>3
  <2> QED
    BY <2>2, <2>4, TotalDef
<1>2. IsFiniteSet(R) /\ Cardinality(R) \in 0 .. 3
  <2>1. IsFiniteSet(All) /\ Cardinality(All) <= 3
    <3> DEFINE name == [i \in 1 .. 3 |-> IF i = 1 THEN "milli_cpu"
                                         ELSE IF i = 2 THEN "memory_mib" ELSE "milli_gpu"]
    <3>1. name \in Surjection(1 .. 3, All)
      <4>1. name \in [1 .. 3 -> All]
        OBVIOUS
      <4>2. \A r \in All : \E i \in 1 .. 3 : name[i] = r
        <5>1. name[1] = "milli_cpu" /\ name[2] = "memory_mib" /\ name[3] = "milli_gpu"
          OBVIOUS
        <5> QED
          BY <5>1
      <4> QED
        BY <4>1, <4>2 DEF Surjection
    <3>2. IsFiniteSet(1 .. 3) /\ Cardinality(1 .. 3) = 3
      <4>1. 1 \in Int /\ 3 \in Int /\ (IF 1 > 3 THEN 0 ELSE 3 - 1 + 1) = 3
        OBVIOUS
      <4>2. IsFiniteSet(1 .. 3) /\ Cardinality(1 .. 3) = IF 1 > 3 THEN 0 ELSE 3 - 1 + 1
        BY <4>1, FS_Interval, Zenon
      <4> QED
        BY <4>1, <4>2
    <3> HIDE DEF name, All
    <3> QED
      BY <3>1, <3>2, FS_Surjection
  <2>2. R \in SUBSET All
    OBVIOUS
  <2> HIDE DEF All, R
  <2>3. IsFiniteSet(R) /\ Cardinality(R) <= 3 /\ Cardinality(R) \in Nat
    BY <2>1, <2>2, FS_Subset, FS_CardinalityType
  <2> QED
    BY <2>3
<1>3. Shares \in Nat
  BY HTAFMArguments
<1>4. ASSUME NEW r \in R PROVE share[r] \in 0 .. Shares
  <2>1. f[r] \in Nat /\ cap[r] \in Nat \ {0} /\ f[r] <= cap[r]
    BY DEF Vector
  <2>2. (f[r] * Shares) \div cap[r] \in 0 .. Shares
    <3> HIDE DEF cap
    <3> QED
      BY <1>3, <2>1, ShareBound
  <2> QED
    BY <2>2
<1> HIDE DEF R, share
<1>5. Total(share, R) \in Nat /\ Total(share, R) <= Shares * Cardinality(R)
  BY <1>2, <1>3, <1>4, TotalBounded
<1>6. \A s \in Nat : \A n \in 0 .. 3 : s * n <= 3 * s /\ s * n \in Nat /\ 3 * s \in Nat
  BY Z3
<1>7. Shares * Cardinality(R) <= 3 * Shares /\ Shares * Cardinality(R) \in Nat /\ 3 * Shares \in Nat
  BY <1>2, <1>3, <1>6
<1> QED
  BY <1>1, <1>5, <1>7

\* The terms of the index are whole numbers; the table of logarithms is long
\* enough for every total that occurs.
LEMMA PhiType ==
  ASSUME Built, NEW e \in topology.edges, NEW config, config.variant \in VARIANTS,
         NEW free, Within(free)
  PROVE  Phi(topology, config, e, free) \in Int
<1> DEFINE V == DOMAIN topology.vertices
           S == e.vertex_ids
<1>1. /\ S \in SUBSET V /\ IsFiniteSet(S) /\ Cardinality(S) \in Nat \ {0}
      /\ IsFiniteSet(V) /\ Unit(topology) \in Nat \ {0}
  BY EdgeFacts, UnitType
<1>2. PhiCut(topology, e, free, config.pending_demands) \in Int
  BY <1>1 DEF PhiCut
<1>3. PhiHier(topology, e, free) \in Int
  <2> DEFINE P == {v \in S : IsFragmented(topology.vertices[v], free[v])}
  <2>1. Cardinality(P) \in Nat
    <3>1. P \in SUBSET S
      OBVIOUS
    <3> HIDE DEF P
    <3> QED
      BY <1>1, <3>1, FS_Subset, FS_CardinalityType
  <2>2. \A p, u \in Nat : \A n \in Nat \ {0} : p * (u \div n) \in Int
    BY Z3
  <2> HIDE DEF P
  <2>3. Cardinality(P) * (Unit(topology) \div Cardinality(S)) \in Int
    BY <1>1, <2>1, <2>2
  <2> QED
    BY <2>3 DEF PhiHier, P
<1>4. PhiEntropy(topology, e, free) \in Int
  <2> DEFINE norm == Norm(e, free)
             total == Total(norm, S)
             positive == {v \in S : norm[v] > 0}
             Term(v) == norm[v] * Ln[norm[v]]
             term == [v \in positive |-> Term(v)]
             ByTerms(g) == g = [s \in SUBSET positive |->
                                  IF s = {} THEN 0 ELSE Term(First(s)) + g[s \ {First(s)}]]
  <2>1. PhiEntropy(topology, e, free) = EntropyOf(e, norm)
    BY DEF PhiEntropy, EntropyOf, Norm
  <2>2. EntropyOf(e, norm) =
          IF total <= 0 THEN 0
          ELSE Ln[total] - MapThenSumSet(LAMBDA v : norm[v] * Ln[norm[v]], positive) \div total
    BY DEF EntropyOf, Total
  <2>3. Shares \in Nat \ {0} /\ Ln \in Seq(Nat) /\ 3 * Shares \in Nat
    BY HTAFMArguments
  <2>4. \A v \in S : norm[v] \in 0 .. 3 * Shares
    <3>1. ASSUME NEW v \in S PROVE FreeNorm(topology.vertices[v], free[v]) \in 0 .. 3 * Shares
      BY <1>1, NormBound DEF Within
    <3> QED
      BY <3>1 DEF Norm
  <2>5. total \in Nat /\ total <= (3 * Shares) * Cardinality(S)
    <3> HIDE DEF norm, S
    <3> QED
      BY <1>1, <2>3, <2>4, TotalBounded
  <2>6. \A n \in Nat : n <= Cardinality(S) => (3 * Shares) * n <= Len(Ln)
    <3>1. PICK fan \in Fanouts : topology = FromNodes(nodes, fan)
      BY DEF Built
    <3>2. V = 1 .. Len(nodes) * NumaPerNode(fan)
      BY <3>1 DEF FromNodes
    <3>3. 3 * Shares * (Len(nodes) * NumaPerNode(fan)) <= Len(Ln)
      BY <3>1, LogarithmsReach DEF Built, LnReaches
    <3>4. Len(nodes) * NumaPerNode(fan) \in Nat
      <4>1. Len(nodes) \in Nat /\ fan.numa_per_socket \in Nat /\ fan.sockets_per_node \in Nat
        BY HTAFMArguments DEF Built, Fanout
      <4>2. \A a, b \in Nat : a * b \in Nat
        BY Z3
      <4> QED
        BY <4>1, <4>2 DEF NumaPerNode
    <3>5. PICK m \in Nat : m = Len(nodes) * NumaPerNode(fan)
      BY <3>4
    <3>6. Cardinality(V) = m
      <4>1. Cardinality(1 .. m) = m
        BY FS_Interval
      <4> QED
        BY <3>2, <3>5, <4>1
    <3>7. Cardinality(S) <= m /\ Cardinality(S) \in Nat
      BY <1>1, <3>6, FS_Subset, FS_CardinalityType
    <3>8. (3 * Shares) * m <= Len(Ln) /\ Len(Ln) \in Nat
      BY <2>3, <3>3, <3>5
    <3>9. \A k, n, j, l \in Nat : n <= j /\ k * j <= l => k * n <= l
      BY Z3T(30)
    <3>10. ASSUME NEW n \in Nat, n <= Cardinality(S) PROVE (3 * Shares) * n <= Len(Ln)
      <4>1. n <= m
        BY <3>7, <3>10
      <4> QED
        BY <2>3, <3>8, <3>9, <4>1
    <3> QED
      BY <3>10
  <2>7. \A n \in Nat \ {0} : n <= Len(Ln) => Ln[n] \in Nat
    BY <2>3
  <2>8. total <= Len(Ln) /\ 3 * Shares <= Len(Ln) /\ Len(Ln) \in Nat
    <3>1. (3 * Shares) * Cardinality(S) <= Len(Ln) /\ (3 * Shares) * 1 <= Len(Ln)
      BY <1>1, <2>6
    <3> HIDE DEF total
    <3>2. (3 * Shares) * Cardinality(S) \in Int
      BY <1>1, <2>3
    <3>3. (3 * Shares) * 1 = 3 * Shares /\ Len(Ln) \in Nat
      BY <2>3
    <3> QED
      BY <2>5, <3>1, <3>2, <3>3
  <2> HIDE DEF norm
  <2>9. \A v \in positive : Term(v) \in Int
    <3>1. \A a, b \in Nat : a * b \in Int
      OBVIOUS
    <3>2. ASSUME NEW v \in positive PROVE norm[v] \in Nat \ {0} /\ norm[v] <= Len(Ln)
      BY <2>3, <2>4, <2>8
    <3> QED
      BY <2>7, <3>1, <3>2
  <2>10. MapThenSumSet(LAMBDA v : norm[v] * Ln[norm[v]], positive) = Total(term, positive)
    <3>1. \A s \in SUBSET positive : s # {} => term[First(s)] = Term(First(s))
      BY FirstIn
    <3>2. MapThenSumSet(LAMBDA v : norm[v] * Ln[norm[v]], positive) = (CHOOSE g : ByTerms(g))[positive]
      BY DEF MapThenSumSet, MapThenFoldSet, First
    <3> HIDE DEF Term, term, positive
    <3>3. \A g : ByTerms(g) <=> Iterates(term, g, positive)
      BY <3>1 DEF Iterates, Unroll
    <3> HIDE DEF ByTerms
    <3>4. (CHOOSE g : ByTerms(g)) = (CHOOSE g : Iterates(term, g, positive))
      BY <3>3
    <3> QED
      BY <3>2, <3>4, TotalDef
  <2>11. Total(term, positive) \in Int
    <3>1. IsFiniteSet(positive)
      BY <1>1, FS_Subset
    <3>2. \A v \in positive : term[v] \in Int
      BY <2>9
    <3> HIDE DEF term, positive
    <3> QED
      BY <3>1, <3>2, TotalType
  <2> HIDE DEF total, term
  <2>12. \A a, b \in Int : \A n \in Nat \ {0} : a - b \div n \in Int
    BY Z3
  <2>13. ASSUME ~(total <= 0) PROVE Ln[total] - Total(term, positive) \div total \in Int
    <3>1. total \in Nat \ {0} /\ Ln[total] \in Int
      BY <2>5, <2>7, <2>8, <2>13
    <3> QED
      BY <2>11, <2>12, <3>1
  <2>14. CASE total <= 0
    <3>1. EntropyOf(e, norm) = 0
      BY <2>2, <2>14
    <3> QED
      BY <2>1, <3>1
  <2>15. CASE ~(total <= 0)
    <3>1. EntropyOf(e, norm) =
            Ln[total] - MapThenSumSet(LAMBDA v : norm[v] * Ln[norm[v]], positive) \div total
      BY <2>2, <2>15
    <3>2. EntropyOf(e, norm) = Ln[total] - Total(term, positive) \div total
      BY <2>10, <3>1
    <3> QED
      BY <2>1, <2>13, <2>15, <3>2
  <2> QED
    BY <2>14, <2>15
<1> QED
  BY <1>2, <1>3, <1>4 DEF Phi, VARIANTS

-----------------------------------------------------------------------------
(* The gradient.                                                           *)

\* A vertex starts with no more than its capacity.
LEMMA StartWithin ==
  ASSUME Built, NEW v \in DOMAIN topology.vertices
  PROVE  LET cap == CapacityVector(topology.vertices[v])
         IN  /\ Start(v) \in Vector /\ cap \in Vector
             /\ \A r \in {"milli_cpu", "memory_mib", "milli_gpu"} : Start(v)[r] <= cap[r]
<1> DEFINE vertex == topology.vertices[v]
           gpus == vertex.gpus
<1>1. Untouched(vertex) \in Left
  BY VertexFacts
<1>2. vertex.milli_cpu \in Nat /\ vertex.memory_mib \in Nat /\ gpus \in Seq(0 .. MILLI)
  BY <1>1 DEF Untouched, Left
<1>3. Start(v) \in Vector
  BY <1>1, FreeType DEF Start, Vector
<1>4. SumFunction(gpus) \in Nat /\ SumFunction(gpus) <= Len(gpus) * MILLI /\ Len(gpus) * MILLI \in Nat
  <2>1. /\ Len(gpus) \in Nat /\ DOMAIN gpus = 1 .. Len(gpus)
        /\ \A i \in DOMAIN gpus : gpus[i] \in 0 .. MILLI
    BY <1>2, SeqFacts
  <2> HIDE DEF gpus
  <2>2. IsFiniteSet(DOMAIN gpus) /\ Cardinality(DOMAIN gpus) = Len(gpus)
    BY <2>1, UpTo, Zenon
  <2>3. MILLI \in Nat
    BY DEF MILLI
  <2>4. Total(gpus, DOMAIN gpus) \in Nat /\ Total(gpus, DOMAIN gpus) <= MILLI * Len(gpus)
    BY <2>1, <2>2, <2>3, TotalBounded
  <2>5. \A a, b \in Nat : a * b = b * a /\ a * b \in Nat
    BY Z3
  <2> QED
    BY <2>1, <2>3, <2>4, <2>5, DeviceSum
<1> QED
  BY <1>2, <1>3, <1>4 DEF Start, FreeVector, Untouched, CapacityVector, Vector

\* What demands leave of a vector is nowhere more.
LEMMA RestAtMost ==
  ASSUME TypeOK, NEW start \in Vector, NEW K \in SUBSET DOMAIN demands
  PROVE  \A r \in {"milli_cpu", "memory_mib", "milli_gpu"} : Rest(start, K)[r] <= start[r]
<1>1. demands \in Seq(TopoDemand)
  BY HTAFMArguments DEF TypeOK
<1>2. IsFiniteSet(K) /\ \A k \in DOMAIN demands : demands[k] \in TopoDemand
  <2>1. DOMAIN demands = 1 .. Len(demands) /\ Len(demands) \in Nat
    BY <1>1
  <2>2. IsFiniteSet(DOMAIN demands)
    BY <2>1, UpTo, Zenon
  <2> QED
    BY <1>1, <2>2, FS_Subset
<1>3. \A d \in TopoDemand : /\ d.milli_cpu \in Nat /\ d.memory_mib \in Nat
                            /\ d.milli_gpu \in Nat /\ d.gpu_number \in Nat
  BY DEF TopoDemand
<1>4. \A a, b \in Nat : a * b \in Nat
  BY Z3
<1>5. \A k \in DOMAIN demands : TotalMilliGpu(demands[k]) \in Nat
  BY <1>2, <1>3, <1>4 DEF TotalMilliGpu
<1>6. /\ Total(Asks(demands, "milli_cpu"), K) \in Nat /\ Total(Asks(demands, "memory_mib"), K) \in Nat
      /\ Total(AsksInTotal, K) \in Nat
  <2>1. \A k \in K : /\ Asks(demands, "milli_cpu")[k] \in Nat
                     /\ Asks(demands, "memory_mib")[k] \in Nat /\ AsksInTotal[k] \in Nat
    BY <1>2, <1>3, <1>5 DEF Asks, AsksInTotal
  <2> QED
    BY <1>2, <2>1, TotalType
<1> QED
  BY <1>6 DEF Rest, Vector

\* What is free is never more than the capacity.
LEMMA FreeIsWithin ==
  ASSUME TypeOK, Built, Accounts
  PROVE  Within(Free)
<1>1. DOMAIN left = DOMAIN topology.vertices /\ \A v \in DOMAIN left : left[v] \in Left
  BY DEF TypeOK
<1>2. \A v \in DOMAIN left : PlacedOn(v) \in SUBSET DOMAIN demands
  BY HTAFMArguments DEF TypeOK, PlacedOn
<1>3. ASSUME NEW v \in DOMAIN left
      PROVE  /\ Free[v] \in Vector /\ CapacityVector(topology.vertices[v]) \in Vector
             /\ \A r \in {"milli_cpu", "memory_mib", "milli_gpu"} :
                  Free[v][r] <= CapacityVector(topology.vertices[v])[r]
  <2>1. Free[v] \in Vector
    BY <1>1, FreeType DEF Free, Vector
  <2>2. Free[v] = Rest(Start(v), PlacedOn(v))
    BY DEF Accounts, Free
  <2>3. ASSUME NEW r \in {"milli_cpu", "memory_mib", "milli_gpu"}
        PROVE  Free[v][r] <= CapacityVector(topology.vertices[v])[r]
    <3>1. Free[v][r] <= Start(v)[r]
      BY <1>1, <1>2, <2>2, StartWithin, RestAtMost
    <3>2. Start(v)[r] <= CapacityVector(topology.vertices[v])[r]
      BY <1>1, StartWithin
    <3>3. \A f \in Vector : f[r] \in Int
      BY DEF Vector
    <3> QED
      BY <1>1, <2>1, <3>1, <3>2, <3>3, StartWithin
  <2> QED
    BY <1>1, <2>1, <2>3, StartWithin
<1>4. Free \in [DOMAIN topology.vertices -> Vector]
  BY <1>1, <1>3 DEF Free
<1> QED
  BY <1>1, <1>3, <1>4 DEF Within

\* What would be free once demand d is placed on vertex w.
FreeAfter(d, w) == [Free EXCEPT ![w] = FreeVector(AfterPlace(left[w], d))]

\* The hypothetical vector of delta_tafi is what place() leaves.
LEMMA HypotheticalIsReal ==
  ASSUME TypeOK, Built, Accounts, NEW d \in TopoDemand, NEW w \in Candidates(d)
  PROVE  /\ FreeAfter(d, w) = [Free EXCEPT ![w] = Hypothetical(@, d)]
         /\ Within(FreeAfter(d, w)) /\ w \in DOMAIN left
         /\ \A v \in DOMAIN left : \A r \in {"milli_cpu", "memory_mib", "milli_gpu"} :
              FreeAfter(d, w)[v][r] <= Free[v][r]
<1>1. /\ DOMAIN left = DOMAIN topology.vertices /\ w \in DOMAIN left /\ left[w] \in Left
      /\ Fits(topology.vertices[w], left[w], d)
  BY DEF TypeOK, Candidates
<1>2. FreeVector(AfterPlace(left[w], d)) = Hypothetical(FreeVector(left[w]), d)
  BY <1>1, PlaceTakesAll DEF Hypothetical
<1>3. FreeAfter(d, w) = [Free EXCEPT ![w] = Hypothetical(@, d)]
  BY <1>1, <1>2 DEF FreeAfter, Free
<1>4. FreeVector(AfterPlace(left[w], d)) \in Vector
  BY <1>1, AfterPlaceShrinks, FreeType DEF Vector
<1>5. Within(Free)
  BY FreeIsWithin
<1>6. \A r \in {"milli_cpu", "memory_mib", "milli_gpu"} :
        /\ FreeVector(AfterPlace(left[w], d))[r] <= CapacityVector(topology.vertices[w])[r]
        /\ FreeVector(AfterPlace(left[w], d))[r] <= FreeVector(left[w])[r]
  <2>1. PICK f \in Vector, cap \in Vector :
          /\ f = FreeVector(left[w]) /\ cap = CapacityVector(topology.vertices[w])
          /\ \A r \in {"milli_cpu", "memory_mib", "milli_gpu"} : f[r] <= cap[r]
    BY <1>1, <1>5 DEF Within, Free
  <2>2. d.milli_cpu \in Nat /\ d.memory_mib \in Nat /\ TotalMilliGpu(d) \in Nat
    <3>1. \A a, b \in Nat : a * b \in Nat
      BY Z3
    <3> QED
      BY <3>1 DEF TopoDemand, TotalMilliGpu
  <2>3. Hypothetical(f, d).milli_cpu <= f.milli_cpu /\ Hypothetical(f, d).memory_mib <= f.memory_mib
        /\ Hypothetical(f, d).milli_gpu <= f.milli_gpu /\ Hypothetical(f, d) \in Vector
    BY <1>2, <1>4, <2>1, <2>2 DEF Hypothetical, Vector
  <2> QED
    BY <1>2, <2>1, <2>3 DEF Vector
<1>7. \A f \in Vector : \A r \in {"milli_cpu", "memory_mib", "milli_gpu"} : f[r] <= f[r]
  BY DEF Vector
<1>8. ASSUME NEW v \in DOMAIN left, NEW r \in {"milli_cpu", "memory_mib", "milli_gpu"}
      PROVE  FreeAfter(d, w)[v][r] <= Free[v][r]
  <2>1. CASE v = w
    BY <1>1, <1>6, <2>1 DEF FreeAfter, Free
  <2>2. CASE v # w
    BY <1>1, <1>5, <1>7, <2>2 DEF FreeAfter, Within, Free
  <2> QED
    BY <2>1, <2>2
<1> QED
  BY <1>1, <1>3, <1>4, <1>5, <1>6, <1>8 DEF Within, FreeAfter

\* The sum over the edges at a vertex changes as the sum over all does.
LEMMA DeltaIsChange ==
  ASSUME TypeOK, Built, Accounts, NEW d \in TopoDemand, NEW w \in Candidates(d)
  PROVE  /\ ComputeTafi(cfg, FreeAfter(d, w)) = ComputeTafi(cfg, Free) + DeltaTafi(Free, w, d)
         /\ ComputeTafi(cfg, Free) \in Int /\ DeltaTafi(Free, w, d) \in Int
<1> DEFINE other == FreeAfter(d, w)
           E == topology.edges
           T == EdgesTouching(topology, w)
           f == Weighted(cfg, Free)
           g == Weighted(cfg, other)
<1>1. /\ other = [Free EXCEPT ![w] = Hypothetical(@, d)] /\ Within(other) /\ Within(Free)
      /\ w \in DOMAIN left
  BY HypotheticalIsReal, FreeIsWithin
<1>2. cfg.variant \in VARIANTS
  BY DEF TypeOK
<1>3. /\ IsFiniteSet(E) /\ \A e \in E : IsFiniteSet(e.vertex_ids) /\ e.weight \in Nat
      /\ \A e \in E : e.vertex_ids \in SUBSET DOMAIN topology.vertices
  BY EdgeFacts
<1>4. T \in SUBSET E /\ IsFiniteSet(T) /\ IsFiniteSet(E \ T) /\ T \cap (E \ T) = {} /\ E = T \cup (E \ T)
  BY <1>3, FS_Subset DEF EdgesTouching
<1>5. ASSUME NEW e \in E PROVE f[e] \in Int /\ g[e] \in Int
  <2>1. Phi(topology, cfg, e, Free) \in Int /\ Phi(topology, cfg, e, other) \in Int
    BY <1>1, <1>2, PhiType
  <2>2. \A a, b \in Int : a * b \in Int
    BY Z3
  <2> QED
    BY <1>3, <2>1, <2>2 DEF Weighted
<1>6. ASSUME NEW e \in E \ T PROVE f[e] = g[e]
  <2>1. w \notin e.vertex_ids
    BY <1>6 DEF EdgesTouching
  <2>2. DOMAIN Free = DOMAIN topology.vertices /\ DOMAIN other = DOMAIN topology.vertices
    BY <1>1 DEF Within
  <2>3. \A v \in e.vertex_ids : Free[v] = other[v]
    BY <1>1, <1>3, <2>1, <2>2
  <2>4. Phi(topology, cfg, e, Free) = Phi(topology, cfg, e, other)
    <3> HIDE DEF other
    <3> QED
      BY <1>2, <1>3, <2>2, <2>3, PhiIsLocal
  <2> QED
    BY <2>4 DEF Weighted
<1>7. /\ ComputeTafi(cfg, Free) = Total(f, E) /\ ComputeTafi(cfg, other) = Total(g, E)
      /\ DeltaTafi(Free, w, d) = Total(g, T) - Total(f, T)
  BY <1>1, <1>4, TafiIsTotal DEF ComputeTafi, DeltaTafi
<1> HIDE DEF f, g, other, T
<1>8. Total(f, E) = Total(f, T) + Total(f, E \ T) /\ Total(g, E) = Total(g, T) + Total(g, E \ T)
  <2>1. \A e \in T \cup (E \ T) : f[e] \in Int /\ g[e] \in Int
    BY <1>4, <1>5
  <2> HIDE DEF E
  <2>2. Total(f, T \cup (E \ T)) = Total(f, T) + Total(f, E \ T)
    BY <1>4, <2>1, TotalUnion
  <2>3. Total(g, T \cup (E \ T)) = Total(g, T) + Total(g, E \ T)
    BY <1>4, <2>1, TotalUnion
  <2> QED
    BY <1>4, <2>2, <2>3
<1>9. Total(f, E \ T) = Total(g, E \ T)
  BY <1>4, <1>6, TotalOfSame
<1>10. /\ Total(f, T) \in Int /\ Total(g, T) \in Int /\ Total(f, E \ T) \in Int
  BY <1>4, <1>5, TotalType
<1> QED
  BY <1>7, <1>8, <1>9, <1>10 DEF other

\* A step that places the demand leaves free what it would.
LEMMA StepFree ==
  ASSUME TypeOK, Built, Accounts, Next, left' # left
  PROVE  \E w \in Choice(Demand) :
           /\ w \in Candidates(Demand) /\ Demand \in TopoDemand
           /\ \A v \in DOMAIN left : v # w => left'[v] = left[v]
           /\ ComputeTafi(cfg, Free)' = ComputeTafi(cfg, FreeAfter(Demand, w))
           /\ Free' = FreeAfter(Demand, w) /\ UNCHANGED arguments
           /\ w \in DOMAIN left /\ left'[w] = AfterPlace(left[w], Demand)
<1>1. PICK w \in Choice(Demand) : Schedule(w)
  BY DEF Next, LeaveUnscheduled
<1>2. w \in Candidates(Demand) /\ Demand \in TopoDemand
  BY ChosenFits, DemandType DEF Next, Candidates
<1>3. /\ left' = [left EXCEPT ![w] = AfterPlace(@, Demand)] /\ UNCHANGED arguments
      /\ DOMAIN left' = DOMAIN left /\ w \in DOMAIN left
  BY <1>1, <1>2 DEF Schedule, TypeOK, Candidates
<1>4. Free' = FreeAfter(Demand, w)
  <2>1. Free' = [v \in DOMAIN left |-> FreeVector(left'[v])]
    BY <1>3 DEF Free
  <2>2. ASSUME NEW v \in DOMAIN left PROVE FreeVector(left'[v]) = FreeAfter(Demand, w)[v]
    BY <1>3 DEF FreeAfter, Free, TypeOK
  <2>3. FreeAfter(Demand, w) = [v \in DOMAIN left |-> FreeAfter(Demand, w)[v]]
    BY DEF FreeAfter, Free
  <2> QED
    BY <2>1, <2>2, <2>3
<1>5. ComputeTafi(cfg, Free)' = ComputeTafi(cfg, FreeAfter(Demand, w))
  BY <1>3, <1>4 DEF ComputeTafi, arguments
<1> QED
  BY <1>2, <1>3, <1>4, <1>5 DEF TypeOK

\* The change delta_tafi predicts, over the edges at one vertex and from one
\* hypothetical vector, is that of the whole index (htafm.py:173-191).
THEOREM DeltaExact == Spec => DeltaIsExact
<1>1. ASSUME TypeOK, Built, Accounts, [Next]_vars, NEW v \in DOMAIN left, left'[v] # left[v]
      PROVE  Grown = DeltaTafi(Free, v, Demand)
  <2>1. Next /\ left' # left
    BY <1>1 DEF vars
  <2>2. PICK w \in Choice(Demand) :
          /\ w \in Candidates(Demand) /\ Demand \in TopoDemand
          /\ \A u \in DOMAIN left : u # w => left'[u] = left[u]
          /\ ComputeTafi(cfg, Free)' = ComputeTafi(cfg, FreeAfter(Demand, w))
    BY <1>1, <2>1, StepFree
  <2>3. v = w
    BY <1>1, <2>2
  <2>4. /\ ComputeTafi(cfg, FreeAfter(Demand, w)) = ComputeTafi(cfg, Free) + DeltaTafi(Free, w, Demand)
        /\ ComputeTafi(cfg, Free) \in Int /\ DeltaTafi(Free, w, Demand) \in Int
    BY <1>1, <2>2, DeltaIsChange
  <2> QED
    BY <2>2, <2>3, <2>4 DEF Grown
<1>2. TypeOK /\ Built /\ Accounts /\ [Next]_vars =>
        [\A v \in DOMAIN left : left'[v] # left[v] => Grown = DeltaTafi(Free, v, Demand)]_vars
  BY <1>1
<1> QED
  BY <1>2, NeverOverbooked, AlwaysBuilt, AlwaysAccounts, PTL DEF Spec, DeltaIsExact

\* Whichever vertex with room had been taken instead, the whole index would be
\* no lower, but for what TAFI-Entropy cannot tell apart (htafm.py:223-229).
THEOREM GreedyBest == Spec => GreedyIsBest
<1>1. ASSUME TypeOK, Built, Accounts, [Next]_vars, left' # left, NEW u \in Candidates(Demand)
      PROVE  ComputeTafi(cfg, Free)' <= Slack +
               ComputeTafi(cfg, [Free EXCEPT ![u] = FreeVector(AfterPlace(left[u], Demand))])
  <2>1. Next
    BY <1>1 DEF vars
  <2>2. PICK w \in Choice(Demand) :
          /\ w \in Candidates(Demand) /\ Demand \in TopoDemand
          /\ ComputeTafi(cfg, Free)' = ComputeTafi(cfg, FreeAfter(Demand, w))
    BY <1>1, <2>1, StepFree
  <2>3. \A x \in Candidates(Demand) :
          /\ ComputeTafi(cfg, FreeAfter(Demand, x)) = ComputeTafi(cfg, Free) + DeltaTafi(Free, x, Demand)
          /\ ComputeTafi(cfg, Free) \in Int /\ DeltaTafi(Free, x, Demand) \in Int
    BY <1>1, <2>2, DeltaIsChange
  <2>4. DeltaTafi(Free, w, Demand) <= DeltaTafi(Free, u, Demand) + Slack
    <3>1. w \in Least(Gradient(Demand, Candidates(Demand)))
      BY <2>2 DEF Choice
    <3> QED
      BY <1>1, <2>2, <3>1 DEF Least, Gradient
  <2>5. Slack \in Int
    BY HTAFMArguments DEF Slack
  <2>6. ComputeTafi(cfg, FreeAfter(Demand, w)) <= Slack + ComputeTafi(cfg, FreeAfter(Demand, u))
    BY <1>1, <2>2, <2>3, <2>4, <2>5
  <2> QED
    BY <2>2, <2>6 DEF FreeAfter
<1>2. TypeOK /\ Built /\ Accounts /\ [Next]_vars =>
        [left' # left =>
           \A w \in Candidates(Demand) :
             ComputeTafi(cfg, Free)' <= Slack +
               ComputeTafi(cfg, [Free EXCEPT ![w] = FreeVector(AfterPlace(left[w], Demand))])]_vars
  BY <1>1
<1> QED
  BY <1>2, NeverOverbooked, AlwaysBuilt, AlwaysAccounts, PTL DEF Spec, GreedyIsBest

-----------------------------------------------------------------------------
(* TAFI-Hier, and the devices place() takes.                               *)

\* The less is free, the higher TAFI-Hier.
LEMMA HierGrows ==
  ASSUME Built, NEW config, config.variant = "hier", NEW free, Within(free), NEW less, Within(less),
         \A v \in DOMAIN topology.vertices : \A r \in {"milli_cpu", "memory_mib", "milli_gpu"} :
           less[v][r] <= free[v][r]
  PROVE  ComputeTafi(config, free) <= ComputeTafi(config, less)
<1> DEFINE E == topology.edges
           f == Weighted(config, free)
           g == Weighted(config, less)
<1>1. IsFiniteSet(E) /\ config.variant \in VARIANTS
  BY EdgeFacts DEF VARIANTS
<1>2. ASSUME NEW e \in E PROVE f[e] \in Int /\ g[e] \in Int /\ f[e] <= g[e]
  <2> DEFINE F == {v \in e.vertex_ids : IsFragmented(topology.vertices[v], free[v])}
             G == {v \in e.vertex_ids : IsFragmented(topology.vertices[v], less[v])}
             u == Unit(topology) \div Cardinality(e.vertex_ids)
  <2>1. /\ e.vertex_ids \in SUBSET DOMAIN topology.vertices /\ IsFiniteSet(e.vertex_ids)
        /\ Cardinality(e.vertex_ids) \in Nat \ {0} /\ e.weight \in Nat
    BY EdgeFacts
  <2>2. F \subseteq G
    <3>1. ASSUME NEW v \in e.vertex_ids, IsFragmented(topology.vertices[v], free[v])
          PROVE  IsFragmented(topology.vertices[v], less[v])
      <4> DEFINE cap == CapacityVector(topology.vertices[v])
      <4>1. PICK r \in {"milli_cpu", "memory_mib", "milli_gpu"} : BelowThreshold(free[v][r], cap[r])
        BY <3>1 DEF IsFragmented
      <4>2. \A x \in Vector : x[r] \in Int
        BY DEF Vector
      <4>3. cap[r] \in Int /\ free[v][r] \in Int /\ less[v][r] \in Int /\ less[v][r] <= free[v][r]
        BY <2>1, <4>2 DEF Within
      <4> HIDE DEF cap
      <4>4. BelowThreshold(less[v][r], cap[r])
        BY <4>1, <4>3 DEF BelowThreshold
      <4> QED
        BY <4>4 DEF IsFragmented, cap
    <3> QED
      BY <3>1
  <2>3. IsFiniteSet(G) /\ IsFiniteSet(F)
    BY <2>1, FS_Subset
  <2>4. PICK a \in Nat, b \in Nat : a = Cardinality(F) /\ b = Cardinality(G) /\ a <= b
    <3> HIDE DEF F, G
    <3> QED
      BY <2>2, <2>3, FS_Subset, FS_CardinalityType
  <2>5. u \in Nat
    BY <2>1, UnitType, Division
  <2>6. Phi(topology, config, e, free) = a * u /\ Phi(topology, config, e, less) = b * u
    BY <2>4 DEF Phi, PhiHier
  <2> HIDE DEF u
  <2>7. \A w, i, j, k \in Nat : i <= j => w * (i * k) <= w * (j * k) /\ w * (i * k) \in Int /\ w * (j * k) \in Int
    <3>1. \A i, j, k \in Nat : i <= j => i * k <= j * k /\ i * k \in Nat /\ j * k \in Nat
      BY Z3T(30)
    <3>2. \A w, x, y \in Nat : x <= y => w * x <= w * y /\ w * x \in Int /\ w * y \in Int
      BY Z3T(30)
    <3> QED
      BY <3>1, <3>2
  <2>8. f[e] = e.weight * (a * u) /\ g[e] = e.weight * (b * u)
    <3>1. f[e] = e.weight * Phi(topology, config, e, free)
      BY DEF Weighted
    <3>2. g[e] = e.weight * Phi(topology, config, e, less)
      BY DEF Weighted
    <3> HIDE DEF f, g
    <3> QED
      BY <2>6, <3>1, <3>2, Zenon
  <2>9. a <= b /\ e.weight \in Nat
    BY <2>1, <2>4
  <2> HIDE DEF f, g, F, G, E
  <2>10. /\ e.weight * (a * u) <= e.weight * (b * u)
         /\ e.weight * (a * u) \in Int /\ e.weight * (b * u) \in Int
    BY <2>5, <2>7, <2>9, Zenon
  <2> QED
    BY <2>8, <2>10, Zenon
<1>3. ComputeTafi(config, free) = Total(f, E) /\ ComputeTafi(config, less) = Total(g, E)
  BY TafiIsTotal DEF ComputeTafi
<1> HIDE DEF f, g, E
<1> QED
  BY <1>1, <1>2, <1>3, TotalAtMost

\* TAFI-Hier never decreases when a demand is placed, whichever variant chose
\* the vertex (docs/HTAFM.md:94-98, htafm.py:116-133).
THEOREM HierNeverDecreases == Spec => HierNeverFalls
<1>1. ASSUME TypeOK, Built, Accounts, [Next]_vars PROVE Index("hier") <= Index("hier")'
  <2> DEFINE config == [cfg EXCEPT !.variant = "hier"]
  <2>1. config.variant = "hier" /\ Within(Free)
    BY <1>1, FreeIsWithin DEF TypeOK
  <2>2. ASSUME Free' = Free, UNCHANGED arguments PROVE Index("hier") <= Index("hier")'
    <3>1. Index("hier")' = Index("hier")
      BY <2>2 DEF Index, ComputeTafi, arguments
    <3>2. \A v \in DOMAIN topology.vertices : \A r \in {"milli_cpu", "memory_mib", "milli_gpu"} :
            Free[v][r] <= Free[v][r]
      BY <2>1 DEF Within, Vector
    <3>3. ComputeTafi(config, Free) <= ComputeTafi(config, Free)
      <4> HIDE DEF config
      <4> QED
        BY <1>1, <2>1, <3>2, HierGrows
    <3> QED
      BY <3>1, <3>3 DEF Index
  <2>3. CASE left' # left
    <3>1. Next
      BY <1>1, <2>3 DEF vars
    <3>2. PICK w \in Choice(Demand) :
            /\ w \in Candidates(Demand) /\ Demand \in TopoDemand
            /\ Free' = FreeAfter(Demand, w) /\ UNCHANGED arguments
      BY <1>1, <2>3, <3>1, StepFree
    <3>3. /\ Within(FreeAfter(Demand, w))
          /\ \A v \in DOMAIN topology.vertices : \A r \in {"milli_cpu", "memory_mib", "milli_gpu"} :
               FreeAfter(Demand, w)[v][r] <= Free[v][r]
      BY <1>1, <3>2, HypotheticalIsReal DEF TypeOK
    <3>4. ComputeTafi(config, Free) <= ComputeTafi(config, FreeAfter(Demand, w))
      <4> HIDE DEF config
      <4> QED
        BY <1>1, <2>1, <3>3, HierGrows
    <3>5. Index("hier")' = ComputeTafi(config, FreeAfter(Demand, w))
      BY <3>2 DEF Index, ComputeTafi, arguments
    <3> QED
      BY <3>4, <3>5 DEF Index
  <2>4. CASE left' = left
    <3>1. UNCHANGED arguments
      BY <1>1 DEF Next, Schedule, LeaveUnscheduled, vars
    <3>2. Free' = Free
      BY <2>4 DEF Free
    <3> QED
      BY <2>2, <3>1, <3>2
  <2> QED
    BY <2>3, <2>4
<1>2. TypeOK /\ Built /\ Accounts /\ [Next]_vars => [Index("hier") <= Index("hier")']_vars
  BY <1>1
<1> QED
  BY <1>2, NeverOverbooked, AlwaysBuilt, AlwaysAccounts, PTL DEF Spec, HierNeverFalls

\* As many whole devices are left as any other choice would leave.
LEMMA WholeLeft ==
  ASSUME NEW l \in Left, NEW d \in TopoDemand, NEW vertex, Fits(vertex, l, d),
         NEW D \in SUBSET Devices(l, d), Cardinality(D) = d.gpu_number
  PROVE  Cardinality({i \in DOMAIN l.gpus : l.gpus[i] = MILLI} \ D)
           <= Cardinality({i \in DOMAIN l.gpus : AfterPlace(l, d).gpus[i] = MILLI})
<1> DEFINE W == {i \in DOMAIN l.gpus : l.gpus[i] = MILLI}
           After == {i \in DOMAIN l.gpus : AfterPlace(l, d).gpus[i] = MILLI}
           P == Picked(l, d)
           V == Devices(l, d)
<1>1. /\ DOMAIN l.gpus = 1 .. Len(l.gpus) /\ Len(l.gpus) \in Nat
      /\ \A i \in DOMAIN l.gpus : l.gpus[i] \in Nat /\ l.gpus[i] <= MILLI
  BY GpuFacts DEF Left
<1>2. IsFiniteSet(DOMAIN l.gpus)
  BY FreeType
<1>3. W \ P \subseteq After
  BY DEF AfterPlace
<1>4. P \subseteq V /\ V \subseteq DOMAIN l.gpus /\ D \subseteq V
  BY DEF Picked, Devices
<1>5. IsFiniteSet(W) /\ IsFiniteSet(After) /\ IsFiniteSet(P) /\ IsFiniteSet(V) /\ IsFiniteSet(D)
  <2>1. W \subseteq DOMAIN l.gpus /\ After \subseteq DOMAIN l.gpus
    OBVIOUS
  <2> HIDE DEF W, After, P, V
  <2> QED
    BY <1>2, <1>4, <2>1, FS_Subset
<1>6. Cardinality(P) = d.gpu_number
  BY PicksAsMany
<1>7. ASSUME NEW i \in W \cap P PROVE V \ W \subseteq P
  <2>1. ASSUME NEW j \in V \ W PROVE j \in P
    <3> DEFINE Above(k) == {m \in V : Fuller(l, m, k)}
    <3>1. l.gpus[j] < l.gpus[i]
      <4>1. j \in DOMAIN l.gpus /\ l.gpus[j] # MILLI /\ l.gpus[i] = MILLI /\ i \in DOMAIN l.gpus
        BY <1>4, <1>7, <2>1
      <4>2. MILLI \in Nat
        BY DEF MILLI
      <4> QED
        BY <1>1, <4>1, <4>2
    <3>2. Above(j) \subseteq Above(i)
      BY <1>1, <1>4, <1>7, <2>1, <3>1 DEF Fuller
    <3>3. IsFiniteSet(Above(i)) /\ IsFiniteSet(Above(j))
      BY <1>5, FS_Subset
    <3>4. Cardinality(Above(i)) < d.gpu_number
      BY <1>7 DEF Picked
    <3>5. j \in V /\ (Cardinality(Above(j)) < d.gpu_number => j \in P)
      BY <2>1 DEF Picked
    <3> HIDE DEF Above, P, V
    <3>6. /\ Cardinality(Above(j)) <= Cardinality(Above(i))
          /\ Cardinality(Above(j)) \in Nat /\ Cardinality(Above(i)) \in Nat
      BY <3>2, <3>3, FS_Subset, FS_CardinalityType
    <3>7. d.gpu_number \in Nat
      BY DEF TopoDemand
    <3> QED
      BY <3>4, <3>5, <3>6, <3>7
  <2> QED
    BY <2>1
<1>8. ASSUME W \cap P # {} PROVE P \ W = V \ W
  BY <1>4, <1>7, <1>8
<1> HIDE DEF W, P, V, After
<1>9. Cardinality(W \ P) <= Cardinality(After)
  BY <1>3, <1>5, FS_Subset
<1>10. /\ Cardinality(W \ D) = Cardinality(W) - Cardinality(W \cap D)
       /\ Cardinality(W \ P) = Cardinality(W) - Cardinality(W \cap P)
       /\ Cardinality(D \ W) = Cardinality(D) - Cardinality(D \cap W)
       /\ Cardinality(P \ W) = Cardinality(P) - Cardinality(P \cap W)
       /\ D \cap W = W \cap D /\ P \cap W = W \cap P
  BY <1>5, FS_Difference
<1>11. /\ Cardinality(W) \in Nat /\ Cardinality(W \cap D) \in Nat /\ Cardinality(W \cap P) \in Nat
       /\ Cardinality(P) \in Nat /\ Cardinality(D) \in Nat /\ Cardinality(After) \in Nat
  BY <1>5, FS_Intersection, FS_CardinalityType
<1>12. Cardinality(W \cap P) <= Cardinality(W \cap D)
  <2>1. CASE W \cap P = {}
    BY <1>11, <2>1, FS_EmptySet
  <2>2. CASE W \cap P # {}
    <3>1. D \ W \subseteq P \ W /\ IsFiniteSet(P \ W)
      BY <1>4, <1>5, <1>8, <2>2, FS_Difference
    <3>2. Cardinality(D \ W) <= Cardinality(P \ W)
      BY <3>1, FS_Subset
    <3>3. Cardinality(D) - Cardinality(W \cap D) <= Cardinality(P) - Cardinality(W \cap P)
      BY <1>10, <3>2
    <3>4. Cardinality(D) = Cardinality(P)
      BY <1>6
    <3> QED
      BY <1>11, <3>3, <3>4
  <2> QED
    BY <2>1, <2>2
<1> QED
  BY <1>9, <1>10, <1>11, <1>12 DEF W, After

\* Sharing never wastes a whole device: no other choice of devices on the
\* same vertex would leave more of them whole (topology.py:121-126).
THEOREM KeepsWholeDevices == Spec => WholeDevicesKept
<1>1. ASSUME TypeOK, Built, Accounts, [Next]_vars, NEW v \in DOMAIN left, left'[v] # left[v],
             NEW D \in SUBSET Devices(left[v], Demand), Cardinality(D) = Demand.gpu_number
      PROVE  Cardinality({i \in DOMAIN left[v].gpus : left[v].gpus[i] = MILLI} \ D)
               <= Cardinality({i \in DOMAIN left[v].gpus : left'[v].gpus[i] = MILLI})
  <2>1. Next /\ left' # left
    BY <1>1 DEF vars
  <2>2. PICK w \in Choice(Demand) :
          /\ w \in Candidates(Demand) /\ Demand \in TopoDemand
          /\ \A u \in DOMAIN left : u # w => left'[u] = left[u]
          /\ left'[w] = AfterPlace(left[w], Demand)
    BY <1>1, <2>1, StepFree
  <2>3. v = w /\ left[v] \in Left /\ Fits(topology.vertices[v], left[v], Demand)
    BY <1>1, <2>2 DEF Candidates, TypeOK
  <2> QED
    BY <1>1, <2>2, <2>3, WholeLeft
<1>2. TypeOK /\ Built /\ Accounts /\ [Next]_vars =>
        [\A v \in DOMAIN left : left'[v] # left[v] =>
           \A D \in SUBSET Devices(left[v], Demand) : Cardinality(D) = Demand.gpu_number =>
             Cardinality({i \in DOMAIN left[v].gpus : left[v].gpus[i] = MILLI} \ D)
               <= Cardinality({i \in DOMAIN left[v].gpus : left'[v].gpus[i] = MILLI})]_vars
  BY <1>1
<1> QED
  BY <1>2, NeverOverbooked, AlwaysBuilt, AlwaysAccounts, PTL DEF Spec, WholeDevicesKept

-----------------------------------------------------------------------------
(* The hierarchy from_nodes builds.                                        *)

\* What from_nodes makes of vertex v, of the node it is on (topology.py:189-209).
LEMMA VertexParts ==
  ASSUME NEW list, NEW fan, NEW v
  PROVE  LET vertex == Vertex(list, fan, v)
             h == NumaPerNode(fan)
             node == (v - 1) \div h + 1
             x == (v - 1) % h
         IN  /\ vertex.server = node /\ vertex.socket = <<node, x \div fan.numa_per_socket>>
             /\ vertex.rack = (node - 1) \div fan.nodes_per_rack
             /\ vertex.milli_cpu = list[node].milli_cpu_capacity \div h
             /\ vertex.gpus = Dealt(list[node].milli_gpu_left_list, x, h)
<1> DEFINE h == NumaPerNode(fan)
           node == (v - 1) \div h + 1
           x == (v - 1) % h
<1>1. Vertex(list, fan, v) =
        [server |-> node, socket |-> <<node, x \div fan.numa_per_socket>>,
         rack |-> RackOf(v, node, fan),
         milli_cpu |-> list[node].milli_cpu_capacity \div h,
         memory_mib |-> list[node].memory_mib_capacity \div h,
         gpus |-> Dealt(list[node].milli_gpu_left_list, x, h),
         gpu_types |-> list[node].gpu_types]
  BY DEF Vertex
<1>2. RackOf(v, node, fan) = (node - 1) \div fan.nodes_per_rack
  BY DEF RackOf
<1> HIDE DEF h, node, x
<1>3. /\ Vertex(list, fan, v).server = node
      /\ Vertex(list, fan, v).socket = <<node, x \div fan.numa_per_socket>>
      /\ Vertex(list, fan, v).rack = RackOf(v, node, fan)
      /\ Vertex(list, fan, v).milli_cpu = list[node].milli_cpu_capacity \div h
      /\ Vertex(list, fan, v).gpus = Dealt(list[node].milli_gpu_left_list, x, h)
  BY <1>1
<1> QED
  BY <1>2, <1>3 DEF h, node, x

\* A socket is within a server, a server within a rack (topology.py:196-207).
LEMMA GroupsNest ==
  ASSUME Built, NEW v \in DOMAIN topology.vertices, NEW w \in DOMAIN topology.vertices
  PROVE  /\ topology.vertices[v].socket = topology.vertices[w].socket =>
              topology.vertices[v].server = topology.vertices[w].server
         /\ topology.vertices[v].server = topology.vertices[w].server =>
              topology.vertices[v].rack = topology.vertices[w].rack
<1>1. PICK fan \in Fanouts : topology = FromNodes(nodes, fan)
  BY DEF Built
<1>2. \A u \in DOMAIN topology.vertices : topology.vertices[u] = Vertex(nodes, fan, u)
  BY <1>1 DEF FromNodes
<1>3. ASSUME NEW u \in DOMAIN topology.vertices
      PROVE  /\ \E y : topology.vertices[u].socket = <<topology.vertices[u].server, y>>
             /\ topology.vertices[u].rack = (topology.vertices[u].server - 1) \div fan.nodes_per_rack
  <2>1. /\ topology.vertices[u].socket =
             <<topology.vertices[u].server, ((u - 1) % NumaPerNode(fan)) \div fan.numa_per_socket>>
        /\ topology.vertices[u].rack = (topology.vertices[u].server - 1) \div fan.nodes_per_rack
    BY <1>2, VertexParts
  <2> QED
    BY <2>1
<1>4. PICK y, z : /\ topology.vertices[v].socket = <<topology.vertices[v].server, y>>
                  /\ topology.vertices[w].socket = <<topology.vertices[w].server, z>>
  BY <1>3
<1>5. topology.vertices[v].socket = topology.vertices[w].socket =>
        topology.vertices[v].server = topology.vertices[w].server
  BY <1>4
<1> QED
  BY <1>3, <1>5

\* No vertex is in two edges of a level, and the edges of a lower level are
\* within those of a higher one (topology.py:211-233).
LEMMA EdgesNest ==
  ASSUME Built, NEW e \in topology.edges, NEW f \in topology.edges,
         e.vertex_ids \cap f.vertex_ids # {}
  PROVE  /\ e.level = f.level => e = f
         /\ e.weight > f.weight => e.vertex_ids \subseteq f.vertex_ids
<1> DEFINE V == DOMAIN topology.vertices
<1>1. PICK v \in V : e.vertex_ids = Group(KeyOf(e.level), v)
  BY EdgeFacts
<1>2. PICK w \in V : f.vertex_ids = Group(KeyOf(f.level), w)
  BY EdgeFacts
<1>3. PICK u \in V : u \in e.vertex_ids /\ u \in f.vertex_ids
  BY <1>1 DEF Group, KeyOf
<1>4. /\ \A x : x \in e.vertex_ids <=>
                  x \in V /\ topology.vertices[x][e.level] = topology.vertices[u][e.level]
      /\ \A x : x \in f.vertex_ids <=>
                  x \in V /\ topology.vertices[x][f.level] = topology.vertices[u][f.level]
  BY <1>1, <1>2, <1>3 DEF Group, KeyOf
<1>5. /\ e = [level |-> e.level, weight |-> LevelWeight[e.level], vertex_ids |-> e.vertex_ids]
      /\ f = [level |-> f.level, weight |-> LevelWeight[f.level], vertex_ids |-> f.vertex_ids]
      /\ e.level \in DOMAIN LevelWeight /\ f.level \in DOMAIN LevelWeight
  BY EdgeFacts
<1>6. ASSUME e.level = f.level PROVE e = f
  <2>1. e.vertex_ids = f.vertex_ids
    BY <1>4, <1>6
  <2> QED
    BY <1>5, <1>6, <2>1
<1>7. ASSUME e.weight > f.weight PROVE e.vertex_ids \subseteq f.vertex_ids
  <2>1. \/ e.level = "socket" /\ f.level \in {"server", "rack"}
        \/ e.level = "server" /\ f.level = "rack"
    <3>1. e.weight = LevelWeight[e.level] /\ f.weight = LevelWeight[f.level]
      BY EdgeFacts
    <3>2. e.level \in {"socket", "server", "rack"} /\ f.level \in {"socket", "server", "rack"}
      BY <1>5 DEF LevelWeight
    <3>3. LevelWeight["socket"] = 8 /\ LevelWeight["server"] = 4 /\ LevelWeight["rack"] = 1
      BY DEF LevelWeight
    <3> QED
      BY <1>7, <3>1, <3>2, <3>3
  <2>2. ASSUME NEW x \in e.vertex_ids PROVE x \in f.vertex_ids
    <3>1. x \in V /\ topology.vertices[x][e.level] = topology.vertices[u][e.level]
      BY <1>4
    <3>2. topology.vertices[x][f.level] = topology.vertices[u][f.level]
      BY <2>1, <3>1, GroupsNest
    <3> QED
      BY <1>4, <3>1, <3>2
  <2> QED
    BY <2>2
<1> QED
  BY <1>6, <1>7

\* Dealing round-robin, hand x gets the devices whose place, counted from 0,
\* leaves remainder x (topology.py:191-194).
LEMMA DealtCount ==
  ASSUME NEW S, NEW gpus \in Seq(S), NEW h \in Nat \ {0}, NEW x \in 0 .. h - 1
  PROVE  /\ Len(Dealt(gpus, x, h)) = Cardinality({i \in 1 .. Len(gpus) : (i - 1) % h = x})
         /\ \E r \in 0 .. h - 1 : Len(gpus) - x + h - 1 = h * Len(Dealt(gpus, x, h)) + r
<1> DEFINE L == Len(gpus)
           q == (L - x + h - 1) \div h
           mine == {i \in 1 .. L : (i - 1) % h = x}
           place == [k \in 1 .. q |-> x + (k - 1) * h + 1]
<1>1. L \in Nat /\ L - x + h - 1 \in Nat
  OBVIOUS
<1> HIDE DEF L
<1>2. q \in Nat /\ \E r \in 0 .. h - 1 : L - x + h - 1 = h * q + r
  BY <1>1, Division
<1>3. Len(Dealt(gpus, x, h)) = q
  BY <1>2 DEF Dealt, L
<1>4. PICK r \in 0 .. h - 1 : L - x + h - 1 = h * q + r
  BY <1>2
<1> HIDE DEF q
<1>5. /\ \A k \in Nat \ {0} : h * (k - 1) \in Nat /\ (k - 1) * h = h * (k - 1) /\ h * k = h * (k - 1) + h
      /\ \A i, j \in Nat : i <= j => h * i <= h * j
      /\ \A i, j \in Nat : i >= j + 1 => h * i >= h * j + h
      /\ \A i \in Nat : h * i \in Nat
  BY Z3T(30)
<1>6. ASSUME NEW k \in 1 .. q PROVE place[k] \in mine /\ (place[k] - 1) \div h = k - 1
  <2>1. k \in Nat \ {0} /\ k <= q /\ k - 1 \in Nat
    BY <1>2
  <2>2. PICK y \in Nat : y = h * (k - 1) /\ place[k] = y + x + 1
    BY <1>5, <2>1
  <2>3. y + h <= h * q /\ h * q \in Nat
    BY <1>2, <1>5, <2>1, <2>2
  <2>4. place[k] \in 1 .. L
    BY <1>1, <1>4, <2>2, <2>3
  <2>5. (y + x) \div h = k - 1 /\ (y + x) % h = x
    BY <2>1, <2>2, DivisionIs
  <2>6. place[k] - 1 = y + x
    BY <2>2
  <2> QED
    BY <2>4, <2>5, <2>6
<1>7. ASSUME NEW i \in mine PROVE \E k \in 1 .. q : place[k] = i
  <2>1. i \in 1 .. L /\ i - 1 \in Nat /\ (i - 1) % h = x
    BY <1>1
  <2>2. PICK p \in Nat : p = (i - 1) \div h /\ i - 1 = h * p + x
    BY <2>1, Division
  <2>3. p + 1 <= q
    <3>1. ASSUME p >= q PROVE FALSE
      <4>1. h * q <= h * p /\ h * q \in Nat /\ h * p \in Nat
        BY <1>2, <1>5, <2>2, <3>1
      <4> QED
        BY <1>1, <1>4, <2>1, <2>2, <4>1
    <3> QED
      BY <1>2, <2>2, <3>1
  <2>4. p + 1 \in 1 .. q /\ (p + 1) - 1 = p /\ p * h = h * p
    BY <1>2, <2>2, <2>3, Z3
  <2>5. place[p + 1] = x + ((p + 1) - 1) * h + 1
    BY <2>4
  <2>6. h * p \in Nat
    BY <1>5, <2>2
  <2>7. place[p + 1] = i
    BY <2>1, <2>2, <2>4, <2>5, <2>6
  <2> QED
    BY <2>4, <2>7
<1>8. place \in [1 .. q -> mine]
  BY <1>6
<1> HIDE DEF place, mine
<1>9. place \in Injection(1 .. q, mine)
  <2>1. ASSUME NEW k \in 1 .. q, NEW j \in 1 .. q, place[k] = place[j] PROVE k = j
    <3>1. k - 1 = j - 1
      BY <1>6, <2>1
    <3> QED
      BY <1>2, <3>1
  <2> QED
    BY <1>8, <2>1 DEF Injection, IsInjective
<1>10. place \in Surjection(1 .. q, mine)
  BY <1>7, <1>8 DEF Surjection
<1>11. IsFiniteSet(1 .. q) /\ Cardinality(1 .. q) = q
  BY <1>2, UpTo, Zenon
<1>12. IsFiniteSet(mine)
  <2>1. IsFiniteSet(1 .. L) /\ mine \in SUBSET (1 .. L)
    BY <1>1, FS_Interval DEF mine
  <2> QED
    BY <2>1, FS_Subset
<1>13. Cardinality(mine) = q
  BY <1>9, <1>10, <1>11, <1>12, FS_Injection
<1> QED
  BY <1>3, <1>4, <1>13 DEF L, mine

\* The vertices of a node: as many as the fan-out says, and what each is given
\* of it (topology.py:182-209).
LEMMA NodeVertices ==
  ASSUME Built, NEW n \in DOMAIN nodes
  PROVE  LET mine == {v \in DOMAIN topology.vertices : topology.vertices[v].server = n}
         IN  \E h \in Nat \ {0} :
               /\ IsFiniteSet(mine) /\ Cardinality(mine) = h
               /\ mine = {(n - 1) * h + 1 + x : x \in 0 .. h - 1}
               /\ (n - 1) * h \in Nat
               /\ \A x \in 0 .. h - 1 :
                    LET vertex == topology.vertices[(n - 1) * h + 1 + x]
                    IN  /\ vertex.milli_cpu = nodes[n].milli_cpu_capacity \div h
                        /\ vertex.gpus = Dealt(nodes[n].milli_gpu_left_list, x, h)
<1>1. PICK fan \in Fanouts : topology = FromNodes(nodes, fan)
  BY DEF Built
<1> DEFINE h == NumaPerNode(fan)
           V == DOMAIN topology.vertices
           mine == {v \in V : topology.vertices[v].server = n}
           base == (n - 1) * h
<1>2. V = 1 .. Len(nodes) * h /\ \A v \in V : topology.vertices[v] = Vertex(nodes, fan, v)
  BY <1>1 DEF FromNodes
<1>3. h \in Nat \ {0}
  <2>1. fan.numa_per_socket \in Nat \ {0} /\ fan.sockets_per_node \in Nat \ {0}
    BY HTAFMArguments DEF Fanout
  <2>2. \A a, b \in Nat \ {0} : a * b \in Nat \ {0}
    BY Z3T(30)
  <2> QED
    BY <2>1, <2>2 DEF NumaPerNode
<1>4. Len(nodes) \in Nat /\ n \in 1 .. Len(nodes) /\ n - 1 \in Nat
  BY HTAFMArguments DEF Built
<1> HIDE DEF h
<1>5. base \in Nat /\ base = h * (n - 1) /\ base + h <= Len(nodes) * h /\ Len(nodes) * h \in Nat
  <2>1. \A i, j \in Nat : i + 1 <= j => /\ i * h \in Nat /\ i * h = h * i /\ j * h \in Nat
                                        /\ i * h + h <= j * h
    BY <1>3, Z3T(30)
  <2> QED
    BY <1>4, <2>1
<1>6. ASSUME NEW x \in 0 .. h - 1
      PROVE  base + 1 + x \in V /\ ((base + 1 + x) - 1) \div h + 1 = n /\ ((base + 1 + x) - 1) % h = x
  <2>1. (h * (n - 1) + x) \div h = n - 1 /\ (h * (n - 1) + x) % h = x
    BY <1>3, <1>4, DivisionIs
  <2>2. (base + 1 + x) - 1 = h * (n - 1) + x /\ base + 1 + x \in 1 .. Len(nodes) * h
    <3>1. PICK b \in Nat, m \in Nat : /\ b = base /\ b = h * (n - 1) /\ m = Len(nodes) * h
                                     /\ b + h <= m
      BY <1>5
    <3>2. x \in Nat /\ x < h /\ h \in Nat
      BY <1>3
    <3>3. (b + 1 + x) - 1 = b + x /\ b + 1 + x \in 1 .. m
      BY <3>1, <3>2
    <3> HIDE DEF base
    <3> QED
      BY <3>1, <3>3
  <2> QED
    BY <1>2, <1>4, <2>1, <2>2
<1> HIDE DEF base
<1>7. \A x \in 0 .. h - 1 :
        /\ base + 1 + x \in mine
        /\ topology.vertices[base + 1 + x].milli_cpu = nodes[n].milli_cpu_capacity \div h
        /\ topology.vertices[base + 1 + x].gpus = Dealt(nodes[n].milli_gpu_left_list, x, h)
  <2>1. ASSUME NEW x \in 0 .. h - 1
        PROVE  /\ base + 1 + x \in mine
               /\ topology.vertices[base + 1 + x].milli_cpu = nodes[n].milli_cpu_capacity \div h
               /\ topology.vertices[base + 1 + x].gpus = Dealt(nodes[n].milli_gpu_left_list, x, h)
    <3> DEFINE IsPlace(v) == v \in V /\ (v - 1) \div h + 1 = n /\ (v - 1) % h = x
    <3>0. IsPlace(base + 1 + x)
      BY <1>6, Zenon
    <3> HIDE DEF IsPlace
    <3>1. PICK v : v = base + 1 + x /\ IsPlace(v)
      BY <3>0, Zenon
    <3> USE DEF IsPlace
    <3>2. topology.vertices[v] = Vertex(nodes, fan, v)
      BY <1>2, <3>1
    <3>3. /\ Vertex(nodes, fan, v).server = n
          /\ Vertex(nodes, fan, v).milli_cpu = nodes[n].milli_cpu_capacity \div h
          /\ Vertex(nodes, fan, v).gpus = Dealt(nodes[n].milli_gpu_left_list, x, h)
      BY <3>1, VertexParts DEF h
    <3> QED
      BY <3>1, <3>2, <3>3
  <2> QED
    BY <2>1
<1>8. ASSUME NEW v \in mine PROVE \E x \in 0 .. h - 1 : v = base + 1 + x
  <2>1. v \in 1 .. Len(nodes) * h /\ v - 1 \in Nat
    BY <1>2, <1>5
  <2>2. (v - 1) \div h + 1 = n
    <3>1. Vertex(nodes, fan, v).server = (v - 1) \div h + 1
      BY VertexParts DEF h
    <3> QED
      BY <1>2, <3>1
  <2>3. (v - 1) \div h \in Nat /\ (v - 1) % h \in 0 .. h - 1 /\ v - 1 = h * ((v - 1) \div h) + ((v - 1) % h)
    BY <1>3, <2>1, Division
  <2>4. (v - 1) \div h = n - 1
    BY <1>4, <2>2, <2>3
  <2>5. v - 1 = base + ((v - 1) % h)
    BY <1>5, <2>3, <2>4
  <2>6. v = base + 1 + ((v - 1) % h)
    <3>1. PICK m \in Nat : m = (v - 1) % h
      BY <2>3
    <3>2. \A w, b, m_ \in Int : w - 1 = b + m_ => w = b + 1 + m_
      OBVIOUS
    <3> HIDE DEF mine
    <3>3. v \in Int /\ base \in Int /\ m \in Int /\ v - 1 = base + m
      BY <1>5, <2>1, <2>5, <3>1
    <3>4. v = base + 1 + m
      BY <3>2, <3>3
    <3> QED
      BY <3>1, <3>4
  <2> QED
    BY <2>3, <2>6
<1>9. mine = {base + 1 + x : x \in 0 .. h - 1}
  BY <1>7, <1>8
<1>10. IsFiniteSet(mine) /\ Cardinality(mine) = h
  <2>1. mine = base + 1 .. base + h
    <3> HIDE DEF mine, V, base
    <3>1. ASSUME NEW v \in base + 1 .. base + h PROVE v \in mine
      <4>1. (v - base) - 1 \in 0 .. h - 1 /\ v = base + 1 + ((v - base) - 1)
        BY <1>3, <1>5
      <4> QED
        BY <1>9, <4>1, Zenon
    <3>2. ASSUME NEW v \in mine PROVE v \in base + 1 .. base + h
      <4>1. PICK x \in 0 .. h - 1 : v = base + 1 + x
        BY <1>9, Zenon
      <4> QED
        BY <1>3, <1>5, <4>1
    <3> QED
      BY <3>1, <3>2, Zenon
  <2>2. /\ base + 1 \in Int /\ base + h \in Int
        /\ (IF base + 1 > base + h THEN 0 ELSE ((base + h) - (base + 1)) + 1) = h
    BY <1>3, <1>5
  <2>3. /\ IsFiniteSet(base + 1 .. base + h)
        /\ Cardinality(base + 1 .. base + h) =
             IF base + 1 > base + h THEN 0 ELSE ((base + h) - (base + 1)) + 1
    <3> DEFINE Sized(a, b) == /\ IsFiniteSet(a .. b)
                              /\ Cardinality(a .. b) = IF a > b THEN 0 ELSE (b - a) + 1
    <3>1. \A a, b \in Int : Sized(a, b)
      BY FS_Interval, Zenon
    <3> HIDE DEF Sized
    <3>2. Sized(base + 1, base + h)
      BY <2>2, <3>1, Zenon
    <3> QED
      BY <3>2 DEF Sized
  <2> QED
    BY <2>1, <2>2, <2>3
<1> QED
  BY <1>3, <1>5, <1>7, <1>9, <1>10 DEF base

\* Every GPU of a node goes to one of its vertices, these differ by at most
\* one, and of its cpu less than a unit per vertex is lost.
LEMMA NodeIsDealt ==
  ASSUME Built, NEW n \in DOMAIN nodes
  PROVE  LET mine == {v \in DOMAIN topology.vertices : topology.vertices[v].server = n}
             Gpus(v) == Len(topology.vertices[v].gpus)
             lost == nodes[n].milli_cpu_capacity
                     - MapThenSumSet(LAMBDA v : topology.vertices[v].milli_cpu, mine)
         IN  /\ MapThenSumSet(Gpus, mine) = Len(nodes[n].milli_gpu_left_list)
             /\ \A v, w \in mine : Gpus(v) <= Gpus(w) + 1
             /\ lost \in 0 .. Cardinality(mine) - 1
<1> DEFINE mine == {v \in DOMAIN topology.vertices : topology.vertices[v].server = n}
           Gpus(v) == Len(topology.vertices[v].gpus)
           gpus == [v \in mine |-> Gpus(v)]
           list == nodes[n].milli_gpu_left_list
           cpu == nodes[n].milli_cpu_capacity
<1>1. PICK h \in Nat \ {0} :
        /\ IsFiniteSet(mine) /\ Cardinality(mine) = h
        /\ mine = {(n - 1) * h + 1 + x : x \in 0 .. h - 1}
        /\ (n - 1) * h \in Nat
        /\ \A x \in 0 .. h - 1 :
             LET vertex == topology.vertices[(n - 1) * h + 1 + x]
             IN  /\ vertex.milli_cpu = cpu \div h
                 /\ vertex.gpus = Dealt(list, x, h)
  BY NodeVertices
<1>2. PICK base \in Nat : base = (n - 1) * h + 1
  BY <1>1
<1>3. list \in Seq(0 .. MILLI) /\ cpu \in Nat
  <2>1. nodes[n] \in TraceNode
    BY HTAFMArguments DEF Built
  <2> QED
    BY <2>1 DEF TraceNode
<1>4. mine = {base + x : x \in 0 .. h - 1}
  BY <1>1, <1>2
<1>5. \A x \in 0 .. h - 1 : /\ topology.vertices[base + x].milli_cpu = cpu \div h
                            /\ topology.vertices[base + x].gpus = Dealt(list, x, h)
  BY <1>1, <1>2
<1>6. Len(list) \in Nat /\ DOMAIN list = 1 .. Len(list)
  BY <1>3
<1> HIDE DEF list, cpu
<1>7. ASSUME NEW x \in 0 .. h - 1
      PROVE  /\ base + x \in mine
             /\ gpus[base + x] = Cardinality({i \in 1 .. Len(list) : (i - 1) % h = x})
             /\ gpus[base + x] \in Nat
             /\ \E r \in 0 .. h - 1 : Len(list) - x + h - 1 = h * gpus[base + x] + r
  <2>1. base + x \in mine
    BY <1>4
  <2>2. gpus[base + x] = Len(Dealt(list, x, h))
    BY <1>5, <2>1
  <2>3. Dealt(list, x, h) \in Seq(0 .. MILLI)
    BY <1>3, DealtType
  <2>4. Len(Dealt(list, x, h)) \in Nat
    BY <2>3
  <2>5. /\ Len(Dealt(list, x, h)) = Cardinality({i \in 1 .. Len(list) : (i - 1) % h = x})
        /\ \E r \in 0 .. h - 1 : Len(list) - x + h - 1 = h * Len(Dealt(list, x, h)) + r
    BY <1>3, DealtCount
  <2> HIDE DEF gpus, mine
  <2> QED
    BY <2>1, <2>2, <2>4, <2>5
<1>8. MapThenSumSet(Gpus, mine) = Total(gpus, mine)
  <2> DEFINE ByVertices(g) == g = [s \in SUBSET mine |->
                                     IF s = {} THEN 0 ELSE Gpus(First(s)) + g[s \ {First(s)}]]
  <2>1. \A s \in SUBSET mine : s # {} => gpus[First(s)] = Gpus(First(s))
    BY FirstIn
  <2>2. MapThenSumSet(Gpus, mine) = (CHOOSE g : ByVertices(g))[mine]
    BY DEF MapThenSumSet, MapThenFoldSet, First
  <2> HIDE DEF Gpus, gpus, mine
  <2>3. \A g : ByVertices(g) <=> Iterates(gpus, g, mine)
    BY <2>1 DEF Iterates, Unroll
  <2> HIDE DEF ByVertices
  <2>4. (CHOOSE g : ByVertices(g)) = (CHOOSE g : Iterates(gpus, g, mine))
    BY <2>3
  <2> QED
    BY <2>2, <2>4, TotalDef
<1>9. Total(gpus, mine) = Len(list)
  <2> DEFINE S == 1 .. Len(list)
             one == [i \in S |-> 1]
             vertex == [i \in S |-> base + ((i - 1) % h)]
             part == [v \in mine |-> {i \in S : vertex[i] = v}]
  <2>1. \A i \in S : (i - 1) % h \in 0 .. h - 1
    <3>1. \A i \in S : i - 1 \in Nat
      BY <1>6
    <3> QED
      BY <3>1, Division
  <2>2. IsFiniteSet(S) /\ Cardinality(S) = Len(list)
    BY <1>6, UpTo, Zenon
  <2>3. \A i \in S : one[i] = 1 /\ one[i] \in Int
    OBVIOUS
  <2>4. \A i \in S : vertex[i] = base + ((i - 1) % h) /\ vertex[i] \in mine
    BY <1>7, <2>1
  <2>5. SplitBy(vertex, S, mine, part)
    BY <2>4 DEF SplitBy
  <2>6. ASSUME NEW v \in mine PROVE gpus[v] = Total(one, part[v])
    <3>1. PICK x \in 0 .. h - 1 : v = base + x
      BY <1>4
    <3>2. part[v] = {i \in 1 .. Len(list) : (i - 1) % h = x}
      <4>1. \A i \in S : vertex[i] = v <=> (i - 1) % h = x
        <5> HIDE DEF S, vertex
        <5>1. \A y \in 0 .. h - 1 : base + y = base + x <=> y = x
          OBVIOUS
        <5> QED
          BY <2>1, <2>4, <3>1, <5>1
      <4> QED
        BY <4>1
    <3>3. part[v] \in SUBSET S
      OBVIOUS
    <3> HIDE DEF part, one, S, gpus, mine, vertex
    <3>4. IsFiniteSet(part[v]) /\ \A i \in part[v] : one[i] = 1
      BY <2>2, <2>3, <3>3, FS_Subset
    <3>5. Total(one, part[v]) = 1 * Cardinality(part[v]) /\ Cardinality(part[v]) \in Nat
      BY <3>4, TotalOfConstant, FS_CardinalityType
    <3> QED
      BY <1>7, <3>1, <3>2, <3>5
  <2> HIDE DEF S, one, vertex, part, gpus, mine
  <2>7. Total(gpus, mine) = Total(one, S)
    BY <1>1, <2>2, <2>3, <2>5, <2>6, TotalByClass
  <2>8. Total(one, S) = 1 * Cardinality(S)
    BY <2>2, <2>3, TotalOfConstant
  <2>9. 1 * Len(list) = Len(list)
    <3>1. \A l \in Nat : 1 * l = l
      OBVIOUS
    <3> QED
      BY <1>6, <3>1
  <2> QED
    BY <2>2, <2>7, <2>8, <2>9
<1>10. ASSUME NEW v \in mine, NEW w \in mine PROVE Gpus(v) <= Gpus(w) + 1
  <2>1. PICK x \in 0 .. h - 1, y \in 0 .. h - 1 : v = base + x /\ w = base + y
    BY <1>4
  <2>2. PICK p \in Nat, r \in 0 .. h - 1 : p = Gpus(v) /\ Len(list) - x + h - 1 = h * p + r
    BY <1>7, <2>1
  <2>3. PICK q \in Nat, t \in 0 .. h - 1 : q = Gpus(w) /\ Len(list) - y + h - 1 = h * q + t
    BY <1>7, <2>1
  <2>4. ASSUME p >= q + 2 PROVE FALSE
    <3>1. \A i, j \in Nat : i >= j + 2 => h * i >= h * j + h + h /\ h * i \in Nat /\ h * j \in Nat
      BY Z3T(30)
    <3>2. PICK a \in Nat, b \in Nat : a = h * p /\ b = h * q /\ a >= b + h + h
      BY <2>4, <3>1
    <3>3. PICK l \in Nat : l = Len(list)
      BY <1>6
    <3>4. l - x + h - 1 = a + r /\ l - y + h - 1 = b + t
      BY <2>2, <2>3, <3>2, <3>3
    <3> HIDE DEF Gpus, mine
    <3> QED
      BY <3>2, <3>4
  <2> QED
    BY <2>2, <2>3, <2>4
<1>11. cpu - MapThenSumSet(LAMBDA v : topology.vertices[v].milli_cpu, mine) \in 0 .. Cardinality(mine) - 1
  <2> DEFINE given == Asks(topology.vertices, "milli_cpu")
  <2>1. MapThenSumSet(LAMBDA v : topology.vertices[v].milli_cpu, mine) = Total(given, mine)
    BY SumOfAsks
  <2>2. ASSUME NEW v \in mine PROVE given[v] = cpu \div h
    BY <1>4, <1>5 DEF Asks
  <2> HIDE DEF given, mine
  <2>3. PICK q \in Nat, r \in 0 .. h - 1 : q = cpu \div h /\ cpu = h * q + r
    <3>1. cpu \div h \in Nat /\ cpu % h \in 0 .. h - 1 /\ cpu = h * (cpu \div h) + (cpu % h)
      BY <1>3, Division
    <3> QED
      BY <3>1
  <2>4. Total(given, mine) = q * h
    <3>1. IsFiniteSet(mine) /\ Cardinality(mine) = h /\ q \in Int /\ \A v \in mine : given[v] = q
      BY <1>1, <2>2, <2>3
    <3>2. Total(given, mine) = q * Cardinality(mine)
      BY <3>1, TotalOfConstant
    <3> QED
      BY <3>1, <3>2
  <2>5. q * h = h * q /\ h * q \in Nat
    BY Z3
  <2>6. cpu - Total(given, mine) = r
    BY <1>3, <2>3, <2>4, <2>5
  <2> QED
    BY <1>1, <2>1, <2>6
<1> QED
  BY <1>8, <1>9, <1>10, <1>11 DEF list, cpu

\* What from_nodes builds is a hierarchy that hands out what there is, for
\* every list of nodes and every fan-out (topology.py:182-233).
THEOREM HierarchyHolds == Spec => []HierarchyWellFormed
<1>1. ASSUME TypeOK, Built PROVE HierarchyWellFormed
  <2>1. DOMAIN left = DOMAIN topology.vertices
    BY <1>1 DEF TypeOK
  <2>2. \A e, f \in topology.edges :
          /\ e.vertex_ids \cap f.vertex_ids # {} /\ e.level = f.level => e = f
          /\ e.vertex_ids \cap f.vertex_ids # {} /\ e.weight > f.weight => e.vertex_ids \subseteq f.vertex_ids
    BY <1>1, EdgesNest
  <2> QED
    BY <1>1, <2>1, <2>2, NodeIsDealt DEF HierarchyWellFormed
<1> QED
  BY <1>1, NeverOverbooked, AlwaysBuilt, PTL
-----------------------------------------------------------------------------
(* Node by node: the vertices of a node, and what is put on them.          *)

OnNode(n) == {v \in DOMAIN topology.vertices : topology.vertices[v].server = n}
GpuCounts == [v \in DOMAIN topology.vertices |-> Len(topology.vertices[v].gpus)]
NodeGpus == [n \in DOMAIN nodes |-> Len(nodes[n].milli_gpu_left_list)]

Admitted == {k \in DOMAIN placement : placement[k] # None}
AdmittedOn(n) == {k \in Admitted : topology.vertices[placement[k]].server = n}

\* A vertex is one of a node, whose devices and types it has.
LEMMA VertexOfNode ==
  ASSUME Built, NEW v \in DOMAIN topology.vertices
  PROVE  LET n == topology.vertices[v].server
         IN  /\ n \in DOMAIN nodes /\ topology.vertices[v].gpu_types = nodes[n].gpu_types
             /\ \A S : nodes[n].milli_gpu_left_list \in Seq(S) => topology.vertices[v].gpus \in Seq(S)
<1>1. PICK fan \in Fanouts : topology = FromNodes(nodes, fan)
  BY DEF Built
<1> DEFINE h == NumaPerNode(fan)
           n == (v - 1) \div h + 1
           x == (v - 1) % h
<1>2. DOMAIN topology.vertices = 1 .. Len(nodes) * h /\ topology.vertices[v] = Vertex(nodes, fan, v)
  BY <1>1 DEF FromNodes
<1>3. h \in Nat \ {0}
  <2>1. fan.numa_per_socket \in Nat \ {0} /\ fan.sockets_per_node \in Nat \ {0}
    BY HTAFMArguments DEF Fanout
  <2>2. \A a, b \in Nat \ {0} : a * b \in Nat \ {0}
    BY Z3T(30)
  <2> QED
    BY <2>1, <2>2 DEF NumaPerNode
<1>4. nodes \in Seq(TraceNode) /\ Len(nodes) \in Nat /\ DOMAIN nodes = 1 .. Len(nodes)
  BY HTAFMArguments DEF Built
<1>5. /\ topology.vertices[v].server = n /\ topology.vertices[v].gpu_types = nodes[n].gpu_types
      /\ topology.vertices[v].gpus = Dealt(nodes[n].milli_gpu_left_list, x, h)
  BY <1>2 DEF Vertex
<1> HIDE DEF h
<1>6. v - 1 \in 0 .. Len(nodes) * h - 1
  <2>1. \A i, j \in Nat : i * j \in Nat
    BY Z3
  <2> QED
    BY <1>2, <1>3, <1>4, <2>1
<1>7. (v - 1) \div h \in 0 .. Len(nodes) - 1 /\ x \in 0 .. h - 1
  BY <1>3, <1>4, <1>6, Places
<1>8. n \in DOMAIN nodes
  BY <1>4, <1>7
<1> HIDE DEF n, x
<1>9. \A S : nodes[n].milli_gpu_left_list \in Seq(S) => topology.vertices[v].gpus \in Seq(S)
  BY <1>3, <1>5, <1>7, DealtType DEF x
<1> QED
  BY <1>5, <1>8, <1>9

\* NodeIsDealt, in these words.
LEMMA NodeShares ==
  ASSUME Built, NEW n \in DOMAIN nodes
  PROVE  /\ IsFiniteSet(OnNode(n))
         /\ Total(Asks(topology.vertices, "milli_cpu"), OnNode(n)) <= nodes[n].milli_cpu_capacity
         /\ Total(GpuCounts, OnNode(n)) = NodeGpus[n]
<1> DEFINE mine == OnNode(n)
           Gpus(v) == Len(topology.vertices[v].gpus)
           cpu == Asks(topology.vertices, "milli_cpu")
<1>1. IsFiniteSet(mine) /\ Cardinality(mine) \in Nat
  BY NodeVertices, FS_CardinalityType DEF OnNode
<1>2. /\ MapThenSumSet(Gpus, mine) = Len(nodes[n].milli_gpu_left_list)
      /\ nodes[n].milli_cpu_capacity - MapThenSumSet(LAMBDA v : topology.vertices[v].milli_cpu, mine)
           \in 0 .. Cardinality(mine) - 1
  BY NodeIsDealt DEF OnNode
<1>3. MapThenSumSet(LAMBDA v : topology.vertices[v].milli_cpu, mine) = Total(cpu, mine)
  <2>1. mine \in SUBSET DOMAIN topology.vertices
    BY DEF OnNode
  <2> QED
    BY <2>1, SumOfAsks
<1>4. MapThenSumSet(Gpus, mine) = Total(GpuCounts, mine)
  <2> DEFINE ByVertices(g) == g = [s \in SUBSET mine |->
                                     IF s = {} THEN 0 ELSE Gpus(First(s)) + g[s \ {First(s)}]]
  <2>1. \A s \in SUBSET mine : s # {} => GpuCounts[First(s)] = Gpus(First(s))
    BY FirstIn DEF GpuCounts, OnNode
  <2>2. MapThenSumSet(Gpus, mine) = (CHOOSE g : ByVertices(g))[mine]
    BY DEF MapThenSumSet, MapThenFoldSet, First
  <2> HIDE DEF Gpus, mine
  <2>3. \A g : ByVertices(g) <=> Iterates(GpuCounts, g, mine)
    BY <2>1 DEF Iterates, Unroll
  <2> HIDE DEF ByVertices
  <2>4. (CHOOSE g : ByVertices(g)) = (CHOOSE g : Iterates(GpuCounts, g, mine))
    BY <2>3
  <2> QED
    BY <2>2, <2>4, TotalDef
<1>5. nodes[n].milli_cpu_capacity \in Nat /\ Total(cpu, mine) \in Int
  <2>1. nodes[n] \in TraceNode
    BY HTAFMArguments DEF Built
  <2>2. \A v \in mine : cpu[v] \in Int
    <3>1. \A v \in mine : Untouched(topology.vertices[v]) \in Left
      BY VertexFacts DEF OnNode
    <3> QED
      BY <3>1 DEF Untouched, Left, Asks, OnNode
  <2> HIDE DEF cpu, mine
  <2>3. Total(cpu, mine) \in Int
    BY <1>1, <2>2, TotalType
  <2> QED
    BY <2>1, <2>3 DEF TraceNode
<1>6. Total(cpu, mine) <= nodes[n].milli_cpu_capacity
  <2>1. nodes[n].milli_cpu_capacity - Total(cpu, mine) \in 0 .. Cardinality(mine) - 1
    BY <1>2, <1>3
  <2> HIDE DEF cpu, mine
  <2>2. \A a, b \in Int : \A c \in Nat : a - b \in 0 .. c - 1 => b <= a
    OBVIOUS
  <2> QED
    BY <1>1, <1>5, <2>1, <2>2
<1> QED
  BY <1>1, <1>2, <1>4, <1>6 DEF NodeGpus

\* A vertex starts with its cpu and, if its node had all of each device, with
\* a thousand milli-units per device.
LEMMA StartIs ==
  ASSUME Built, NEW v \in DOMAIN topology.vertices
  PROVE  /\ Start(v) \in [milli_cpu : Nat, memory_mib : Nat, milli_gpu : Nat]
         /\ Start(v).milli_cpu = topology.vertices[v].milli_cpu
         /\ GpuCounts[v] \in Nat /\ Start(v).milli_gpu <= MILLI * GpuCounts[v]
         /\ topology.vertices[v].gpus \in Seq({MILLI}) => Start(v).milli_gpu = MILLI * GpuCounts[v]
<1> DEFINE gpus == topology.vertices[v].gpus
<1>1. Untouched(topology.vertices[v]) \in Left
  BY VertexFacts
<1>2. gpus \in Seq(0 .. MILLI) /\ topology.vertices[v].milli_cpu \in Nat
  BY <1>1 DEF Untouched, Left
<1>3. Start(v) \in [milli_cpu : Nat, memory_mib : Nat, milli_gpu : Nat]
  BY <1>1, FreeType DEF Start
<1>4. Start(v).milli_cpu = topology.vertices[v].milli_cpu /\ Start(v).milli_gpu = Total(gpus, DOMAIN gpus)
  BY DeviceSum DEF Start, FreeVector, Untouched
<1>5. GpuCounts[v] = Len(gpus) /\ Len(gpus) \in Nat /\ DOMAIN gpus = 1 .. Len(gpus)
  BY <1>2 DEF GpuCounts
<1>6. IsFiniteSet(DOMAIN gpus) /\ Cardinality(DOMAIN gpus) = Len(gpus)
  BY <1>5, UpTo, Zenon
<1>7. \A i \in DOMAIN gpus : gpus[i] \in 0 .. MILLI
  BY <1>2, SeqFacts
<1>8. MILLI \in Nat /\ MILLI \in Int
  BY DEF MILLI
<1>9. Total(gpus, DOMAIN gpus) <= MILLI * Cardinality(DOMAIN gpus)
  <2> HIDE DEF gpus
  <2> QED
    BY <1>6, <1>7, <1>8, TotalBounded
<1>10. ASSUME gpus \in Seq({MILLI}) PROVE Total(gpus, DOMAIN gpus) = MILLI * Cardinality(DOMAIN gpus)
  <2>1. \A i \in DOMAIN gpus : gpus[i] = MILLI
    BY <1>10, SeqFacts
  <2> HIDE DEF gpus
  <2> QED
    BY <1>6, <1>8, <2>1, TotalOfConstant
<1> QED
  BY <1>3, <1>4, <1>5, <1>6, <1>9, <1>10

\* The demands put on the vertices of a node, and what they ask for.
LEMMA AdmittedFacts ==
  ASSUME TypeOK, Built
  PROVE  /\ DOMAIN left = DOMAIN topology.vertices /\ IsFiniteSet(DOMAIN demands)
         /\ \A k \in DOMAIN demands : /\ demands[k] \in TopoDemand
                                      /\ Asks(demands, "milli_cpu")[k] = demands[k].milli_cpu
                                      /\ demands[k].milli_cpu \in Nat
                                      /\ AsksInTotal[k] = TotalMilliGpu(demands[k])
                                      /\ AsksInTotal[k] \in Nat
         /\ Admitted \in SUBSET DOMAIN demands
         /\ \A k \in Admitted : placement[k] \in DOMAIN topology.vertices
         /\ \A v \in DOMAIN topology.vertices : PlacedOn(v) = {k \in Admitted : placement[k] = v}
<1>1. /\ demands \in Seq(TopoDemand) /\ Len(demands) \in Nat /\ DOMAIN demands = 1 .. Len(demands)
      /\ \A k \in DOMAIN demands : demands[k] \in TopoDemand
  BY HTAFMArguments DEF TypeOK
<1>2. IsFiniteSet(DOMAIN demands)
  BY <1>1, UpTo, Zenon
<1>3. DOMAIN left = DOMAIN topology.vertices
  BY DEF TypeOK
<1>4. /\ placement \in Seq(DOMAIN topology.vertices \cup {None}) /\ Len(placement) <= Len(demands)
      /\ Len(placement) \in Nat /\ DOMAIN placement = 1 .. Len(placement)
      /\ \A k \in DOMAIN placement : placement[k] \in DOMAIN topology.vertices \cup {None}
  BY <1>3 DEF TypeOK
<1>5. Admitted \in SUBSET DOMAIN demands
  BY <1>1, <1>4 DEF Admitted
<1>6. ASSUME NEW k \in DOMAIN demands
      PROVE  /\ demands[k].milli_cpu \in Nat /\ AsksInTotal[k] = TotalMilliGpu(demands[k])
             /\ AsksInTotal[k] \in Nat
  <2>1. demands[k].milli_gpu \in Nat /\ demands[k].gpu_number \in Nat /\ demands[k].milli_cpu \in Nat
    BY <1>1 DEF TopoDemand
  <2>2. \A i, j \in Nat : i * j \in Nat
    BY Z3
  <2> QED
    BY <2>1, <2>2 DEF AsksInTotal, TotalMilliGpu
<1>7. \A v \in DOMAIN topology.vertices : PlacedOn(v) = {k \in Admitted : placement[k] = v}
  BY VertexFacts DEF PlacedOn, Admitted
<1> QED
  BY <1>1, <1>2, <1>3, <1>4, <1>5, <1>6, <1>7 DEF Admitted, Asks

\* What is placed on vertices is what is placed on each of them.
LEMMA OnVertices ==
  ASSUME TypeOK, Built, NEW V \in SUBSET DOMAIN topology.vertices, IsFiniteSet(V),
         NEW f, \A k \in Admitted : f[k] \in Int,
         NEW by, \A v \in V : by[v] = Total(f, PlacedOn(v))
  PROVE  Total(by, V) = Total(f, {k \in Admitted : placement[k] \in V})
<1> DEFINE K == {k \in Admitted : placement[k] \in V}
           part == [v \in V |-> PlacedOn(v)]
<1>1. IsFiniteSet(K) /\ \A k \in K : f[k] \in Int
  <2>1. K \in SUBSET DOMAIN demands
    BY AdmittedFacts
  <2> QED
    BY <2>1, AdmittedFacts, FS_Subset
<1>2. \A v \in V : part[v] \in SUBSET K /\ \A k \in K : k \in part[v] <=> placement[k] = v
  BY AdmittedFacts
<1>3. SplitBy(placement, K, V, part) /\ \A v \in V : by[v] = Total(f, part[v])
  BY <1>2 DEF SplitBy
<1> HIDE DEF K, part
<1>4. Total(by, V) = Total(f, K)
  BY <1>1, <1>3, TotalByClass
<1> QED
  BY <1>4 DEF K

\* A vertex had what is placed on it.
LEMMA VertexTakes ==
  ASSUME TypeOK, Built, Accounts, NEW v \in DOMAIN topology.vertices
  PROVE  LET cpu == Total(Asks(demands, "milli_cpu"), PlacedOn(v))
             gpu == Total(AsksInTotal, PlacedOn(v))
         IN  /\ cpu \in Nat /\ cpu <= topology.vertices[v].milli_cpu
             /\ gpu \in Nat /\ FreeVector(left[v]).milli_gpu \in Nat
             /\ Start(v).milli_gpu = FreeVector(left[v]).milli_gpu + gpu
<1> DEFINE asks == Asks(demands, "milli_cpu")
           P == PlacedOn(v)
<1>1. FreeVector(left[v]) = Rest(Start(v), P) /\ left[v] \in Left
  BY AdmittedFacts DEF Accounts, TypeOK
<1>2. FreeVector(left[v]).milli_cpu \in Nat /\ FreeVector(left[v]).milli_gpu \in Nat
  BY <1>1, FreeType
<1>3. P \in SUBSET DOMAIN demands /\ IsFiniteSet(P)
  <2>1. P \in SUBSET DOMAIN demands
    BY AdmittedFacts
  <2> QED
    BY <2>1, AdmittedFacts, FS_Subset
<1>4. \A k \in P : asks[k] \in Nat /\ AsksInTotal[k] \in Nat
  BY <1>3, AdmittedFacts
<1>5. Total(asks, P) \in Nat /\ Total(AsksInTotal, P) \in Nat
  <2> HIDE DEF asks, P
  <2> QED
    BY <1>3, <1>4, TotalType
<1>6. /\ FreeVector(left[v]).milli_cpu = Start(v).milli_cpu - Total(asks, P)
      /\ FreeVector(left[v]).milli_gpu = Start(v).milli_gpu - Total(AsksInTotal, P)
  BY <1>1 DEF Rest
<1>7. /\ Start(v).milli_cpu \in Nat /\ Start(v).milli_gpu \in Nat
      /\ Start(v).milli_cpu = topology.vertices[v].milli_cpu
  BY StartIs
<1> HIDE DEF asks, P
<1> QED
  BY <1>2, <1>5, <1>6, <1>7 DEF asks, P

\* A node has the cpu and the GPU share put on its vertices.
LEMMA NodeTakes ==
  ASSUME TypeOK, Built, Accounts, NEW n \in DOMAIN nodes
  PROVE  /\ Total(Asks(demands, "milli_cpu"), AdmittedOn(n)) <= nodes[n].milli_cpu_capacity
         /\ Total(AsksInTotal, AdmittedOn(n)) <= MILLI * NodeGpus[n]
<1> DEFINE V == OnNode(n)
           asks == Asks(demands, "milli_cpu")
           cpu == Asks(topology.vertices, "milli_cpu")
           byCpu == [v \in V |-> Total(asks, PlacedOn(v))]
           byGpu == [v \in V |-> Total(AsksInTotal, PlacedOn(v))]
           whole == [v \in V |-> MILLI * GpuCounts[v]]
<1>1. V \in SUBSET DOMAIN topology.vertices /\ IsFiniteSet(V)
  BY NodeShares DEF OnNode
<1>2. \A k \in Admitted : asks[k] \in Int /\ AsksInTotal[k] \in Int
  BY AdmittedFacts
<1>3. {k \in Admitted : placement[k] \in V} = AdmittedOn(n)
  BY AdmittedFacts DEF AdmittedOn, OnNode
<1>4. Total(byCpu, V) = Total(asks, AdmittedOn(n)) /\ Total(byGpu, V) = Total(AsksInTotal, AdmittedOn(n))
  <2>1. /\ \A v \in V : byCpu[v] = Total(asks, PlacedOn(v))
        /\ \A v \in V : byGpu[v] = Total(AsksInTotal, PlacedOn(v))
    OBVIOUS
  <2> HIDE DEF byCpu, byGpu, asks, V
  <2> QED
    BY <1>1, <1>2, <1>3, <2>1, OnVertices
<1>5. ASSUME NEW v \in V
      PROVE  /\ byCpu[v] \in Int /\ cpu[v] \in Int /\ byCpu[v] <= cpu[v]
             /\ byGpu[v] \in Int /\ whole[v] \in Int /\ byGpu[v] <= whole[v]
  <2>1. v \in DOMAIN topology.vertices
    BY <1>1
  <2>2. /\ Total(asks, PlacedOn(v)) \in Nat /\ Total(asks, PlacedOn(v)) <= topology.vertices[v].milli_cpu
        /\ Total(AsksInTotal, PlacedOn(v)) \in Nat /\ FreeVector(left[v]).milli_gpu \in Nat
        /\ Start(v).milli_gpu = FreeVector(left[v]).milli_gpu + Total(AsksInTotal, PlacedOn(v))
    BY <2>1, VertexTakes
  <2>3. /\ Start(v).milli_cpu \in Nat /\ Start(v).milli_cpu = topology.vertices[v].milli_cpu
        /\ GpuCounts[v] \in Nat /\ Start(v).milli_gpu <= MILLI * GpuCounts[v]
    BY <2>1, StartIs
  <2>4. MILLI * GpuCounts[v] \in Int
    BY <2>3 DEF MILLI
  <2>5. Total(AsksInTotal, PlacedOn(v)) <= MILLI * GpuCounts[v]
    BY <2>2, <2>3, <2>4
  <2> QED
    BY <2>1, <2>2, <2>3, <2>4, <2>5 DEF Asks
<1>6. \A v \in V : GpuCounts[v] \in Int /\ whole[v] = MILLI * GpuCounts[v]
  BY <1>1, StartIs
<1>7. MILLI \in Int
  BY DEF MILLI
<1>8. Total(byCpu, V) <= Total(cpu, V) /\ Total(byGpu, V) <= Total(whole, V)
  <2> HIDE DEF V, asks, cpu, byCpu, byGpu, whole
  <2> QED
    BY <1>1, <1>5, TotalAtMost
<1>9. Total(whole, V) = MILLI * Total(GpuCounts, V)
  <2> HIDE DEF V, whole
  <2> QED
    BY <1>1, <1>6, <1>7, TotalTimes
<1>10. Total(byCpu, V) \in Int /\ Total(cpu, V) \in Int
  <2> HIDE DEF V, asks, cpu, byCpu, byGpu, whole
  <2> QED
    BY <1>1, <1>5, TotalType
<1>11. Total(cpu, V) <= nodes[n].milli_cpu_capacity /\ Total(GpuCounts, V) = NodeGpus[n]
  BY NodeShares
<1>12. nodes[n].milli_cpu_capacity \in Int
  <2>1. nodes[n] \in TraceNode
    BY HTAFMArguments DEF Built
  <2> QED
    BY <2>1 DEF TraceNode
<1> HIDE DEF V, asks, cpu, byCpu, byGpu, whole
<1>13. Total(byCpu, V) <= nodes[n].milli_cpu_capacity
  BY <1>8, <1>10, <1>11, <1>12
<1> QED
  BY <1>4, <1>8, <1>9, <1>11, <1>13 DEF asks

\* What is not free of devices that all were is what the demands admitted ask for.
LEMMA UnallocatedIs ==
  ASSUME TypeOK, Built, Accounts, \A n \in DOMAIN nodes : nodes[n].milli_gpu_left_list \in Seq({MILLI})
  PROVE  /\ UnallocatedGpus = MILLI * Total(NodeGpus, DOMAIN nodes) - Total(AsksInTotal, Admitted)
         /\ Total(NodeGpus, DOMAIN nodes) \in Nat /\ Total(AsksInTotal, Admitted) \in Nat
<1> DEFINE V == DOMAIN topology.vertices
           free == [v \in V |-> FreeVector(left[v]).milli_gpu]
           start == [v \in V |-> Start(v).milli_gpu]
           taken == [v \in V |-> Total(AsksInTotal, PlacedOn(v))]
<1>1. DOMAIN left = V /\ IsFiniteSet(V)
  BY AdmittedFacts, EdgeFacts
<1>2. UnallocatedGpus = Total(free, V)
  <2> DEFINE ByVertices(g) == g = [s \in SUBSET V |->
                                     IF s = {} THEN 0
                                     ELSE FreeVector(left[First(s)]).milli_gpu + g[s \ {First(s)}]]
  <2>1. \A s \in SUBSET V : s # {} => free[First(s)] = FreeVector(left[First(s)]).milli_gpu
    BY FirstIn
  <2>2. UnallocatedGpus = (CHOOSE g : ByVertices(g))[V]
    BY <1>1 DEF UnallocatedGpus, MapThenSumSet, MapThenFoldSet, First
  <2> HIDE DEF free, V
  <2>3. \A g : ByVertices(g) <=> Iterates(free, g, V)
    BY <2>1 DEF Iterates, Unroll
  <2> HIDE DEF ByVertices
  <2>4. (CHOOSE g : ByVertices(g)) = (CHOOSE g : Iterates(free, g, V))
    BY <2>3
  <2> QED
    BY <2>2, <2>4, TotalDef
<1>3. ASSUME NEW v \in V
      PROVE  /\ free[v] \in Int /\ taken[v] \in Int /\ start[v] = free[v] + taken[v]
             /\ GpuCounts[v] \in Int /\ start[v] = MILLI * GpuCounts[v]
  <2>1. topology.vertices[v].gpus \in Seq({MILLI})
    BY VertexOfNode
  <2> QED
    BY <2>1, VertexTakes, StartIs
<1>4. Total(taken, V) = Total(AsksInTotal, Admitted)
  <2>1. \A v \in V : taken[v] = Total(AsksInTotal, PlacedOn(v))
    OBVIOUS
  <2>2. {k \in Admitted : placement[k] \in V} = Admitted /\ \A k \in Admitted : AsksInTotal[k] \in Int
    BY AdmittedFacts
  <2>3. V \in SUBSET DOMAIN topology.vertices
    OBVIOUS
  <2> HIDE DEF taken, V
  <2> QED
    BY <1>1, <2>1, <2>2, <2>3, OnVertices
<1>5. Total(GpuCounts, V) = Total(NodeGpus, DOMAIN nodes)
  <2> DEFINE server == [v \in V |-> topology.vertices[v].server]
             part == [n \in DOMAIN nodes |-> OnNode(n)]
  <2>1. SplitBy(server, V, DOMAIN nodes, part)
    BY VertexOfNode DEF SplitBy, OnNode
  <2>2. \A n \in DOMAIN nodes : NodeGpus[n] = Total(GpuCounts, part[n])
    BY NodeShares
  <2>3. IsFiniteSet(DOMAIN nodes)
    <3>1. Len(nodes) \in Nat /\ DOMAIN nodes = 1 .. Len(nodes)
      BY HTAFMArguments DEF Built
    <3> QED
      BY <3>1, UpTo, Zenon
  <2>4. \A v \in V : GpuCounts[v] \in Int
    BY <1>3
  <2> HIDE DEF server, part, V
  <2> QED
    BY <1>1, <2>1, <2>2, <2>3, <2>4, TotalByClass
<1>6. Total(GpuCounts, V) \in Nat /\ Total(taken, V) \in Nat /\ Total(free, V) \in Int
  <2>1. \A v \in V : GpuCounts[v] \in Nat /\ taken[v] \in Nat /\ free[v] \in Int
    BY <1>3, StartIs, VertexTakes
  <2> HIDE DEF V, taken, free
  <2> QED
    BY <1>1, <2>1, TotalType
<1>7. MILLI \in Int
  BY DEF MILLI
<1> HIDE DEF V, free, start, taken
<1>8. Total(start, V) = Total(free, V) + Total(taken, V)
  BY <1>1, <1>3, TotalPlus
<1>9. Total(start, V) = MILLI * Total(GpuCounts, V)
  BY <1>1, <1>3, <1>7, TotalTimes
<1>10. MILLI * Total(GpuCounts, V) \in Int
  BY <1>6 DEF MILLI
<1>11. Total(free, V) = MILLI * Total(GpuCounts, V) - Total(taken, V)
  BY <1>6, <1>8, <1>9, <1>10
<1> QED
  BY <1>2, <1>4, <1>5, <1>6, <1>11

\* A demand that names a type is placed on a vertex that has it.
TypesFit ==
  \A k \in Admitted :
    demands[k].gpu_type \in {AnyType} \cup topology.vertices[placement[k]].gpu_types

\* fits() looks at the type, and a placement is never changed (topology.py:91).
LEMMA TypesAlwaysFit == Spec => []TypesFit
<1>1. Init => TypesFit
  BY DEF Init, TypesFit, Admitted
<1>2. ASSUME TypeOK, Built, TypesFit, Next PROVE TypesFit'
  <2> DEFINE k == Len(placement) + 1
  <2>1. /\ UNCHANGED arguments /\ placement \in Seq(DOMAIN left \cup {None})
        /\ Len(placement) \in Nat /\ DOMAIN placement = 1 .. Len(placement)
    BY <1>2 DEF Next, Schedule, LeaveUnscheduled, TypeOK
  <2>2. ASSUME NEW v \in Choice(Demand), Schedule(v) PROVE TypesFit'
    <3>1. v \in DOMAIN left /\ Demand.gpu_type \in {AnyType} \cup topology.vertices[v].gpu_types
      BY <2>2, ChosenFits DEF Fits
    <3>2. /\ DOMAIN placement' = DOMAIN placement \cup {k} /\ placement'[k] = v
          /\ \A i \in DOMAIN placement : placement'[i] = placement[i]
      BY <2>1, <2>2, <3>1 DEF Schedule
    <3> QED
      BY <1>2, <2>1, <3>1, <3>2 DEF TypesFit, Admitted, Demand, arguments
  <2>3. CASE LeaveUnscheduled
    <3>1. /\ DOMAIN placement' = DOMAIN placement \cup {k} /\ placement'[k] = None
          /\ \A i \in DOMAIN placement : placement'[i] = placement[i]
      BY <2>1, <2>3 DEF LeaveUnscheduled
    <3> QED
      BY <1>2, <2>1, <3>1 DEF TypesFit, Admitted, arguments
  <2> QED
    BY <1>2, <2>2, <2>3 DEF Next
<1>3. TypesFit /\ UNCHANGED vars => TypesFit'
  BY DEF TypesFit, Admitted, vars, arguments
<1> QED
  BY <1>1, <1>2, <1>3, NeverOverbooked, AlwaysBuilt, PTL DEF Spec
=============================================================================
