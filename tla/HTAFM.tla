-------------------------------- MODULE HTAFM --------------------------------
(***************************************************************************)
(* k8s_sim/htafm.py: the topology-aware fragmentation index TAFI and the   *)
(* scheduler that descends it.  For every demand of a list the scheduler   *)
(* takes, among the vertices it fits, one whose TAFI would change least.   *)
(* The change is computed from a hypothetical free vector and only over    *)
(* the hyperedges at that vertex, without placing anything.                *)
(*                                                                         *)
(* TAFI-Cut and TAFI-Hier are sums of multiples of 1 / |e|, kept in the    *)
(* integer unit 1 / Unit.  TAFI-Entropy is computed from a table of        *)
(* logarithms; of vertices the rounding cannot tell apart the scheduler    *)
(* may take any.  For `hier' so may exact ties: the code adds              *)
(* floating-point quotients.                                               *)
(***************************************************************************)
EXTENDS Topology

CONSTANTS
  NodeLists,     \* the node lists Topology.from_nodes may be given
  Fanouts,       \* ... with these fan-outs
  Batches,       \* the demand lists schedule() may be given
  Pendings,      \* the values HTAFMConfig.pending_demands may have
  Variants,      \* the TAFI variants considered
  Shares,        \* what is free of a capacity counts in units of 1 / Shares of it
  Ln,            \* the logarithms of 1, 2, .. in some unit
  Tolerance,     \* differences of TAFI-Entropy, in that unit, that may be rounding
  None           \* Python's None

VARIANTS == {"cut", "entropy", "hier"}

ASSUME HTAFMArguments ==
  /\ NodeLists \subseteq Seq(TraceNode) /\ Fanouts \subseteq Fanout
  /\ Batches \subseteq Seq(TopoDemand) /\ Pendings \subseteq Seq(TopoDemand)
  /\ Variants \subseteq VARIANTS
  /\ Shares \in Nat \ {0} /\ Ln \in Seq(Nat) /\ Tolerance \in Nat
  /\ None \notin Nat

\* The free shares of three resources on every vertex add up to no more than
\* the table has logarithms.
LnReaches(list, fan) == 3 * Shares * (Len(list) * NumaPerNode(fan)) <= Len(Ln)

\* math.log is defined for every number.
ASSUME LogarithmsReach == \A list \in NodeLists, fan \in Fanouts : LnReaches(list, fan)

VARIABLES
  nodes,         \* the physical nodes; never change
  topology,      \* the vertices and hyperedges; never change
  cfg,           \* HTAFMConfig; never changes
  demands,       \* the argument of schedule(); never changes
  left,          \* what is left of each vertex
  placement      \* the vertex, or None, of each demand scheduled so far

arguments == <<nodes, topology, cfg, demands>>
vars == <<arguments, left, placement>>

-----------------------------------------------------------------------------
(* The three indices of one hyperedge.                                     *)

DemandLeq(d, free) ==
  d.milli_cpu <= free.milli_cpu /\ d.memory_mib <= free.memory_mib
  /\ TotalMilliGpu(d) <= free.milli_gpu

Aggregate(e, free) ==
  [milli_cpu  |-> MapThenSumSet(LAMBDA v : free[v].milli_cpu, e.vertex_ids),
   memory_mib |-> MapThenSumSet(LAMBDA v : free[v].memory_mib, e.vertex_ids),
   milli_gpu  |-> MapThenSumSet(LAMBDA v : free[v].milli_gpu, e.vertex_ids)]

\* Some pending demand fits what the vertices have together, and none of them.
IsCut(e, free, pending) ==
  \E k \in DOMAIN pending :
    /\ DemandLeq(pending[k], Aggregate(e, free))
    /\ \A v \in e.vertex_ids : ~DemandLeq(pending[k], free[v])

BelowThreshold_Above(free, capacity) == capacity > 0 /\ 2 * free > capacity

\* Less than half is left (DEFAULT_LEVEL_THRESHOLD_FRAC).
BelowThreshold(free, capacity) == capacity > 0 /\ 2 * free < capacity

IsFragmented(vertex, free) ==
  LET cap == CapacityVector(vertex)
  IN  \E r \in {"milli_cpu", "memory_mib", "milli_gpu"} : BelowThreshold(free[r], cap[r])

\* free_norm: the shares of each resource still free, added up.
FreeNorm(vertex, free) ==
  LET cap == CapacityVector(vertex)
  IN  MapThenSumSet(LAMBDA r : (free[r] * Shares) \div cap[r],
                    {r \in {"milli_cpu", "memory_mib", "milli_gpu"} : cap[r] > 0})

\* -Sum (f / total) ln (f / total) = ln total - (Sum f ln f) / total.
PhiEntropy(topo, e, free) ==
  LET norm == [v \in e.vertex_ids |-> FreeNorm(topo.vertices[v], free[v])]
      total == MapThenSumSet(LAMBDA v : norm[v], e.vertex_ids)
      positive == {v \in e.vertex_ids : norm[v] > 0}
  IN  IF total <= 0 THEN 0
      ELSE Ln[total] - MapThenSumSet(LAMBDA v : norm[v] * Ln[norm[v]], positive) \div total

Unit(topo) == ProductSet({Cardinality(e.vertex_ids) : e \in topo.edges})

PhiCut(topo, e, free, pending) == IF IsCut(e, free, pending) THEN Unit(topo) ELSE 0

PhiHier(topo, e, free) ==
  Cardinality({v \in e.vertex_ids : IsFragmented(topo.vertices[v], free[v])})
  * (Unit(topo) \div Cardinality(e.vertex_ids))

Phi(topo, config, e, free) ==
  CASE config.variant = "cut" -> PhiCut(topo, e, free, config.pending_demands)
    [] config.variant = "entropy" -> PhiEntropy(topo, e, free)
    [] config.variant = "hier" -> PhiHier(topo, e, free)

Tafi(topo, config, edges, free) ==
  MapThenSumSet(LAMBDA e : e.weight * Phi(topo, config, e, free), edges)

-----------------------------------------------------------------------------
(* compute_tafi and delta_tafi.                                            *)

Free == [v \in DOMAIN left |-> FreeVector(left[v])]

ComputeTafi(config, free) == Tafi(topology, config, topology.edges, free)

\* The share of one device taken for the whole demand.
Hypothetical_OneDevice(free, d) ==
  [milli_cpu |-> free.milli_cpu - d.milli_cpu,
   memory_mib |-> free.memory_mib - d.memory_mib,
   milli_gpu |-> free.milli_gpu - d.milli_gpu]

Hypothetical(free, d) ==
  [milli_cpu |-> free.milli_cpu - d.milli_cpu,
   memory_mib |-> free.memory_mib - d.memory_mib,
   milli_gpu |-> free.milli_gpu - TotalMilliGpu(d)]

DeltaTafi(free, v, d) ==
  LET touched == EdgesTouching(topology, v)
  IN  Tafi(topology, cfg, touched, [free EXCEPT ![v] = Hypothetical(@, d)])
      - Tafi(topology, cfg, touched, free)

\* The change for every candidate vertex.
Gradient(d, candidates) ==
  LET free == Free
  IN  [v \in candidates |-> DeltaTafi(free, v, d)]

-----------------------------------------------------------------------------
(* HTAFMScheduler.                                                         *)

\* Leaves out the vertices without a hyperedge.
Candidates_OnlyTouched(d) ==
  {v \in DOMAIN left : Fits(topology.vertices[v], left[v], d) /\ EdgesTouching(topology, v) # {}}

Candidates(d) == {v \in DOMAIN left : Fits(topology.vertices[v], left[v], d)}

Slack == IF cfg.variant = "entropy" THEN Tolerance ELSE 0

Least_Most(delta) == {v \in DOMAIN delta : \A w \in DOMAIN delta : delta[w] <= delta[v]}

Least(delta) == {v \in DOMAIN delta : \A w \in DOMAIN delta : delta[v] <= delta[w] + Slack}

\* The strict < of schedule_one keeps the first of several best vertices.
Choice(d) ==
  LET best == Least(Gradient(d, Candidates(d)))
  IN  IF cfg.variant = "cut" THEN {v \in best : \A w \in best : v <= w} ELSE best

Init ==
  /\ nodes \in NodeLists
  /\ \E fan \in Fanouts : topology = FromNodes(nodes, fan)
  /\ cfg \in [variant : Variants, pending_demands : Pendings]
  /\ demands \in Batches
  /\ left = [v \in DOMAIN topology.vertices |-> Untouched(topology.vertices[v])]
  /\ placement = <<>>

\* unallocated_gpus, in milli-units.
UnallocatedGpus == MapThenSumSet(LAMBDA v : FreeVector(left[v]).milli_gpu, DOMAIN left)

Unscheduled == Len(placement) < Len(demands)
Demand == demands[Len(placement) + 1]

Schedule(v) ==
  /\ left' = [left EXCEPT ![v] = AfterPlace(@, Demand)]
  /\ placement' = Append(placement, v)
  /\ UNCHANGED arguments

LeaveUnscheduled ==
  /\ Candidates(Demand) = {}
  /\ placement' = Append(placement, None)
  /\ UNCHANGED <<arguments, left>>

Next ==
  /\ Unscheduled
  /\ \/ \E v \in Choice(Demand) : Schedule(v)
     \/ LeaveUnscheduled

Spec == Init /\ [][Next]_vars
-----------------------------------------------------------------------------
(* Safety.                                                                 *)

\* What is left of a vertex is never negative.
Left == [milli_cpu : Nat, memory_mib : Nat, gpus : Seq(0 .. MILLI)]

TypeOK ==
  /\ nodes \in NodeLists /\ demands \in Batches
  /\ cfg \in [variant : VARIANTS, pending_demands : Pendings]
  /\ left \in [DOMAIN topology.vertices -> Left]
  /\ placement \in Seq(DOMAIN left \cup {None}) /\ Len(placement) <= Len(demands)

PlacedOn(v) == {k \in DOMAIN placement : placement[k] = v}

\* What is left of a vertex is never negative on any device and, summed over
\* them, is what it started with less its demands in full, although place()
\* deducts device by device and trusts fits() to have counted enough of them
\* (topology.py:86-126).
PlacementsAccountFor ==
  \A v \in DOMAIN left :
    LET start == FreeVector(Untouched(topology.vertices[v]))
    IN  /\ left[v] \in Left
        /\ FreeVector(left[v]) =
             [milli_cpu |-> start.milli_cpu
                - MapThenSumSet(LAMBDA k : demands[k].milli_cpu, PlacedOn(v)),
              memory_mib |-> start.memory_mib
                - MapThenSumSet(LAMBDA k : demands[k].memory_mib, PlacedOn(v)),
              milli_gpu |-> start.milli_gpu
                - MapThenSumSet(LAMBDA k : TotalMilliGpu(demands[k]), PlacedOn(v))]

\* A demand left unscheduled fits no vertex for the rest of the list: the
\* scheduler overlooks no vertex, not even one that no hyperedge touches
\* (htafm.py:181-182, 220-222).
UnscheduledStaysUnfit ==
  \A k \in DOMAIN placement : placement[k] = None =>
    \A v \in DOMAIN left : ~Fits(topology.vertices[v], left[v], demands[k])

\* The hierarchy from_nodes builds is one: sockets nest in servers and these
\* in racks, no vertex is in two edges of a level, every GPU of a node is
\* dealt to one of its vertices and these differ by at most one, and of cpu
\* less than a unit per vertex is lost (topology.py:182-233).
HierarchyWellFormed ==
  /\ \A e, f \in topology.edges :
       /\ e.vertex_ids \cap f.vertex_ids # {} /\ e.level = f.level => e = f
       /\ e.vertex_ids \cap f.vertex_ids # {} /\ e.weight > f.weight =>
            e.vertex_ids \subseteq f.vertex_ids
  /\ \A n \in DOMAIN nodes :
       LET mine == {v \in DOMAIN left : topology.vertices[v].server = n}
           Gpus(v) == Len(topology.vertices[v].gpus)
           lost == nodes[n].milli_cpu_capacity
                   - MapThenSumSet(LAMBDA v : topology.vertices[v].milli_cpu, mine)
       IN  /\ MapThenSumSet(Gpus, mine) = Len(nodes[n].milli_gpu_left_list)
           /\ \A v, w \in mine : Gpus(v) <= Gpus(w) + 1
           /\ lost \in 0 .. Cardinality(mine) - 1

-----------------------------------------------------------------------------
(* What a step may never do.                                               *)

Grown == ComputeTafi(cfg, Free)' - ComputeTafi(cfg, Free)

\* The change delta_tafi predicts, from one hypothetical vector and the edges
\* at the vertex only, is the change of the whole index once place() has run
\* over the devices (htafm.py:173-191 against 167-170 and topology.py:114-126).
DeltaIsExact ==
  [][\A v \in DOMAIN left : left'[v] # left[v] => Grown = DeltaTafi(Free, v, Demand)]_vars

\* No other vertex with room would have left the whole index lower, although
\* the gradients compared are sums over different edges (htafm.py:223-229).
GreedyIsBest ==
  [][left' # left =>
       \A w \in Candidates(Demand) :
         ComputeTafi(cfg, Free)' <= Slack +
           ComputeTafi(cfg, [Free EXCEPT ![w] = FreeVector(AfterPlace(left[w], Demand))])]_vars

\* Sharing never wastes a whole device: no other choice of devices on the same
\* vertex would leave more of them whole (topology.py:121-126).
WholeDevicesKept ==
  [][\A v \in DOMAIN left : left'[v] # left[v] =>
       \A D \in SUBSET Devices(left[v], Demand) : Cardinality(D) = Demand.gpu_number =>
         Cardinality({i \in DOMAIN left[v].gpus : left[v].gpus[i] = MILLI} \ D)
           <= Cardinality({i \in DOMAIN left[v].gpus : left'[v].gpus[i] = MILLI})]_vars

Index(variant) == ComputeTafi([cfg EXCEPT !.variant = variant], Free)

\* TAFI-Hier never decreases when a demand is placed (docs/HTAFM.md:94-98).
HierNeverFalls == [][Index("hier") <= Index("hier")']_vars

\* Documented for TAFI-Cut too (docs/HTAFM.md:94-98), and not so: once the
\* vertices of an edge together have no room for the pending demand either,
\* the edge is no longer cut.
CutNeverFalls == [][Index("cut") <= Index("cut")']_vars
=============================================================================
