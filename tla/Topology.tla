------------------------------ MODULE Topology ------------------------------
(***************************************************************************)
(* k8s_sim/topology.py: the hypergraph H-TAFM schedules on.  Its vertices  *)
(* are NUMA nodes, its hyperedges group them by socket, server and rack.   *)
(* Topology.from_nodes derives both from a list of physical nodes; they    *)
(* never change after that.  What does change, what is left of a vertex,   *)
(* is a separate record: cpu, memory and one number per GPU device.        *)
(*                                                                         *)
(* Vertices are numbered in the order of Topology.vertices.  A vertex's    *)
(* gpu_type "A|B" is the set {"A", "B"}, as fits() splits it.              *)
(* Names Name_Bug: see EventRuntime.                                       *)
(***************************************************************************)
EXTENDS Resources, Sequences, Functions

TopoDemand ==
  [milli_cpu : Nat, memory_mib : Nat, milli_gpu : Nat, gpu_number : Nat,
   gpu_type : STRING]

\* A node as the trace has it: its memory, and each device's milli-units.
TraceNode ==
  [milli_cpu_capacity : Nat, memory_mib_capacity : Nat,
   milli_gpu_left_list : Seq(0 .. MILLI), gpu_types : SUBSET STRING]

Fanout == [numa_per_socket : Nat \ {0}, sockets_per_node : Nat \ {0},
           nodes_per_rack : Nat \ {0}]

LevelWeight == [socket |-> 8, server |-> 4, rack |-> 1]

-----------------------------------------------------------------------------
(* Topology.from_nodes.                                                    *)

NumaPerNode(fan) == fan.numa_per_socket * fan.sockets_per_node

\* The GPUs are dealt round-robin: the x-th vertex of the node, x counted from
\* 0, gets the x-th and from there on every hands-th.
Dealt(gpus, x, hands) ==
  [k \in 1 .. (Len(gpus) - x + hands - 1) \div hands |-> gpus[x + (k - 1) * hands + 1]]

\* Rack from the vertex's number, where the code takes the node's.
RackOf_ByVertex(v, node, fan) == (v - 1) \div fan.nodes_per_rack

RackOf(v, node, fan) == (node - 1) \div fan.nodes_per_rack

Vertex(nodes, fan, v) ==
  LET hands == NumaPerNode(fan)
      node == (v - 1) \div hands + 1
      x == (v - 1) % hands
  IN  [server |-> node,
       socket |-> <<node, x \div fan.numa_per_socket>>,
       rack |-> RackOf(v, node, fan),
       milli_cpu |-> nodes[node].milli_cpu_capacity \div hands,
       memory_mib |-> nodes[node].memory_mib_capacity \div hands,
       gpus |-> Dealt(nodes[node].milli_gpu_left_list, x, hands),
       gpu_types |-> nodes[node].gpu_types]

\* The hyperedges of one level: vertices with the same key, at least two.
EdgesOf(level, key) ==
  {e \in {[level |-> level, weight |-> LevelWeight[level],
           vertex_ids |-> {w \in DOMAIN key : key[w] = key[v]}] : v \in DOMAIN key} :
     Cardinality(e.vertex_ids) > 1}

FromNodes(nodes, fan) ==
  LET vertices == [v \in 1 .. Len(nodes) * NumaPerNode(fan) |-> Vertex(nodes, fan, v)]
  IN  [vertices |-> vertices,
       edges |-> EdgesOf("socket", [v \in DOMAIN vertices |-> vertices[v].socket])
                 \cup EdgesOf("server", [v \in DOMAIN vertices |-> vertices[v].server])
                 \cup EdgesOf("rack", [v \in DOMAIN vertices |-> vertices[v].rack])]

EdgesTouching(topo, v) == {e \in topo.edges : v \in e.vertex_ids}

Untouched(vertex) ==
  [milli_cpu |-> vertex.milli_cpu, memory_mib |-> vertex.memory_mib, gpus |-> vertex.gpus]

-----------------------------------------------------------------------------
(* TopoVertex.free_vector, capacity_vector, fits and place.                *)

TotalMilliGpu(d) == d.milli_gpu * d.gpu_number

FreeVector(left) ==
  [milli_cpu |-> left.milli_cpu, memory_mib |-> left.memory_mib,
   milli_gpu |-> SumFunction(left.gpus)]

CapacityVector(vertex) ==
  [milli_cpu |-> vertex.milli_cpu, memory_mib |-> vertex.memory_mib,
   milli_gpu |-> Len(vertex.gpus) * MILLI]

\* The devices with room for one of the demand's shares.
Devices(left, d) == {i \in DOMAIN left.gpus : left.gpus[i] >= d.milli_gpu}

Fits(vertex, left, d) ==
  /\ d.milli_cpu <= left.milli_cpu
  /\ d.memory_mib <= left.memory_mib
  /\ d.gpu_type \in {AnyType} \cup vertex.gpu_types
  /\ Cardinality(Devices(left, d)) >= d.gpu_number

\* The devices place() takes: the fullest with room, the first among equals.
Fuller(left, i, j) ==
  left.gpus[i] < left.gpus[j] \/ (left.gpus[i] = left.gpus[j] /\ i < j)

Picked_Emptiest(left, d) ==
  {i \in Devices(left, d) :
     Cardinality({j \in Devices(left, d) : Fuller(left, i, j)}) < d.gpu_number}
Picked_AllDevices(left, d) == IF d.gpu_number = 0 THEN {} ELSE Devices(left, d)

Picked(left, d) ==
  {i \in Devices(left, d) :
     Cardinality({j \in Devices(left, d) : Fuller(left, j, i)}) < d.gpu_number}

AfterPlace(left, d) ==
  [milli_cpu |-> left.milli_cpu - d.milli_cpu,
   memory_mib |-> left.memory_mib - d.memory_mib,
   gpus |-> [i \in DOMAIN left.gpus |->
               IF i \in Picked(left, d) THEN left.gpus[i] - d.milli_gpu ELSE left.gpus[i]]]
=============================================================================
