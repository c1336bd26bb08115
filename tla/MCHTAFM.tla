------------------------------- MODULE MCHTAFM -------------------------------
(***************************************************************************)
(* Small instances of HTAFM for TLC: three physical nodes, four            *)
(* fan-outs, every list of NDemands demands of a few shapes.               *)
(***************************************************************************)
EXTENDS HTAFM, Logarithms, TLC

CONSTANTS NDemands, Shapes

Node(c, m, g, types) ==
  [milli_cpu_capacity |-> c, memory_mib_capacity |-> m,
   milli_gpu_left_list |-> [i \in 1 .. g |-> MILLI], gpu_types |-> types]

Demanding(c, m, g, k, type) ==
  [milli_cpu |-> c, memory_mib |-> m, milli_gpu |-> g, gpu_number |-> k, gpu_type |-> type]

\* Uneven GPU counts and an odd cpu capacity, so that the splits differ.
MCNodeLists == {<<Node(5, 4, 3, {"A", "B"}), Node(4, 4, 2, {"A"}), Node(4, 4, 0, {})>>}

Spread(s, k, r) == [numa_per_socket |-> s, sockets_per_node |-> k, nodes_per_rack |-> r]

\* Sockets of two vertices; two sockets of one; whole nodes, in racks of two and alone.
MCFanouts == {Spread(2, 1, 1), Spread(1, 2, 3), Spread(1, 1, 2), Spread(1, 1, 1)}

MCShapes == {Demanding(1, 1, 0, 0, AnyType), Demanding(1, 0, 500, 1, AnyType),
             Demanding(0, 1, 1000, 2, AnyType), Demanding(1, 2, 600, 1, "B")}

\* 60 is a multiple of what the capacities divide a demand into; six vertices
\* have three resources of 60 shares each at most.
MCLn == LnTable(3 * 6 * 60)

MCBatches == [1 .. NDemands -> Shapes]

MCPendings == {<<>>, <<Demanding(1, 1, 1000, 3, AnyType), Demanding(3, 1, 0, 0, AnyType)>>}
=============================================================================
