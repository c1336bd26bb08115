--------------------------- MODULE MCPolicyRuntime ---------------------------
(***************************************************************************)
(* Small instances of PolicyRuntime for TLC: every trace of NPods pods of  *)
(* a few shapes, under every policy, on two nodes.                         *)
(***************************************************************************)
EXTENDS PolicyRuntime, TLC

CONSTANTS NPods, Times, Durations, Shapes

CPU(c) == [milli_cpu |-> c, milli_gpu |-> 0, gpu_number |-> 0, gpu_type |-> AnyType]
GPU(c, g, k, t) == [milli_cpu |-> c, milli_gpu |-> g, gpu_number |-> k, gpu_type |-> t]
Node(c, k, t) ==
  [milli_cpu_capacity |-> c, milli_gpu_capacity |-> 0, gpu_count |-> k, gpu_type |-> t]

TwoNodes == <<Node(2, 1, "A"), Node(1, 1, "B")>>

\* A CPU pod only the first node can hold, half a device of type A, a device
\* of any type, and one of a type neither node has.
MCShapes == {CPU(2), GPU(1, 500, 1, "A"), GPU(1, 1000, 1, AnyType), GPU(0, 1000, 1, "C")}

\* Without weights, and with the weights 1/2, 1/3, 1/6.
TypicalPods == <<GPU(1, 1000, 1, AnyType), GPU(1, 500, 1, "B"), CPU(2)>>
MCTypicals == {[pods |-> TypicalPods, weights |-> <<>>],
               [pods |-> TypicalPods, weights |-> <<3, 2, 1>>]}

MCTraces ==
  {events \in [1 .. NPods -> [pod : Shapes, submit_time : Times, duration : Durations]] :
     Sorted(events)}

\* The second user has the last pod only.
MCUserOf == <<"u", "u", "v">>

MCPolicies == Policy!POLICIES
=============================================================================
