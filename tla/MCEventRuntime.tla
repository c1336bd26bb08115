--------------------------- MODULE MCEventRuntime ---------------------------
(***************************************************************************)
(* Small instances of EventRuntime for TLC.  A run ranges over every trace *)
(* of NPods pods with these shapes, submit times and durations, and over   *)
(* every value of max_queue_time.                                          *)
(***************************************************************************)
EXTENDS EventRuntimeRefinement, TLC

CONSTANTS
  NPods,      \* length of the traces
  Times,      \* submit times
  Durations,  \* durations; 0 makes a pod complete at its own start
  Shapes      \* PodResources the pods are chosen from

CPU(c) == [milli_cpu |-> c, milli_gpu |-> 0, gpu_number |-> 0, gpu_type |-> AnyType]
GPU(c, g, k, t) == [milli_cpu |-> c, milli_gpu |-> g, gpu_number |-> k, gpu_type |-> t]

Node(c, k, t) ==
  [milli_cpu_capacity |-> c, milli_gpu_capacity |-> 0, gpu_count |-> k, gpu_type |-> t]

\* A node with one device of type A (capacity left to default), and a smaller
\* CPU node.
TwoNodes == ("n1" :> Node(2, 1, "A")) @@ ("n2" :> Node(1, 0, AnyType))
OneNode == "n1" :> Node(2, 1, "A")

\* One of each kind: small, large, on a share of a device, and of a type no
\* node has.
MixedShapes == {CPU(1), CPU(2), GPU(1, 500, 1, "A"), GPU(1, 1000, 1, "B")}

\* Pods that only n1 can hold; there all contend.
QueueShapes == {CPU(2), GPU(1, 500, 1, "A"), GPU(1, 500, 0, "A")}

\* Of traces that differ by a shift in time only the one that starts at 0.
TracesOf(n, shapes, times, durations) ==
  {events \in [1 .. n -> [pod : shapes, submit_time : times, duration : durations]] :
     Sorted(events) /\ events[1].submit_time = 0}

MCTraces == TracesOf(NPods, Shapes, Times, Durations)

\* Short traces of all kinds of pods with all kinds of ties, and longer ones
\* on which several pods wait and one release starts more than one of them.
LoopTraces ==
  TracesOf(NPods, Shapes, Times, Durations)
  \cup TracesOf(NPods + 1, QueueShapes, {0, 1}, {1, 2})
=============================================================================
