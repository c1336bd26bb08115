---------------------------- MODULE MCTypicalPods ----------------------------
(***************************************************************************)
(* Small instances of TypicalPods for TLC: every workload of up to NPods   *)
(* pods of the kinds given.                                                *)
(***************************************************************************)
EXTENDS TypicalPods, SequencesExt

CONSTANT NPods

Pod(c, g, n) == [milli_cpu |-> c, milli_gpu |-> g, gpu_number |-> n, gpu_type |-> AnyType]

\* No GPU; a share of a device, uncounted; whole devices without a share
\* given; many devices and little CPU.  Largest CPU demand first.
Kinds == <<Pod(1000, 0, 0), Pod(700, 500, 0), Pod(500, 0, 2), Pod(500, 1000, 1), Pod(100, 8000, 8)>>

\* The builders take the pods together: one order of each workload is enough.
Workloads ==
  {kinds \in UNION {[1 .. n -> DOMAIN Kinds] : n \in 0 .. NPods} : IsSorted(kinds, <=)}

MCPodLists == {[i \in DOMAIN kinds |-> Kinds[kinds[i]]] : kinds \in Workloads}
=============================================================================
