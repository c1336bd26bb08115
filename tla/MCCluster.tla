------------------------------ MODULE MCCluster ------------------------------
(***************************************************************************)
(* Small instances of StaticRows for TLC: every batch of NPods pods of a   *)
(* few shapes, under every policy, with every kind of typical-pod set.     *)
(***************************************************************************)
EXTENDS StaticRows, TLC

CONSTANTS NPods, Shapes

CPU(c) == [milli_cpu |-> c, milli_gpu |-> 0, gpu_number |-> 0, gpu_type |-> AnyType]
GPU(c, g, k, t) == [milli_cpu |-> c, milli_gpu |-> g, gpu_number |-> k, gpu_type |-> t]
Node(c, k, t) ==
  [milli_cpu_capacity |-> c, milli_gpu_capacity |-> 0, gpu_count |-> k, gpu_type |-> t]

\* Two nodes of a kind, of type A, and one without GPUs in the middle.
ThreeNodes == <<Node(3, 2, "A"), Node(2, 0, AnyType), Node(3, 2, "A")>>

\* A small and a large CPU pod, a shared device, two devices; and a device of
\* either of two types, as gpu_spec in data/csv gives alternatives.
MCShapes == {CPU(1), CPU(3), GPU(1, 500, 1, AnyType), GPU(1, 2000, 2, "A"), GPU(1, 500, 1, "A|B")}

MCBatches == [1 .. NPods -> Shapes]

TypicalPods == <<GPU(1, 1000, 1, AnyType), GPU(2, 2000, 2, "A"), CPU(2)>>

\* Three users, of whom the first has two pods.
MCUserOf == <<"u", "v", "w", "u">>

\* None given; given without weights; given with weights 1/2, 1/3, 1/6.
MCTypicals ==
  {[pods |-> <<>>, weights |-> <<>>],
   [pods |-> TypicalPods, weights |-> <<>>],
   [pods |-> TypicalPods, weights |-> <<3, 2, 1>>]}

\* The setting of tests/test_w_fgd.py:125-146, scaled down: nodes of a kind
\* with several GPUs, and a typical pod that fits before and after.
LikeNodes == <<Node(4, 4, "A"), Node(4, 4, "A")>>
LikeShapes == {GPU(1, 1000, 1, AnyType)}
LikeTypicals == {[pods |-> <<GPU(1, 1000, 1, AnyType)>>, weights |-> <<1>>]}
=============================================================================
