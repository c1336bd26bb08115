------------------------------ MODULE Resources ------------------------------
(***************************************************************************)
(* The two types of k8s_sim/resource.py on which the whole package stands: *)
(* a pod asks for resources (PodResource) and a node is a pool of them     *)
(* (NodeResource).  This module holds the pure part, shared by the modules *)
(* that model the cluster, the policies and the event loop: what a node    *)
(* starts with, when a pod fits, and what placing or releasing it changes. *)
(*                                                                         *)
(* A node is described by two records: its description, which never        *)
(* changes, and what is left of it, which add() and remove() update.       *)
(***************************************************************************)
EXTENDS Integers, FiniteSets, FiniteSetsExt

MILLI == 1000        \* milli-units of one whole GPU device
AnyType == ""        \* a GPU type left unspecified, on a pod or on a node

PodResource ==
  [milli_cpu : Nat, milli_gpu : Nat, gpu_number : Nat, gpu_type : STRING]

NodeResource ==
  [milli_cpu_capacity : Nat, milli_gpu_capacity : Nat, gpu_count : Nat,
   gpu_type : STRING]

\* What is left of a node; negative only if a node were overcommitted.
Remaining == [milli_cpu : Int, milli_gpu : Int, gpu_count : Int]

-----------------------------------------------------------------------------
(* NodeResource.__post_init__: an unset GPU capacity follows the devices.  *)

MilliGpuCapacity(node) ==
  IF node.milli_gpu_capacity = 0 /\ node.gpu_count > 0
  THEN node.gpu_count * MILLI
  ELSE node.milli_gpu_capacity

Empty(node) ==
  [milli_cpu |-> node.milli_cpu_capacity,
   milli_gpu |-> MilliGpuCapacity(node),
   gpu_count |-> node.gpu_count]

-----------------------------------------------------------------------------
(* PodResource.fits_in: a type excludes a node only if both are set.       *)

TypesAgree(pod, node) ==
  pod.gpu_type = AnyType \/ node.gpu_type = AnyType \/ pod.gpu_type = node.gpu_type

FitsIn(pod, node, left) ==
  /\ pod.milli_cpu  <= left.milli_cpu
  /\ pod.gpu_number <= left.gpu_count
  /\ pod.milli_gpu  <= left.milli_gpu
  /\ TypesAgree(pod, node)

(* NodeResource.add and NodeResource.remove: what becomes of the rest.     *)

\* As Take, but the devices stay free.
Take_KeepsDevices(left, pod) ==
  [milli_cpu |-> left.milli_cpu - pod.milli_cpu,
   milli_gpu |-> left.milli_gpu - pod.milli_gpu,
   gpu_count |-> left.gpu_count]

Take(left, pod) ==
  [milli_cpu |-> left.milli_cpu - pod.milli_cpu,
   milli_gpu |-> left.milli_gpu - pod.milli_gpu,
   gpu_count |-> left.gpu_count - pod.gpu_number]

\* As GiveBack, but the devices stay taken.
GiveBack_KeepsDevices(left, pod) ==
  [milli_cpu |-> left.milli_cpu + pod.milli_cpu,
   milli_gpu |-> left.milli_gpu + pod.milli_gpu,
   gpu_count |-> left.gpu_count]

GiveBack(left, pod) ==
  [milli_cpu |-> left.milli_cpu + pod.milli_cpu,
   milli_gpu |-> left.milli_gpu + pod.milli_gpu,
   gpu_count |-> left.gpu_count + pod.gpu_number]

-----------------------------------------------------------------------------
(* Vocabulary for the properties; the code has no such functions.          *)

\* What is left after the pods P[i], i in held, have been taken from left.
TakeAll(left, P, held) ==
  [milli_cpu |-> left.milli_cpu - MapThenSumSet(LAMBDA i : P[i].milli_cpu, held),
   milli_gpu |-> left.milli_gpu - MapThenSumSet(LAMBDA i : P[i].milli_gpu, held),
   gpu_count |-> left.gpu_count - MapThenSumSet(LAMBDA i : P[i].gpu_number, held)]

NotOvercommitted(left) ==
  left.milli_cpu >= 0 /\ left.milli_gpu >= 0 /\ left.gpu_count >= 0

\* Pod q asks for at least as much as pod p of everything, and is at least
\* as particular about the GPU type: a node with room for q has room for p.
AsksNoLess(q, p) ==
  /\ q.milli_cpu  >= p.milli_cpu
  /\ q.milli_gpu  >= p.milli_gpu
  /\ q.gpu_number >= p.gpu_number
  /\ p.gpu_type \in {AnyType, q.gpu_type}
=============================================================================
