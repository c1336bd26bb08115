------------------------------- MODULE Cluster -------------------------------
(***************************************************************************)
(* k8s_sim/cluster.py: a cluster in its static mode.  schedule_pods places *)
(* a batch of pods in list order, each by schedule_pod with the same       *)
(* policy, and never releases one.  One action is one turn of its loop.    *)
(*                                                                         *)
(* The batch, the policy and the typical pods are a run's arguments: any   *)
(* of those the constants offer, chosen in Init.                           *)
(***************************************************************************)
EXTENDS Policies

CONSTANTS
  Batches,       \* the pod lists schedule_pods may be given
  Typicals,      \* the typical_pods and typical_weights it may be given
  Names,         \* the policies considered
  None           \* Python's None

Typical == [pods : Seq(PodResource), weights : Seq(Nat \ {0})]

ASSUME ArgumentsAssumption ==
  /\ Batches \subseteq Seq(PodResource)
  /\ \A typical \in Typicals :
       /\ typical \in Typical
       /\ typical.weights = <<>> \/ Len(typical.weights) = Len(typical.pods)
  /\ Names \subseteq POLICIES
  /\ None \notin NodeIds

VARIABLES
  pods,                \* the batch; never changes
  policy,              \* the policy's name; never changes
  typical,             \* the typical pods and weights; never change
  remaining,           \* per node: what is left of it
  round_robin_state,   \* the cursor all calls of round_robin share
  results              \* the node, or None, of the pods scheduled so far

arguments == <<pods, policy, typical>>
vars == <<arguments, remaining, round_robin_state, results>>

Init ==
  /\ pods \in Batches
  /\ policy \in Names
  /\ typical \in Typicals
  /\ remaining = [n \in NodeIds |-> Empty(NodeList[n])]
  /\ round_robin_state = 0
  /\ results = <<>>

-----------------------------------------------------------------------------
Unscheduled == Len(results) < Len(pods)
NextPod == pods[Len(results) + 1]

Choice == Chosen(policy, NextPod, remaining, round_robin_state, typical)

Placed(n) ==
  /\ Unscheduled
  /\ n \in Choice
  /\ remaining' = [remaining EXCEPT ![n] = Take(@, NextPod)]
  /\ round_robin_state' =
       IF policy = "round_robin" THEN CursorAfter(n) ELSE round_robin_state
  /\ results' = Append(results, n)
  /\ UNCHANGED arguments

Rejected ==
  /\ Unscheduled
  /\ Choice = {}
  /\ results' = Append(results, None)
  /\ UNCHANGED <<arguments, remaining, round_robin_state>>

Next == (\E n \in NodeIds : Placed(n)) \/ Rejected

Spec == Init /\ [][Next]_vars

-----------------------------------------------------------------------------
(* Properties.                                                             *)

TypeOK ==
  /\ pods \in Batches /\ policy \in Names /\ typical \in Typicals
  /\ remaining \in [NodeIds -> Remaining]
  /\ round_robin_state \in 0 .. Len(NodeList) - 1
  /\ results \in Seq(NodeIds \cup {None}) /\ Len(results) <= Len(pods)

PlacedOn(n) == {k \in DOMAIN results : results[k] = n}

\* The counters of every node are what the results reported so far leave of
\* it, and none is negative (resource.py:71-81, cluster.py:62-63, 76-78).
ResultsAccountFor ==
  \A n \in NodeIds :
    /\ remaining[n] = TakeAll(Empty(NodeList[n]), pods, PlacedOn(n))
    /\ NotOvercommitted(remaining[n])

\* A policy says None only when no node has room (policies.py:6-8), and as
\* nothing is ever released a rejected pod fits nowhere for the rest of the
\* batch: no policy, by any cursor or score, overlooks a node.
RejectedStaysUnfit ==
  \A k \in DOMAIN results : results[k] = None => Feasible(pods[k], remaining) = {}

\* round_robin is fair to nodes: between two turns of a node every other node
\* that had room for all pods placed in between had a turn of its own,
\* whatever was skipped or rejected meanwhile (policies.py:90-95).
RoundRobinFair ==
  policy = "round_robin" =>
    \A a, b \in DOMAIN results :
      a < b /\ results[a] = results[b] /\ results[a] # None =>
        \A m \in NodeIds \ {results[a]} :
          \/ \E k \in a + 1 .. b : results[k] = m
          \/ \E k \in a + 1 .. b :
               results[k] # None /\ ~FitsIn(pods[k], NodeList[m], remaining[m])

Fragmentation(n) ==
  ClusterFragmentation(typical, [remaining EXCEPT ![n] = Take(@, NextPod)])

\* fgd compares nodes one by one, each by its own change; the node it takes
\* makes the score of the whole cluster rise the least (policies.py:122-127).
FgdRaisesScoreLeast ==
  [][policy = "fgd" /\ typical.pods # <<>> =>
       \A m \in NodeIds :
         Unscheduled /\ m \in Feasible(NextPod, remaining) =>
           ClusterFragmentation(typical, remaining') <= Fragmentation(m)]_vars

Idle(n) == remaining[n] = Empty(NodeList[n])
Alike(m, n) == NodeList[m] = NodeList[n]

\* best_fit opens an idle node only if no used node of the same kind has
\* room, and gpu_packing one with idle GPUs only if no node with used GPUs
\* has room (policies.py:51-53, 100-102); worst_fit does the reverse (65-66).
PacksOrSpreads ==
  [][\A n \in NodeIds : remaining'[n] # remaining[n] =>
       \A m \in Feasible(NextPod, remaining) :
         /\ policy = "best_fit" /\ Alike(m, n) /\ Idle(n) => Idle(m)
         /\ policy = "worst_fit" /\ Alike(m, n) /\ Idle(m) => Idle(n)
         /\ policy = "gpu_packing" /\ GpuUtilization(n, remaining[n])[1] = 0 =>
              GpuUtilization(m, remaining[m])[1] = 0]_vars

\* Documented (policies.py:189-196), and not what the score does: among the
\* nodes tied on the weighted gradient w_fgd_balanced prefers one that leaves
\* more nodes completely empty, so it opens an idle node only if no used node
\* of the same kind with the same gradient has room.
BalancedLeavesNodesEmpty ==
  [][\A n \in NodeIds : remaining'[n] # remaining[n] =>
       \A m \in Feasible(NextPod, remaining) :
         /\ policy = "w_fgd_balanced" /\ typical.weights # <<>>
         /\ Alike(m, n) /\ Idle(n)
         /\ LET Grows(k) == WeightedGradient(NextPod, k, remaining, typical)
            IN  AtMost(Grows(m), Grows(n)) /\ AtMost(Grows(n), Grows(m))
         => Idle(m)]_vars
=============================================================================
