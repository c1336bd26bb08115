--------------------------- MODULE MCSweepTraces ---------------------------
(***************************************************************************)
(* Small instances of SweepTraces for TLC: every table of up to NJobs jobs *)
(* of a few kinds at two times; tables of one job more of the same kind:   *)
(* at more times and with ids that recur, on which scaling has more to do, *)
(* or of a kind all of whose demands are rounded up.                       *)
(***************************************************************************)
EXTENDS SweepTraces, TLC

CONSTANTS NJobs, LastTick

\* cpu and GPUs in twelfths.
Kind(c, g, m, t) == [num_cpu |-> c, num_gpu |-> g, gpu_milli |-> m, gpu_type |-> t]

\* No GPU; half a GPU; three quarters of type A; two and a half, and one and a half
\* of a half of each, of type B, this with much cpu; two thirds, and two and two thirds
\* of a cpu; a negative number.
Plain == Kind(12, 0, EMPTY, AnyType)
Thirds == Kind(32, 8, EMPTY, "A")
Kinds == {Plain, Kind(18, 6, EMPTY, AnyType), Kind(9, 9, 1000, "A"), Kind(12, 30, EMPTY, "B"),
          Kind(51, 18, 500, "B"), Thirds, Kind(12, 0 - 12, 0, AnyType)}

\* Ids of their own, or that of the first for all, or for the second that of a copy
\* of the first.
Id(name, dups) == [name |-> name, dups |-> dups]
Names == <<"a", "b", "c">>
Own == [k \in DOMAIN Names |-> Id(Names[k], <<>>)]
IdLists == {Own, [k \in DOMAIN Names |-> Id("a", <<>>)], [Own EXCEPT ![2] = Id("a", <<0>>)]}

At(row, id, t) == row @@ [pod_id |-> id, submit_time |-> t, duration |-> 1]

TablesOf(n, kinds, ids, times) ==
  {[k \in 1 .. n |-> At(what[k], ids[k], when[k])] :
     what \in [1 .. n -> kinds], when \in [1 .. n -> times]}

MCTables ==
  UNION {TablesOf(n, Kinds, Own, {0, 1}) : n \in 0 .. NJobs}
  \cup UNION {TablesOf(NJobs + 1, {Plain}, ids, 0 .. LastTick) : ids \in IdLists}
  \cup TablesOf(NJobs + 1, {Thirds}, Own, {0})

\* The files exported of them may be in any order; a pod without GPUs has empty
\* cells.  Some are empty.
Row(c, g, k, t) == [milli_cpu |-> c, milli_gpu |-> g, gpu_number |-> k, gpu_type |-> t]
FileRows(k) == IF k = 1 THEN Row(1000, EMPTY, EMPTY, AnyType) ELSE Row(1000, 2000, 2, "B")

MCPodFiles ==
  {<<>>} \cup
  {[k \in 1 .. NJobs + 1 |-> At(FileRows(k), ids[k], when[k])] :
     ids \in IdLists, when \in [1 .. NJobs + 1 -> 0 .. LastTick]}

MCNodeFile ==
  <<[milli_cpu_capacity |-> 4000, milli_gpu_capacity |-> EMPTY, gpu_count |-> 2, gpu_type |-> "B"]>>

\* 0.6, the default, and all of it.
MCTargets == {<<3, 5>>, <<1, 1>>}

\* Below, at and above 1; above 2 the copies start over.
MCFactors == {<<1, 4>>, <<1, 2>>, <<1, 1>>, <<3, 2>>, <<2, 1>>, <<3, 1>>}
=============================================================================
