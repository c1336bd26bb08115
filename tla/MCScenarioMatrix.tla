-------------------------- MODULE MCScenarioMatrix --------------------------
(***************************************************************************)
(* Small instances of ScenarioMatrix and HtafmDemo for TLC: every list of  *)
(* NPods pods of a few shapes, as gputrace exports them, and every raw pod *)
(* list of NRows rows of a few kinds, on two nodes of unlike types.        *)
(***************************************************************************)
EXTENDS HtafmDemo, Logarithms, TLC

CONSTANTS NPods, NRows

NodeRow(c, m, k, t) == [cpu_milli |-> c, memory_mib |-> m, gpu |-> k, model |-> t]

\* Vertices of two devices and of one and none; memory is short on the second.
MCNodeTable == <<NodeRow(4, 8, 4, "A"), NodeRow(4, 2, 1, "B")>>
TwoNodes == LoadRealTraceNodes(MCNodeTable)

Row(c, g, k, t) == [milli_cpu |-> c, milli_gpu |-> g, gpu_number |-> k, gpu_type |-> t]

\* No GPU; half a device, the number of which may have been rounded to 0 or not, and
\* one; two, for which milli_gpu is that of both: two whole ones and two halves.
ExportedRows == {Row(2, EMPTY, EMPTY, AnyType), Row(1, 500, 0, "A"), Row(1, 500, 1, "A"),
                 Row(1, 1000, 1, "B"), Row(1, 2000, 2, "A"), Row(1, 1000, 2, "A")}

MCPodLists == {LoadPodsCsv(table) : table \in [1 .. NPods -> ExportedRows]}

RawRow(c, m, g, k) ==
  [cpu_milli |-> c, memory_mib |-> m, num_gpu |-> k, gpu_milli |-> g, gpu_spec |-> AnyType]

\* No GPU and much memory; half a device, and one; two whole devices.
RawRows == {RawRow(2, 4, EMPTY, 0), RawRow(1, 1, 500, 1), RawRow(1, 1, 1000, 1),
            RawRow(1, 2, 1000, 2)}

MCPodTables == [1 .. NRows -> RawRows]

\* Demands take halves and quarters; a rack has four vertices.
MCLn == LnTable(3 * 4 * 4)

Shape(c, g, k) == [milli_cpu |-> c, milli_gpu |-> g, gpu_number |-> k, gpu_type |-> AnyType]
TypicalPods == <<Shape(1, 1000, 1), Shape(2, 0, 0)>>
MCTypicals == {[pods |-> TypicalPods, weights |-> <<>>],
               [pods |-> TypicalPods, weights |-> <<2, 1>>]}
=============================================================================
