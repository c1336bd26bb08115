---------------------------- MODULE TraceLoaders ----------------------------
(***************************************************************************)
(* How pods and nodes come out of CSV files: the loaders of the raw trace  *)
(* under data/csv (trace.py:44-111, topology.py:266-287,                   *)
(* htafm_demo.py:27-45) and those of the files gputrace exports            *)
(* (trace.py:114-142, gputrace_bridge.py:51-79).  A table is a sequence of *)
(* rows, a row a record of the columns that are used.                      *)
(*                                                                         *)
(* Numbers are whole, as in all files there are; EMPTY is an empty cell.   *)
(* Of a raw pod, gpu_milli is what it asks of each of its num_gpu devices: *)
(* num_gpu 8 comes with gpu_milli 1000.  Names Name_Bug: see EventRuntime. *)
(***************************************************************************)
EXTENDS Resources, Sequences

EMPTY == 0 - 1

RawNode == [cpu_milli : Nat, memory_mib : Nat, gpu : Nat, model : STRING]
RawPod == [cpu_milli : Nat, memory_mib : Nat, num_gpu : Nat,
           gpu_milli : Nat \cup {EMPTY}, gpu_spec : STRING]

Cell(value) == IF value = EMPTY THEN 0 ELSE value

\* _clean_gpu_spec
CleanGpuSpec(raw) == IF raw \in {"nan", "none"} THEN AnyType ELSE raw

-----------------------------------------------------------------------------
(* The raw trace.                                                          *)

LoadRealTraceNodes(table) ==
  [n \in DOMAIN table |->
    [milli_cpu_capacity |-> table[n].cpu_milli,
     milli_gpu_capacity |-> table[n].gpu * MILLI,
     gpu_count |-> table[n].gpu,
     gpu_type |-> CleanGpuSpec(table[n].model)]]

\* The rows at most limit of which are read, one of: a prefix of the file, or
\* with sample any of its rows in any order.
ReadRows(table, limit, sample) ==
  IF limit >= Len(table) THEN {table}
  ELSE IF sample
  THEN {[k \in 1 .. limit |-> table[pick[k]]] :
          pick \in {f \in [1 .. limit -> DOMAIN table] :
                      \A k, l \in 1 .. limit : f[k] = f[l] => k = l}}
  ELSE {SubSeq(table, 1, limit)}

GpuMilli(row) == IF row.num_gpu > 0 THEN Cell(row.gpu_milli) ELSE 0

LoadRealTracePods(rows) ==
  [k \in DOMAIN rows |->
    [milli_cpu |-> rows[k].cpu_milli,
     milli_gpu |-> GpuMilli(rows[k]),
     gpu_number |-> rows[k].num_gpu,
     gpu_type |-> CleanGpuSpec(rows[k].gpu_spec)]]

\* htafm_demo._load_demands
LoadDemands(rows) ==
  [k \in DOMAIN rows |->
    [milli_cpu |-> rows[k].cpu_milli,
     memory_mib |-> rows[k].memory_mib,
     milli_gpu |-> GpuMilli(rows[k]),
     gpu_number |-> rows[k].num_gpu,
     gpu_type |-> rows[k].gpu_spec]]

\* load_topology_from_csv, up to Topology.from_nodes.
LoadTopologyNodes(table) ==
  [n \in DOMAIN table |->
    [milli_cpu_capacity |-> table[n].cpu_milli,
     memory_mib_capacity |-> table[n].memory_mib,
     milli_gpu_left_list |-> [g \in 1 .. table[n].gpu |-> MILLI],
     gpu_types |-> {table[n].model} \ {AnyType}]]

-----------------------------------------------------------------------------
(* Exported files.  Their rows have the fields of pods and nodes.          *)

LoadNodesCsv(table) ==
  [n \in DOMAIN table |->
    [milli_cpu_capacity |-> table[n].milli_cpu_capacity,
     milli_gpu_capacity |-> Cell(table[n].milli_gpu_capacity),
     gpu_count |-> Cell(table[n].gpu_count),
     gpu_type |-> table[n].gpu_type]]

LoadPodsCsv(table) ==
  [k \in DOMAIN table |->
    [milli_cpu |-> table[k].milli_cpu,
     milli_gpu |-> Cell(table[k].milli_gpu),
     gpu_number |-> Cell(table[k].gpu_number),
     gpu_type |-> table[k].gpu_type]]

-----------------------------------------------------------------------------
\* A copy of what __post_init__ has completed; all of it is free again.
ResetCluster(nodes) ==
  [n \in DOMAIN nodes |->
    [nodes[n] EXCEPT !.milli_gpu_capacity = MilliGpuCapacity(nodes[n])]]
=============================================================================
