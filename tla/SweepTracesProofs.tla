------------------------- MODULE SweepTracesProofs -------------------------
(***************************************************************************)
(* What the loaders and the scaling of a trace promise, for every table,   *)
(* every file, every factor and every target: the cluster made up is large *)
(* enough but for what is rounded or negative, and what the event loop is  *)
(* given is in order.                                                      *)
(*                                                                         *)
(* Loading says how far the loader is and that, before the sort, event k   *)
(* is that of row k and, after it, the events are those of the rows in the *)
(* order of a stable sort.  Scales adds how far the scaling is and, before *)
(* its sort, which events the list consists of.                            *)
(***************************************************************************)
EXTENDS SweepTraces, Lemmas

FromTable == df \in Tables /\ target \in Targets /\ wanted \in NodeCounts
FromFile == df \in PodFiles /\ wanted = Len(NodeFile)

\* What the jobs of a table ask for, and what the rows of a file do.
JobPods == [k \in DOMAIN df |-> PodOf(df[k])]
RowPods == LoadPodsCsv(df)

\* All events, as listed, and the first of them.
Listed(pods) == [k \in DOMAIN df |-> EventOf(k, pods[k])]
Listing(pods) ==
  /\ events \in Seq({Listed(pods)[k] : k \in DOMAIN df}) /\ Len(events) <= Len(df)
  /\ \A k \in 1 .. Len(events) : events[k] = Listed(pods)[k]
SortedList(pods) ==
  SortsTo(events, Listed(pods), Len(df), [k \in DOMAIN df |-> df[k].submit_time])

Unsized == cpu_per_node = 0 /\ n_nodes = 0 /\ nodes = <<>>
NodeMade == [milli_cpu_capacity : {cpu_per_node * 1000}, milli_gpu_capacity : {GpusPerNode * MILLI},
             gpu_count : {GpusPerNode}, gpu_type : Types]
Sized ==
  /\ n_nodes = IF wanted # 0 THEN wanted ELSE NodesSized
  /\ cpu_per_node = CpuSized(n_nodes)
  /\ nodes \in Seq(NodeMade) /\ Len(nodes) <= n_nodes

Loading ==
  \/ pc = "convert" /\ FromTable /\ Listing(JobPods) /\ Unsized
  \/ pc = "sort" /\ FromTable /\ events = Listed(JobPods) /\ Unsized
  \/ pc = "size" /\ FromTable /\ SortedList(JobPods) /\ Unsized
  \/ pc = "assign" /\ FromTable /\ SortedList(JobPods) /\ Sized
  \/ pc = "read" /\ FromFile /\ Listing(RowPods) /\ cpu_per_node = 0
  \/ pc = "assign" /\ FromFile /\ SortedList(RowPods) /\ cpu_per_node = 0

-----------------------------------------------------------------------------
ScaledEvent == [of : DOMAIN events, copy : Nat \cup {None}, submit_time : Nat]

\* The originals as recorded, then the copies, none before its original.
Copied ==
  LET n == Len(events)
  IN  /\ copies \in Nat /\ out \in Seq(ScaledEvent) /\ Len(out) = n + copies
      /\ \A k \in 1 .. n : out[k] = S!Original(k)
      /\ \A i \in 0 .. copies - 1 : \E t \in Nat :
           out[n + i + 1] = S!Event(S!Source(i), i, t) /\ base[S!Source(i)] <= t

-----------------------------------------------------------------------------
(* The loaders.                                                            *)

\* A table and a file are sequences of rows with a time each.
LEMMA RowsAre ==
  ASSUME FromTable \/ FromFile
  PROVE  /\ Len(df) \in Nat /\ DOMAIN df = 1 .. Len(df)
         /\ \A k \in 1 .. Len(df) : df[k].submit_time \in Nat /\ df[k].pod_id \in PodId
<1>1. CASE FromTable
  <2>1. df \in Seq(Job)
    BY <1>1, GputraceBridgeAssumption DEF FromTable
  <2>2. Len(df) \in Nat /\ DOMAIN df = 1 .. Len(df) /\ \A k \in 1 .. Len(df) : df[k] \in Job
    BY <2>1
  <2>3. \A job \in Job : job.submit_time \in Nat /\ job.pod_id \in PodId
    BY DEF Job
  <2> QED
    BY <2>2, <2>3
<1>2. CASE FromFile
  <2>1. df \in Seq(PodRow)
    BY <1>2, GputraceBridgeAssumption DEF FromFile
  <2>2. Len(df) \in Nat /\ DOMAIN df = 1 .. Len(df) /\ \A k \in 1 .. Len(df) : df[k] \in PodRow
    BY <2>1
  <2>3. \A row \in PodRow : row.submit_time \in Nat /\ row.pod_id \in PodId
    BY DEF PodRow
  <2> QED
    BY <2>2, <2>3
<1> QED
  BY <1>1, <1>2

\* It is true before the first row, of a table and of a file.
LEMMA LoadingInit == Init => Loading
<1>1. ASSUME InitDataframe PROVE Loading
  <2>1. FromTable /\ Unsized /\ pc = "convert" /\ events = <<>>
    BY <1>1 DEF InitDataframe, FromTable, Unsized
  <2>2. Len(df) \in Nat
    BY <2>1, RowsAre
  <2>3. Listing(JobPods)
    BY <2>1, <2>2 DEF Listing
  <2> QED
    BY <2>1, <2>3 DEF Loading
<1>2. ASSUME InitExport PROVE Loading
  <2>1. FromFile /\ cpu_per_node = 0 /\ pc = "read" /\ events = <<>>
    BY <1>2 DEF InitExport, FromFile
  <2>2. Len(df) \in Nat
    BY <2>1, RowsAre
  <2>3. Listing(RowPods)
    BY <2>1, <2>2 DEF Listing
  <2> QED
    BY <2>1, <2>3 DEF Loading
<1> QED
  BY <1>1, <1>2 DEF Init

\* One row more (gputrace_bridge.py:60-71, 92-110).
LEMMA OneRowMore ==
  ASSUME FromTable \/ FromFile, NEW pods, Listing(pods), Len(events) < Len(df),
         UNCHANGED df,
         events' = Append(events, EventOf(Len(events) + 1, pods[Len(events) + 1]))
  PROVE  /\ events' \in Seq({Listed(pods)[k] : k \in DOMAIN df}) /\ Len(events') <= Len(df)
         /\ \A k \in 1 .. Len(events') : events'[k] = Listed(pods)[k]
<1> DEFINE all == {Listed(pods)[k] : k \in DOMAIN df}
           next == EventOf(Len(events) + 1, pods[Len(events) + 1])
<1>1. events \in Seq(all) /\ Len(df) \in Nat /\ DOMAIN df = 1 .. Len(df)
  BY RowsAre DEF Listing
<1>2. next = Listed(pods)[Len(events) + 1] /\ next \in all
  BY <1>1 DEF Listed
<1> HIDE DEF all, next
<1>3. /\ events' \in Seq(all) /\ Len(events') = Len(events) + 1
      /\ events'[Len(events) + 1] = next
      /\ \A k \in 1 .. Len(events) : events'[k] = events[k]
  BY <1>1, <1>2 DEF next
<1>4. Len(events') <= Len(df) /\ \A k \in 1 .. Len(events') : events'[k] = Listed(pods)[k]
  BY <1>1, <1>2, <1>3 DEF Listing
<1> QED
  BY <1>3, <1>4 DEF all

\* The last one.
LEMMA AllListed ==
  ASSUME FromTable \/ FromFile, NEW pods, Listing(pods), Len(events) = Len(df)
  PROVE  events = Listed(pods)
<1>1. DOMAIN df = 1 .. Len(df) /\ Len(df) \in Nat
  BY RowsAre
<1>2. DOMAIN events = 1 .. Len(df) /\ events = [k \in 1 .. Len(df) |-> events[k]]
  BY DEF Listing
<1>3. Listed(pods) = [k \in 1 .. Len(df) |-> Listed(pods)[k]]
  BY <1>1 DEF Listed
<1>4. \A k \in 1 .. Len(df) : events[k] = Listed(pods)[k]
  BY DEF Listing
<1> QED
  BY <1>2, <1>3, <1>4

\* The sort (gputrace_bridge.py:73, 112).
LEMMA ListIsSorted ==
  ASSUME FromTable \/ FromFile, NEW pods, events = Listed(pods)
  PROVE  SortsTo(ByTime, Listed(pods), Len(df), [k \in DOMAIN df |-> df[k].submit_time])
<1> DEFINE times == [k \in DOMAIN df |-> df[k].submit_time]
<1>1. Len(df) \in Nat /\ DOMAIN df = 1 .. Len(df) /\ \A k \in 1 .. Len(df) : times[k] \in Int
  BY RowsAre
<1>2. DOMAIN events = 1 .. Len(df) /\ [k \in DOMAIN events |-> events[k].submit_time] = times
  BY <1>1 DEF Listed, EventOf
<1>3. ByTime = SortedBy(events, times)
  BY <1>2 DEF ByTime
<1> HIDE DEF times
<1>4. SortsTo(SortedBy(events, times), events, Len(df), times)
  BY <1>1, <1>2, SortedByIs
<1> QED
  BY <1>3, <1>4 DEF times

-----------------------------------------------------------------------------
(* The size of the cluster.                                                *)

\* Rounding up.
LEMMA CeilDivIs ==
  ASSUME NEW n \in Int, NEW d \in Nat \ {0}
  PROVE  CeilDiv(n, d) \in Int /\ n <= d * CeilDiv(n, d)
<1>1. PICK m \in Int : m = n + d - 1
  OBVIOUS
<1>2. m \div d \in Int /\ m % d \in 0 .. d - 1 /\ m = d * (m \div d) + (m % d)
  BY Z3
<1>3. \A i \in Int : d * i \in Int
  BY Z3
<1> QED
  BY <1>1, <1>2, <1>3 DEF CeilDiv

\* The demands of a table.
Cpus == Asks(df, "num_cpu")
Gpus == Asks(df, "num_gpu")

\* The two demands summed up are sums over the rows (gputrace_bridge.py:120-121).
LEMMA DemandsAre ==
  ASSUME FromTable
  PROVE  /\ TotalCpu = Total(Cpus, 1 .. Len(df)) /\ TotalGpu = Total(Gpus, 1 .. Len(df))
         /\ TotalCpu \in Nat /\ TotalGpu \in Int /\ Unit \in Nat \ {0}
         /\ DOMAIN df = 1 .. Len(df) /\ IsFiniteSet(1 .. Len(df)) /\ Len(df) \in Nat
         /\ \A k \in 1 .. Len(df) : df[k] \in Job
         /\ target[1] \in Nat \ {0} /\ target[2] \in Nat \ {0} /\ GpusPerNode \in Nat \ {0}
<1>1. /\ df \in Seq(Job) /\ target \in (Nat \ {0}) \X (Nat \ {0})
      /\ GpusPerNode \in Nat \ {0} /\ Unit \in Nat \ {0}
  BY GputraceBridgeAssumption DEF FromTable
<1>2. DOMAIN df = 1 .. Len(df) /\ Len(df) \in Nat /\ \A k \in 1 .. Len(df) : df[k] \in Job
  BY <1>1
<1>3. IsFiniteSet(1 .. Len(df))
  BY <1>2, UpTo, Zenon
<1>4. TotalCpu = Total(Cpus, DOMAIN df) /\ TotalGpu = Total(Gpus, DOMAIN df)
  BY SumOfAsks DEF TotalCpu, TotalGpu, Cpus, Gpus
<1>5. \A k \in 1 .. Len(df) : Cpus[k] \in Nat /\ Gpus[k] \in Int
  <2>1. \A job \in Job : job.num_cpu \in Nat /\ job.num_gpu \in Int
    BY DEF Job
  <2> QED
    BY <1>2, <2>1 DEF Cpus, Gpus, Asks
<1>6. Total(Cpus, 1 .. Len(df)) \in Nat /\ Total(Gpus, 1 .. Len(df)) \in Int
  BY <1>3, <1>5, TotalType
<1> QED
  BY <1>1, <1>2, <1>3, <1>4, <1>6

\* The larger of two numbers.
LEMMA MaxOfTwo ==
  ASSUME NEW a \in Int, NEW b \in Int
  PROVE  Max({a, b}) \in {a, b} /\ a <= Max({a, b}) /\ b <= Max({a, b})
<1>1. IsFiniteSet({a, b})
  <2>1. IsFiniteSet({a}) /\ {a, b} = {a} \cup {b}
    BY FS_Singleton
  <2> QED
    BY <2>1, FS_AddElement
<1> QED
  BY <1>1, MaxIsGreatest

\* The numbers of nodes and of cpus are enough for the demand, when the number
\* of nodes is not given.
LEMMA NodesSuffice ==
  ASSUME FromTable
  PROVE  /\ NodesSized \in Nat \ {0}
         /\ TotalGpu * target[2] <= Unit * target[1] * GpusPerNode * NodesSized
<1> DEFINE d == Unit * target[1] * GpusPerNode
           n == TotalGpu * target[2]
           c == CeilDiv(n, d)
<1>1. /\ TotalGpu \in Int /\ target[1] \in Nat \ {0} /\ target[2] \in Nat \ {0}
      /\ GpusPerNode \in Nat \ {0} /\ Unit \in Nat \ {0}
  BY DemandsAre
<1>2. \A i, j \in Int : i * j \in Int
  BY Z3
<1>3. \A i, j \in Nat \ {0} : i * j \in Nat \ {0}
  BY Z3
<1>4. n \in Int /\ d \in Nat \ {0}
  BY <1>1, <1>2, <1>3
<1>5. NodesSized = Max({1, c})
  BY DEF NodesSized
<1> HIDE DEF n, d
<1>6. c \in Int /\ n <= d * c
  BY <1>4, CeilDivIs
<1>7. NodesSized \in {1, c} /\ 1 <= NodesSized /\ c <= NodesSized
  <2> HIDE DEF c
  <2> QED
    BY <1>5, <1>6, MaxOfTwo
<1> HIDE DEF c
<1>8. d * c <= d * NodesSized
  <2>1. \A i, j \in Int : i <= j => d * i <= d * j
    BY <1>4, Z3T(30)
  <2> QED
    BY <1>6, <1>7, <2>1
<1>9. NodesSized \in Nat \ {0}
  BY <1>6, <1>7
<1>10. n <= d * NodesSized
  <2>1. d * c \in Int /\ d * NodesSized \in Int
    BY <1>2, <1>4, <1>6, <1>9
  <2> QED
    BY <1>4, <1>6, <1>8, <2>1
<1> QED
  BY <1>9, <1>10 DEF n, d

\* Cpu rounded up per node, and never under 4 cores, holds the cpu asked for.
LEMMA CpusSuffice ==
  ASSUME FromTable, NEW count \in Nat \ {0}
  PROVE  /\ CpuSized(count) \in Nat /\ CpuSized(count) >= 4
         /\ TotalCpu * target[2] <= Unit * target[1] * count * CpuSized(count)
<1> DEFINE d == Unit * target[1] * count
           n == TotalCpu * target[2]
           c == CeilDiv(n, d)
<1>1. TotalCpu \in Nat /\ Unit \in Nat \ {0} /\ target[1] \in Nat \ {0} /\ target[2] \in Nat \ {0}
  BY DemandsAre
<1>2. \A i, j \in Int : i * j \in Int
  BY Z3
<1>3. \A i, j \in Nat \ {0} : i * j \in Nat \ {0}
  BY Z3
<1>4. n \in Int /\ d \in Nat \ {0}
  BY <1>1, <1>2, <1>3
<1>5. CpuSized(count) = Max({4, c})
  BY DEF CpuSized
<1> HIDE DEF n, d
<1>6. c \in Int /\ n <= d * c
  BY <1>4, CeilDivIs
<1>7. CpuSized(count) \in {4, c} /\ 4 <= CpuSized(count) /\ c <= CpuSized(count)
  <2> HIDE DEF c
  <2>1. 4 \in Int /\ c \in Int
    BY <1>6
  <2>2. Max({4, c}) \in {4, c} /\ 4 <= Max({4, c}) /\ c <= Max({4, c})
    BY <2>1, MaxOfTwo, Zenon
  <2> QED
    BY <1>5, <2>2
<1> HIDE DEF c
<1>8. CpuSized(count) \in Nat
  BY <1>6, <1>7
<1>9. d * c <= d * CpuSized(count)
  <2>1. \A i, j \in Int : i <= j => d * i <= d * j
    BY <1>4, Z3T(30)
  <2> QED
    BY <1>6, <1>7, <1>8, <2>1
<1>10. n <= d * CpuSized(count)
  <2>1. d * c \in Int /\ d * CpuSized(count) \in Int
    BY <1>2, <1>4, <1>6, <1>8
  <2> QED
    BY <1>4, <1>6, <1>9, <2>1
<1> QED
  BY <1>7, <1>8, <1>10 DEF n, d

\* The sizes only depend on the arguments.
LEMMA SizesStay ==
  ASSUME df' = df, target' = target
  PROVE  NodesSized' = NodesSized /\ CpuSized(n_nodes)' = CpuSized(n_nodes')
<1>1. TotalGpu' = TotalGpu /\ TotalCpu' = TotalCpu
  BY DEF TotalGpu, TotalCpu, MapThenSumSet, MapThenFoldSet
<1> QED
  BY <1>1 DEF NodesSized, CpuSized

\* There is a number of nodes.
LEMMA CountIs ==
  ASSUME FromTable
  PROVE  (IF wanted # 0 THEN wanted ELSE NodesSized) \in Nat
BY NodesSuffice, GputraceBridgeAssumption DEF FromTable

\* One node more (gputrace_bridge.py:126-137).
LEMMA OneNodeMore ==
  ASSUME FromTable, Sized, AssignType
  PROVE  Sized'
<1>1. PICK type \in Types :
        nodes' = Append(nodes, [milli_cpu_capacity |-> cpu_per_node * 1000,
                                milli_gpu_capacity |-> GpusPerNode * MILLI,
                                gpu_count |-> GpusPerNode, gpu_type |-> type])
  BY DEF AssignType
<1>2. UNCHANGED <<df, target, wanted, n_nodes, cpu_per_node>> /\ Len(nodes) < n_nodes
  BY DEF AssignType, arguments
<1>3. NodeMade' = NodeMade
  BY <1>2 DEF NodeMade, Types
<1>4. n_nodes \in Nat
  BY CountIs DEF Sized
<1>5. nodes \in Seq(NodeMade)
  BY DEF Sized
<1>6. nodes' \in Seq(NodeMade) /\ Len(nodes') = Len(nodes) + 1
  <2>1. [milli_cpu_capacity |-> cpu_per_node * 1000, milli_gpu_capacity |-> GpusPerNode * MILLI,
         gpu_count |-> GpusPerNode, gpu_type |-> type] \in NodeMade
    BY DEF NodeMade
  <2> QED
    BY <1>1, <1>5, <2>1
<1>7. NodesSized' = NodesSized /\ CpuSized(n_nodes)' = CpuSized(n_nodes)
  BY <1>2, SizesStay
<1>8. Len(nodes') <= n_nodes
  BY <1>2, <1>4, <1>5, <1>6
<1> QED
  BY <1>2, <1>3, <1>6, <1>7, <1>8 DEF Sized

\* A step of the loader.
LEMMA LoadingNext ==
  ASSUME Loading, Next
  PROVE  Loading'
<1>1. /\ pc = "convert" => FromTable /\ Listing(JobPods) /\ Unsized
      /\ pc = "sort" => FromTable /\ events = Listed(JobPods) /\ Unsized
      /\ pc = "size" => FromTable /\ SortedList(JobPods) /\ Unsized
      /\ pc = "read" => FromFile /\ Listing(RowPods) /\ cpu_per_node = 0
  BY DEF Loading
<1>2. arguments' = arguments => /\ FromTable' = FromTable /\ FromFile' = FromFile
                                /\ JobPods' = JobPods /\ RowPods' = RowPods
                                /\ Listed(JobPods)' = Listed(JobPods)
                                /\ Listed(RowPods)' = Listed(RowPods)
  BY DEF arguments, FromTable, FromFile, JobPods, RowPods, Listed, EventOf
<1>3. CASE Convert
  <2>1. /\ FromTable /\ Listing(JobPods) /\ Unsized /\ Len(events) < Len(df) /\ df' = df
        /\ FromTable' = FromTable /\ pc' = "convert" /\ Unsized'
        /\ events' = Append(events, EventOf(Len(events) + 1, PodOf(df[Len(events) + 1])))
    BY <1>1, <1>2, <1>3 DEF Convert, arguments, Unsized
  <2>2. PodOf(df[Len(events) + 1]) = JobPods[Len(events) + 1]
    <3>1. DOMAIN df = 1 .. Len(df) /\ Len(df) \in Nat /\ Len(events) \in Nat
      BY <2>1, RowsAre DEF Listing
    <3>2. Len(events) + 1 \in DOMAIN df
      BY <2>1, <3>1
    <3> QED
      BY <3>2 DEF JobPods
  <2>3. Listing(JobPods)'
    <3>1. /\ events' \in Seq({Listed(JobPods)[k] : k \in DOMAIN df}) /\ Len(events') <= Len(df)
          /\ \A k \in 1 .. Len(events') : events'[k] = Listed(JobPods)[k]
      BY <2>1, <2>2, OneRowMore
    <3>2. arguments' = arguments
      BY <1>3 DEF Convert
    <3> QED
      BY <1>2, <2>1, <3>1, <3>2 DEF Listing
  <2> QED
    BY <2>1, <2>3 DEF Loading
<1>4. CASE ConvertEnd
  <2>1. /\ FromTable /\ Listing(JobPods) /\ Unsized /\ Len(events) = Len(df)
        /\ FromTable' = FromTable /\ pc' = "sort" /\ Unsized' /\ events' = events
    BY <1>1, <1>2, <1>4 DEF ConvertEnd, Unsized
  <2>2. events = Listed(JobPods)
    BY <2>1, AllListed
  <2>3. (events = Listed(JobPods))'
    BY <1>2, <1>4, <2>1, <2>2 DEF ConvertEnd
  <2> QED
    BY <2>1, <2>3 DEF Loading
<1>5. CASE SortEvents
  <2>1. /\ FromTable /\ events = Listed(JobPods) /\ Unsized /\ df' = df
        /\ FromTable' = FromTable /\ pc' = "size" /\ Unsized' /\ events' = ByTime
    BY <1>1, <1>2, <1>5 DEF SortEvents, Unsized, arguments
  <2>2. SortedList(JobPods)'
    BY <1>2, <1>5, <2>1, ListIsSorted DEF SortedList, SortEvents
  <2> QED
    BY <2>1, <2>2 DEF Loading
<1>6. CASE SizeCluster
  <2>1. /\ FromTable /\ SortedList(JobPods) /\ nodes = <<>> /\ arguments' = arguments
        /\ FromTable' = FromTable /\ pc' = "assign" /\ events' = events /\ nodes' = nodes
        /\ n_nodes' = IF wanted # 0 THEN wanted ELSE NodesSized
        /\ cpu_per_node' = CpuSized(n_nodes')
    BY <1>1, <1>2, <1>6 DEF SizeCluster, Unsized
  <2>2. SortedList(JobPods)'
    BY <1>2, <2>1 DEF SortedList, arguments
  <2>3. n_nodes' \in Nat
    BY <2>1, CountIs
  <2>4. Sized'
    <3>1. NodesSized' = NodesSized /\ CpuSized(n_nodes)' = CpuSized(n_nodes')
      BY <2>1, SizesStay DEF arguments
    <3>2. nodes' \in Seq(NodeMade') /\ Len(nodes') <= n_nodes'
      BY <2>1, <2>3
    <3> QED
      BY <2>1, <3>1, <3>2 DEF Sized, arguments
  <2> QED
    BY <2>1, <2>2, <2>4 DEF Loading
<1>7. CASE AssignType
  <2>1. /\ arguments' = arguments /\ events' = events /\ cpu_per_node' = cpu_per_node
        /\ n_nodes' = n_nodes /\ pc' = pc /\ pc = "assign"
    BY <1>7 DEF AssignType
  <2>2. CASE FromTable /\ SortedList(JobPods) /\ Sized
    <3>1. SortedList(JobPods)'
      BY <1>2, <2>1, <2>2 DEF SortedList, arguments
    <3>2. Sized'
      BY <1>7, <2>2, OneNodeMore
    <3> QED
      BY <1>2, <2>1, <2>2, <3>1, <3>2 DEF Loading
  <2>3. CASE FromFile /\ SortedList(RowPods) /\ cpu_per_node = 0
    <3>1. SortedList(RowPods)'
      BY <1>2, <2>1, <2>3 DEF SortedList, arguments
    <3> QED
      BY <1>2, <2>1, <2>3, <3>1 DEF Loading
  <2> QED
    BY <2>1, <2>2, <2>3 DEF Loading
<1>8. CASE ReadRow
  <2>1. /\ FromFile /\ Listing(RowPods) /\ cpu_per_node = 0 /\ Len(events) < Len(df) /\ df' = df
        /\ FromFile' = FromFile /\ pc' = "read" /\ cpu_per_node' = 0
        /\ events' = Append(events, EventOf(Len(events) + 1, RowPods[Len(events) + 1]))
    BY <1>1, <1>2, <1>8 DEF ReadRow, arguments, RowPods
  <2>2. Listing(RowPods)'
    <3>1. /\ events' \in Seq({Listed(RowPods)[k] : k \in DOMAIN df}) /\ Len(events') <= Len(df)
          /\ \A k \in 1 .. Len(events') : events'[k] = Listed(RowPods)[k]
      BY <2>1, OneRowMore
    <3>2. arguments' = arguments
      BY <1>8 DEF ReadRow
    <3> QED
      BY <1>2, <2>1, <3>1, <3>2 DEF Listing
  <2> QED
    BY <2>1, <2>2 DEF Loading
<1>9. CASE ReadEnd
  <2>1. /\ FromFile /\ Listing(RowPods) /\ cpu_per_node = 0 /\ Len(events) = Len(df) /\ df' = df
        /\ FromFile' = FromFile /\ pc' = "assign" /\ cpu_per_node' = 0 /\ events' = ByTime
    BY <1>1, <1>2, <1>9 DEF ReadEnd, arguments
  <2>2. events = Listed(RowPods)
    BY <2>1, AllListed
  <2>3. SortedList(RowPods)'
    BY <1>2, <1>9, <2>1, <2>2, ListIsSorted DEF SortedList, ReadEnd
  <2> QED
    BY <2>1, <2>3 DEF Loading
<1> QED
  BY <1>3, <1>4, <1>5, <1>6, <1>7, <1>8, <1>9 DEF Next
-----------------------------------------------------------------------------
(* The cluster is large enough.                                            *)

\* For each resource, the column of a table it comes from, and its units in a whole.
DemandFor == [milli_cpu |-> "num_cpu", milli_gpu |-> "num_gpu", gpu_number |-> "num_gpu"]
UnitsFor == [milli_cpu |-> MILLI, milli_gpu |-> MILLI, gpu_number |-> 1]

\* Rounding adds at most a half, and nothing to what is whole.
LEMMA Rounds ==
  ASSUME Unit \in Nat \ {0}, NEW n \in Nat
  PROVE  /\ Round(n, Unit) \in Nat /\ HalfIfRounded(n) \in Nat
         /\ 2 * Unit * Round(n, Unit) <= 2 * n + HalfIfRounded(n)
<1>1. PICK q \in Nat, r \in 0 .. Unit - 1 : q = n \div Unit /\ r = n % Unit /\ n = Unit * q + r
  BY Division
<1>2. Round(n, Unit) = IF 2 * r > Unit \/ (2 * r = Unit /\ q % 2 = 1) THEN q + 1 ELSE q
  BY <1>1 DEF Round
<1>3. HalfIfRounded(n) = IF r = 0 THEN 0 ELSE Unit
  BY <1>1 DEF HalfIfRounded
<1>4. PICK p \in Nat : p = Unit * q
  <2>1. \A i, j \in Nat : i * j \in Nat
    BY Z3
  <2> QED
    BY <2>1
<1>5. 2 * Unit * q = 2 * p /\ 2 * Unit * (q + 1) = 2 * p + 2 * Unit
  <2>1. \A i, j \in Nat : 2 * i * j = 2 * (i * j) /\ 2 * i * (j + 1) = 2 * (i * j) + 2 * i
    BY Z3
  <2> QED
    BY <1>4, <2>1
<1>6. CASE Round(n, Unit) = q + 1
  <2>1. 2 * r >= Unit /\ r # 0
    BY <1>2, <1>6
  <2> QED
    BY <1>1, <1>3, <1>4, <1>5, <1>6, <2>1
<1>7. CASE Round(n, Unit) = q
  BY <1>1, <1>3, <1>4, <1>5, <1>7
<1> QED
  BY <1>2, <1>6, <1>7

\* A pod asks for no more than its job, but for the excess.
LEMMA JobPodIs ==
  ASSUME Unit \in Nat \ {0}, NEW job \in Job, NEW r \in DOMAIN CapacityFor
  PROVE  /\ PodOf(job)[r] \in Nat /\ Excess(job)[r] \in Nat /\ job[DemandFor[r]] \in Int
         /\ 2 * Unit * PodOf(job)[r] <= (2 * UnitsFor[r]) * job[DemandFor[r]] + Excess(job)[r]
<1>1. job.num_cpu \in Nat /\ job.num_gpu \in Int /\ job.gpu_milli \in (0 .. MILLI) \cup {EMPTY}
  BY DEF Job
<1>2. PICK m \in 0 .. 1000 : m = GpuMilliPerDevice(job)
  BY <1>1 DEF GpuMilliPerDevice, MILLI
<1>3. PICK g \in Nat : g = NumGpu(job) /\ g >= job.num_gpu
  <2>1. job.num_gpu \in Int /\ 0 \in Int
    BY <1>1
  <2>2. /\ NumGpu(job) \in {job.num_gpu, 0}
        /\ job.num_gpu <= NumGpu(job) /\ 0 <= NumGpu(job)
    BY <2>1, MaxOfTwo, Zenon DEF NumGpu
  <2> QED
    BY <2>1, <2>2
<1>4. PICK w \in Nat : w = g * m /\ w <= 1000 * g
  <2>1. \A i, j \in Nat : i * j \in Nat /\ (j <= 1000 => i * j <= 1000 * i)
    BY Z3T(30)
  <2> QED
    BY <2>1
<1>5. PICK c \in Nat : c = job.num_cpu * 1000
  BY <1>1
<1>6. /\ PodOf(job).milli_cpu = Round(c, Unit) /\ PodOf(job).milli_gpu = Round(w, Unit)
      /\ PodOf(job).gpu_number = Round(g, Unit)
  BY <1>2, <1>3, <1>4, <1>5 DEF PodOf
<1>7. /\ Excess(job).milli_cpu = HalfIfRounded(c)
      /\ Excess(job).milli_gpu = HalfIfRounded(w) + 2 * 1000 * (g - job.num_gpu)
      /\ Excess(job).gpu_number = HalfIfRounded(g) + 2 * (g - job.num_gpu)
  BY <1>2, <1>3, <1>4, <1>5 DEF Excess, MILLI
<1>8. CASE r = "milli_cpu"
  <2>1. /\ Round(c, Unit) \in Nat /\ HalfIfRounded(c) \in Nat
        /\ 2 * Unit * Round(c, Unit) <= 2 * c + HalfIfRounded(c)
    BY Rounds
  <2>2. 2 * UnitsFor[r] = 2000 /\ DemandFor[r] = "num_cpu"
    BY <1>8 DEF UnitsFor, DemandFor, MILLI
  <2> QED
    BY <1>1, <1>5, <1>6, <1>7, <1>8, <2>1, <2>2
<1>9. CASE r = "milli_gpu"
  <2>1. /\ Round(w, Unit) \in Nat /\ HalfIfRounded(w) \in Nat
        /\ 2 * Unit * Round(w, Unit) <= 2 * w + HalfIfRounded(w)
    BY Rounds
  <2>2. 2 * UnitsFor[r] = 2000 /\ DemandFor[r] = "num_gpu"
    BY <1>9 DEF UnitsFor, DemandFor, MILLI
  <2>3. PICK p \in Int : p = 2 * Unit * Round(w, Unit) /\ p <= 2 * w + HalfIfRounded(w)
    <3>1. \A i, j \in Nat : 2 * i * j \in Int
      BY Z3
    <3> QED
      BY <2>1, <3>1
  <2>4. p <= 2000 * job.num_gpu + (HalfIfRounded(w) + 2 * 1000 * (g - job.num_gpu))
    BY <1>1, <1>4, <2>1, <2>3
  <2>5. HalfIfRounded(w) + 2 * 1000 * (g - job.num_gpu) \in Nat
    BY <1>1, <1>3, <2>1
  <2> QED
    BY <1>1, <1>6, <1>7, <1>9, <2>1, <2>2, <2>3, <2>4, <2>5
<1>10. CASE r = "gpu_number"
  <2>1. /\ Round(g, Unit) \in Nat /\ HalfIfRounded(g) \in Nat
        /\ 2 * Unit * Round(g, Unit) <= 2 * g + HalfIfRounded(g)
    BY Rounds
  <2>2. 2 * UnitsFor[r] = 2 /\ DemandFor[r] = "num_gpu"
    BY <1>10 DEF UnitsFor, DemandFor
  <2>3. PICK p \in Int : p = 2 * Unit * Round(g, Unit) /\ p <= 2 * g + HalfIfRounded(g)
    <3>1. \A i, j \in Nat : 2 * i * j \in Int
      BY Z3
    <3> QED
      BY <2>1, <3>1
  <2>4. p <= 2 * job.num_gpu + (HalfIfRounded(g) + 2 * (g - job.num_gpu))
    BY <1>1, <2>1, <2>3
  <2>5. HalfIfRounded(g) + 2 * (g - job.num_gpu) \in Nat
    BY <1>1, <1>3, <2>1
  <2> QED
    BY <1>1, <1>6, <1>7, <1>10, <2>1, <2>2, <2>3, <2>4, <2>5
<1> QED
  BY <1>8, <1>9, <1>10 DEF CapacityFor

\* Terms that keep an inequality, summed up.
LEMMA TermsSum ==
  ASSUME NEW K, IsFiniteSet(K), NEW u \in Int, NEW c \in Int, NEW p, NEW q, NEW e,
         \A x \in K : p[x] \in Int /\ q[x] \in Int /\ e[x] \in Int /\ u * p[x] <= c * q[x] + e[x]
  PROVE  /\ Total(p, K) \in Int /\ Total(q, K) \in Int /\ Total(e, K) \in Int
         /\ u * Total(p, K) <= c * Total(q, K) + Total(e, K)
<1> DEFINE up == [x \in K |-> u * p[x]]
           cq == [x \in K |-> c * q[x]]
           sum == [x \in K |-> cq[x] + e[x]]
<1>1. \A i, j \in Int : i * j \in Int
  BY Z3
<1>2. \A x \in K : up[x] \in Int /\ up[x] = u * p[x] /\ cq[x] \in Int /\ cq[x] = c * q[x]
  BY <1>1
<1>3. \A x \in K : sum[x] = cq[x] + e[x] /\ sum[x] \in Int /\ up[x] <= sum[x]
  BY <1>2
<1> HIDE DEF up, cq, sum
<1>4. Total(up, K) = u * Total(p, K) /\ Total(cq, K) = c * Total(q, K)
  BY <1>2, TotalTimes
<1>5. Total(sum, K) = Total(cq, K) + Total(e, K)
  BY <1>2, <1>3, TotalPlus
<1>6. Total(up, K) <= Total(sum, K)
  BY <1>2, <1>3, TotalAtMost
<1>7. Total(p, K) \in Int /\ Total(q, K) \in Int /\ Total(e, K) \in Int
  BY TotalType
<1> QED
  BY <1>4, <1>5, <1>6, <1>7

\* What the pods of the events are, and what they may ask for more than the jobs.
Asked == [k \in DOMAIN events |-> events[k].pod]
Exceeding == [k \in DOMAIN df |-> Excess(df[k])]

\* The pods of all events together ask for no more than the jobs, but for the excess.
LEMMA DemandOfEvents ==
  ASSUME FromTable, SortedList(JobPods), NEW r \in DOMAIN CapacityFor
  PROVE  /\ Sum(Asked, r) \in Int /\ Sum(Exceeding, r) \in Int
         /\ (2 * Unit) * Sum(Asked, r)
              <= (2 * UnitsFor[r]) * Total(Asks(df, DemandFor[r]), 1 .. Len(df)) + Sum(Exceeding, r)
<1> DEFINE n == Len(df)
           D == 1 .. n
           times == [k \in DOMAIN df |-> df[k].submit_time]
           listed == [k \in D |-> JobPods[k]]
           pod == Asks(listed, r)
           demand == Asks(df, DemandFor[r])
           excess == Asks(Exceeding, r)
<1>1. /\ n \in Nat /\ DOMAIN df = D /\ IsFiniteSet(D) /\ \A k \in D : df[k] \in Job
      /\ Unit \in Nat \ {0}
  BY DemandsAre
<1>2. PICK place : Sorts(place, n, times) /\ events = [k \in D |-> Listed(JobPods)[place[k]]]
  BY <1>1 DEF SortedList, SortsTo
<1>3. \A k \in D : times[k] \in Int
  BY <1>1, RowsAre
<1>4. \A k \in D : place[k] \in D
  BY <1>2 DEF Sorts
<1>5. DOMAIN Asked = D /\ \A k \in D : Asked[k] = listed[place[k]]
  BY <1>1, <1>2, <1>4 DEF Asked, Listed, EventOf
<1>6. \A k \in D : /\ pod[k] = PodOf(df[k])[r] /\ demand[k] = df[k][DemandFor[r]]
                    /\ excess[k] = Excess(df[k])[r]
  BY <1>1 DEF JobPods, Exceeding, Asks
<1>7. \A k \in D : Asks(Asked, r)[k] = pod[place[k]]
  BY <1>4, <1>5 DEF Asks
<1>8. Sum(Asked, r) = Total(Asks(Asked, r), D) /\ Sum(Exceeding, r) = Total(excess, D)
  <2>1. DOMAIN Exceeding = D
    BY <1>1 DEF Exceeding
  <2> QED
    BY <1>5, <2>1, SumOfAsks DEF Sum
<1> HIDE DEF pod, demand, excess, listed, times
<1>9. PICK u \in Int, c \in Int : u = 2 * Unit /\ c = 2 * UnitsFor[r]
  BY <1>1 DEF UnitsFor, MILLI, CapacityFor
<1>10. \A k \in D : /\ pod[k] \in Int /\ demand[k] \in Int /\ excess[k] \in Int
                     /\ u * pod[k] <= c * demand[k] + excess[k]
  <2>1. TAKE k \in D
  <2>2. df[k] \in Job
    BY <1>1
  <2> QED
    BY <1>1, <1>6, <1>9, <2>2, JobPodIs
<1>11. Total(Asks(Asked, r), D) = Total(pod, D)
  <2> HIDE DEF n
  <2>1. \A k \in D : pod[k] \in Int
    BY <1>10
  <2> QED
    BY <1>1, <1>2, <1>3, <1>7, <2>1, TotalSorted
<1> HIDE DEF D
<1>12. /\ Total(pod, D) \in Int /\ Total(demand, D) \in Int /\ Total(excess, D) \in Int
       /\ u * Total(pod, D) <= c * Total(demand, D) + Total(excess, D)
  BY <1>1, <1>10, TermsSum
<1> QED
  BY <1>8, <1>9, <1>11, <1>12 DEF demand, D

\* The units of a resource that a node has.
PerNode(r) == IF r = "milli_cpu" THEN cpu_per_node ELSE GpusPerNode

\* A cluster that is complete.
LEMMA NodesAdd ==
  ASSUME Sized, n_nodes \in Nat, Len(nodes) = n_nodes, cpu_per_node \in Nat, GpusPerNode \in Nat,
         NEW r \in DOMAIN CapacityFor
  PROVE  Sum(nodes, CapacityFor[r]) = (UnitsFor[r] * PerNode(r)) * n_nodes
<1> DEFINE D == 1 .. n_nodes
           column == CapacityFor[r]
           have == Asks(nodes, column)
<1>1. DOMAIN nodes = D /\ \A n \in D : nodes[n] \in NodeMade
  BY DEF Sized
<1>2. PICK c \in Int : c = UnitsFor[r] * PerNode(r)
  BY DEF UnitsFor, PerNode, MILLI, CapacityFor
<1>3. \A node \in NodeMade : node[column] = c
  <2>1. TAKE node \in NodeMade
  <2>2. /\ node.milli_cpu_capacity = cpu_per_node * 1000 /\ node.gpu_count = GpusPerNode
        /\ node.milli_gpu_capacity = GpusPerNode * 1000
    BY DEF NodeMade, MILLI
  <2>3. CASE r = "milli_cpu"
    <3>1. column = "milli_cpu_capacity" /\ c = 1000 * cpu_per_node
      BY <1>2, <2>3 DEF CapacityFor, UnitsFor, PerNode, MILLI
    <3> QED
      BY <2>2, <3>1
  <2>4. CASE r = "milli_gpu"
    <3>1. column = "milli_gpu_capacity" /\ c = 1000 * GpusPerNode
      BY <1>2, <2>4 DEF CapacityFor, UnitsFor, PerNode, MILLI
    <3> QED
      BY <2>2, <3>1
  <2>5. CASE r = "gpu_number"
    <3>1. column = "gpu_count" /\ c = GpusPerNode
      BY <1>2, <2>5 DEF CapacityFor, UnitsFor, PerNode
    <3> QED
      BY <2>2, <3>1
  <2> QED
    BY <2>3, <2>4, <2>5 DEF CapacityFor
<1> HIDE DEF column
<1>4. \A n \in D : have[n] = c
  BY <1>1, <1>3 DEF Asks
<1>5. IsFiniteSet(D) /\ Cardinality(D) = n_nodes
  BY UpTo, Zenon
<1> HIDE DEF D
<1>6. Sum(nodes, column) = Total(have, D)
  BY <1>1, SumOfAsks DEF Sum
<1> HIDE DEF have
<1>7. Total(have, D) = c * n_nodes
  BY <1>4, <1>5, TotalOfConstant
<1> QED
  BY <1>2, <1>6, <1>7 DEF column

\* What is asked, but for the excess, against what there is: demand t of which u make
\* a whole, at the target s / b of x wholes, each of f units.
LEMMA DemandBelow ==
  ASSUME NEW asked \in Int, NEW excess \in Int, NEW t \in Int, NEW f \in Nat, NEW b \in Nat,
         NEW s \in Nat, NEW u \in Nat, NEW x \in Nat,
         (2 * u) * asked <= (2 * f) * t + excess, t * b <= u * s * x
  PROVE  (2 * u * asked - excess) * b <= 2 * u * (f * x) * s
<1>1. \A i, j \in Int : i * j \in Int
  BY Z3
<1>2. PICK a \in Int, h \in Int : a = (2 * u) * asked /\ h = (2 * f) * t
  <2>1. 2 * u \in Int /\ 2 * f \in Int
    OBVIOUS
  <2>2. (2 * u) * asked \in Int /\ (2 * f) * t \in Int
    BY <1>1, <2>1
  <2> QED
    BY <2>2
<1>3. PICK d \in Int : d = a - excess /\ d = 2 * u * asked - excess
  <2>1. a - excess \in Int
    OBVIOUS
  <2>2. 2 * u * asked = a
    BY <1>2
  <2> QED
    BY <2>1, <2>2
<1>4. d <= (2 * f) * t /\ (2 * f) * t \in Int
  BY <1>2, <1>3
<1>5. d * b <= ((2 * f) * t) * b
  <2>1. \A i, j \in Int : i <= j => i * b <= j * b
    BY Z3T(30)
  <2> QED
    BY <1>3, <1>4, <2>1
<1>6. ((2 * f) * t) * b = (2 * f) * (t * b)
  BY Z3
<1>7. (2 * f) * (t * b) <= (2 * f) * (u * s * x)
  <2>1. \A k \in Nat : \A i, j \in Int : i <= j => k * i <= k * j
    BY Z3T(30)
  <2>2. t * b \in Int /\ u * s * x \in Int /\ 2 * f \in Nat
    BY <1>1
  <2> QED
    BY <2>1, <2>2
<1>8. (2 * f) * (u * s * x) = 2 * u * (f * x) * s
  BY Z3
<1>9. d * b \in Int /\ ((2 * f) * t) * b \in Int /\ (2 * f) * (u * s * x) \in Int
  BY <1>1, <1>3, <1>4
<1> QED
  BY <1>3, <1>5, <1>6, <1>7, <1>8, <1>9

\* So the cluster sized from the sums holds the demand, but for the excess.
LEMMA LoadingSuffices ==
  ASSUME Loading
  PROVE  SizedToTarget
<1>1. SUFFICES ASSUME Loaded, wanted = 0, cpu_per_node > 0, NEW r \in DOMAIN CapacityFor
               PROVE  (2 * Unit * Sum(Asked, r) - Sum(Exceeding, r)) * target[2]
                        <= 2 * Unit * Sum(nodes, CapacityFor[r]) * target[1]
  BY DEF SizedToTarget, Asked, Exceeding
<1>2. FromTable /\ SortedList(JobPods) /\ Sized
  BY <1>1 DEF Loading, Loaded
<1>3. /\ n_nodes = NodesSized /\ cpu_per_node = CpuSized(n_nodes) /\ Len(nodes) = n_nodes
  BY <1>1, <1>2 DEF Sized, Loaded
<1>4. /\ TotalCpu \in Nat /\ TotalGpu \in Int /\ target[1] \in Nat /\ target[2] \in Nat
      /\ GpusPerNode \in Nat /\ n_nodes \in Nat \ {0} /\ Unit \in Nat
      /\ TotalCpu = Total(Asks(df, "num_cpu"), 1 .. Len(df))
      /\ TotalGpu = Total(Asks(df, "num_gpu"), 1 .. Len(df))
  BY <1>2, <1>3, DemandsAre, NodesSuffice DEF Cpus, Gpus
<1>5. /\ TotalGpu * target[2] <= Unit * target[1] * GpusPerNode * n_nodes
      /\ cpu_per_node \in Nat
      /\ TotalCpu * target[2] <= Unit * target[1] * n_nodes * cpu_per_node
  BY <1>2, <1>3, <1>4, NodesSuffice, CpusSuffice
<1>6. /\ Total(Asks(df, DemandFor[r]), 1 .. Len(df)) \in Int /\ UnitsFor[r] \in Nat
      /\ PerNode(r) * n_nodes \in Nat
      /\ Total(Asks(df, DemandFor[r]), 1 .. Len(df)) * target[2]
           <= Unit * target[1] * (PerNode(r) * n_nodes)
  <2>1. \A i, j, k, l \in Nat : /\ k * l \in Nat /\ i * j * (k * l) = i * j * k * l
                                /\ i * j * (k * l) = i * j * l * k
    BY Z3
  <2>2. CASE r = "milli_cpu"
    <3>1. DemandFor[r] = "num_cpu" /\ UnitsFor[r] \in Nat /\ PerNode(r) = cpu_per_node
      BY <2>2 DEF DemandFor, UnitsFor, PerNode, MILLI
    <3>2. /\ cpu_per_node * n_nodes \in Nat
          /\ Unit * target[1] * (cpu_per_node * n_nodes) = Unit * target[1] * n_nodes * cpu_per_node
      BY <1>4, <1>5, <2>1
    <3> QED
      BY <1>4, <1>5, <3>1, <3>2
  <2>3. CASE r # "milli_cpu"
    <3>1. DemandFor[r] = "num_gpu" /\ UnitsFor[r] \in Nat /\ PerNode(r) = GpusPerNode
      BY <2>3 DEF DemandFor, UnitsFor, PerNode, MILLI, CapacityFor
    <3>2. /\ GpusPerNode * n_nodes \in Nat
          /\ Unit * target[1] * (GpusPerNode * n_nodes) = Unit * target[1] * GpusPerNode * n_nodes
      BY <1>4, <2>1
    <3> QED
      BY <1>4, <1>5, <3>1, <3>2
  <2> QED
    BY <2>2, <2>3
<1>7. PICK t \in Int, f \in Nat, x \in Nat :
        /\ t = Total(Asks(df, DemandFor[r]), 1 .. Len(df)) /\ f = UnitsFor[r]
        /\ x = PerNode(r) * n_nodes /\ t * target[2] <= Unit * target[1] * x
  BY <1>6
<1>8. /\ Sum(Asked, r) \in Int /\ Sum(Exceeding, r) \in Int
      /\ (2 * Unit) * Sum(Asked, r) <= (2 * f) * t + Sum(Exceeding, r)
  BY <1>2, <1>7, DemandOfEvents
<1>9. Sum(nodes, CapacityFor[r]) = f * x
  <2>1. Sum(nodes, CapacityFor[r]) = (UnitsFor[r] * PerNode(r)) * n_nodes
    BY <1>2, <1>3, <1>4, <1>5, NodesAdd
  <2>2. PerNode(r) \in Nat
    BY <1>4, <1>5 DEF PerNode
  <2>3. \A i, j, k \in Nat : (i * j) * k = i * (j * k)
    BY Z3
  <2> QED
    BY <1>4, <1>7, <2>1, <2>2, <2>3
<1> HIDE DEF Asked, Exceeding
<1>10. (2 * Unit * Sum(Asked, r) - Sum(Exceeding, r)) * target[2] <= 2 * Unit * (f * x) * target[1]
  <2>1. ASSUME NEW asked \in Int, NEW excess \in Int, (2 * Unit) * asked <= (2 * f) * t + excess
        PROVE  (2 * Unit * asked - excess) * target[2] <= 2 * Unit * (f * x) * target[1]
    BY <1>4, <1>7, <2>1, DemandBelow
  <2> QED
    BY <1>8, <2>1
<1> QED
  BY <1>9, <1>10

-----------------------------------------------------------------------------
(* The order of the events.                                                *)

\* The events a loader returns are in the order of a stable sort.
InTurn ==
  /\ Len(events) \in Nat /\ DOMAIN events = 1 .. Len(events)
  /\ Len(events) = 0 => events = <<>>
  /\ \A k \in 1 .. Len(events) : base[k] \in Nat /\ events[k].pod_id \in PodId
  /\ \A k, l \in 1 .. Len(events) : k < l =>
       base[k] < base[l] \/ (base[k] = base[l] /\ events[k].job < events[l].job)

\* A stable sort of the rows keeps the order of the table at equal times.
LEMMA SortedInTurn ==
  ASSUME FromTable \/ FromFile, NEW pods, SortedList(pods)
  PROVE  InTurn
<1> DEFINE n == Len(df)
           times == [k \in DOMAIN df |-> df[k].submit_time]
<1>1. /\ n \in Nat /\ DOMAIN df = 1 .. n
      /\ \A k \in 1 .. n : times[k] \in Nat /\ df[k].pod_id \in PodId
  BY RowsAre
<1>2. PICK place : Sorts(place, n, times) /\ events = [k \in 1 .. n |-> Listed(pods)[place[k]]]
  BY DEF SortedList, SortsTo
<1>3. \A k \in 1 .. n : place[k] \in 1 .. n
  BY <1>2 DEF Sorts
<1>4. \A k \in 1 .. n : /\ Listed(pods)[k].submit_time = times[k]
                        /\ Listed(pods)[k].job = k
                        /\ Listed(pods)[k].pod_id = df[k].pod_id
  BY <1>1 DEF Listed, EventOf
<1> HIDE DEF times, n
<1>5. DOMAIN events = 1 .. n /\ Len(events) = n /\ (n = 0 => events = <<>>)
  <2>1. n = 0 => 1 .. n = {}
    OBVIOUS
  <2>2. DOMAIN events = 1 .. n /\ Len(events) = n
    BY <1>1, <1>2
  <2>3. ASSUME n = 0 PROVE events = <<>>
    BY <1>2, <2>1, <2>3
  <2> QED
    BY <2>2, <2>3
<1>6. \A k \in 1 .. n : /\ base[k] = times[place[k]] /\ events[k].job = place[k]
                        /\ events[k].pod_id \in PodId
  BY <1>1, <1>2, <1>3, <1>4, <1>5 DEF base
<1>7. \A k, l \in 1 .. n : k < l =>
        base[k] < base[l] \/ (base[k] = base[l] /\ events[k].job < events[l].job)
  <2>1. TAKE k, l \in 1 .. n
  <2>2. HAVE k < l
  <2>3. \/ times[place[k]] < times[place[l]]
        \/ times[place[k]] = times[place[l]] /\ place[k] < place[l]
    BY <1>2, <2>2 DEF Sorts
  <2> QED
    BY <1>6, <2>3
<1>8. \A k \in 1 .. n : base[k] \in Nat /\ events[k].pod_id \in PodId
  BY <1>1, <1>3, <1>6
<1> QED
  BY <1>1, <1>5, <1>7, <1>8 DEF InTurn

\* So events leave the bridge in order.
LEMMA LoadedInTurn ==
  ASSUME Loading, Loaded
  PROVE  InTurn
BY SortedInTurn DEF Loading, Loaded

-----------------------------------------------------------------------------
(* Scaling.                                                                *)

\* What is promised of the list o of scaled events.
Promised(o) ==
  /\ o = <<>> => events = <<>>
  /\ \A k \in DOMAIN o : o[k].of \in DOMAIN events
  /\ \A k, l \in DOMAIN o : k < l =>
       /\ o[k].submit_time <= o[l].submit_time
       /\ IdOf(o[k]) = IdOf(o[l]) =>
            o[k].of # o[l].of /\ None \in {o[k].copy, o[l].copy}
  /\ \A k, l \in DOMAIN o :
       /\ o[k].of = o[l].of /\ o[k].copy = None /\ o[l].copy # None => k < l
       /\ o[k].copy = None /\ o[l].copy = None
            /\ o[k].submit_time = o[l].submit_time /\ k < l =>
              events[o[k].of].job < events[o[l].of].job

\* An empty list has no elements.
LEMMA EmptyHasNone == \A m \in Nat : \A o : DOMAIN o = 1 .. m /\ o = <<>> => m = 0
<1>1. DOMAIN <<>> = 1 .. 0
  OBVIOUS
<1>2. \A m \in Nat : 1 .. m = 1 .. 0 => m = 0
  OBVIOUS
<1> QED
  BY <1>1, <1>2

\* Some of the recorded events, in their order (experiment.py:57-61).
LEMMA SomeInTurn ==
  ASSUME InTurn, NEW m \in Nat, m = 0 => Len(events) = 0,
         NEW kept \in [1 .. m -> 1 .. Len(events)],
         \A k, l \in 1 .. m : k < l => kept[k] < kept[l]
  PROVE  Promised([k \in 1 .. m |-> S!Original(kept[k])])
<1> DEFINE o == [k \in 1 .. m |-> S!Original(kept[k])]
<1>1. DOMAIN o = 1 .. m
  OBVIOUS
<1>2. \A k \in 1 .. m : /\ o[k].of = kept[k] /\ o[k].copy = None /\ o[k].submit_time = base[kept[k]]
                        /\ kept[k] \in 1 .. Len(events)
  BY DEF S!Original, S!Event
<1> HIDE DEF o
<1>3. o = <<>> => events = <<>>
  BY <1>1, EmptyHasNone DEF InTurn
<1>4. \A k, l \in 1 .. m : k < l =>
        /\ o[k].of # o[l].of /\ o[k].submit_time <= o[l].submit_time
        /\ o[k].submit_time = o[l].submit_time => events[o[k].of].job < events[o[l].of].job
  <2>1. TAKE k, l \in 1 .. m
  <2>2. HAVE k < l
  <2>3. PICK a, b \in 1 .. Len(events) : a = kept[k] /\ b = kept[l] /\ a < b
    BY <1>2, <2>2
  <2>4. /\ base[a] \in Nat /\ base[b] \in Nat
        /\ base[a] < base[b] \/ (base[a] = base[b] /\ events[a].job < events[b].job)
    BY <2>3 DEF InTurn
  <2>5. /\ o[k].of = a /\ o[l].of = b /\ o[k].submit_time = base[a] /\ o[l].submit_time = base[b]
    BY <1>2, <2>3
  <2>6. a # b /\ base[a] <= base[b] /\ (base[a] = base[b] => events[a].job < events[b].job)
    BY <2>3, <2>4
  <2> QED
    BY <2>5, <2>6
<1>5. \A k \in DOMAIN o : o[k].of \in DOMAIN events
  BY <1>1, <1>2 DEF InTurn
<1>6. \A k, l \in DOMAIN o : k < l =>
        /\ o[k].submit_time <= o[l].submit_time
        /\ o[k].of # o[l].of /\ None \in {o[k].copy, o[l].copy}
  BY <1>1, <1>2, <1>4
<1>7. Promised(o)
  BY <1>1, <1>2, <1>3, <1>4, <1>5, <1>6 DEF Promised
<1> QED
  BY <1>7 DEF o

\* All of them, or some (experiment.py:53-62).
LEMMA UnscaledKeeps ==
  ASSUME InTurn, S!Unscaled
  PROVE  Promised(out')
<1> DEFINE n == Len(events)
           all == [k \in 1 .. n |-> k]
<1>1. n \in Nat /\ DOMAIN events = 1 .. n
  BY DEF InTurn
<1>2. DOMAIN base = 1 .. n
  BY <1>1 DEF base
<1>3. out' = [k \in 1 .. n |-> S!Original(all[k])]
  BY <1>2 DEF S!Unscaled, S!Events
<1>4. all \in [1 .. n -> 1 .. n] /\ \A k, l \in 1 .. n : k < l => all[k] < all[l]
  OBVIOUS
<1> HIDE DEF all
<1> QED
  BY <1>1, <1>3, <1>4, SomeInTurn

\* A sample has the size that is asked for.
LEMMA SameSize == \A T : S!Cardinality(T) = Cardinality(T)
BY DEF S!Cardinality, Cardinality

\* At least one event is kept, and of a trace that has one no more than there are
\* (experiment.py:60).
LEMMA KeptIs ==
  ASSUME factor \in Factors, NEW n \in Nat, Len(base) = n
  PROVE  /\ S!KeptNumber \in Nat \ {0}
         /\ S!Smaller /\ n > 0 => S!KeptNumber <= n
<1>1. PICK f \in Nat \ {0}, g \in Nat \ {0} : f = factor[1] /\ g = factor[2]
  BY SweepTracesAssumption
<1>2. PICK p \in Nat : p = n * f
  <2>1. \A i, j \in Nat : i * j \in Nat
    BY Z3
  <2> QED
    BY <1>1, <2>1
<1>3. PICK j \in Nat, r \in 0 .. g - 1 : j = p \div g /\ r = p % g /\ p = g * j + r
  <2>1. p \div g \in Nat /\ p % g \in 0 .. g - 1 /\ p = g * (p \div g) + (p % g)
    BY Division
  <2> QED
    BY <2>1
<1>4. S!KeptNumber = Max({1, j})
  BY <1>1, <1>2, <1>3 DEF S!KeptNumber, S!Max, Max
<1>5. Max({1, j}) \in {1, j} /\ 1 <= Max({1, j})
  <2>1. 1 \in Int /\ j \in Int
    OBVIOUS
  <2> QED
    BY <2>1, MaxOfTwo, Zenon
<1>6. ASSUME S!Smaller PROVE j <= n
  <2>1. f < g
    BY <1>1, <1>6 DEF S!Smaller
  <2>2. p <= g * n
    <3>1. \A i \in Nat : \A k, l \in Nat : k < l => i * k <= l * i
      BY Z3T(30)
    <3> QED
      BY <1>1, <1>2, <2>1, <3>1
  <2>3. g * j <= g * n
    <3>1. PICK x \in Nat, y \in Nat : x = g * j /\ y = g * n
      <4>1. \A i, k \in Nat : i * k \in Nat
        BY Z3
      <4> QED
        BY <1>1, <1>3, <4>1
    <3>2. x <= p /\ p <= y
      BY <1>2, <1>3, <2>2, <3>1
    <3> QED
      BY <1>2, <3>1, <3>2
  <2>4. ~(n < j)
    <3>1. \A i \in Nat \ {0} : \A k, l \in Nat : k < l => i * k < i * l
      BY Z3T(30)
    <3>2. \A i, k \in Nat : i * k \in Nat
      BY Z3
    <3> QED
      BY <1>1, <1>3, <2>3, <3>1, <3>2
  <2> QED
    BY <1>3, <2>4
<1>7. PICK m \in Nat \ {0} : m = S!KeptNumber /\ (m = 1 \/ m = j)
  <2>1. S!KeptNumber \in {1, j} /\ 1 <= S!KeptNumber
    BY <1>4, <1>5
  <2> QED
    BY <2>1
<1>8. ASSUME S!Smaller, n > 0 PROVE m <= n
  BY <1>3, <1>6, <1>7, <1>8
<1> QED
  BY <1>7, <1>8

\* So only of nothing is more wanted than there is (experiment.py:60-61).
LEMMA RaisesOnNothing ==
  ASSUME InTurn, factor \in Factors, UNCHANGED events, S!SubsampleRaises
  PROVE  events' = <<>>
<1>1. Len(events) \in Nat /\ DOMAIN events = 1 .. Len(events) /\ (Len(events) = 0 => events = <<>>)
  BY DEF InTurn
<1> DEFINE n == Len(events)
<1>2. n \in Nat /\ Len(base) = n
  BY <1>1 DEF base
<1> HIDE DEF n
<1>3. S!Smaller /\ S!KeptNumber > n
  BY <1>2 DEF S!SubsampleRaises
<1>4. S!KeptNumber \in Nat \ {0} /\ (S!Smaller /\ n > 0 => S!KeptNumber <= n)
  BY <1>2, KeptIs
<1>5. n = 0
  BY <1>2, <1>3, <1>4
<1> QED
  BY <1>1, <1>5 DEF n

\* A subsample keeps the order of the events it keeps (experiment.py:59-62).
LEMMA SubsampleKeeps ==
  ASSUME InTurn, factor \in Factors, S!Subsample
  PROVE  Promised(out')
<1> DEFINE n == Len(events)
           m == S!KeptNumber
<1>1. n \in Nat /\ DOMAIN events = 1 .. n
  BY DEF InTurn
<1>2. DOMAIN base = 1 .. n /\ Len(base) = n
  BY <1>1 DEF base
<1>3. m \in Nat \ {0}
  BY <1>1, <1>2, KeptIs
<1>4. PICK idx \in S!kSubset(m, DOMAIN base) :
        out' = [k \in DOMAIN S!Ascending(idx) |-> S!Original(S!Ascending(idx)[k])]
  BY DEF S!Subsample
<1>5. S!Ascending(idx) = Ascending(idx)
  BY DEF S!Ascending, Ascending, S!InOrder, InOrder, S!Cardinality, Cardinality
<1> DEFINE D == 1 .. n
<1>6. idx \in SUBSET D /\ S!Cardinality(idx) = m
  BY <1>2, <1>4 DEF S!kSubset
<1>7. IsFiniteSet(idx) /\ idx \in SUBSET Int /\ Cardinality(idx) = m
  <2>1. IsFiniteSet(D)
    BY <1>1, UpTo, Zenon
  <2>2. D \in SUBSET Int
    OBVIOUS
  <2> HIDE DEF D, m
  <2> QED
    BY <1>6, <2>1, <2>2, FS_Subset, SameSize
<1>8. /\ Ascending(idx) \in [1 .. m -> idx]
      /\ \A k, l \in 1 .. m : k < l => Ascending(idx)[k] < Ascending(idx)[l]
  <2> HIDE DEF m
  <2> QED
    BY <1>7, AscendingIs
<1> HIDE DEF m
<1>9. PICK kept \in [1 .. m -> 1 .. n] :
        /\ \A k, l \in 1 .. m : k < l => kept[k] < kept[l]
        /\ out' = [k \in 1 .. m |-> S!Original(kept[k])]
  BY <1>4, <1>5, <1>6, <1>8
<1> QED
  BY <1>3, <1>9, SomeInTurn

\* One copy more (experiment.py:65-78).
LEMMA DuplicateKeeps ==
  ASSUME InTurn, factor \in Factors, Copied, UNCHANGED events, S!Duplicate
  PROVE  Copied'
<1> DEFINE n == Len(events)
<1>1. n \in Nat /\ n # 0 /\ DOMAIN events = 1 .. n /\ \A k \in 1 .. n : base[k] \in Nat
  <2>1. n \in Nat /\ DOMAIN events = 1 .. n /\ \A k \in 1 .. n : base[k] \in Nat
    BY DEF InTurn
  <2>2. n # 0
    <3>1. factor[1] \in Nat /\ factor[2] \in Nat \ {0} /\ copies \in Nat
      BY SweepTracesAssumption DEF Copied
    <3>2. ASSUME n = 0 PROVE S!ExtraNeeded = 0
      <4>1. Len(base) = 0
        BY <2>1, <3>2 DEF base
      <4>2. Len(base) * (factor[1] - factor[2]) = 0
        BY <3>1, <4>1
      <4>3. 0 \div factor[2] = 0
        BY <3>1, Division
      <4> QED
        BY <4>2, <4>3 DEF S!ExtraNeeded
    <3>3. copies < S!ExtraNeeded
      BY DEF S!Duplicate
    <3> QED
      BY <3>1, <3>2, <3>3
  <2> QED
    BY <2>1, <2>2
<1>2. DOMAIN base = 1 .. n /\ Len(base) = n /\ base' = base
  BY <1>1 DEF base
<1>3. /\ copies \in Nat /\ out \in Seq(ScaledEvent) /\ Len(out) = n + copies
      /\ \A k \in 1 .. n : out[k] = S!Original(k)
      /\ \A i \in 0 .. copies - 1 : \E t \in Nat :
           out[n + i + 1] = S!Event(S!Source(i), i, t) /\ base[S!Source(i)] <= t
  BY DEF Copied
<1> DEFINE of == S!Source(copies)
<1>4. of \in 1 .. n
  <2>1. copies % n \in 0 .. n - 1
    BY <1>1, <1>3, Division
  <2> QED
    BY <1>1, <1>2, <2>1 DEF S!Source
<1>5. PICK jitter \in 0 .. Second - 1 :
        out' = Append(out, S!Event(of, copies, base[of] + jitter))
  BY DEF S!Duplicate
<1>6. PICK t \in Nat : t = base[of] + jitter /\ base[of] <= t
  <2>1. jitter \in Nat
    BY SweepTracesAssumption
  <2> QED
    BY <1>1, <1>4, <2>1
<1>7. copies' = copies + 1
  BY DEF S!Duplicate
<1>8. S!Event(of, copies, t) \in ScaledEvent
  BY <1>1, <1>3, <1>4, <1>6 DEF S!Event, ScaledEvent
<1> HIDE DEF of
<1>9. /\ out' \in Seq(ScaledEvent) /\ Len(out') = n + copies'
      /\ out'[n + copies + 1] = S!Event(of, copies, t)
      /\ \A k \in 1 .. n + copies : out'[k] = out[k]
  <2>1. PICK e \in ScaledEvent : e = S!Event(of, copies, t) /\ out' = Append(out, e)
    BY <1>5, <1>6, <1>8
  <2>2. out \in Seq(ScaledEvent) /\ Len(out) = n + copies /\ n + copies \in Nat
    BY <1>1, <1>3
  <2> HIDE DEF n
  <2>3. /\ out' \in Seq(ScaledEvent) /\ Len(out') = Len(out) + 1 /\ out'[Len(out) + 1] = e
        /\ \A k \in 1 .. Len(out) : out'[k] = out[k]
    BY <2>1, <2>2
  <2>4. Len(out) + 1 = n + copies'
    BY <1>1, <1>3, <1>7, <2>2
  <2> QED
    BY <2>1, <2>2, <2>3, <2>4
<1>10. /\ \A k \in 1 .. n : out'[k] = out[k]
       /\ \A i \in 0 .. copies - 1 : out'[n + i + 1] = out[n + i + 1]
  <2>1. n \in Nat /\ copies \in Nat
    BY <1>1, <1>3
  <2> HIDE DEF n
  <2>2. (\A k \in 1 .. n : k \in 1 .. n + copies) /\ \A i \in 0 .. copies - 1 : n + i + 1 \in 1 .. n + copies
    BY <2>1
  <2> QED
    BY <1>9, <2>2
<1>11. ASSUME NEW i \in 0 .. copies' - 1
       PROVE  \E u \in Nat : out'[n + i + 1] = S!Event(S!Source(i), i, u) /\ base[S!Source(i)] <= u
  <2>1. CASE i = copies
    BY <1>6, <1>9, <2>1 DEF of
  <2>2. CASE i # copies
    <3>1. i \in 0 .. copies - 1
      BY <1>3, <1>7, <2>2
    <3> QED
      BY <1>3, <1>10, <3>1
  <2> QED
    BY <2>1, <2>2
<1>12. \A k : /\ S!Original(k)' = S!Original(k)
              /\ S!Source(k)' = S!Source(k)
  BY <1>2 DEF S!Original, S!Event, S!Source
<1>13. n' = n /\ ScaledEvent' = ScaledEvent
  BY DEF ScaledEvent
<1> HIDE DEF n
<1>14. \A k \in 1 .. n : out'[k] = S!Original(k)'
  BY <1>3, <1>10, <1>12
<1>15. \A i \in 0 .. copies' - 1 : \E u \in Nat :
         out'[n + i + 1] = S!Event(S!Source(i)', i, u) /\ base'[S!Source(i)'] <= u
  BY <1>2, <1>11, <1>12
<1>16. copies' \in Nat
  BY <1>3, <1>7
<1> QED
  BY <1>9, <1>13, <1>14, <1>15, <1>16 DEF Copied, n, S!Event

\* What the list is before the sort.
LEMMA CopiedIs ==
  ASSUME InTurn, Copied
  PROVE  LET n == Len(events)
             m == n + copies
         IN  /\ n \in Nat /\ m \in Nat /\ n <= m /\ DOMAIN out = 1 .. m /\ DOMAIN events = 1 .. n
             /\ \A a \in 1 .. m : out[a].of \in 1 .. n /\ out[a].submit_time \in Nat
             /\ \A a \in 1 .. m : out[a].copy = None <=> a <= n
             /\ \A a \in 1 .. n : out[a].of = a /\ out[a].submit_time = base[a]
             /\ \A a \in n + 1 .. m : out[a].copy = a - n - 1 /\ base[out[a].of] <= out[a].submit_time
<1> DEFINE n == Len(events)
           m == n + copies
<1>1. n \in Nat /\ DOMAIN events = 1 .. n
  BY DEF InTurn
<1>2. /\ copies \in Nat /\ out \in Seq(ScaledEvent) /\ Len(out) = m
      /\ \A k \in 1 .. n : out[k] = S!Original(k)
      /\ \A i \in 0 .. copies - 1 : \E t \in Nat :
           out[n + i + 1] = S!Event(S!Source(i), i, t) /\ base[S!Source(i)] <= t
  BY DEF Copied
<1>3. m \in Nat /\ n <= m /\ DOMAIN out = 1 .. m
  BY <1>1, <1>2
<1>4. \A a \in 1 .. m : out[a] \in ScaledEvent
  BY <1>2, <1>3
<1>5. \A a \in 1 .. m : out[a].of \in 1 .. n /\ out[a].submit_time \in Nat
  BY <1>1, <1>4 DEF ScaledEvent
<1>6. \A a \in 1 .. n : out[a].of = a /\ out[a].submit_time = base[a] /\ out[a].copy = None
  <2>1. \A k : S!Original(k).of = k /\ S!Original(k).submit_time = base[k] /\ S!Original(k).copy = None
    BY DEF S!Original, S!Event
  <2> QED
    BY <1>2, <2>1
<1>7. \A a \in n + 1 .. m : /\ out[a].copy = a - n - 1 /\ out[a].copy # None
                            /\ base[out[a].of] <= out[a].submit_time
  <2>1. TAKE a \in n + 1 .. m
  <2>2. PICK i \in 0 .. copies - 1 : i = a - n - 1 /\ a = n + i + 1
    <3>1. n \in Int /\ copies \in Int /\ a \in Int /\ n + 1 <= a /\ a <= n + copies
      BY <1>1, <1>2, <1>3
    <3> HIDE DEF n
    <3>2. a - n - 1 \in 0 .. copies - 1 /\ a = n + (a - n - 1) + 1
      BY <3>1
    <3> QED
      BY <3>2
  <2>3. PICK t \in Nat : out[a] = S!Event(S!Source(i), i, t) /\ base[S!Source(i)] <= t
    BY <1>2, <2>2
  <2>4. out[a].of = S!Source(i) /\ out[a].copy = i /\ out[a].submit_time = t
    BY <2>3 DEF S!Event
  <2>5. i # None
    BY SweepTracesAssumption
  <2> QED
    BY <2>2, <2>3, <2>4, <2>5
<1>8. \A a \in 1 .. m : out[a].copy = None <=> a <= n
  <2>1. TAKE a \in 1 .. m
  <2>2. a \in 1 .. n \/ a \in n + 1 .. m
    BY <1>1, <1>3
  <2>3. a \in n + 1 .. m => ~(a <= n)
    BY <1>1, <1>3
  <2> QED
    BY <1>6, <1>7, <2>2, <2>3
<1> QED
  BY <1>1, <1>3, <1>5, <1>6, <1>7, <1>8

\* A number added to an id makes another, and two ids made so have one number only
\* if they are the same.
LEMMA NumbersTell ==
  ASSUME NEW i \in PodId, NEW j \in PodId, NEW c \in Nat, NEW d \in Nat
  PROVE  /\ i # [i EXCEPT !.dups = Append(@, c)]
         /\ [i EXCEPT !.dups = Append(@, c)] = [j EXCEPT !.dups = Append(@, d)] => c = d
<1>1. PICK p \in Seq(Nat), q \in Seq(Nat) : p = i.dups /\ q = j.dups
  BY DEF PodId
<1>2. /\ [i EXCEPT !.dups = Append(@, c)].dups = Append(p, c)
      /\ [j EXCEPT !.dups = Append(@, d)].dups = Append(q, d)
  BY <1>1 DEF PodId
<1>3. Append(p, c) # p /\ (Append(p, c) = Append(q, d) => c = d)
  <2>1. Len(Append(p, c)) = Len(p) + 1 /\ Len(p) \in Nat
    OBVIOUS
  <2>2. /\ Len(Append(q, d)) = Len(q) + 1 /\ Len(q) \in Nat
        /\ Append(p, c)[Len(p) + 1] = c /\ Append(q, d)[Len(q) + 1] = d
    OBVIOUS
  <2>3. Append(p, c) = Append(q, d) => Len(p) = Len(q)
    BY <2>1, <2>2
  <2> QED
    BY <2>1, <2>2, <2>3
<1> QED
  BY <1>1, <1>2, <1>3

\* The sort (experiment.py:79).
LEMMA SortKeeps ==
  ASSUME InTurn, Copied
  PROVE  Promised(S!SortedOut)
<1> DEFINE n == Len(events)
           m == n + copies
           o == S!SortedOut
<1>1. /\ n \in Nat /\ m \in Nat /\ n <= m /\ DOMAIN out = 1 .. m /\ DOMAIN events = 1 .. n
      /\ \A a \in 1 .. m : out[a].of \in 1 .. n /\ out[a].submit_time \in Nat
      /\ \A a \in 1 .. m : out[a].copy = None <=> a <= n
      /\ \A a \in 1 .. n : out[a].of = a /\ out[a].submit_time = base[a]
      /\ \A a \in n + 1 .. m : out[a].copy = a - n - 1 /\ base[out[a].of] <= out[a].submit_time
  BY CopiedIs
<1> HIDE DEF n, m
<1>2. /\ n = 0 => events = <<>>
      /\ \A a \in 1 .. n : events[a].pod_id \in PodId
  BY DEF InTurn, n
<1>3. o = SortedBy(out, S!Times)
  BY DEF S!SortedOut, S!SortedBy, SortedBy, S!ByKey, ByKey, S!InOrder, InOrder, S!Cardinality, Cardinality
<1>4. \A a \in 1 .. m : S!Times[a] = out[a].submit_time
  BY <1>1 DEF S!Times
<1> HIDE DEF o
<1>5. SortsTo(o, out, m, S!Times)
  <2>1. \A a \in 1 .. m : S!Times[a] \in Int
    BY <1>1, <1>4
  <2> QED
    BY <1>1, <1>3, <2>1, SortedByIs
<1>6. PICK place : Sorts(place, m, S!Times) /\ o = [k \in 1 .. m |-> out[place[k]]]
  BY <1>5 DEF SortsTo
<1>7. DOMAIN o = 1 .. m /\ \A k \in 1 .. m : place[k] \in 1 .. m /\ o[k] = out[place[k]]
  BY <1>6 DEF Sorts
<1>8. ASSUME NEW k \in 1 .. m, NEW l \in 1 .. m, k < l,
             NEW a \in 1 .. m, a = place[k], NEW b \in 1 .. m, b = place[l]
      PROVE  \/ out[a].submit_time < out[b].submit_time
             \/ out[a].submit_time = out[b].submit_time /\ a < b
  <2>1. \/ S!Times[place[k]] < S!Times[place[l]]
        \/ S!Times[place[k]] = S!Times[place[l]] /\ place[k] < place[l]
    BY <1>6, <1>8 DEF Sorts
  <2> QED
    BY <1>4, <1>8, <2>1
<1>9. o = <<>> => events = <<>>
  <2>1. DOMAIN o = 1 .. m
    BY <1>7
  <2>2. o = <<>> => m = 0
    BY <1>1, <2>1, EmptyHasNone
  <2> QED
    BY <1>1, <1>2, <2>2
<1>10. \A k \in DOMAIN o : o[k].of \in DOMAIN events
  BY <1>1, <1>7
<1>11. ASSUME NEW k \in 1 .. m, NEW l \in 1 .. m, k < l
       PROVE  /\ o[k].submit_time <= o[l].submit_time
              /\ IdOf(o[k]) = IdOf(o[l]) =>
                   o[k].of # o[l].of /\ None \in {o[k].copy, o[l].copy}
  <2>1. PICK a \in 1 .. m, b \in 1 .. m : a = place[k] /\ b = place[l] /\ o[k] = out[a] /\ o[l] = out[b]
    BY <1>7
  <2>2. out[a].submit_time \in Nat /\ out[b].submit_time \in Nat
    BY <1>1
  <2>3. a # b
    <3>1. \/ out[a].submit_time < out[b].submit_time
          \/ out[a].submit_time = out[b].submit_time /\ a < b
      BY <1>8, <1>11, <2>1
    <3> QED
      BY <2>2, <3>1
  <2>4. ASSUME IdOf(out[a]) = IdOf(out[b])
        PROVE  out[a].of # out[b].of /\ None \in {out[a].copy, out[b].copy}
    <3>1. PICK i \in PodId, j \in PodId :
            i = events[out[a].of].pod_id /\ j = events[out[b].of].pod_id
      BY <1>1, <1>2
    <3>2. /\ IdOf(out[a]) = IF out[a].copy = None THEN i ELSE [i EXCEPT !.dups = Append(@, out[a].copy)]
          /\ IdOf(out[b]) = IF out[b].copy = None THEN j ELSE [j EXCEPT !.dups = Append(@, out[b].copy)]
      BY <3>1 DEF IdOf
    <3>3. /\ a <= n => out[a].copy = None /\ out[a].of = a
          /\ b <= n => out[b].copy = None /\ out[b].of = b
          /\ ~(a <= n) => out[a].copy = a - n - 1 /\ a - n - 1 \in Nat /\ out[a].copy # None
          /\ ~(b <= n) => out[b].copy = b - n - 1 /\ b - n - 1 \in Nat /\ out[b].copy # None
      BY <1>1
    <3>4. out[a].of = out[b].of => i = j
      BY <3>1
    <3>5. CASE a <= n /\ b <= n
      BY <2>3, <3>3, <3>5
    <3>6. CASE a <= n /\ ~(b <= n)
      <4>1. i # [i EXCEPT !.dups = Append(@, out[b].copy)]
        BY <3>3, <3>6, NumbersTell
      <4> QED
        BY <2>4, <3>2, <3>3, <3>4, <3>6, <4>1
    <3>7. CASE ~(a <= n) /\ b <= n
      <4>1. i # [i EXCEPT !.dups = Append(@, out[a].copy)]
        BY <3>3, <3>7, NumbersTell
      <4> QED
        BY <2>4, <3>2, <3>3, <3>4, <3>7, <4>1
    <3>8. CASE ~(a <= n) /\ ~(b <= n)
      <4>1. out[a].copy \in Nat /\ out[b].copy \in Nat /\ out[a].copy # out[b].copy
        BY <1>1, <2>3, <3>3, <3>8
      <4>2. [i EXCEPT !.dups = Append(@, out[a].copy)] # [j EXCEPT !.dups = Append(@, out[b].copy)]
        BY <4>1, NumbersTell
      <4> QED
        BY <2>4, <3>2, <3>3, <3>8, <4>2
    <3> QED
      BY <3>5, <3>6, <3>7, <3>8
  <2>5. \/ out[a].submit_time < out[b].submit_time
        \/ out[a].submit_time = out[b].submit_time /\ a < b
    BY <1>8, <1>11, <2>1
  <2>6. out[a].submit_time <= out[b].submit_time
    BY <2>2, <2>5
  <2> QED
    BY <2>1, <2>4, <2>6
<1>12. ASSUME NEW k \in 1 .. m, NEW l \in 1 .. m
       PROVE  /\ o[k].of = o[l].of /\ o[k].copy = None /\ o[l].copy # None => k < l
              /\ o[k].copy = None /\ o[l].copy = None
                   /\ o[k].submit_time = o[l].submit_time /\ k < l =>
                     events[o[k].of].job < events[o[l].of].job
  <2>1. PICK a \in 1 .. m, b \in 1 .. m : a = place[k] /\ b = place[l] /\ o[k] = out[a] /\ o[l] = out[b]
    BY <1>7
  <2>2. out[a].submit_time \in Nat /\ out[b].submit_time \in Nat
    BY <1>1
  <2>3. ASSUME out[a].of = out[b].of, out[a].copy = None, out[b].copy # None PROVE k < l
    <3>1. a <= n /\ ~(b <= n) /\ a \in 1 .. n /\ b \in n + 1 .. m
      BY <1>1, <2>3
    <3>2. out[a].submit_time <= out[b].submit_time
      BY <1>1, <2>3, <3>1
    <3>3. ~(l < k)
      <4>1. ASSUME l < k PROVE FALSE
        <5>1. out[b].submit_time < out[a].submit_time \/ b < a
          BY <1>8, <2>1, <4>1
        <5> QED
          BY <1>1, <2>2, <3>1, <3>2, <5>1
      <4> QED
        BY <4>1
    <3>4. k # l
      BY <2>1, <3>1
    <3> QED
      BY <1>1, <3>3, <3>4
  <2>4. ASSUME out[a].copy = None, out[b].copy = None, out[a].submit_time = out[b].submit_time, k < l
        PROVE  events[out[a].of].job < events[out[b].of].job
    <3>1. a \in 1 .. n /\ b \in 1 .. n /\ out[a].of = a /\ out[b].of = b /\ base[a] = base[b]
      BY <1>1, <2>4
    <3>2. a < b
      BY <1>8, <2>1, <2>2, <2>4
    <3>3. base[a] \in Nat /\ base[b] \in Nat
          /\ (base[a] < base[b] \/ (base[a] = base[b] /\ events[a].job < events[b].job))
      BY <3>1, <3>2 DEF InTurn, n
    <3> QED
      BY <3>1, <3>3
  <2> QED
    BY <2>1, <2>3, <2>4
<1>13. Promised(o)
  BY <1>7, <1>9, <1>10, <1>11, <1>12 DEF Promised
<1> QED
  BY <1>13 DEF o

\* A loader does nothing after it has loaded.
LEMMA LoadedIsLast == Next => ~Loaded
BY DEF Next, Loaded, Convert, ConvertEnd, SortEvents, SizeCluster, AssignType, ReadRow, ReadEnd

\* Scaling does not touch what was loaded.
LEMMA LoadingStays ==
  ASSUME Loading, UNCHANGED vars
  PROVE  Loading'
<1>1. UNCHANGED <<df, target, wanted, events, cpu_per_node, n_nodes, nodes, pc>>
  BY DEF vars, arguments
<1>2. FromTable' = FromTable /\ FromFile' = FromFile /\ JobPods' = JobPods /\ RowPods' = RowPods
  BY <1>1 DEF FromTable, FromFile, JobPods, RowPods
<1>3. /\ Listed(JobPods)' = Listed(JobPods) /\ Listed(RowPods)' = Listed(RowPods)
  BY <1>1, <1>2 DEF Listed, EventOf
<1>4. /\ Listing(JobPods)' = Listing(JobPods) /\ Listing(RowPods)' = Listing(RowPods)
      /\ SortedList(JobPods)' = SortedList(JobPods) /\ SortedList(RowPods)' = SortedList(RowPods)
  BY <1>1, <1>3 DEF Listing, SortedList
<1>5. Unsized' = Unsized
  BY <1>1 DEF Unsized
<1>6. NodesSized' = NodesSized /\ CpuSized(n_nodes)' = CpuSized(n_nodes) /\ NodeMade' = NodeMade
  BY <1>1, SizesStay DEF NodeMade, Types
<1>7. Sized' = Sized
  BY <1>1, <1>6 DEF Sized
<1> QED
  BY <1>1, <1>2, <1>3, <1>4, <1>5, <1>7 DEF Loading

\* The events are copied as they are before the first copy is made.
LEMMA StartCopies ==
  ASSUME InTurn, copies = 0, UNCHANGED events, S!StartCopying
  PROVE  Copied'
<1> DEFINE n == Len(events)
<1>1. n \in Nat /\ DOMAIN events = 1 .. n /\ \A k \in 1 .. n : base[k] \in Nat
  BY DEF InTurn
<1>2. DOMAIN base = 1 .. n /\ base' = base
  BY <1>1 DEF base
<1>3. out' = [k \in 1 .. n |-> S!Original(k)] /\ copies' = 0
  BY <1>2 DEF S!StartCopying, S!Events
<1>4. \A k \in 1 .. n : S!Original(k) \in ScaledEvent
  BY <1>1 DEF S!Original, S!Event, ScaledEvent
<1>5. out' \in Seq(ScaledEvent) /\ Len(out') = n
  <2> HIDE DEF n
  <2> QED
    BY <1>1, <1>3, <1>4
<1>6. \A k : S!Original(k)' = S!Original(k)
  BY <1>2 DEF S!Original, S!Event
<1>7. ScaledEvent' = ScaledEvent /\ n' = n
  BY DEF ScaledEvent
<1>8. \A k \in 1 .. n : out'[k] = S!Original(k)'
  BY <1>3, <1>6
<1>9. n + copies' = n /\ 0 .. copies' - 1 = {}
  BY <1>1, <1>3
<1> HIDE DEF n
<1> QED
  BY <1>3, <1>5, <1>7, <1>8, <1>9 DEF Copied, n

\* The two properties say what is promised of the list that is returned.
LEMMA PromisedIs ==
  ASSUME Promised(out), scaling = "done"
  PROVE  Runnable /\ OriginalsKeepTheirTurn
BY DEF Promised, Runnable, OriginalsKeepTheirTurn

Scales == /\ Loading
          /\ factor \in Factors
          /\ \/ scaling = "start" /\ copies = 0
             \/ scaling = "duplicate" /\ Loaded /\ Copied
             \/ scaling = "done" /\ Loaded /\ Promised(out)
             \/ scaling = "raised" /\ Loaded /\ events = <<>>

\* It is true before the first row.
LEMMA ScalesInit == SweepInit => Scales
BY LoadingInit DEF SweepInit, S!Init, Scales

\* What has been loaded stays as it is.
LEMMA ScalesNext ==
  ASSUME Scales, SweepNext
  PROVE  Scales'
<1>1. Loading /\ factor \in Factors
  BY DEF Scales
<1>2. CASE Load
  <2>1. Loading'
    BY <1>1, <1>2, LoadingNext DEF Load
  <2>2. ~Loaded
    BY <1>2, LoadedIsLast DEF Load
  <2> QED
    BY <1>2, <2>1, <2>2 DEF Scales, Load, scaleVars
<1>3. CASE Scale
  <2>1. Loaded /\ Loaded' /\ InTurn /\ events' = events
    BY <1>1, <1>3, LoadedInTurn DEF Scale, vars, Loaded
  <2>2. Loading'
    BY <1>1, <1>3, LoadingStays DEF Scale
  <2>3. S!Next
    BY <1>3 DEF Scale
  <2>4. \A o : Promised(o)' = Promised(o)
    BY <2>1 DEF Promised, IdOf
  <2>5. CASE S!Unscaled
    <3>1. Promised(out')
      BY <2>1, <2>5, UnscaledKeeps
    <3>2. (Promised(out))'
      BY <2>1, <3>1 DEF Promised, IdOf
    <3> QED
      BY <1>1, <2>1, <2>2, <2>5, <3>2 DEF S!Unscaled, S!arguments, Scales
  <2>6. CASE S!Subsample
    <3>1. Promised(out')
      BY <1>1, <2>1, <2>6, SubsampleKeeps
    <3>2. (Promised(out))'
      BY <2>1, <3>1 DEF Promised, IdOf
    <3> QED
      BY <1>1, <2>1, <2>2, <2>6, <3>2 DEF S!Subsample, S!arguments, Scales
  <2>7. CASE S!StartCopying
    <3>1. Copied'
      BY <2>1, <2>7, StartCopies DEF Scales, S!StartCopying
    <3> QED
      BY <1>1, <2>1, <2>2, <2>7, <3>1 DEF S!StartCopying, S!arguments, Scales
  <2>8. CASE S!Duplicate
    <3>1. Copied'
      BY <1>1, <2>1, <2>8, DuplicateKeeps DEF Scales, S!Duplicate
    <3> QED
      BY <1>1, <2>1, <2>2, <2>8, <3>1 DEF S!Duplicate, S!arguments, Scales
  <2>9. CASE S!SortOut
    <3>1. Promised(out')
      BY <2>1, <2>9, SortKeeps DEF Scales, S!SortOut
    <3>2. (Promised(out))'
      BY <2>1, <3>1 DEF Promised, IdOf
    <3> QED
      BY <1>1, <2>1, <2>2, <2>9, <3>2 DEF S!SortOut, S!arguments, Scales
  <2>10. CASE S!SubsampleRaises
    <3>1. events' = <<>>
      BY <1>1, <2>1, <2>10, RaisesOnNothing
    <3> QED
      BY <1>1, <2>1, <2>2, <2>10, <3>1 DEF S!SubsampleRaises, S!arguments, Scales
  <2> QED
    BY <2>3, <2>5, <2>6, <2>7, <2>8, <2>9, <2>10 DEF S!Next
<1> QED
  BY <1>2, <1>3 DEF SweepNext

\* It is true from the first row to the last event.
LEMMA ScalesAlways == SweepSpec => []Scales
<1>1. Scales /\ [SweepNext]_sweepVars => Scales'
  <2>1. ASSUME Scales, UNCHANGED sweepVars PROVE Scales'
    <3>1. Loading'
      BY <2>1, LoadingStays DEF Scales, sweepVars
    <3>2. UNCHANGED <<events, nodes, n_nodes, pc, factor, out, copies, scaling>>
      BY <2>1 DEF sweepVars, scaleVars, vars, arguments
    <3>3. Loaded' = Loaded
      BY <3>2 DEF Loaded
    <3>4. Copied' = Copied
      <4>1. ScaledEvent' = ScaledEvent /\ base' = base
        BY <3>2 DEF ScaledEvent, base
      <4>2. \A i : S!Original(i)' = S!Original(i) /\ S!Source(i)' = S!Source(i)
        BY <4>1 DEF S!Original, S!Event, S!Source
      <4> QED
        BY <3>2, <4>1, <4>2 DEF Copied, S!Event
    <3>5. Promised(out)' = Promised(out)
      BY <3>2 DEF Promised, IdOf
    <3> QED
      BY <2>1, <3>1, <3>2, <3>3, <3>4, <3>5 DEF Scales
  <2> QED
    BY <2>1, ScalesNext
<1> QED
  BY <1>1, ScalesInit, PTL DEF SweepSpec
-----------------------------------------------------------------------------
(* The theorems.                                                           *)

\* A cluster made up without being given a size has cpus, GPU units and devices for
\* all pods at once at the target, but for half a unit per rounded demand and for
\* what negative demands deduct, whatever the table, the number of GPUs of a node
\* and the target (gputrace_bridge.py:101-107, 120-125).
THEOREM ClusterSuffices == SweepSpec => []SizedToTarget
<1>1. Scales => SizedToTarget
  BY LoadingSuffices DEF Scales
<1> QED
  BY <1>1, ScalesAlways, PTL

\* Whatever the trace, with whatever ids, and the factor, the event loop is given
\* events of rows of the trace, sorted, of which two share a pod id only if they are
\* of different rows and one at least is recorded; none only if the trace is empty,
\* and only then may there be no list at all (experiment.py:48-80).
THEOREM ScaledIsRunnable == SweepSpec => []Runnable
<1>1. Scales => Runnable
  BY PromisedIs DEF Scales, Runnable, Scaled
<1> QED
  BY <1>1, ScalesAlways, PTL

\* Both sorts being stable, no copy comes before the event it was made of, and
\* of two jobs submitted at one instant the one listed first stays first
\* (gputrace_bridge.py:112, experiment.py:61, 79).
THEOREM OriginalsInTurn == SweepSpec => []OriginalsKeepTheirTurn
<1>1. Scales => OriginalsKeepTheirTurn
  BY PromisedIs DEF Scales, OriginalsKeepTheirTurn, Scaled
<1> QED
  BY <1>1, ScalesAlways, PTL
=============================================================================
