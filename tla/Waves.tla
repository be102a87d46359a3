-------------------------------- MODULE Waves --------------------------------
(***************************************************************************)
(* Wave picking (WavesService): orders that are allocated are grouped into *)
(* waves, by request or by a job that a scheduler enqueues every half an   *)
(* hour; a wave gets picking tasks and a walking path.  The orders, and    *)
(* the wave with its orders, tasks and lines, are read before the          *)
(* transaction or statement that uses them, and no status is looked at.    *)
(*                                                                         *)
(* The queue is BullMQ's: a job is handed to one worker; when that worker  *)
(* crashes the job is handed out once more, when it fails it is dropped.   *)
(***************************************************************************)
EXTENDS Integers, Sequences, FiniteSets, FiniteSetsExt, SequencesExt

CONSTANTS
  OutboundOrders, Products, Rows, Locs,
  Handlers,     \* of requests and of jobs
  Start,        \* the node a path starts at
  KeyOf,        \* what buildGroupingKey returns for each order
  LinesOf,      \* [OutboundOrders -> Seq(Products)], the products of the order lines
  ProductOf, LocOf, Reserved,   \* of each RESERVED row, one per cell, before any pick
  Tagged,       \* SUBSET Rows, those with a warehouseId
  Dist,         \* distances between the nodes
  Sizes,        \* the maxOrdersPerWave that may be asked for; 0 is none
  MaxWaves,     \* bound: a generation starts while so many waves may still come
  MaxTasks,     \* bound: a wave gets tasks while there are fewer
  MaxMarked,    \* bound: only so many waves, the first ones, change status
  MaxQueue      \* bound: the scheduler enqueues while fewer jobs wait

Nodes == Locs \cup {Start}

ASSUME WavesAssumption ==
  /\ IsFiniteSet(OutboundOrders) /\ IsFiniteSet(Locs)
  /\ Start \notin Locs
  /\ LinesOf \in [OutboundOrders -> Seq(Products)]
  /\ ProductOf \in [Rows -> Products] /\ LocOf \in [Rows -> Locs]
  /\ Reserved \in [Rows -> Nat] /\ Tagged \subseteq Rows
  /\ Dist \in [Nodes \X Nodes -> Nat]
  /\ Sizes \subseteq Nat /\ Sizes # {} /\ {MaxWaves, MaxTasks, MaxMarked, MaxQueue} \subseteq Nat

VARIABLES
  orderStatus,  \* [OutboundOrders -> OrderStatus]
  stock,        \* [Rows -> Nat], their quantities now
  waves,        \* Seq(Wave), the Wave and WaveOrder rows in the order of their creation
  tasks,        \* Seq(Task), the PickingTask rows of waves, with their lines
  paths,        \* Seq(Path), the WavePickingPath of each wave
  queue,        \* jobs that wait in waves-queue, by how often they were handed out
  step, work    \* [Handlers -> Steps], [Handlers -> Work]

tables   == <<orderStatus, stock, waves, tasks, paths>>
waveVars == <<tables, queue, step, work>>

Eligible    == {"RELEASED", "PARTIALLY_ALLOCATED", "FULLY_ALLOCATED"}
OrderStatus == {"DRAFT", "PICKED"} \cup Eligible
WaveStatus  == {"CREATED", "RELEASED", "IN_PROGRESS", "COMPLETED", "CANCELLED"}

\* gen and found are history: the generation that made the wave, and all it read.
Wave == [orders : Seq(OutboundOrders), status : WaveStatus, total : Nat, picker : BOOLEAN,
         gen : Nat, found : SUBSET OutboundOrders, size : Sizes]
None == -1    \* no line for the row
Task == [wave : Nat, status : {"CREATED", "ASSIGNED"}, lines : [Rows -> Nat \cup {None}]]
\* seen is history: the locations of the lines that the path was made from.
Path == [route : Seq(Nodes), length : Nat, seen : SUBSET Locs]
Jobs == {"none", "first", "again"}
Steps == {"idle", "group", "report", "consolidate", "walk"}

Work == [job   : Jobs,                       \* the queued job it serves
         found : Seq(OutboundOrders), size : Sizes,   \* the orders read, maxOrdersPerWave
         wave  : Nat, picker : BOOLEAN,      \* the wave at hand, as read
         todo  : Seq(Products),              \* order lines still to be looked up
         lines : [Rows -> Nat \cup {None}],  \* consolidated
         locs  : Seq(Locs)]                  \* locationMap

NoLines == [r \in Rows |-> None]
NoWork == [job |-> "none", found |-> <<>>, size |-> CHOOSE n \in Sizes : TRUE, wave |-> 0,
           picker |-> FALSE, todo |-> <<>>, lines |-> NoLines, locs |-> <<>>]
NoPath == [route |-> <<>>, length |-> 0, seen |-> {}]

WaveTypeOK ==
  /\ orderStatus \in [OutboundOrders -> OrderStatus] /\ stock \in [Rows -> Nat]
  /\ waves \in Seq(Wave) /\ tasks \in Seq(Task) /\ paths \in Seq(Path)
  /\ \A i \in 1..Len(waves) : waves[i].total = Len(waves[i].orders)
  /\ queue \in [{"first", "again"} -> Nat]
  /\ step \in [Handlers -> Steps] /\ work \in [Handlers -> Work]

-----------------------------------------------------------------------------
Allocated == {o \in OutboundOrders : orderStatus[o] \in Eligible}
Room      == Len(waves) + Cardinality(OutboundOrders) <= MaxWaves
LinesOfWave(v) == FlattenSeq([k \in 1..Len(v.orders) |-> LinesOf[v.orders[k]]])
LocsOf(t) == {LocOf[r] : r \in {x \in Rows : t.lines[x] # None}}
LocsOfWave(i) == UNION {LocsOf(tasks[k]) : k \in {n \in 1..Len(tasks) : tasks[n].wave = i}}

WaveInit ==
  /\ orderStatus = [o \in OutboundOrders |-> "DRAFT"]
  /\ stock = Reserved
  /\ waves = <<>> /\ tasks = <<>> /\ paths = <<>>
  /\ queue = [j \in {"first", "again"} |-> 0]
  /\ step = [w \in Handlers |-> "idle"]
  /\ work = [w \in Handlers |-> NoWork]

Proceed(w, next, t)  == step' = [step EXCEPT ![w] = next] /\ work' = [work EXCEPT ![w] = t]
Continue(w, next, t) == Proceed(w, next, t) /\ UNCHANGED <<tables, queue>>

-----------------------------------------------------------------------------
(* What others do: a release, a confirmed pick, the end of an order.       *)

Release(o, new) ==
  /\ orderStatus[o] = "DRAFT" /\ new \in Eligible
  /\ orderStatus' = [orderStatus EXCEPT ![o] = new]
  /\ UNCHANGED <<stock, waves, tasks, paths, queue, step, work>>

PickRow(r) ==
  /\ stock[r] > 0
  /\ stock' = [stock EXCEPT ![r] = @ - 1]
  /\ UNCHANGED <<orderStatus, waves, tasks, paths, queue, step, work>>

FinishOrder(o) ==
  /\ orderStatus[o] \in Eligible
  /\ orderStatus' = [orderStatus EXCEPT ![o] = "PICKED"]
  /\ UNCHANGED <<stock, waves, tasks, paths, queue, step, work>>

\* The cron job, for the one tenant and warehouse.
Enqueue ==
  /\ queue["first"] + queue["again"] < MaxQueue
  /\ queue' = [queue EXCEPT !["first"] = @ + 1]
  /\ UNCHANGED <<tables, step, work>>

-----------------------------------------------------------------------------
(* generateWaves.                                                          *)

\* Variant: only orders that got all they asked for are looked for.
Found_Full == SetToSeqs({o \in OutboundOrders : orderStatus[o] = "FULLY_ALLOCATED"})

\* findMany, outside the transaction and in no particular order.
Found == SetToSeqs(Allocated)

FindOrders(w, found, size, job) ==
  /\ step[w] = "idle" /\ Room
  /\ Proceed(w, "group", [NoWork EXCEPT !.job = job, !.found = found, !.size = size])

\* POST /waves/generate, and a job of the queue, which gives no maxOrdersPerWave.
GenerateByRequest(w) ==
  \E found \in Found, size \in Sizes :
    FindOrders(w, found, size, "none") /\ UNCHANGED <<tables, queue>>

GenerateByJob(w, job) ==
  /\ queue[job] > 0 /\ 0 \in Sizes
  /\ \E found \in Found : FindOrders(w, found, 0, job)
  /\ queue' = [queue EXCEPT ![job] = @ - 1]
  /\ UNCHANGED tables

\* The groups, in which the orders stay in the order of found, and their chunks.
Group(found, key) ==
  LET kept[n \in 0..Len(found)] ==
        IF n = 0 THEN <<>>
        ELSE IF KeyOf[found[n]] = key THEN Append(kept[n - 1], found[n]) ELSE kept[n - 1]
  IN kept[Len(found)]

\* Variant: a chunk reaches one too far.
Chunk_Inclusive(s, size, k) ==
  SubSeq(s, k * size + 1, IF (k + 1) * size + 1 < Len(s) THEN (k + 1) * size + 1 ELSE Len(s))
Chunk(s, size, k) ==
  SubSeq(s, k * size + 1, IF (k + 1) * size < Len(s) THEN (k + 1) * size ELSE Len(s))

Chunks(s, size) ==
  IF size <= 0 THEN {s} ELSE {Chunk(s, size, k) : k \in 0..((Len(s) - 1) \div size)}

AllChunks(found, size) ==
  UNION {LET group == Group(found, KeyOf[o])
         IN Chunks(group, IF size = 0 THEN Len(group) ELSE size) : o \in ToSet(found)}

\* totals.  Variant: only the sample is counted.
TotalOf_Sample(batch) == 1
TotalOf(batch) == Len(batch)

\* The whole transaction: nobody sees its rows before COMMIT, and it reads none.
CreateWaves(w) ==
  LET t    == work[w]
      made == SetToSeq(AllChunks(t.found, t.size))
  IN /\ step[w] = "group"
     /\ waves' = waves \o [k \in 1..Len(made) |->
          [orders |-> made[k], status |-> "CREATED", total |-> TotalOf(made[k]),
           picker |-> FALSE, gen |-> Len(waves) + 1, found |-> ToSet(t.found), size |-> t.size]]
     /\ paths' = paths \o [k \in 1..Len(made) |-> NoPath]
     /\ IF t.job = "none" THEN Proceed(w, "idle", NoWork)
                          ELSE Proceed(w, "report", [NoWork EXCEPT !.job = t.job])
     /\ UNCHANGED <<orderStatus, stock, tasks, queue>>

\* The audit log, and the queue is told that the job is done.
Report(w) == step[w] = "report" /\ Continue(w, "idle", NoWork)

-----------------------------------------------------------------------------
\* releaseWave, startWave, completeWave, cancelWave: from any status.
MarkWave(i, new) ==
  /\ i <= MaxMarked /\ new # "CREATED"
  /\ waves' = [waves EXCEPT ![i].status = new]
  /\ UNCHANGED <<orderStatus, stock, tasks, paths, queue, step, work>>

AssignWave(i) ==
  /\ i <= MaxMarked
  /\ waves' = [waves EXCEPT ![i].picker = TRUE]
  /\ UNCHANGED <<orderStatus, stock, tasks, paths, queue, step, work>>

-----------------------------------------------------------------------------
(* createPickingTasksForWave.                                              *)

\* findFirst of the wave with its orders and their lines, outside the transaction.
ReadWave(w, i) ==
  /\ step[w] = "idle" /\ Len(tasks) < MaxTasks
  /\ Continue(w, "consolidate",
       [NoWork EXCEPT !.wave = i, !.picker = waves[i].picker,
          !.todo = LinesOfWave(waves[i])])

\* Variant: the reservations of all products are taken.
RowsFor_Any(p) == Tagged
RowsFor(p) == {r \in Tagged : ProductOf[r] = p}

\* findMany of the RESERVED rows for one order line, whoever they are reserved for;
\* a row that another line of the same product found already counts again.
Consolidate(w) ==
  /\ step[w] = "consolidate" /\ work[w].todo # <<>>
  /\ Continue(w, "consolidate", [work[w] EXCEPT !.todo = Tail(@),
       !.lines = [r \in Rows |-> IF r \in RowsFor(Head(work[w].todo))
                                 THEN stock[r] + (IF @[r] = None THEN 0 ELSE @[r])
                                 ELSE @[r]]])

CreateTask(w) ==
  /\ step[w] = "consolidate" /\ work[w].todo = <<>>
  /\ tasks' = Append(tasks, [wave |-> work[w].wave, lines |-> work[w].lines,
                             status |-> IF work[w].picker THEN "ASSIGNED" ELSE "CREATED"])
  /\ Proceed(w, "idle", NoWork)
  /\ UNCHANGED <<orderStatus, stock, waves, paths, queue>>

-----------------------------------------------------------------------------
(* generatePickingPathForWave.                                             *)

\* findFirst of the wave with the lines of its tasks, in no particular order.
ReadTasks(w, i) ==
  /\ step[w] = "idle"
  /\ \E locs \in SetToSeqs(LocsOfWave(i)) :
       Continue(w, "walk", [NoWork EXCEPT !.wave = i, !.locs = locs])

\* Variant: the distance is taken from the start, not from where the picker is.
IsNearest_FromStart(from, s, k) ==
  \A j \in 1..Len(s) : \/ Dist[<<Start, s[k]>>] < Dist[<<Start, s[j]>>]
                       \/ Dist[<<Start, s[k]>>] = Dist[<<Start, s[j]>>] /\ k <= j

\* The first of the nearest nodes that remain.
IsNearest(from, s, k) ==
  \A j \in 1..Len(s) : \/ Dist[<<from, s[k]>>] < Dist[<<from, s[j]>>]
                       \/ Dist[<<from, s[k]>>] = Dist[<<from, s[j]>>] /\ k <= j
Nearest(from, s) == CHOOSE k \in 1..Len(s) : IsNearest(from, s, k)

\* nearestNeighbor: [route, remaining] after n steps.
NearestNeighbor(locs) ==
  LET walk[n \in 0..Len(locs)] ==
        IF n = 0 THEN [route |-> <<Start>>, remaining |-> locs]
        ELSE LET was == walk[n - 1]
                 k   == Nearest(Last(was.route), was.remaining)
             IN [route |-> Append(was.route, was.remaining[k]),
                 remaining |-> RemoveAt(was.remaining, k)]
  IN walk[Len(locs)].route

LengthOf(route) ==
  LET legs == 1..(Len(route) - 1)
  IN SumFunctionOnSet([k \in legs |-> Dist[<<route[k], route[k + 1]>>]], legs)

\* upsert of the path.
StorePath(w) ==
  LET route == NearestNeighbor(work[w].locs)
  IN /\ step[w] = "walk"
     /\ paths' = [paths EXCEPT ![work[w].wave] =
          [route |-> route, length |-> LengthOf(route), seen |-> ToSet(work[w].locs)]]
     /\ Proceed(w, "idle", NoWork)
     /\ UNCHANGED <<orderStatus, stock, waves, tasks, queue>>

-----------------------------------------------------------------------------
\* An error or a crash.  A job is dropped, or handed out again after the first crash.
GiveUp(w) ==
  /\ step[w] # "idle"
  /\ Proceed(w, "idle", NoWork)
  /\ \/ UNCHANGED queue
     \/ work[w].job = "first" /\ queue' = [queue EXCEPT !["again"] = @ + 1]
  /\ UNCHANGED tables

WaveNext ==
  \/ Enqueue
  \/ \E o \in OutboundOrders : FinishOrder(o) \/ \E new \in Eligible : Release(o, new)
  \/ \E r \in Rows : PickRow(r)
  \/ \E i \in 1..Len(waves) : AssignWave(i) \/ \E new \in WaveStatus : MarkWave(i, new)
  \/ \E w \in Handlers :
       \/ GenerateByRequest(w) \/ \E job \in DOMAIN queue : GenerateByJob(w, job)
       \/ CreateWaves(w) \/ Report(w) \/ Consolidate(w) \/ CreateTask(w) \/ StorePath(w) \/ GiveUp(w)
       \/ \E i \in 1..Len(waves) : ReadWave(w, i) \/ ReadTasks(w, i)

WaveSpec == WaveInit /\ [][WaveNext]_waveVars

\* The scheduler goes on, a job that waits is taken up and not every attempt fails.
WaveFairness ==
  /\ WF_waveVars(Enqueue)
  /\ \A w \in Handlers : /\ SF_waveVars(\E job \in DOMAIN queue : GenerateByJob(w, job))
                        /\ SF_waveVars(CreateWaves(w))
                        /\ WF_waveVars(GiveUp(w) \/ Report(w) \/ Consolidate(w) \/ CreateTask(w) \/ StorePath(w))

FairWaveSpec == WaveSpec /\ WaveFairness

-----------------------------------------------------------------------------
\* The waves of one generation hold each order it found once, only orders of one
\* key together, and no more of them than asked for; a repeated or overlapping
\* generation makes waves of its own.
GenerationsPartition ==
  \A i \in 1..Len(waves) :
    LET peers == {j \in 1..Len(waves) : waves[j].gen = waves[i].gen}
    IN /\ waves[i].found = UNION {ToSet(waves[j].orders) : j \in peers}
       /\ waves[i].size # 0 => waves[i].total <= waves[i].size
       /\ \A x, y \in ToSet(waves[i].orders) : KeyOf[x] = KeyOf[y]
       /\ IsInjective(waves[i].orders)
       /\ \A j \in peers \ {i} : ToSet(waves[i].orders) \cap ToSet(waves[j].orders) = {}

\* A task of a wave asks for nothing but reserved rows of the products its orders
\* name, and for no row more than what was reserved once for each such line.
TasksAskForReservations ==
  \A k \in 1..Len(tasks) : \A r \in Rows :
    LET asked  == LinesOfWave(waves[tasks[k].wave])
        naming == {j \in 1..Len(asked) : asked[j] = ProductOf[r]}
    IN tasks[k].lines[r] # None =>
         naming # {} /\ tasks[k].lines[r] <= Cardinality(naming) * Reserved[r]

\* A path starts at the start, goes once to every location of the lines it was made
\* from, to none that no task of the wave has a line at, and always to a nearest one.
PathsAreGreedyTours ==
  \A i \in 1..Len(paths) :
    LET route == paths[i].route
    IN route # <<>> =>
         /\ route[1] = Start /\ IsInjective(route)
         /\ ToSet(Tail(route)) = paths[i].seen /\ paths[i].seen \subseteq LocsOfWave(i)
         /\ \A k \in 1..(Len(route) - 1), j \in 1..Len(route) :
              j > k => Dist[<<route[k], route[k + 1]>>] <= Dist[<<route[k], route[j]>>]

\* An order that is allocated gets into a wave, unless it is picked before (or the
\* bound on the waves is reached), although jobs fail and are not retried.
EveryOrderGetsAWave ==
  \A o \in OutboundOrders :
    o \in Allocated ~> \/ \E i \in 1..Len(waves) : o \in ToSet(waves[i].orders)
                       \/ o \notin Allocated \/ ~Room
=============================================================================
