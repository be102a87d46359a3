------------------------------- MODULE Picking -------------------------------
(***************************************************************************)
(* Picking tasks of OutboundService, statement by statement: they are      *)
(* created from the RESERVED rows of an allocated order (createPickingTask), *)
(* started (startPickingTask) and confirmed line by line                   *)
(* (confirmPickingTask); POST /picking-tasks/:id/complete is a start       *)
(* followed by a confirm of one line.                                      *)
(*                                                                         *)
(* Requests (Workers) overlap.  Each reads its order or task before its    *)
(* transaction; inside, at READ COMMITTED, a SELECT sees what is committed *)
(* plus the transaction's own writes, an UPDATE waits for the row's lock   *)
(* and stores an absolute value, and COMMIT publishes everything.          *)
(*                                                                         *)
(* A lot is one combination of product, batch, location and uom; it has    *)
(* one RESERVED row (OrderRelease!OneReservedRow), which stays when its    *)
(* quantity reaches zero.  A task line is told apart by its order line and *)
(* its lot, a slot.                                                        *)
(***************************************************************************)
EXTENDS Integers, Sequences, FiniteSetsExt

CONSTANTS
  Orders, Lines, Lots, Workers,
  Tasks,       \* the picking tasks that requests may create
  NoTask,      \* the task of a worker that serves no request
  TaskOrder,   \* [Tasks -> Orders]: outboundOrderId
  LinesOf,     \* [Orders -> SUBSET Lines]: order.lines
  LotsOf,      \* [Lines -> SUBSET Lots]: the lots of the line's product
  Requested,   \* [Lines -> Nat]: requestedQty
  Stock,       \* [Lots -> Nat]: RESERVED quantity before any picking
  Confirms     \* the line lists a confirm may carry, sequences of Pick

Slots == {s \in Lines \X Lots : s[2] \in LotsOf[s[1]]}
Pick  == [slot : Slots, qty : Nat \ {0}]

ASSUME PickingAssumption ==
  /\ NoTask \notin Tasks
  /\ IsFiniteSet(Tasks) /\ IsFiniteSet(Lines) /\ IsFiniteSet(Lots)
  /\ TaskOrder \in [Tasks -> Orders]
  /\ LinesOf \in [Orders -> SUBSET Lines]
  /\ LotsOf \in [Lines -> SUBSET Lots]
  /\ Requested \in [Lines -> Nat]
  /\ Stock \in [Lots -> Nat]
  /\ Confirms \subseteq Seq(Pick)
  /\ \A o, p \in Orders : o # p => LinesOf[o] \cap LinesOf[p] = {}

VARIABLES
  orderStatus,  \* [Orders -> OrderStatus], OutboundOrder.status
  pickedQty,    \* [Lines -> Nat], OutboundOrderLine.pickedQty
  reserved,     \* [Lots -> Nat], quantity of the lot's RESERVED row
  moved,        \* [Lots -> Nat], total of the lot's OUTBOUND_SHIPMENT movements
  taskStatus,   \* [Tasks -> TaskStatus], PickingTask.status
  toPick,       \* [Tasks -> [Slots -> Entry]], quantityToPick; None: no line
  picked,       \* [Tasks -> [Slots -> Nat]], quantityPicked
  repeated,     \* history: the lots of the task lines that a confirm listed twice
  overlapped,   \* history: whether two requests were ever under way at once
  pc,           \* [Workers -> Control], the statement a request is about to run
  tx            \* [Workers -> Tx], its locals and uncommitted writes

rows == <<orderStatus, pickedQty, reserved, moved, taskStatus, toPick, picked, repeated>>
vars == <<rows, overlapped, pc, tx>>

None  == -1
Entry == Nat \cup {None}

OrderStatus == {"ALLOCATED", "PICKING", "PARTIALLY_PICKED", "PICKED"}
TaskStatus  == {"NONE", "CREATED", "IN_PROGRESS", "COMPLETED"}
Control     == {"idle", "plan", "start", "lines", "find", "take", "taskLine",
                "orderLine", "task", "order", "commit"}

Tx == [task  : Tasks \cup {NoTask},
       left  : SUBSET Lines,               \* order lines still to be planned
       plan  : [Slots -> Entry],           \* uncommitted task lines
       dto   : Seq(Pick), k : Nat,         \* the confirm's lines, current one
       base  : [Slots -> Nat],             \* quantityPicked as first read
       found : Nat,                        \* reservation.quantity
       all   : BOOLEAN,                    \* allPicked
       next  : OrderStatus,                \* newOrderStatus
       resv  : [Lots -> Entry],            \* uncommitted writes, by table
       pick  : [Slots -> Entry],
       qty   : [Lines -> Entry],
       moves : [Lots -> Nat],
       wrote : BOOLEAN]                    \* the task row is written and locked

NoTx == [task |-> NoTask, left |-> {}, plan |-> [s \in Slots |-> None],
         dto |-> <<>>, k |-> 0, base |-> [s \in Slots |-> 0], found |-> 0,
         all |-> FALSE, next |-> "ALLOCATED",
         resv |-> [l \in Lots |-> None], pick |-> [s \in Slots |-> None],
         qty |-> [ln \in Lines |-> None], moves |-> [l \in Lots |-> 0],
         wrote |-> FALSE]

TypeOK ==
  /\ orderStatus \in [Orders -> OrderStatus]
  /\ pickedQty \in [Lines -> Nat]
  /\ reserved \in [Lots -> Nat]
  /\ moved \in [Lots -> Nat]
  /\ taskStatus \in [Tasks -> TaskStatus]
  /\ toPick \in [Tasks -> [Slots -> Entry]]
  /\ picked \in [Tasks -> [Slots -> Nat]]
  /\ repeated \subseteq Lots /\ overlapped \in BOOLEAN
  /\ pc \in [Workers -> Control]
  /\ tx \in [Workers -> Tx]

-----------------------------------------------------------------------------
(* What a transaction sees, and which row locks the others hold.           *)

Order(w) == TaskOrder[tx[w].task]
Current(w) == tx[w].dto[tx[w].k]
Slot(w)  == Current(w).slot
Lot(w)   == Slot(w)[2]
Line(w)  == Slot(w)[1]

ReservedIn(w, l) == IF tx[w].resv[l] = None THEN reserved[l] ELSE tx[w].resv[l]
PickedIn(w, s) ==
  IF tx[w].pick[s] = None THEN picked[tx[w].task][s] ELSE tx[w].pick[s]
PickedQtyIn(w, ln) == IF tx[w].qty[ln] = None THEN pickedQty[ln] ELSE tx[w].qty[ln]

ResvHolders(w) == {v \in Workers \ {w} : tx[v].resv[Lot(w)] # None}
SlotHolders(w) ==
  {v \in Workers \ {w} : tx[v].task = tx[w].task /\ tx[v].pick[Slot(w)] # None}
LineHolders(w) == {v \in Workers \ {w} : tx[v].qty[Line(w)] # None}
TaskHolders(w) == {v \in Workers \ {w} : tx[v].task = tx[w].task /\ tx[v].wrote}

PlannedSlots(t) == {s \in Slots : toPick[t][s] # None}

-----------------------------------------------------------------------------
Init ==
  /\ orderStatus = [o \in Orders |-> "ALLOCATED"]
  /\ pickedQty = [ln \in Lines |-> 0]
  /\ reserved = Stock
  /\ moved = [l \in Lots |-> 0]
  /\ taskStatus = [t \in Tasks |-> "NONE"]
  /\ toPick = [t \in Tasks |-> [s \in Slots |-> None]]
  /\ picked = [t \in Tasks |-> [s \in Slots |-> 0]]
  /\ repeated = {} /\ overlapped = FALSE
  /\ pc = [w \in Workers |-> "idle"]
  /\ tx = [w \in Workers |-> NoTx]

\* One statement of w, after which it is at next with the locals t.
Goto(w, next, t) ==
  /\ pc' = [pc EXCEPT ![w] = next]
  /\ tx' = [tx EXCEPT ![w] = t]
  /\ overlapped' = (overlapped \/ \E v \in Workers \ {w} : pc[v] # "idle")

\* One that changes no committed row.
Local(w, next, t) == Goto(w, next, t) /\ UNCHANGED rows

-----------------------------------------------------------------------------
(* createPickingTask.                                                      *)

\* findFirst of the order, outside the transaction; t is a fresh id.
CheckOrder(w, t) ==
  /\ pc[w] = "idle"
  /\ taskStatus[t] = "NONE" /\ \A v \in Workers : tx[v].task # t
  /\ orderStatus[TaskOrder[t]] = "ALLOCATED"
  /\ Local(w, "plan", [NoTx EXCEPT !.task = t, !.left = LinesOf[TaskOrder[t]]])

\* findMany of the RESERVED rows of one order line's product, whoever they were
\* reserved for: each that is not empty becomes a task line.
PlanLine(w) ==
  /\ pc[w] = "plan"
  /\ \E ln \in tx[w].left :
       Local(w, "plan",
         [tx[w] EXCEPT !.left = @ \ {ln},
                       !.plan = [s \in Slots |->
                          IF s[1] = ln /\ reserved[s[2]] > 0 THEN reserved[s[2]] ELSE @[s]]])

\* The order becomes PICKING, and COMMIT shows the task.
CreateTask(w) ==
  LET t == tx[w].task
  IN /\ pc[w] = "plan" /\ tx[w].left = {}
     /\ taskStatus' = [taskStatus EXCEPT ![t] = "CREATED"]
     /\ toPick' = [toPick EXCEPT ![t] = tx[w].plan]
     /\ orderStatus' = [orderStatus EXCEPT ![Order(w)] = "PICKING"]
     /\ Goto(w, "idle", NoTx)
     /\ UNCHANGED <<pickedQty, reserved, moved, picked, repeated>>

-----------------------------------------------------------------------------
(* startPickingTask: a read, a check and an UPDATE, without a transaction. *)

\* Variant: the status is not looked at.
CheckStart_AnyStatus(w, t) ==
  /\ pc[w] = "idle"
  /\ taskStatus[t] # "NONE"
  /\ Local(w, "start", [NoTx EXCEPT !.task = t])

\* "Picking task cannot be started" once it is in progress or completed.
CheckStart(w, t) ==
  /\ pc[w] = "idle"
  /\ taskStatus[t] = "CREATED"
  /\ Local(w, "start", [NoTx EXCEPT !.task = t])

Start(w) ==
  /\ pc[w] = "start"
  /\ TaskHolders(w) = {}
  /\ taskStatus' = [taskStatus EXCEPT ![tx[w].task] = "IN_PROGRESS"]
  /\ Goto(w, "idle", NoTx)
  /\ UNCHANGED <<orderStatus, pickedQty, reserved, moved, toPick, picked, repeated>>

-----------------------------------------------------------------------------
(* confirmPickingTask.                                                     *)

\* findFirst of the task, outside the transaction: only IN_PROGRESS goes on.
ReadTask(w, t, dto) ==
  /\ pc[w] = "idle"
  /\ taskStatus[t] = "IN_PROGRESS"
  /\ \A k \in 1..Len(dto) : dto[k].slot \in PlannedSlots(t)
  /\ Local(w, "lines", [NoTx EXCEPT !.task = t, !.dto = dto])

\* The queries of its includes: the task's lines and the order.
ReadLines(w) ==
  /\ pc[w] = "lines"
  /\ Local(w, "find", [tx[w] EXCEPT !.k = 1, !.base = picked[tx[w].task],
                                    !.next = orderStatus[Order(w)]])

\* Variants: what was already picked is forgotten; the reservation is not
\* compared with the quantity.
Allowed_NotNet(w) ==
  /\ Current(w).qty <= toPick[tx[w].task][Slot(w)]
  /\ Current(w).qty <= ReservedIn(w, Lot(w))
Allowed_AnyReservation(w) ==
  Current(w).qty <= toPick[tx[w].task][Slot(w)] - tx[w].base[Slot(w)]

\* The checks of one line of the confirm, against what was first read and
\* against the reservation of now.
Allowed(w) ==
  /\ Current(w).qty <= toPick[tx[w].task][Slot(w)] - tx[w].base[Slot(w)]
  /\ Current(w).qty <= ReservedIn(w, Lot(w))

\* findFirst of the lot's RESERVED row.
FindReservation(w) ==
  /\ pc[w] = "find" /\ tx[w].k <= Len(tx[w].dto)
  /\ Allowed(w)
  /\ Local(w, "take", [tx[w] EXCEPT !.found = ReservedIn(w, Lot(w))])

\* UPDATE of the reservation, once its row lock is free.
TakeReservation(w) ==
  /\ pc[w] = "take"
  /\ ResvHolders(w) = {}
  /\ Local(w, "taskLine", [tx[w] EXCEPT !.resv[Lot(w)] = tx[w].found - Current(w).qty])

\* Variant: the task line records only this confirm.
WriteTaskLine_Last(w) ==
  /\ pc[w] = "taskLine" /\ SlotHolders(w) = {}
  /\ Local(w, "orderLine", [tx[w] EXCEPT !.pick[Slot(w)] = Current(w).qty])

\* UPDATE of the task line: what was first read plus this confirm.
WriteTaskLine(w) ==
  /\ pc[w] = "taskLine" /\ SlotHolders(w) = {}
  /\ Local(w, "orderLine",
       [tx[w] EXCEPT !.pick[Slot(w)] = tx[w].base[Slot(w)] + Current(w).qty])

\* Variant: no movement line is inserted.
WriteOrderLine_NoMovement(w) ==
  /\ pc[w] = "orderLine" /\ LineHolders(w) = {}
  /\ Local(w, "find",
       [tx[w] EXCEPT !.qty[Line(w)] = tx[w].base[Slot(w)] + Current(w).qty,
                     !.k = @ + 1, !.found = 0])

\* UPDATE of the order line, with the quantity of this one task line, and
\* INSERT of the movement line.
WriteOrderLine(w) ==
  /\ pc[w] = "orderLine" /\ LineHolders(w) = {}
  /\ Local(w, "find",
       [tx[w] EXCEPT !.qty[Line(w)] = tx[w].base[Slot(w)] + Current(w).qty,
                     !.moves[Lot(w)] = @ + Current(w).qty,
                     !.k = @ + 1, !.found = 0])

\* Variant: one fully picked line closes the task.
AllPicked_Any(w) ==
  \E s \in PlannedSlots(tx[w].task) : PickedIn(w, s) = toPick[tx[w].task][s]

AllPicked(w) ==
  \A s \in PlannedSlots(tx[w].task) : PickedIn(w, s) = toPick[tx[w].task][s]

\* findMany of the task's lines.
JudgeTask(w) ==
  /\ pc[w] = "find" /\ tx[w].k > Len(tx[w].dto)
  /\ Local(w, "task", [tx[w] EXCEPT !.all = AllPicked(w)])

\* UPDATE of the task; "task.status" is IN_PROGRESS, as ReadTask saw it.
WriteTask(w) ==
  /\ pc[w] = "task" /\ TaskHolders(w) = {}
  /\ Local(w, "order", [tx[w] EXCEPT !.wrote = TRUE])

NewOrderStatus(w) ==
  IF \A ln \in LinesOf[Order(w)] : PickedQtyIn(w, ln) = Requested[ln] THEN "PICKED"
  ELSE IF \E ln \in LinesOf[Order(w)] : PickedQtyIn(w, ln) > 0 THEN "PARTIALLY_PICKED"
  ELSE tx[w].next

\* findMany of the order's lines.
JudgeOrder(w) ==
  /\ pc[w] = "order"
  /\ Local(w, "commit", [tx[w] EXCEPT !.next = NewOrderStatus(w)])

ListedTwice(dto) ==
  {s \in Slots : \E i, j \in 1..Len(dto) : i # j /\ dto[i].slot = s /\ dto[j].slot = s}

\* UPDATE of the order, and COMMIT.
Commit(w) ==
  LET t == tx[w].task
  IN /\ pc[w] = "commit"
     /\ orderStatus' = [orderStatus EXCEPT ![Order(w)] = tx[w].next]
     /\ pickedQty' = [ln \in Lines |-> PickedQtyIn(w, ln)]
     /\ reserved' = [l \in Lots |-> ReservedIn(w, l)]
     /\ moved' = [l \in Lots |-> moved[l] + tx[w].moves[l]]
     /\ taskStatus' = [taskStatus EXCEPT ![t] =
                         IF tx[w].all THEN "COMPLETED" ELSE "IN_PROGRESS"]
     /\ picked' = [picked EXCEPT ![t] = [s \in Slots |-> PickedIn(w, s)]]
     /\ repeated' = repeated \cup {s[2] : s \in ListedTwice(tx[w].dto)}
     /\ Goto(w, "idle", NoTx)
     /\ UNCHANGED toPick

\* The request answers with an error; its transaction's writes are dropped.
Rollback(w) == Local(w, "idle", NoTx)

\* 'Cannot pick more than reserved' or 'Not enough reserved stock'.
Refuse(w) ==
  /\ pc[w] = "find" /\ tx[w].k <= Len(tx[w].dto)
  /\ ~Allowed(w)
  /\ Rollback(w)

-----------------------------------------------------------------------------
\* A lost connection, Prisma's transaction timeout or a crash of the process.
Fail(w) == pc[w] # "idle" /\ Rollback(w)

WaitsFor(w) ==
  CASE pc[w] = "take"      -> ResvHolders(w)
    [] pc[w] = "taskLine"  -> SlotHolders(w)
    [] pc[w] = "orderLine" -> LineHolders(w)
    [] pc[w] \in {"task", "start"} -> TaskHolders(w)
    [] OTHER -> {}

\* Variant: nobody breaks a cycle of waiting transactions.
DeadlockVictim_None(w) == FALSE /\ Rollback(w)

\* PostgreSQL aborts a transaction that waits in a cycle.
DeadlockVictim(w) ==
  /\ \E S \in SUBSET Workers : w \in S /\ UNION {WaitsFor(v) : v \in S} = S
  /\ Rollback(w)

Statement(w) ==
  \/ PlanLine(w) \/ CreateTask(w) \/ Start(w) \/ ReadLines(w)
  \/ FindReservation(w) \/ TakeReservation(w) \/ WriteTaskLine(w) \/ WriteOrderLine(w)
  \/ JudgeTask(w) \/ WriteTask(w) \/ JudgeOrder(w) \/ Commit(w) \/ Refuse(w)

Next ==
  \E w \in Workers :
    \/ \E t \in Tasks : \/ CheckOrder(w, t)
                        \/ CheckStart(w, t)
                        \/ \E dto \in Confirms : ReadTask(w, t, dto)
    \/ Statement(w)
    \/ Fail(w)
    \/ DeadlockVictim(w)

Spec == Init /\ [][Next]_vars

\* Every statement is executed (a row lock is granted in arrival order, hence
\* strong fairness) and the deadlock detector runs; requests need not arrive.
Fairness ==
  \A w \in Workers : SF_vars(Statement(w)) /\ WF_vars(DeadlockVictim(w))

FairSpec == Spec /\ Fairness

-----------------------------------------------------------------------------
(* Properties that hold for any number of overlapping requests.            *)

PickedAt == [p \in Tasks \X Slots |-> picked[p[1]][p[2]]]
SlotsOf(l) == {p \in Tasks \X Slots : p[2][2] = l}
PickedOfLot(l) == SumFunctionOnSet(PickedAt, SlotsOf(l))

\* However confirms interleave, and although each stores an absolute quantity
\* computed from a stale read, what has left a lot by movements plus what is
\* still RESERVED covers what there was: no unit vanishes without a movement.
NothingVanishes == \A l \in Lots : reserved[l] + moved[l] >= Stock[l]

\* A unit that a task line records as picked has its movement, also when
\* another confirm has overwritten the line in between.
PicksAreTraced == \A l \in Lots : PickedOfLot(l) <= moved[l]

\* No task line is picked beyond its quantityToPick, although the check uses
\* a quantityPicked read before the transaction.
PicksWithinTask ==
  \A t \in Tasks : \A s \in Slots : picked[t][s] > 0 => picked[t][s] <= toPick[t][s]

\* Every request returns, although a confirm locks rows in the order its caller
\* lists the lines: a cycle of waiting requests is broken by the database.
EveryRequestReturns ==
  \A w \in Workers : pc[w] # "idle" ~> pc[w] = "idle"

-----------------------------------------------------------------------------
(* What requests that do not overlap keep.                                 *)

\* Each unit that leaves a reservation is one unit of movement, and no other.
LedgerBalanced == \A l \in Lots : reserved[l] + moved[l] = Stock[l]

\* The movements of a lot are exactly what the tasks record as picked, unless a confirm
\* listed a task line twice: both quantities are moved, and the second is recorded.
MovementsMatchPicks == \A l \in Lots \ repeated : PickedOfLot(l) = moved[l]

\* A task is COMPLETED exactly when it has lines and all are picked in full.
AllSlotsPicked(t) == \A s \in PlannedSlots(t) : picked[t][s] = toPick[t][s]
CompletedMeansPicked ==
  \A t \in Tasks : /\ taskStatus[t] = "COMPLETED" => AllSlotsPicked(t)
                   /\ taskStatus[t] = "IN_PROGRESS" /\ PlannedSlots(t) # {}
                        => ~AllSlotsPicked(t)

\* An order that requests something is PICKED exactly when each of its lines has the
\* requested pickedQty, and PARTIALLY_PICKED when only some quantity is there.
StatusAgreesWithPicks ==
  \A o \in {p \in Orders : \E ln \in LinesOf[p] : Requested[ln] > 0} :
    LET full == \A ln \in LinesOf[o] : pickedQty[ln] = Requested[ln]
        some == \E ln \in LinesOf[o] : pickedQty[ln] > 0
    IN /\ orderStatus[o] = "PICKED" <=> full
       /\ orderStatus[o] = "PARTIALLY_PICKED" <=> some /\ ~full

\* As long as requests do not overlap, each unit that leaves a reservation is one unit of
\* movement and one that a task line records; a task is COMPLETED exactly when all it has
\* is picked in full, whichever lines each confirm lists; and the order's status follows
\* the pickedQty of its lines (which a confirm may set lower than it was).
SerialPicks == ~overlapped => /\ LedgerBalanced /\ MovementsMatchPicks
                              /\ CompletedMeansPicked /\ StatusAgreesWithPicks

-----------------------------------------------------------------------------
(* Statements of the documents that the code does not keep.                *)

PickedOfLine(ln) ==
  SumFunctionOnSet(PickedAt, {p \in Tasks \X Slots : p[2][1] = ln})

\* The order line carries the quantity picked for it.
PickedQtyIsWhatWasPicked == \A ln \in Lines : pickedQty[ln] = PickedOfLine(ln)
=============================================================================
