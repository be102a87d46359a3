---------------------------- MODULE PickingProofs ----------------------------
(***************************************************************************)
(* Proofs about Picking, for any orders, tasks, lots, confirms and number  *)
(* of concurrent requests.                                                 *)
(***************************************************************************)
EXTENDS Picking, SumLemmas

(***************************************************************************)
(* The inductive invariant.  A reservation may be stored from a stale      *)
(* read, but the read was covered by the movements committed then, and     *)
(* committed movements only grow: what a request is about to store, with   *)
(* its own movements and the pick it is working on, still covers the stock *)
(* of the lot.  No row lock is needed for this.                            *)
(***************************************************************************)
InLoop(c) == c \in {"take", "taskLine", "orderLine"}
Cur(t)    == t.dto[t.k]

\* What is taken from the reservation but has no movement line yet.
Pending(c, t, l) ==
  IF c \in {"taskLine", "orderLine"} /\ l = Cur(t).slot[2] THEN Cur(t).qty ELSE 0

\* Only createPickingTask works on a task that is not committed yet.
TaskOK(c, t) ==
  /\ c = "idle" => \A s \in Slots : t.pick[s] = None
  /\ c # "idle" => t.task \in Tasks /\ (taskStatus[t.task] = "NONE" <=> c = "plan")

LoopOK(c, t) ==
  /\ c = "find" => t.k >= 1
  /\ InLoop(c) => /\ t.k \in 1..Len(t.dto)
                  /\ Cur(t).qty <= toPick[t.task][Cur(t).slot] - t.base[Cur(t).slot]

BoundOK(t) == \A s \in Slots : t.pick[s] # None => t.pick[s] <= toPick[t.task][s]

FoundOK(c, t) ==
  c = "take" =>
    /\ Cur(t).qty <= t.found
    /\ t.found + t.moves[Cur(t).slot[2]] + moved[Cur(t).slot[2]] >= Stock[Cur(t).slot[2]]

CoverOK(c, t) ==
  \A l \in Lots :
    t.resv[l] # None => t.resv[l] + t.moves[l] + Pending(c, t, l) + moved[l] >= Stock[l]

\* A request at statement c with the locals t.
Good(c, t) == TaskOK(c, t) /\ LoopOK(c, t) /\ BoundOK(t) /\ FoundOK(c, t) /\ CoverOK(c, t)

PlansDiffer ==
  \A v, w \in Workers : v # w /\ pc[v] = "plan" /\ pc[w] = "plan" => tx[v].task # tx[w].task

\* Nothing is picked of a task before it is there.
NewTasksUnpicked ==
  \A t \in Tasks : taskStatus[t] = "NONE" => \A s \in Slots : picked[t][s] = 0

IInv ==
  /\ TypeOK
  /\ NewTasksUnpicked
  /\ NothingVanishes
  /\ PicksWithinTask
  /\ PlansDiffer
  /\ \A w \in Workers : Good(pc[w], tx[w])

-----------------------------------------------------------------------------
USE PickingAssumption

LEMMA NoTxGood ==
  /\ NoTx \in Tx
  /\ NoTx.pick = [s \in Slots |-> None]
  /\ NoTx.resv = [l \in Lots |-> None]
  /\ NoTx.moves = [l \in Lots |-> 0]
<1>1. NoTx \in Tx
  <2>1. <<>> \in Seq(Pick)
    OBVIOUS
  <2> QED
    BY <2>1 DEF NoTx, Tx, Entry, None, OrderStatus
<1> QED
  BY <1>1 DEF NoTx

LEMMA InitIInv == Init => IInv
<1> SUFFICES ASSUME Init PROVE IInv
  OBVIOUS
<1>1. TypeOK
  BY NoTxGood DEF Init, TypeOK, OrderStatus, TaskStatus, Control, Entry, None
<1>2. NothingVanishes /\ PicksWithinTask /\ PlansDiffer /\ NewTasksUnpicked
  BY DEF Init, NothingVanishes, PicksWithinTask, PlansDiffer, NewTasksUnpicked
<1>3. ASSUME NEW w \in Workers PROVE Good(pc[w], tx[w])
  BY NoTxGood DEF Init, Good, TaskOK, LoopOK, InLoop, BoundOK, FoundOK, CoverOK
<1> QED
  BY <1>1, <1>2, <1>3 DEF IInv

LEMMA TxTypes ==
  ASSUME TypeOK, NEW w \in Workers
  PROVE  /\ tx[w] \in Tx /\ pc[w] \in Control
         /\ tx[w].task \in Tasks \cup {NoTask} /\ tx[w].left \in SUBSET Lines
         /\ tx[w].plan \in [Slots -> Entry]
         /\ tx[w].dto \in Seq(Pick) /\ tx[w].k \in Nat
         /\ tx[w].base \in [Slots -> Nat] /\ tx[w].found \in Nat
         /\ tx[w].all \in BOOLEAN /\ tx[w].next \in OrderStatus
         /\ tx[w].resv \in [Lots -> Entry] /\ tx[w].pick \in [Slots -> Entry]
         /\ tx[w].qty \in [Lines -> Entry] /\ tx[w].moves \in [Lots -> Nat]
         /\ tx[w].wrote \in BOOLEAN
  BY DEF TypeOK, Tx

\* The line of the confirm that a request is working on.
LEMMA CurrentType ==
  ASSUME TypeOK, NEW w \in Workers, tx[w].k \in 1..Len(tx[w].dto)
  PROVE  /\ Current(w) = Cur(tx[w]) /\ Slot(w) = Cur(tx[w]).slot
         /\ Lot(w) = Cur(tx[w]).slot[2] /\ Line(w) = Cur(tx[w]).slot[1]
         /\ Current(w).qty \in Nat \ {0}
         /\ Slot(w) \in Slots /\ Lot(w) \in Lots /\ Line(w) \in Lines
<1>1. Current(w) \in Pick
  BY TxTypes DEF Current
<1>2. Current(w).qty \in Nat \ {0} /\ Slot(w) \in Slots
  BY <1>1 DEF Pick, Slot
<1>3. Lot(w) \in Lots /\ Line(w) \in Lines
  BY <1>2 DEF Slots, Lot, Line
<1> QED
  BY <1>2, <1>3 DEF Current, Cur, Slot, Lot, Line

LEMMA GotoFlag ==
  ASSUME TypeOK, NEW w, NEW next, NEW t, Goto(w, next, t)
  PROVE  overlapped' \in BOOLEAN
BY DEF Goto, TypeOK

(***************************************************************************)
(* A statement that writes no committed row keeps the invariant when the   *)
(* new locals of its own request are good.                                 *)
(***************************************************************************)
LEMMA LocalStep ==
  ASSUME IInv, NEW w \in Workers, NEW next \in Control, NEW t \in Tx,
         Local(w, next, t), Good(next, t),
         next = "plan" => \A v \in Workers \ {w} : pc[v] = "plan" => tx[v].task # t.task
  PROVE  IInv'
<1> USE DEF IInv
<1>1. /\ tx' = [tx EXCEPT ![w] = t] /\ pc' = [pc EXCEPT ![w] = next]
      /\ UNCHANGED <<orderStatus, pickedQty, reserved, moved, taskStatus, toPick, picked, repeated>>
      /\ overlapped' \in BOOLEAN
  BY GotoFlag DEF Local, Goto, rows
<1>2. TypeOK'
  BY <1>1 DEF TypeOK
<1>3. NothingVanishes' /\ PicksWithinTask' /\ NewTasksUnpicked'
  BY <1>1 DEF NothingVanishes, PicksWithinTask, NewTasksUnpicked
<1>4. /\ tx'[w] = t /\ pc'[w] = next
      /\ \A v \in Workers \ {w} : tx'[v] = tx[v] /\ pc'[v] = pc[v]
  BY <1>1 DEF TypeOK
<1>5. PlansDiffer'
  <2> SUFFICES ASSUME NEW u \in Workers, NEW v \in Workers, u # v,
                      pc'[u] = "plan", pc'[v] = "plan"
      PROVE  tx'[u].task # tx'[v].task
    BY DEF PlansDiffer
  <2> HIDE DEF IInv
  <2>1. PlansDiffer
    BY DEF IInv
  <2>2. CASE u = w
    BY <1>4, <2>2
  <2>3. CASE v = w
    BY <1>4, <2>3
  <2>4. CASE u # w /\ v # w
    BY <1>4, <2>1, <2>4 DEF PlansDiffer
  <2> QED
    BY <2>2, <2>3, <2>4
<1>6. \A c, x : Good(c, x)' <=> Good(c, x)
  BY <1>1 DEF Good, TaskOK, LoopOK, BoundOK, FoundOK, CoverOK
<1>7. ASSUME NEW v \in Workers PROVE Good(pc[v], tx[v])'
  <2>1. Good(pc[v], tx[v])' <=> Good(pc'[v], tx'[v])
    BY <1>1 DEF Good, TaskOK, LoopOK, BoundOK, FoundOK, CoverOK
  <2>2. CASE v = w
    BY <2>1, <2>2, <1>4
  <2>3. CASE v # w
    BY <2>1, <2>3, <1>4
  <2> QED
    BY <2>2, <2>3
<1> QED
  BY <1>2, <1>3, <1>5, <1>7

(***************************************************************************)
(* Statements before, after and between the lines of a confirm: they leave *)
(* the request's writes to reservations, task lines and movements alone.   *)
(***************************************************************************)
LEMMA KeepStep ==
  ASSUME IInv, NEW w \in Workers, NEW next \in Control, NEW t \in Tx,
         Local(w, next, t),
         t.task = tx[w].task, t.pick = tx[w].pick, t.resv = tx[w].resv,
         t.moves = tx[w].moves,
         pc[w] # "idle", pc[w] \notin {"take", "taskLine", "orderLine"},
         next \notin {"idle", "take", "taskLine", "orderLine"},
         next = "plan" <=> pc[w] = "plan",
         next = "find" => t.k >= 1
  PROVE  IInv'
<1>1. Good(pc[w], tx[w]) /\ PlansDiffer
  BY DEF IInv
<1>2. TaskOK(next, t) /\ LoopOK(next, t) /\ BoundOK(t) /\ FoundOK(next, t)
  BY <1>1 DEF Good, TaskOK, LoopOK, BoundOK, FoundOK, InLoop
<1>3. CoverOK(next, t)
  BY <1>1 DEF Good, CoverOK, Pending
<1>4. next = "plan" => \A v \in Workers \ {w} : pc[v] = "plan" => tx[v].task # t.task
  BY <1>1 DEF PlansDiffer
<1> QED
  BY <1>2, <1>3, <1>4, LocalStep DEF Good

LEMMA RollbackStep == ASSUME IInv, NEW w \in Workers, Rollback(w) PROVE IInv'
<1>1. Good("idle", NoTx)
  BY NoTxGood DEF Good, TaskOK, LoopOK, InLoop, BoundOK, FoundOK, CoverOK
<1> QED
  BY <1>1, NoTxGood, LocalStep DEF Rollback, Control

\* A request that starts out with a task and nothing written.
LEMMA EnterStep ==
  ASSUME IInv, NEW w \in Workers, NEW next \in {"plan", "start", "lines"}, NEW t \in Tx,
         Local(w, next, t), t.pick = NoTx.pick, t.resv = NoTx.resv,
         t.task \in Tasks, taskStatus[t.task] = "NONE" <=> next = "plan",
         next = "plan" => \A v \in Workers \ {w} : tx[v].task # t.task
  PROVE  IInv'
<1>1. TaskOK(next, t) /\ LoopOK(next, t) /\ FoundOK(next, t)
  BY DEF TaskOK, LoopOK, FoundOK, InLoop
<1>2. BoundOK(t) /\ CoverOK(next, t)
  BY NoTxGood DEF BoundOK, CoverOK
<1>3. next \in Control
  BY DEF Control
<1> QED
  BY <1>1, <1>2, <1>3, LocalStep DEF Good

LEMMA CheckOrderStep ==
  ASSUME IInv, NEW w \in Workers, NEW t \in Tasks, CheckOrder(w, t) PROVE IInv'
<1> DEFINE x == [NoTx EXCEPT !.task = t, !.left = LinesOf[TaskOrder[t]]]
<1>1. x \in Tx /\ x.task = t /\ x.pick = NoTx.pick /\ x.resv = NoTx.resv
  BY NoTxGood DEF Tx
<1>2. /\ Local(w, "plan", x) /\ taskStatus[t] = "NONE"
      /\ \A v \in Workers : tx[v].task # t
  BY DEF CheckOrder
<1> HIDE DEF x
<1> QED
  BY <1>1, <1>2, EnterStep

LEMMA CheckStartStep ==
  ASSUME IInv, NEW w \in Workers, NEW t \in Tasks, CheckStart(w, t) PROVE IInv'
<1> DEFINE x == [NoTx EXCEPT !.task = t]
<1>1. x \in Tx /\ x.task = t /\ x.pick = NoTx.pick /\ x.resv = NoTx.resv
  BY NoTxGood DEF Tx
<1>2. Local(w, "start", x) /\ taskStatus[t] # "NONE"
  BY DEF CheckStart
<1> HIDE DEF x
<1> QED
  BY <1>1, <1>2, EnterStep

LEMMA ReadTaskStep ==
  ASSUME IInv, NEW w \in Workers, NEW t \in Tasks, NEW dto \in Confirms, ReadTask(w, t, dto)
  PROVE  IInv'
<1> DEFINE x == [NoTx EXCEPT !.task = t, !.dto = dto]
<1>0. dto \in Seq(Pick)
  OBVIOUS
<1>1. x \in Tx /\ x.task = t /\ x.pick = NoTx.pick /\ x.resv = NoTx.resv
  BY <1>0, NoTxGood DEF Tx
<1>2. Local(w, "lines", x) /\ taskStatus[t] # "NONE"
  BY DEF ReadTask
<1> HIDE DEF x
<1> QED
  BY <1>1, <1>2, EnterStep

LEMMA PlanLineStep == ASSUME IInv, NEW w \in Workers, PlanLine(w) PROVE IInv'
<1>1. TypeOK
  BY DEF IInv
<1>2. PICK ln \in tx[w].left :
        Local(w, "plan",
          [tx[w] EXCEPT !.left = @ \ {ln},
                        !.plan = [s \in Slots |->
                          IF s[1] = ln /\ reserved[s[2]] > 0 THEN reserved[s[2]] ELSE @[s]]])
  BY DEF PlanLine
<1> DEFINE p == [s \in Slots |->
                   IF s[1] = ln /\ reserved[s[2]] > 0 THEN reserved[s[2]] ELSE tx[w].plan[s]]
           x == [tx[w] EXCEPT !.left = @ \ {ln}, !.plan = p]
<1>3. p \in [Slots -> Entry]
  <2>1. \A s \in Slots : s[2] \in Lots
    BY DEF Slots
  <2>2. \A s \in Slots : reserved[s[2]] \in Nat /\ tx[w].plan[s] \in Entry
    BY <1>1, <2>1, TxTypes DEF TypeOK
  <2> QED
    BY <2>2 DEF Entry
<1>4. Local(w, "plan", x) /\ pc[w] = "plan"
  BY <1>1, <1>2, TxTypes DEF PlanLine
<1>5. /\ x \in Tx /\ x.task = tx[w].task /\ x.pick = tx[w].pick
      /\ x.resv = tx[w].resv /\ x.moves = tx[w].moves
  <2> HIDE DEF p
  <2>1. tx[w] \in Tx
    BY <1>1, TxTypes
  <2>2. x \in Tx
    BY <1>3, <2>1 DEF Tx
  <2> QED
    BY <2>1, <2>2 DEF Tx
<1> HIDE DEF x
<1> QED
  BY <1>4, <1>5, KeepStep DEF Control

LEMMA ReadLinesStep == ASSUME IInv, NEW w \in Workers, ReadLines(w) PROVE IInv'
<1> DEFINE x == [tx[w] EXCEPT !.k = 1, !.base = picked[tx[w].task],
                              !.next = orderStatus[Order(w)]]
<1>1. TypeOK /\ Good(pc[w], tx[w])
  BY DEF IInv
<1>2. pc[w] = "lines" /\ Local(w, "find", x)
  BY DEF ReadLines
<1>3. tx[w].task \in Tasks
  BY <1>1, <1>2 DEF Good, TaskOK
<1>4. picked[tx[w].task] \in [Slots -> Nat] /\ orderStatus[Order(w)] \in OrderStatus
  BY <1>1, <1>3 DEF TypeOK, Order
<1>5. /\ x \in Tx /\ x.task = tx[w].task /\ x.pick = tx[w].pick
      /\ x.resv = tx[w].resv /\ x.moves = tx[w].moves /\ x.k = 1
  <2>1. tx[w] \in Tx
    BY <1>1, TxTypes
  <2>2. x \in Tx
    BY <1>4, <2>1 DEF Tx
  <2> QED
    BY <2>1, <2>2 DEF Tx
<1> HIDE DEF x
<1> QED
  BY <1>2, <1>5, KeepStep DEF Control

LEMMA JudgeTaskStep == ASSUME IInv, NEW w \in Workers, JudgeTask(w) PROVE IInv'
<1> DEFINE x == [tx[w] EXCEPT !.all = AllPicked(w)]
<1>1. TypeOK
  BY DEF IInv
<1>2. pc[w] = "find" /\ Local(w, "task", x)
  BY DEF JudgeTask
<1>3. AllPicked(w) \in BOOLEAN
  BY DEF AllPicked
<1>4. /\ x \in Tx /\ x.task = tx[w].task /\ x.pick = tx[w].pick
      /\ x.resv = tx[w].resv /\ x.moves = tx[w].moves
  <2>1. tx[w] \in Tx
    BY <1>1, TxTypes
  <2>2. x \in Tx
    BY <1>3, <2>1 DEF Tx
  <2> QED
    BY <2>1, <2>2 DEF Tx
<1> HIDE DEF x
<1> QED
  BY <1>2, <1>4, KeepStep DEF Control

LEMMA WriteTaskStep == ASSUME IInv, NEW w \in Workers, WriteTask(w) PROVE IInv'
<1> DEFINE x == [tx[w] EXCEPT !.wrote = TRUE]
<1>1. TypeOK
  BY DEF IInv
<1>2. pc[w] = "task" /\ Local(w, "order", x)
  BY DEF WriteTask
<1>3. /\ x \in Tx /\ x.task = tx[w].task /\ x.pick = tx[w].pick
      /\ x.resv = tx[w].resv /\ x.moves = tx[w].moves
  <2>1. tx[w] \in Tx
    BY <1>1, TxTypes
  <2>2. x \in Tx
    BY <2>1 DEF Tx
  <2> QED
    BY <2>1, <2>2 DEF Tx
<1> HIDE DEF x
<1> QED
  BY <1>2, <1>3, KeepStep DEF Control

LEMMA JudgeOrderStep == ASSUME IInv, NEW w \in Workers, JudgeOrder(w) PROVE IInv'
<1> DEFINE x == [tx[w] EXCEPT !.next = NewOrderStatus(w)]
<1>1. TypeOK
  BY DEF IInv
<1>2. pc[w] = "order" /\ Local(w, "commit", x)
  BY DEF JudgeOrder
<1>3. NewOrderStatus(w) \in OrderStatus
  BY <1>1, TxTypes DEF NewOrderStatus, OrderStatus
<1>4. /\ x \in Tx /\ x.task = tx[w].task /\ x.pick = tx[w].pick
      /\ x.resv = tx[w].resv /\ x.moves = tx[w].moves
  <2>1. tx[w] \in Tx
    BY <1>1, TxTypes
  <2>2. x \in Tx
    BY <1>3, <2>1 DEF Tx
  <2> QED
    BY <2>1, <2>2 DEF Tx
<1> HIDE DEF x
<1> QED
  BY <1>2, <1>4, KeepStep DEF Control

(***************************************************************************)
(* The four statements that a confirm runs for each of its lines.          *)
(***************************************************************************)
LEMMA FindReservationStep ==
  ASSUME IInv, NEW w \in Workers, FindReservation(w) PROVE IInv'
<1> DEFINE x == [tx[w] EXCEPT !.found = ReservedIn(w, Lot(w))]
<1>1. TypeOK /\ NothingVanishes /\ Good(pc[w], tx[w])
  BY DEF IInv
<1>2. /\ pc[w] = "find" /\ tx[w].k <= Len(tx[w].dto) /\ Allowed(w)
      /\ Local(w, "take", x)
  BY DEF FindReservation
<1>3. tx[w].k \in 1..Len(tx[w].dto)
  BY <1>1, <1>2, TxTypes DEF Good, LoopOK
<1>4. /\ Current(w) = Cur(tx[w]) /\ Slot(w) = Cur(tx[w]).slot
      /\ Lot(w) = Cur(tx[w]).slot[2] /\ Lot(w) \in Lots /\ Slot(w) \in Slots
  BY <1>1, <1>3, CurrentType
<1>5. ReservedIn(w, Lot(w)) \in Nat
  BY <1>1, <1>4, TxTypes DEF ReservedIn, TypeOK, Entry
<1>6. x \in Tx /\ x.found = ReservedIn(w, Lot(w))
  <2>1. tx[w] \in Tx
    BY <1>1, TxTypes
  <2>2. x \in Tx
    BY <2>1, <1>5 DEF Tx
  <2> QED
    BY <2>1, <2>2 DEF Tx
<1>7. /\ x.task = tx[w].task /\ x.pick = tx[w].pick /\ x.resv = tx[w].resv
      /\ x.moves = tx[w].moves /\ x.dto = tx[w].dto /\ x.k = tx[w].k
      /\ x.base = tx[w].base
  BY <1>1, TxTypes DEF Tx
<1>8. Cur(x) = Cur(tx[w])
  BY <1>7 DEF Cur
<1> HIDE DEF x
<1>9. TaskOK("take", x) /\ BoundOK(x)
  BY <1>1, <1>2, <1>7 DEF Good, TaskOK, BoundOK
<1>10. LoopOK("take", x)
  BY <1>2, <1>3, <1>4, <1>7, <1>8 DEF LoopOK, Allowed
<1>11. CoverOK("take", x)
  BY <1>1, <1>2, <1>7 DEF Good, CoverOK, Pending
<1>12. FoundOK("take", x)
  <2>1. Cur(x).qty <= x.found
    BY <1>2, <1>4, <1>6, <1>8 DEF Allowed
  <2>2. tx[w].moves[Lot(w)] \in Nat /\ moved[Lot(w)] \in Nat /\ reserved[Lot(w)] \in Nat
    BY <1>1, <1>4, TxTypes DEF TypeOK
  <2>3. Stock[Lot(w)] \in Nat /\ reserved[Lot(w)] + moved[Lot(w)] >= Stock[Lot(w)]
    BY <1>1, <1>4 DEF NothingVanishes
  <2>4. CASE tx[w].resv[Lot(w)] = None
    BY <2>1, <2>2, <2>3, <2>4, <1>4, <1>6, <1>7, <1>8 DEF FoundOK, ReservedIn
  <2>5. CASE tx[w].resv[Lot(w)] # None
    <3>1. tx[w].resv[Lot(w)] + tx[w].moves[Lot(w)] + 0 + moved[Lot(w)] >= Stock[Lot(w)]
      BY <1>1, <1>2, <1>4, <2>5 DEF Good, CoverOK, Pending
    <3>2. ReservedIn(w, Lot(w)) = tx[w].resv[Lot(w)]
      BY <2>5 DEF ReservedIn
    <3>3. x.found + x.moves[Lot(w)] + moved[Lot(w)] >= Stock[Lot(w)]
      BY <3>1, <3>2, <1>5, <1>6, <1>7, <2>2, <2>3
    <3> QED
      BY <2>1, <3>3, <1>4, <1>8 DEF FoundOK
  <2> QED
    BY <2>4, <2>5
<1> QED
  BY <1>2, <1>6, <1>9, <1>10, <1>11, <1>12, LocalStep DEF Good, Control

LEMMA TakeReservationStep ==
  ASSUME IInv, NEW w \in Workers, TakeReservation(w) PROVE IInv'
<1> DEFINE x == [tx[w] EXCEPT !.resv[Lot(w)] = tx[w].found - Current(w).qty]
<1>1. TypeOK /\ Good(pc[w], tx[w])
  BY DEF IInv
<1>2. pc[w] = "take" /\ Local(w, "taskLine", x)
  BY DEF TakeReservation
<1>3. tx[w].k \in 1..Len(tx[w].dto)
  BY <1>1, <1>2 DEF Good, LoopOK, InLoop
<1>4. /\ Current(w) = Cur(tx[w]) /\ Lot(w) = Cur(tx[w]).slot[2] /\ Lot(w) \in Lots
      /\ Current(w).qty \in Nat \ {0}
  BY <1>1, <1>3, CurrentType
<1>5. /\ Current(w).qty <= tx[w].found
      /\ tx[w].found + tx[w].moves[Lot(w)] + moved[Lot(w)] >= Stock[Lot(w)]
  BY <1>1, <1>2, <1>4 DEF Good, FoundOK
<1>6. tx[w].found - Current(w).qty \in Nat
  BY <1>1, <1>4, <1>5, TxTypes
<1>7. [tx[w].resv EXCEPT ![Lot(w)] = tx[w].found - Current(w).qty] \in [Lots -> Entry]
  BY <1>1, <1>6, TxTypes DEF Entry
<1>8. x \in Tx
  <2>1. tx[w] \in Tx
    BY <1>1, TxTypes
  <2> QED
    BY <2>1, <1>7 DEF Tx
<1>9. /\ x.task = tx[w].task /\ x.pick = tx[w].pick /\ x.moves = tx[w].moves
      /\ x.dto = tx[w].dto /\ x.k = tx[w].k /\ x.base = tx[w].base
      /\ x.resv = [tx[w].resv EXCEPT ![Lot(w)] = tx[w].found - Current(w).qty]
  BY <1>1, TxTypes DEF Tx
<1>10. Cur(x) = Cur(tx[w])
  BY <1>9 DEF Cur
<1> HIDE DEF x
<1>11. TaskOK("taskLine", x) /\ BoundOK(x) /\ FoundOK("taskLine", x)
  BY <1>1, <1>2, <1>9 DEF Good, TaskOK, BoundOK, FoundOK
<1>12. LoopOK("taskLine", x)
  BY <1>1, <1>2, <1>9, <1>10 DEF Good, LoopOK, InLoop
<1>13. CoverOK("taskLine", x)
  <2> SUFFICES ASSUME NEW l \in Lots, x.resv[l] # None
      PROVE  x.resv[l] + x.moves[l] + Pending("taskLine", x, l) + moved[l] >= Stock[l]
    BY DEF CoverOK
  <2>1. CASE l = Lot(w)
    <3>1. x.resv[l] = tx[w].found - Current(w).qty /\ Pending("taskLine", x, l) = Current(w).qty
      BY <2>1, <1>1, <1>4, <1>9, <1>10, TxTypes DEF Pending
    <3>2. tx[w].moves[l] \in Nat /\ moved[l] \in Nat /\ Stock[l] \in Nat /\ tx[w].found \in Nat
      BY <1>1, TxTypes DEF TypeOK
    <3> QED
      BY <3>1, <3>2, <2>1, <1>4, <1>5, <1>9
  <2>2. CASE l # Lot(w)
    <3>1. x.resv[l] = tx[w].resv[l] /\ Pending("taskLine", x, l) = 0 /\ Pending("take", tx[w], l) = 0
      BY <2>2, <1>1, <1>4, <1>9, <1>10, TxTypes DEF Pending
    <3> QED
      BY <3>1, <1>1, <1>2, <1>9 DEF Good, CoverOK
  <2> QED
    BY <2>1, <2>2
<1> QED
  BY <1>2, <1>8, <1>11, <1>12, <1>13, LocalStep DEF Good, Control

LEMMA WriteTaskLineStep == ASSUME IInv, NEW w \in Workers, WriteTaskLine(w) PROVE IInv'
<1> DEFINE q == tx[w].base[Slot(w)] + Current(w).qty
           x == [tx[w] EXCEPT !.pick[Slot(w)] = q]
<1>1. TypeOK /\ Good(pc[w], tx[w])
  BY DEF IInv
<1>2. pc[w] = "taskLine" /\ Local(w, "orderLine", x)
  BY DEF WriteTaskLine
<1>3. tx[w].k \in 1..Len(tx[w].dto) /\ tx[w].task \in Tasks
  BY <1>1, <1>2 DEF Good, LoopOK, InLoop, TaskOK
<1>4. /\ Current(w) = Cur(tx[w]) /\ Slot(w) = Cur(tx[w]).slot /\ Slot(w) \in Slots
      /\ Current(w).qty \in Nat \ {0}
  BY <1>1, <1>3, CurrentType
<1>5. /\ Current(w).qty <= toPick[tx[w].task][Slot(w)] - tx[w].base[Slot(w)]
      /\ tx[w].base[Slot(w)] \in Nat /\ toPick[tx[w].task][Slot(w)] \in Entry
  BY <1>1, <1>2, <1>3, <1>4, TxTypes DEF Good, LoopOK, InLoop, TypeOK
<1>6. q \in Nat /\ q <= toPick[tx[w].task][Slot(w)]
  BY <1>4, <1>5 DEF Entry, None
<1> HIDE DEF q
<1>7. [tx[w].pick EXCEPT ![Slot(w)] = q] \in [Slots -> Entry]
  BY <1>1, <1>6, TxTypes DEF Entry
<1>8. x \in Tx
  <2>1. tx[w] \in Tx
    BY <1>1, TxTypes
  <2> QED
    BY <2>1, <1>7 DEF Tx
<1>9. /\ x.task = tx[w].task /\ x.resv = tx[w].resv /\ x.moves = tx[w].moves
      /\ x.dto = tx[w].dto /\ x.k = tx[w].k /\ x.base = tx[w].base
      /\ x.pick = [tx[w].pick EXCEPT ![Slot(w)] = q]
  BY <1>1, TxTypes DEF Tx
<1>10. Cur(x) = Cur(tx[w])
  BY <1>9 DEF Cur
<1> HIDE DEF x
<1>11. TaskOK("orderLine", x) /\ FoundOK("orderLine", x) /\ LoopOK("orderLine", x)
  BY <1>1, <1>2, <1>9, <1>10 DEF Good, TaskOK, FoundOK, LoopOK, InLoop
<1>12. BoundOK(x)
  BY <1>1, <1>6, <1>9, TxTypes DEF Good, BoundOK
<1>13. CoverOK("orderLine", x)
  BY <1>1, <1>2, <1>9, <1>10 DEF Good, CoverOK, Pending
<1> QED
  BY <1>2, <1>8, <1>11, <1>12, <1>13, LocalStep DEF Good, Control

LEMMA WriteOrderLineStep == ASSUME IInv, NEW w \in Workers, WriteOrderLine(w) PROVE IInv'
<1> DEFINE q == tx[w].base[Slot(w)] + Current(w).qty
           x == [tx[w] EXCEPT !.qty[Line(w)] = q,
                              !.moves[Lot(w)] = @ + Current(w).qty,
                              !.k = @ + 1, !.found = 0]
<1>1. TypeOK /\ Good(pc[w], tx[w])
  BY DEF IInv
<1>2. pc[w] = "orderLine" /\ Local(w, "find", x)
  BY DEF WriteOrderLine
<1>3. tx[w].k \in 1..Len(tx[w].dto)
  BY <1>1, <1>2 DEF Good, LoopOK, InLoop
<1>4. /\ Current(w) = Cur(tx[w]) /\ Lot(w) = Cur(tx[w]).slot[2]
      /\ Slot(w) \in Slots /\ Lot(w) \in Lots /\ Line(w) \in Lines
      /\ Current(w).qty \in Nat \ {0}
  BY <1>1, <1>3, CurrentType
<1>5. q \in Nat /\ tx[w].moves[Lot(w)] + Current(w).qty \in Nat
  <2>1. tx[w].base[Slot(w)] \in Nat /\ tx[w].moves[Lot(w)] \in Nat
    BY <1>1, <1>4, TxTypes
  <2>2. \A m, n : m \in Nat /\ n \in Nat \ {0} => m + n \in Nat
    OBVIOUS
  <2> QED
    BY <2>1, <2>2, <1>4
<1> HIDE DEF q
<1>6. /\ [tx[w].qty EXCEPT ![Line(w)] = q] \in [Lines -> Entry]
      /\ [tx[w].moves EXCEPT ![Lot(w)] = @ + Current(w).qty] \in [Lots -> Nat]
      /\ tx[w].k + 1 \in Nat
  <2>1. [tx[w].qty EXCEPT ![Line(w)] = q] \in [Lines -> Entry]
    BY <1>1, <1>5, TxTypes DEF Entry
  <2>2. [tx[w].moves EXCEPT ![Lot(w)] = @ + Current(w).qty] \in [Lots -> Nat]
    BY <1>1, <1>5, TxTypes
  <2>3. tx[w].k + 1 \in Nat
    BY <1>1, TxTypes
  <2> QED
    BY <2>1, <2>2, <2>3
<1>7. x \in Tx
  <2>1. tx[w] \in Tx
    BY <1>1, TxTypes
  <2> QED
    BY <2>1, <1>6 DEF Tx
<1>8. /\ x.task = tx[w].task /\ x.resv = tx[w].resv /\ x.pick = tx[w].pick
      /\ x.k = tx[w].k + 1
      /\ x.moves = [tx[w].moves EXCEPT ![Lot(w)] = @ + Current(w).qty]
  BY <1>1, TxTypes DEF Tx
<1> HIDE DEF x
<1>9. TaskOK("find", x) /\ BoundOK(x) /\ FoundOK("find", x)
  BY <1>1, <1>2, <1>8 DEF Good, TaskOK, BoundOK, FoundOK
<1>10. LoopOK("find", x)
  BY <1>3, <1>8 DEF LoopOK, InLoop
<1>11. CoverOK("find", x)
  <2> SUFFICES ASSUME NEW l \in Lots, x.resv[l] # None
      PROVE  x.resv[l] + x.moves[l] + Pending("find", x, l) + moved[l] >= Stock[l]
    BY DEF CoverOK
  <2>1. tx[w].resv[l] + tx[w].moves[l] + Pending("orderLine", tx[w], l) + moved[l] >= Stock[l]
    BY <1>1, <1>2, <1>8 DEF Good, CoverOK
  <2>2. x.moves[l] = tx[w].moves[l] + Pending("orderLine", tx[w], l)
    BY <1>1, <1>4, <1>8, TxTypes DEF Pending
  <2>3. /\ tx[w].resv[l] \in Int /\ tx[w].moves[l] \in Int /\ moved[l] \in Int
        /\ Stock[l] \in Int /\ Pending("orderLine", tx[w], l) \in Int
    <3>1. tx[w].resv[l] \in Int /\ tx[w].moves[l] \in Nat
      BY <1>1, TxTypes DEF Entry, None
    <3>2. moved[l] \in Nat /\ Stock[l] \in Nat
      BY <1>1 DEF TypeOK
    <3>3. Pending("orderLine", tx[w], l) \in Nat
      BY <1>4 DEF Pending
    <3> QED
      BY <3>1, <3>2, <3>3
  <2>4. Pending("find", x, l) = 0
    BY DEF Pending
  <2> QED
    BY <2>1, <2>2, <2>3, <2>4, <1>8
<1> QED
  BY <1>2, <1>7, <1>9, <1>10, <1>11, LocalStep DEF Good, Control

(***************************************************************************)
(* Statements that write committed rows.  Another request keeps its part   *)
(* when its task keeps its plan and movements only grow.                   *)
(***************************************************************************)
LEMMA OtherKept ==
  ASSUME IInv, NEW v \in Workers, tx'[v] = tx[v], pc'[v] = pc[v],
         moved' \in [Lots -> Nat], \A l \in Lots : moved'[l] >= moved[l],
         pc[v] # "idle" => /\ toPick'[tx[v].task] = toPick[tx[v].task]
                           /\ taskStatus'[tx[v].task] = "NONE"
                                <=> taskStatus[tx[v].task] = "NONE"
  PROVE  Good(pc[v], tx[v])'
<1>1. TypeOK /\ Good(pc[v], tx[v])
  BY DEF IInv
<1>2. Cur(tx[v])' = Cur(tx[v]) /\ \A l : Pending(pc[v], tx[v], l)' = Pending(pc[v], tx[v], l)
  BY DEF Cur, Pending
<1>3. TaskOK(pc[v], tx[v])' /\ LoopOK(pc[v], tx[v])' /\ BoundOK(tx[v])'
  <2>1. TaskOK(pc[v], tx[v])'
    BY <1>1 DEF Good, TaskOK
  <2>2. LoopOK(pc[v], tx[v])'
    BY <1>1, <1>2 DEF Good, LoopOK, InLoop
  <2>3. BoundOK(tx[v])'
    BY <1>1 DEF Good, BoundOK, TaskOK
  <2> QED
    BY <2>1, <2>2, <2>3
<1>4. FoundOK(pc[v], tx[v])'
  <2> SUFFICES ASSUME pc[v] = "take" PROVE FoundOK("take", tx[v])'
    BY DEF FoundOK
  <2>1. tx[v].k \in 1..Len(tx[v].dto)
    BY <1>1 DEF Good, LoopOK, InLoop
  <2>2. PICK l \in Lots : l = Cur(tx[v]).slot[2]
    BY <1>1, <2>1, CurrentType
  <2>3. tx[v].found + tx[v].moves[l] + moved[l] >= Stock[l] /\ Cur(tx[v]).qty <= tx[v].found
    BY <1>1, <2>2 DEF Good, FoundOK
  <2>4. tx[v].found \in Nat /\ tx[v].moves[l] \in Nat /\ moved[l] \in Nat
    BY <1>1, TxTypes DEF TypeOK
  <2>5. moved'[l] \in Nat /\ Stock[l] \in Nat /\ moved'[l] >= moved[l]
    OBVIOUS
  <2>6. tx[v].found + tx[v].moves[l] + moved'[l] >= Stock[l]
    BY <2>3, <2>4, <2>5
  <2> QED
    BY <1>2, <2>2, <2>3, <2>6 DEF FoundOK
<1>5. CoverOK(pc[v], tx[v])'
  <2> SUFFICES ASSUME NEW l \in Lots, tx[v].resv[l] # None
      PROVE  tx[v].resv[l] + tx[v].moves[l] + Pending(pc[v], tx[v], l) + moved'[l] >= Stock[l]
    BY <1>2 DEF CoverOK
  <2>1. tx[v].resv[l] + tx[v].moves[l] + Pending(pc[v], tx[v], l) + moved[l] >= Stock[l]
    BY <1>1 DEF Good, CoverOK
  <2>2. /\ tx[v].resv[l] \in Int /\ tx[v].moves[l] \in Int /\ moved[l] \in Int
        /\ moved'[l] \in Int /\ Stock[l] \in Int /\ moved'[l] >= moved[l]
    BY <1>1, TxTypes DEF TypeOK, Entry, None
  <2>3. Pending(pc[v], tx[v], l) \in Int
    <3>1. CASE pc[v] \in {"taskLine", "orderLine"}
      <4>1. tx[v].k \in 1..Len(tx[v].dto)
        BY <1>1, <3>1 DEF Good, LoopOK, InLoop
      <4>2. Cur(tx[v]).qty \in Int
        BY <1>1, <4>1, CurrentType
      <4> QED
        BY <4>2 DEF Pending
    <3>2. CASE pc[v] \notin {"taskLine", "orderLine"}
      BY <3>2 DEF Pending
    <3> QED
      BY <3>1, <3>2
  <2> QED
    BY <2>1, <2>2, <2>3
<1> QED
  BY <1>3, <1>4, <1>5 DEF Good

\* The parts of the invariant about requests, when w ends with its locals reset.
LEMMA EndStep ==
  ASSUME IInv, NEW w \in Workers, Goto(w, "idle", NoTx),
         moved' \in [Lots -> Nat], \A l \in Lots : moved'[l] >= moved[l],
         \A v \in Workers \ {w} : pc[v] # "idle" =>
            /\ toPick'[tx[v].task] = toPick[tx[v].task]
            /\ taskStatus'[tx[v].task] = "NONE" <=> taskStatus[tx[v].task] = "NONE"
  PROVE  /\ pc' \in [Workers -> Control] /\ tx' \in [Workers -> Tx]
         /\ PlansDiffer'
         /\ \A v \in Workers : Good(pc[v], tx[v])'
<1>1. TypeOK /\ PlansDiffer
  BY DEF IInv
<1>2. pc' \in [Workers -> Control] /\ tx' \in [Workers -> Tx]
  BY <1>1, NoTxGood DEF Goto, TypeOK, Control
<1>3. /\ pc'[w] = "idle" /\ tx'[w] = NoTx
      /\ \A v \in Workers \ {w} : tx'[v] = tx[v] /\ pc'[v] = pc[v]
  BY <1>1 DEF Goto, TypeOK
<1>4. PlansDiffer'
  <2> SUFFICES ASSUME NEW u \in Workers, NEW v \in Workers, u # v,
                      pc'[u] = "plan", pc'[v] = "plan"
      PROVE  tx'[u].task # tx'[v].task
    BY DEF PlansDiffer
  <2>1. u # w /\ v # w
    BY <1>3
  <2>2. tx'[u] = tx[u] /\ tx'[v] = tx[v] /\ pc'[u] = pc[u] /\ pc'[v] = pc[v]
    BY <2>1, <1>3
  <2> QED
    BY <2>2, <1>1 DEF PlansDiffer
<1>5. ASSUME NEW v \in Workers PROVE Good(pc[v], tx[v])'
  <2>1. CASE v = w
    BY <2>1, <1>3, NoTxGood DEF Good, TaskOK, LoopOK, InLoop, BoundOK, FoundOK, CoverOK
  <2>2. CASE v # w
    BY <2>2, <1>3, OtherKept
  <2> QED
    BY <2>1, <2>2
<1> QED
  BY <1>2, <1>4, <1>5

LEMMA StartStep == ASSUME IInv, NEW w \in Workers, Start(w) PROVE IInv'
<1>1. TypeOK /\ Good(pc[w], tx[w])
  BY DEF IInv
<1>2. /\ pc[w] = "start" /\ Goto(w, "idle", NoTx)
      /\ taskStatus' = [taskStatus EXCEPT ![tx[w].task] = "IN_PROGRESS"]
      /\ UNCHANGED <<orderStatus, pickedQty, reserved, moved, toPick, picked, repeated>>
      /\ overlapped' \in BOOLEAN
  BY <1>1, GotoFlag DEF Start
<1>3. tx[w].task \in Tasks /\ taskStatus[tx[w].task] # "NONE"
  BY <1>1, <1>2 DEF Good, TaskOK
<1>4. /\ taskStatus' \in [Tasks -> TaskStatus]
      /\ \A t \in Tasks : taskStatus'[t] = "NONE" <=> taskStatus[t] = "NONE"
  BY <1>1, <1>2, <1>3 DEF TypeOK, TaskStatus
<1>5. moved' \in [Lots -> Nat] /\ \A l \in Lots : moved'[l] >= moved[l]
  BY <1>1, <1>2 DEF TypeOK
<1>6. ASSUME NEW v \in Workers \ {w}, pc[v] # "idle"
      PROVE  /\ toPick'[tx[v].task] = toPick[tx[v].task]
             /\ taskStatus'[tx[v].task] = "NONE" <=> taskStatus[tx[v].task] = "NONE"
  BY <1>2, <1>4, <1>6 DEF IInv, Good, TaskOK
<1>7. /\ pc' \in [Workers -> Control] /\ tx' \in [Workers -> Tx] /\ PlansDiffer'
      /\ \A v \in Workers : Good(pc[v], tx[v])'
  BY <1>2, <1>5, <1>6, EndStep
<1>8. TypeOK'
  BY <1>1, <1>2, <1>4, <1>7 DEF TypeOK
<1>9. NothingVanishes' /\ PicksWithinTask' /\ NewTasksUnpicked'
  BY <1>2, <1>4 DEF IInv, NothingVanishes, PicksWithinTask, NewTasksUnpicked
<1> QED
  BY <1>7, <1>8, <1>9 DEF IInv

LEMMA CreateTaskStep == ASSUME IInv, NEW w \in Workers, CreateTask(w) PROVE IInv'
<1>1. TypeOK /\ Good(pc[w], tx[w]) /\ PlansDiffer
  BY DEF IInv
<1>2. PICK t : t = tx[w].task
  OBVIOUS
<1>3. /\ pc[w] = "plan" /\ Goto(w, "idle", NoTx)
      /\ taskStatus' = [taskStatus EXCEPT ![t] = "CREATED"]
      /\ toPick' = [toPick EXCEPT ![t] = tx[w].plan]
      /\ orderStatus' = [orderStatus EXCEPT ![Order(w)] = "PICKING"]
      /\ UNCHANGED <<pickedQty, reserved, moved, picked, repeated>>
      /\ overlapped' \in BOOLEAN
  BY <1>1, <1>2, GotoFlag DEF CreateTask
<1>4. t \in Tasks /\ taskStatus[t] = "NONE"
  BY <1>1, <1>2, <1>3 DEF Good, TaskOK
<1>5. /\ taskStatus' \in [Tasks -> TaskStatus] /\ toPick' \in [Tasks -> [Slots -> Entry]]
      /\ orderStatus' \in [Orders -> OrderStatus]
  <2>1. tx[w].plan \in [Slots -> Entry]
    BY <1>1, TxTypes
  <2> QED
    BY <2>1, <1>1, <1>3 DEF TypeOK, TaskStatus, OrderStatus
<1>6. moved' \in [Lots -> Nat] /\ \A l \in Lots : moved'[l] >= moved[l]
  BY <1>1, <1>3 DEF TypeOK
<1>7. ASSUME NEW v \in Workers \ {w}, pc[v] # "idle"
      PROVE  /\ toPick'[tx[v].task] = toPick[tx[v].task]
             /\ taskStatus'[tx[v].task] = "NONE" <=> taskStatus[tx[v].task] = "NONE"
  <2>1. Good(pc[v], tx[v])
    BY DEF IInv
  <2>2. tx[v].task \in Tasks /\ tx[v].task # t
    BY <2>1, <1>1, <1>2, <1>3, <1>4, <1>7 DEF Good, TaskOK, PlansDiffer
  <2> QED
    BY <2>2, <1>1, <1>3 DEF TypeOK
<1>8. /\ pc' \in [Workers -> Control] /\ tx' \in [Workers -> Tx] /\ PlansDiffer'
      /\ \A v \in Workers : Good(pc[v], tx[v])'
  BY <1>3, <1>6, <1>7, EndStep
<1>9. TypeOK'
  BY <1>1, <1>3, <1>5, <1>8 DEF TypeOK
<1>10. NothingVanishes'
  BY <1>3 DEF IInv, NothingVanishes
<1>11. PicksWithinTask'
  <2> SUFFICES ASSUME NEW u \in Tasks, NEW s \in Slots, picked[u][s] > 0
      PROVE  picked[u][s] <= toPick'[u][s]
    BY <1>3 DEF PicksWithinTask
  <2>1. u # t
    BY <1>4 DEF IInv, NewTasksUnpicked
  <2> QED
    BY <2>1, <1>1, <1>3 DEF IInv, PicksWithinTask, TypeOK
<1>12. NewTasksUnpicked'
  BY <1>1, <1>3, <1>4 DEF IInv, NewTasksUnpicked, TypeOK
<1> QED
  BY <1>8, <1>9, <1>10, <1>11, <1>12 DEF IInv

LEMMA CommitStep == ASSUME IInv, NEW w \in Workers, Commit(w) PROVE IInv'
<1>1. TypeOK /\ Good(pc[w], tx[w]) /\ NothingVanishes /\ PicksWithinTask /\ NewTasksUnpicked
  BY DEF IInv
<1>2. PICK t : t = tx[w].task
  OBVIOUS
<1>3. PICK judged \in {"COMPLETED", "IN_PROGRESS"} :
        judged = IF tx[w].all THEN "COMPLETED" ELSE "IN_PROGRESS"
  OBVIOUS
<1>4. /\ pc[w] = "commit" /\ Goto(w, "idle", NoTx)
      /\ orderStatus' = [orderStatus EXCEPT ![Order(w)] = tx[w].next]
      /\ pickedQty' = [ln \in Lines |-> PickedQtyIn(w, ln)]
      /\ reserved' = [l \in Lots |-> ReservedIn(w, l)]
      /\ moved' = [l \in Lots |-> moved[l] + tx[w].moves[l]]
      /\ taskStatus' = [taskStatus EXCEPT ![t] = judged]
      /\ picked' = [picked EXCEPT ![t] = [s \in Slots |-> PickedIn(w, s)]]
      /\ repeated' = repeated \cup {s[2] : s \in ListedTwice(tx[w].dto)}
      /\ UNCHANGED toPick
  BY <1>2, <1>3 DEF Commit
<1>5. t \in Tasks /\ taskStatus[t] # "NONE"
  BY <1>1, <1>2, <1>4 DEF Good, TaskOK
<1>6. /\ \A ln \in Lines : PickedQtyIn(w, ln) \in Nat
      /\ \A l \in Lots : ReservedIn(w, l) \in Nat
      /\ \A s \in Slots : PickedIn(w, s) \in Nat
  <2>1. \A ln \in Lines : PickedQtyIn(w, ln) \in Nat
    BY <1>1, TxTypes DEF PickedQtyIn, TypeOK, Entry
  <2>2. \A l \in Lots : ReservedIn(w, l) \in Nat
    BY <1>1, TxTypes DEF ReservedIn, TypeOK, Entry
  <2>3. \A s \in Slots : PickedIn(w, s) \in Nat
    BY <1>1, <1>2, <1>5, TxTypes DEF PickedIn, TypeOK, Entry
  <2> QED
    BY <2>1, <2>2, <2>3
<1>7. moved' \in [Lots -> Nat] /\ \A l \in Lots : moved'[l] >= moved[l]
  <2>1. \A l \in Lots : moved[l] \in Nat /\ tx[w].moves[l] \in Nat
    BY <1>1, TxTypes DEF TypeOK
  <2>2. \A m, n \in Nat : m + n \in Nat /\ m + n >= m
    OBVIOUS
  <2> QED
    BY <2>1, <2>2, <1>4
<1>8. /\ taskStatus' \in [Tasks -> TaskStatus]
      /\ \A u \in Tasks : taskStatus'[u] = "NONE" <=> taskStatus[u] = "NONE"
  BY <1>1, <1>3, <1>4, <1>5 DEF TypeOK, TaskStatus
<1>9. ASSUME NEW v \in Workers \ {w}, pc[v] # "idle"
      PROVE  /\ toPick'[tx[v].task] = toPick[tx[v].task]
             /\ taskStatus'[tx[v].task] = "NONE" <=> taskStatus[tx[v].task] = "NONE"
  BY <1>4, <1>8, <1>9 DEF IInv, Good, TaskOK
<1>10. /\ pc' \in [Workers -> Control] /\ tx' \in [Workers -> Tx] /\ PlansDiffer'
       /\ \A v \in Workers : Good(pc[v], tx[v])'
  BY <1>4, <1>7, <1>9, EndStep
<1>11. TypeOK'
  <2>1. orderStatus' \in [Orders -> OrderStatus]
    BY <1>1, <1>4, TxTypes DEF TypeOK
  <2>2. pickedQty' \in [Lines -> Nat] /\ reserved' \in [Lots -> Nat]
    BY <1>4, <1>6
  <2>3. picked' \in [Tasks -> [Slots -> Nat]]
    BY <1>1, <1>4, <1>6 DEF TypeOK
  <2>4. repeated' \subseteq Lots /\ overlapped' \in BOOLEAN
    <3>1. \A s \in ListedTwice(tx[w].dto) : s[2] \in Lots
      BY DEF ListedTwice, Slots
    <3> QED
      BY <3>1, <1>1, <1>4, GotoFlag DEF TypeOK
  <2> QED
    BY <2>1, <2>2, <2>3, <2>4, <1>1, <1>4, <1>7, <1>8, <1>10 DEF TypeOK
<1>12. NothingVanishes'
  <2> SUFFICES ASSUME NEW l \in Lots PROVE ReservedIn(w, l) + moved'[l] >= Stock[l]
    BY <1>4 DEF NothingVanishes
  <2>1. /\ moved'[l] = moved[l] + tx[w].moves[l] /\ moved[l] \in Nat /\ tx[w].moves[l] \in Nat
        /\ Stock[l] \in Nat /\ reserved[l] \in Nat /\ tx[w].resv[l] \in Int
    BY <1>1, <1>4, TxTypes DEF TypeOK, Entry, None
  <2>2. CASE tx[w].resv[l] = None
    BY <2>1, <2>2, <1>1 DEF ReservedIn, NothingVanishes
  <2>3. CASE tx[w].resv[l] # None
    <3>1. tx[w].resv[l] + tx[w].moves[l] + 0 + moved[l] >= Stock[l]
      BY <2>3, <1>1, <1>4 DEF Good, CoverOK, Pending
    <3> QED
      BY <3>1, <2>1, <2>3 DEF ReservedIn
  <2> QED
    BY <2>2, <2>3
<1>13. PicksWithinTask'
  <2> SUFFICES ASSUME NEW u \in Tasks, NEW s \in Slots, picked'[u][s] > 0
      PROVE  picked'[u][s] <= toPick[u][s]
    BY <1>4 DEF PicksWithinTask
  <2>1. CASE u # t
    BY <2>1, <1>1, <1>4 DEF PicksWithinTask, TypeOK
  <2>2. CASE u = t
    <3>1. picked'[u][s] = PickedIn(w, s)
      BY <2>2, <1>1, <1>4, <1>5 DEF TypeOK
    <3> QED
      BY <3>1, <2>2, <1>1, <1>2, <1>5 DEF PickedIn, Good, BoundOK, PicksWithinTask
  <2> QED
    BY <2>1, <2>2
<1>14. NewTasksUnpicked'
  <2> SUFFICES ASSUME NEW u \in Tasks, taskStatus[u] = "NONE", NEW s \in Slots
      PROVE  picked'[u][s] = 0
    BY <1>8 DEF NewTasksUnpicked
  <2>1. u # t
    BY <1>5
  <2> QED
    BY <2>1, <1>1, <1>4 DEF NewTasksUnpicked, TypeOK
<1> QED
  BY <1>10, <1>11, <1>12, <1>13, <1>14 DEF IInv

LEMMA StutterStep == ASSUME IInv, UNCHANGED vars PROVE IInv'
<1>1. /\ UNCHANGED <<orderStatus, pickedQty, reserved, moved, taskStatus, toPick, picked>>
      /\ UNCHANGED <<repeated, overlapped, pc, tx>>
  BY DEF vars, rows
<1>2. TypeOK' /\ NewTasksUnpicked'
  BY <1>1 DEF IInv, TypeOK, NewTasksUnpicked
<1>3. NothingVanishes' /\ PicksWithinTask' /\ PlansDiffer'
  BY <1>1 DEF IInv, NothingVanishes, PicksWithinTask, PlansDiffer
<1>4. ASSUME NEW v \in Workers PROVE Good(pc[v], tx[v])'
  <2>1. Good(pc[v], tx[v])
    BY DEF IInv
  <2> QED
    BY <2>1, <1>1 DEF Good, TaskOK, LoopOK, BoundOK, FoundOK, CoverOK, InLoop, Cur, Pending
<1> QED
  BY <1>2, <1>3, <1>4 DEF IInv

LEMMA NextIInv == IInv /\ [Next]_vars => IInv'
<1> SUFFICES ASSUME IInv, [Next]_vars PROVE IInv'
  OBVIOUS
<1>1. ASSUME NEW w \in Workers, NEW t \in Tasks, CheckOrder(w, t) PROVE IInv'
  BY <1>1, CheckOrderStep
<1>2. ASSUME NEW w \in Workers, NEW t \in Tasks, CheckStart(w, t) PROVE IInv'
  BY <1>2, CheckStartStep
<1>3. ASSUME NEW w \in Workers, NEW t \in Tasks, NEW dto \in Confirms, ReadTask(w, t, dto)
      PROVE  IInv'
  BY <1>3, ReadTaskStep
<1>4. ASSUME NEW w \in Workers, Statement(w) PROVE IInv'
  <2>1. CASE PlanLine(w) \/ CreateTask(w) \/ Start(w) \/ ReadLines(w)
    BY <2>1, PlanLineStep, CreateTaskStep, StartStep, ReadLinesStep
  <2>2. CASE \/ FindReservation(w) \/ TakeReservation(w)
             \/ WriteTaskLine(w) \/ WriteOrderLine(w)
    BY <2>2, FindReservationStep, TakeReservationStep, WriteTaskLineStep, WriteOrderLineStep
  <2>3. CASE JudgeTask(w) \/ WriteTask(w) \/ JudgeOrder(w) \/ Commit(w)
    BY <2>3, JudgeTaskStep, WriteTaskStep, JudgeOrderStep, CommitStep
  <2>4. CASE Refuse(w)
    BY <2>4, RollbackStep DEF Refuse
  <2> QED
    BY <1>4, <2>1, <2>2, <2>3, <2>4 DEF Statement
<1>5. ASSUME NEW w \in Workers, Fail(w) \/ DeadlockVictim(w) PROVE IInv'
  BY <1>5, RollbackStep DEF Fail, DeadlockVictim
<1>6. CASE UNCHANGED vars
  BY <1>6, StutterStep
<1> QED
  BY <1>1, <1>2, <1>3, <1>4, <1>5, <1>6 DEF Next

\* The invariant above holds throughout every behaviour of the picking requests.
THEOREM Invariance == Spec => []IInv
<1>1. Init => IInv
  BY InitIInv
<1>2. IInv /\ [Next]_vars => IInv'
  BY NextIInv
<1> QED
  BY <1>1, <1>2, PTL DEF Spec

\* However many confirms overlap, every quantity is a natural number, a
\* reservation never becomes negative, and each variable keeps its type.
THEOREM TypeCorrect == Spec => []TypeOK
<1>1. IInv => TypeOK
  BY DEF IInv
<1> QED
  BY <1>1, Invariance, PTL

\* Although confirms overwrite each other's reservations, no unit leaves one
\* without a movement line.
THEOREM NothingLost == Spec => []NothingVanishes
<1>1. IInv => NothingVanishes
  BY DEF IInv
<1> QED
  BY <1>1, Invariance, PTL

\* No task line is ever picked beyond its quantityToPick, although the check uses
\* what was picked before the transaction began.
THEOREM TaskNeverOverpicked == Spec => []PicksWithinTask
<1>1. IInv => PicksWithinTask
  BY DEF IInv
<1> QED
  BY <1>1, Invariance, PTL

-----------------------------------------------------------------------------
(***************************************************************************)
(* Every recorded pick has its movement.  A confirm stores, over whatever  *)
(* the task line has become, what it first read plus its own quantity; so  *)
(* a value that was read may come back, enlarged, after others have        *)
(* committed.  Movements are never taken back: those of a lot cover any    *)
(* choice of what the task lines hold now and what some request has read   *)
(* of them.                                                                *)
(***************************************************************************)
Claims ==
  {h \in [Tasks \X Slots -> Nat] :
     \A t \in Tasks : \A s \in Slots :
       \/ h[<<t, s>>] <= picked[t][s]
       \/ \E w \in Workers : tx[w].task = t /\ h[<<t, s>>] <= tx[w].base[s]}

ClaimsCovered ==
  \A h \in Claims : \A l \in Lots : SumFunctionOnSet(h, SlotsOf(l)) <= moved[l]

\* What the locals t add to the task lines.
Excess(t) == [p \in Tasks \X Slots |->
                IF p[1] # t.task \/ t.pick[p[2]] = None THEN 0 ELSE t.pick[p[2]] - t.base[p[2]]]

\* What was added to a task line and has no movement line yet.
Unlogged(c, t, l) == IF c = "orderLine" /\ l = Cur(t).slot[2] THEN Cur(t).qty ELSE 0

Unwritten(c) == c \in {"idle", "plan", "start", "lines"}

\* A request at statement c with the locals t moves what it adds.
Logs(c, t) ==
  /\ Unwritten(c) => \A s \in Slots : t.pick[s] = None
  /\ \A s \in Slots : t.pick[s] # None => t.base[s] <= t.pick[s]
  /\ \A l \in Lots :
       SumFunctionOnSet(Excess(t), SlotsOf(l)) <= t.moves[l] + Unlogged(c, t, l)

TInv == ClaimsCovered /\ \A w \in Workers : Logs(pc[w], tx[w])

LEMMA SlotsOfFinite == \A l : IsFiniteSet(SlotsOf(l)) /\ SlotsOf(l) \subseteq Tasks \X Slots
<1> TAKE l
<1>1. IsFiniteSet(Lines \X Lots) /\ Slots \subseteq Lines \X Lots
  BY FS_Product DEF Slots
<1>2. IsFiniteSet(Slots)
  BY <1>1, FS_Subset
<1>3. IsFiniteSet(Tasks \X Slots)
  BY <1>2, FS_Product
<1>4. SlotsOf(l) \subseteq Tasks \X Slots
  BY DEF SlotsOf
<1> QED
  BY <1>3, <1>4, FS_Subset

LEMMA ExcessType ==
  ASSUME NEW t \in Tx, \A s \in Slots : t.pick[s] # None => t.base[s] <= t.pick[s]
  PROVE  Excess(t) \in [Tasks \X Slots -> Nat]
<1> SUFFICES ASSUME NEW p \in Tasks \X Slots
             PROVE  (IF p[1] # t.task \/ t.pick[p[2]] = None THEN 0
                     ELSE t.pick[p[2]] - t.base[p[2]]) \in Nat
  BY DEF Excess
<1>1. p[2] \in Slots /\ t.pick[p[2]] \in Entry /\ t.base[p[2]] \in Nat
  BY DEF Tx
<1> QED
  BY <1>1 DEF Entry, None

\* A request that has written no task line.
LEMMA NothingAdded ==
  ASSUME NEW c, NEW t \in Tx, \A s \in Slots : t.pick[s] = None, c # "orderLine"
  PROVE  Logs(c, t)
<1>1. \A p \in Tasks \X Slots : Excess(t)[p] = 0
  BY DEF Excess
<1>2. \A l \in Lots : SumFunctionOnSet(Excess(t), SlotsOf(l)) = 0
  BY <1>1, SlotsOfFinite, SumZero
<1>3. \A l \in Lots : t.moves[l] \in Nat
  BY DEF Tx
<1> QED
  BY <1>2, <1>3 DEF Logs, Unlogged

\* What a request has read is covered now, so reading it adds no claim.
LEMMA ClaimsKept ==
  ASSUME IInv, TInv, picked' = picked, moved' = moved, \A w \in Workers : tx'[w] \in Tx,
         \A w \in Workers : \A t \in Tasks : tx'[w].task = t =>
           \/ tx[w].task = t /\ tx'[w].base = tx[w].base
           \/ \A s \in Slots : tx'[w].base[s] <= picked[t][s]
  PROVE  ClaimsCovered'
<1>1. SUFFICES ASSUME NEW h \in Claims' PROVE h \in Claims
  BY DEF TInv, ClaimsCovered, SlotsOf
<1>2. h \in [Tasks \X Slots -> Nat]
  BY DEF Claims
<1>3. SUFFICES ASSUME NEW t \in Tasks, NEW s \in Slots, ~ h[<<t, s>>] <= picked[t][s]
               PROVE  \E w \in Workers : tx[w].task = t /\ h[<<t, s>>] <= tx[w].base[s]
  BY <1>2 DEF Claims
<1>4. PICK w \in Workers : tx'[w].task = t /\ h[<<t, s>>] <= tx'[w].base[s]
  BY <1>3 DEF Claims
<1>5. CASE tx[w].task = t /\ tx'[w].base = tx[w].base
  BY <1>4, <1>5
<1>6. CASE tx'[w].base[s] <= picked[t][s]
  <2>1. h[<<t, s>>] \in Nat /\ picked[t][s] \in Nat /\ tx'[w].base[s] \in Nat
    <3>1. h[<<t, s>>] \in Nat /\ picked[t][s] \in Nat
      BY <1>2 DEF IInv, TypeOK
    <3>2. tx'[w] \in Tx
      OBVIOUS
    <3> QED
      BY <3>1, <3>2 DEF Tx
  <2> QED
    BY <1>3, <1>4, <1>6, <2>1
<1> QED
  BY <1>4, <1>5, <1>6

\* A statement that commits no pick.
LEMMA TracedLocal ==
  ASSUME IInv, TInv, NEW w \in Workers, NEW next, NEW t \in Tx, Goto(w, next, t),
         picked' = picked, moved' = moved, Logs(next, t),
         \/ t.task = tx[w].task /\ t.base = tx[w].base
         \/ \A s \in Slots : t.base[s] = 0
         \/ \A u \in Tasks : t.task = u => t.base = picked[u]
  PROVE  TInv'
<1>1. /\ pc'[w] = next /\ tx'[w] = t
      /\ \A v \in Workers \ {w} : pc'[v] = pc[v] /\ tx'[v] = tx[v]
  BY DEF Goto, IInv, TypeOK
<1>2. \A v \in Workers : Logs(pc'[v], tx'[v])
  BY <1>1 DEF TInv
<1>3. \A u \in Tasks : \A s \in Slots : picked[u][s] \in Nat
  BY DEF IInv, TypeOK
<1>4. ASSUME NEW v \in Workers, NEW u \in Tasks, tx'[v].task = u
      PROVE  \/ tx[v].task = u /\ tx'[v].base = tx[v].base
             \/ \A s \in Slots : tx'[v].base[s] <= picked[u][s]
  BY <1>1, <1>3, <1>4
<1>5. ClaimsCovered'
  <2>1. \A v \in Workers : tx'[v] \in Tx
    BY <1>1 DEF IInv, TypeOK
  <2> QED
    BY <1>4, <2>1, ClaimsKept
<1>6. \A v \in Workers : Logs(pc[v], tx[v])'
  BY <1>2 DEF Logs, Excess, Unlogged, Unwritten, SlotsOf, Cur
<1> QED
  BY <1>5, <1>6 DEF TInv

\* A statement that leaves the picks and movements of its request alone.
LEMMA TracedKeep ==
  ASSUME IInv, TInv, NEW w \in Workers, NEW next, NEW t \in Tx, Local(w, next, t),
         t.task = tx[w].task, t.base = tx[w].base, t.pick = tx[w].pick, t.moves = tx[w].moves,
         pc[w] # "orderLine", next # "orderLine", Unwritten(next) => Unwritten(pc[w])
  PROVE  TInv'
<1>1. Excess(t) = Excess(tx[w])
  BY DEF Excess
<1>2. Logs(pc[w], tx[w])
  BY DEF TInv
<1>3. Logs(next, t)
  BY <1>1, <1>2 DEF Logs, Unlogged
<1>4. Goto(w, next, t) /\ picked' = picked /\ moved' = moved
  BY DEF Local, rows
<1> QED
  BY <1>3, <1>4, TracedLocal

\* A request that starts, or ends without a commit of picks.
LEMMA TracedReset ==
  ASSUME IInv, TInv, NEW w \in Workers, NEW next, NEW t \in Tx, Goto(w, next, t),
         t.pick = NoTx.pick, t.base = NoTx.base, next # "orderLine",
         picked' = picked, moved' = moved
  PROVE  TInv'
<1>1. (\A s \in Slots : t.pick[s] = None) /\ \A s \in Slots : t.base[s] = 0
  BY DEF NoTx
<1>2. Logs(next, t)
  BY <1>1, NothingAdded
<1> QED
  BY <1>1, <1>2, TracedLocal

LEMMA EnterTraced ==
  ASSUME IInv, TInv, NEW w \in Workers, NEW t \in Tasks,
         CheckOrder(w, t) \/ CheckStart(w, t) \/ \E dto \in Confirms : ReadTask(w, t, dto)
  PROVE  TInv'
<1>1. CASE CheckOrder(w, t)
  <2> DEFINE x == [NoTx EXCEPT !.task = t, !.left = LinesOf[TaskOrder[t]]]
  <2>1. x \in Tx /\ x.pick = NoTx.pick /\ x.base = NoTx.base
    BY NoTxGood DEF Tx
  <2>2. Goto(w, "plan", x) /\ picked' = picked /\ moved' = moved
    BY <1>1 DEF CheckOrder, Local, rows
  <2> HIDE DEF x
  <2> QED
    BY <2>1, <2>2, TracedReset
<1>2. CASE CheckStart(w, t)
  <2> DEFINE x == [NoTx EXCEPT !.task = t]
  <2>1. x \in Tx /\ x.pick = NoTx.pick /\ x.base = NoTx.base
    BY NoTxGood DEF Tx
  <2>2. Goto(w, "start", x) /\ picked' = picked /\ moved' = moved
    BY <1>2 DEF CheckStart, Local, rows
  <2> HIDE DEF x
  <2> QED
    BY <2>1, <2>2, TracedReset
<1>3. ASSUME NEW dto \in Confirms, ReadTask(w, t, dto) PROVE TInv'
  <2> DEFINE x == [NoTx EXCEPT !.task = t, !.dto = dto]
  <2>1. dto \in Seq(Pick)
    OBVIOUS
  <2>2. x \in Tx /\ x.pick = NoTx.pick /\ x.base = NoTx.base
    BY <2>1, NoTxGood DEF Tx
  <2>3. Goto(w, "lines", x) /\ picked' = picked /\ moved' = moved
    BY <1>3 DEF ReadTask, Local, rows
  <2> HIDE DEF x
  <2> QED
    BY <2>2, <2>3, TracedReset
<1> QED
  BY <1>1, <1>2, <1>3

LEMMA ReadLinesTraced == ASSUME IInv, TInv, NEW w \in Workers, ReadLines(w) PROVE TInv'
<1>1. TypeOK /\ Good(pc[w], tx[w]) /\ Logs(pc[w], tx[w]) /\ pc[w] = "lines"
  BY DEF IInv, TInv, ReadLines
<1>2. tx[w].task \in Tasks
  BY <1>1 DEF Good, TaskOK
<1>3. PICK b \in [Slots -> Nat], n \in OrderStatus :
        b = picked[tx[w].task] /\ n = orderStatus[Order(w)]
  BY <1>1, <1>2 DEF TypeOK, Order
<1> DEFINE x == [tx[w] EXCEPT !.k = 1, !.base = b, !.next = n]
<1>4. Goto(w, "find", x) /\ picked' = picked /\ moved' = moved
  BY <1>3 DEF ReadLines, Local, rows
<1>5. tx[w] \in Tx
  BY <1>1, TxTypes
<1>6. x \in Tx /\ x.pick = tx[w].pick /\ x.base = b /\ x.task = tx[w].task
  BY <1>5 DEF Tx
<1>7. \A s \in Slots : tx[w].pick[s] = None
  BY <1>1 DEF Logs, Unwritten
<1> HIDE DEF x
<1>8. Logs("find", x)
  BY <1>6, <1>7, NothingAdded
<1> QED
  BY <1>3, <1>4, <1>6, <1>8, TracedLocal

LEMMA KeepTraced ==
  ASSUME IInv, TInv, NEW w \in Workers,
         \/ PlanLine(w) \/ FindReservation(w) \/ TakeReservation(w)
         \/ JudgeTask(w) \/ WriteTask(w) \/ JudgeOrder(w)
  PROVE  TInv'
<1>1. TypeOK' /\ TypeOK
  BY NextIInv DEF IInv, Next, Statement
<1>2. tx[w] \in Tx
  BY <1>1, TxTypes
<1>3. tx'[w] \in Tx
  BY <1>1 DEF TypeOK
<1>4. ASSUME NEW next, NEW t, Local(w, next, t), pc[w] # "orderLine", next # "orderLine",
             Unwritten(next) => Unwritten(pc[w]),
             t.task = tx[w].task, t.base = tx[w].base, t.pick = tx[w].pick, t.moves = tx[w].moves
      PROVE  TInv'
  <2>1. t = tx'[w]
    BY <1>1, <1>4 DEF Local, Goto, TypeOK
  <2> QED
    BY <1>3, <1>4, <2>1, TracedKeep
<1>5. CASE PlanLine(w)
  <2>1. PICK ln \in tx[w].left :
          Local(w, "plan",
            [tx[w] EXCEPT !.left = @ \ {ln},
                          !.plan = [s \in Slots |->
                             IF s[1] = ln /\ reserved[s[2]] > 0 THEN reserved[s[2]] ELSE @[s]]])
    BY <1>5 DEF PlanLine
  <2>2. pc[w] = "plan"
    BY <1>5 DEF PlanLine
  <2> QED
    BY <1>2, <1>4, <2>1, <2>2 DEF Tx, Unwritten
<1>6. CASE FindReservation(w)
  BY <1>2, <1>4, <1>6 DEF FindReservation, Tx, Unwritten
<1>7. CASE TakeReservation(w)
  <2>1. PICK f : f = [tx[w].resv EXCEPT ![Lot(w)] = tx[w].found - Current(w).qty]
    OBVIOUS
  <2>2. pc[w] = "take" /\ Local(w, "taskLine", [tx[w] EXCEPT !.resv = f])
    BY <1>7, <2>1 DEF TakeReservation
  <2> QED
    BY <1>2, <1>4, <2>2 DEF Tx, Unwritten
<1>8. CASE JudgeTask(w)
  BY <1>2, <1>4, <1>8 DEF JudgeTask, Tx, Unwritten
<1>9. CASE WriteTask(w)
  BY <1>2, <1>4, <1>9 DEF WriteTask, Tx, Unwritten
<1>10. CASE JudgeOrder(w)
  BY <1>2, <1>4, <1>10 DEF JudgeOrder, Tx, Unwritten
<1> QED
  BY <1>5, <1>6, <1>7, <1>8, <1>9, <1>10

LEMMA WriteTaskLineTraced == ASSUME IInv, TInv, NEW w \in Workers, WriteTaskLine(w) PROVE TInv'
<1>1. TypeOK /\ Good(pc[w], tx[w]) /\ Logs(pc[w], tx[w]) /\ pc[w] = "taskLine" /\ tx[w] \in Tx
  BY TxTypes DEF IInv, TInv, WriteTaskLine
<1>2. tx[w].k \in 1..Len(tx[w].dto) /\ tx[w].task \in Tasks
  BY <1>1 DEF Good, LoopOK, InLoop, TaskOK
<1>3. PICK s \in Slots, q \in Nat :
        s = Slot(w) /\ q = Current(w).qty /\ s = Cur(tx[w]).slot /\ q = Cur(tx[w]).qty
  BY <1>1, <1>2, CurrentType
<1>4. PICK b \in Nat : b = tx[w].base[s]
  BY <1>1, TxTypes
<1>5. PICK f : f = [tx[w].pick EXCEPT ![s] = b + q]
  OBVIOUS
<1>6. f \in [Slots -> Entry] /\ f[s] = b + q /\ \A r \in Slots \ {s} : f[r] = tx[w].pick[r]
  BY <1>1, <1>5, TxTypes DEF Entry
<1> DEFINE x == [tx[w] EXCEPT !.pick = f]
<1>7. Local(w, "orderLine", [tx[w] EXCEPT !.pick[s] = b + q])
  BY <1>3, <1>4 DEF WriteTaskLine
<1>8. Local(w, "orderLine", x)
  BY <1>5, <1>7
<1>9. /\ x \in Tx /\ x.task = tx[w].task /\ x.base = tx[w].base /\ x.pick = f
      /\ x.moves = tx[w].moves /\ Cur(x) = Cur(tx[w])
  BY <1>1, <1>6 DEF Tx, Cur
<1> HIDE DEF x
<1>10. \A r \in Slots : /\ x.pick[r] # None => x.base[r] <= x.pick[r]
                        /\ tx[w].pick[r] # None => tx[w].base[r] <= tx[w].pick[r]
  BY <1>1, <1>4, <1>6, <1>9 DEF Logs
<1>11. /\ Excess(x) \in [Tasks \X Slots -> Nat] /\ Excess(tx[w]) \in [Tasks \X Slots -> Nat]
  BY <1>1, <1>9, <1>10, ExcessType
<1>12. PICK p \in Tasks \X Slots : p = <<tx[w].task, s>>
  BY <1>2
<1>13. \A r \in Tasks \X Slots : r # p => Excess(x)[r] = Excess(tx[w])[r]
  BY <1>6, <1>9, <1>12 DEF Excess
<1>14. Excess(x)[p] = q
  <2>1. b + q # None /\ b + q - b = q
    BY DEF None
  <2> QED
    BY <1>4, <1>6, <1>9, <1>12, <2>1 DEF Excess
<1>15. ASSUME NEW l \in Lots
       PROVE  SumFunctionOnSet(Excess(x), SlotsOf(l)) <= x.moves[l] + Unlogged("orderLine", x, l)
  <2>1. PICK m \in Nat, n \in Nat : m = SumFunctionOnSet(Excess(tx[w]), SlotsOf(l)) /\ n = tx[w].moves[l]
    BY <1>1, <1>11, SlotsOfFinite, SumNat, TxTypes
  <2>2. m <= n
    BY <1>1, <2>1 DEF Logs, Unlogged
  <2>3. CASE l = s[2]
    <3>1. p \in SlotsOf(l)
      BY <1>12, <2>3 DEF SlotsOf
    <3>2. SumFunctionOnSet(Excess(x), SlotsOf(l)) = m - Excess(tx[w])[p] + Excess(x)[p]
      <4>1. \A r \in SlotsOf(l) : Excess(tx[w])[r] \in Int /\ Excess(x)[r] \in Int
        BY <1>11, SlotsOfFinite
      <4>2. \A r \in SlotsOf(l) \ {p} : Excess(tx[w])[r] = Excess(x)[r]
        BY <1>13, SlotsOfFinite
      <4> QED
        BY <2>1, <3>1, <4>1, <4>2, SlotsOfFinite, SumUpdate
    <3>3. Unlogged("orderLine", x, l) = q
      BY <1>3, <1>9, <2>3 DEF Unlogged
    <3>4. Excess(tx[w])[p] \in Nat
      BY <1>11
    <3> QED
      BY <1>9, <1>14, <2>1, <2>2, <3>2, <3>3, <3>4
  <2>4. CASE l # s[2]
    <3>1. \A r \in SlotsOf(l) : Excess(x)[r] = Excess(tx[w])[r]
      BY <1>12, <1>13, <2>4 DEF SlotsOf
    <3>2. SumFunctionOnSet(Excess(x), SlotsOf(l)) = m
      BY <2>1, <3>1, SlotsOfFinite, SumAgree
    <3>3. Unlogged("orderLine", x, l) = 0
      BY <1>3, <1>9, <2>4 DEF Unlogged
    <3> QED
      BY <1>9, <2>1, <2>2, <3>2, <3>3
  <2> QED
    BY <2>3, <2>4
<1>16. Logs("orderLine", x)
  BY <1>10, <1>15 DEF Logs, Unwritten
<1>17. Goto(w, "orderLine", x) /\ picked' = picked /\ moved' = moved
  BY <1>8 DEF Local, rows
<1> QED
  BY <1>9, <1>16, <1>17, TracedLocal

LEMMA WriteOrderLineTraced == ASSUME IInv, TInv, NEW w \in Workers, WriteOrderLine(w) PROVE TInv'
<1>1. TypeOK /\ Good(pc[w], tx[w]) /\ Logs(pc[w], tx[w]) /\ pc[w] = "orderLine" /\ tx[w] \in Tx
  BY TxTypes DEF IInv, TInv, WriteOrderLine
<1>2. tx[w].k \in 1..Len(tx[w].dto)
  BY <1>1 DEF Good, LoopOK, InLoop
<1>3. PICK a \in Lots, q \in Nat :
        a = Lot(w) /\ q = Current(w).qty /\ a = Cur(tx[w]).slot[2] /\ q = Cur(tx[w]).qty
  BY <1>1, <1>2, CurrentType
<1>4. PICK x : x = tx'[w]
  OBVIOUS
<1>5. x = [tx[w] EXCEPT !.qty[Line(w)] = tx[w].base[Slot(w)] + Current(w).qty,
                        !.moves[Lot(w)] = @ + Current(w).qty, !.k = @ + 1, !.found = 0]
  BY <1>1, <1>4 DEF WriteOrderLine, Local, Goto, TypeOK
<1>6. /\ x.task = tx[w].task /\ x.base = tx[w].base /\ x.pick = tx[w].pick
      /\ x.moves = [tx[w].moves EXCEPT ![a] = @ + q]
  BY <1>1, <1>3, <1>5, TxTypes DEF Tx
<1>7. x \in Tx
  <2>1. TypeOK'
    BY NextIInv DEF IInv, Next, Statement
  <2> QED
    BY <1>4, <2>1 DEF TypeOK
<1>8. Goto(w, "find", x) /\ picked' = picked /\ moved' = moved
  BY <1>1, <1>5 DEF WriteOrderLine, Local, rows
<1>9. Excess(x) = Excess(tx[w])
  BY <1>6 DEF Excess
<1>10. \A l \in Lots : x.moves[l] = tx[w].moves[l] + Unlogged("orderLine", tx[w], l)
  <2> SUFFICES ASSUME NEW l \in Lots
               PROVE  x.moves[l] = tx[w].moves[l] + Unlogged("orderLine", tx[w], l)
    OBVIOUS
  <2>1. tx[w].moves \in [Lots -> Nat]
    BY <1>1, TxTypes
  <2> QED
    BY <1>3, <1>6, <2>1 DEF Unlogged
<1>11. \A l \in Lots : x.moves[l] \in Nat /\ Unlogged("find", x, l) = 0
  BY <1>7 DEF Tx, Unlogged
<1>12. Logs("find", x)
  <2>1. \A l \in Lots : SumFunctionOnSet(Excess(x), SlotsOf(l)) <= x.moves[l]
    BY <1>1, <1>9, <1>10 DEF Logs
  <2>2. \A l \in Lots : x.moves[l] = x.moves[l] + Unlogged("find", x, l)
    BY <1>11
  <2>3. \A l \in Lots : SumFunctionOnSet(Excess(x), SlotsOf(l)) <= x.moves[l] + Unlogged("find", x, l)
    BY <2>1, <2>2
  <2> QED
    BY <1>1, <1>6, <2>3 DEF Logs, Unwritten
<1> QED
  BY <1>6, <1>7, <1>8, <1>12, TracedLocal

\* A request that ends with its locals reset, or a task whose status alone changes.
LEMMA QuitTraced ==
  ASSUME IInv, TInv, NEW w \in Workers,
         \/ CreateTask(w) \/ Start(w) \/ Refuse(w) \/ Fail(w) \/ DeadlockVictim(w)
  PROVE  TInv'
<1>1. Goto(w, "idle", NoTx) /\ picked' = picked /\ moved' = moved
  BY DEF CreateTask, Start, Refuse, Fail, DeadlockVictim, Rollback, Local, rows
<1> QED
  BY <1>1, NoTxGood, TracedReset

(***************************************************************************)
(* COMMIT of a confirm.  A choice of what the task lines hold afterwards,  *)
(* less what this confirm added, is a choice of what they held before.     *)
(***************************************************************************)
Before(h, t) ==
  [p \in Tasks \X Slots |->
     IF h[p] >= Excess(t)[p] THEN h[p] - Excess(t)[p] ELSE 0]

LEMMA CommitTraced == ASSUME IInv, TInv, NEW w \in Workers, Commit(w) PROVE TInv'
<1>1. TypeOK /\ Good(pc[w], tx[w]) /\ Logs(pc[w], tx[w]) /\ pc[w] = "commit" /\ tx[w] \in Tx
  BY TxTypes DEF IInv, TInv, Commit
<1>2. PICK t \in Tasks : t = tx[w].task
  BY <1>1 DEF Good, TaskOK
<1>3. /\ picked' = [picked EXCEPT ![t] = [s \in Slots |-> PickedIn(w, s)]]
      /\ moved' = [l \in Lots |-> moved[l] + tx[w].moves[l]]
      /\ Goto(w, "idle", NoTx)
  BY <1>2 DEF Commit
<1>4. /\ pc'[w] = "idle" /\ tx'[w] = NoTx
      /\ \A v \in Workers \ {w} : pc'[v] = pc[v] /\ tx'[v] = tx[v]
  BY <1>1, <1>3 DEF Goto, TypeOK
<1>5. Excess(tx[w]) \in [Tasks \X Slots -> Nat]
  BY <1>1, ExcessType DEF Logs
<1>6. ASSUME NEW h \in Claims' PROVE Before(h, tx[w]) \in Claims
  <2>1. h \in [Tasks \X Slots -> Nat]
    BY DEF Claims
  <2>2. Before(h, tx[w]) \in [Tasks \X Slots -> Nat]
    BY <1>5, <2>1 DEF Before
  <2> SUFFICES ASSUME NEW u \in Tasks, NEW s \in Slots
      PROVE  \/ Before(h, tx[w])[<<u, s>>] <= picked[u][s]
             \/ \E v \in Workers : tx[v].task = u /\ Before(h, tx[w])[<<u, s>>] <= tx[v].base[s]
    BY <2>2 DEF Claims
  <2>3. PICK n \in Nat, e \in Nat, m \in Nat :
          n = h[<<u, s>>] /\ e = Excess(tx[w])[<<u, s>>] /\ m = Before(h, tx[w])[<<u, s>>]
    BY <1>5, <2>1, <2>2
  <2>4. m = IF n >= e THEN n - e ELSE 0
    BY <2>3 DEF Before
  <2>5. m <= n
    BY <2>4
  <2>6. picked[u][s] \in Nat
    BY <1>1 DEF TypeOK
  <2>7. \/ n <= picked'[u][s]
        \/ \E v \in Workers : tx'[v].task = u /\ n <= tx'[v].base[s]
    BY <2>3 DEF Claims
  <2>8. ASSUME NEW v \in Workers, tx'[v].task = u, n <= tx'[v].base[s]
        PROVE  tx[v].task = u /\ m <= tx[v].base[s]
    <3>1. v # w
      BY <1>4, <2>8 DEF NoTx
    <3>2. tx[v].task = u /\ n <= tx[v].base[s] /\ tx[v].base[s] \in Nat
      BY <1>1, <1>4, <2>8, <3>1, TxTypes
    <3> QED
      BY <2>5, <3>2
  <2>9. CASE n <= picked'[u][s]
    <3>1. CASE u = t
      <4>1. picked'[t][s] = PickedIn(w, s)
        BY <1>1, <1>3 DEF TypeOK
      <4>2. CASE tx[w].pick[s] = None
        <5>1. picked'[t][s] = picked[t][s]
          BY <1>2, <4>1, <4>2 DEF PickedIn
        <5>2. n <= picked[u][s]
          BY <2>9, <3>1, <5>1
        <5>3. m <= picked[u][s]
          BY <2>5, <2>6, <5>2
        <5> QED
          BY <2>3, <5>3
      <4>3. CASE tx[w].pick[s] # None
        <5>0. tx[w].base[s] \in Nat /\ tx[w].pick[s] \in Entry
          BY <1>1, TxTypes
        <5>1. PICK b \in Nat, k \in Nat : b = tx[w].base[s] /\ k = tx[w].pick[s] /\ b <= k
          BY <1>1, <4>3, <5>0 DEF Logs, Entry
        <5>2. e = k - b
          BY <1>2, <2>3, <3>1, <4>3, <5>1 DEF Excess
        <5>3. n <= k
          BY <2>9, <3>1, <4>1, <4>3, <5>1 DEF PickedIn
        <5>4. m <= b
          BY <2>4, <5>1, <5>2, <5>3
        <5> QED
          BY <1>2, <2>3, <3>1, <5>1, <5>4
      <4> QED
        BY <4>2, <4>3
    <3>2. CASE u # t
      <4>1. picked'[u][s] = picked[u][s]
        BY <1>1, <1>3, <3>2 DEF TypeOK
      <4>2. n <= picked[u][s]
        BY <2>9, <4>1
      <4>3. m <= picked[u][s]
        BY <2>5, <2>6, <4>2
      <4> QED
        BY <2>3, <4>3
    <3> QED
      BY <3>1, <3>2
  <2> QED
    BY <2>3, <2>7, <2>8, <2>9
<1>7. ASSUME NEW h \in Claims', NEW l \in Lots
      PROVE  SumFunctionOnSet(h, SlotsOf(l)) <= moved'[l]
  <2>1. h \in [Tasks \X Slots -> Nat]
    BY DEF Claims
  <2>2. Before(h, tx[w]) \in [Tasks \X Slots -> Nat]
    BY <1>5, <2>1 DEF Before
  <2>3. PICK g : g = [p \in Tasks \X Slots |-> Before(h, tx[w])[p] + Excess(tx[w])[p]]
    OBVIOUS
  <2>4. \A p \in SlotsOf(l) :
          /\ Before(h, tx[w])[p] \in Int /\ Excess(tx[w])[p] \in Int
          /\ g[p] = Before(h, tx[w])[p] + Excess(tx[w])[p]
    BY <1>5, <2>2, <2>3, SlotsOfFinite
  <2>5. \A p \in SlotsOf(l) : h[p] \in Int /\ g[p] \in Int /\ h[p] <= g[p]
    <3> SUFFICES ASSUME NEW p \in Tasks \X Slots
                 PROVE  h[p] \in Int /\ g[p] \in Int /\ h[p] <= g[p]
      BY SlotsOfFinite
    <3>1. PICK n \in Nat, e \in Nat : n = h[p] /\ e = Excess(tx[w])[p]
      BY <1>5, <2>1
    <3>2. Before(h, tx[w])[p] = IF n >= e THEN n - e ELSE 0
      BY <3>1 DEF Before
    <3>3. g[p] = (IF n >= e THEN n - e ELSE 0) + e
      BY <2>3, <3>1, <3>2
    <3> QED
      BY <3>1, <3>3
  <2>6. PICK a \in Int, b \in Int, c \in Int, d \in Int :
          /\ a = SumFunctionOnSet(h, SlotsOf(l)) /\ b = SumFunctionOnSet(g, SlotsOf(l))
          /\ c = SumFunctionOnSet(Before(h, tx[w]), SlotsOf(l))
          /\ d = SumFunctionOnSet(Excess(tx[w]), SlotsOf(l))
    BY <2>4, <2>5, SlotsOfFinite, SumInt
  <2>7. a <= b
    BY <2>5, <2>6, SlotsOfFinite, SumMonotone
  <2>8. b = c + d
    BY <2>4, <2>6, SlotsOfFinite, SumPlus
  <2>9. c <= moved[l]
    BY <1>6, <2>6 DEF TInv, ClaimsCovered
  <2>10. moved[l] \in Nat /\ tx[w].moves[l] \in Nat
    BY <1>1, TxTypes DEF TypeOK
  <2>11. d <= tx[w].moves[l]
    BY <1>1, <2>6, <2>10 DEF Logs, Unlogged
  <2>12. moved'[l] = moved[l] + tx[w].moves[l]
    BY <1>3
  <2>13. a <= moved[l] + tx[w].moves[l]
    BY <2>7, <2>8, <2>9, <2>10, <2>11
  <2> QED
    BY <2>6, <2>12, <2>13
<1>8. ClaimsCovered'
  BY <1>7 DEF ClaimsCovered, SlotsOf
<1>9. Logs("idle", NoTx)
  BY NoTxGood, NothingAdded
<1>10. \A v \in Workers : Logs(pc'[v], tx'[v])
  BY <1>4, <1>9 DEF TInv
<1>11. \A v \in Workers : Logs(pc[v], tx[v])'
  BY <1>10 DEF Logs, Excess, Unlogged, Unwritten, SlotsOf, Cur
<1> QED
  BY <1>8, <1>11 DEF TInv

LEMMA InitTraced == Init => TInv
<1> SUFFICES ASSUME Init PROVE TInv
  OBVIOUS
<1>1. ASSUME NEW w \in Workers PROVE Logs(pc[w], tx[w])
  BY NoTxGood, NothingAdded DEF Init
<1>2. ASSUME NEW h \in Claims, NEW l \in Lots PROVE SumFunctionOnSet(h, SlotsOf(l)) <= moved[l]
  <2>1. \A t \in Tasks : \A s \in Slots : h[<<t, s>>] \in Nat /\ h[<<t, s>>] <= 0
    BY DEF Claims, Init, NoTx
  <2>2. \A p \in SlotsOf(l) : h[p] = 0
    BY <2>1, SlotsOfFinite
  <2>3. SumFunctionOnSet(h, SlotsOf(l)) = 0
    BY <2>2, SlotsOfFinite, SumZero
  <2> QED
    BY <2>3 DEF Init
<1> QED
  BY <1>1, <1>2 DEF TInv, ClaimsCovered

LEMMA NextTraced == IInv /\ TInv /\ [Next]_vars => TInv'
<1> SUFFICES ASSUME IInv, TInv, [Next]_vars PROVE TInv'
  OBVIOUS
<1>1. ASSUME NEW w \in Workers, NEW t \in Tasks,
             CheckOrder(w, t) \/ CheckStart(w, t) \/ \E dto \in Confirms : ReadTask(w, t, dto)
      PROVE  TInv'
  BY <1>1, EnterTraced
<1>2. ASSUME NEW w \in Workers, Statement(w) PROVE TInv'
  <2>1. CASE CreateTask(w) \/ Start(w) \/ Refuse(w)
    BY <2>1, QuitTraced
  <2>2. CASE \/ PlanLine(w) \/ FindReservation(w) \/ TakeReservation(w)
             \/ JudgeTask(w) \/ WriteTask(w) \/ JudgeOrder(w)
    BY <2>2, KeepTraced
  <2>3. CASE ReadLines(w) \/ WriteTaskLine(w) \/ WriteOrderLine(w) \/ Commit(w)
    BY <2>3, ReadLinesTraced, WriteTaskLineTraced, WriteOrderLineTraced, CommitTraced
  <2> QED
    BY <1>2, <2>1, <2>2, <2>3 DEF Statement
<1>3. ASSUME NEW w \in Workers, Fail(w) \/ DeadlockVictim(w) PROVE TInv'
  BY <1>3, QuitTraced
<1>4. CASE UNCHANGED vars
  <2>1. picked' = picked /\ moved' = moved /\ pc' = pc /\ tx' = tx
    BY <1>4 DEF vars, rows
  <2>2. Claims' = Claims
    BY <2>1 DEF Claims
  <2>3. ClaimsCovered'
    BY <2>1, <2>2 DEF TInv, ClaimsCovered, SlotsOf
  <2>4. \A w \in Workers : Logs(pc[w], tx[w])'
    BY <2>1 DEF TInv, Logs, Excess, Unlogged, Unwritten, SlotsOf, Cur
  <2> QED
    BY <2>3, <2>4 DEF TInv
<1> QED
  BY <1>1, <1>2, <1>3, <1>4 DEF Next

\* Whatever confirms overlap, each unit that a task line records as picked from a
\* lot has a unit of movement of that lot.
THEOREM PicksHaveMovements == Spec => []PicksAreTraced
<1>1. IInv /\ TInv => PicksAreTraced
  <2> SUFFICES ASSUME IInv, TInv, NEW l \in Lots PROVE PickedOfLot(l) <= moved[l]
    BY DEF PicksAreTraced
  <2>1. picked \in [Tasks -> [Slots -> Nat]]
    BY DEF IInv, TypeOK
  <2>2. PickedAt \in [Tasks \X Slots -> Nat]
    BY <2>1 DEF PickedAt
  <2>3. \A t \in Tasks : \A s \in Slots : PickedAt[<<t, s>>] <= picked[t][s]
    BY <2>1 DEF PickedAt
  <2>4. PickedAt \in Claims
    BY <2>2, <2>3 DEF Claims
  <2> QED
    BY <2>4 DEF TInv, ClaimsCovered, PickedOfLot
<1>2. Init => TInv
  BY InitTraced
<1>3. IInv /\ TInv /\ [Next]_vars => TInv'
  BY NextTraced
<1> QED
  BY <1>1, <1>2, <1>3, Invariance, PTL DEF Spec

-----------------------------------------------------------------------------
(***************************************************************************)
(* Requests that do not overlap.  What a lone request has read is still so *)
(* when it writes, and what it sees (committed rows and its own writes) is *)
(* what its commit publishes.                                              *)
(***************************************************************************)
OrderOf(t)     == TaskOrder[t.task]
ResvSeen(t, l) == IF t.resv[l] = None THEN reserved[l] ELSE t.resv[l]
PickSeen(t, s) == IF t.pick[s] = None THEN picked[t.task][s] ELSE t.pick[s]
QtySeen(t, ln) == IF t.qty[ln] = None THEN pickedQty[ln] ELSE t.qty[ln]

\* The status that the order will have, by the lines as the request sees them.
Verdict(t) ==
  IF \A ln \in LinesOf[OrderOf(t)] : QtySeen(t, ln) = Requested[ln] THEN "PICKED"
  ELSE IF \E ln \in LinesOf[OrderOf(t)] : QtySeen(t, ln) > 0 THEN "PARTIALLY_PICKED"
  ELSE orderStatus[OrderOf(t)]

\* A task plans quantities of lines of its own order, and nothing is picked of a task
\* that is not started.
PlansOfOrder ==
  \A t \in Tasks : \A s \in Slots :
    toPick[t][s] # None => toPick[t][s] > 0 /\ s[1] \in LinesOf[TaskOrder[t]]
CreatedUnpicked ==
  \A t \in Tasks : taskStatus[t] = "CREATED" => \A s \in Slots : picked[t][s] = 0

Settled == /\ LedgerBalanced /\ MovementsMatchPicks /\ CompletedMeansPicked
           /\ StatusAgreesWithPicks /\ PlansOfOrder /\ CreatedUnpicked

\* What a lone request at statement c with the locals t is about: lines of its order,
\* and task lines that its task plans.
SoloScope(c, t) ==
  /\ c = "plan" => /\ t.left \subseteq LinesOf[OrderOf(t)]
                   /\ \A s \in Slots : t.plan[s] # None =>
                        t.plan[s] > 0 /\ s[1] \in LinesOf[OrderOf(t)]
  /\ c = "lines" => /\ t.resv = NoTx.resv /\ t.pick = NoTx.pick
                    /\ t.qty = NoTx.qty /\ t.moves = NoTx.moves
  /\ c \notin {"idle", "plan", "start"} =>
       /\ \A k \in 1..Len(t.dto) : t.dto[k].slot \in PlannedSlots(t.task)
       /\ \A ln \in Lines : t.qty[ln] # None => t.qty[ln] > 0 /\ ln \in LinesOf[OrderOf(t)]

\* What it sees of a reservation and its movements add up to the stock.
SoloLedger(c, t) ==
  ~Unwritten(c) =>
    /\ \A l \in Lots : ResvSeen(t, l) + t.moves[l] + Pending(c, t, l) + moved[l] = Stock[l]
    /\ c = "take" => t.found = ResvSeen(t, Cur(t).slot[2])

\* It has written the task lines listed up to its current one, and moves what it adds to
\* them, unless a line is listed twice.
Written(c, t, s) ==
  \E j \in 1..Len(t.dto) : t.dto[j].slot = s /\ (j < t.k \/ (j = t.k /\ c = "orderLine"))
LotsTwice(t) == {s[2] : s \in ListedTwice(t.dto)}
SoloPicks(c, t) ==
  ~Unwritten(c) =>
    /\ t.base = picked[t.task]
    /\ \A s \in Slots : t.pick[s] # None => Written(c, t, s)
    /\ \A l \in Lots \ LotsTwice(t) :
         SumFunctionOnSet(Excess(t), SlotsOf(l)) = t.moves[l] + Unlogged(c, t, l)

\* What it has concluded from them.
SoloVerdicts(c, t) ==
  /\ c = "plan" => orderStatus[OrderOf(t)] = "ALLOCATED"
  /\ c = "start" => taskStatus[t.task] = "CREATED"
  /\ ~Unwritten(c) /\ c # "commit" => t.next = orderStatus[OrderOf(t)]
  /\ c = "commit" => t.next = Verdict(t)
  /\ c \in {"task", "order", "commit"} =>
       (t.all <=> \A s \in PlannedSlots(t.task) : PickSeen(t, s) = toPick[t.task][s])

Solo(c, t) == SoloScope(c, t) /\ SoloLedger(c, t) /\ SoloPicks(c, t) /\ SoloVerdicts(c, t)

Alone(w) == \A v \in Workers \ {w} : pc[v] = "idle"

SInv ==
  ~overlapped => /\ Settled
                 /\ \A w \in Workers : pc[w] # "idle" => Alone(w)
                 /\ \A w \in Workers : Solo(pc[w], tx[w])

LEMMA IdleSolo == \A t : Solo("idle", t)
BY DEF Solo, SoloScope, SoloLedger, SoloPicks, SoloVerdicts, Unwritten

LEMMA InitSInv == Init => SInv
<1> SUFFICES ASSUME Init PROVE SInv
  OBVIOUS
<1>1. LedgerBalanced
  BY DEF Init, LedgerBalanced
<1>2. MovementsMatchPicks
  <2> SUFFICES ASSUME NEW l \in Lots PROVE PickedOfLot(l) = 0
    BY DEF Init, MovementsMatchPicks
  <2>1. \A p \in Tasks \X Slots : PickedAt[p] = 0
    BY DEF Init, PickedAt
  <2>2. \A p \in SlotsOf(l) : PickedAt[p] = 0
    BY <2>1, SlotsOfFinite
  <2> QED
    BY <2>2, SlotsOfFinite, SumZero DEF PickedOfLot
<1>3. CompletedMeansPicked /\ PlansOfOrder /\ CreatedUnpicked
  BY DEF Init, CompletedMeansPicked, PlansOfOrder, CreatedUnpicked
<1>4. StatusAgreesWithPicks
  <2> SUFFICES ASSUME NEW o \in Orders, NEW m \in LinesOf[o], Requested[m] > 0
               PROVE  /\ orderStatus[o] = "ALLOCATED"
                      /\ pickedQty[m] # Requested[m]
                      /\ \A ln \in LinesOf[o] : ~ pickedQty[ln] > 0
    BY DEF StatusAgreesWithPicks
  <2>1. LinesOf[o] \subseteq Lines
    OBVIOUS
  <2> QED
    BY <2>1 DEF Init
<1>5. \A w \in Workers : pc[w] = "idle"
  BY DEF Init
<1> QED
  BY <1>1, <1>2, <1>3, <1>4, <1>5, IdleSolo DEF SInv, Settled

\* What a request may rely on in a step after which still no two have overlapped.
LEMMA LoneRequest ==
  ASSUME SInv, TypeOK, NEW w \in Workers, NEW next, NEW t, Goto(w, next, t), ~overlapped'
  PROVE  Settled /\ Solo(pc[w], tx[w]) /\ Alone(w)
BY DEF SInv, Goto, TypeOK, Alone

\* A predicate of control point and locals in the next state.
LEMMA SoloNext ==
  ASSUME NEW w, NEW c, NEW t, pc'[w] = c, tx'[w] = t, Solo(c, t)' PROVE Solo(pc[w], tx[w])'
<1>1. PICK d, x : d = pc'[w] /\ x = tx'[w] /\ d = c /\ x = t
  OBVIOUS
<1>2. Solo(d, x)'
  BY <1>1
<1> QED
  BY <1>1, <1>2 DEF Solo, SoloScope, SoloLedger, SoloPicks, SoloVerdicts

LEMMA LoneGoto ==
  ASSUME SInv, TypeOK, NEW w \in Workers, NEW next, NEW t, Goto(w, next, t),
         ~overlapped' => Settled' /\ Solo(next, t)'
  PROVE  SInv'
<1> SUFFICES ASSUME ~overlapped' PROVE /\ Settled'
                                       /\ \A v \in Workers : pc'[v] # "idle" => Alone(v)'
                                       /\ \A v \in Workers : Solo(pc[v], tx[v])'
  BY DEF SInv
<1>1. Settled' /\ Solo(next, t)' /\ Alone(w)
  BY LoneRequest
<1>2. /\ pc'[w] = next /\ tx'[w] = t
      /\ \A v \in Workers \ {w} : pc'[v] = pc[v] /\ pc'[v] = "idle"
  BY <1>1 DEF Goto, TypeOK, Alone
<1>3. ASSUME NEW v \in Workers, pc'[v] # "idle" PROVE Alone(v)'
  BY <1>2, <1>3 DEF Alone
<1>4. ASSUME NEW v \in Workers PROVE Solo(pc[v], tx[v])'
  <2>1. CASE v = w
    BY <1>1, <1>2, <2>1, SoloNext
  <2>2. CASE v # w
    <3>1. PICK x : x = tx'[v]
      OBVIOUS
    <3>2. Solo("idle", x)'
      BY DEF Solo, SoloScope, SoloLedger, SoloPicks, SoloVerdicts, Unwritten
    <3> QED
      BY <1>2, <2>2, <3>1, <3>2, SoloNext
  <2> QED
    BY <2>1, <2>2
<1> QED
  BY <1>1, <1>3, <1>4

\* While no committed row changes, what was so of them is.
LEMMA RowsKept ==
  ASSUME UNCHANGED rows
  PROVE  (Settled' <=> Settled) /\ \A c, t : Solo(c, t)' <=> Solo(c, t)
<1>1. UNCHANGED <<orderStatus, pickedQty, reserved, moved, taskStatus, toPick, picked, repeated>>
  BY DEF rows
<1>2. \A l : PickedOfLot(l)' = PickedOfLot(l) /\ SlotsOf(l)' = SlotsOf(l)
  BY <1>1 DEF PickedOfLot, PickedAt, SlotsOf
<1>3. Settled' <=> Settled
  <2>1. (LedgerBalanced' <=> LedgerBalanced) /\ (MovementsMatchPicks' <=> MovementsMatchPicks)
    BY <1>1, <1>2 DEF LedgerBalanced, MovementsMatchPicks
  <2>2. CompletedMeansPicked' <=> CompletedMeansPicked
    BY <1>1 DEF CompletedMeansPicked, AllSlotsPicked, PlannedSlots
  <2>3. StatusAgreesWithPicks' <=> StatusAgreesWithPicks
    BY <1>1 DEF StatusAgreesWithPicks
  <2>4. (PlansOfOrder' <=> PlansOfOrder) /\ (CreatedUnpicked' <=> CreatedUnpicked)
    BY <1>1 DEF PlansOfOrder, CreatedUnpicked
  <2> QED
    BY <2>1, <2>2, <2>3, <2>4 DEF Settled
<1>4. ASSUME NEW c, NEW t PROVE Solo(c, t)' <=> Solo(c, t)
  <2>1. SoloScope(c, t)' <=> SoloScope(c, t)
    BY <1>1 DEF SoloScope, PlannedSlots, OrderOf
  <2>2. SoloLedger(c, t)' <=> SoloLedger(c, t)
    BY <1>1 DEF SoloLedger, ResvSeen, Pending, Cur
  <2>3. SoloPicks(c, t)' <=> SoloPicks(c, t)
    BY <1>1 DEF SoloPicks, Written, LotsTwice, ListedTwice, Excess, SlotsOf, Unlogged, Cur
  <2>4. SoloVerdicts(c, t)' <=> SoloVerdicts(c, t)
    <3>1. Verdict(t)' = Verdict(t) /\ \A s : PickSeen(t, s)' = PickSeen(t, s)
      BY <1>1 DEF Verdict, QtySeen, PickSeen, OrderOf
    <3> QED
      BY <1>1, <3>1 DEF SoloVerdicts, PlannedSlots, OrderOf
  <2> QED
    BY <2>1, <2>2, <2>3, <2>4 DEF Solo
<1> QED
  BY <1>3, <1>4

\* A statement that changes no row.
LEMMA LoneLocal ==
  ASSUME SInv, TypeOK, NEW w \in Workers, NEW next, NEW t, Local(w, next, t),
         Settled /\ Solo(pc[w], tx[w]) => Solo(next, t)
  PROVE  SInv'
<1>1. Goto(w, next, t) /\ UNCHANGED rows
  BY DEF Local
<1>2. ASSUME ~overlapped' PROVE Settled' /\ Solo(next, t)'
  <2>1. Settled /\ Solo(next, t)
    BY <1>1, <1>2, LoneRequest
  <2> QED
    BY <1>1, <2>1, RowsKept
<1> QED
  BY <1>1, <1>2, LoneGoto

LEMMA LoneRollback == ASSUME SInv, TypeOK, NEW w \in Workers, Rollback(w) PROVE SInv'
BY IdleSolo, LoneLocal DEF Rollback

-----------------------------------------------------------------------------
(* The statements before a confirm's lines, and after them.                *)

LEMMA LoneEnter ==
  ASSUME SInv, TypeOK, NEW w \in Workers, NEW u \in Tasks,
         CheckOrder(w, u) \/ CheckStart(w, u) \/ \E dto \in Confirms : ReadTask(w, u, dto)
  PROVE  SInv'
<1>0. /\ \A s \in Slots : NoTx.plan[s] = None
      /\ \A ln \in Lines : NoTx.qty[ln] = None
  BY DEF NoTx
<1>1. CASE CheckOrder(w, u)
  <2>1. PICK x : x = [NoTx EXCEPT !.task = u, !.left = LinesOf[TaskOrder[u]]]
    OBVIOUS
  <2>2. x.task = u /\ x.left = LinesOf[TaskOrder[u]] /\ x.plan = NoTx.plan
    BY <2>1 DEF NoTx
  <2>3. orderStatus[TaskOrder[u]] = "ALLOCATED" /\ Local(w, "plan", x)
    BY <1>1, <2>1 DEF CheckOrder
  <2>4. SoloScope("plan", x)
    BY <1>0, <2>2 DEF SoloScope, OrderOf
  <2>5. SoloLedger("plan", x) /\ SoloPicks("plan", x)
    BY DEF SoloLedger, SoloPicks, Unwritten
  <2>6. SoloVerdicts("plan", x)
    BY <2>2, <2>3 DEF SoloVerdicts, OrderOf, Unwritten
  <2> QED
    BY <2>3, <2>4, <2>5, <2>6, LoneLocal DEF Solo
<1>2. CASE CheckStart(w, u)
  <2>1. PICK x : x = [NoTx EXCEPT !.task = u]
    OBVIOUS
  <2>2. x.task = u
    BY <2>1 DEF NoTx
  <2>3. taskStatus[u] = "CREATED" /\ Local(w, "start", x)
    BY <1>2, <2>1 DEF CheckStart
  <2>4. Solo("start", x)
    BY <2>2, <2>3 DEF Solo, SoloScope, SoloLedger, SoloPicks, SoloVerdicts, Unwritten
  <2> QED
    BY <2>3, <2>4, LoneLocal
<1>3. ASSUME NEW dto \in Confirms, ReadTask(w, u, dto) PROVE SInv'
  <2>1. PICK x : x = [NoTx EXCEPT !.task = u, !.dto = dto]
    OBVIOUS
  <2>2. /\ x.task = u /\ x.dto = dto /\ x.resv = NoTx.resv /\ x.pick = NoTx.pick
        /\ x.qty = NoTx.qty /\ x.moves = NoTx.moves
    BY <2>1 DEF NoTx
  <2>3. Local(w, "lines", x) /\ \A k \in 1..Len(dto) : dto[k].slot \in PlannedSlots(u)
    BY <1>3, <2>1 DEF ReadTask
  <2>4. SoloScope("lines", x)
    BY <1>0, <2>2, <2>3 DEF SoloScope
  <2>5. SoloLedger("lines", x) /\ SoloPicks("lines", x) /\ SoloVerdicts("lines", x)
    BY DEF SoloLedger, SoloPicks, SoloVerdicts, Unwritten
  <2> QED
    BY <2>3, <2>4, <2>5, LoneLocal DEF Solo
<1> QED
  BY <1>1, <1>2, <1>3

LEMMA LonePlanLine == ASSUME SInv, TypeOK, NEW w \in Workers, PlanLine(w) PROVE SInv'
<1>1. PICK x \in Tx : x = tx[w]
  BY TxTypes
<1>2. PICK ln \in x.left :
        Local(w, "plan",
          [x EXCEPT !.left = @ \ {ln},
                    !.plan = [s \in Slots |->
                      IF s[1] = ln /\ reserved[s[2]] > 0 THEN reserved[s[2]] ELSE @[s]]])
  BY <1>1 DEF PlanLine
<1>3. PICK t : t = [x EXCEPT !.left = @ \ {ln},
                    !.plan = [s \in Slots |->
                      IF s[1] = ln /\ reserved[s[2]] > 0 THEN reserved[s[2]] ELSE @[s]]]
  OBVIOUS
<1>4. /\ t.task = x.task /\ t.left = x.left \ {ln}
      /\ t.plan = [s \in Slots |-> IF s[1] = ln /\ reserved[s[2]] > 0 THEN reserved[s[2]] ELSE x.plan[s]]
  BY <1>3 DEF Tx
<1>5. pc[w] = "plan"
  BY DEF PlanLine
<1>6. ASSUME Solo("plan", x) PROVE Solo("plan", t)
  <2>1. SoloScope("plan", t)
    BY <1>4, <1>6 DEF Solo, SoloScope, OrderOf
  <2>2. SoloVerdicts("plan", t)
    BY <1>4, <1>6 DEF Solo, SoloVerdicts, OrderOf, Unwritten
  <2>3. SoloLedger("plan", t) /\ SoloPicks("plan", t)
    BY DEF SoloLedger, SoloPicks, Unwritten
  <2> QED
    BY <2>1, <2>2, <2>3 DEF Solo
<1> QED
  BY <1>1, <1>2, <1>3, <1>5, <1>6, LoneLocal

LEMMA LoneReadLines ==
  ASSUME SInv, IInv, TypeOK, NEW w \in Workers, ReadLines(w) PROVE SInv'
<1>1. PICK x \in Tx : x = tx[w]
  BY TxTypes
<1>2. pc[w] = "lines" /\ x.task \in Tasks
  BY <1>1 DEF ReadLines, IInv, Good, TaskOK
<1>3. PICK t : t = [x EXCEPT !.k = 1, !.base = picked[x.task], !.next = orderStatus[OrderOf(x)]]
  OBVIOUS
<1>4. /\ t.task = x.task /\ t.dto = x.dto /\ t.k = 1 /\ t.base = picked[x.task]
      /\ t.next = orderStatus[OrderOf(x)]
      /\ t.resv = x.resv /\ t.pick = x.pick /\ t.qty = x.qty /\ t.moves = x.moves
  BY <1>3 DEF Tx
<1>5. Local(w, "find", t)
  BY <1>1, <1>3 DEF ReadLines, Order, OrderOf
<1>6. ASSUME Settled, Solo("lines", x) PROVE Solo("find", t)
  <2>1. /\ x.resv = [l \in Lots |-> None] /\ x.pick = [s \in Slots |-> None]
        /\ x.qty = [ln \in Lines |-> None] /\ x.moves = [l \in Lots |-> 0]
    BY <1>6 DEF Solo, SoloScope, NoTx
  <2>2. SoloScope("find", t)
    BY <1>4, <1>6, <2>1 DEF Solo, SoloScope, OrderOf
  <2>3. SoloLedger("find", t)
    <3> SUFFICES ASSUME NEW l \in Lots
                 PROVE  ResvSeen(t, l) + t.moves[l] + Pending("find", t, l) + moved[l] = Stock[l]
      BY DEF SoloLedger
    <3>1. ResvSeen(t, l) = reserved[l] /\ t.moves[l] = 0 /\ Pending("find", t, l) = 0
      BY <1>4, <2>1 DEF ResvSeen, Pending
    <3>2. reserved[l] \in Nat /\ moved[l] \in Nat /\ reserved[l] + moved[l] = Stock[l]
      BY <1>6 DEF TypeOK, Settled, LedgerBalanced
    <3> QED
      BY <3>1, <3>2
  <2>4. SoloPicks("find", t)
    <3>1. \A s \in Slots : t.pick[s] = None
      BY <1>4, <2>1
    <3>2. ASSUME NEW l \in Lots
          PROVE  SumFunctionOnSet(Excess(t), SlotsOf(l)) = t.moves[l] + Unlogged("find", t, l)
      <4>1. \A p \in Tasks \X Slots : Excess(t)[p] = 0
        BY <3>1 DEF Excess
      <4>2. \A p \in SlotsOf(l) : Excess(t)[p] = 0
        BY <4>1, SlotsOfFinite
      <4>3. SumFunctionOnSet(Excess(t), SlotsOf(l)) = 0
        BY <4>2, SlotsOfFinite, SumZero
      <4> QED
        BY <1>4, <2>1, <4>3 DEF Unlogged
    <3> QED
      BY <1>4, <3>1, <3>2 DEF SoloPicks
  <2>5. SoloVerdicts("find", t)
    BY <1>4 DEF SoloVerdicts, OrderOf
  <2> QED
    BY <2>2, <2>3, <2>4, <2>5 DEF Solo
<1> QED
  BY <1>1, <1>2, <1>5, <1>6, LoneLocal

\* Statements that keep what a confirm has written, and its place in its lines.
SameWrites(x, t) ==
  /\ t.task = x.task /\ t.dto = x.dto /\ t.k = x.k /\ t.base = x.base
  /\ t.resv = x.resv /\ t.pick = x.pick /\ t.qty = x.qty /\ t.moves = x.moves

LEMMA SamePlace ==
  ASSUME NEW c \in {"find", "task", "order"}, NEW d \in {"take", "task", "order", "commit"},
         NEW x, NEW t, SameWrites(x, t), Solo(c, x),
         d = "take" => t.found = ResvSeen(t, Cur(t).slot[2])
  PROVE  SoloScope(d, t) /\ SoloLedger(d, t) /\ SoloPicks(d, t)
<1>1. SoloScope(d, t)
  BY DEF Solo, SoloScope, SameWrites, OrderOf
<1>2. SoloLedger(d, t)
  BY DEF Solo, SoloLedger, SameWrites, ResvSeen, Pending, Unwritten
<1>3. SoloPicks(d, t)
  <2>1. Excess(t) = Excess(x) /\ LotsTwice(t) = LotsTwice(x)
    BY DEF SameWrites, Excess, LotsTwice
  <2>2. \A s \in Slots : Written(c, x, s) => Written(d, t, s)
    BY DEF SameWrites, Written
  <2>3. \A l : Unlogged(c, x, l) = 0 /\ Unlogged(d, t, l) = 0
    BY DEF Unlogged
  <2> QED
    BY <2>1, <2>2, <2>3 DEF Solo, SoloPicks, SameWrites, Unwritten
<1> QED
  BY <1>1, <1>2, <1>3

LEMMA LoneKeep ==
  ASSUME SInv, IInv, TypeOK, NEW w \in Workers,
         FindReservation(w) \/ JudgeTask(w) \/ WriteTask(w) \/ JudgeOrder(w)
  PROVE  SInv'
<1>1. PICK x \in Tx : x = tx[w]
  BY TxTypes
<1>2. /\ \A s : PickedIn(w, s) = PickSeen(x, s)
      /\ \A l : ReservedIn(w, l) = ResvSeen(x, l)
      /\ \A ln : PickedQtyIn(w, ln) = QtySeen(x, ln)
      /\ Order(w) = OrderOf(x) /\ Lot(w) = Cur(x).slot[2]
  BY <1>1 DEF PickedIn, PickSeen, ReservedIn, ResvSeen, PickedQtyIn, QtySeen, Order, OrderOf,
     Lot, Slot, Current, Cur
<1>3. CASE FindReservation(w)
  <2>1. PICK t : t = [x EXCEPT !.found = ResvSeen(x, Cur(x).slot[2])]
    OBVIOUS
  <2>2. SameWrites(x, t) /\ t.found = ResvSeen(x, Cur(x).slot[2]) /\ t.next = x.next
    BY <2>1 DEF Tx, SameWrites
  <2>3. pc[w] = "find" /\ Local(w, "take", t)
    BY <1>1, <1>2, <1>3, <2>1 DEF FindReservation
  <2>4. t.found = ResvSeen(t, Cur(t).slot[2])
    BY <2>2 DEF SameWrites, ResvSeen, Cur
  <2>5. Solo("find", x) => Solo("take", t)
    BY <2>2, <2>4, SamePlace DEF Solo, SoloVerdicts, SameWrites, OrderOf, Unwritten
  <2> QED
    BY <1>1, <2>3, <2>5, LoneLocal
<1>4. CASE JudgeTask(w)
  <2>1. PICK t : t = [x EXCEPT !.all = AllPicked(w)]
    OBVIOUS
  <2>2. SameWrites(x, t) /\ t.all = AllPicked(w) /\ t.next = x.next
    BY <2>1 DEF Tx, SameWrites
  <2>3. pc[w] = "find" /\ Local(w, "task", t)
    BY <1>1, <1>4, <2>1 DEF JudgeTask
  <2>4. t.all <=> \A s \in PlannedSlots(t.task) : PickSeen(t, s) = toPick[t.task][s]
    <3>1. \A s : PickedIn(w, s) = PickSeen(t, s)
      BY <1>2, <2>2 DEF SameWrites, PickSeen
    <3>2. t.task = tx[w].task
      BY <1>1, <2>2 DEF SameWrites
    <3>3. AllPicked(w) <=> \A s \in PlannedSlots(t.task) : PickSeen(t, s) = toPick[t.task][s]
      BY <3>1, <3>2 DEF AllPicked
    <3> QED
      BY <2>2, <3>3
  <2>5. Solo("find", x) => Solo("task", t)
    <3>1. Solo("find", x) => SoloScope("task", t) /\ SoloLedger("task", t) /\ SoloPicks("task", t)
      BY <2>2, SamePlace
    <3>2. Solo("find", x) => SoloVerdicts("task", t)
      BY <2>2, <2>4 DEF Solo, SoloVerdicts, SameWrites, OrderOf, Unwritten
    <3> QED
      BY <3>1, <3>2 DEF Solo
  <2> QED
    BY <1>1, <2>3, <2>5, LoneLocal
<1>5. CASE WriteTask(w)
  <2>1. PICK t : t = [x EXCEPT !.wrote = TRUE]
    OBVIOUS
  <2>2. SameWrites(x, t) /\ t.all = x.all /\ t.next = x.next
    BY <2>1 DEF Tx, SameWrites
  <2>3. pc[w] = "task" /\ Local(w, "order", t)
    BY <1>1, <1>5, <2>1 DEF WriteTask
  <2>4. Solo("task", x) => Solo("order", t)
    <3>1. Solo("task", x) => SoloScope("order", t) /\ SoloLedger("order", t) /\ SoloPicks("order", t)
      BY <2>2, SamePlace
    <3>2. Solo("task", x) => SoloVerdicts("order", t)
      BY <2>2 DEF Solo, SoloVerdicts, SameWrites, OrderOf, Unwritten, PickSeen
    <3> QED
      BY <3>1, <3>2 DEF Solo
  <2> QED
    BY <1>1, <2>3, <2>4, LoneLocal
<1>6. CASE JudgeOrder(w)
  <2>1. PICK t : t = [x EXCEPT !.next = NewOrderStatus(w)]
    OBVIOUS
  <2>2. SameWrites(x, t) /\ t.all = x.all /\ t.next = NewOrderStatus(w)
    BY <2>1 DEF Tx, SameWrites
  <2>3. pc[w] = "order" /\ Local(w, "commit", t)
    BY <1>1, <1>6, <2>1 DEF JudgeOrder
  <2>4. ASSUME Solo("order", x) PROVE Solo("commit", t)
    <3>1. SoloScope("commit", t) /\ SoloLedger("commit", t) /\ SoloPicks("commit", t)
      BY <2>2, <2>4, SamePlace
    <3>2. tx[w].next = orderStatus[OrderOf(x)] /\ OrderOf(t) = OrderOf(x)
      BY <1>1, <2>2, <2>4 DEF Solo, SoloVerdicts, Unwritten, SameWrites, OrderOf
    <3>3. \A ln : PickedQtyIn(w, ln) = QtySeen(t, ln)
      BY <1>2, <2>2 DEF SameWrites, QtySeen
    <3>4. NewOrderStatus(w) = Verdict(t)
      BY <1>2, <3>2, <3>3 DEF NewOrderStatus, Verdict
    <3>5. SoloVerdicts("commit", t)
      BY <2>2, <2>4, <3>4 DEF Solo, SoloVerdicts, SameWrites, OrderOf, Unwritten, PickSeen
    <3> QED
      BY <3>1, <3>5 DEF Solo
  <2> QED
    BY <1>1, <2>3, <2>4, LoneLocal
<1> QED
  BY <1>3, <1>4, <1>5, <1>6

-----------------------------------------------------------------------------
(* The three writes of each line of a confirm.                             *)

LEMMA LoneTake ==
  ASSUME SInv, IInv, TypeOK, NEW w \in Workers, TakeReservation(w) PROVE SInv'
<1>1. PICK x \in Tx : x = tx[w]
  BY TxTypes
<1>2. pc[w] = "take" /\ x.k \in 1..Len(x.dto)
  BY <1>1 DEF TakeReservation, IInv, Good, LoopOK, InLoop
<1>3. PICK a \in Lots, q \in Nat :
        a = Lot(w) /\ q = Current(w).qty /\ a = Cur(x).slot[2] /\ q = Cur(x).qty
  BY <1>1, <1>2, CurrentType
<1>4. x.found \in Nat /\ q <= x.found
  BY <1>1, <1>2, <1>3 DEF IInv, Good, FoundOK, Tx
<1>5. PICK n \in Nat : n = x.found - q
  BY <1>4
<1>6. PICK f : f = [x.resv EXCEPT ![a] = n]
  OBVIOUS
<1>7. f[a] = n /\ \A l \in Lots \ {a} : f[l] = x.resv[l]
  BY <1>6 DEF Tx
<1>8. PICK t : t = [x EXCEPT !.resv = f]
  OBVIOUS
<1>9. /\ t.task = x.task /\ t.dto = x.dto /\ t.k = x.k /\ t.base = x.base /\ t.next = x.next
      /\ t.resv = f /\ t.pick = x.pick /\ t.qty = x.qty /\ t.moves = x.moves
  BY <1>8 DEF Tx
<1>10. Local(w, "taskLine", t)
  <2>1. Local(w, "taskLine", [x EXCEPT !.resv[a] = n])
    BY <1>1, <1>3, <1>5 DEF TakeReservation
  <2> QED
    BY <1>6, <1>8, <2>1
<1>11. ASSUME Solo("take", x) PROVE Solo("taskLine", t)
  <2>1. SoloScope("taskLine", t)
    BY <1>9, <1>11 DEF Solo, SoloScope, OrderOf
  <2>2. SoloVerdicts("taskLine", t)
    BY <1>9, <1>11 DEF Solo, SoloVerdicts, OrderOf, Unwritten
  <2>3. SoloPicks("taskLine", t)
    <3>1. Excess(t) = Excess(x) /\ LotsTwice(t) = LotsTwice(x)
      BY <1>9 DEF Excess, LotsTwice
    <3>2. \A s \in Slots : Written("take", x, s) => Written("taskLine", t, s)
      BY <1>9 DEF Written
    <3>3. \A l : Unlogged("take", x, l) = 0 /\ Unlogged("taskLine", t, l) = 0
      BY DEF Unlogged
    <3> QED
      BY <1>9, <1>11, <3>1, <3>2, <3>3 DEF Solo, SoloPicks, Unwritten
  <2>4. SoloLedger("taskLine", t)
    <3> SUFFICES ASSUME NEW l \in Lots
                 PROVE  ResvSeen(t, l) + t.moves[l] + Pending("taskLine", t, l) + moved[l] = Stock[l]
      BY DEF SoloLedger
    <3>1. ResvSeen(x, l) + x.moves[l] + Pending("take", x, l) + moved[l] = Stock[l]
      BY <1>11 DEF Solo, SoloLedger, Unwritten
    <3>2. x.found = ResvSeen(x, a)
      BY <1>3, <1>11 DEF Solo, SoloLedger, Unwritten
    <3>3. Pending("take", x, l) = 0 /\ Pending("taskLine", t, l) = IF l = a THEN q ELSE 0
      BY <1>3, <1>9 DEF Pending, Cur
    <3>4. x.moves[l] \in Nat /\ moved[l] \in Nat
      BY DEF TypeOK, Tx
    <3>5. CASE l = a
      <4>1. ResvSeen(t, l) = n
        BY <1>7, <1>9, <3>5 DEF ResvSeen, None
      <4> QED
        BY <1>4, <1>5, <1>9, <3>1, <3>2, <3>3, <3>4, <3>5, <4>1
    <3>6. CASE l # a
      <4>1. ResvSeen(t, l) = ResvSeen(x, l)
        BY <1>7, <1>9, <3>6 DEF ResvSeen
      <4> QED
        BY <1>9, <3>1, <3>3, <3>6, <4>1
    <3> QED
      BY <3>5, <3>6
  <2> QED
    BY <2>1, <2>2, <2>3, <2>4 DEF Solo
<1> QED
  BY <1>1, <1>2, <1>10, <1>11, LoneLocal

LEMMA OneSlotChanges ==
  ASSUME NEW f, NEW g, NEW l, NEW p \in SlotsOf(l),
         \A r \in SlotsOf(l) : f[r] \in Int /\ g[r] \in Int,
         \A r \in SlotsOf(l) \ {p} : f[r] = g[r]
  PROVE  SumFunctionOnSet(g, SlotsOf(l)) = SumFunctionOnSet(f, SlotsOf(l)) - f[p] + g[p]
BY SlotsOfFinite, SumUpdate

\* A task line that is written for the first time adds what is picked of it.
LEMMA ExcessAdded ==
  ASSUME NEW x \in Tx, NEW t, NEW s \in Slots, NEW q \in Nat, NEW l \in Lots,
         x.task \in Tasks, t.task = x.task, t.base = x.base,
         t.pick = [x.pick EXCEPT ![s] = x.base[s] + q],
         l = s[2] => x.pick[s] = None
  PROVE  SumFunctionOnSet(Excess(t), SlotsOf(l))
           = SumFunctionOnSet(Excess(x), SlotsOf(l)) + IF l = s[2] THEN q ELSE 0
<1>1. PICK p \in Tasks \X Slots : p = <<x.task, s>>
  OBVIOUS
<1>2. /\ x.base[s] \in Nat /\ t.pick[s] = x.base[s] + q
      /\ \A r \in Slots \ {s} : t.pick[r] = x.pick[r]
  BY DEF Tx
<1>3. \A r \in Tasks \X Slots : r # p => Excess(t)[r] = Excess(x)[r]
  BY <1>1, <1>2 DEF Excess
<1>4. ASSUME NEW r \in Tasks \X Slots PROVE Excess(x)[r] \in Int
  <2>1. x.pick[r[2]] \in Int /\ x.base[r[2]] \in Int
    BY DEF Tx, Entry, None
  <2> QED
    BY <2>1 DEF Excess
<1>5. Excess(t)[p] = q
  <2>1. x.base[s] + q # None /\ x.base[s] + q - x.base[s] = q
    BY <1>2 DEF None
  <2> QED
    BY <1>1, <1>2, <2>1 DEF Excess
<1>6. CASE l = s[2]
  <2>1. p \in SlotsOf(l) /\ Excess(x)[p] = 0
    BY <1>1, <1>6 DEF SlotsOf, Excess
  <2>4. PICK f, g : f = Excess(x) /\ g = Excess(t)
    OBVIOUS
  <2>2. \A r \in SlotsOf(l) : f[r] \in Int /\ g[r] \in Int
    <3> SUFFICES ASSUME NEW r \in Tasks \X Slots PROVE f[r] \in Int /\ g[r] \in Int
      BY SlotsOfFinite
    <3>1. f[r] \in Int /\ q \in Int
      BY <1>4, <2>4
    <3> QED
      BY <1>3, <1>5, <2>4, <3>1
  <2>3. \A r \in SlotsOf(l) \ {p} : f[r] = g[r]
    BY <1>3, <2>4, SlotsOfFinite
  <2>5. SumFunctionOnSet(g, SlotsOf(l)) = SumFunctionOnSet(f, SlotsOf(l)) - f[p] + g[p]
    <3>1. p \in SlotsOf(l)
      BY <2>1
    <3>2. PICK S : S = SlotsOf(l)
      OBVIOUS
    <3>3. \A r \in S : f[r] \in Int /\ g[r] \in Int
      BY <2>2, <3>2
    <3>4. f[p] \in Int /\ g[p] \in Int /\ SumFunctionOnSet(f, S) \in Int /\ SumFunctionOnSet(g, S) \in Int
      BY <3>1, <3>2, <3>3, SlotsOfFinite, SumInt
    <3> QED
      BY <2>2, <2>3, <3>1, <3>2, <3>4, OneSlotChanges
  <2>6. SumFunctionOnSet(f, SlotsOf(l)) \in Int
    BY <2>2, <2>4, SlotsOfFinite, SumInt
  <2> QED
    BY <1>5, <1>6, <2>1, <2>4, <2>5, <2>6
<1>7. CASE l # s[2]
  <2>1. \A r \in SlotsOf(l) : Excess(t)[r] = Excess(x)[r]
    BY <1>1, <1>3, <1>7 DEF SlotsOf
  <2>2. SumFunctionOnSet(Excess(x), SlotsOf(l)) \in Int
    BY <1>4, SlotsOfFinite, SumInt
  <2>3. SumFunctionOnSet(Excess(t), SlotsOf(l)) = SumFunctionOnSet(Excess(x), SlotsOf(l))
    BY <2>1, SlotsOfFinite, SumAgree
  <2> QED
    BY <1>7, <2>2, <2>3
<1> QED
  BY <1>6, <1>7

LEMMA LoneWriteTaskLine ==
  ASSUME SInv, IInv, TypeOK, NEW w \in Workers, WriteTaskLine(w) PROVE SInv'
<1>1. PICK x \in Tx : x = tx[w]
  BY TxTypes
<1>2. pc[w] = "taskLine" /\ x.k \in 1..Len(x.dto) /\ x.task \in Tasks
  BY <1>1 DEF WriteTaskLine, IInv, Good, LoopOK, InLoop, TaskOK
<1>3. PICK s \in Slots, q \in Nat :
        s = Slot(w) /\ q = Current(w).qty /\ s = Cur(x).slot /\ q = Cur(x).qty
  BY <1>1, <1>2, CurrentType
<1>4. PICK f : f = [x.pick EXCEPT ![s] = x.base[s] + q]
  OBVIOUS
<1>5. \A r \in Slots \ {s} : f[r] = x.pick[r]
  BY <1>4 DEF Tx
<1>6. PICK t : t = [x EXCEPT !.pick = f]
  OBVIOUS
<1>7. /\ t.task = x.task /\ t.dto = x.dto /\ t.k = x.k /\ t.base = x.base /\ t.next = x.next
      /\ t.resv = x.resv /\ t.pick = f /\ t.qty = x.qty /\ t.moves = x.moves
  BY <1>6 DEF Tx
<1>8. Local(w, "orderLine", t)
  <2>1. Local(w, "orderLine", [x EXCEPT !.pick[s] = x.base[s] + q])
    BY <1>1, <1>3 DEF WriteTaskLine
  <2> QED
    BY <1>4, <1>6, <2>1
<1>9. ASSUME Solo("taskLine", x) PROVE Solo("orderLine", t)
  <2>1. SoloScope("orderLine", t)
    BY <1>7, <1>9 DEF Solo, SoloScope, OrderOf
  <2>2. SoloVerdicts("orderLine", t)
    BY <1>7, <1>9 DEF Solo, SoloVerdicts, OrderOf, Unwritten
  <2>3. SoloLedger("orderLine", t)
    BY <1>7, <1>9 DEF Solo, SoloLedger, ResvSeen, Pending, Cur, Unwritten
  <2>4. SoloPicks("orderLine", t)
    <3>1. /\ x.base = picked[x.task]
          /\ \A r \in Slots : x.pick[r] # None => Written("taskLine", x, r)
          /\ \A l \in Lots \ LotsTwice(x) :
               SumFunctionOnSet(Excess(x), SlotsOf(l)) = x.moves[l] + Unlogged("taskLine", x, l)
      BY <1>9 DEF Solo, SoloPicks, Unwritten
    <3>2. ASSUME NEW r \in Slots, t.pick[r] # None PROVE Written("orderLine", t, r)
      <4>1. CASE r = s
        BY <1>2, <1>3, <1>7, <4>1 DEF Written, Cur
      <4>2. CASE r # s
        <5>1. Written("taskLine", x, r)
          BY <1>5, <1>7, <3>1, <3>2, <4>2
        <5> QED
          BY <1>7, <5>1 DEF Written
      <4> QED
        BY <4>1, <4>2
    <3>3. ASSUME NEW l \in Lots \ LotsTwice(x)
          PROVE  SumFunctionOnSet(Excess(t), SlotsOf(l)) = t.moves[l] + Unlogged("orderLine", t, l)
      <4>1. l = s[2] => x.pick[s] = None
        <5> SUFFICES ASSUME l = s[2], x.pick[s] # None PROVE FALSE
          OBVIOUS
        <5>1. PICK j \in 1..Len(x.dto) : x.dto[j].slot = s /\ j < x.k
          BY <3>1 DEF Written
        <5>2. x.dto[x.k].slot = s /\ j # x.k
          BY <1>2, <1>3, <5>1 DEF Cur
        <5>3. s \in ListedTwice(x.dto)
          BY <1>2, <5>1, <5>2 DEF ListedTwice
        <5> QED
          BY <5>3 DEF LotsTwice
      <4>2. SumFunctionOnSet(Excess(t), SlotsOf(l))
              = SumFunctionOnSet(Excess(x), SlotsOf(l)) + IF l = s[2] THEN q ELSE 0
        BY <1>2, <1>4, <1>7, <4>1, ExcessAdded
      <4>3. SumFunctionOnSet(Excess(x), SlotsOf(l)) = x.moves[l]
        <5>1. Unlogged("taskLine", x, l) = 0 /\ x.moves[l] \in Nat
          BY DEF Unlogged, Tx
        <5> QED
          BY <3>1, <5>1
      <4>4. Unlogged("orderLine", t, l) = IF l = s[2] THEN q ELSE 0
        BY <1>3, <1>7 DEF Unlogged, Cur
      <4> QED
        BY <1>7, <4>2, <4>3, <4>4
    <3>4. LotsTwice(t) = LotsTwice(x)
      BY <1>7 DEF LotsTwice
    <3> QED
      BY <1>7, <3>1, <3>2, <3>3, <3>4 DEF SoloPicks
  <2> QED
    BY <2>1, <2>2, <2>3, <2>4 DEF Solo
<1> QED
  BY <1>1, <1>2, <1>8, <1>9, LoneLocal

LEMMA LoneWriteOrderLine ==
  ASSUME SInv, IInv, TypeOK, NEW w \in Workers, WriteOrderLine(w) PROVE SInv'
<1>1. PICK x \in Tx : x = tx[w]
  BY TxTypes
<1>2. pc[w] = "orderLine" /\ x.k \in 1..Len(x.dto) /\ x.task \in Tasks
  BY <1>1 DEF WriteOrderLine, IInv, Good, LoopOK, InLoop, TaskOK
<1>3. PICK s \in Slots, q \in Nat \ {0} :
        /\ s = Slot(w) /\ q = Current(w).qty /\ s = Cur(x).slot /\ q = Cur(x).qty
        /\ s[1] = Line(w) /\ s[2] = Lot(w) /\ s[1] \in Lines /\ s[2] \in Lots
  BY <1>1, <1>2, CurrentType
<1>4. PICK n \in Nat : n = x.base[s] + q /\ n > 0
  <2>1. x.base[s] \in Nat
    BY DEF Tx
  <2>2. x.base[s] + q \in Nat /\ x.base[s] + q > 0
    BY <2>1
  <2> QED
    BY <2>2
<1>5. PICK f, g : f = [x.qty EXCEPT ![s[1]] = n] /\ g = [x.moves EXCEPT ![s[2]] = @ + q]
  OBVIOUS
<1>6. /\ f[s[1]] = n /\ \A ln \in Lines \ {s[1]} : f[ln] = x.qty[ln]
      /\ g[s[2]] = x.moves[s[2]] + q /\ \A l \in Lots \ {s[2]} : g[l] = x.moves[l]
  BY <1>3, <1>5 DEF Tx
<1>7. PICK t : t = [x EXCEPT !.qty = f, !.moves = g, !.k = @ + 1, !.found = 0]
  OBVIOUS
<1>8. /\ t.task = x.task /\ t.dto = x.dto /\ t.k = x.k + 1 /\ t.base = x.base /\ t.next = x.next
      /\ t.resv = x.resv /\ t.pick = x.pick /\ t.qty = f /\ t.moves = g
  BY <1>7 DEF Tx
<1>9. Local(w, "find", t)
  <2>1. Local(w, "find", [x EXCEPT !.qty[s[1]] = n, !.moves[s[2]] = @ + q, !.k = @ + 1, !.found = 0])
    BY <1>1, <1>3, <1>4 DEF WriteOrderLine
  <2> QED
    BY <1>5, <1>7, <2>1
<1>10. ASSUME NEW l \in Lots
       PROVE  /\ t.moves[l] = x.moves[l] + Pending("orderLine", x, l)
              /\ t.moves[l] = x.moves[l] + Unlogged("orderLine", x, l)
              /\ Pending("find", t, l) = 0 /\ Unlogged("find", t, l) = 0
              /\ x.moves[l] \in Nat /\ t.moves[l] \in Nat
  <2>1. x.moves[l] \in Nat
    BY DEF Tx
  <2>2. Pending("orderLine", x, l) = (IF l = s[2] THEN q ELSE 0)
    BY <1>3 DEF Pending
  <2>3. Unlogged("orderLine", x, l) = (IF l = s[2] THEN q ELSE 0)
    BY <1>3 DEF Unlogged
  <2>4. t.moves[l] = x.moves[l] + IF l = s[2] THEN q ELSE 0
    BY <1>6, <1>8, <2>1
  <2>5. Pending("find", t, l) = 0 /\ Unlogged("find", t, l) = 0
    BY DEF Pending, Unlogged
  <2> QED
    BY <2>1, <2>2, <2>3, <2>4, <2>5
<1>11. ASSUME Settled, Solo("orderLine", x) PROVE Solo("find", t)
  <2>1. SoloScope("find", t)
    <3>1. s \in PlannedSlots(x.task)
      BY <1>2, <1>3, <1>11 DEF Solo, SoloScope, Cur
    <3>2. s[1] \in LinesOf[OrderOf(x)]
      BY <1>2, <3>1, <1>11 DEF Settled, PlansOfOrder, PlannedSlots, OrderOf
    <3>3. \A ln \in Lines : t.qty[ln] # None => t.qty[ln] > 0 /\ ln \in LinesOf[OrderOf(t)]
      BY <1>4, <1>6, <1>8, <3>2, <1>11 DEF Solo, SoloScope, OrderOf
    <3> QED
      BY <1>8, <1>11, <3>3 DEF Solo, SoloScope
  <2>2. SoloVerdicts("find", t)
    BY <1>8, <1>11 DEF Solo, SoloVerdicts, OrderOf, Unwritten
  <2>3. SoloLedger("find", t)
    <3> SUFFICES ASSUME NEW l \in Lots
                 PROVE  ResvSeen(t, l) + t.moves[l] + Pending("find", t, l) + moved[l] = Stock[l]
      BY DEF SoloLedger
    <3>1. ResvSeen(x, l) + x.moves[l] + Pending("orderLine", x, l) + moved[l] = Stock[l]
      BY <1>11 DEF Solo, SoloLedger, Unwritten
    <3>2. PICK r, p : r = ResvSeen(x, l) /\ p = Pending("orderLine", x, l)
      OBVIOUS
    <3>3. ResvSeen(t, l) = r
      BY <1>8, <3>2 DEF ResvSeen
    <3>4. r \in Int /\ p \in Int /\ moved[l] \in Int
      <4>1. x.resv[l] \in Int /\ reserved[l] \in Int /\ moved[l] \in Int
        BY DEF TypeOK, Tx, Entry, None
      <4>2. p \in Int
        BY <1>3, <3>2 DEF Pending
      <4> QED
        BY <3>2, <4>1, <4>2 DEF ResvSeen
    <3> QED
      BY <1>10, <3>1, <3>2, <3>3, <3>4
  <2>4. SoloPicks("find", t)
    <3>1. Excess(t) = Excess(x) /\ LotsTwice(t) = LotsTwice(x)
      BY <1>8 DEF Excess, LotsTwice
    <3>2. \A r \in Slots : Written("orderLine", x, r) => Written("find", t, r)
      BY <1>2, <1>8 DEF Written
    <3>3. \A l \in Lots \ LotsTwice(x) :
            SumFunctionOnSet(Excess(x), SlotsOf(l)) = x.moves[l] + Unlogged("orderLine", x, l)
      BY <1>11 DEF Solo, SoloPicks, Unwritten
    <3>4. \A l \in Lots \ LotsTwice(x) :
            SumFunctionOnSet(Excess(t), SlotsOf(l)) = t.moves[l] + Unlogged("find", t, l)
      BY <1>10, <3>1, <3>3
    <3> QED
      BY <1>8, <1>11, <3>1, <3>2, <3>4 DEF Solo, SoloPicks, Unwritten
  <2> QED
    BY <2>1, <2>2, <2>3, <2>4 DEF Solo
<1> QED
  BY <1>1, <1>2, <1>9, <1>11, LoneLocal

-----------------------------------------------------------------------------
(* The statements that write committed rows.                               *)

LEMMA IdleSoloNext == \A t : Solo("idle", t)'
BY DEF Solo, SoloScope, SoloLedger, SoloPicks, SoloVerdicts, Unwritten

LEMMA LoneCreateTask ==
  ASSUME SInv, IInv, TypeOK, NEW w \in Workers, CreateTask(w) PROVE SInv'
<1>1. PICK x \in Tx : x = tx[w]
  BY TxTypes
<1>2. PICK t \in Tasks : t = x.task /\ taskStatus[t] = "NONE"
  BY <1>1 DEF CreateTask, IInv, Good, TaskOK
<1>3. /\ pc[w] = "plan" /\ Goto(w, "idle", NoTx)
      /\ taskStatus' = [taskStatus EXCEPT ![t] = "CREATED"]
      /\ toPick' = [toPick EXCEPT ![t] = x.plan]
      /\ orderStatus' = [orderStatus EXCEPT ![TaskOrder[t]] = "PICKING"]
      /\ UNCHANGED <<pickedQty, reserved, moved, picked, repeated>>
  BY <1>1, <1>2 DEF CreateTask, Order
<1>4. /\ taskStatus'[t] = "CREATED" /\ toPick'[t] = x.plan
      /\ \A u \in Tasks \ {t} : taskStatus'[u] = taskStatus[u] /\ toPick'[u] = toPick[u]
      /\ orderStatus'[TaskOrder[t]] = "PICKING"
      /\ \A o \in Orders \ {TaskOrder[t]} : orderStatus'[o] = orderStatus[o]
  BY <1>3 DEF TypeOK
<1>5. ASSUME ~overlapped' PROVE Settled'
  <2>1. Settled /\ Solo("plan", x)
    BY <1>1, <1>3, <1>5, LoneRequest
  <2>2. LedgerBalanced'
    BY <1>3, <2>1 DEF Settled, LedgerBalanced
  <2>3. MovementsMatchPicks'
    <3>1. \A l : PickedOfLot(l)' = PickedOfLot(l)
      BY <1>3 DEF PickedOfLot, PickedAt, SlotsOf
    <3> QED
      BY <1>3, <2>1, <3>1 DEF Settled, MovementsMatchPicks
  <2>4. CompletedMeansPicked'
    BY <1>3, <1>4, <2>1 DEF Settled, CompletedMeansPicked, AllSlotsPicked, PlannedSlots
  <2>5. StatusAgreesWithPicks'
    <3>1. orderStatus[TaskOrder[t]] = "ALLOCATED"
      BY <1>2, <2>1 DEF Solo, SoloVerdicts, OrderOf
    <3> QED
      BY <1>3, <1>4, <2>1, <3>1 DEF Settled, StatusAgreesWithPicks
  <2>6. PlansOfOrder'
    <3>1. \A s \in Slots : x.plan[s] # None => x.plan[s] > 0 /\ s[1] \in LinesOf[TaskOrder[t]]
      BY <1>2, <2>1 DEF Solo, SoloScope, OrderOf
    <3> QED
      BY <1>4, <2>1, <3>1 DEF Settled, PlansOfOrder
  <2>7. CreatedUnpicked'
    BY <1>2, <1>3, <1>4, <2>1 DEF Settled, CreatedUnpicked, IInv, NewTasksUnpicked
  <2> QED
    BY <2>2, <2>3, <2>4, <2>5, <2>6, <2>7 DEF Settled
<1> QED
  BY <1>3, <1>5, IdleSoloNext, LoneGoto

LEMMA LoneStart ==
  ASSUME SInv, IInv, TypeOK, NEW w \in Workers, Start(w) PROVE SInv'
<1>1. PICK x \in Tx : x = tx[w]
  BY TxTypes
<1>2. PICK t \in Tasks : t = x.task
  BY <1>1 DEF Start, IInv, Good, TaskOK
<1>3. /\ pc[w] = "start" /\ Goto(w, "idle", NoTx)
      /\ taskStatus' = [taskStatus EXCEPT ![t] = "IN_PROGRESS"]
      /\ UNCHANGED <<orderStatus, pickedQty, reserved, moved, toPick, picked, repeated>>
  BY <1>1, <1>2 DEF Start
<1>4. /\ taskStatus'[t] = "IN_PROGRESS"
      /\ \A u \in Tasks \ {t} : taskStatus'[u] = taskStatus[u]
  BY <1>3 DEF TypeOK
<1>5. ASSUME ~overlapped' PROVE Settled'
  <2>1. Settled /\ Solo("start", x)
    BY <1>1, <1>3, <1>5, LoneRequest
  <2>2. LedgerBalanced'
    BY <1>3, <2>1 DEF Settled, LedgerBalanced
  <2>3. MovementsMatchPicks'
    <3>1. \A l : PickedOfLot(l)' = PickedOfLot(l)
      BY <1>3 DEF PickedOfLot, PickedAt, SlotsOf
    <3> QED
      BY <1>3, <2>1, <3>1 DEF Settled, MovementsMatchPicks
  <2>4. CompletedMeansPicked'
    <3>1. taskStatus[t] = "CREATED"
      BY <1>2, <2>1 DEF Solo, SoloVerdicts
    <3>2. \A s \in PlannedSlots(t) : picked[t][s] # toPick[t][s]
      <4>1. \A s \in PlannedSlots(t) : picked[t][s] = 0 /\ toPick[t][s] > 0
        BY <2>1, <3>1 DEF Settled, CreatedUnpicked, PlansOfOrder, PlannedSlots
      <4>2. ~ 0 > 0
        OBVIOUS
      <4> QED
        BY <4>1, <4>2
    <3>3. PlannedSlots(t) # {} => ~AllSlotsPicked(t)
      BY <3>2 DEF AllSlotsPicked
    <3>4. \A u : /\ AllSlotsPicked(u)' <=> AllSlotsPicked(u)
                 /\ PlannedSlots(u)' = PlannedSlots(u)
      BY <1>3 DEF AllSlotsPicked, PlannedSlots
    <3> QED
      BY <1>4, <2>1, <3>3, <3>4 DEF Settled, CompletedMeansPicked
  <2>5. StatusAgreesWithPicks' /\ PlansOfOrder'
    BY <1>3, <2>1 DEF Settled, StatusAgreesWithPicks, PlansOfOrder
  <2>6. CreatedUnpicked'
    BY <1>3, <1>4, <2>1 DEF Settled, CreatedUnpicked
  <2> QED
    BY <2>2, <2>3, <2>4, <2>5, <2>6 DEF Settled
<1> QED
  BY <1>3, <1>5, IdleSoloNext, LoneGoto

LEMMA LoneCommit ==
  ASSUME SInv, IInv, TypeOK, NEW w \in Workers, Commit(w) PROVE SInv'
<1>1. PICK x \in Tx : x = tx[w]
  BY TxTypes
<1>2. PICK t \in Tasks, o \in Orders : t = x.task /\ o = TaskOrder[t]
  BY <1>1 DEF Commit, IInv, Good, TaskOK
<1>3. /\ pc[w] = "commit" /\ Goto(w, "idle", NoTx) /\ toPick' = toPick
      /\ orderStatus' = [orderStatus EXCEPT ![o] = x.next]
      /\ pickedQty' = [ln \in Lines |-> QtySeen(x, ln)]
      /\ reserved' = [l \in Lots |-> ResvSeen(x, l)]
      /\ moved' = [l \in Lots |-> moved[l] + x.moves[l]]
      /\ taskStatus' = [taskStatus EXCEPT ![t] = IF x.all THEN "COMPLETED" ELSE "IN_PROGRESS"]
      /\ picked' = [picked EXCEPT ![t] = [s \in Slots |-> PickSeen(x, s)]]
      /\ repeated' = repeated \cup LotsTwice(x)
  BY <1>1, <1>2 DEF Commit, Order, PickedQtyIn, QtySeen, ReservedIn, ResvSeen, PickedIn, PickSeen,
     LotsTwice
<1>4. /\ orderStatus'[o] = x.next
      /\ \A p \in Orders \ {o} : orderStatus'[p] = orderStatus[p]
      /\ taskStatus'[t] = IF x.all THEN "COMPLETED" ELSE "IN_PROGRESS"
      /\ \A u \in Tasks \ {t} : taskStatus'[u] = taskStatus[u] /\ picked'[u] = picked[u]
      /\ picked'[t] = [s \in Slots |-> PickSeen(x, s)]
  BY <1>3 DEF TypeOK
<1>5. ASSUME ~overlapped' PROVE Settled'
  <2>1. Settled /\ Solo("commit", x)
    BY <1>1, <1>3, <1>5, LoneRequest
  <2>2. LedgerBalanced'
    <3> SUFFICES ASSUME NEW l \in Lots PROVE reserved'[l] + moved'[l] = Stock[l]
      BY DEF LedgerBalanced
    <3>1. ResvSeen(x, l) + x.moves[l] + Pending("commit", x, l) + moved[l] = Stock[l]
      BY <2>1 DEF Solo, SoloLedger, Unwritten
    <3>2. Pending("commit", x, l) = 0
      BY DEF Pending
    <3>3. reserved'[l] = ResvSeen(x, l) /\ moved'[l] = moved[l] + x.moves[l]
      BY <1>3
    <3>4. ResvSeen(x, l) \in Int /\ moved[l] \in Int /\ x.moves[l] \in Int
      BY DEF ResvSeen, TypeOK, Tx, Entry, None
    <3> QED
      BY <3>1, <3>2, <3>3, <3>4
  <2>3. MovementsMatchPicks'
    <3> SUFFICES ASSUME NEW l \in Lots \ (repeated \cup LotsTwice(x))
                 PROVE  PickedOfLot(l)' = moved'[l]
      BY <1>3 DEF MovementsMatchPicks
    <3>1. PICK f, g, e : f = PickedAt /\ g = PickedAt' /\ e = Excess(x)
      OBVIOUS
    <3>2. ASSUME NEW u \in Tasks, NEW s \in Slots
          PROVE  /\ f[<<u, s>>] \in Int /\ e[<<u, s>>] \in Int
                 /\ g[<<u, s>>] = f[<<u, s>>] + e[<<u, s>>]
      <4>1. f[<<u, s>>] = picked[u][s] /\ g[<<u, s>>] = picked'[u][s]
        BY <3>1 DEF PickedAt
      <4>2. e[<<u, s>>] = IF u # t \/ x.pick[s] = None THEN 0 ELSE x.pick[s] - x.base[s]
        BY <1>2, <3>1 DEF Excess
      <4>3. picked[u][s] \in Int /\ x.pick[s] \in Int /\ x.base[s] \in Int
        BY DEF TypeOK, Tx, Entry, None
      <4>4. CASE u = t /\ x.pick[s] # None
        <5>1. picked'[u][s] = x.pick[s]
          BY <1>4, <4>4 DEF PickSeen
        <5>2. x.base[s] = picked[u][s]
          BY <1>2, <2>1, <4>4 DEF Solo, SoloPicks, Unwritten
        <5> QED
          BY <4>1, <4>2, <4>3, <4>4, <5>1, <5>2
      <4>5. CASE u # t \/ x.pick[s] = None
        <5>1. picked'[u][s] = picked[u][s]
          BY <1>2, <1>4, <4>5 DEF PickSeen
        <5> QED
          BY <4>1, <4>2, <4>3, <4>5, <5>1
      <4> QED
        BY <4>4, <4>5
    <3>3. \A p \in SlotsOf(l) : f[p] \in Int /\ e[p] \in Int /\ g[p] = f[p] + e[p]
      <4> SUFFICES ASSUME NEW p \in Tasks \X Slots
                   PROVE  f[p] \in Int /\ e[p] \in Int /\ g[p] = f[p] + e[p]
        BY SlotsOfFinite
      <4>1. PICK u \in Tasks, s \in Slots : p = <<u, s>>
        OBVIOUS
      <4> QED
        BY <3>2, <4>1
    <3>4. PICK a \in Int, b \in Int : a = SumFunctionOnSet(f, SlotsOf(l)) /\ b = SumFunctionOnSet(e, SlotsOf(l))
      BY <3>3, SlotsOfFinite, SumInt
    <3>5. SumFunctionOnSet(g, SlotsOf(l)) = a + b
      BY <3>3, <3>4, SlotsOfFinite, SumPlus
    <3>6. a = moved[l]
      BY <2>1, <3>1, <3>4 DEF Settled, MovementsMatchPicks, PickedOfLot
    <3>7. b = x.moves[l]
      <4>1. Unlogged("commit", x, l) = 0 /\ x.moves[l] \in Nat
        BY DEF Unlogged, Tx
      <4>2. b = x.moves[l] + Unlogged("commit", x, l)
        BY <2>1, <3>1, <3>4 DEF Solo, SoloPicks, Unwritten
      <4> QED
        BY <4>1, <4>2
    <3>8. PickedOfLot(l)' = SumFunctionOnSet(g, SlotsOf(l))
      BY <3>1 DEF PickedOfLot, SlotsOf
    <3> QED
      BY <1>3, <3>5, <3>6, <3>7, <3>8
  <2>4. CompletedMeansPicked'
    <3>1. \A u : PlannedSlots(u)' = PlannedSlots(u)
      BY <1>3 DEF PlannedSlots
    <3>2. x.all <=> \A s \in PlannedSlots(t) : PickSeen(x, s) = toPick[t][s]
      BY <1>2, <2>1 DEF Solo, SoloVerdicts
    <3>3. AllSlotsPicked(t)' <=> x.all
      BY <1>3, <1>4, <3>1, <3>2 DEF AllSlotsPicked, PlannedSlots
    <3>4. \A u \in Tasks \ {t} : AllSlotsPicked(u)' <=> AllSlotsPicked(u)
      BY <1>3, <1>4, <3>1 DEF AllSlotsPicked, PlannedSlots
    <3> QED
      BY <1>4, <2>1, <3>1, <3>3, <3>4 DEF Settled, CompletedMeansPicked
  <2>5. StatusAgreesWithPicks'
    <3> SUFFICES ASSUME NEW p \in Orders, NEW m \in LinesOf[p], Requested[m] > 0
                 PROVE  /\ orderStatus'[p] = "PICKED"
                             <=> \A ln \in LinesOf[p] : pickedQty'[ln] = Requested[ln]
                        /\ orderStatus'[p] = "PARTIALLY_PICKED"
                             <=> /\ \E ln \in LinesOf[p] : pickedQty'[ln] > 0
                                 /\ ~ \A ln \in LinesOf[p] : pickedQty'[ln] = Requested[ln]
      BY DEF StatusAgreesWithPicks
    <3>1. /\ orderStatus[p] = "PICKED"
               <=> \A ln \in LinesOf[p] : pickedQty[ln] = Requested[ln]
          /\ orderStatus[p] = "PARTIALLY_PICKED"
               <=> /\ \E ln \in LinesOf[p] : pickedQty[ln] > 0
                   /\ ~ \A ln \in LinesOf[p] : pickedQty[ln] = Requested[ln]
      BY <2>1 DEF Settled, StatusAgreesWithPicks
    <3>2. LinesOf[p] \subseteq Lines /\ LinesOf[o] \subseteq Lines
      OBVIOUS
    <3>3. \A ln \in Lines : x.qty[ln] # None => x.qty[ln] > 0 /\ ln \in LinesOf[o]
      BY <1>2, <2>1 DEF Solo, SoloScope, OrderOf
    <3>4. CASE p # o
      <4>1. \A ln \in LinesOf[p] : ln \notin LinesOf[o]
        BY <3>4
      <4>2. \A ln \in LinesOf[p] : pickedQty'[ln] = pickedQty[ln]
        BY <1>3, <3>2, <3>3, <4>1 DEF QtySeen
      <4> QED
        BY <1>4, <3>1, <3>4, <4>2
    <3>5. CASE p = o
      <4>1. x.next = IF \A ln \in LinesOf[p] : pickedQty'[ln] = Requested[ln] THEN "PICKED"
                     ELSE IF \E ln \in LinesOf[p] : pickedQty'[ln] > 0 THEN "PARTIALLY_PICKED"
                     ELSE orderStatus[p]
        <5>1. x.next = Verdict(x) /\ OrderOf(x) = p
          BY <1>2, <2>1, <3>5 DEF Solo, SoloVerdicts, OrderOf
        <5>2. \A ln \in LinesOf[p] : pickedQty'[ln] = QtySeen(x, ln)
          BY <1>3, <3>2
        <5> QED
          BY <5>1, <5>2 DEF Verdict
      <4>2. \A ln \in LinesOf[p] : pickedQty[ln] > 0 => pickedQty'[ln] > 0
        BY <1>3, <3>2, <3>3 DEF QtySeen
      <4>3. orderStatus'[p] = x.next
        BY <1>4, <3>5
      <4>4. CASE \E ln \in LinesOf[p] : pickedQty'[ln] > 0
        BY <4>1, <4>3, <4>4
      <4>5. CASE ~ \E ln \in LinesOf[p] : pickedQty'[ln] > 0
        <5>1. \A ln \in LinesOf[p] : ~ pickedQty[ln] > 0
          BY <4>2, <4>5
        <5>2. pickedQty[m] # Requested[m] /\ pickedQty'[m] # Requested[m]
          BY <4>5, <5>1
        <5>3. orderStatus[p] # "PICKED" /\ orderStatus[p] # "PARTIALLY_PICKED"
          BY <3>1, <5>1, <5>2
        <5> QED
          BY <4>1, <4>3, <4>5, <5>2, <5>3
      <4> QED
        BY <4>4, <4>5
    <3> QED
      BY <3>4, <3>5
  <2>6. PlansOfOrder'
    BY <1>3, <2>1 DEF Settled, PlansOfOrder
  <2>7. CreatedUnpicked'
    <3> SUFFICES ASSUME NEW u \in Tasks, taskStatus'[u] = "CREATED", NEW s \in Slots
                 PROVE  picked'[u][s] = 0
      BY DEF CreatedUnpicked
    <3>1. u # t
      BY <1>4
    <3>2. taskStatus'[u] = taskStatus[u] /\ picked'[u] = picked[u]
      BY <1>4, <3>1
    <3> QED
      BY <2>1, <3>2 DEF Settled, CreatedUnpicked
  <2> QED
    BY <2>2, <2>3, <2>4, <2>5, <2>6, <2>7 DEF Settled
<1> QED
  BY <1>3, <1>5, IdleSoloNext, LoneGoto

LEMMA NextSInv == IInv /\ SInv /\ [Next]_vars => SInv'
<1> SUFFICES ASSUME IInv, SInv, [Next]_vars PROVE SInv'
  OBVIOUS
<1>0. TypeOK
  BY DEF IInv
<1>1. ASSUME NEW w \in Workers, NEW t \in Tasks,
             CheckOrder(w, t) \/ CheckStart(w, t) \/ \E dto \in Confirms : ReadTask(w, t, dto)
      PROVE  SInv'
  BY <1>0, <1>1, LoneEnter
<1>2. ASSUME NEW w \in Workers, Statement(w) PROVE SInv'
  <2>1. CASE FindReservation(w) \/ JudgeTask(w) \/ WriteTask(w) \/ JudgeOrder(w)
    BY <1>0, <2>1, LoneKeep
  <2>2. CASE PlanLine(w) \/ ReadLines(w) \/ TakeReservation(w) \/ WriteTaskLine(w) \/ WriteOrderLine(w)
    BY <1>0, <2>2, LonePlanLine, LoneReadLines, LoneTake, LoneWriteTaskLine, LoneWriteOrderLine
  <2>3. CASE CreateTask(w) \/ Start(w) \/ Commit(w)
    BY <1>0, <2>3, LoneCreateTask, LoneStart, LoneCommit
  <2>4. CASE Refuse(w)
    BY <1>0, <2>4, LoneRollback DEF Refuse
  <2> QED
    BY <1>2, <2>1, <2>2, <2>3, <2>4 DEF Statement
<1>3. ASSUME NEW w \in Workers, Fail(w) \/ DeadlockVictim(w) PROVE SInv'
  BY <1>0, <1>3, LoneRollback DEF Fail, DeadlockVictim
<1>4. CASE UNCHANGED vars
  <2>1. UNCHANGED rows /\ overlapped' = overlapped /\ pc' = pc /\ tx' = tx
    BY <1>4 DEF vars
  <2>2. (Settled' <=> Settled) /\ \A c, t : Solo(c, t)' <=> Solo(c, t)
    BY <2>1, RowsKept
  <2>3. \A w \in Workers : Solo(pc[w], tx[w]) => Solo(pc[w], tx[w])'
    <3> SUFFICES ASSUME NEW w \in Workers, Solo(pc[w], tx[w]) PROVE Solo(pc[w], tx[w])'
      OBVIOUS
    <3>1. PICK c, t : c = pc[w] /\ t = tx[w]
      OBVIOUS
    <3>2. Solo(c, t)' /\ pc'[w] = c /\ tx'[w] = t
      BY <2>1, <2>2, <3>1
    <3> QED
      BY <3>2, SoloNext
  <2> QED
    BY <2>1, <2>2, <2>3 DEF SInv, Alone
<1> QED
  BY <1>1, <1>2, <1>3, <1>4 DEF Next

\* Requests that do not overlap, in any number and order and failing anywhere, move a unit for
\* each they take from a reservation, record each they move (unless a confirm lists a task line
\* twice), complete a task exactly when all of it is picked, and give an order the status
\* that its lines have.
THEOREM LonePicksAreExact == Spec => []SerialPicks
<1>1. SInv => SerialPicks
  BY DEF SInv, Settled, SerialPicks
<1> QED
  BY <1>1, InitSInv, NextSInv, Invariance, PTL DEF Spec
=============================================================================
