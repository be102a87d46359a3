------------------------------ MODULE Counting ------------------------------
(***************************************************************************)
(* Cycle counts and stock adjustments of InventoryService and of the       *)
(* cycle-count and adjustments controllers.  A task gets lines whose       *)
(* expected quantity is read then and there; later the counted quantities  *)
(* are submitted, and each line that differs adjusts the stock of its      *)
(* cell, while reservations and picks go on.                               *)
(*                                                                         *)
(* A cell is a product, batch, location and uom.  The stock rows of a cell *)
(* (Rows) exist from the start, at most one of each status.  A submission  *)
(* is one transaction at READ COMMITTED; an adjustment is none: each of    *)
(* its statements commits by itself.                                       *)
(***************************************************************************)
EXTENDS Integers, FiniteSets, Functions

CONSTANTS
  Tasks, Cells, LineIds, Workers,
  NoTask,        \* the task of a free line id, and of an adjustment
  NoLine,        \* the line of a request that is at none
  Rows,          \* SUBSET (Cells \X Kinds), the Inventory rows
  InitStock,     \* [Rows -> Nat], their quantities at the start
  Shelf,         \* [Cells -> Nat], the units that are really there
  Batches,       \* the sets of cells a task may be created for
  Targets,       \* the <<cell, quantity>> an adjustment may ask for
  Changes,       \* the <<cell, change>> an operator may ask for
  MaxQty,        \* bound: an increase is by no more than this total
  MaxLog         \* bound: an adjustment starts with the ledger of its cell within it

Kinds == {"AVAILABLE", "RESERVED"}

ASSUME CountingAssumption ==
  /\ NoTask \notin Tasks /\ NoLine \notin LineIds /\ Tasks \cap Cells = {}
  /\ Cells # {} /\ IsFiniteSet(Rows)
  /\ Rows \subseteq Cells \X Kinds /\ \A c \in Cells : \E k \in Kinds : <<c, k>> \in Rows
  /\ InitStock \in [Rows -> Nat] /\ Shelf \in [Cells -> Nat]
  /\ Batches \subseteq SUBSET Cells
  /\ Targets \subseteq Cells \X Nat /\ Changes \subseteq Cells \X Int
  /\ MaxQty \in Nat /\ MaxLog \in Nat

VARIABLES
  status,    \* [Tasks -> Status], CycleCountTask.status
  lines,     \* [LineIds -> Line], the CycleCountLine rows
  stock,     \* [Rows -> Nat], Inventory.quantity
  logged,    \* [Cells -> Int], movement lines into the cell minus those out of it
  adjusted,  \* [Cells -> Int], sum of InventoryAdjustment.differenceQty
  shelf,     \* [Cells -> Nat], the physical units
  pc, tx,    \* [Workers -> Control], [Workers -> Tx]
  disturbed  \* history: tasks and cells that two requests touched at once, or on
             \* which an adjustment stopped half-way

rows == <<status, lines, stock, logged, adjusted>>
vars == <<rows, shelf, pc, tx, disturbed>>

Status  == {"NONE", "PENDING", "IN_PROGRESS", "COMPLETED", "CANCELLED"}
Control == {"idle", "expected", "insert", "create", "start", "pending", "find", "count",
            "adjust", "store", "log", "record", "remaining", "commit", "total"}

None == -1   \* a quantity that is null
Qty  == Nat \cup {None}
Line == [task : Tasks \cup {NoTask}, cell : Cells, expected : Nat, counted : Qty]

Tx == [task  : Tasks \cup {NoTask},
       scope : SUBSET (Tasks \cup Cells),    \* what the request works on
       new   : SUBSET [cell : Cells, kind : Kinds, expected : Nat],   \* linesToCreate,
                                             \* by the kind of the row each is for
       todo  : SUBSET LineIds,               \* submitted lines still to be counted
       diff  : SUBSET LineIds,               \* submittedLines still to be adjusted
       line  : LineIds \cup {NoLine}, cell : Cells,   \* the line or cell at hand
       qty   : Qty, plus : Int,              \* newQty; the change an operator asked for
       kind  : Kinds, prev : Nat,            \* stockStatus, previousQty
       dto   : [LineIds -> Qty],             \* countedQty of the submitted lines
       cnt   : [LineIds -> Qty],             \* uncommitted counts
       put   : [Rows -> Qty],                \* uncommitted stock
       log   : [Cells -> Int],               \* uncommitted movements
       last  : BOOLEAN]                      \* remainingPendingLines = 0

NoTx == [task |-> NoTask, scope |-> {}, new |-> {}, todo |-> {}, diff |-> {},
         line |-> NoLine, cell |-> CHOOSE c \in Cells : TRUE,
         qty |-> None, plus |-> 0, kind |-> "AVAILABLE", prev |-> 0,
         dto |-> [i \in LineIds |-> None], cnt |-> [i \in LineIds |-> None],
         put |-> [r \in Rows |-> None], log |-> [c \in Cells |-> 0], last |-> FALSE]

FreeLine == [task |-> NoTask, cell |-> CHOOSE c \in Cells : TRUE, expected |-> 0,
             counted |-> None]

TypeOK ==
  /\ status \in [Tasks -> Status]
  /\ lines \in [LineIds -> Line]
  /\ stock \in [Rows -> Nat]
  /\ logged \in [Cells -> Int] /\ adjusted \in [Cells -> Int]
  /\ shelf \in [Cells -> Nat]
  /\ pc \in [Workers -> Control]
  /\ DOMAIN tx = Workers /\ \A w \in Workers : tx[w] \in Tx
  /\ disturbed \subseteq Tasks \cup Cells

-----------------------------------------------------------------------------
LinesOf(t)   == {i \in LineIds : lines[i].task = t}
RowsOf(c)    == {r \in Rows : r[1] = c}
Total(c)     == SumFunctionOnSet(stock, RowsOf(c))
InTask(w)    == tx[w].task # NoTask

\* What w's transaction sees, and the row locks of the other transactions.
StockIn(w, r)   == IF tx[w].put[r] # None THEN tx[w].put[r] ELSE stock[r]
CountedIn(w, i) == IF tx[w].cnt[i] # None THEN tx[w].cnt[i] ELSE lines[i].counted
RowFree(w, r)   == \A o \in Workers \ {w} : tx[o].put[r] = None
LineFree(w, i)  == \A o \in Workers \ {w} : tx[o].cnt[i] = None

Init ==
  /\ status = [t \in Tasks |-> "NONE"]
  /\ lines = [i \in LineIds |-> FreeLine]
  /\ stock = InitStock
  /\ logged = [c \in Cells |-> 0] /\ adjusted = [c \in Cells |-> 0]
  /\ shelf = Shelf
  /\ pc = [w \in Workers |-> "idle"]
  /\ tx = [w \in Workers |-> NoTx]
  /\ disturbed = {}

Goto(w, next, t) == pc' = [pc EXCEPT ![w] = next] /\ tx' = [tx EXCEPT ![w] = t]
Local(w, next, t) == Goto(w, next, t) /\ UNCHANGED <<rows, shelf, disturbed>>
Refuse(w) == Local(w, "idle", NoTx)

\* What of scope some request other than w is at work on.
Shared(w, scope) ==
  UNION {scope \cap tx[o].scope : o \in {x \in Workers \ {w} : pc[x] # "idle"}}

Begin(w, next, t) ==
  /\ pc[w] = "idle"
  /\ Goto(w, next, t)
  /\ disturbed' = disturbed \cup Shared(w, t.scope)
  /\ UNCHANGED <<rows, shelf>>

-----------------------------------------------------------------------------
(* Other operations on the same stock, in one step each.                   *)

\* A release reserves one unit; a confirmed pick takes one that is reserved.
Reserve(c) ==
  LET from == <<c, "AVAILABLE">>
      to   == <<c, "RESERVED">>
  IN /\ {from, to} \subseteq Rows /\ stock[from] > 0
     /\ \A w \in Workers : tx[w].put[from] = None /\ tx[w].put[to] = None
     /\ stock' = [stock EXCEPT ![from] = @ - 1, ![to] = @ + 1]
     /\ disturbed' = disturbed \cup UNION {{c} \cap tx[o].scope : o \in Workers}
     /\ UNCHANGED <<status, lines, logged, adjusted, shelf, pc, tx>>

Pick(c) ==
  LET row == <<c, "RESERVED">>
  IN /\ row \in Rows /\ stock[row] > 0 /\ shelf[c] > 0
     /\ \A w \in Workers : tx[w].put[row] = None
     /\ stock' = [stock EXCEPT ![row] = @ - 1]
     /\ logged' = [logged EXCEPT ![c] = @ - 1]
     /\ shelf' = [shelf EXCEPT ![c] = @ - 1]
     /\ disturbed' = disturbed \cup UNION {{c} \cap tx[o].scope : o \in Workers}
     /\ UNCHANGED <<status, lines, adjusted, pc, tx>>

-----------------------------------------------------------------------------
(* createCycleCountTask, addCycleCountLines, the controller's create.      *)

\* A task without lines: no policy asks for suggestions, or the lines follow.
CreateTask(t) ==
  /\ status[t] = "NONE"
  /\ status' = [status EXCEPT ![t] = "PENDING"]
  /\ UNCHANGED <<lines, stock, logged, adjusted, shelf, pc, tx, disturbed>>

\* A task with a line for each stock row, as suggested or by the controller, rows of
\* one cell and quantity included.  Only suggestions refuse two lines for one cell.
ReadRows(w, t, cs, suggested) ==
  LET found == {r \in Rows : r[1] \in cs}
  IN /\ status[t] = "NONE"
     /\ suggested => \A a, b \in found : a[1] = b[1] => a = b
     /\ Begin(w, "create", [NoTx EXCEPT !.task = t, !.scope = {t},
          !.new = {[cell |-> r[1], kind |-> r[2], expected |-> stock[r]] : r \in found}])

\* The rows that hold the new lines, chosen among the free line ids.
Insert(new, t) ==
  \E ids \in SUBSET LinesOf(NoTask) :
    /\ Cardinality(ids) = Cardinality(new)
    /\ \E f \in [ids -> new] :
         /\ {f[i] : i \in ids} = new
         /\ lines' = [i \in LineIds |->
              IF i \in ids THEN [task |-> t, cell |-> f[i].cell, expected |-> f[i].expected,
                                 counted |-> None]
                           ELSE lines[i]]

InsertTask(w) ==
  /\ pc[w] = "create" /\ status[tx[w].task] = "NONE"
  /\ Insert(tx[w].new, tx[w].task)
  /\ status' = [status EXCEPT ![tx[w].task] = "PENDING"]
  /\ Goto(w, "idle", NoTx)
  /\ UNCHANGED <<stock, logged, adjusted, shelf, disturbed>>

\* addCycleCountLines: the status, and that the task has no line for the cell, ...
AddLine(w, t, c) ==
  /\ status[t] \in {"PENDING", "IN_PROGRESS"}
  /\ \A i \in LinesOf(t) : lines[i].cell # c
  /\ Begin(w, "expected", [NoTx EXCEPT !.task = t, !.scope = {t}, !.cell = c])

\* ... getExpectedQty, over all statuses, ...
ReadExpected(w) ==
  /\ pc[w] = "expected"
  /\ Local(w, "insert", [tx[w] EXCEPT
       !.new = {[cell |-> tx[w].cell, kind |-> "AVAILABLE", expected |-> Total(tx[w].cell)]}])

\* ... createMany.  Nothing joins the three.
InsertLine(w) ==
  /\ pc[w] = "insert"
  /\ Insert(tx[w].new, tx[w].task)
  /\ Goto(w, "idle", NoTx)
  /\ UNCHANGED <<status, stock, logged, adjusted, shelf, disturbed>>

\* startCycleCount: a check, then an UPDATE.
ReadStart(w, t) ==
  /\ status[t] = "PENDING"
  /\ Begin(w, "start", [NoTx EXCEPT !.task = t, !.scope = {t}])

Start(w) ==
  /\ pc[w] = "start"
  /\ status' = [status EXCEPT ![tx[w].task] = "IN_PROGRESS"]
  /\ Goto(w, "idle", NoTx)
  /\ UNCHANGED <<lines, stock, logged, adjusted, shelf, disturbed>>

\* The review endpoint rejects: whatever the status is.
Cancel(t) ==
  /\ status[t] # "NONE"
  /\ status' = [status EXCEPT ![t] = "CANCELLED"]
  /\ disturbed' = disturbed \cup UNION {{t} \cap tx[o].scope : o \in Workers}
  /\ UNCHANGED <<lines, stock, logged, adjusted, shelf, pc, tx>>

-----------------------------------------------------------------------------
(* submitCycleCount.                                                       *)

\* Variant: the status of the task is not looked at.
ReadTask_Any(w, t, ids) ==
  /\ status[t] # "NONE"
  /\ ids \subseteq LinesOf(t)
  /\ Begin(w, "pending", [NoTx EXCEPT
       !.task = t, !.scope = {t} \cup {lines[i].cell : i \in ids}, !.todo = ids,
       !.dto = [i \in LineIds |-> IF i \in ids THEN shelf[lines[i].cell] ELSE None]])

\* findFirst of the task, outside the transaction.  What was counted is what is there;
\* the list of lines may be empty.
ReadTask(w, t, ids) ==
  /\ status[t] = "IN_PROGRESS"
  /\ ids \subseteq LinesOf(t)
  /\ Begin(w, "pending", [NoTx EXCEPT
       !.task = t, !.scope = {t} \cup {lines[i].cell : i \in ids}, !.todo = ids,
       !.dto = [i \in LineIds |-> IF i \in ids THEN shelf[lines[i].cell] ELSE None]])

\* 'All pending cycle count lines must be submitted'
ReadPending(w) ==
  /\ pc[w] = "pending"
  /\ IF {i \in LinesOf(tx[w].task) : lines[i].counted = None} \subseteq tx[w].todo
     THEN Local(w, IF tx[w].todo = {} THEN "adjust" ELSE "find", tx[w])
     ELSE Refuse(w)

\* 'has already been counted'
FindLine(w) ==
  /\ pc[w] = "find"
  /\ \E i \in tx[w].todo :
       IF lines[i].counted = None THEN Local(w, "count", [tx[w] EXCEPT !.line = i])
                                  ELSE Refuse(w)

\* UPDATE of the line; countedAt and differenceQty come with it.
CountLine(w) ==
  LET i == tx[w].line
  IN /\ pc[w] = "count" /\ LineFree(w, i)
     /\ Local(w, IF tx[w].todo = {i} THEN "adjust" ELSE "find",
              [tx[w] EXCEPT !.todo = @ \ {i}, !.line = NoLine, !.cnt[i] = tx[w].dto[i],
                            !.diff = IF tx[w].dto[i] # lines[i].expected THEN @ \cup {i} ELSE @])

\* Variant: the difference that was counted is applied to the stock of now.
Wanted_Relative(w, i) ==
  LET c == lines[i].cell
      n == stock[<<c, "AVAILABLE">>] + tx[w].dto[i] - lines[i].expected
  IN  IF n < 0 THEN 0 ELSE n

\* Variant: ... and may become negative.
Wanted_Negative(w, i) ==
  stock[<<lines[i].cell, "AVAILABLE">>] + tx[w].dto[i] - lines[i].expected

\* newQty: the count itself.
Wanted(w, i) == tx[w].dto[i]

\* No line is left whose count differs.
LeaveLines(w) ==
  /\ pc[w] = "adjust" /\ InTask(w) /\ tx[w].diff = {}
  /\ Local(w, "remaining", [tx[w] EXCEPT !.dto = NoTx.dto])

ReadRemaining(w) ==
  /\ pc[w] = "remaining"
  /\ Local(w, "commit", [tx[w] EXCEPT
       !.last = \A i \in LinesOf(tx[w].task) : CountedIn(w, i) # None])

\* UPDATE of the task if nothing remains, COMMIT.
Commit(w) ==
  /\ pc[w] = "commit"
  /\ status' = IF tx[w].last THEN [status EXCEPT ![tx[w].task] = "COMPLETED"] ELSE status
  /\ lines' = [i \in LineIds |-> [lines[i] EXCEPT !.counted = CountedIn(w, i)]]
  /\ stock' = [r \in Rows |-> StockIn(w, r)]
  /\ logged' = [c \in Cells |-> logged[c] + tx[w].log[c]]
  /\ adjusted' = [c \in Cells |-> adjusted[c] + tx[w].log[c]]
  /\ Goto(w, "idle", NoTx)
  /\ UNCHANGED <<shelf, disturbed>>

-----------------------------------------------------------------------------
(* createInventoryAdjustment (a new quantity) and the controller's create  *)
(* (a change of the total over all statuses).                              *)

Adjust(w, c, n) ==
  /\ {logged[c], adjusted[c]} \subseteq -MaxLog .. MaxLog
  /\ Begin(w, "adjust", [NoTx EXCEPT !.scope = {c}, !.cell = c, !.qty = n])

AdjustBy(w, c, n) ==
  /\ {logged[c], adjusted[c]} \subseteq -MaxLog .. MaxLog
  /\ Begin(w, "total", [NoTx EXCEPT !.scope = {c}, !.cell = c, !.plus = n])

ReadTotal(w) ==
  LET n == Total(tx[w].cell) + tx[w].plus
  IN /\ pc[w] = "total" /\ (tx[w].plus > 0 => n <= MaxQty)
     /\ Local(w, "adjust", [tx[w] EXCEPT !.qty = IF n < 0 THEN 0 ELSE n, !.plus = 0])

-----------------------------------------------------------------------------
(* applyInventoryAdjustment, for both.                                     *)

\* determineCountStockStatus: AVAILABLE if there is some, else the largest.
StatusToAdjust(w, c) ==
  LET q(r) == StockIn(w, r)
  IN  IF \E r \in RowsOf(c) : r[2] = "AVAILABLE" /\ q(r) > 0
      THEN {"AVAILABLE"}
      ELSE {r[2] : r \in {x \in RowsOf(c) : \A y \in RowsOf(c) : q(y) <= q(x)}}

\* existingInventory of a cell; nothing to do if the quantity is right.
ReadRow(w, c, n, then) ==
  \E k \in StatusToAdjust(w, c) :
    LET q == StockIn(w, <<c, k>>)
    IN  IF q # n THEN Local(w, "store", [then EXCEPT !.cell = c, !.qty = n, !.kind = k, !.prev = q])
        ELSE IF InTask(w) THEN Local(w, "adjust", then) ELSE Refuse(w)

ReadForLine(w) ==
  /\ pc[w] = "adjust" /\ InTask(w)
  /\ \E i \in tx[w].diff :
       ReadRow(w, lines[i].cell, Wanted(w, i), [tx[w] EXCEPT !.diff = @ \ {i}, !.line = i])

ReadForCell(w) ==
  /\ pc[w] = "adjust" /\ ~InTask(w)
  /\ ReadRow(w, tx[w].cell, tx[w].qty, tx[w])

\* Variant: the movement is the difference with the line's expected quantity.
Difference_Expected(w) ==
  tx[w].qty - (IF InTask(w) THEN lines[tx[w].line].expected ELSE tx[w].prev)

Difference(w) == tx[w].qty - tx[w].prev

\* In a submission: row, movement and adjustment become visible at COMMIT.
StoreCounted(w) ==
  LET r == <<tx[w].cell, tx[w].kind>>
  IN /\ pc[w] = "store" /\ InTask(w) /\ RowFree(w, r)
     /\ Local(w, "adjust", [tx[w] EXCEPT !.put[r] = tx[w].qty, !.log[r[1]] = @ + Difference(w),
          !.line = NoLine, !.cell = NoTx.cell, !.qty = None, !.kind = "AVAILABLE", !.prev = 0])

\* On its own: the row, ...
StoreRow(w) ==
  LET r == <<tx[w].cell, tx[w].kind>>
  IN /\ pc[w] = "store" /\ ~InTask(w) /\ RowFree(w, r)
     /\ stock' = [stock EXCEPT ![r] = tx[w].qty]
     /\ Goto(w, "log", tx[w])
     /\ UNCHANGED <<status, lines, logged, adjusted, shelf, disturbed>>

\* ... the movement (header, then line), ...
LogMovement(w) ==
  /\ pc[w] = "log"
  /\ logged' = [logged EXCEPT ![tx[w].cell] = @ + Difference(w)]
  /\ Goto(w, "record", tx[w])
  /\ UNCHANGED <<status, lines, stock, adjusted, shelf, disturbed>>

\* ... and the InventoryAdjustment.
RecordAdjustment(w) ==
  /\ pc[w] = "record"
  /\ adjusted' = [adjusted EXCEPT ![tx[w].cell] = @ + Difference(w)]
  /\ Goto(w, "idle", NoTx)
  /\ UNCHANGED <<status, lines, stock, logged, shelf, disturbed>>

-----------------------------------------------------------------------------
\* A crash, a lost connection or a time-out: a transaction is rolled back, an
\* adjustment stops where it is.
Fail(w) ==
  /\ pc[w] # "idle"
  /\ Goto(w, "idle", NoTx)
  /\ disturbed' = IF pc[w] \in {"log", "record"} THEN disturbed \cup {tx[w].cell} ELSE disturbed
  /\ UNCHANGED <<rows, shelf>>

Statement(w) ==
  \/ InsertTask(w) \/ ReadExpected(w) \/ InsertLine(w) \/ Start(w)
  \/ ReadPending(w) \/ FindLine(w) \/ CountLine(w) \/ LeaveLines(w)
  \/ ReadRemaining(w) \/ Commit(w)
  \/ ReadTotal(w) \/ ReadForLine(w) \/ ReadForCell(w)
  \/ StoreCounted(w) \/ StoreRow(w) \/ LogMovement(w) \/ RecordAdjustment(w)

Next ==
  \/ \E c \in Cells : Reserve(c) \/ Pick(c)
  \/ \E t \in Tasks : CreateTask(t) \/ Cancel(t)
  \/ \E w \in Workers :
       \/ \E t \in Tasks :
            \/ \E cs \in Batches, suggested \in BOOLEAN : ReadRows(w, t, cs, suggested)
            \/ \E c \in Cells : AddLine(w, t, c)
            \/ ReadStart(w, t)
            \/ \E ids \in SUBSET LineIds : ReadTask(w, t, ids)
       \/ \E p \in Targets : Adjust(w, p[1], p[2])
       \/ \E p \in Changes : AdjustBy(w, p[1], p[2])
       \/ Statement(w)
       \/ Fail(w)

Spec == Init /\ [][Next]_vars

-----------------------------------------------------------------------------
Calm(x) == x \notin disturbed

\* Every change of the stock of a cell is explained by its movements, and those of
\* counts and adjustments by adjustment records, as long as no two requests meet at
\* the cell and no adjustment stops half-way.
StockIsExplained ==
  \A c \in Cells : Calm(c) /\ (\A w \in Workers : c \notin tx[w].scope) =>
    /\ Total(c) = SumFunctionOnSet(InitStock, RowsOf(c)) + logged[c]
    /\ adjusted[c] + (shelf[c] - Shelf[c]) = logged[c]

\* A line is counted once, and only while the task is in progress.
CountIsFinal ==
  [][\A i \in LineIds : lines[i].task # NoTask /\ Calm(lines[i].task)
       => \/ lines'[i] = lines[i]
          \/ lines[i].counted = None /\ status[lines[i].task] = "IN_PROGRESS"]_<<lines>>

\* When a count that differs from what was expected is committed, a cell whose stock
\* has one status then holds what was counted, whatever moved since the line was made.
CountSettles ==
  [][\A i \in LineIds :
       /\ lines[i].counted = None /\ lines'[i].counted \notin {None, lines[i].expected}
       /\ Calm(lines[i].cell) /\ Calm(lines[i].task)
       /\ Cardinality({r \in RowsOf(lines[i].cell) : stock[r] > 0}) <= 1
       /\ \A j \in LineIds \ {i} : lines[j].task = lines[i].task => lines[j].cell # lines[i].cell
       => Total(lines[i].cell)' = lines'[i].counted]_<<lines>>
=============================================================================
