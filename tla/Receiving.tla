------------------------------ MODULE Receiving ------------------------------
(***************************************************************************)
(* InboundService and the stock increase it calls: receipts are created,   *)
(* get lines, and are received in parts by two generations of endpoints    *)
(* (confirmReceipt; receiveLegacyLine and completeLegacyReceipt) that      *)
(* share the tables.                                                       *)
(*                                                                         *)
(* Requests (Workers) overlap, at READ COMMITTED.  An UPDATE waits for the *)
(* transaction that wrote the row and then stores the absolute value that  *)
(* was computed from an earlier read.                                      *)
(***************************************************************************)
EXTENDS Integers, FiniteSets, SequencesExt, FiniteSetsExt

CONSTANTS
  Receipts, Lines, Products, Locs, Workers,
  NoReceipt,     \* the receipt of a worker that serves none
  ReceiptOf,     \* [Lines -> Receipts]
  ProductOf,     \* [Lines -> Products], with batch and uom
  Expected,      \* [Lines -> Nat \ {0}], expectedQty
  Over,          \* [Lines -> Nat], what maxOverReceiptPct allows beyond it
  Under,         \* [Lines -> Nat], what maxUnderReceiptPct lets remain
  Asks,          \* the sets of <<line, quantity>> a request may carry
  MaxMoved       \* bound: a request for an open receipt starts with less moved

ASSUME ReceivingAssumption ==
  /\ NoReceipt \notin Receipts /\ Locs # {}
  /\ IsFiniteSet(Receipts) /\ IsFiniteSet(Lines) /\ IsFiniteSet(Products)
  /\ IsFiniteSet(Locs) /\ IsFiniteSet(Workers)
  /\ ReceiptOf \in [Lines -> Receipts] /\ ProductOf \in [Lines -> Products]
  /\ Expected \in [Lines -> Nat \ {0}]
  /\ Over \in [Lines -> Nat] /\ Under \in [Lines -> Nat]
  /\ Asks \subseteq SUBSET (Lines \X (Nat \ {0})) /\ MaxMoved \in Nat
  /\ \A asked \in Asks : /\ IsFiniteSet(asked)
                          /\ \A a, b \in asked : a[1] = b[1] => a = b

VARIABLES
  status,    \* [Receipts -> Status], InboundReceipt.status
  present,   \* SUBSET Lines, the InboundReceiptLine rows
  received,  \* [Lines -> Nat], receivedQty
  stock,     \* [Cells -> [Workers -> Nat]], AVAILABLE rows by who inserted them
  moved,     \* [Receipts -> [Cells -> Nat]], INBOUND_RECEIPT movement lines
  pc, tx,    \* [Workers -> Control], [Workers -> Tx]
  met        \* history: the sets {a, b} of receipts whose requests overlapped

rows == <<status, present, received, stock, moved>>
vars == <<rows, pc, tx, met>>

Status  == {"NONE", "DRAFT", "PARTIALLY_RECEIVED", "RECEIVED"}
Control == {"idle", "insert", "lines", "update", "find", "store", "judge", "commit",
            "pending", "close"}
Cells   == Products \X Locs
Item    == [line : Lines, qty : Int]

Tx == [receipt : Receipts \cup {NoReceipt}, loc : Locs,
       status  : Status,                      \* receipt.status as first read
       legacy  : BOOLEAN,                     \* served by receiveLegacyLine
       asked   : Asks \cup {{}},               \* dto.lines; {} when left out
       items   : Seq(Item), k : Nat,          \* linePayloads and the loop over it
       seen    : SUBSET Lines,                \* receipt.lines ...
       read    : [Lines -> Nat],              \* ... and their receivedQty
       slot    : Workers, qty : Nat,          \* existingInventory, 0 if none
       got     : [Lines -> Nat],              \* uncommitted receivedQty, 0 if none
       put     : [Cells -> [Workers -> Nat]], \* uncommitted stock rows, 0 if none
       move    : [Cells -> Nat],              \* movementLines
       next    : Status]                      \* newStatus

NoQty   == [ln \in Lines |-> 0]
NoStock == [c \in Cells |-> [w \in Workers |-> 0]]
NoMove  == [c \in Cells |-> 0]
NoTx(w) == [receipt |-> NoReceipt, loc |-> CHOOSE x \in Locs : TRUE, status |-> "NONE",
            legacy |-> FALSE, asked |-> {}, items |-> <<>>, k |-> 0, seen |-> {},
            read |-> NoQty, slot |-> w, qty |-> 0, got |-> NoQty, put |-> NoStock,
            move |-> NoMove, next |-> "NONE"]

TypeOK ==
  /\ status \in [Receipts -> Status]
  /\ present \subseteq Lines
  /\ received \in [Lines -> Nat]
  /\ stock \in [Cells -> [Workers -> Nat]]
  /\ moved \in [Receipts -> [Cells -> Nat]]
  /\ pc \in [Workers -> Control]
  /\ DOMAIN tx = Workers /\ \A w \in Workers : tx[w] \in Tx
  /\ met \subseteq SUBSET Receipts

-----------------------------------------------------------------------------
LinesOf(r) == {ln \in present : ReceiptOf[ln] = r}
Current(w) == tx[w].items[tx[w].k]
Cell(w)    == <<ProductOf[Current(w).line], tx[w].loc>>
MovedBy(r) == SumFunctionOnSet(moved[r], Cells)

\* What w's transaction sees: committed rows under its own writes.
ReceivedIn(w, ln)   == IF tx[w].got[ln] > 0 THEN tx[w].got[ln] ELSE received[ln]
StockIn(w, c, slot) == IF tx[w].put[c][slot] > 0 THEN tx[w].put[c][slot] ELSE stock[c][slot]

LineFree(w, ln)      == \A o \in Workers \ {w} : tx[o].got[ln] = 0
RowFree(w, c, slot)  == \A o \in Workers \ {w} : tx[o].put[c][slot] = 0

Init ==
  /\ status = [r \in Receipts |-> "NONE"]
  /\ present = {}
  /\ received = NoQty
  /\ stock = NoStock
  /\ moved = [r \in Receipts |-> NoMove]
  /\ pc = [w \in Workers |-> "idle"]
  /\ tx = [w \in Workers |-> NoTx(w)]
  /\ met = {}

Goto(w, next, t) == pc' = [pc EXCEPT ![w] = next] /\ tx' = [tx EXCEPT ![w] = t]

\* One statement of w that commits nothing.
Local(w, next, t) == Goto(w, next, t) /\ UNCHANGED <<rows, met>>

\* The request answers with an error; its transaction's writes are dropped.
Rollback(w) == Local(w, "idle", NoTx(w))

\* A request for receipt r reads its row.
Begin(w, r, next, t) ==
  /\ pc[w] = "idle" /\ status[r] # "NONE"
  /\ status[r] = "RECEIVED" \/ MovedBy(r) < MaxMoved
  /\ Goto(w, next, [t EXCEPT !.receipt = r, !.status = status[r]])
  /\ met' = met \cup {{r, tx[o].receipt} : o \in {x \in Workers : pc[x] # "idle"}}
  /\ UNCHANGED rows

-----------------------------------------------------------------------------
CreateReceipt(r) ==
  /\ status[r] = "NONE"
  /\ status' = [status EXCEPT ![r] = "DRAFT"]
  /\ UNCHANGED <<present, received, stock, moved, pc, tx, met>>

\* addLine reads the receipt ...
ReadForLine(w, ln) ==
  /\ ln \notin present /\ status[ReceiptOf[ln]] = "DRAFT"
  /\ Begin(w, ReceiptOf[ln], "insert", [NoTx(w) EXCEPT !.seen = {ln}])

\* ... and inserts the line, without a transaction.
InsertLine(w) ==
  /\ pc[w] = "insert"
  /\ present' = present \cup tx[w].seen
  /\ Goto(w, "idle", NoTx(w))
  /\ UNCHANGED <<status, received, stock, moved, met>>

-----------------------------------------------------------------------------
(* confirmReceipt and receiveLegacyLine.                                   *)

\* Each line at most once, with its quantity; none: all that is pending.
Confirm(w, r, loc, asked) ==
  Begin(w, r, "lines", [NoTx(w) EXCEPT !.loc = loc, !.asked = asked])

ReceiveLine(w, r, loc, asked) ==
  /\ Cardinality(asked) = 1
  /\ Begin(w, r, "lines", [NoTx(w) EXCEPT !.loc = loc, !.asked = asked, !.legacy = TRUE])

Open(t) ==
  IF t.legacy THEN t.status # "RECEIVED" ELSE t.status \in {"DRAFT", "PARTIALLY_RECEIVED"}

\* receiveLegacyLine takes no more than is pending.
QtyOf(legacy, ln, n) == IF legacy THEN Min({n, Expected[ln] - received[ln]}) ELSE n

\* The quantities that are asked for, in the order of the request.
Payload(w) ==
  LET pending == {<<ln, Expected[ln] - received[ln]>> : ln \in LinesOf(tx[w].receipt)}
      wanted  == IF tx[w].asked = {} THEN pending ELSE tx[w].asked
  IN  {[line |-> p[1], qty |-> QtyOf(tx[w].legacy, p[1], p[2])] : p \in wanted}

ReadLines(w) ==
  /\ pc[w] = "lines" /\ Open(tx[w])
  /\ LinesOf(tx[w].receipt) # {}
  /\ \A p \in tx[w].asked : p[1] \in LinesOf(tx[w].receipt)
  /\ \E items \in SetToSeqs(Payload(w)) :
       Local(w, "update", [tx[w] EXCEPT
         !.items = items, !.k = 1, !.asked = {}, !.status = "NONE",
         !.seen = LinesOf(tx[w].receipt),
         !.read = [ln \in Lines |-> IF ln \in LinesOf(tx[w].receipt) THEN received[ln] ELSE 0]])

RefuseReceipt(w) ==
  /\ pc[w] = "lines"
  /\ \/ ~Open(tx[w])
     \/ LinesOf(tx[w].receipt) = {}
     \/ \E p \in tx[w].asked : p[1] \notin LinesOf(tx[w].receipt)
  /\ Rollback(w)

\* Variant: each confirmation is compared with the tolerance on its own.
Tolerated_Alone(t, ln, n) == n > 0 /\ (t.legacy \/ n <= Expected[ln] + Over[ln])

\* Variant: nothing pending is not refused.
Tolerated_Nothing(t, ln, n) ==
  ~t.legacy => /\ t.read[ln] + n <= Expected[ln] + Over[ln]
               /\ Expected[ln] - (t.read[ln] + n) <= Under[ln]

\* Positive, and for confirmReceipt within the policy's tolerances.
Tolerated(t, ln, n) ==
  /\ n > 0
  /\ ~t.legacy => /\ t.read[ln] + n <= Expected[ln] + Over[ln]
                  /\ Expected[ln] - (t.read[ln] + n) <= Under[ln]

\* UPDATE of the line, to the sum computed from the receipt as first read.
UpdateLine(w) ==
  LET ln == Current(w).line
      n  == Current(w).qty
  IN /\ pc[w] = "update" /\ Tolerated(tx[w], ln, n) /\ LineFree(w, ln)
     /\ Local(w, "find", [tx[w] EXCEPT !.got[ln] = tx[w].read[ln] + n])

\* 'exceeds allowed tolerance', 'below allowed tolerance', 'must be greater than zero'
RefuseLine(w) ==
  /\ pc[w] = "update" /\ ~Tolerated(tx[w], Current(w).line, Current(w).qty)
  /\ Rollback(w)

\* Variant: increaseStock reads outside the caller's transaction.
FindStock_Outside(w) ==
  LET found == {s \in Workers : stock[Cell(w)][s] > 0}
  IN /\ pc[w] = "find"
     /\ \/ /\ found = {}
           /\ Local(w, "store", [tx[w] EXCEPT !.slot = w, !.qty = 0])
        \/ \E s \in found :
             Local(w, "store", [tx[w] EXCEPT !.slot = s, !.qty = stock[Cell(w)][s]])

\* increaseStock looks for a row of the cell; any one, there is no order.
FindStock(w) ==
  LET found == {s \in Workers : StockIn(w, Cell(w), s) > 0}
  IN /\ pc[w] = "find"
     /\ \/ /\ found = {}
           /\ Local(w, "store", [tx[w] EXCEPT !.slot = w, !.qty = 0])
        \/ \E s \in found :
             Local(w, "store", [tx[w] EXCEPT !.slot = s, !.qty = StockIn(w, Cell(w), s)])

\* Variant: the stock grows by the line's total.
StoreStock_Total(w) ==
  LET c == Cell(w)
  IN /\ pc[w] = "store" /\ RowFree(w, c, tx[w].slot)
     /\ Local(w, IF tx[w].k < Len(tx[w].items) THEN "update" ELSE "judge",
              [tx[w] EXCEPT !.put[c][tx[w].slot] = tx[w].qty + tx[w].got[Current(w).line],
                            !.move[c] = @ + Current(w).qty,
                            !.k = @ + 1, !.slot = w, !.qty = 0])

\* ... and updates that row or inserts one; the movement line is remembered.
StoreStock(w) ==
  LET c == Cell(w)
  IN /\ pc[w] = "store" /\ RowFree(w, c, tx[w].slot)
     /\ Local(w, IF tx[w].k < Len(tx[w].items) THEN "update" ELSE "judge",
              [tx[w] EXCEPT !.put[c][tx[w].slot] = tx[w].qty + Current(w).qty,
                            !.move[c] = @ + Current(w).qty,
                            !.k = @ + 1, !.slot = w, !.qty = 0])

\* Variant: only the lines of this request are looked at.
Complete_OwnLines(w) == \A i \in 1..Len(tx[w].items) :
  ReceivedIn(w, tx[w].items[i].line) >= Expected[tx[w].items[i].line]

\* confirmReceipt reads the lines again; receiveLegacyLine uses those it has.
Complete(w) ==
  IF tx[w].legacy
  THEN \A ln \in tx[w].seen :
         (IF tx[w].got[ln] > 0 THEN tx[w].got[ln] ELSE tx[w].read[ln]) >= Expected[ln]
  ELSE \A ln \in LinesOf(tx[w].receipt) : ReceivedIn(w, ln) >= Expected[ln]

Judge(w) ==
  /\ pc[w] = "judge"
  /\ Local(w, "commit", [tx[w] EXCEPT
       !.next = IF Complete(w) THEN "RECEIVED" ELSE "PARTIALLY_RECEIVED",
       !.items = <<>>, !.seen = {}, !.read = NoQty])

\* INSERT of the movement, UPDATE of the receipt, COMMIT.
Commit(w) ==
  LET r == tx[w].receipt
  IN /\ pc[w] = "commit"
     /\ received' = [ln \in Lines |-> ReceivedIn(w, ln)]
     /\ stock' = [c \in Cells |-> [s \in Workers |-> StockIn(w, c, s)]]
     /\ moved' = [moved EXCEPT ![r] = [c \in Cells |-> @[c] + tx[w].move[c]]]
     /\ status' = [status EXCEPT ![r] = tx[w].next]
     /\ Goto(w, "idle", NoTx(w))
     /\ UNCHANGED <<present, met>>

-----------------------------------------------------------------------------
(* completeLegacyReceipt: the status is not looked at.                     *)

CompleteReceipt(w, r) == Begin(w, r, "pending", NoTx(w))

Pending(r) == {ln \in LinesOf(r) : received[ln] < Expected[ln]}

ReadPending(w) ==
  /\ pc[w] = "pending"
  /\ IF Pending(tx[w].receipt) = {} THEN Local(w, "close", tx[w]) ELSE Rollback(w)

Close(w) ==
  /\ pc[w] = "close"
  /\ status' = [status EXCEPT ![tx[w].receipt] = "RECEIVED"]
  /\ Goto(w, "idle", NoTx(w))
  /\ UNCHANGED <<present, received, stock, moved, met>>

-----------------------------------------------------------------------------
\* A deadlock's victim, a lost connection, a time-out or a crash of the process.
Fail(w) == pc[w] # "idle" /\ Rollback(w)

Statement(w) ==
  \/ InsertLine(w)
  \/ ReadLines(w) \/ RefuseReceipt(w) \/ UpdateLine(w) \/ RefuseLine(w)
  \/ FindStock(w) \/ StoreStock(w) \/ Judge(w) \/ Commit(w)
  \/ ReadPending(w) \/ Close(w)

Next ==
  \/ \E r \in Receipts : CreateReceipt(r)
  \/ \E w \in Workers :
       \/ \E ln \in Lines : ReadForLine(w, ln)
       \/ \E r \in Receipts : CompleteReceipt(w, r)
       \/ \E r \in Receipts, loc \in Locs, asked \in Asks :
            Confirm(w, r, loc, asked) \/ ReceiveLine(w, r, loc, asked)
       \/ Statement(w)
       \/ Fail(w)

Spec == Init /\ [][Next]_vars

-----------------------------------------------------------------------------
Quiet(r) == {r} \notin met

ReceivedOf(r, p) ==
  SumFunctionOnSet(received, {ln \in LinesOf(r) : ProductOf[ln] = p})
MovedOf(r, p) == SumFunctionOnSet(moved[r], {p} \X Locs)
MovedInto(c)  == SumFunctionOnSet([r \in Receipts |-> moved[r][c]], Receipts)
StockOf(c)    == SumFunctionOnSet(stock[c], Workers)

\* However confirmations of both generations overlap, no line is recorded as received
\* beyond its tolerance.
WithinTolerance == \A ln \in Lines : received[ln] <= Expected[ln] + Over[ln]

\* However requests overlap, no unit of stock exists without a movement that brought
\* it, and no more is recorded as received than was moved: rows that overwrite each
\* other may lose stock, never invent it.
StockIsBacked ==
  /\ \A c \in Cells : StockOf(c) <= MovedInto(c)
  /\ \A r \in Receipts, p \in Products : ReceivedOf(r, p) <= MovedOf(r, p)

\* As long as no two requests for one receipt overlap, whatever happens to other
\* receipts: what its lines record is what its movements carried, and its status says
\* whether something and whether everything has been received.
QuietReceiptsBalance ==
  \A r \in Receipts : Quiet(r) =>
    /\ \A p \in Products : ReceivedOf(r, p) = MovedOf(r, p)
    /\ status[r] = "PARTIALLY_RECEIVED" => Pending(r) # {} /\ MovedBy(r) > 0
    /\ status[r] = "RECEIVED" => Pending(r) = {}
    /\ status[r] = "DRAFT" => MovedBy(r) = 0

\* As long as no two requests overlap at all, each cell has one row, which holds what
\* the movements brought there.
StockIsMovements ==
  met = {} => \A c \in Cells : /\ StockOf(c) = MovedInto(c)
                               /\ \A s, u \in Workers : stock[c][s] > 0 /\ stock[c][u] > 0 => s = u
=============================================================================
