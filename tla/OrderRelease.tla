---------------------------- MODULE OrderRelease ----------------------------
(***************************************************************************)
(* POST /outbound/orders/:id/release, OutboundService.releaseOutboundOrder, *)
(* at the granularity of the SQL statements it awaits.                     *)
(*                                                                         *)
(* Several requests (Workers) run at once.  Each reads its order outside   *)
(* any transaction, then opens an interactive Prisma transaction, which    *)
(* PostgreSQL runs at READ COMMITTED: a SELECT sees what is committed plus *)
(* the transaction's own writes, an UPDATE waits for the row's lock and    *)
(* then stores the absolute value computed from the earlier SELECT, and    *)
(* nothing is visible to the others before COMMIT.                         *)
(*                                                                         *)
(* A lot is one combination of product, batch, location and uom.  The      *)
(* table has no unique key, so a lot may have several AVAILABLE rows       *)
(* (Rows), as two receipts of one cell leave them, and several RESERVED    *)
(* ones, each told apart by the order whose release inserted it.  No row   *)
(* lock covers a lot: only an UPDATE of the same row waits.                *)
(***************************************************************************)
EXTENDS Integers, Sequences, FiniteSets, FiniteSetsExt

CONSTANTS
  Orders, Lines, Lots, Workers,
  Rows,         \* the AVAILABLE rows of the table
  LotOf,        \* [Rows -> Lots]: productId, batchId, locationId and uom of a row
  NoOrder,      \* the order of a worker that serves no request
  OrderLines,   \* [Orders -> Seq(Lines)]: order.lines
  Candidates,   \* [Lines -> Seq(Rows)]: the rows findMany returns, in FEFO order
  Requested,    \* [Lines -> Nat]: requestedQty
  Initial       \* [Rows -> Nat]: quantity before any release

LinesOf(o) == {OrderLines[o][k] : k \in 1..Len(OrderLines[o])}
RowsOf(l)  == {x \in Rows : LotOf[x] = l}

ASSUME ReleaseAssumption ==
  /\ NoOrder \notin Orders
  /\ OrderLines \in [Orders -> Seq(Lines)]
  /\ \A o, p \in Orders : o # p => LinesOf(o) \cap LinesOf(p) = {}
  /\ LotOf \in [Rows -> Lots]
  /\ Candidates \in [Lines -> Seq(Rows)]
  /\ Requested \in [Lines -> Nat]
  /\ Initial \in [Rows -> Nat]

\* The lines of an order and the rows findMany returns are rows of their tables,
\* each listed once.
ASSUME RowsAssumption ==
  /\ IsFiniteSet(Orders) /\ IsFiniteSet(Lines) /\ IsFiniteSet(Rows)
  /\ \A o \in Orders : IsInjective(OrderLines[o])
  /\ \A ln \in Lines : IsInjective(Candidates[ln])

VARIABLES
  status,       \* [Orders -> Status], OutboundOrder.status
  allocated,    \* [Lines -> Nat], OutboundOrderLine.allocatedQty
  available,    \* [Rows -> Nat], quantity of an AVAILABLE row
  reserved,     \* [Lots -> [Orders -> Nat \cup {None}]], a lot's RESERVED rows
  fullOnly,     \* the outbound rule: enforceFullAllocation, or allowPartialShipments = false
  overlapped,   \* history: whether two requests were ever under way at once
  crossed,      \* history: the lots of which two requests ever held different rows at once
  drawn,        \* history, [Rows -> Nat]: what committed releases have drawn from a row
  pc,           \* [Workers -> Control], the statement a request is about to run
  tx            \* [Workers -> Tx], the request's locals and uncommitted writes

stock == <<available, reserved>>
vars  == <<status, allocated, available, reserved, fullOnly, overlapped, crossed, drawn, pc, tx>>

None    == -1   \* no such row; in a write set, a row not written
Status  == {"DRAFT", "RELEASED", "PARTIALLY_ALLOCATED", "FULLY_ALLOCATED"}
Control == {"idle", "readLines", "begin", "line", "take", "find", "reserve"}
Entry   == Nat \cup {None}

Tx == [order : Orders \cup {NoOrder},
       base  : [Lines -> Nat],               \* line.allocatedQty as first read
       k     : Nat, i : Nat,                 \* current line, current candidate
       seen  : [Rows -> Nat],                \* quantities findMany returned
       need  : Nat, got : Nat, take : Nat,   \* remaining, allocated, allocateQty
       row   : Orders \cup {NoOrder},        \* the RESERVED row found or to insert
       rowQty: Nat,
       alloc : [Lines -> Entry],             \* uncommitted writes, by table
       avail : [Rows -> Entry],
       resv  : [Lots -> [Orders -> Entry]],
       drawn : [Rows -> Nat]]                \* history: what it has drawn

NoTx == [order |-> NoOrder, base |-> [ln \in Lines |-> 0], k |-> 0, i |-> 0,
         seen |-> [x \in Rows |-> 0], need |-> 0, got |-> 0, take |-> 0,
         row |-> NoOrder, rowQty |-> 0,
         alloc |-> [ln \in Lines |-> None],
         avail |-> [x \in Rows |-> None],
         resv |-> [l \in Lots |-> [o \in Orders |-> None]],
         drawn |-> [x \in Rows |-> 0]]

TypeOK ==
  /\ status \in [Orders -> Status]
  /\ allocated \in [Lines -> Nat]
  /\ available \in [Rows -> Nat]
  /\ reserved \in [Lots -> [Orders -> Entry]]
  /\ fullOnly \in BOOLEAN /\ overlapped \in BOOLEAN
  /\ crossed \subseteq Lots /\ drawn \in [Rows -> Nat]
  /\ pc \in [Workers -> Control]
  /\ tx \in [Workers -> Tx]

-----------------------------------------------------------------------------
(* What a transaction sees, and which row locks the others hold.           *)

InTx(w) == pc[w] \in {"line", "take", "find", "reserve"}

AllocatedIn(w, ln) ==
  IF tx[w].alloc[ln] = None THEN allocated[ln] ELSE tx[w].alloc[ln]
AvailableIn(w, x) ==
  IF tx[w].avail[x] = None THEN available[x] ELSE tx[w].avail[x]
ReservedIn(w, l, o) ==
  IF tx[w].resv[l][o] = None THEN reserved[l][o] ELSE tx[w].resv[l][o]

OrderHolders(w, o)   == {v \in Workers \ {w} : InTx(v) /\ tx[v].order = o}
AvailHolders(w, x)   == {v \in Workers \ {w} : tx[v].avail[x] # None}
ResvHolders(w, l, o) == {v \in Workers \ {w} : tx[v].resv[l][o] # None}

Line(w) == OrderLines[tx[w].order][tx[w].k]
\* Variant: the rows are visited latest expiry first.
Row_Reversed(w) ==
  Candidates[Line(w)][Len(Candidates[Line(w)]) + 1 - tx[w].i]
Row(w)  == Candidates[Line(w)][tx[w].i]
Lot(w)  == LotOf[Row(w)]

HasLine(w) == tx[w].k <= Len(OrderLines[tx[w].order])
HasRow(w)  == tx[w].need > 0 /\ tx[w].i <= Len(Candidates[Line(w)])

-----------------------------------------------------------------------------
Init ==
  /\ status = [o \in Orders |-> "DRAFT"]
  /\ allocated = [ln \in Lines |-> 0]
  /\ available = Initial
  /\ reserved = [l \in Lots |-> [o \in Orders |-> None]]
  /\ fullOnly \in BOOLEAN /\ overlapped = FALSE
  /\ crossed = {} /\ drawn = [x \in Rows |-> 0]
  /\ pc = [w \in Workers |-> "idle"]
  /\ tx = [w \in Workers |-> NoTx]

\* Two requests hold different AVAILABLE rows of the lot.
Crossing(l) ==
  \E x, y \in RowsOf(l) : \E v, w \in Workers :
    x # y /\ v # w /\ tx[v].avail[x] # None /\ tx[w].avail[y] # None

\* One statement of w, after which it is at next with the locals t.
Goto(w, next, t) ==
  /\ pc' = [pc EXCEPT ![w] = next]
  /\ tx' = [tx EXCEPT ![w] = t]
  /\ overlapped' = (overlapped \/ \E v \in Workers \ {w} : pc[v] # "idle")
  /\ crossed' = crossed \cup {l \in Lots : Crossing(l)'}
  /\ UNCHANGED fullOnly

\* One that changes no committed row.
Local(w, next, t) == Goto(w, next, t) /\ UNCHANGED <<status, allocated, stock, drawn>>

\* findFirst of the order, outside the transaction: only a DRAFT goes on.
Check(w, o) ==
  /\ pc[w] = "idle"
  /\ status[o] = "DRAFT"
  /\ Local(w, "readLines", [NoTx EXCEPT !.order = o])

\* The second query of the same findFirst (include: lines), later than the first.
ReadLines(w) ==
  /\ pc[w] = "readLines"
  /\ Local(w, "begin",
       [tx[w] EXCEPT !.base = [ln \in Lines |->
          IF ln \in LinesOf(tx[w].order) THEN allocated[ln] ELSE 0]])

\* The transaction's first UPDATE, status = RELEASED: it locks the order row
\* but does not look at the status again.
Begin(w) ==
  /\ pc[w] = "begin"
  /\ OrderHolders(w, tx[w].order) = {}
  /\ Local(w, "line", [tx[w] EXCEPT !.k = 1])

\* "if (remaining.lte(0)) continue;"
SkipLine(w) ==
  /\ pc[w] = "line" /\ HasLine(w)
  /\ Requested[Line(w)] <= tx[w].base[Line(w)]
  /\ Local(w, "line", [tx[w] EXCEPT !.k = @ + 1])

\* findMany of the line's AVAILABLE rows; their quantities are kept in seen.
SelectStock(w) ==
  LET ln    == Line(w)
      found == {Candidates[ln][j] : j \in 1..Len(Candidates[ln])}
  IN /\ pc[w] = "line" /\ HasLine(w)
     /\ Requested[ln] > tx[w].base[ln]
     /\ Local(w, "take",
          [tx[w] EXCEPT !.i = 1,
                        !.need = Requested[ln] - tx[w].base[ln],
                        !.got = tx[w].base[ln],
                        !.seen = [x \in Rows |->
                           IF x \in found THEN AvailableIn(w, x) ELSE 0]])

SkipRow(w) ==
  /\ pc[w] = "take" /\ HasRow(w)
  /\ tx[w].seen[Row(w)] = 0
  /\ Local(w, "take", [tx[w] EXCEPT !.i = @ + 1])

\* The common shape of TakeRow and its variants: amount is drawn, left is stored.
Draw(w, amount, left) ==
  /\ pc[w] = "take" /\ HasRow(w)
  /\ tx[w].seen[Row(w)] > 0
  /\ AvailHolders(w, Row(w)) = {}
  /\ Local(w, "find", [tx[w] EXCEPT !.avail[Row(w)] = left, !.take = amount,
                                    !.drawn[Row(w)] = @ + amount])

Smaller(x, y) == IF x < y THEN x ELSE y

\* Variants: not capped by the row; row not reduced.
TakeRow_Uncapped(w) == Draw(w, tx[w].need, tx[w].seen[Row(w)] - tx[w].need)
TakeRow_KeepRow(w)  ==
  Draw(w, Smaller(tx[w].seen[Row(w)], tx[w].need), tx[w].seen[Row(w)])

\* UPDATE of the AVAILABLE row: waits for its lock, then stores seen - take.
TakeRow(w) ==
  LET amount == Smaller(tx[w].seen[Row(w)], tx[w].need)
  IN Draw(w, amount, tx[w].seen[Row(w)] - amount)

\* Variant: the row is inserted without looking for one.
FindReserved_Insert(w) ==
  /\ pc[w] = "find"
  /\ Local(w, "reserve", [tx[w] EXCEPT !.row = tx[w].order, !.rowQty = 0])

\* findFirst of a RESERVED row of the lot: any visible one, or none.
FindReserved(w) ==
  LET l    == Lot(w)
      rows == {o \in Orders : ReservedIn(w, l, o) # None}
  IN /\ pc[w] = "find"
     /\ \/ \E o \in rows :
             Local(w, "reserve", [tx[w] EXCEPT !.row = o,
                                               !.rowQty = ReservedIn(w, l, o)])
        \/ /\ rows = {}
           /\ Local(w, "reserve", [tx[w] EXCEPT !.row = tx[w].order, !.rowQty = 0])

StoreReserved(w, quantity) ==
  /\ pc[w] = "reserve"
  /\ ResvHolders(w, Lot(w), tx[w].row) = {}
  /\ Local(w, "take",
       [tx[w] EXCEPT !.resv[Lot(w)][tx[w].row] = quantity,
                     !.got  = @ + tx[w].take,
                     !.need = @ - tx[w].take,
                     !.i    = @ + 1,
                     !.take = 0, !.row = NoOrder, !.rowQty = 0])

\* Variant: an existing row is overwritten instead of increased.
Reserve_Overwrite(w) == StoreReserved(w, tx[w].take)

\* UPDATE of that row, or INSERT of a new one.
Reserve(w) == StoreReserved(w, tx[w].rowQty + tx[w].take)

StoreLine(w, quantity) ==
  /\ pc[w] = "take" /\ ~HasRow(w)
  /\ Local(w, "line", [tx[w] EXCEPT !.alloc[Line(w)] = quantity,
                                    !.k = @ + 1, !.i = 0, !.need = 0, !.got = 0,
                                    !.seen = [x \in Rows |-> 0]])

\* UPDATE of the line's allocatedQty.
WriteLine(w) == StoreLine(w, tx[w].got)

\* Variant: judged on the lines as read before the transaction.
AllAllocated_Stale(w) ==
  \A ln \in LinesOf(tx[w].order) : tx[w].base[ln] = Requested[ln]

\* The lines are read again, in the transaction, to judge the outcome.
AllAllocated(w) ==
  \A ln \in LinesOf(tx[w].order) : AllocatedIn(w, ln) = Requested[ln]
AnyAllocated(w) ==
  \E ln \in LinesOf(tx[w].order) : AllocatedIn(w, ln) > 0
NewStatus(w) ==
  IF AllAllocated(w) THEN "FULLY_ALLOCATED"
  ELSE IF AnyAllocated(w) THEN "PARTIALLY_ALLOCATED"
  ELSE "RELEASED"

Publish(w) ==
  /\ status' = [status EXCEPT ![tx[w].order] = NewStatus(w)]
  /\ allocated' = [ln \in Lines |-> AllocatedIn(w, ln)]
  /\ available' = [x \in Rows |-> AvailableIn(w, x)]
  /\ reserved' = [l \in Lots |-> [o \in Orders |-> ReservedIn(w, l, o)]]
  /\ drawn' = [x \in Rows |-> drawn[x] + tx[w].drawn[x]]
  /\ Goto(w, "idle", NoTx)

\* Variant: the outbound rule is not consulted.
Commit_NoRule(w) == pc[w] = "line" /\ ~HasLine(w) /\ Publish(w)

\* The final UPDATE of the status, and COMMIT.
Commit(w) ==
  /\ pc[w] = "line" /\ ~HasLine(w)
  /\ fullOnly => AllAllocated(w)
  /\ Publish(w)

\* The transaction's writes are dropped and the request answers with an error.
Rollback(w) == Local(w, "idle", NoTx)

\* The outbound rule forbids what was allocated.
Reject(w) ==
  /\ pc[w] = "line" /\ ~HasLine(w)
  /\ fullOnly /\ ~AllAllocated(w)
  /\ Rollback(w)

\* A lost connection, Prisma's transaction timeout or a crash of the process.
Fail(w) == pc[w] # "idle" /\ Rollback(w)

WaitsFor(w) ==
  CASE pc[w] = "begin" -> OrderHolders(w, tx[w].order)
    [] pc[w] = "take" /\ HasRow(w) /\ tx[w].seen[Row(w)] > 0
                       -> AvailHolders(w, Row(w))
    [] pc[w] = "reserve" -> ResvHolders(w, Lot(w), tx[w].row)
    [] OTHER -> {}

\* Variant: nobody breaks a cycle of waiting transactions.
DeadlockVictim_None(w) == FALSE /\ Rollback(w)

\* PostgreSQL aborts a transaction that waits in a cycle.
DeadlockVictim(w) ==
  /\ \E S \in SUBSET Workers : w \in S /\ UNION {WaitsFor(v) : v \in S} = S
  /\ Rollback(w)

Statement(w) ==
  \/ ReadLines(w) \/ Begin(w) \/ SkipLine(w) \/ SelectStock(w)
  \/ SkipRow(w) \/ TakeRow(w) \/ FindReserved(w) \/ Reserve(w)
  \/ WriteLine(w) \/ Commit(w) \/ Reject(w)

Next ==
  \E w \in Workers :
    \/ \E o \in Orders : Check(w, o)
    \/ Statement(w)
    \/ Fail(w)
    \/ DeadlockVictim(w)

Spec == Init /\ [][Next]_vars

\* Every statement is executed (a row lock is granted in arrival order, hence
\* strong fairness) and the deadlock detector runs; nobody has to call Check.
Fairness ==
  \A w \in Workers : SF_vars(Statement(w)) /\ WF_vars(DeadlockVictim(w))

FairSpec == Spec /\ Fairness

-----------------------------------------------------------------------------
(* Properties that hold for any number of concurrent releases.             *)

ReservedTotal(l) ==
  SumFunctionOnSet([o \in Orders |-> IF reserved[l][o] = None THEN 0 ELSE reserved[l][o]], Orders)

\* A lot never has two committed RESERVED rows, although releases insert them
\* after an unlocked findFirst and the table has no unique key, unless two
\* releases at once drew from different AVAILABLE rows of the lot: the lock of the
\* row they draw from is all that serialises them, and a lot kept in one row is
\* always safe (the later findFirst of picking would see only one of the two).
OneReservedRow ==
  \A l \in Lots \ crossed : \A o, p \in Orders :
    reserved[l][o] # None /\ reserved[l][p] # None => o = p

\* However releases interleave, and although each stores absolute quantities
\* computed from stale reads, no stock disappears: an AVAILABLE row never falls by
\* more than was drawn from it, and what was drawn from the rows of a lot is in its
\* RESERVED row to the last unit.  The latter does not hold of a lot two rows of which
\* two releases drew from at once: both may add to the same RESERVED quantity.
StockNeverLost ==
  /\ \A x \in Rows : available[x] + drawn[x] >= Initial[x]
  /\ \A l \in Lots \ crossed : ReservedTotal(l) = SumFunctionOnSet(drawn, RowsOf(l))

\* The status an order carries is the one its own lines justify, also when two
\* releases of the order overlap, one of which resets the lines of the other.
StatusAgreesWithLines ==
  \A o \in Orders :
    LET full == \A ln \in LinesOf(o) : allocated[ln] = Requested[ln]
        some == \E ln \in LinesOf(o) : allocated[ln] > 0
    IN CASE status[o] = "FULLY_ALLOCATED" -> full
         [] status[o] = "PARTIALLY_ALLOCATED" -> some /\ ~full
         [] status[o] = "RELEASED" -> ~some /\ ~full
         [] status[o] = "DRAFT" -> ~some

\* No line is allocated more than it requests, and under a rule that demands
\* full allocation no committed release leaves an order short.
AllocationWithinRule ==
  /\ \A ln \in Lines : allocated[ln] <= Requested[ln]
  /\ fullOnly => \A o \in Orders : status[o] \in {"DRAFT", "FULLY_ALLOCATED"}

\* Every release returns, although lines lock rows in the order the customer
\* wrote them: a cycle of waiting requests is broken by the database.
EveryReleaseReturns ==
  \A w \in Workers : pc[w] # "idle" ~> pc[w] = "idle"

-----------------------------------------------------------------------------
(* What a release was meant to respect, and what it amounts to.            *)

\* A release checks what is available, so no lot is reserved beyond its stock.
NeverOverReserved ==
  \A l \in Lots : ReservedTotal(l) <= SumFunctionOnSet(Initial, RowsOf(l))

\* As long as releases do not overlap, the statements of each amount to one atomic step
\* that draws from the lots in order of expiry and conserves the stock.
Atomic == INSTANCE AtomicRelease
            WITH reserved <- [l \in Lots |-> ReservedTotal(l)]
SerialReleaseIsAtomic ==
  Atomic!Init /\ [][~overlapped' => Atomic!Next]_<<status, allocated, stock>>
=============================================================================
