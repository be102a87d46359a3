----------------------------- MODULE Relocation -----------------------------
(***************************************************************************)
(* Moving stock between locations: transfer orders and the replenishment   *)
(* suggestions they execute (ReplenishmentService), and the execution of   *)
(* slotting recommendations (SlottingService), statement by statement.     *)
(* Both read a row at the source and one at the destination and store      *)
(* absolute quantities, in one transaction at READ COMMITTED; a transfer   *)
(* also checks the plan's monthly limit before and counts itself after.    *)
(*                                                                         *)
(* Rows of the Inventory table have ids: no key keeps a product from       *)
(* having several rows in one location (a status, a batch, a uom each).    *)
(* A location stands for its warehouse's oldest active one where a         *)
(* transfer order names warehouses.                                        *)
(***************************************************************************)
EXTENDS Integers, Sequences, FiniteSets, FiniteSetsExt, Functions

CONSTANTS
  Products, Locs, Ids, Workers,
  Recs, Sugs, Orders,    \* ids of recommendations, suggestions, transfer orders
  NoLoc, NoId, NoOrder, NoRec,
  InitRows,              \* [Ids -> Row], the stock at the start
  Asks,                  \* the line lists a transfer may carry
  MinQty, MaxQty,        \* [Products -> Nat], minQty and maxQty of the policies
  Limit,                 \* maxMonthlyOrders of the plan
  MaxMoved               \* bound: a recommendation is executed with the stock and the
                         \* movements of its product, per location, within it

VARIABLES
  rows,       \* [Ids -> Row], Inventory
  logged,     \* [Products -> [Locs -> Int]], movement lines into minus out of
  recs,       \* [Recs -> Rec], SlottingRecommendation
  sugs,       \* [Sugs -> Sug], ReplenishmentSuggestion
  orders,     \* [Orders -> OrderStatus], TransferOrder.status
  used,       \* UsageMetric.monthlyOrdersCount of the month
  pc, tx,     \* [Workers -> Control], [Workers -> Tx]
  lost,       \* history: transfers committed by a request that died before the count
  met,        \* history: products that two requests worked on at once
  irregular   \* history: products with a committed move that had no source row,
              \* one location, or several rows or a debt to move out of

db   == <<rows, logged, recs, sugs, orders, used>>
hist == <<lost, met, irregular>>
vars == <<db, pc, tx, hist>>

StockStatus == {"AVAILABLE", "RESERVED"}
Row  == [product : Products, loc : Locs \cup {NoLoc}, status : StockStatus, qty : Int]
Line == [product : Products, qty : Nat]
Rec  == [status : {"NONE", "PENDING", "APPROVED", "EXECUTED", "REJECTED"},
         product : Products, from : Locs \cup {NoLoc}, to : Locs]
Sug  == [status : {"NONE", "PENDING", "APPROVED", "EXECUTED", "REJECTED"},
         product : Products, qty : Nat]
OrderStatus == {"NONE", "APPROVED", "COMPLETED"}   \* CREATED is never committed
Control == {"idle", "source", "dest", "take", "put", "commit", "increment"}

ASSUME RelocationAssumption ==
  /\ NoLoc \notin Locs /\ NoId \notin Ids /\ NoOrder \notin Orders /\ NoRec \notin Recs
  /\ IsFiniteSet(Workers) /\ Workers # {} /\ Products # {} /\ Locs # {}
  /\ IsFiniteSet(Ids) /\ IsFiniteSet(Sugs) /\ IsFiniteSet(Orders)
  /\ InitRows \in [Ids -> Row]
  /\ Asks \subseteq Seq(Line)
  /\ MinQty \in [Products -> Nat] /\ MaxQty \in [Products -> Nat] /\ Limit \in Nat /\ MaxMoved \in Nat

Tx == [order : Orders \cup {NoOrder}, rec : Recs \cup {NoRec}, named : SUBSET Sugs,
       todo : Seq(Line),                        \* the line at hand and those after it
       from : Locs \cup {NoLoc}, to : Locs \cup {NoLoc},
       src  : Ids \cup {NoId}, srcQty : Int,    \* sourceInventory, as read
       dst  : Ids \cup {NoId}, dstQty : Int,    \* destinationInventory, as read
       dirty : SUBSET Ids, put : [Ids -> Row],  \* uncommitted rows
       log  : [Products -> [Locs -> Int]],      \* uncommitted movement lines
       odd  : SUBSET Products]                  \* what becomes irregular by them

NoMoves == [p \in Products |-> [l \in Locs |-> 0]]
NoTx == [order |-> NoOrder, rec |-> NoRec, named |-> {}, todo |-> <<>>,
         from |-> NoLoc, to |-> NoLoc, src |-> NoId, srcQty |-> 0, dst |-> NoId,
         dstQty |-> 0, dirty |-> {}, put |-> InitRows, log |-> NoMoves, odd |-> {}]

TypeOK ==
  /\ rows \in [Ids -> Row]
  /\ logged \in [Products -> [Locs -> Int]]
  /\ recs \in [Recs -> Rec] /\ sugs \in [Sugs -> Sug]
  /\ orders \in [Orders -> OrderStatus] /\ used \in Nat
  /\ pc \in [Workers -> Control]
  /\ \A w \in Workers : tx[w] \in Tx
  /\ lost \subseteq Orders /\ met \subseteq Products /\ irregular \subseteq Products

-----------------------------------------------------------------------------
SumOf(is)   == SumFunctionOnSet([i \in Ids |-> rows[i].qty], is)
RowsAt(p, l) == {i \in Ids : rows[i].product = p /\ rows[i].loc = l}
RowsOf(p)   == {i \in Ids : rows[i].product = p /\ rows[i].loc # NoLoc}

\* What w's transaction sees, and the row locks of the others.
RowIn(w, i)  == IF i \in tx[w].dirty THEN tx[w].put[i] ELSE rows[i]
Free(w, i)   == \A o \in Workers \ {w} : i \notin tx[o].dirty

Slotting(w)  == tx[w].rec # NoRec
Item(w)      == Head(tx[w].todo)
ItemsOf(t)   == {t.todo[k].product : k \in 1..Len(t.todo)}

\* What w is still at work on.
Scope(w) == IF pc[w] \in {"idle", "increment"} THEN {}
            ELSE ItemsOf(tx[w]) \cup {tx[w].put[i].product : i \in tx[w].dirty}

Blank == [status |-> "NONE", product |-> CHOOSE p \in Products : TRUE]
Init ==
  /\ rows = InitRows
  /\ logged = NoMoves
  /\ recs = [r \in Recs |-> [status |-> "NONE", product |-> Blank.product,
                             from |-> NoLoc, to |-> CHOOSE l \in Locs : TRUE]]
  /\ sugs = [s \in Sugs |-> [status |-> "NONE", product |-> Blank.product, qty |-> 0]]
  /\ orders = [o \in Orders |-> "NONE"]
  /\ used = 0
  /\ pc = [w \in Workers |-> "idle"]
  /\ tx = [w \in Workers |-> NoTx]
  /\ lost = {} /\ met = {} /\ irregular = {}

Goto(w, next, t) == pc' = [pc EXCEPT ![w] = next] /\ tx' = [tx EXCEPT ![w] = t]
Local(w, next, t) == Goto(w, next, t) /\ UNCHANGED <<db, hist>>

Begin(w, next, t) ==
  /\ pc[w] = "idle"
  /\ Goto(w, next, t)
  /\ met' = met \cup UNION {ItemsOf(t) \cap Scope(o) : o \in Workers \ {w}}
  /\ UNCHANGED <<db, lost, irregular>>

-----------------------------------------------------------------------------
(* One-statement operations.                                               *)

\* A release reserves one unit of a row (in a RESERVED row of the same place).
Reserve(i, j) ==
  /\ rows[i].loc # NoLoc /\ rows[i].status = "AVAILABLE" /\ rows[i].qty > 0
  /\ rows[j] = [rows[i] EXCEPT !.status = "RESERVED", !.qty = rows[j].qty]
  /\ \A w \in Workers : {i, j} \cap tx[w].dirty = {}
  /\ rows' = [rows EXCEPT ![i].qty = @ - 1, ![j].qty = @ + 1]
  /\ met' = met \cup UNION {{rows[i].product} \cap Scope(w) : w \in Workers}
  /\ UNCHANGED <<logged, recs, sugs, orders, used, pc, tx, lost, irregular>>

\* evaluateReplenishment, for one policy of method MIN_MAX.
SuggestedQty(p) ==
  LET stock == SumOf(RowsOf(p))
  IN IF stock < MinQty[p] /\ stock < MaxQty[p] THEN MaxQty[p] - stock ELSE 0

Evaluate(s, p) ==
  /\ sugs[s].status = "NONE" /\ SuggestedQty(p) > 0
  /\ sugs' = [sugs EXCEPT ![s] = [status |-> "PENDING", product |-> p, qty |-> SuggestedQty(p)]]
  /\ UNCHANGED <<rows, logged, recs, orders, used, pc, tx, hist>>

\* approveSuggestion and executeSuggestion look at no status, nor do the
\* endpoints of the transfer orders.
MarkSuggestion(s, new) ==
  /\ sugs[s].status # "NONE" /\ new \in {"APPROVED", "REJECTED", "EXECUTED"}
  /\ sugs' = [sugs EXCEPT ![s].status = new]
  /\ UNCHANGED <<rows, logged, recs, orders, used, pc, tx, hist>>

MarkOrder(o, new) ==
  /\ orders[o] # "NONE" /\ new \in {"APPROVED", "COMPLETED"}
  /\ orders' = [orders EXCEPT ![o] = new]
  /\ UNCHANGED <<rows, logged, recs, sugs, used, pc, tx, hist>>

\* calculateSlotting: the current location is that of a row with most stock, the
\* recommended one whatever the scores make it.
Largest(p) == {i \in RowsOf(p) : \A j \in RowsOf(p) : rows[j].qty <= rows[i].qty}

Recommend(r, p, to) ==
  /\ recs[r].status = "NONE"
  /\ \E from \in IF RowsOf(p) = {} THEN {NoLoc} ELSE {rows[i].loc : i \in Largest(p)} :
       recs' = [recs EXCEPT ![r] = [status |-> "PENDING", product |-> p,
                                    from |-> from, to |-> to]]
  /\ UNCHANGED <<rows, logged, sugs, orders, used, pc, tx, hist>>

MarkRecommendation(r, new) ==
  /\ recs[r].status # "NONE" /\ new \in {"APPROVED", "REJECTED"}
  /\ recs' = [recs EXCEPT ![r].status = new]
  /\ UNCHANGED <<rows, logged, sugs, orders, used, pc, tx, hist>>

-----------------------------------------------------------------------------
(* The start of a request.                                                 *)

WithinLimit == used + 1 <= Limit

\* The ids a new order may get.
Unplaced == {o \in Orders : orders[o] = "NONE" /\ \A v \in Workers : tx[v].order # o}

\* createTransferOrderFromSuggestions: checkLimit, and the suggestions named; their
\* lines are used when the request has none, and a transfer may be left with none.
Transfer(w, from, to, lines, named) ==
  /\ Unplaced # {} /\ WithinLimit
  /\ \A s \in named : sugs[s].status # "NONE"
  /\ \E ls \in IF lines # <<>> THEN {lines}
               ELSE {[k \in DOMAIN f |-> [product |-> sugs[f[k]].product, qty |-> sugs[f[k]].qty]] :
                       f \in Bijection(1..Cardinality(named), named)} :
       Begin(w, IF ls = <<>> THEN "commit" ELSE "source",
             [NoTx EXCEPT !.order = CHOOSE o \in Unplaced : TRUE, !.named = named,
                     !.todo = ls, !.from = from, !.to = to])

\* executeRecommendation: any status will do; the quantity is the sum over all the
\* rows of the product, in the current location if there is one.
Execute(w, r) ==
  LET rec   == recs[r]
      found == IF rec.from = NoLoc THEN RowsOf(rec.product) ELSE RowsAt(rec.product, rec.from)
      qty   == SumOf(found)
      out   == [NoMoves EXCEPT ![rec.product][rec.to] = qty]
      log   == IF rec.from = NoLoc THEN out
               ELSE [out EXCEPT ![rec.product][rec.from] = @ - qty]
  IN /\ rec.status # "NONE"
     /\ \A l \in Locs : /\ logged[rec.product][l] \in -MaxMoved..MaxMoved
                        /\ SumOf(RowsAt(rec.product, l)) <= MaxMoved
     /\ Begin(w, CASE qty > 0 /\ rec.from # NoLoc -> "source"
                   [] qty > 0 /\ rec.from = NoLoc -> "dest"
                   [] OTHER -> "commit",
              [NoTx EXCEPT !.rec = r, !.from = rec.from, !.to = rec.to, !.log = log,
                 !.todo = <<[product |-> rec.product, qty |-> IF qty > 0 THEN qty ELSE 0]>>,
                 !.odd = IF qty < 0 \/ (rec.from # NoLoc /\ Cardinality(found) > 1)
                         THEN {rec.product} ELSE {}])

-----------------------------------------------------------------------------
(* The transaction.                                                        *)

\* findFirst: a transfer asks for an AVAILABLE row, slotting for any.
Match(w, l) == {i \in Ids : /\ RowIn(w, i).product = Item(w).product /\ RowIn(w, i).loc = l
                            /\ Slotting(w) \/ RowIn(w, i).status = "AVAILABLE"}
Found(w, l) == IF Match(w, l) = {} THEN {NoId} ELSE Match(w, l)

\* Variant: a missing row has no quantity.
QtyOf_Null(w, i) == IF i = NoId THEN NoId ELSE RowIn(w, i).qty
QtyOf(w, i) == IF i = NoId THEN 0 ELSE RowIn(w, i).qty

\* A transfer reads both rows before it writes, slotting only the one.
ReadSource(w) ==
  /\ pc[w] = "source"
  /\ \E i \in Found(w, tx[w].from) :
       Local(w, IF Slotting(w) THEN "take" ELSE "dest",
             [tx[w] EXCEPT !.src = i, !.srcQty = QtyOf(w, i),
                           !.odd = @ \cup IF i = NoId \/ (~Slotting(w) /\ tx[w].from = tx[w].to)
                                          THEN {Item(w).product} ELSE {}])

ReadDest(w) ==
  /\ pc[w] = "dest"
  /\ \E i \in Found(w, tx[w].to) :
       Local(w, IF Slotting(w) THEN "put" ELSE "take",
             [tx[w] EXCEPT !.dst = i, !.dstQty = QtyOf(w, i)])

\* Variant: the row is moved whole.
Left_Row(w) == 0
Left(w) ==
  LET left == tx[w].srcQty - Item(w).qty
  IN IF Slotting(w) /\ left < 0 THEN 0 ELSE left

\* UPDATE of the source row, which may be missing; a transfer has no lower bound.
Take(w) ==
  LET i == tx[w].src
  IN /\ pc[w] = "take"
     /\ i # NoId => Free(w, i)
     /\ Local(w, IF Slotting(w) THEN "dest" ELSE "put",
              IF i = NoId THEN tx[w]
              ELSE [tx[w] EXCEPT !.dirty = @ \cup {i},
                                 !.put[i] = [RowIn(w, i) EXCEPT !.qty = Left(w)]])

\* UPDATE of the destination row, or INSERT of one, under some id not in use.
Unused(w) == {i \in Ids : RowIn(w, i).loc = NoLoc /\ Free(w, i)}
Landing(w) == IF tx[w].dst # NoId THEN {tx[w].dst}
              ELSE IF Unused(w) = {} THEN {} ELSE {CHOOSE i \in Unused(w) : TRUE}

\* Variant: the quantity is stored, not added.
Landed_Set(w) == Item(w).qty
Landed(w) == tx[w].dstQty + Item(w).qty

Put(w) ==
  /\ pc[w] = "put"
  /\ \E i \in Landing(w) :
       /\ Free(w, i)
       /\ LET p   == Item(w).product
              new == IF tx[w].dst # NoId THEN [RowIn(w, i) EXCEPT !.qty = Landed(w)]
                     ELSE [product |-> p, loc |-> tx[w].to, status |-> "AVAILABLE",
                           qty |-> Landed(w)]
              log == IF Slotting(w) THEN tx[w].log
                     ELSE [tx[w].log EXCEPT ![p] = [l \in Locs |->
                            @[l] + (IF l = tx[w].to THEN Item(w).qty ELSE 0)
                                 - (IF l = tx[w].from THEN Item(w).qty ELSE 0)]]
          IN Local(w, IF Len(tx[w].todo) = 1 THEN "commit" ELSE "source",
                   [tx[w] EXCEPT !.dirty = @ \cup {i}, !.put[i] = new, !.log = log,
                                 !.todo = IF Len(@) = 1 THEN @ ELSE Tail(@)])

\* The statuses, and COMMIT.
Commit(w) ==
  LET t == tx[w]
  IN /\ pc[w] = "commit"
     /\ rows' = [i \in Ids |-> RowIn(w, i)]
     /\ logged' = [p \in Products |-> [l \in Locs |-> logged[p][l] + t.log[p][l]]]
     /\ recs' = [r \in Recs |-> IF r = t.rec THEN [recs[r] EXCEPT !.status = "EXECUTED"]
                                ELSE recs[r]]
     /\ sugs' = [s \in Sugs |-> IF s \in t.named THEN [sugs[s] EXCEPT !.status = "EXECUTED"]
                                ELSE sugs[s]]
     /\ orders' = [o \in Orders |-> IF o = t.order THEN "COMPLETED" ELSE orders[o]]
     /\ irregular' = irregular \cup t.odd
     /\ IF Slotting(w) THEN Goto(w, "idle", NoTx)
        ELSE Goto(w, "increment", [NoTx EXCEPT !.order = t.order])
     /\ UNCHANGED <<used, lost, met>>

\* Variant: the transfer is never counted.
Increment_Skip(w) ==
  /\ pc[w] = "increment"
  /\ Goto(w, "idle", NoTx)
  /\ UNCHANGED <<db, hist>>

\* incrementUsage, after the transaction.
Increment(w) ==
  /\ pc[w] = "increment"
  /\ used' = used + 1
  /\ Goto(w, "idle", NoTx)
  /\ UNCHANGED <<rows, logged, recs, sugs, orders, hist>>

\* A lost connection, a deadlock between two requests, the transaction timeout or a
\* crash: what is not committed is dropped, and a transfer may stay uncounted.
Fail(w) ==
  /\ pc[w] # "idle"
  /\ Goto(w, "idle", NoTx)
  /\ lost' = IF pc[w] = "increment" THEN lost \cup {tx[w].order} ELSE lost
  /\ UNCHANGED <<db, met, irregular>>

-----------------------------------------------------------------------------
Statement(w) ==
  \/ ReadSource(w) \/ ReadDest(w) \/ Take(w) \/ Put(w) \/ Commit(w) \/ Increment(w)

Next ==
  \/ \E i, j \in Ids : Reserve(i, j)
  \/ \E s \in Sugs : \/ \E p \in Products : Evaluate(s, p)
                     \/ \E new \in {"APPROVED", "REJECTED", "EXECUTED"} : MarkSuggestion(s, new)
  \/ \E o \in Orders, new \in {"APPROVED", "COMPLETED"} : MarkOrder(o, new)
  \/ \E r \in Recs : \/ \E p \in Products, to \in Locs : Recommend(r, p, to)
                     \/ \E new \in {"APPROVED", "REJECTED"} : MarkRecommendation(r, new)
  \/ \E w \in Workers :
       \/ \E from, to \in Locs, ls \in Asks \cup {<<>>}, ss \in SUBSET Sugs :
            Transfer(w, from, to, ls, ss)
       \/ \E r \in Recs : Execute(w, r)
       \/ Statement(w)
       \/ Fail(w)

Spec == Init /\ [][Next]_vars

-----------------------------------------------------------------------------
InitAt(p, l) == SumFunctionOnSet([i \in Ids |-> InitRows[i].qty],
                  {i \in Ids : InitRows[i].product = p /\ InitRows[i].loc = l})

\* A product whose moves never overlapped, and each had one row to move out of,
\* has in every location what the movements say, whatever happened to the others.
StockIsMovements ==
  \A p \in Products \ (met \cup irregular) : \A l \in Locs :
    SumOf(RowsAt(p, l)) = InitAt(p, l) + logged[p][l]

\* However irregular a move is (no source row, one location, several rows, a row
\* that owes), while moves of a product do not overlap none of its units is lost:
\* the faults of the code only make stock appear.
NothingIsLost ==
  [][\A p \in Products \ met' : SumOf(RowsOf(p)) <= SumOf(RowsOf(p))']_vars

\* The transfers made pass the plan's limit by less than the number of requests
\* served at once, not counting those whose request died between its COMMIT and
\* its count: each of these is one more, as nothing counts it later.
Made == {o \in Orders : orders[o] # "NONE"}
OverrunIsBounded == Cardinality(Made \ lost) <= Limit + Cardinality(Workers) - 1
=============================================================================
