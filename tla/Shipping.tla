------------------------------ MODULE Shipping ------------------------------
(***************************************************************************)
(* Packing and dispatch of OutboundService, statement by statement: what   *)
(* was picked is packed into handling units (addItemsToHandlingUnit),      *)
(* units are assigned to shipments (assignHandlingUnitsToShipment), and a  *)
(* shipment is dispatched (dispatchShipment), which logs the exit of what  *)
(* its units hold.                                                         *)
(*                                                                         *)
(* Requests (Workers) overlap, at READ COMMITTED.  None of the three       *)
(* tables has a unique key, and the only row that is updated, the          *)
(* shipment's, is written just before COMMIT: no request ever waits for    *)
(* another.                                                                *)
(***************************************************************************)
EXTENDS Integers, Sequences, FiniteSetsExt

CONSTANTS
  Orders, Lines, Units, Ships, Workers,
  NoUnit, NoShip,  \* the unit and shipment of a request that names none
  OrderOf,         \* [Lines -> Orders]: outboundOrderId of the order line
  Requested,       \* [Lines -> Nat]: requestedQty, all of it picked in the end
  Packs,           \* the item lists an addItems request may carry
  Loads,           \* the sets of units an assignment may name
  MaxLinks,        \* bound: an assignment starts with fewer rows of each link
  MaxShipped       \* bound: a dispatch starts with less of each line logged

Item == [line : Lines, qty : Nat \ {0}]

\* The items of one request belong to one order, as the code checks.
ASSUME ShippingAssumption ==
  /\ NoUnit \notin Units /\ NoShip \notin Ships /\ IsFiniteSet(Units)
  /\ OrderOf \in [Lines -> Orders]
  /\ Requested \in [Lines -> Nat]
  /\ Packs \subseteq Seq(Item)
  /\ \A p \in Packs : \A i, j \in 1..Len(p) : OrderOf[p[i].line] = OrderOf[p[j].line]
  /\ Loads \subseteq (SUBSET Units) \ {{}}
  /\ MaxLinks \in Nat /\ MaxShipped \in Nat

VARIABLES
  pickedQty,   \* [Lines -> Nat], OutboundOrderLine.pickedQty
  packed,      \* [Units -> [Lines -> Nat]], sums of HandlingUnitLine.quantity
  shipStatus,  \* [Ships -> ShipStatus], Shipment.status
  links,       \* [Ships -> [Units \X Orders -> Nat]], its ShipmentHandlingUnit rows
  shipped,     \* [Ships -> [Lines -> Nat]], movement lines that refer to it
  overlapped,  \* history: whether two requests were ever under way at once
  pc,          \* [Workers -> Control], the statement a request is about to run
  tx           \* [Workers -> Tx], its locals and uncommitted writes

rows == <<pickedQty, packed, shipStatus, links, shipped>>
vars == <<rows, overlapped, pc, tx>>

ShipStatus == {"NONE", "PLANNED", "LOADING", "DISPATCHED"}
Control    == {"idle", "pack", "units", "links", "assign", "hasLinks", "cargo",
               "contents", "dispatch"}

Tx == [unit   : Units \cup {NoUnit}, items : Seq(Item), k : Nat,
       limit  : [Lines -> Nat],              \* orderLine.pickedQty as first read
       added  : [Lines -> Nat],              \* uncommitted handling unit lines
       ship   : Ships \cup {NoShip},
       status : ShipStatus,                  \* shipment.status as first read
       units  : SUBSET Units,                \* the units named, or found linked
       pairs  : SUBSET (Units \X Orders),    \* unit and order of each line read
       linked : SUBSET (Units \X Orders),    \* existingKey
       load   : [Lines -> Nat]]              \* lines of the units to dispatch

Nothing == [ln \in Lines |-> 0]
NoTx == [unit |-> NoUnit, items |-> <<>>, k |-> 0, limit |-> Nothing,
         added |-> Nothing, ship |-> NoShip, status |-> "NONE", units |-> {},
         pairs |-> {}, linked |-> {}, load |-> Nothing]

TypeOK ==
  /\ pickedQty \in [Lines -> Nat]
  /\ packed \in [Units -> [Lines -> Nat]]
  /\ shipStatus \in [Ships -> ShipStatus]
  /\ links \in [Ships -> [Units \X Orders -> Nat]]
  /\ shipped \in [Ships -> [Lines -> Nat]]
  /\ overlapped \in BOOLEAN
  /\ pc \in [Workers -> Control]
  /\ tx \in [Workers -> Tx]

-----------------------------------------------------------------------------
OfLine(ln) == [u \in Units |-> packed[u][ln]]
PackedOf(ln) == SumFunctionOnSet(OfLine(ln), Units)
ContentsOf(us) == [ln \in Lines |-> SumFunctionOnSet(OfLine(ln), us)]
OrdersIn(u) == {OrderOf[ln] : ln \in {x \in Lines : packed[u][x] > 0}}
LinkedUnits(s) == {u \in Units : \E o \in Orders : links[s][<<u, o>>] > 0}

Current(w) == tx[w].items[tx[w].k]

Init ==
  /\ pickedQty = Nothing
  /\ packed = [u \in Units |-> Nothing]
  /\ shipStatus = [s \in Ships |-> "NONE"]
  /\ links = [s \in Ships |-> [p \in Units \X Orders |-> 0]]
  /\ shipped = [s \in Ships |-> Nothing]
  /\ overlapped = FALSE
  /\ pc = [w \in Workers |-> "idle"]
  /\ tx = [w \in Workers |-> NoTx]

\* One statement of w, after which it is at next with the locals t.
Goto(w, next, t) ==
  /\ pc' = [pc EXCEPT ![w] = next]
  /\ tx' = [tx EXCEPT ![w] = t]
  /\ overlapped' = (overlapped \/ \E v \in Workers \ {w} : pc[v] # "idle")

\* One that changes no committed row.
Local(w, next, t) == Goto(w, next, t) /\ UNCHANGED rows

\* The request answers with an error; its transaction's writes are dropped.
Rollback(w) == Local(w, "idle", NoTx)

-----------------------------------------------------------------------------
\* A confirmed pick of one unit of an order line that is reserved in one lot.
ConfirmPick(ln) ==
  /\ pickedQty[ln] < Requested[ln]
  /\ pickedQty' = [pickedQty EXCEPT ![ln] = @ + 1]
  /\ UNCHANGED <<packed, shipStatus, links, shipped, overlapped, pc, tx>>

CreateShipment(s) ==
  /\ shipStatus[s] = "NONE"
  /\ shipStatus' = [shipStatus EXCEPT ![s] = "PLANNED"]
  /\ UNCHANGED <<pickedQty, packed, links, shipped, overlapped, pc, tx>>

-----------------------------------------------------------------------------
(* addItemsToHandlingUnit: neither the order's status nor the shipments of *)
(* the unit are looked at.                                                 *)

\* findFirst of the order with its lines, outside the transaction.
ReadOrder(w, u, items) ==
  /\ pc[w] = "idle"
  /\ Local(w, "pack", [NoTx EXCEPT !.unit = u, !.items = items, !.k = 1,
                                   !.limit = pickedQty])

\* Variant: what this request has already added is left out of the sum.
Fits_OwnMissed(w) ==
  PackedOf(Current(w).line) + Current(w).qty <= tx[w].limit[Current(w).line]

\* aggregate(_sum) over the line's packed quantity, this transaction's included.
Fits(w) ==
  PackedOf(Current(w).line) + tx[w].added[Current(w).line] + Current(w).qty
    <= tx[w].limit[Current(w).line]

\* The sum and the INSERT that follows it, which nobody else sees.
PackItem(w) ==
  /\ pc[w] = "pack" /\ tx[w].k <= Len(tx[w].items)
  /\ Fits(w)
  /\ Local(w, "pack", [tx[w] EXCEPT !.added[Current(w).line] = @ + Current(w).qty,
                                    !.k = @ + 1])

\* 'Cannot pack more than picked quantity'
RefuseItem(w) ==
  /\ pc[w] = "pack" /\ tx[w].k <= Len(tx[w].items)
  /\ ~Fits(w)
  /\ Rollback(w)

\* Variant: packing uses up pickedQty.
CommitItems_Consume(w) ==
  /\ pc[w] = "pack" /\ tx[w].k > Len(tx[w].items)
  /\ packed' = [packed EXCEPT ![tx[w].unit] =
                  [ln \in Lines |-> @[ln] + tx[w].added[ln]]]
  /\ pickedQty' = [ln \in Lines |-> pickedQty[ln] - tx[w].added[ln]]
  /\ Goto(w, "idle", NoTx)
  /\ UNCHANGED <<shipStatus, links, shipped>>

CommitItems(w) ==
  /\ pc[w] = "pack" /\ tx[w].k > Len(tx[w].items)
  /\ packed' = [packed EXCEPT ![tx[w].unit] =
                  [ln \in Lines |-> @[ln] + tx[w].added[ln]]]
  /\ Goto(w, "idle", NoTx)
  /\ UNCHANGED <<pickedQty, shipStatus, links, shipped>>

-----------------------------------------------------------------------------
(* assignHandlingUnitsToShipment.                                          *)

\* Variant: only a cancelled shipment is refused.
ReadShipment_Dispatched(w, s, us) ==
  /\ pc[w] = "idle" /\ shipStatus[s] # "NONE"
  /\ Local(w, "units", [NoTx EXCEPT !.ship = s, !.units = us, !.status = shipStatus[s]])

\* findFirst of the shipment, outside the transaction.
ReadShipment(w, s, us) ==
  /\ pc[w] = "idle" /\ shipStatus[s] \in {"PLANNED", "LOADING"}
  /\ \A p \in Units \X Orders : links[s][p] < MaxLinks
  /\ Local(w, "units", [NoTx EXCEPT !.ship = s, !.units = us, !.status = shipStatus[s]])

\* Variant: the orders of all the units are linked to each of them.
ReadUnits_AllOrders(w) ==
  /\ pc[w] = "units"
  /\ Local(w, "links", [tx[w] EXCEPT !.pairs =
       @ \cup (tx[w].units \X UNION {OrdersIn(u) : u \in tx[w].units})])

\* findMany of the units with their lines, also outside.
ReadUnits(w) ==
  /\ pc[w] = "units"
  /\ Local(w, "links", [tx[w] EXCEPT !.pairs = {p \in tx[w].units \X Orders :
                                                  p[2] \in OrdersIn(p[1])}])

\* Variant: an empty unit does not stop the assignment.
HasLines_Any(w) == TRUE

\* Each unit named has a line.
HasLines(w) == \A u \in tx[w].units : \E o \in Orders : <<u, o>> \in tx[w].pairs

\* The transaction's findMany of the shipment's links.
ReadLinks(w) ==
  /\ pc[w] = "links" /\ HasLines(w)
  /\ Local(w, "assign", [tx[w] EXCEPT !.linked =
       {p \in Units \X Orders : links[tx[w].ship][p] > 0}])

\* 'Handling unit must contain lines before assignment'
RefuseUnits(w) ==
  /\ pc[w] = "links" /\ ~HasLines(w)
  /\ Rollback(w)

\* Variant: existing links are not skipped.
NewLinks_All(w) == tx[w].pairs

NewLinks(w) == tx[w].pairs \ tx[w].linked

\* INSERT of the missing links, UPDATE of the status, COMMIT.
Assign(w) ==
  LET s == tx[w].ship
  IN /\ pc[w] = "assign"
     /\ links' = [links EXCEPT ![s] =
          [p \in Units \X Orders |-> IF p \in NewLinks(w) THEN @[p] + 1 ELSE @[p]]]
     /\ shipStatus' = [shipStatus EXCEPT ![s] =
          IF tx[w].status = "PLANNED" THEN "LOADING" ELSE tx[w].status]
     /\ Goto(w, "idle", NoTx)
     /\ UNCHANGED <<pickedQty, packed, shipped>>

-----------------------------------------------------------------------------
(* dispatchShipment.                                                       *)

\* findFirst of the shipment, outside the transaction ...
ReadDispatch(w, s) ==
  /\ pc[w] = "idle" /\ shipStatus[s] \in {"PLANNED", "LOADING"}
  /\ \A ln \in Lines : shipped[s][ln] < MaxShipped
  /\ Local(w, "hasLinks", [NoTx EXCEPT !.ship = s])

\* Variant: a shipment without units is dispatched too.
CheckLinks_None(w) == pc[w] = "hasLinks" /\ Local(w, "cargo", tx[w])

\* ... and of its links.
CheckLinks(w) ==
  /\ pc[w] = "hasLinks" /\ LinkedUnits(tx[w].ship) # {}
  /\ Local(w, "cargo", tx[w])

\* 'Shipment must have handling units assigned'
RefuseDispatch(w) ==
  /\ pc[w] = "hasLinks" /\ LinkedUnits(tx[w].ship) = {}
  /\ Rollback(w)

\* Variant: the units are not restricted to the shipment's.
ReadCargo_AnyUnit(w) ==
  /\ pc[w] = "cargo"
  /\ Local(w, "contents", [tx[w] EXCEPT !.units = Units])

\* The transaction's findMany of the units, each once, ...
ReadCargo(w) ==
  /\ pc[w] = "cargo"
  /\ Local(w, "contents", [tx[w] EXCEPT !.units = LinkedUnits(tx[w].ship)])

\* ... and of their lines.
ReadContents(w) ==
  /\ pc[w] = "contents"
  /\ Local(w, "dispatch", [tx[w] EXCEPT !.load = ContentsOf(tx[w].units)])

\* INSERT of the movement lines, UPDATE of the status, COMMIT.
Dispatch(w) ==
  LET s == tx[w].ship
  IN /\ pc[w] = "dispatch"
     /\ shipped' = [shipped EXCEPT ![s] = [ln \in Lines |-> @[ln] + tx[w].load[ln]]]
     /\ shipStatus' = [shipStatus EXCEPT ![s] = "DISPATCHED"]
     /\ Goto(w, "idle", NoTx)
     /\ UNCHANGED <<pickedQty, packed, links>>

-----------------------------------------------------------------------------
\* A lost connection, Prisma's transaction timeout or a crash of the process.
Fail(w) == pc[w] # "idle" /\ Rollback(w)

Statement(w) ==
  \/ PackItem(w) \/ RefuseItem(w) \/ CommitItems(w)
  \/ ReadUnits(w) \/ ReadLinks(w) \/ RefuseUnits(w) \/ Assign(w)
  \/ CheckLinks(w) \/ RefuseDispatch(w) \/ ReadCargo(w) \/ ReadContents(w) \/ Dispatch(w)

Next ==
  \/ \E ln \in Lines : ConfirmPick(ln)
  \/ \E s \in Ships : CreateShipment(s)
  \/ \E w \in Workers :
       \/ \E u \in Units, items \in Packs : ReadOrder(w, u, items)
       \/ \E s \in Ships : \/ ReadDispatch(w, s)
                           \/ \E us \in Loads : ReadShipment(w, s, us)
       \/ Statement(w)
       \/ Fail(w)

Spec == Init /\ [][Next]_vars

-----------------------------------------------------------------------------
(* Properties that hold for any number of overlapping requests.            *)

\* A shipment that is being loaded, or has left, has units, although the units
\* and the status are checked on reads of before the transaction.
LoadedHasUnits ==
  \A s \in Ships : shipStatus[s] \in {"LOADING", "DISPATCHED"} => LinkedUnits(s) # {}

\* A link between a shipment and an order goes through a unit that holds a line
\* of that order, so tracing an order to its shipment never ends at a wrong unit.
LinksAreBacked ==
  \A s \in Ships : \A u \in Units : \A o \in Orders :
    links[s][<<u, o>>] > 0 => o \in OrdersIn(u)

\* What a dispatch logged as having left is in a unit that is linked to the
\* shipment.
ShippedIsTraceable ==
  \A s \in Ships : \A ln \in Lines :
    shipped[s][ln] > 0 => \E u \in LinkedUnits(s) : packed[u][ln] > 0

-----------------------------------------------------------------------------
(* What requests that do not overlap keep.                                 *)

\* No more of an order line is packed than was picked, over all the units and
\* over all the items of one request.
PackedWithinPicked == \A ln \in Lines : PackedOf(ln) <= pickedQty[ln]

\* A unit is linked to a shipment at most once for each of its orders.
LinkedOnce == \A s \in Ships : \A p \in Units \X Orders : links[s][p] <= 1

\* A shipment has left exactly when it is DISPATCHED, and what it took is in the
\* units linked to it, counted once.
ShippedIsLoaded ==
  \A s \in Ships :
    /\ shipStatus[s] = "DISPATCHED" <=> \E ln \in Lines : shipped[s][ln] > 0
    /\ \A ln \in Lines : shipped[s][ln] <= ContentsOf(LinkedUnits(s))[ln]

\* A dispatched shipment stays as it left: its status, its units and its
\* movements do not change.
DispatchedStays ==
  \A s \in Ships : shipStatus[s] = "DISPATCHED"
    => /\ shipStatus'[s] = "DISPATCHED"
       /\ links'[s] = links[s]
       /\ shipped'[s] = shipped[s]

\* As long as requests do not overlap, no more is packed than was picked, no unit is
\* linked twice, what has left is what was loaded, counted once, and a dispatched
\* shipment stays as it left.
SerialShipping ==
  /\ [](~overlapped => PackedWithinPicked /\ LinkedOnce /\ ShippedIsLoaded)
  /\ [][~overlapped' => DispatchedStays]_<<shipStatus, links, shipped>>
=============================================================================
