--------------------------- MODULE ShippingProofs ---------------------------
(***************************************************************************)
(* Proofs about Shipping, for any orders, units, shipments and number of   *)
(* overlapping requests.                                                   *)
(*                                                                         *)
(* Links and packed lines are only ever added.  What a request has read of *)
(* them stays true, so checks made before the transaction still hold in it.*)
(***************************************************************************)
EXTENDS Shipping, SumLemmas

Backed(u, o)  == \E ln \in Lines : OrderOf[ln] = o /\ packed[u][ln] > 0
Linked(s, p)  == links[s][p] > 0

\* The shape of the locals t of a request; nothing is said of load.
LocalsOK(t) ==
  /\ DOMAIN t = DOMAIN NoTx
  /\ t.added \in [Lines -> Nat]
  /\ t.items \in Seq(Item) /\ t.k \in Nat /\ t.status \in ShipStatus
  /\ t.units \in SUBSET Units
  /\ t.pairs \in SUBSET (Units \X Orders) /\ t.linked \in SUBSET (Units \X Orders)

\* What a request at statement c with the locals t has read, and still holds.
StepOK(c, t) ==
  /\ c = "pack" => t.unit \in Units /\ t.k >= 1
  /\ c \in {"units", "links", "assign"} => t.ship \in Ships /\ t.units # {}
  /\ \A u \in Units : \A o \in Orders : <<u, o>> \in t.pairs => Backed(u, o)
  /\ c = "assign" => t.pairs # {} /\ \A p \in t.linked : Linked(t.ship, p)
  /\ c \in {"hasLinks", "cargo", "contents", "dispatch"} => t.ship \in Ships
  /\ c \in {"cargo", "contents", "dispatch"} =>
       \E u \in Units, o \in Orders : Linked(t.ship, <<u, o>>)

RowsOK ==
  /\ packed \in [Units -> [Lines -> Nat]]
  /\ shipStatus \in [Ships -> ShipStatus]
  /\ links \in [Ships -> [Units \X Orders -> Nat]]

IInv ==
  /\ RowsOK
  /\ LoadedHasUnits
  /\ LinksAreBacked
  /\ pc \in [Workers -> Control] /\ DOMAIN tx = Workers
  /\ \A w \in Workers : LocalsOK(tx[w]) /\ StepOK(pc[w], tx[w])

-----------------------------------------------------------------------------
USE ShippingAssumption

LEMMA NoTxOK == LocalsOK(NoTx) /\ NoTx.pairs = {}
BY DEF LocalsOK, NoTx, Nothing, ShipStatus

\* The properties in the terms of this module.
LEMMA LinksAreBackedAlt ==
  LinksAreBacked <=>
    \A s \in Ships : \A u \in Units : \A o \in Orders : Linked(s, <<u, o>>) => Backed(u, o)
BY DEF LinksAreBacked, Linked, Backed, OrdersIn

LEMMA LoadedHasUnitsAlt ==
  LoadedHasUnits <=>
    \A s \in Ships : shipStatus[s] \in {"LOADING", "DISPATCHED"} =>
      \E u \in Units, o \in Orders : Linked(s, <<u, o>>)
<1>1. \A s \in Ships : LinkedUnits(s) # {} <=> \E u \in Units, o \in Orders : Linked(s, <<u, o>>)
  BY DEF LinkedUnits, Linked
<1> QED
  BY <1>1 DEF LoadedHasUnits

LEMMA InitIInv == Init => IInv
<1> SUFFICES ASSUME Init PROVE IInv
  OBVIOUS
<1>1. RowsOK
  BY DEF Init, RowsOK, Nothing, ShipStatus
<1>2. LoadedHasUnits /\ LinksAreBacked
  BY DEF Init, LoadedHasUnits, LinksAreBacked
<1>3. pc \in [Workers -> Control] /\ DOMAIN tx = Workers
  BY DEF Init, Control
<1>4. \A w \in Workers : LocalsOK(tx[w]) /\ StepOK(pc[w], tx[w])
  BY NoTxOK DEF Init, StepOK
<1> QED
  BY <1>1, <1>2, <1>3, <1>4 DEF IInv

(***************************************************************************)
(* A step that only adds links and packed lines keeps what every other     *)
(* request has read.                                                       *)
(***************************************************************************)
OnlyAdds ==
  /\ \A s \in Ships : \A p \in Units \X Orders : Linked(s, p) => Linked(s, p)'
  /\ \A u \in Units : \A o \in Orders : Backed(u, o) => Backed(u, o)'

LEMMA StepKept ==
  ASSUME NEW c, NEW t, OnlyAdds, LocalsOK(t), StepOK(c, t)
  PROVE  StepOK(c, t)'
<1>1. t.linked \in SUBSET (Units \X Orders)
  BY DEF LocalsOK
<1>2. \A s \in Ships :
        (\E u \in Units, o \in Orders : Linked(s, <<u, o>>))
          => \E u \in Units, o \in Orders : Linked(s, <<u, o>>)'
  BY DEF OnlyAdds
<1> QED
  BY <1>1, <1>2 DEF OnlyAdds, StepOK

\* The common part of all statements of a request w.
LEMMA GotoStep ==
  ASSUME IInv, NEW w \in Workers, NEW next \in Control, NEW t, Goto(w, next, t),
         LocalsOK(t), StepOK(next, t)',
         RowsOK', OnlyAdds, LoadedHasUnits', LinksAreBacked'
  PROVE  IInv'
<1>1. /\ pc' \in [Workers -> Control] /\ DOMAIN tx' = Workers
      /\ pc'[w] = next /\ tx'[w] = t
      /\ \A v \in Workers \ {w} : pc'[v] = pc[v] /\ tx'[v] = tx[v]
  BY DEF Goto, IInv
<1>2. ASSUME NEW v \in Workers PROVE (LocalsOK(tx[v]) /\ StepOK(pc[v], tx[v]))'
  <2>1. PICK c, x : c = pc'[v] /\ x = tx'[v]
    OBVIOUS
  <2>2. LocalsOK(x) /\ StepOK(c, x)'
    <3>1. CASE v = w
      BY <1>1, <2>1, <3>1
    <3>2. CASE v # w
      <4>1. LocalsOK(tx[v]) /\ StepOK(pc[v], tx[v])
        BY DEF IInv
      <4>2. c = pc[v] /\ x = tx[v]
        BY <1>1, <2>1, <3>2
      <4>3. LocalsOK(x) /\ StepOK(c, x)
        BY <4>1, <4>2
      <4> QED
        BY <4>3, StepKept
    <3> QED
      BY <3>1, <3>2
  <2>3. LocalsOK(x)
    BY <2>2
  <2>4. LocalsOK(tx[v])'
    BY <2>1, <2>3 DEF LocalsOK
  <2>5. StepOK(pc[v], tx[v])'
    BY <2>1, <2>2 DEF StepOK
  <2> QED
    BY <2>4, <2>5
<1>3. RowsOK' /\ LoadedHasUnits' /\ LinksAreBacked'
  OBVIOUS
<1>4. pc' \in [Workers -> Control] /\ DOMAIN tx' = Workers
  BY <1>1
<1> QED
  BY <1>2, <1>3, <1>4 DEF IInv

\* A statement that changes no row.
LEMMA LocalStep ==
  ASSUME IInv, NEW w \in Workers, NEW next \in Control, NEW t, Local(w, next, t),
         LocalsOK(t), StepOK(next, t)
  PROVE  IInv'
<1>1. Goto(w, next, t) /\ UNCHANGED rows
  BY DEF Local
<1>2. RowsOK' /\ LoadedHasUnits' /\ LinksAreBacked'
  <2>1. RowsOK /\ LoadedHasUnits /\ LinksAreBacked
    BY DEF IInv
  <2>2. packed' = packed /\ links' = links /\ shipStatus' = shipStatus
    BY <1>1 DEF rows
  <2>3. RowsOK'
    BY <2>1, <2>2 DEF RowsOK
  <2>4. LoadedHasUnits'
    BY <2>1, <2>2 DEF LoadedHasUnits, LinkedUnits
  <2>5. LinksAreBacked'
    BY <2>1, <2>2 DEF LinksAreBacked, OrdersIn
  <2> QED
    BY <2>3, <2>4, <2>5
<1>3. OnlyAdds
  BY <1>1 DEF OnlyAdds, rows, Linked, Backed
<1>4. StepOK(next, t)'
  BY <1>3, StepKept
<1> QED
  BY <1>1, <1>2, <1>3, <1>4, GotoStep

LEMMA RollbackStep == ASSUME IInv, NEW w \in Workers, Rollback(w) PROVE IInv'
<1>1. LocalsOK(NoTx) /\ StepOK("idle", NoTx)
  BY NoTxOK DEF StepOK
<1> QED
  BY <1>1, LocalStep DEF Rollback, Control

\* Steps of no request that add neither links nor lines.
LEMMA OutsideStep ==
  ASSUME IInv, UNCHANGED <<packed, links, pc, tx>>, RowsOK', LoadedHasUnits'
  PROVE  IInv'
<1>1. packed' = packed /\ links' = links /\ pc' = pc /\ tx' = tx
  OBVIOUS
<1>2. LinksAreBacked'
  BY <1>1 DEF IInv, LinksAreBacked, OrdersIn
<1>3. OnlyAdds
  BY <1>1 DEF OnlyAdds, Linked, Backed
<1>4. ASSUME NEW w \in Workers PROVE (LocalsOK(tx[w]) /\ StepOK(pc[w], tx[w]))'
  <2>1. PICK c, x : c = pc[w] /\ x = tx[w] /\ c = pc'[w] /\ x = tx'[w]
    BY <1>1
  <2>2. LocalsOK(x) /\ StepOK(c, x)
    BY <2>1 DEF IInv
  <2>3. StepOK(c, x)'
    BY <1>3, <2>2, StepKept
  <2>4. LocalsOK(tx[w])'
    BY <2>1, <2>2 DEF LocalsOK
  <2>5. StepOK(pc[w], tx[w])'
    BY <2>1, <2>3 DEF StepOK
  <2> QED
    BY <2>4, <2>5
<1>5. pc' \in [Workers -> Control] /\ DOMAIN tx' = Workers
  BY <1>1 DEF IInv
<1>6. RowsOK' /\ LoadedHasUnits'
  OBVIOUS
<1> QED
  BY <1>2, <1>4, <1>5, <1>6 DEF IInv

LEMMA ConfirmPickStep == ASSUME IInv, NEW ln \in Lines, ConfirmPick(ln) PROVE IInv'
<1>1. /\ packed' = packed /\ shipStatus' = shipStatus /\ links' = links
      /\ pc' = pc /\ tx' = tx
  BY DEF ConfirmPick
<1>2. RowsOK /\ LoadedHasUnits
  BY DEF IInv
<1>3. RowsOK'
  BY <1>1, <1>2 DEF RowsOK
<1>4. LoadedHasUnits'
  <2>1. \A s \in Ships : LinkedUnits(s)' = LinkedUnits(s)
    BY <1>1 DEF LinkedUnits
  <2> QED
    BY <1>1, <1>2, <2>1 DEF LoadedHasUnits
<1> QED
  BY <1>1, <1>3, <1>4, OutsideStep

LEMMA CreateShipmentStep == ASSUME IInv, NEW s \in Ships, CreateShipment(s) PROVE IInv'
<1>1. /\ UNCHANGED <<packed, links, pc, tx>>
      /\ shipStatus' = [shipStatus EXCEPT ![s] = "PLANNED"]
  BY DEF CreateShipment
<1>2. RowsOK /\ LoadedHasUnits
  BY DEF IInv
<1>3. RowsOK'
  BY <1>1, <1>2 DEF RowsOK, ShipStatus
<1>4. LoadedHasUnits'
  BY <1>1, <1>2 DEF RowsOK, LoadedHasUnits, LinkedUnits
<1> QED
  BY <1>1, <1>3, <1>4, OutsideStep

-----------------------------------------------------------------------------
(* addItemsToHandlingUnit.                                                 *)

LEMMA ReadOrderStep ==
  ASSUME IInv, NEW w \in Workers, NEW u \in Units, NEW items \in Packs, ReadOrder(w, u, items)
  PROVE  IInv'
<1> DEFINE t == [NoTx EXCEPT !.unit = u, !.items = items, !.k = 1, !.limit = pickedQty]
<1>1. Local(w, "pack", t)
  BY DEF ReadOrder
<1>2. /\ DOMAIN t = DOMAIN NoTx /\ t.unit = u /\ t.items = items /\ t.k = 1
      /\ t.added = NoTx.added /\ t.units = NoTx.units /\ t.pairs = NoTx.pairs
      /\ t.linked = NoTx.linked /\ t.status = NoTx.status
  BY DEF NoTx
<1> HIDE DEF t
<1>3. LocalsOK(t)
  <2>1. items \in Seq(Item)
    OBVIOUS
  <2> QED
    BY <1>2, <2>1, NoTxOK DEF LocalsOK
<1>4. StepOK("pack", t)
  BY <1>2, NoTxOK DEF StepOK
<1> QED
  BY <1>1, <1>3, <1>4, LocalStep DEF Control

LEMMA PackItemStep == ASSUME IInv, NEW w \in Workers, PackItem(w) PROVE IInv'
<1>1. LocalsOK(tx[w]) /\ StepOK("pack", tx[w]) /\ pc[w] = "pack"
  BY DEF IInv, PackItem
<1>2. /\ tx[w].k \in 1..Len(tx[w].items) /\ tx[w].items \in Seq(Item)
      /\ Current(w) = tx[w].items[tx[w].k]
  <2>1. tx[w].k \in Nat /\ tx[w].items \in Seq(Item)
    BY <1>1 DEF LocalsOK
  <2>2. tx[w].k >= 1
    BY <1>1 DEF StepOK
  <2>3. tx[w].k <= Len(tx[w].items)
    BY DEF PackItem
  <2> QED
    BY <2>1, <2>2, <2>3 DEF Current
<1>3. Current(w) \in Item
  BY <1>2
<1>4. PICK ln \in Lines, q \in Nat : ln = Current(w).line /\ q = Current(w).qty
  BY <1>3 DEF Item
<1> DEFINE a == [tx[w].added EXCEPT ![ln] = @ + q]
           t == [tx[w] EXCEPT !.added = a, !.k = @ + 1]
<1>5. Local(w, "pack", [tx[w] EXCEPT !.added[Current(w).line] = @ + Current(w).qty, !.k = @ + 1])
  BY DEF PackItem
<1>6. Local(w, "pack", t)
  BY <1>4, <1>5
<1>7. a \in [Lines -> Nat]
  <2>1. tx[w].added \in [Lines -> Nat]
    BY <1>1 DEF LocalsOK
  <2> QED
    BY <2>1
<1> HIDE DEF a
<1>8. /\ DOMAIN t = DOMAIN NoTx /\ t.unit = tx[w].unit /\ t.items = tx[w].items
      /\ t.k = tx[w].k + 1 /\ t.added = a /\ t.units = tx[w].units
      /\ t.pairs = tx[w].pairs /\ t.linked = tx[w].linked /\ t.status = tx[w].status
  BY <1>1 DEF LocalsOK, NoTx
<1> HIDE DEF t
<1>9. LocalsOK(t)
  <2>1. t.k \in Nat
    BY <1>1, <1>8 DEF LocalsOK
  <2> QED
    BY <1>1, <1>7, <1>8, <2>1 DEF LocalsOK
<1>10. StepOK("pack", t)
  <2>1. t.k >= 1
    BY <1>1, <1>8 DEF LocalsOK, StepOK
  <2> QED
    BY <1>1, <1>8, <2>1 DEF StepOK
<1> QED
  BY <1>6, <1>9, <1>10, LocalStep DEF Control

LEMMA CommitItemsStep == ASSUME IInv, NEW w \in Workers, CommitItems(w) PROVE IInv'
<1>1. /\ RowsOK /\ LoadedHasUnits /\ LinksAreBacked
      /\ LocalsOK(tx[w]) /\ StepOK("pack", tx[w])
  BY DEF IInv, CommitItems
<1>2. PICK u \in Units, a \in [Lines -> Nat] : u = tx[w].unit /\ a = tx[w].added
  BY <1>1 DEF LocalsOK, StepOK
<1>3. /\ packed' = [packed EXCEPT ![u] = [ln \in Lines |-> @[ln] + a[ln]]]
      /\ shipStatus' = shipStatus /\ links' = links /\ Goto(w, "idle", NoTx)
  BY <1>2 DEF CommitItems
<1>4. packed \in [Units -> [Lines -> Nat]]
  BY <1>1 DEF RowsOK
<1>5. \A v \in Units : \A ln \in Lines :
        packed'[v][ln] = packed[v][ln] + (IF v = u THEN a[ln] ELSE 0)
  <2> SUFFICES ASSUME NEW v \in Units, NEW ln \in Lines
      PROVE  packed'[v][ln] = packed[v][ln] + (IF v = u THEN a[ln] ELSE 0)
    OBVIOUS
  <2>1. CASE v = u
    BY <1>3, <1>4, <2>1
  <2>2. CASE v # u
    <3>1. packed'[v][ln] = packed[v][ln] /\ packed[v][ln] \in Nat
      BY <1>3, <1>4, <2>2
    <3> QED
      BY <2>2, <3>1
  <2> QED
    BY <2>1, <2>2
<1>6. packed' \in [Units -> [Lines -> Nat]]
  <2>1. [ln \in Lines |-> packed[u][ln] + a[ln]] \in [Lines -> Nat]
    BY <1>4
  <2> QED
    BY <1>3, <1>4, <2>1
<1>7. \A v \in Units : \A ln \in Lines : packed[v][ln] > 0 => packed'[v][ln] > 0
  <2> SUFFICES ASSUME NEW v \in Units, NEW ln \in Lines, packed[v][ln] > 0
      PROVE  packed'[v][ln] > 0
    OBVIOUS
  <2>1. PICK m \in Nat, d \in Nat : m = packed[v][ln] /\ d = IF v = u THEN a[ln] ELSE 0
    BY <1>4
  <2>2. packed'[v][ln] = m + d /\ m > 0
    BY <1>5, <2>1
  <2> QED
    BY <2>2
<1>8. OnlyAdds
  BY <1>3, <1>7 DEF OnlyAdds, Linked, Backed
<1>9. RowsOK'
  BY <1>1, <1>3, <1>6 DEF RowsOK
<1>10. LoadedHasUnits'
  BY <1>1, <1>3 DEF LoadedHasUnits, LinkedUnits
<1>11. LinksAreBacked'
  <2>1. \A s \in Ships : \A v \in Units : \A o \in Orders :
          Linked(s, <<v, o>>) => Backed(v, o)
    BY <1>1, LinksAreBackedAlt
  <2>2. \A s \in Ships : \A v \in Units : \A o \in Orders :
          Linked(s, <<v, o>>)' => Backed(v, o)'
    BY <1>3, <1>8, <2>1 DEF Linked, OnlyAdds
  <2> QED
    BY <2>2 DEF LinksAreBacked, Linked, Backed, OrdersIn
<1>12. LocalsOK(NoTx) /\ StepOK("idle", NoTx)'
  BY NoTxOK DEF StepOK
<1> QED
  BY <1>3, <1>8, <1>9, <1>10, <1>11, <1>12, GotoStep DEF Control

-----------------------------------------------------------------------------
(* assignHandlingUnitsToShipment.                                          *)

LEMMA ReadShipmentStep ==
  ASSUME IInv, NEW w \in Workers, NEW s \in Ships, NEW us \in Loads, ReadShipment(w, s, us)
  PROVE  IInv'
<1> DEFINE t == [NoTx EXCEPT !.ship = s, !.units = us, !.status = shipStatus[s]]
<1>1. Local(w, "units", t)
  BY DEF ReadShipment
<1>2. /\ DOMAIN t = DOMAIN NoTx /\ t.ship = s /\ t.units = us /\ t.items = NoTx.items
      /\ t.k = NoTx.k /\ t.added = NoTx.added /\ t.pairs = NoTx.pairs
      /\ t.linked = NoTx.linked /\ t.status = shipStatus[s]
  BY DEF NoTx
<1> HIDE DEF t
<1>3. us \in SUBSET Units /\ us # {} /\ shipStatus[s] \in ShipStatus
  BY DEF IInv, RowsOK
<1>4. LocalsOK(t)
  BY <1>2, <1>3, NoTxOK DEF LocalsOK
<1>5. StepOK("units", t)
  BY <1>2, <1>3, NoTxOK DEF StepOK
<1> QED
  BY <1>1, <1>4, <1>5, LocalStep DEF Control

LEMMA ReadUnitsStep == ASSUME IInv, NEW w \in Workers, ReadUnits(w) PROVE IInv'
<1> DEFINE ps == {p \in tx[w].units \X Orders : p[2] \in OrdersIn(p[1])}
           t  == [tx[w] EXCEPT !.pairs = ps]
<1>1. LocalsOK(tx[w]) /\ StepOK("units", tx[w])
  BY DEF IInv, ReadUnits
<1>2. Local(w, "links", t)
  BY DEF ReadUnits
<1>3. ps \in SUBSET (Units \X Orders)
  BY <1>1 DEF LocalsOK
<1>4. \A u \in Units : \A o \in Orders : <<u, o>> \in ps => Backed(u, o)
  BY DEF OrdersIn, Backed
<1> HIDE DEF ps
<1>5. /\ DOMAIN t = DOMAIN NoTx /\ t.unit = tx[w].unit /\ t.items = tx[w].items
      /\ t.k = tx[w].k /\ t.added = tx[w].added /\ t.units = tx[w].units
      /\ t.pairs = ps /\ t.linked = tx[w].linked /\ t.ship = tx[w].ship
      /\ t.status = tx[w].status
  BY <1>1 DEF LocalsOK, NoTx
<1> HIDE DEF t
<1>6. LocalsOK(t)
  BY <1>1, <1>3, <1>5 DEF LocalsOK
<1>7. StepOK("links", t)
  BY <1>1, <1>4, <1>5 DEF StepOK
<1> QED
  BY <1>2, <1>6, <1>7, LocalStep DEF Control

LEMMA ReadLinksStep == ASSUME IInv, NEW w \in Workers, ReadLinks(w) PROVE IInv'
<1> DEFINE ls == {p \in Units \X Orders : links[tx[w].ship][p] > 0}
           t  == [tx[w] EXCEPT !.linked = ls]
<1>1. LocalsOK(tx[w]) /\ StepOK("links", tx[w])
  BY DEF IInv, ReadLinks
<1>2. Local(w, "assign", t) /\ HasLines(w)
  BY DEF ReadLinks
<1>3. tx[w].pairs # {}
  BY <1>1, <1>2 DEF StepOK, HasLines
<1>4. ls \in SUBSET (Units \X Orders) /\ \A p \in ls : Linked(tx[w].ship, p)
  BY DEF Linked
<1> HIDE DEF ls
<1>5. /\ DOMAIN t = DOMAIN NoTx /\ t.unit = tx[w].unit /\ t.items = tx[w].items
      /\ t.k = tx[w].k /\ t.added = tx[w].added /\ t.units = tx[w].units
      /\ t.pairs = tx[w].pairs /\ t.linked = ls /\ t.ship = tx[w].ship
      /\ t.status = tx[w].status
  BY <1>1 DEF LocalsOK, NoTx
<1> HIDE DEF t
<1>6. LocalsOK(t)
  BY <1>1, <1>4, <1>5 DEF LocalsOK
<1>7. StepOK("assign", t)
  BY <1>1, <1>3, <1>4, <1>5 DEF StepOK
<1> QED
  BY <1>2, <1>6, <1>7, LocalStep DEF Control

LEMMA AssignStep == ASSUME IInv, NEW w \in Workers, Assign(w) PROVE IInv'
<1>1. /\ RowsOK /\ LoadedHasUnits /\ LinksAreBacked
      /\ LocalsOK(tx[w]) /\ StepOK("assign", tx[w])
  BY DEF IInv, Assign
<1>2. PICK s \in Ships : s = tx[w].ship
  BY <1>1 DEF StepOK
<1> DEFINE new == NewLinks(w)
           st  == IF tx[w].status = "PLANNED" THEN "LOADING" ELSE tx[w].status
<1>3. /\ links' = [links EXCEPT ![s] =
                     [p \in Units \X Orders |-> IF p \in new THEN @[p] + 1 ELSE @[p]]]
      /\ shipStatus' = [shipStatus EXCEPT ![s] = st]
      /\ packed' = packed /\ Goto(w, "idle", NoTx)
  BY <1>2 DEF Assign
<1>4. new \in SUBSET (Units \X Orders) /\ new = tx[w].pairs \ tx[w].linked
  BY <1>1 DEF LocalsOK, NewLinks
<1> HIDE DEF new, st
<1>5. links \in [Ships -> [Units \X Orders -> Nat]] /\ shipStatus \in [Ships -> ShipStatus]
  BY <1>1 DEF RowsOK
<1>6. \A p \in Units \X Orders :
        links'[s][p] = links[s][p] + (IF p \in new THEN 1 ELSE 0)
  BY <1>3, <1>5
<1>7. \A r \in Ships \ {s} : links'[r] = links[r] /\ shipStatus'[r] = shipStatus[r]
  BY <1>3, <1>5
<1>8. links' \in [Ships -> [Units \X Orders -> Nat]]
  <2>1. [p \in Units \X Orders |-> IF p \in new THEN links[s][p] + 1 ELSE links[s][p]]
          \in [Units \X Orders -> Nat]
    BY <1>5
  <2> QED
    BY <1>3, <1>5, <2>1
<1>9. ASSUME NEW r \in Ships, NEW p \in Units \X Orders
      PROVE  Linked(r, p)' <=> Linked(r, p) \/ (r = s /\ p \in new)
  <2>1. CASE r = s
    <3>1. PICK n \in Nat : n = links[s][p]
      BY <1>5
    <3>2. n + 1 > 0 /\ n + 0 = n
      OBVIOUS
    <3>3. links'[s][p] = IF p \in new THEN n + 1 ELSE n
      BY <1>6, <3>1, <3>2
    <3> QED
      BY <2>1, <3>1, <3>2, <3>3 DEF Linked
  <2>2. CASE r # s
    BY <1>7, <2>2 DEF Linked
  <2> QED
    BY <2>1, <2>2
<1>10. OnlyAdds
  BY <1>3, <1>9 DEF OnlyAdds, Backed
<1>11. LinksAreBacked'
  <2>1. \A r \in Ships : \A u \in Units : \A o \in Orders :
          Linked(r, <<u, o>>) => Backed(u, o)
    BY <1>1, LinksAreBackedAlt
  <2>2. \A u \in Units : \A o \in Orders : <<u, o>> \in new => Backed(u, o)
    BY <1>1, <1>4 DEF StepOK
  <2>3. \A r \in Ships : \A u \in Units : \A o \in Orders :
          Linked(r, <<u, o>>)' => Backed(u, o)'
    BY <1>9, <1>10, <2>1, <2>2 DEF OnlyAdds
  <2> QED
    BY <2>3 DEF LinksAreBacked, Linked, Backed, OrdersIn
\* A pair read from the units is linked now, whether it was before or not.
<1>12. \E u \in Units, o \in Orders : Linked(s, <<u, o>>)'
  <2>1. PICK p \in tx[w].pairs : TRUE
    BY <1>1 DEF StepOK
  <2>2. PICK u \in Units, o \in Orders : p = <<u, o>>
    BY <1>1 DEF LocalsOK
  <2>3. p \in new \/ p \in tx[w].linked
    BY <1>4
  <2>4. Linked(s, <<u, o>>) \/ <<u, o>> \in new
    BY <1>1, <1>2, <2>2, <2>3 DEF StepOK
  <2> QED
    BY <1>9, <2>4
<1>13. LoadedHasUnits'
  <2>1. ASSUME NEW r \in Ships, shipStatus'[r] \in {"LOADING", "DISPATCHED"}
        PROVE  \E u \in Units, o \in Orders : Linked(r, <<u, o>>)'
    <3>1. CASE r = s
      BY <1>12, <3>1
    <3>2. CASE r # s
      <4>1. shipStatus[r] \in {"LOADING", "DISPATCHED"}
        BY <1>7, <2>1, <3>2
      <4>2. PICK u \in Units, o \in Orders : Linked(r, <<u, o>>)
        BY <1>1, <4>1, LoadedHasUnitsAlt
      <4> QED
        BY <1>9, <4>2
    <3> QED
      BY <3>1, <3>2
  <2> QED
    BY <2>1 DEF LoadedHasUnits, LinkedUnits, Linked
<1>14. RowsOK'
  <2>1. shipStatus' \in [Ships -> ShipStatus]
    <3>1. st \in ShipStatus
      BY <1>1 DEF LocalsOK, st, ShipStatus
    <3> QED
      BY <1>3, <1>5, <3>1
  <2> QED
    BY <1>1, <1>3, <1>8, <2>1 DEF RowsOK
<1>15. LocalsOK(NoTx) /\ StepOK("idle", NoTx)'
  BY NoTxOK DEF StepOK
<1> QED
  BY <1>3, <1>10, <1>11, <1>13, <1>14, <1>15, GotoStep DEF Control

-----------------------------------------------------------------------------
(* dispatchShipment.                                                       *)

LEMMA ReadDispatchStep ==
  ASSUME IInv, NEW w \in Workers, NEW s \in Ships, ReadDispatch(w, s) PROVE IInv'
<1> DEFINE t == [NoTx EXCEPT !.ship = s]
<1>1. Local(w, "hasLinks", t)
  BY DEF ReadDispatch
<1>2. /\ DOMAIN t = DOMAIN NoTx /\ t.ship = s /\ t.units = NoTx.units /\ t.items = NoTx.items
      /\ t.k = NoTx.k /\ t.added = NoTx.added /\ t.pairs = NoTx.pairs
      /\ t.linked = NoTx.linked /\ t.status = NoTx.status
  BY DEF NoTx
<1> HIDE DEF t
<1>3. LocalsOK(t)
  BY <1>2, NoTxOK DEF LocalsOK
<1>4. StepOK("hasLinks", t)
  BY <1>2, NoTxOK DEF StepOK
<1> QED
  BY <1>1, <1>3, <1>4, LocalStep DEF Control

LEMMA CheckLinksStep == ASSUME IInv, NEW w \in Workers, CheckLinks(w) PROVE IInv'
<1>1. LocalsOK(tx[w]) /\ StepOK("hasLinks", tx[w])
  BY DEF IInv, CheckLinks
<1>2. Local(w, "cargo", tx[w]) /\ LinkedUnits(tx[w].ship) # {}
  BY DEF CheckLinks
<1>3. \E u \in Units, o \in Orders : Linked(tx[w].ship, <<u, o>>)
  BY <1>2 DEF LinkedUnits, Linked
<1>4. StepOK("cargo", tx[w])
  BY <1>1, <1>3 DEF StepOK
<1> QED
  BY <1>1, <1>2, <1>4, LocalStep DEF Control

LEMMA ReadCargoStep == ASSUME IInv, NEW w \in Workers, ReadCargo(w) PROVE IInv'
<1> DEFINE us == LinkedUnits(tx[w].ship)
           t  == [tx[w] EXCEPT !.units = us]
<1>1. LocalsOK(tx[w]) /\ StepOK("cargo", tx[w])
  BY DEF IInv, ReadCargo
<1>2. Local(w, "contents", t)
  BY DEF ReadCargo
<1>3. us \in SUBSET Units
  BY DEF LinkedUnits
<1> HIDE DEF us
<1>4. /\ DOMAIN t = DOMAIN NoTx /\ t.items = tx[w].items
      /\ t.k = tx[w].k /\ t.added = tx[w].added /\ t.units = us
      /\ t.pairs = tx[w].pairs /\ t.linked = tx[w].linked /\ t.ship = tx[w].ship
      /\ t.status = tx[w].status
  BY <1>1 DEF LocalsOK, NoTx
<1> HIDE DEF t
<1>5. LocalsOK(t)
  BY <1>1, <1>3, <1>4 DEF LocalsOK
<1>6. StepOK("contents", t)
  BY <1>1, <1>4 DEF StepOK
<1> QED
  BY <1>2, <1>5, <1>6, LocalStep DEF Control

LEMMA ReadContentsStep == ASSUME IInv, NEW w \in Workers, ReadContents(w) PROVE IInv'
<1> DEFINE c == ContentsOf(tx[w].units)
           t == [tx[w] EXCEPT !.load = c]
<1>1. LocalsOK(tx[w]) /\ StepOK("contents", tx[w])
  BY DEF IInv, ReadContents
<1>2. Local(w, "dispatch", t)
  BY DEF ReadContents
<1> HIDE DEF c
<1>3. /\ DOMAIN t = DOMAIN NoTx /\ t.items = tx[w].items
      /\ t.k = tx[w].k /\ t.added = tx[w].added /\ t.units = tx[w].units
      /\ t.pairs = tx[w].pairs /\ t.linked = tx[w].linked /\ t.ship = tx[w].ship
      /\ t.status = tx[w].status
  BY <1>1 DEF LocalsOK, NoTx
<1> HIDE DEF t
<1>4. LocalsOK(t)
  BY <1>1, <1>3 DEF LocalsOK
<1>5. StepOK("dispatch", t)
  BY <1>1, <1>3 DEF StepOK
<1> QED
  BY <1>2, <1>4, <1>5, LocalStep DEF Control

LEMMA DispatchStep == ASSUME IInv, NEW w \in Workers, Dispatch(w) PROVE IInv'
<1>1. /\ RowsOK /\ LoadedHasUnits /\ LinksAreBacked
      /\ LocalsOK(tx[w]) /\ StepOK("dispatch", tx[w])
  BY DEF IInv, Dispatch
<1>2. PICK s \in Ships : s = tx[w].ship
  BY <1>1 DEF StepOK
<1>3. /\ packed' = packed /\ links' = links /\ Goto(w, "idle", NoTx)
      /\ shipStatus' = [shipStatus EXCEPT ![s] = "DISPATCHED"]
  BY <1>2 DEF Dispatch
<1>4. OnlyAdds
  BY <1>3 DEF OnlyAdds, Linked, Backed
<1>5. RowsOK'
  BY <1>1, <1>3 DEF RowsOK, ShipStatus
<1>6. LinksAreBacked'
  BY <1>1, <1>3 DEF LinksAreBacked, OrdersIn
<1>7. LoadedHasUnits'
  <2>1. ASSUME NEW r \in Ships, shipStatus'[r] \in {"LOADING", "DISPATCHED"}
        PROVE  \E u \in Units, o \in Orders : Linked(r, <<u, o>>)
    <3>1. CASE r = s
      BY <1>1, <1>2, <3>1 DEF StepOK
    <3>2. CASE r # s
      <4>1. shipStatus[r] \in {"LOADING", "DISPATCHED"}
        BY <1>1, <1>3, <2>1, <3>2 DEF RowsOK
      <4> QED
        BY <1>1, <4>1, LoadedHasUnitsAlt
    <3> QED
      BY <3>1, <3>2
  <2> QED
    BY <1>3, <2>1 DEF LoadedHasUnits, LinkedUnits, Linked
<1>8. LocalsOK(NoTx) /\ StepOK("idle", NoTx)'
  BY NoTxOK DEF StepOK
<1> QED
  BY <1>3, <1>4, <1>5, <1>6, <1>7, <1>8, GotoStep DEF Control

-----------------------------------------------------------------------------
LEMMA NextIInv == IInv /\ [Next]_vars => IInv'
<1> SUFFICES ASSUME IInv, [Next]_vars PROVE IInv'
  OBVIOUS
<1>1. CASE UNCHANGED vars
  <2>1. UNCHANGED <<packed, shipStatus, links, pc, tx>>
    BY <1>1 DEF vars, rows
  <2>2. RowsOK'
    BY <2>1 DEF IInv, RowsOK
  <2>3. LoadedHasUnits'
    BY <2>1 DEF IInv, LoadedHasUnits, LinkedUnits
  <2> QED
    BY <2>1, <2>2, <2>3, OutsideStep
<1>2. CASE \E ln \in Lines : ConfirmPick(ln)
  BY <1>2, ConfirmPickStep
<1>3. CASE \E s \in Ships : CreateShipment(s)
  BY <1>3, CreateShipmentStep
<1>4. ASSUME NEW w \in Workers, NEW u \in Units, NEW items \in Packs, ReadOrder(w, u, items)
      PROVE  IInv'
  BY <1>4, ReadOrderStep
<1>5. ASSUME NEW w \in Workers, NEW s \in Ships, ReadDispatch(w, s) PROVE IInv'
  BY <1>5, ReadDispatchStep
<1>6. ASSUME NEW w \in Workers, NEW s \in Ships, NEW us \in Loads, ReadShipment(w, s, us)
      PROVE  IInv'
  BY <1>6, ReadShipmentStep
<1>7. ASSUME NEW w \in Workers, PackItem(w) \/ CommitItems(w) PROVE IInv'
  BY <1>7, PackItemStep, CommitItemsStep
<1>8. ASSUME NEW w \in Workers, ReadUnits(w) \/ ReadLinks(w) \/ Assign(w) PROVE IInv'
  BY <1>8, ReadUnitsStep, ReadLinksStep, AssignStep
<1>9. ASSUME NEW w \in Workers, CheckLinks(w) \/ ReadCargo(w) \/ ReadContents(w) \/ Dispatch(w)
      PROVE  IInv'
  BY <1>9, CheckLinksStep, ReadCargoStep, ReadContentsStep, DispatchStep
<1>10. ASSUME NEW w \in Workers,
              RefuseItem(w) \/ RefuseUnits(w) \/ RefuseDispatch(w) \/ Fail(w)
       PROVE  IInv'
  BY <1>10, RollbackStep DEF RefuseItem, RefuseUnits, RefuseDispatch, Fail
<1> QED
  BY <1>1, <1>2, <1>3, <1>4, <1>5, <1>6, <1>7, <1>8, <1>9, <1>10 DEF Next, Statement

\* However packing, assignments and dispatches overlap and fail, what a request has
\* read of links and packed lines stays true until it commits.
THEOREM Invariance == Spec => []IInv
BY InitIInv, NextIInv, PTL DEF Spec

\* A shipment that is being loaded or has left has units, although the checks of the
\* units and of the links are made on reads of before the transaction.
THEOREM LoadedShipmentsHaveUnits == Spec => []LoadedHasUnits
<1>1. IInv => LoadedHasUnits
  BY DEF IInv
<1> QED
  BY <1>1, Invariance, PTL

\* Every link of a shipment to an order goes through a unit that holds a line of
\* that order.
THEOREM LinksLeadToLines == Spec => []LinksAreBacked
<1>1. IInv => LinksAreBacked
  BY DEF IInv
<1> QED
  BY <1>1, Invariance, PTL

-----------------------------------------------------------------------------
(***************************************************************************)
(* Types: the locals of every request, the sums it reads included.         *)
(***************************************************************************)
LEMMA NoTxType == NoTx \in Tx
BY DEF NoTx, Nothing, Tx, ShipStatus

LEMMA InitType == Init => TypeOK
<1> SUFFICES ASSUME Init PROVE TypeOK
  OBVIOUS
<1>1. overlapped \in BOOLEAN
  BY DEF Init
<1> QED
  BY <1>1, NoTxType DEF Init, TypeOK, Nothing, ShipStatus, Control

\* The rows of TypeOK.
RowTypes ==
  /\ pickedQty \in [Lines -> Nat]
  /\ packed \in [Units -> [Lines -> Nat]]
  /\ shipStatus \in [Ships -> ShipStatus]
  /\ links \in [Ships -> [Units \X Orders -> Nat]]
  /\ shipped \in [Ships -> [Lines -> Nat]]

LEMMA TypeGoto ==
  ASSUME TypeOK, RowTypes', NEW w \in Workers, NEW next \in Control, NEW t \in Tx, Goto(w, next, t)
  PROVE  TypeOK'
<1>1. pc' \in [Workers -> Control] /\ tx' \in [Workers -> Tx]
  BY DEF TypeOK, Goto
<1>2. overlapped' \in BOOLEAN
  BY DEF TypeOK, Goto
<1> QED
  BY <1>1, <1>2 DEF TypeOK, RowTypes

LEMMA TypeLocal ==
  ASSUME TypeOK, NEW w \in Workers, NEW next \in Control, NEW t \in Tx, Local(w, next, t)
  PROVE  TypeOK'
<1>1. RowTypes'
  BY DEF TypeOK, RowTypes, Local, rows
<1> QED
  BY <1>1, TypeGoto DEF Local

LEMMA TypeRollback == ASSUME TypeOK, NEW w \in Workers, Rollback(w) PROVE TypeOK'
BY NoTxType, TypeLocal DEF Rollback, Control

LEMMA PackItemType == ASSUME IInv, TypeOK, NEW w \in Workers, PackItem(w) PROVE TypeOK'
<1>1. tx[w] \in Tx /\ tx[w].k >= 1 /\ tx[w].k <= Len(tx[w].items)
  BY DEF TypeOK, IInv, StepOK, PackItem
<1>2. Current(w) \in Item
  BY <1>1 DEF Current, Tx
<1>3. PICK ln \in Lines, q \in Nat : ln = Current(w).line /\ q = Current(w).qty
  BY <1>2 DEF Item
<1>4. tx[w].added \in [Lines -> Nat] /\ tx[w].k + 1 \in Nat
  BY <1>1 DEF Tx
<1> DEFINE a == [tx[w].added EXCEPT ![ln] = @ + q]
<1>7. a \in [Lines -> Nat]
  BY <1>4
<1>5. Local(w, "pack", [tx[w] EXCEPT !.added = a, !.k = @ + 1])
  BY <1>3 DEF PackItem
<1> HIDE DEF a
<1>6. [tx[w] EXCEPT !.added = a, !.k = @ + 1] \in Tx
  BY <1>1, <1>4, <1>7 DEF Tx
<1> QED
  BY <1>5, <1>6, TypeLocal DEF Control

LEMMA CommitItemsType == ASSUME IInv, TypeOK, NEW w \in Workers, CommitItems(w) PROVE TypeOK'
<1>1. tx[w].unit \in Units /\ tx[w].added \in [Lines -> Nat]
  BY DEF TypeOK, IInv, StepOK, Tx, CommitItems
<1>2. packed' \in [Units -> [Lines -> Nat]]
  BY <1>1 DEF TypeOK, CommitItems
<1>3. RowTypes'
  BY <1>2 DEF TypeOK, RowTypes, CommitItems
<1> QED
  BY <1>3, NoTxType, TypeGoto DEF CommitItems, Control

LEMMA AssignType == ASSUME IInv, TypeOK, NEW w \in Workers, Assign(w) PROVE TypeOK'
<1>1. tx[w].ship \in Ships /\ tx[w].status \in ShipStatus
  BY DEF TypeOK, IInv, StepOK, Tx, Assign
<1>2. links' \in [Ships -> [Units \X Orders -> Nat]]
  <2>1. PICK s \in Ships : s = tx[w].ship
    BY <1>1
  <2> DEFINE new == [p \in Units \X Orders |->
                       IF p \in NewLinks(w) THEN links[s][p] + 1 ELSE links[s][p]]
  <2>2. links \in [Ships -> [Units \X Orders -> Nat]]
    BY DEF TypeOK
  <2>3. new \in [Units \X Orders -> Nat]
    BY <2>2
  <2>4. links' = [links EXCEPT ![s] = new]
    BY <2>1 DEF Assign
  <2> QED
    BY <2>2, <2>3, <2>4
<1>3. shipStatus' \in [Ships -> ShipStatus]
  BY <1>1 DEF TypeOK, Assign, ShipStatus
<1>4. RowTypes'
  BY <1>2, <1>3 DEF TypeOK, RowTypes, Assign
<1> QED
  BY <1>4, NoTxType, TypeGoto DEF Assign, Control

\* What a request finds in the units is a sum of quantities.
LEMMA ContentsType ==
  ASSUME TypeOK, NEW us, us \subseteq Units
  PROVE  /\ ContentsOf(us) \in [Lines -> Nat]
         /\ \A ln \in Lines : ContentsOf(us)[ln] > 0 => \E u \in us : packed[u][ln] > 0
<1> SUFFICES ASSUME NEW ln \in Lines
             PROVE  /\ SumFunctionOnSet(OfLine(ln), us) \in Nat
                    /\ SumFunctionOnSet(OfLine(ln), us) > 0 => \E u \in us : packed[u][ln] > 0
  BY DEF ContentsOf
<1>1. IsFiniteSet(us) /\ \A u \in us : OfLine(ln)[u] \in Nat /\ OfLine(ln)[u] = packed[u][ln]
  BY FS_Subset DEF TypeOK, OfLine
<1> QED
  BY <1>1, SumNat, SumPositive

LEMMA ReadContentsType == ASSUME IInv, TypeOK, NEW w \in Workers, ReadContents(w) PROVE TypeOK'
<1>1. tx[w] \in Tx /\ tx[w].units \subseteq Units
  BY DEF TypeOK, Tx
<1>2. PICK c \in [Lines -> Nat] : c = ContentsOf(tx[w].units)
  BY <1>1, ContentsType
<1>3. [tx[w] EXCEPT !.load = c] \in Tx
  BY <1>1 DEF Tx
<1> QED
  BY <1>2, <1>3, TypeLocal DEF ReadContents, Control

LEMMA DispatchType == ASSUME IInv, TypeOK, NEW w \in Workers, Dispatch(w) PROVE TypeOK'
<1>1. tx[w].ship \in Ships /\ tx[w].load \in [Lines -> Nat]
  BY DEF TypeOK, IInv, StepOK, Tx, Dispatch
<1>2. shipped' \in [Ships -> [Lines -> Nat]]
  BY <1>1 DEF TypeOK, Dispatch
<1>3. shipStatus' \in [Ships -> ShipStatus]
  BY <1>1 DEF TypeOK, Dispatch, ShipStatus
<1>4. RowTypes'
  BY <1>2, <1>3 DEF TypeOK, RowTypes, Dispatch
<1> QED
  BY <1>4, NoTxType, TypeGoto DEF Dispatch, Control

\* The reads that only fill locals.
LEMMA ReadsType ==
  ASSUME TypeOK, NEW w \in Workers,
         \/ \E u \in Units, items \in Packs : ReadOrder(w, u, items)
         \/ \E s \in Ships : ReadDispatch(w, s) \/ \E us \in Loads : ReadShipment(w, s, us)
         \/ ReadUnits(w) \/ ReadLinks(w) \/ CheckLinks(w) \/ ReadCargo(w)
  PROVE  TypeOK'
<1>1. tx[w] \in Tx /\ pickedQty \in [Lines -> Nat] /\ shipStatus \in [Ships -> ShipStatus]
  BY DEF TypeOK
<1>2. ASSUME NEW u \in Units, NEW items \in Packs, ReadOrder(w, u, items) PROVE TypeOK'
  <2>1. [NoTx EXCEPT !.unit = u, !.items = items, !.k = 1, !.limit = pickedQty] \in Tx
    BY <1>1, NoTxType DEF Tx
  <2>2. Local(w, "pack", [NoTx EXCEPT !.unit = u, !.items = items, !.k = 1, !.limit = pickedQty])
    BY <1>2 DEF ReadOrder
  <2> QED
    BY <2>1, <2>2, TypeLocal DEF Control
<1>3. ASSUME NEW s \in Ships, ReadDispatch(w, s) PROVE TypeOK'
  <2>1. [NoTx EXCEPT !.ship = s] \in Tx
    BY NoTxType DEF Tx
  <2> QED
    BY <1>3, <2>1, TypeLocal DEF ReadDispatch, Control
<1>4. ASSUME NEW s \in Ships, NEW us \in Loads, ReadShipment(w, s, us) PROVE TypeOK'
  <2>1. [NoTx EXCEPT !.ship = s, !.units = us, !.status = shipStatus[s]] \in Tx
    BY <1>1, NoTxType DEF Tx
  <2> QED
    BY <1>4, <2>1, TypeLocal DEF ReadShipment, Control
<1>5. CASE ReadUnits(w)
  <2>1. PICK ps \in SUBSET (Units \X Orders) :
          ps = {p \in tx[w].units \X Orders : p[2] \in OrdersIn(p[1])}
    BY <1>1 DEF Tx
  <2>2. [tx[w] EXCEPT !.pairs = ps] \in Tx
    BY <1>1 DEF Tx
  <2> QED
    BY <1>5, <2>1, <2>2, TypeLocal DEF ReadUnits, Control
<1>6. CASE ReadLinks(w)
  <2>1. PICK ls \in SUBSET (Units \X Orders) :
          ls = {p \in Units \X Orders : links[tx[w].ship][p] > 0}
    OBVIOUS
  <2>2. [tx[w] EXCEPT !.linked = ls] \in Tx
    BY <1>1 DEF Tx
  <2> QED
    BY <1>6, <2>1, <2>2, TypeLocal DEF ReadLinks, Control
<1>7. CASE CheckLinks(w)
  BY <1>1, <1>7, TypeLocal DEF CheckLinks, Control
<1>8. CASE ReadCargo(w)
  <2>1. PICK us \in SUBSET Units : us = LinkedUnits(tx[w].ship)
    BY DEF LinkedUnits
  <2>2. [tx[w] EXCEPT !.units = us] \in Tx
    BY <1>1 DEF Tx
  <2> QED
    BY <1>8, <2>1, <2>2, TypeLocal DEF ReadCargo, Control
<1> QED
  BY <1>2, <1>3, <1>4, <1>5, <1>6, <1>7, <1>8

LEMMA OutsideType ==
  ASSUME TypeOK, (\E ln \in Lines : ConfirmPick(ln)) \/ (\E s \in Ships : CreateShipment(s))
  PROVE  TypeOK'
<1>1. CASE \E ln \in Lines : ConfirmPick(ln)
  <2>1. pickedQty' \in [Lines -> Nat]
    BY <1>1 DEF TypeOK, ConfirmPick
  <2> QED
    BY <1>1, <2>1 DEF TypeOK, ConfirmPick
<1>2. CASE \E s \in Ships : CreateShipment(s)
  BY <1>2 DEF TypeOK, CreateShipment, ShipStatus
<1> QED
  BY <1>1, <1>2

LEMMA NextType == IInv /\ TypeOK /\ [Next]_vars => TypeOK'
<1> SUFFICES ASSUME IInv, TypeOK, [Next]_vars PROVE TypeOK'
  OBVIOUS
<1>1. CASE UNCHANGED vars
  BY <1>1 DEF TypeOK, vars, rows
<1>2. ASSUME NEW w \in Workers, PackItem(w) \/ CommitItems(w) \/ Assign(w) \/ ReadContents(w) \/ Dispatch(w)
      PROVE  TypeOK'
  BY <1>2, PackItemType, CommitItemsType, AssignType, ReadContentsType, DispatchType
<1>3. ASSUME NEW w \in Workers,
             RefuseItem(w) \/ RefuseUnits(w) \/ RefuseDispatch(w) \/ Fail(w)
      PROVE  TypeOK'
  BY <1>3, TypeRollback DEF RefuseItem, RefuseUnits, RefuseDispatch, Fail
<1> QED
  BY <1>1, <1>2, <1>3, ReadsType, OutsideType DEF Next, Statement

\* Every row and every local of a request keeps its type; the totals that a dispatch
\* reads from the units are quantities.
THEOREM TypeCorrect == Spec => []TypeOK
BY InitType, NextType, Invariance, PTL DEF Spec

-----------------------------------------------------------------------------
(***************************************************************************)
(* What a dispatch logs.  A unit that was found linked stays linked, and a *)
(* line that was found in it stays in it, so the load that is read in two  *)
(* statements of the transaction is still there when it is logged.         *)
(***************************************************************************)
Holds(s, ln) == \E u \in LinkedUnits(s) : packed[u][ln] > 0

\* What a dispatch at statement c with the locals t is about to log.
CargoOK(c, t) ==
  /\ c = "contents" => t.units \subseteq LinkedUnits(t.ship)
  /\ c = "dispatch" => \A ln \in Lines : t.load[ln] > 0 => Holds(t.ship, ln)

CInv ==
  /\ ShippedIsTraceable
  /\ \A w \in Workers : CargoOK(pc[w], tx[w])

Grows ==
  /\ \A s \in Ships : LinkedUnits(s) \subseteq LinkedUnits(s)'
  /\ \A s \in Ships : \A ln \in Lines : Holds(s, ln) => Holds(s, ln)'

\* Units are never unlinked and nothing is ever unpacked.
LEMMA NextGrows == ASSUME IInv, TypeOK, [Next]_vars PROVE Grows
<1>1. \A s \in Ships : \A p \in Units \X Orders : links'[s][p] >= links[s][p]
  <2> SUFFICES ASSUME NEW r \in Ships, NEW p \in Units \X Orders
               PROVE  links'[r][p] >= links[r][p]
    OBVIOUS
  <2>1. links[r][p] \in Nat
    BY DEF TypeOK
  <2>2. ASSUME NEW w \in Workers, Assign(w) PROVE links'[r][p] >= links[r][p]
    <3>1. PICK s \in Ships : s = tx[w].ship
      BY <2>2 DEF IInv, StepOK, Assign
    <3>2. links' = [links EXCEPT ![s] =
            [q \in Units \X Orders |-> IF q \in NewLinks(w) THEN @[q] + 1 ELSE @[q]]]
      BY <2>2, <3>1 DEF Assign
    <3>3. links'[r] = IF r = s
            THEN [q \in Units \X Orders |-> IF q \in NewLinks(w) THEN links[s][q] + 1 ELSE links[s][q]]
            ELSE links[r]
      BY <3>2 DEF TypeOK
    <3>4. links'[r][p] = IF r = s /\ p \in NewLinks(w) THEN links[r][p] + 1 ELSE links[r][p]
      BY <3>3
    <3> QED
      BY <2>1, <3>4
  <2>3. CASE ~ \E w \in Workers : Assign(w)
    <3>1. links' = links
      BY <2>3 DEF Next, Statement, vars, rows, ConfirmPick, CreateShipment, ReadOrder,
         ReadDispatch, ReadShipment, PackItem, RefuseItem, CommitItems, ReadUnits, ReadLinks,
         RefuseUnits, CheckLinks, RefuseDispatch, ReadCargo, ReadContents, Dispatch, Fail,
         Rollback, Local
    <3> QED
      BY <2>1, <3>1
  <2> QED
    BY <2>2, <2>3
<1>2. \A u \in Units : \A ln \in Lines : packed'[u][ln] >= packed[u][ln]
  <2> SUFFICES ASSUME NEW u \in Units, NEW ln \in Lines
               PROVE  packed'[u][ln] >= packed[u][ln]
    OBVIOUS
  <2>1. packed[u][ln] \in Nat
    BY DEF TypeOK
  <2>2. ASSUME NEW w \in Workers, CommitItems(w) PROVE packed'[u][ln] >= packed[u][ln]
    <3>1. PICK v \in Units : v = tx[w].unit
      BY <2>2 DEF IInv, StepOK, CommitItems
    <3>2. packed' = [packed EXCEPT ![v] = [x \in Lines |-> @[x] + tx[w].added[x]]]
      BY <2>2, <3>1 DEF CommitItems
    <3>3. packed'[u] = IF u = v THEN [x \in Lines |-> packed[v][x] + tx[w].added[x]] ELSE packed[u]
      BY <3>2 DEF TypeOK
    <3>4. packed'[u][ln] = IF u = v THEN packed[u][ln] + tx[w].added[ln] ELSE packed[u][ln]
      BY <3>3
    <3>5. tx[w].added[ln] \in Nat
      BY DEF TypeOK, Tx
    <3> QED
      BY <2>1, <3>4, <3>5
  <2>3. CASE ~ \E w \in Workers : CommitItems(w)
    <3>1. packed' = packed
      BY <2>3 DEF Next, Statement, vars, rows, ConfirmPick, CreateShipment, ReadOrder,
         ReadDispatch, ReadShipment, PackItem, RefuseItem, Assign, ReadUnits, ReadLinks,
         RefuseUnits, CheckLinks, RefuseDispatch, ReadCargo, ReadContents, Dispatch, Fail,
         Rollback, Local
    <3> QED
      BY <2>1, <3>1
  <2> QED
    BY <2>2, <2>3
<1>3. /\ \A s \in Ships : \A p \in Units \X Orders : links[s][p] > 0 => links'[s][p] > 0
      /\ \A u \in Units : \A ln \in Lines : packed[u][ln] > 0 => packed'[u][ln] > 0
  <2>1. TypeOK'
    BY NextType
  <2>2. /\ \A s \in Ships : \A p \in Units \X Orders : links[s][p] \in Nat /\ links'[s][p] \in Nat
        /\ \A u \in Units : \A ln \in Lines : packed[u][ln] \in Nat /\ packed'[u][ln] \in Nat
    BY <2>1 DEF TypeOK
  <2> QED
    BY <1>1, <1>2, <2>2
<1>4. \A s \in Ships : LinkedUnits(s) \subseteq LinkedUnits(s)'
  BY <1>3 DEF LinkedUnits
<1>5. \A s \in Ships : LinkedUnits(s) \subseteq Units
  BY DEF LinkedUnits
<1> QED
  BY <1>3, <1>4, <1>5 DEF Grows, Holds

\* Statements other than the three of the dispatch.
LEMMA CargoKept ==
  ASSUME CInv, IInv, Grows, NEW w \in Workers, NEW next, NEW t, Goto(w, next, t),
         shipped' = shipped, CargoOK(next, t)', TypeOK
  PROVE  CInv'
<1>1. ShippedIsTraceable'
  BY DEF CInv, ShippedIsTraceable, Grows, Holds
<1>2. ASSUME NEW v \in Workers PROVE CargoOK(pc[v], tx[v])'
  <2>1. CASE v = w
    <3>1. pc'[v] = next /\ tx'[v] = t
      BY <2>1 DEF Goto, TypeOK
    <3> QED
      BY <3>1 DEF CargoOK
  <2>2. CASE v # w
    <3>1. pc'[v] = pc[v] /\ tx'[v] = tx[v]
      BY <2>2 DEF Goto, TypeOK
    <3>2. CargoOK(pc[v], tx[v]) /\ (pc[v] \in {"contents", "dispatch"} => tx[v].ship \in Ships)
      BY DEF CInv, IInv, StepOK
    <3> QED
      BY <3>1, <3>2 DEF CargoOK, Grows
  <2> QED
    BY <2>1, <2>2
<1> QED
  BY <1>1, <1>2 DEF CInv

LEMMA CargoElsewhere ==
  ASSUME CInv, IInv, TypeOK, Grows, NEW w \in Workers, NEW next \in Control, NEW t,
         Goto(w, next, t), next \notin {"contents", "dispatch"}, shipped' = shipped
  PROVE  CInv'
BY CargoKept DEF CargoOK

LEMMA ReadCargoCargo ==
  ASSUME CInv, IInv, TypeOK, Grows, NEW w \in Workers, ReadCargo(w) PROVE CInv'
<1>1. PICK us \in SUBSET Units : us = LinkedUnits(tx[w].ship)
  BY DEF LinkedUnits
<1>2. PICK t \in Tx : t = [tx[w] EXCEPT !.units = us]
  <2>1. tx[w] \in Tx
    BY DEF TypeOK
  <2> QED
    BY <2>1 DEF Tx
<1>3. Goto(w, "contents", t) /\ shipped' = shipped
  BY <1>1, <1>2 DEF ReadCargo, Local, rows
<1>4. t.units = LinkedUnits(t.ship) /\ t.ship \in Ships
  BY <1>1, <1>2 DEF TypeOK, Tx, IInv, StepOK, ReadCargo
<1>5. CargoOK("contents", t)'
  BY <1>4 DEF CargoOK, Grows
<1> QED
  BY <1>3, <1>5, CargoKept

LEMMA ReadContentsCargo ==
  ASSUME CInv, IInv, TypeOK, Grows, NEW w \in Workers, ReadContents(w) PROVE CInv'
<1>1. PICK c \in [Lines -> Nat] :
        c = ContentsOf(tx[w].units) /\ \A ln \in Lines : c[ln] > 0 => \E u \in tx[w].units : packed[u][ln] > 0
  <2>1. tx[w].units \subseteq Units
    BY DEF TypeOK, Tx
  <2> QED
    BY <2>1, ContentsType
<1>2. PICK t \in Tx : t = [tx[w] EXCEPT !.load = c]
  <2>1. tx[w] \in Tx
    BY DEF TypeOK
  <2> QED
    BY <2>1 DEF Tx
<1>3. Goto(w, "dispatch", t) /\ shipped' = shipped
  BY <1>1, <1>2 DEF ReadContents, Local, rows
<1>4. /\ t.load = c /\ t.ship = tx[w].ship /\ t.ship \in Ships
      /\ tx[w].units \subseteq LinkedUnits(t.ship)
  BY <1>2 DEF TypeOK, Tx, IInv, StepOK, ReadContents, CInv, CargoOK
<1>5. \A ln \in Lines : t.load[ln] > 0 => Holds(t.ship, ln)
  BY <1>1, <1>4 DEF Holds
<1>6. CargoOK("dispatch", t)'
  BY <1>4, <1>5 DEF CargoOK, Grows
<1> QED
  BY <1>3, <1>6, CargoKept

LEMMA DispatchCargo ==
  ASSUME CInv, IInv, TypeOK, Grows, NEW w \in Workers, Dispatch(w) PROVE CInv'
<1>1. PICK s \in Ships, load \in [Lines -> Nat] : s = tx[w].ship /\ load = tx[w].load
  BY DEF IInv, StepOK, TypeOK, Tx, Dispatch
<1>2. /\ shipped' = [shipped EXCEPT ![s] = [ln \in Lines |-> @[ln] + load[ln]]]
      /\ Goto(w, "idle", NoTx)
  BY <1>1 DEF Dispatch
<1>3. \A ln \in Lines : load[ln] > 0 => Holds(s, ln)
  BY <1>1 DEF CInv, CargoOK, Dispatch
<1>4. ShippedIsTraceable'
  <2>1. SUFFICES ASSUME NEW r \in Ships, NEW ln \in Lines, shipped'[r][ln] > 0 PROVE Holds(r, ln)'
    BY DEF ShippedIsTraceable, Holds
  <2>2. shipped[r][ln] \in Nat /\ load[ln] \in Nat
    BY DEF TypeOK
  <2>3. shipped'[r] = IF r = s THEN [x \in Lines |-> shipped[s][x] + load[x]] ELSE shipped[r]
    BY <1>2 DEF TypeOK
  <2>4. shipped'[r][ln] = IF r = s THEN shipped[r][ln] + load[ln] ELSE shipped[r][ln]
    BY <2>3
  <2>5. shipped[r][ln] > 0 \/ (r = s /\ load[ln] > 0)
    BY <2>1, <2>2, <2>4
  <2>6. Holds(r, ln)
    BY <1>3, <2>5 DEF CInv, ShippedIsTraceable, Holds
  <2> QED
    BY <2>6 DEF Grows
<1>5. \A v \in Workers : CargoOK(pc[v], tx[v])'
  <2> SUFFICES ASSUME NEW v \in Workers PROVE CargoOK(pc[v], tx[v])'
    OBVIOUS
  <2>1. CASE v = w
    BY <1>2, <2>1 DEF Goto, TypeOK, CargoOK
  <2>2. CASE v # w
    <3>1. pc'[v] = pc[v] /\ tx'[v] = tx[v]
      BY <1>2, <2>2 DEF Goto, TypeOK
    <3>2. CargoOK(pc[v], tx[v]) /\ (pc[v] \in {"contents", "dispatch"} => tx[v].ship \in Ships)
      BY DEF CInv, IInv, StepOK
    <3> QED
      BY <3>1, <3>2 DEF CargoOK, Grows
  <2> QED
    BY <2>1, <2>2
<1> QED
  BY <1>4, <1>5 DEF CInv

LEMMA NextCargo == IInv /\ TypeOK /\ CInv /\ [Next]_vars => CInv'
<1> SUFFICES ASSUME IInv, TypeOK, CInv, [Next]_vars PROVE CInv'
  OBVIOUS
<1>1. Grows
  BY NextGrows
<1>2. CASE \/ UNCHANGED vars \/ \E ln \in Lines : ConfirmPick(ln)
           \/ \E s \in Ships : CreateShipment(s)
  <2>1. pc' = pc /\ tx' = tx /\ shipped' = shipped
    BY <1>2 DEF vars, rows, ConfirmPick, CreateShipment
  <2>2. ShippedIsTraceable'
    BY <1>1, <2>1 DEF CInv, ShippedIsTraceable, Grows, Holds
  <2>3. ASSUME NEW v \in Workers PROVE CargoOK(pc[v], tx[v])'
    <3>1. CargoOK(pc[v], tx[v]) /\ (pc[v] \in {"contents", "dispatch"} => tx[v].ship \in Ships)
      BY DEF CInv, IInv, StepOK
    <3> QED
      BY <1>1, <2>1, <3>1 DEF CargoOK, Grows
  <2> QED
    BY <2>2, <2>3 DEF CInv
<1>3. ASSUME NEW w \in Workers, ReadCargo(w) \/ ReadContents(w) \/ Dispatch(w) PROVE CInv'
  BY <1>1, <1>3, ReadCargoCargo, ReadContentsCargo, DispatchCargo
<1>4. ASSUME NEW w \in Workers,
             \/ \E u \in Units, items \in Packs : ReadOrder(w, u, items)
             \/ \E s \in Ships : ReadDispatch(w, s) \/ \E us \in Loads : ReadShipment(w, s, us)
             \/ PackItem(w) \/ CommitItems(w) \/ ReadUnits(w) \/ ReadLinks(w)
             \/ Assign(w) \/ CheckLinks(w)
             \/ RefuseItem(w) \/ RefuseUnits(w) \/ RefuseDispatch(w) \/ Fail(w)
      PROVE  CInv'
  <2>1. shipped' = shipped
    BY <1>4 DEF ReadOrder, ReadDispatch, ReadShipment, PackItem, CommitItems, ReadUnits, ReadLinks,
       Assign, CheckLinks, RefuseItem, RefuseUnits, RefuseDispatch, Fail, Rollback, Local, rows
  <2>2. \E next \in Control : \E t : Goto(w, next, t) /\ next \notin {"contents", "dispatch"}
    BY <1>4 DEF ReadOrder, ReadDispatch, ReadShipment, PackItem, CommitItems, ReadUnits, ReadLinks,
       Assign, CheckLinks, RefuseItem, RefuseUnits, RefuseDispatch, Fail, Rollback, Local, Control
  <2> QED
    BY <1>1, <2>1, <2>2, CargoElsewhere
<1> QED
  BY <1>2, <1>3, <1>4 DEF Next, Statement

LEMMA InitCargo == Init => CInv
BY DEF Init, CInv, ShippedIsTraceable, CargoOK, Nothing

\* However packing, assignment and dispatch overlap, what a dispatch has logged as having
\* left is in a unit that is linked to the shipment.
THEOREM DepartedGoodsAreTraceable == Spec => []ShippedIsTraceable
<1>1. CInv => ShippedIsTraceable
  BY DEF CInv
<1> QED
  BY <1>1, InitCargo, NextCargo, Invariance, TypeCorrect, PTL DEF Spec

-----------------------------------------------------------------------------
(***************************************************************************)
(* Requests that do not overlap.  What a lone request has read is what is  *)
(* there when it commits, because nobody else has written in between;      *)
(* picks and new shipments, which need no worker, only help.               *)
(***************************************************************************)
Settled == PackedWithinPicked /\ LinkedOnce /\ ShippedIsLoaded

Open(s) == shipStatus[s] \in {"PLANNED", "LOADING"}

\* What a lone request at statement c with the locals t knows.
Solo(c, t) ==
  /\ c = "pack" => \A ln \in Lines : /\ t.limit[ln] <= pickedQty[ln]
                                     /\ PackedOf(ln) + t.added[ln] <= pickedQty[ln]
  /\ c \notin {"idle", "pack"} => Open(t.ship)
  /\ c \in {"units", "links", "assign"} => t.status \in {"PLANNED", "LOADING"}
  /\ c = "assign" => \A p \in Units \X Orders : p \in t.linked <=> Linked(t.ship, p)
  /\ c = "contents" => t.units = LinkedUnits(t.ship)
  /\ c = "dispatch" => t.load = ContentsOf(LinkedUnits(t.ship))

Alone(w) == \A v \in Workers \ {w} : pc[v] = "idle"

SInv ==
  ~overlapped => /\ Settled
                 /\ \A w \in Workers : pc[w] # "idle" => Alone(w)
                 /\ \A w \in Workers : Solo(pc[w], tx[w])

LEMMA InitSInv == Init => SInv
<1> SUFFICES ASSUME Init PROVE SInv
  OBVIOUS
<1>1. \A ln \in Lines : PackedOf(ln) = 0
  <2> SUFFICES ASSUME NEW ln \in Lines PROVE PackedOf(ln) = 0
    OBVIOUS
  <2>1. IsFiniteSet(Units) /\ \A u \in Units : OfLine(ln)[u] = 0
    BY DEF Init, OfLine, Nothing
  <2> QED
    BY <2>1, SumZero DEF PackedOf
<1>2. PackedWithinPicked
  BY <1>1 DEF Init, PackedWithinPicked, Nothing
<1>3. LinkedOnce
  BY DEF Init, LinkedOnce
<1>4. ShippedIsLoaded
  <2> SUFFICES ASSUME NEW s \in Ships
               PROVE  /\ shipStatus[s] = "DISPATCHED" <=> \E ln \in Lines : shipped[s][ln] > 0
                      /\ \A ln \in Lines : shipped[s][ln] <= ContentsOf(LinkedUnits(s))[ln]
    BY DEF ShippedIsLoaded
  <2>1. shipStatus[s] = "NONE" /\ \A ln \in Lines : shipped[s][ln] = 0
    BY DEF Init, Nothing
  <2>2. ContentsOf(LinkedUnits(s)) \in [Lines -> Nat]
    BY InitType, ContentsType DEF LinkedUnits
  <2> QED
    BY <2>1, <2>2
<1>5. \A w \in Workers : pc[w] = "idle"
  BY DEF Init
<1> QED
  BY <1>2, <1>3, <1>4, <1>5 DEF SInv, Settled, Solo

\* What a request may rely on in a step after which still no two have overlapped.
LEMMA LoneRequest ==
  ASSUME SInv, TypeOK, NEW w \in Workers, NEW next, NEW t, Goto(w, next, t), ~overlapped'
  PROVE  Settled /\ Solo(pc[w], tx[w]) /\ Alone(w)
BY DEF SInv, Goto, TypeOK, Alone

LEMMA LoneGoto ==
  ASSUME SInv, TypeOK, NEW w \in Workers, NEW next, NEW t, Goto(w, next, t),
         ~overlapped' => Settled' /\ Solo(next, t)'
  PROVE  SInv'
<1> SUFFICES ASSUME ~overlapped' PROVE /\ Settled'
                                       /\ \A v \in Workers : pc'[v] # "idle" => Alone(v)'
                                       /\ \A v \in Workers : Solo(pc[v], tx[v])'
  BY DEF SInv
<1>1. Settled' /\ Solo(next, t)' /\ Alone(w)
  BY LoneRequest
<1>2. /\ pc'[w] = next /\ tx'[w] = t
      /\ \A v \in Workers \ {w} : pc'[v] = pc[v] /\ pc'[v] = "idle"
  BY <1>1 DEF Goto, TypeOK, Alone
<1>3. ASSUME NEW v \in Workers, pc'[v] # "idle" PROVE Alone(v)'
  BY <1>2, <1>3 DEF Alone
<1>4. ASSUME NEW v \in Workers PROVE Solo(pc[v], tx[v])'
  <2>1. CASE v = w
    <3>1. PICK c, x : c = pc'[v] /\ x = tx'[v] /\ c = next /\ x = t
      BY <1>2, <2>1
    <3>2. Solo(c, x)'
      BY <1>1, <3>1
    <3> QED
      BY <3>1, <3>2 DEF Solo
  <2>2. CASE v # w
    <3>1. pc'[v] = "idle"
      BY <1>2, <2>2
    <3> QED
      BY <3>1 DEF Solo
  <2> QED
    BY <2>1, <2>2
<1> QED
  BY <1>1, <1>3, <1>4

\* A statement that changes no row.
LEMMA LoneLocal ==
  ASSUME SInv, TypeOK, NEW w \in Workers, NEW next, NEW t, Local(w, next, t),
         Settled /\ Solo(pc[w], tx[w]) => Solo(next, t)
  PROVE  SInv'
<1>1. Goto(w, next, t) /\ UNCHANGED rows
  BY DEF Local
<1>2. ASSUME ~overlapped' PROVE Settled' /\ Solo(next, t)'
  <2>1. Settled /\ Solo(next, t)
    BY <1>1, <1>2, LoneRequest
  <2>2. /\ pickedQty' = pickedQty /\ packed' = packed /\ shipStatus' = shipStatus
        /\ links' = links /\ shipped' = shipped
    BY <1>1 DEF rows
  <2>3. /\ \A ln : PackedOf(ln)' = PackedOf(ln)
        /\ \A s : LinkedUnits(s)' = LinkedUnits(s)
        /\ \A s : ContentsOf(LinkedUnits(s))' = ContentsOf(LinkedUnits(s))
    BY <2>2 DEF PackedOf, ContentsOf, OfLine, LinkedUnits
  <2>4. Settled'
    BY <2>1, <2>2, <2>3 DEF Settled, PackedWithinPicked, LinkedOnce, ShippedIsLoaded
  <2>5. Solo(next, t)'
    BY <2>1, <2>2, <2>3 DEF Solo, Open, Linked
  <2> QED
    BY <2>4, <2>5
<1> QED
  BY <1>1, <1>2, LoneGoto

LEMMA LoneRollback == ASSUME SInv, TypeOK, NEW w \in Workers, Rollback(w) PROVE SInv'
BY LoneLocal DEF Rollback, Solo

LEMMA LoneReads ==
  ASSUME SInv, TypeOK, NEW w \in Workers,
         \/ \E s \in Ships : ReadDispatch(w, s) \/ \E us \in Loads : ReadShipment(w, s, us)
         \/ ReadUnits(w) \/ ReadLinks(w) \/ CheckLinks(w) \/ ReadCargo(w) \/ ReadContents(w)
  PROVE  SInv'
<1>1. PICK x \in Tx : x = tx[w]
  BY DEF TypeOK
<1>2. ASSUME NEW s \in Ships, ReadDispatch(w, s) PROVE SInv'
  <2>1. PICK t : t = [NoTx EXCEPT !.ship = s]
    OBVIOUS
  <2>2. t.ship = s
    BY <2>1 DEF NoTx
  <2> QED
    BY <1>2, <2>1, <2>2, LoneLocal DEF ReadDispatch, Solo, Open
<1>3. ASSUME NEW s \in Ships, NEW us \in Loads, ReadShipment(w, s, us) PROVE SInv'
  <2>1. PICK t : t = [NoTx EXCEPT !.ship = s, !.units = us, !.status = shipStatus[s]]
    OBVIOUS
  <2>2. t.ship = s /\ t.status = shipStatus[s]
    BY <2>1 DEF NoTx
  <2> QED
    BY <1>3, <2>1, <2>2, LoneLocal DEF ReadShipment, Solo, Open
<1>4. CASE ReadUnits(w)
  <2>1. PICK t : t = [x EXCEPT !.pairs = {p \in x.units \X Orders : p[2] \in OrdersIn(p[1])}]
    OBVIOUS
  <2>2. t.ship = x.ship /\ t.status = x.status
    BY <2>1 DEF Tx
  <2> QED
    BY <1>1, <1>4, <2>1, <2>2, LoneLocal DEF ReadUnits, Solo
<1>5. CASE ReadLinks(w)
  <2>1. PICK t : t = [x EXCEPT !.linked = {p \in Units \X Orders : links[x.ship][p] > 0}]
    OBVIOUS
  <2>2. /\ t.ship = x.ship /\ t.status = x.status
        /\ \A p \in Units \X Orders : p \in t.linked <=> Linked(t.ship, p)
    BY <2>1 DEF Tx, Linked
  <2>3. Solo("links", x) => Solo("assign", t)
    BY <2>2 DEF Solo
  <2> QED
    BY <1>1, <1>5, <2>1, <2>3, LoneLocal DEF ReadLinks
<1>6. CASE CheckLinks(w)
  BY <1>6, LoneLocal DEF CheckLinks, Solo
<1>7. CASE ReadCargo(w)
  <2>1. PICK t : t = [x EXCEPT !.units = LinkedUnits(x.ship)]
    OBVIOUS
  <2>2. t.ship = x.ship /\ t.units = LinkedUnits(t.ship)
    BY <2>1 DEF Tx
  <2> QED
    BY <1>1, <1>7, <2>1, <2>2, LoneLocal DEF ReadCargo, Solo
<1>8. CASE ReadContents(w)
  <2>1. PICK t : t = [x EXCEPT !.load = ContentsOf(x.units)]
    OBVIOUS
  <2>2. t.ship = x.ship /\ t.load = ContentsOf(x.units)
    BY <2>1 DEF Tx
  <2> QED
    BY <1>1, <1>8, <2>1, <2>2, LoneLocal DEF ReadContents, Solo
<1> QED
  BY <1>2, <1>3, <1>4, <1>5, <1>6, <1>7, <1>8

-----------------------------------------------------------------------------
(* Packing.                                                                *)

LEMMA PackedType == ASSUME TypeOK, NEW ln \in Lines PROVE PackedOf(ln) \in Nat
<1>1. IsFiniteSet(Units) /\ \A u \in Units : OfLine(ln)[u] \in Nat
  BY DEF OfLine, TypeOK
<1> QED
  BY <1>1, SumNat DEF PackedOf

LEMMA LoneReadOrder ==
  ASSUME SInv, TypeOK, NEW w \in Workers, NEW u \in Units, NEW items \in Packs, ReadOrder(w, u, items)
  PROVE  SInv'
<1>1. PICK t : t = [NoTx EXCEPT !.unit = u, !.items = items, !.k = 1, !.limit = pickedQty]
  OBVIOUS
<1>2. t.limit = pickedQty /\ t.added = Nothing
  BY <1>1 DEF NoTx
<1>3. \A ln \in Lines : PackedOf(ln) \in Nat /\ pickedQty[ln] \in Nat /\ Nothing[ln] = 0
  BY PackedType DEF TypeOK, Nothing
<1>4. Settled => Solo("pack", t)
  BY <1>2, <1>3 DEF Settled, PackedWithinPicked, Solo
<1> QED
  BY <1>1, <1>4, LoneLocal DEF ReadOrder

LEMMA LonePackItem ==
  ASSUME SInv, IInv, TypeOK, NEW w \in Workers, PackItem(w) PROVE SInv'
<1>1. PICK x \in Tx : x = tx[w]
  BY DEF TypeOK
<1>2. Current(w) \in Item
  <2>1. x.k \in 1..Len(x.items) /\ x.items \in Seq(Item)
    BY <1>1 DEF IInv, StepOK, PackItem, Tx
  <2> QED
    BY <1>1, <2>1 DEF Current
<1>3. PICK ln \in Lines, q \in Nat : ln = Current(w).line /\ q = Current(w).qty
  BY <1>2 DEF Item
<1>4. PICK a, t : /\ a = [x.added EXCEPT ![ln] = @ + q]
                  /\ t = [x EXCEPT !.added = a, !.k = @ + 1]
  OBVIOUS
<1>5. Local(w, "pack", t) /\ pc[w] = "pack" /\ PackedOf(ln) + x.added[ln] + q <= x.limit[ln]
  BY <1>1, <1>3, <1>4 DEF PackItem, Fits
<1>6. t.limit = x.limit /\ t.added = a /\ x.added \in [Lines -> Nat] /\ x.limit \in [Lines -> Nat]
  BY <1>4 DEF Tx
<1>7. Solo("pack", x) => Solo("pack", t)
  <2> SUFFICES ASSUME Solo("pack", x), NEW m \in Lines
               PROVE  t.limit[m] <= pickedQty[m] /\ PackedOf(m) + t.added[m] <= pickedQty[m]
    BY DEF Solo
  <2>1. /\ PackedOf(m) \in Nat /\ pickedQty[m] \in Nat /\ x.added[m] \in Nat /\ x.limit[m] \in Nat
        /\ x.limit[m] <= pickedQty[m] /\ PackedOf(m) + x.added[m] <= pickedQty[m]
    BY <1>6, PackedType DEF TypeOK, Solo
  <2>2. t.added[m] = IF m = ln THEN x.added[m] + q ELSE x.added[m]
    BY <1>4, <1>6
  <2> QED
    BY <1>5, <1>6, <2>1, <2>2
<1> QED
  BY <1>1, <1>5, <1>7, LoneLocal

\* What is in units is counted again when something was added.
LEMMA ContentsGrow ==
  ASSUME TypeOK, TypeOK', NEW us, NEW vs, us \subseteq vs, vs \subseteq Units, NEW ln \in Lines,
         \A u \in Units : packed[u][ln] <= packed'[u][ln]
  PROVE  ContentsOf(us)[ln] <= ContentsOf(vs)'[ln]
<1>1. PICK f, g : f = OfLine(ln) /\ g = OfLine(ln)'
  OBVIOUS
<1>2. /\ IsFiniteSet(vs) /\ IsFiniteSet(us)
      /\ \A u \in vs : f[u] \in Nat /\ g[u] \in Nat /\ f[u] <= g[u]
  BY <1>1, FS_Subset DEF TypeOK, OfLine
<1>3. \A u \in vs : f[u] \in Int /\ g[u] \in Int /\ f[u] <= g[u]
  BY <1>2
<1>4. SumFunctionOnSet(f, vs) <= SumFunctionOnSet(g, vs)
  BY <1>2, <1>3, SumMonotone
<1>5. \A u \in vs : f[u] \in Nat
  BY <1>2
<1>6. SumFunctionOnSet(f, us) <= SumFunctionOnSet(f, vs)
  BY <1>2, <1>5, SumSubset
<1>7. \A u \in vs : g[u] \in Nat
  BY <1>2
<1>8. /\ SumFunctionOnSet(f, us) \in Nat /\ SumFunctionOnSet(f, vs) \in Nat
      /\ SumFunctionOnSet(g, vs) \in Nat
  <2>1. \A u \in us : f[u] \in Nat
    BY <1>5
  <2> QED
    BY <1>2, <1>5, <1>7, <2>1, SumNat
<1>9. /\ ContentsOf(us)[ln] = SumFunctionOnSet(f, us)
      /\ ContentsOf(vs)'[ln] = SumFunctionOnSet(g, vs)
  BY <1>1 DEF ContentsOf
<1> QED
  BY <1>4, <1>6, <1>8, <1>9

LEMMA PackedGrows ==
  ASSUME TypeOK, TypeOK', NEW u \in Units, NEW ln \in Lines, NEW a \in Nat,
         packed'[u][ln] = packed[u][ln] + a,
         \A v \in Units \ {u} : packed'[v][ln] = packed[v][ln]
  PROVE  PackedOf(ln)' = PackedOf(ln) + a
<1>1. PICK f, g : f = OfLine(ln) /\ g = OfLine(ln)'
  OBVIOUS
<1>2. /\ IsFiniteSet(Units)
      /\ \A v \in Units : f[v] \in Nat /\ g[v] \in Nat /\ f[v] = packed[v][ln] /\ g[v] = packed'[v][ln]
  BY <1>1 DEF TypeOK, OfLine
<1>3. \A v \in Units : f[v] \in Int /\ g[v] \in Int
  BY <1>2
<1>4. \A v \in Units \ {u} : f[v] = g[v]
  BY <1>2
<1>5. SumFunctionOnSet(g, Units) = SumFunctionOnSet(f, Units) - f[u] + g[u]
  BY <1>2, <1>3, <1>4, SumUpdate
<1>6. PackedOf(ln) = SumFunctionOnSet(f, Units) /\ PackedOf(ln)' = SumFunctionOnSet(g, Units)
  BY <1>1 DEF PackedOf
<1>7. PICK m \in Nat, n \in Nat : m = PackedOf(ln) /\ n = f[u]
  BY <1>2, PackedType
<1>8. PackedOf(ln)' = m - n + (n + a)
  BY <1>2, <1>5, <1>6, <1>7
<1> QED
  BY <1>7, <1>8

LEMMA ContentsTypePrime ==
  ASSUME TypeOK', NEW us, us \subseteq Units
  PROVE  ContentsOf(us)' \in [Lines -> Nat]
<1> SUFFICES ASSUME NEW ln \in Lines PROVE SumFunctionOnSet(OfLine(ln)', us) \in Nat
  BY DEF ContentsOf
<1>1. IsFiniteSet(us) /\ \A u \in us : OfLine(ln)'[u] \in Nat
  BY FS_Subset DEF TypeOK, OfLine
<1> QED
  BY <1>1, SumNat

\* A shipment whose units and their contents only grow is still loaded with what it took.
LEMMA LoadGrows ==
  ASSUME TypeOK, TypeOK', ShippedIsLoaded, NEW s \in Ships, NEW ln \in Lines,
         shipped'[s][ln] = shipped[s][ln], LinkedUnits(s) \subseteq LinkedUnits(s)',
         \A u \in Units : packed[u][ln] <= packed'[u][ln]
  PROVE  shipped'[s][ln] <= ContentsOf(LinkedUnits(s))'[ln]
<1>1. PICK us \in SUBSET Units, vs \in SUBSET Units : us = LinkedUnits(s) /\ vs = LinkedUnits(s)'
  BY DEF LinkedUnits
<1>2. ContentsOf(us)[ln] <= ContentsOf(vs)'[ln]
  BY <1>1, ContentsGrow
<1>3. shipped[s][ln] <= ContentsOf(us)[ln]
  BY <1>1 DEF ShippedIsLoaded
<1>4. ContentsOf(us)[ln] \in Nat /\ ContentsOf(vs)'[ln] \in Nat /\ shipped[s][ln] \in Nat
  <2>1. ContentsOf(us) \in [Lines -> Nat]
    BY ContentsType
  <2>2. ContentsOf(vs)' \in [Lines -> Nat]
    BY ContentsTypePrime
  <2> QED
    BY <2>1, <2>2 DEF TypeOK
<1>5. ContentsOf(LinkedUnits(s))' = ContentsOf(vs)'
  BY <1>1 DEF ContentsOf
<1> QED
  BY <1>2, <1>3, <1>4, <1>5

LEMMA LoneCommitItems ==
  ASSUME SInv, IInv, TypeOK, TypeOK', NEW w \in Workers, CommitItems(w) PROVE SInv'
<1>1. PICK x \in Tx : x = tx[w]
  BY DEF TypeOK
<1>2. PICK u \in Units, a \in [Lines -> Nat] : u = x.unit /\ a = x.added
  BY <1>1 DEF IInv, StepOK, CommitItems, Tx
<1>3. /\ packed' = [packed EXCEPT ![u] = [ln \in Lines |-> @[ln] + a[ln]]]
      /\ Goto(w, "idle", NoTx) /\ pc[w] = "pack"
      /\ pickedQty' = pickedQty /\ shipStatus' = shipStatus /\ links' = links /\ shipped' = shipped
  BY <1>1, <1>2 DEF CommitItems
<1>4. ASSUME NEW ln \in Lines
      PROVE  /\ packed'[u][ln] = packed[u][ln] + a[ln]
             /\ \A v \in Units \ {u} : packed'[v][ln] = packed[v][ln]
  BY <1>3 DEF TypeOK
<1>5. ASSUME ~overlapped' PROVE Settled'
  <2>1. Settled /\ Solo("pack", x)
    BY <1>1, <1>3, <1>5, LoneRequest
  <2>2. PackedWithinPicked'
    <3> SUFFICES ASSUME NEW ln \in Lines PROVE PackedOf(ln)' <= pickedQty'[ln]
      BY DEF PackedWithinPicked
    <3>1. a[ln] \in Nat
      OBVIOUS
    <3>2. PackedOf(ln)' = PackedOf(ln) + a[ln]
      BY <1>4, <3>1, PackedGrows
    <3> QED
      BY <1>2, <1>3, <2>1, <3>2 DEF Solo
  <2>3. LinkedOnce'
    BY <1>3, <2>1 DEF Settled, LinkedOnce
  <2>4. ShippedIsLoaded'
    <3> SUFFICES ASSUME NEW s \in Ships
                 PROVE  /\ shipStatus'[s] = "DISPATCHED" <=> \E ln \in Lines : shipped'[s][ln] > 0
                        /\ \A ln \in Lines : shipped'[s][ln] <= ContentsOf(LinkedUnits(s))'[ln]
      BY DEF ShippedIsLoaded
    <3>1. shipStatus'[s] = "DISPATCHED" <=> \E ln \in Lines : shipped'[s][ln] > 0
      BY <1>3, <2>1 DEF Settled, ShippedIsLoaded
    <3>2. ASSUME NEW ln \in Lines PROVE shipped'[s][ln] <= ContentsOf(LinkedUnits(s))'[ln]
      <4>1. \A v \in Units : packed[v][ln] <= packed'[v][ln]
        <5>1. \A v \in Units : packed[v][ln] \in Nat
          BY DEF TypeOK
        <5>2. a[ln] \in Nat
          OBVIOUS
        <5> QED
          BY <1>4, <5>1, <5>2
      <4>2. shipped'[s][ln] = shipped[s][ln] /\ LinkedUnits(s) \subseteq LinkedUnits(s)'
        BY <1>3 DEF LinkedUnits
      <4> QED
        BY <2>1, <4>1, <4>2, LoadGrows DEF Settled
    <3> QED
      BY <3>1, <3>2
  <2> QED
    BY <2>2, <2>3, <2>4 DEF Settled
<1>6. Solo("idle", NoTx)'
  BY DEF Solo
<1> QED
  BY <1>3, <1>5, <1>6, LoneGoto

-----------------------------------------------------------------------------
(* Assignment and dispatch.                                                *)

LEMMA LoneAssign ==
  ASSUME SInv, IInv, TypeOK, TypeOK', NEW w \in Workers, Assign(w)
  PROVE  SInv' /\ (~overlapped' => DispatchedStays)
<1>1. PICK x \in Tx : x = tx[w]
  BY DEF TypeOK
<1>2. PICK s \in Ships, new \in SUBSET (Units \X Orders) : s = x.ship /\ new = x.pairs \ x.linked
  BY <1>1 DEF IInv, StepOK, Assign, Tx
<1>3. /\ links' = [links EXCEPT ![s] =
           [p \in Units \X Orders |-> IF p \in new THEN @[p] + 1 ELSE @[p]]]
      /\ shipStatus' = [shipStatus EXCEPT ![s] = IF x.status = "PLANNED" THEN "LOADING" ELSE x.status]
      /\ Goto(w, "idle", NoTx) /\ pc[w] = "assign"
      /\ pickedQty' = pickedQty /\ packed' = packed /\ shipped' = shipped
  BY <1>1, <1>2 DEF Assign, NewLinks
<1>4. links'[s] = [p \in Units \X Orders |-> IF p \in new THEN links[s][p] + 1 ELSE links[s][p]]
  BY <1>3 DEF TypeOK
<1>5. /\ \A p \in Units \X Orders :
           links'[s][p] = IF p \in new THEN links[s][p] + 1 ELSE links[s][p]
      /\ \A r \in Ships \ {s} : links'[r] = links[r] /\ shipStatus'[r] = shipStatus[r]
  BY <1>3, <1>4 DEF TypeOK
<1>6. ASSUME ~overlapped' PROVE Settled' /\ DispatchedStays
  <2>1. Settled /\ Solo("assign", x)
    BY <1>1, <1>3, <1>6, LoneRequest
  <2>2. Open(s) /\ shipStatus'[s] = "LOADING"
    BY <1>2, <1>3, <2>1 DEF Solo, TypeOK
  <2>3. PackedWithinPicked'
    BY <1>3, <2>1 DEF Settled, PackedWithinPicked, PackedOf, OfLine
  <2>4. LinkedOnce'
    <3> SUFFICES ASSUME NEW r \in Ships, NEW p \in Units \X Orders PROVE links'[r][p] <= 1
      BY DEF LinkedOnce
    <3>1. links[r][p] \in Nat /\ links[r][p] <= 1
      BY <2>1 DEF Settled, LinkedOnce, TypeOK
    <3>2. r = s /\ p \in new => links[r][p] = 0
      BY <1>2, <2>1, <3>1 DEF Solo, Linked
    <3> QED
      BY <1>5, <3>1, <3>2
  <2>5. ShippedIsLoaded'
    <3> SUFFICES ASSUME NEW r \in Ships
                 PROVE  /\ shipStatus'[r] = "DISPATCHED" <=> \E ln \in Lines : shipped'[r][ln] > 0
                        /\ \A ln \in Lines : shipped'[r][ln] <= ContentsOf(LinkedUnits(r))'[ln]
      BY DEF ShippedIsLoaded
    <3>1. shipStatus'[r] = "DISPATCHED" <=> \E ln \in Lines : shipped'[r][ln] > 0
      BY <1>3, <1>5, <2>1, <2>2 DEF Settled, ShippedIsLoaded, Open
    <3>2. LinkedUnits(r) \subseteq LinkedUnits(r)'
      <4>1. \A p \in Units \X Orders : links[r][p] > 0 => links'[r][p] > 0
        <5>1. \A p \in Units \X Orders : links[r][p] \in Nat
          BY DEF TypeOK
        <5> QED
          BY <1>5, <5>1
      <4> QED
        BY <4>1 DEF LinkedUnits
    <3>3. ASSUME NEW ln \in Lines PROVE shipped'[r][ln] <= ContentsOf(LinkedUnits(r))'[ln]
      <4>1. \A u \in Units : packed[u][ln] <= packed'[u][ln]
        <5>1. \A u \in Units : packed[u][ln] \in Nat
          BY DEF TypeOK
        <5> QED
          BY <1>3, <5>1
      <4> QED
        BY <1>3, <2>1, <3>2, <4>1, LoadGrows DEF Settled
    <3> QED
      BY <3>1, <3>3
  <2>6. DispatchedStays
    BY <1>3, <1>5, <2>2 DEF DispatchedStays, Open
  <2> QED
    BY <2>3, <2>4, <2>5, <2>6 DEF Settled
<1>7. Solo("idle", NoTx)'
  BY DEF Solo
<1> QED
  BY <1>3, <1>6, <1>7, LoneGoto

LEMMA LoneDispatch ==
  ASSUME SInv, IInv, TypeOK, TypeOK', NEW w \in Workers, Dispatch(w)
  PROVE  SInv' /\ (~overlapped' => DispatchedStays)
<1>1. PICK x \in Tx : x = tx[w]
  BY DEF TypeOK
<1>2. PICK s \in Ships, load \in [Lines -> Nat] : s = x.ship /\ load = x.load
  BY <1>1 DEF IInv, StepOK, Dispatch, Tx
<1>3. /\ shipped' = [shipped EXCEPT ![s] = [ln \in Lines |-> @[ln] + load[ln]]]
      /\ shipStatus' = [shipStatus EXCEPT ![s] = "DISPATCHED"]
      /\ Goto(w, "idle", NoTx) /\ pc[w] = "dispatch"
      /\ pickedQty' = pickedQty /\ packed' = packed /\ links' = links
  BY <1>1, <1>2 DEF Dispatch
<1>4. shipped'[s] = [ln \in Lines |-> shipped[s][ln] + load[ln]]
  BY <1>3 DEF TypeOK
<1>5. /\ shipStatus'[s] = "DISPATCHED"
      /\ \A ln \in Lines : shipped'[s][ln] = shipped[s][ln] + load[ln]
      /\ \A r \in Ships \ {s} : shipped'[r] = shipped[r] /\ shipStatus'[r] = shipStatus[r]
  BY <1>3, <1>4 DEF TypeOK
<1>6. ASSUME ~overlapped' PROVE Settled' /\ DispatchedStays
  <2>1. Settled /\ Solo("dispatch", x)
    BY <1>1, <1>3, <1>6, LoneRequest
  <2>2. Open(s) /\ load = ContentsOf(LinkedUnits(s))
    BY <1>2, <2>1 DEF Solo
  <2>3. \A ln \in Lines : shipped'[s][ln] = load[ln]
    <3> SUFFICES ASSUME NEW ln \in Lines PROVE shipped'[s][ln] = load[ln]
      OBVIOUS
    <3>1. shipped[s][ln] \in Nat /\ ~(shipped[s][ln] > 0)
      <4>1. shipStatus[s] # "DISPATCHED"
        BY <2>2 DEF Open
      <4>2. ~(shipped[s][ln] > 0)
        BY <2>1, <4>1 DEF Settled, ShippedIsLoaded
      <4> QED
        BY <4>2 DEF TypeOK
    <3>2. load[ln] \in Nat
      OBVIOUS
    <3> QED
      BY <1>5, <3>1, <3>2
  <2>4. \E ln \in Lines : load[ln] > 0
    <3>1. PICK u \in Units, o \in Orders : Linked(s, <<u, o>>)
      BY <1>1, <1>2, <1>3 DEF IInv, StepOK
    <3>2. PICK ln \in Lines : packed[u][ln] > 0
      BY <3>1, LinksAreBackedAlt DEF IInv, Backed
    <3>0. u \in LinkedUnits(s) /\ LinkedUnits(s) \in SUBSET Units
      BY <3>1 DEF LinkedUnits, Linked
    <3>3. PICK us \in SUBSET Units : us = LinkedUnits(s) /\ u \in us
      BY <3>0
    <3>4. PICK f : f = OfLine(ln)
      OBVIOUS
    <3>5. IsFiniteSet(us) /\ (\A v \in us : f[v] \in Nat) /\ f[u] = packed[u][ln]
      BY <3>3, <3>4, FS_Subset DEF TypeOK, OfLine
    <3>6. \A v \in us : f[v] \in Nat
      BY <3>5
    <3>7. f[u] <= SumFunctionOnSet(f, us)
      BY <3>3, <3>5, <3>6, SumElement
    <3>8. load[ln] = SumFunctionOnSet(f, us)
      BY <2>2, <3>3, <3>4 DEF ContentsOf
    <3>9. f[u] \in Nat /\ load[ln] \in Nat
      BY <3>3, <3>6
    <3> QED
      BY <3>2, <3>5, <3>7, <3>8, <3>9
  <2>5. \A r \in Ships : LinkedUnits(r)' = LinkedUnits(r) /\ ContentsOf(LinkedUnits(r))' = ContentsOf(LinkedUnits(r))
    BY <1>3 DEF LinkedUnits, ContentsOf, OfLine
  <2>6. ShippedIsLoaded'
    <3> SUFFICES ASSUME NEW r \in Ships
                 PROVE  /\ shipStatus'[r] = "DISPATCHED" <=> \E ln \in Lines : shipped'[r][ln] > 0
                        /\ \A ln \in Lines : shipped'[r][ln] <= ContentsOf(LinkedUnits(r))'[ln]
      BY DEF ShippedIsLoaded
    <3>1. CASE r = s
      BY <1>5, <2>2, <2>3, <2>4, <2>5, <3>1
    <3>2. CASE r # s
      BY <1>5, <2>1, <2>5, <3>2 DEF Settled, ShippedIsLoaded
    <3> QED
      BY <3>1, <3>2
  <2>7. PackedWithinPicked' /\ LinkedOnce'
    BY <1>3, <2>1 DEF Settled, PackedWithinPicked, PackedOf, OfLine, LinkedOnce
  <2>8. DispatchedStays
    BY <1>3, <1>5, <2>2 DEF DispatchedStays, Open
  <2> QED
    BY <2>6, <2>7, <2>8 DEF Settled
<1>7. Solo("idle", NoTx)'
  BY DEF Solo
<1> QED
  BY <1>3, <1>6, <1>7, LoneGoto

-----------------------------------------------------------------------------
(* Picks and new shipments.                                                *)

LEMMA LoneOutside ==
  ASSUME SInv, IInv, TypeOK, TypeOK',
         (\E ln \in Lines : ConfirmPick(ln)) \/ (\E s \in Ships : CreateShipment(s))
  PROVE  SInv' /\ DispatchedStays
<1>1. /\ packed' = packed /\ links' = links /\ shipped' = shipped
      /\ overlapped' = overlapped /\ pc' = pc /\ tx' = tx
  BY DEF ConfirmPick, CreateShipment
<1>2. \A ln \in Lines : pickedQty[ln] <= pickedQty'[ln]
  <2>1. pickedQty' = pickedQty \/ \E m \in Lines : pickedQty' = [pickedQty EXCEPT ![m] = @ + 1]
    BY DEF ConfirmPick, CreateShipment
  <2>2. pickedQty \in [Lines -> Nat]
    BY DEF TypeOK
  <2>3. ASSUME NEW m \in Lines, NEW ln \in Lines PROVE pickedQty[ln] <= [pickedQty EXCEPT ![m] = @ + 1][ln]
    <3>1. pickedQty[ln] \in Nat
      BY <2>2
    <3> QED
      BY <2>2, <3>1
  <2>4. \A ln \in Lines : pickedQty[ln] <= pickedQty[ln]
    BY <2>2
  <2> QED
    BY <2>1, <2>3, <2>4
<1>3. \A s \in Ships : shipStatus'[s] = shipStatus[s] \/ (shipStatus[s] = "NONE" /\ shipStatus'[s] = "PLANNED")
  BY DEF ConfirmPick, CreateShipment, TypeOK
<1>4. /\ \A ln : PackedOf(ln)' = PackedOf(ln)
      /\ \A s : LinkedUnits(s)' = LinkedUnits(s) /\ ContentsOf(LinkedUnits(s))' = ContentsOf(LinkedUnits(s))
  BY <1>1 DEF PackedOf, OfLine, LinkedUnits, ContentsOf
<1>5. ASSUME ~overlapped PROVE Settled'
  <2>1. Settled
    BY <1>5 DEF SInv
  <2>2. PackedWithinPicked'
    <3> SUFFICES ASSUME NEW ln \in Lines PROVE PackedOf(ln) <= pickedQty'[ln]
      BY <1>4 DEF PackedWithinPicked
    <3>1. PackedOf(ln) \in Nat /\ pickedQty[ln] \in Nat /\ pickedQty'[ln] \in Nat
      BY PackedType DEF TypeOK
    <3> QED
      BY <1>2, <2>1, <3>1 DEF Settled, PackedWithinPicked
  <2>3. LinkedOnce'
    BY <1>1, <2>1 DEF Settled, LinkedOnce
  <2>4. ShippedIsLoaded'
    BY <1>1, <1>3, <1>4, <2>1 DEF Settled, ShippedIsLoaded
  <2> QED
    BY <2>2, <2>3, <2>4 DEF Settled
<1>6. ASSUME ~overlapped, NEW w \in Workers PROVE Solo(pc[w], tx[w])'
  <2>1. PICK c \in Control, x \in Tx : c = pc[w] /\ x = tx[w]
    BY DEF TypeOK
  <2>2. Solo(c, x) /\ (c \notin {"idle", "pack"} => x.ship \in Ships)
    BY <1>6, <2>1 DEF SInv, IInv, StepOK, Control
  <2>3. \A ln \in Lines : /\ pickedQty[ln] \in Nat /\ pickedQty'[ln] \in Nat /\ PackedOf(ln) \in Nat
                          /\ x.added[ln] \in Nat /\ x.limit[ln] \in Nat
    BY PackedType DEF TypeOK, Tx
  <2>4. c = "pack" => \A ln \in Lines : /\ x.limit[ln] <= pickedQty'[ln]
                                        /\ PackedOf(ln)' + x.added[ln] <= pickedQty'[ln]
    BY <1>2, <1>4, <2>2, <2>3 DEF Solo
  <2>5. c \notin {"idle", "pack"} => Open(x.ship)'
    BY <1>3, <2>2 DEF Solo, Open
  <2>6. Solo(c, x)'
    BY <1>1, <1>4, <2>2, <2>4, <2>5 DEF Solo, Linked
  <2>7. c = pc'[w] /\ x = tx'[w]
    BY <1>1, <2>1
  <2> QED
    BY <2>6, <2>7 DEF Solo
<1>7. SInv'
  BY <1>1, <1>5, <1>6 DEF SInv, Alone
<1>8. DispatchedStays
  BY <1>1, <1>3 DEF DispatchedStays
<1> QED
  BY <1>7, <1>8

LEMMA NextSInv ==
  IInv /\ TypeOK /\ SInv /\ [Next]_vars
    => SInv' /\ [~overlapped' => DispatchedStays]_<<shipStatus, links, shipped>>
<1> SUFFICES ASSUME IInv, TypeOK, SInv, [Next]_vars
             PROVE  SInv' /\ [~overlapped' => DispatchedStays]_<<shipStatus, links, shipped>>
  OBVIOUS
<1>1. TypeOK'
  BY NextType
<1>2. CASE UNCHANGED vars
  <2>1. UNCHANGED <<pickedQty, packed, shipStatus, links, shipped, overlapped, pc, tx>>
    BY <1>2 DEF vars, rows
  <2>2. SInv'
    <3>1. /\ \A ln : PackedOf(ln)' = PackedOf(ln)
          /\ \A s : LinkedUnits(s)' = LinkedUnits(s) /\ ContentsOf(LinkedUnits(s))' = ContentsOf(LinkedUnits(s))
      BY <2>1 DEF PackedOf, OfLine, LinkedUnits, ContentsOf
    <3>2. Settled' <=> Settled
      BY <2>1, <3>1 DEF Settled, PackedWithinPicked, LinkedOnce, ShippedIsLoaded
    <3>3. ASSUME NEW w \in Workers PROVE Solo(pc[w], tx[w])' <=> Solo(pc[w], tx[w])
      <4>1. PICK c, x : c = pc[w] /\ x = tx[w] /\ c = pc'[w] /\ x = tx'[w]
        BY <2>1
      <4>2. Solo(c, x)' <=> Solo(c, x)
        BY <2>1, <3>1 DEF Solo, Open, Linked
      <4> QED
        BY <4>1, <4>2 DEF Solo
    <3> QED
      BY <2>1, <3>2, <3>3 DEF SInv, Alone
  <2> QED
    BY <2>1, <2>2
<1>3. CASE (\E ln \in Lines : ConfirmPick(ln)) \/ (\E s \in Ships : CreateShipment(s))
  BY <1>1, <1>3, LoneOutside
<1>4. ASSUME NEW w \in Workers, Assign(w) \/ Dispatch(w)
      PROVE  SInv' /\ (~overlapped' => DispatchedStays)
  BY <1>1, <1>4, LoneAssign, LoneDispatch
<1>5. ASSUME NEW w \in Workers,
             \/ \E u \in Units, items \in Packs : ReadOrder(w, u, items)
             \/ \E s \in Ships : ReadDispatch(w, s) \/ \E us \in Loads : ReadShipment(w, s, us)
             \/ PackItem(w) \/ CommitItems(w) \/ ReadUnits(w) \/ ReadLinks(w)
             \/ CheckLinks(w) \/ ReadCargo(w) \/ ReadContents(w)
             \/ RefuseItem(w) \/ RefuseUnits(w) \/ RefuseDispatch(w) \/ Fail(w)
      PROVE  SInv' /\ UNCHANGED <<shipStatus, links, shipped>>
  <2>1. UNCHANGED <<shipStatus, links, shipped>>
    BY <1>5 DEF ReadOrder, ReadDispatch, ReadShipment, PackItem, CommitItems, ReadUnits, ReadLinks,
       CheckLinks, ReadCargo, ReadContents, RefuseItem, RefuseUnits, RefuseDispatch, Fail, Rollback,
       Local, rows
  <2>2. CASE RefuseItem(w) \/ RefuseUnits(w) \/ RefuseDispatch(w) \/ Fail(w)
    BY <2>1, <2>2, LoneRollback DEF RefuseItem, RefuseUnits, RefuseDispatch, Fail
  <2>3. CASE PackItem(w) \/ CommitItems(w)
    BY <1>1, <2>1, <2>3, LonePackItem, LoneCommitItems
  <2>4. CASE \E u \in Units, items \in Packs : ReadOrder(w, u, items)
    BY <2>1, <2>4, LoneReadOrder
  <2>5. CASE \/ \E s \in Ships : ReadDispatch(w, s) \/ \E us \in Loads : ReadShipment(w, s, us)
             \/ ReadUnits(w) \/ ReadLinks(w) \/ CheckLinks(w) \/ ReadCargo(w) \/ ReadContents(w)
    BY <2>1, <2>5, LoneReads
  <2> QED
    BY <1>5, <2>2, <2>3, <2>4, <2>5
<1> QED
  BY <1>2, <1>3, <1>4, <1>5 DEF Next, Statement

\* Requests that do not overlap, in any number and order and failing anywhere, pack no more
\* than was picked and link no unit twice; what has left is what was loaded, counted once,
\* and a shipment that has left stays as it left.
THEOREM LoneRequestsShipExactly == Spec => SerialShipping
<1>1. SInv => (~overlapped => PackedWithinPicked /\ LinkedOnce /\ ShippedIsLoaded)
  BY DEF SInv, Settled
<1>2. Spec => []SInv /\ [][~overlapped' => DispatchedStays]_<<shipStatus, links, shipped>>
  BY InitSInv, NextSInv, Invariance, TypeCorrect, PTL DEF Spec
<1>3. Spec => [](~overlapped => PackedWithinPicked /\ LinkedOnce /\ ShippedIsLoaded)
  BY <1>1, <1>2, PTL
<1> QED
  BY <1>2, <1>3, PTL DEF SerialShipping
=============================================================================
