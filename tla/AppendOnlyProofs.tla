--------------------------- MODULE AppendOnlyProofs ---------------------------
(***************************************************************************)
(* The two components that read table after table, outside any lock and    *)
(* any transaction, and can be relied on all the same, because what they   *)
(* read is only ever added to.                                             *)
(*                                                                         *)
(* Traceability: the rows that a query selects by are never taken away     *)
(* (Grows), so what a read returned stays true (Progress), and the tables  *)
(* are read in the order in which their rows come to refer to each other   *)
(* (MovesAreBacked).  A stored answer is worth what it was when stored.    *)
(*                                                                         *)
(* Waves: a wave keeps the orders it was made of (WavesStay) and its tasks *)
(* stay (TasksStay), so the lines and locations a handler has read are     *)
(* still those of the wave when it writes (LinesOK, WalksOK).  What        *)
(* grouping, cutting into chunks, and the walk to the nearest location     *)
(* compute is proved first, from the definitions of those operators.       *)
(***************************************************************************)
EXTENDS Traceability, Waves, SequenceTheorems, SumLemmas, TLAPS

(***************************************************************************)
(*                              TRACEABILITY                               *)
(***************************************************************************)

OrdersPlanning(b) == About(LinesPlanning(b))
UnitsHolding(b)   == About(LinesHolding(b))
ShipsDeparted(c)  == About(DeparturesFor(c))

FiniteRows == IsFiniteSet(moved) /\ IsFiniteSet(packed) /\ IsFiniteSet(left)

Grows ==
  /\ moved \subseteq moved' /\ planned \subseteq planned' /\ packed \subseteq packed'
  /\ links \subseteq links' /\ left \subseteq left'
  /\ FiniteRows'

\* Every logged pick was planned, and every logged exit leads to a unit aboard.
MovesAreBacked ==
  \A m \in moved : /\ m[2] \in Orders => m[2] \in OrdersPlanning(m[3])
                   /\ m[2] \in Ships => m[2] \in ShipsLoading(UnitsHolding(m[3]))

\* What an answer about k that is complete is worth.
Named(k, a, docs) == \A m \in a.moves : m[2] \in docs => m[2] \in a.orders \cup a.shipments
Owned(k, ss, os)  == \A s \in ss : \E o \in os : s \in ShipsCarrying(o) /\ CustomerOf[o] = k
Crossed(k, a) == /\ k \in Batches /\ Fits(k) => Named(k, a, Orders \cup Ships)
                 /\ k \in Customers => Owned(k, a.shipments, a.orders)
Good(k, a, s) == /\ Within(s, Recorded(k)) /\ Within(a, Recorded(k))
                 /\ Fits(k) => Within(s, a)
                 /\ Crossed(k, a)

Kind(c, t) ==
  /\ c # "idle" => t.ask \in Questions
  /\ c \in {"receipts", "orders", "lines", "links"} => t.ask \in Batches
  /\ c = "moves" => t.ask \in Batches \cup Orders
  /\ c \in {"departed", "carried"} => t.ask \in Customers
  /\ c = "shipped" => t.ask \in Orders
  /\ c = "store" => t.ask \in Cached

\* Nothing is told that is not recorded.
Sound(c, t) ==
  c # "idle" => Within(t.since, Recorded(t.ask)) /\ Within(t.answer, Recorded(t.ask))

\* What has been read by now of a trace that fits has all there was when the reads began,
\* and the documents of the movements read before.
BatchProgress(c, t) ==
  /\ t.ask \in Batches /\ c = "links" => t.units \subseteq UnitsHolding(t.ask)
  /\ t.ask \in Batches /\ Fits(t.ask) =>
       /\ c \in {"orders", "lines", "links", "store", "told"} =>
            t.since.moves \subseteq t.answer.moves
       /\ c \in {"lines", "links", "store", "told"} =>
            t.since.orders \subseteq t.answer.orders /\ Named(t.ask, t.answer, Orders)
       /\ c = "links" =>
            /\ t.since.shipments \subseteq ShipsLoading(t.units)
            /\ \A m \in t.answer.moves : m[2] \in Ships => m[2] \in ShipsLoading(t.units)
       /\ c \in {"store", "told"} =>
            t.since.shipments \subseteq t.answer.shipments /\ Named(t.ask, t.answer, Ships)

CustomerProgress(c, t) ==
  t.ask \in Customers =>
    /\ c \in {"departed", "carried"} => t.since.orders \subseteq OrdersAboard(t.since.shipments)
    /\ c \in {"carried", "store", "told"} =>
         /\ Fits(t.ask) => t.since.shipments \subseteq t.answer.shipments
         /\ Owned(t.ask, t.answer.shipments, Orders)
    /\ c \in {"store", "told"} =>
         /\ Fits(t.ask) => t.since.orders \subseteq t.answer.orders
         /\ Owned(t.ask, t.answer.shipments, t.answer.orders)

OrderProgress(c, t) ==
  t.ask \in Orders =>
    /\ c \in {"moves", "told"} => t.since.shipments \subseteq t.answer.shipments
    /\ c = "told" => t.since.moves \subseteq t.answer.moves

Progress(c, t) ==
  Kind(c, t) /\ Sound(c, t) /\ BatchProgress(c, t) /\ CustomerProgress(c, t) /\ OrderProgress(c, t)

QueriesOK == \A w \in Workers : Progress(pc[w], tx[w])
CacheOK   == \A k \in Cached : cache[k].age # "none" => Good(k, cache[k].answer, cache[k].since)

Inv == TypeOK /\ FiniteRows /\ MovesAreBacked /\ QueriesOK /\ CacheOK

-----------------------------------------------------------------------------
(* Kinds of questions.                                                     *)

LEMMA RecordedBatch ==
  ASSUME NEW k \in Batches
  PROVE  Recorded(k) = [receipts |-> {}, moves |-> MovesOf(k), orders |-> OrdersPlanning(k),
                        shipments |-> ShipsLoading(UnitsHolding(k))]
<1>1. k \notin Customers
  BY TraceabilityAssumption
<1> QED
  BY <1>1 DEF Recorded, OrdersPlanning, UnitsHolding

LEMMA RecordedCustomer ==
  ASSUME NEW k \in Customers
  PROVE  Recorded(k) = [receipts |-> {}, moves |-> {}, orders |-> OrdersAboard(ShipsDeparted(k)),
                        shipments |-> ShipsDeparted(k)]
<1>1. k \notin Batches
  BY TraceabilityAssumption
<1> QED
  BY <1>1 DEF Recorded, ShipsDeparted

LEMMA RecordedOrder ==
  ASSUME NEW k \in Orders
  PROVE  Recorded(k) = [receipts |-> {}, moves |-> MovesUnder(k), orders |-> {},
                        shipments |-> ShipsCarrying(k)]
<1>1. k \notin Batches /\ k \notin Customers
  BY TraceabilityAssumption
<1> QED
  BY <1>1 DEF Recorded

LEMMA Kinds ==
  ASSUME NEW k \in Questions
  PROVE  \/ k \in Batches /\ k \notin Customers /\ k \notin Orders
         \/ k \in Customers /\ k \notin Batches /\ k \notin Orders
         \/ k \in Orders /\ k \notin Batches /\ k \notin Customers
  BY TraceabilityAssumption DEF Questions, Cached

-----------------------------------------------------------------------------
(* Pages.                                                                  *)

LEMMA PagePart ==
  ASSUME NEW rows
  PROVE  About(Oldest(rows)) \subseteq About(rows) /\ About(Newest(rows)) \subseteq About(rows)
         /\ Oldest(rows) \subseteq rows
  BY DEF About, Oldest, Newest

LEMMA FewerBefore ==
  ASSUME NEW rows, IsFiniteSet(rows), AllOnPage(rows), NEW x \in rows, NEW before,
         before \subseteq rows, x \notin before
  PROVE  OnPage(Cardinality(before))
<1>1. IsFiniteSet(rows \ {x}) /\ Cardinality(rows \ {x}) = Cardinality(rows) - 1
  BY FS_RemoveElement
<1>2. before \subseteq rows \ {x}
  OBVIOUS
<1>3. IsFiniteSet(before) /\ Cardinality(before) <= Cardinality(rows \ {x})
  BY <1>1, <1>2, FS_Subset
<1>4. Cardinality(before) \in Nat /\ Cardinality(rows) \in Nat
  BY <1>3, FS_CardinalityType
<1> QED
  BY <1>1, <1>3, <1>4, TraceabilityAssumption DEF AllOnPage, OnPage

\* A page that has room for all rows has all of them.
LEMMA PageAll ==
  ASSUME NEW rows, IsFiniteSet(rows), AllOnPage(rows), \A x \in rows : x[1] \in Nat
  PROVE  Oldest(rows) = rows /\ Newest(rows) = rows
<1> SUFFICES ASSUME NEW x \in rows
             PROVE  /\ OnPage(Cardinality({y \in rows : y[1] < x[1]}))
                    /\ OnPage(Cardinality({y \in rows : y[1] > x[1]}))
  BY DEF Oldest, Newest
<1>1. x \notin {y \in rows : y[1] < x[1]} /\ x \notin {y \in rows : y[1] > x[1]}
  OBVIOUS
<1> QED
  BY <1>1, FewerBefore

LEMMA RowsOfTrace ==
  ASSUME TypeOK, FiniteRows, NEW k
  PROVE  /\ IsFiniteSet(MovesOf(k)) /\ IsFiniteSet(LinesPlanning(k))
         /\ IsFiniteSet(LinesHolding(k)) /\ IsFiniteSet(DeparturesFor(k))
         /\ \A x \in MovesOf(k) \cup LinesPlanning(k) : x[1] \in Nat
         /\ \A x \in LinesHolding(k) \cup DeparturesFor(k) : x[1] \in Nat
<1>1. /\ MovesOf(k) \subseteq moved /\ LinesPlanning(k) \subseteq OLines
      /\ LinesHolding(k) \subseteq packed /\ DeparturesFor(k) \subseteq left
  BY DEF MovesOf, LinesPlanning, LinesHolding, DeparturesFor
<1>2. /\ \A x \in moved : x[1] \in Nat
      /\ \A x \in OLines : x[1] \in Nat
      /\ \A x \in packed : x[1] \in Nat
      /\ \A x \in left : x[1] \in Nat
  BY TraceabilityAssumption DEF TypeOK, Moves
<1>3. /\ IsFiniteSet(MovesOf(k)) /\ IsFiniteSet(LinesPlanning(k))
      /\ IsFiniteSet(LinesHolding(k)) /\ IsFiniteSet(DeparturesFor(k))
  BY <1>1, FS_Subset, TraceabilityAssumption DEF FiniteRows
<1> QED
  BY <1>1, <1>2, <1>3

\* A trace that fits is read whole.
LEMMA FittingIsWhole ==
  ASSUME TypeOK, FiniteRows, NEW k, Fits(k)
  PROVE  /\ k \in Batches => /\ Oldest(MovesOf(k)) = MovesOf(k)
                             /\ Newest(LinesPlanning(k)) = LinesPlanning(k)
                             /\ Newest(LinesHolding(k)) = LinesHolding(k)
         /\ k \in Customers => Newest(DeparturesFor(k)) = DeparturesFor(k)
<1>1. CASE k \in Batches
  <2>1. AllOnPage(MovesOf(k)) /\ AllOnPage(LinesPlanning(k)) /\ AllOnPage(LinesHolding(k))
    BY <1>1 DEF Fits
  <2>2. Oldest(MovesOf(k)) = MovesOf(k)
    BY <2>1, RowsOfTrace, PageAll
  <2>3. Newest(LinesPlanning(k)) = LinesPlanning(k)
    BY <2>1, RowsOfTrace, PageAll
  <2>4. Newest(LinesHolding(k)) = LinesHolding(k)
    BY <2>1, RowsOfTrace, PageAll
  <2> QED
    BY <1>1, <2>2, <2>3, <2>4, TraceabilityAssumption
<1>2. CASE k \in Customers
  <2>1. AllOnPage(DeparturesFor(k))
    BY <1>2 DEF Fits
  <2>2. Newest(DeparturesFor(k)) = DeparturesFor(k)
    BY <2>1, RowsOfTrace, PageAll
  <2> QED
    BY <1>2, <2>2, TraceabilityAssumption
<1> QED
  BY <1>1, <1>2

LEMMA FewerFit ==
  ASSUME NEW few, NEW rows, few \subseteq rows, IsFiniteSet(rows), AllOnPage(rows)
  PROVE  AllOnPage(few)
<1>1. IsFiniteSet(few) /\ Cardinality(few) <= Cardinality(rows)
  BY FS_Subset
<1>2. Cardinality(few) \in Nat /\ Cardinality(rows) \in Nat
  BY <1>1, FS_CardinalityType
<1> QED
  BY <1>1, <1>2, TraceabilityAssumption DEF AllOnPage

\* A trace that fits has always fitted.
LEMMA FitsStays ==
  ASSUME Grows, NEW k, Fits(k)'
  PROVE  Fits(k)
<1>1. CASE k \in Batches
  <2>1. /\ MovesOf(k) \subseteq MovesOf(k)' /\ LinesPlanning(k) \subseteq LinesPlanning(k)'
        /\ LinesHolding(k) \subseteq LinesHolding(k)'
    BY DEF Grows, MovesOf, LinesPlanning, LinesHolding
  <2>2. /\ MovesOf(k)' \subseteq moved' /\ LinesPlanning(k)' \subseteq OLines
        /\ LinesHolding(k)' \subseteq packed'
    BY DEF MovesOf, LinesPlanning, LinesHolding
  <2>3. /\ IsFiniteSet(MovesOf(k)') /\ IsFiniteSet(LinesPlanning(k)')
        /\ IsFiniteSet(LinesHolding(k)')
    BY <2>2, FS_Subset, TraceabilityAssumption DEF Grows, FiniteRows
  <2>4. /\ AllOnPage(MovesOf(k)') /\ AllOnPage(LinesPlanning(k)')
        /\ AllOnPage(LinesHolding(k)')
    BY <1>1 DEF Fits, AllOnPage
  <2>5. AllOnPage(MovesOf(k)) /\ AllOnPage(LinesPlanning(k)) /\ AllOnPage(LinesHolding(k))
    BY <2>1, <2>3, <2>4, FewerFit
  <2> QED
    BY <1>1, <2>5, TraceabilityAssumption DEF Fits
<1>2. CASE k \in Customers
  <2>1. DeparturesFor(k) \subseteq DeparturesFor(k)' /\ DeparturesFor(k)' \subseteq left'
    BY DEF Grows, DeparturesFor, OrdersAboard
  <2>2. IsFiniteSet(DeparturesFor(k)')
    BY <2>1, FS_Subset DEF Grows, FiniteRows
  <2>3. AllOnPage(DeparturesFor(k)')
    BY <1>2 DEF Fits, AllOnPage
  <2>4. AllOnPage(DeparturesFor(k))
    BY <2>1, <2>2, <2>3, FewerFit
  <2> QED
    BY <1>2, <2>4, TraceabilityAssumption DEF Fits
<1> QED
  BY <1>1, <1>2 DEF Fits

-----------------------------------------------------------------------------
(* What a step adds.                                                       *)

LEMMA ShipsGrow ==
  ASSUME Grows, NEW us, NEW vs, us \subseteq vs
  PROVE  ShipsLoading(us) \subseteq {s \in Ships : \E u \in vs, o \in Orders : <<s, u, o>> \in links'}
  BY DEF Grows, ShipsLoading

LEMMA UnitsGrow ==
  ASSUME Grows, NEW b
  PROVE  UnitsHolding(b) \subseteq UnitsHolding(b)' /\ OrdersPlanning(b) \subseteq OrdersPlanning(b)'
  BY DEF Grows, UnitsHolding, LinesHolding, OrdersPlanning, LinesPlanning, About

LEMMA LoadedGrow ==
  ASSUME Grows, NEW b
  PROVE  ShipsLoading(UnitsHolding(b)) \subseteq ShipsLoading(UnitsHolding(b))'
<1>1. UnitsHolding(b) \subseteq UnitsHolding(b)'
  BY UnitsGrow
<1> QED
  BY <1>1 DEF Grows, ShipsLoading

LEMMA AboardGrow ==
  ASSUME Grows, NEW ss
  PROVE  OrdersAboard(ss) \subseteq OrdersAboard(ss)'
  BY DEF Grows, OrdersAboard

LEMMA CarryingGrow ==
  ASSUME Grows, NEW o
  PROVE  ShipsCarrying(o) \subseteq ShipsCarrying(o)'
  BY DEF Grows, ShipsCarrying

LEMMA DeparturesGrow ==
  ASSUME Grows, NEW c
  PROVE  ShipsDeparted(c) \subseteq ShipsDeparted(c)'
  BY DEF Grows, ShipsDeparted, DeparturesFor, OrdersAboard, About

LEMMA DepartedAboardGrow ==
  ASSUME Grows, NEW c
  PROVE  OrdersAboard(ShipsDeparted(c)) \subseteq OrdersAboard(ShipsDeparted(c))'
<1>1. ShipsDeparted(c) \subseteq ShipsDeparted(c)'
  BY DeparturesGrow
<1> QED
  BY <1>1 DEF Grows, OrdersAboard

LEMMA RecordedGrows ==
  ASSUME Grows, NEW k \in Questions
  PROVE  Within(Recorded(k), Recorded(k)')
<1>1. CASE k \in Batches
  <2>1. MovesOf(k) \subseteq MovesOf(k)' /\ OrdersPlanning(k) \subseteq OrdersPlanning(k)'
    BY UnitsGrow DEF Grows, MovesOf
  <2>2. Recorded(k)' = [receipts |-> {}, moves |-> MovesOf(k)', orders |-> OrdersPlanning(k)',
                        shipments |-> ShipsLoading(UnitsHolding(k))']
    <3>1. k \notin Customers
      BY <1>1, TraceabilityAssumption
    <3> QED
      BY <1>1, <3>1 DEF Recorded, OrdersPlanning, UnitsHolding
  <2> QED
    BY <1>1, <2>1, <2>2, LoadedGrow, RecordedBatch DEF Within
<1>2. CASE k \in Customers
  <2>1. k \notin Batches
    BY <1>2, TraceabilityAssumption
  <2>2. Recorded(k)' = [receipts |-> {}, moves |-> {}, orders |-> OrdersAboard(ShipsDeparted(k))',
                        shipments |-> ShipsDeparted(k)']
    BY <1>2, <2>1 DEF Recorded, ShipsDeparted
  <2> QED
    BY <1>2, <2>2, DeparturesGrow, DepartedAboardGrow, RecordedCustomer DEF Within
<1>3. CASE k \in Orders
  <2>1. k \notin Batches /\ k \notin Customers
    BY <1>3, TraceabilityAssumption
  <2>2. Recorded(k)' = [receipts |-> {}, moves |-> MovesUnder(k)', orders |-> {},
                        shipments |-> ShipsCarrying(k)']
    BY <2>1 DEF Recorded
  <2> QED
    BY <1>3, <2>2, CarryingGrow, RecordedOrder DEF Within, Grows, MovesUnder
<1> QED
  BY <1>1, <1>2, <1>3 DEF Questions, Cached

LEMMA WithinTrans ==
  ASSUME NEW a, NEW b, NEW c, Within(a, b), Within(b, c)
  PROVE  Within(a, c)
  BY DEF Within

LEMMA OwnedGrows ==
  ASSUME Grows, NEW k, NEW ss, NEW os, Owned(k, ss, os)
  PROVE  Owned(k, ss, os)'
  BY CarryingGrow DEF Owned

LEMMA GoodStays ==
  ASSUME Grows, NEW k \in Questions, NEW a, NEW s, Good(k, a, s)
  PROVE  Good(k, a, s)'
<1>1. Within(a, Recorded(k)') /\ Within(s, Recorded(k)')
  BY RecordedGrows, WithinTrans DEF Good
<1>2. k \in Customers => Owned(k, a.shipments, a.orders)'
  BY OwnedGrows DEF Good, Crossed
<1>3. Fits(k)' => Within(s, a) /\ (k \in Batches => Named(k, a, Orders \cup Ships))
  BY FitsStays DEF Good, Crossed
<1> QED
  BY <1>1, <1>2, <1>3 DEF Good, Crossed, Named, Within

\* What a request knows stays true while others write.
LEMMA ProgressStays ==
  ASSUME Grows, NEW c, NEW t, Progress(c, t)
  PROVE  Progress(c, t)'
<1>1. Kind(c, t)'
  BY DEF Progress, Kind
<1>2. Sound(c, t)'
  <2>1. CASE c = "idle"
    BY <2>1 DEF Sound
  <2>2. CASE c # "idle"
    <3>1. t.ask \in Questions
      BY <2>2 DEF Progress, Kind
    <3>2. Within(t.since, Recorded(t.ask)) /\ Within(t.answer, Recorded(t.ask))
      BY <2>2 DEF Progress, Sound
    <3>3. Within(Recorded(t.ask), Recorded(t.ask)')
      BY <3>1, RecordedGrows
    <3> QED
      BY <3>2, <3>3, WithinTrans DEF Sound
  <2> QED
    BY <2>1, <2>2
<1>3. BatchProgress(c, t)'
  <2>1. UnitsHolding(t.ask) \subseteq UnitsHolding(t.ask)'
    BY UnitsGrow
  <2>2. ShipsLoading(t.units) \subseteq ShipsLoading(t.units)'
    BY DEF Grows, ShipsLoading
  <2>3. Fits(t.ask)' => Fits(t.ask)
    BY FitsStays
  <2> QED
    BY <2>1, <2>2, <2>3 DEF Progress, BatchProgress, Named
<1>4. CustomerProgress(c, t)'
  <2>1. OrdersAboard(t.since.shipments) \subseteq OrdersAboard(t.since.shipments)'
    BY AboardGrow
  <2>2. \A os : Owned(t.ask, t.answer.shipments, os) => Owned(t.ask, t.answer.shipments, os)'
    BY OwnedGrows
  <2>3. Fits(t.ask)' => Fits(t.ask)
    BY FitsStays
  <2> QED
    BY <2>1, <2>2, <2>3 DEF Progress, CustomerProgress
<1>5. OrderProgress(c, t)'
  BY DEF Progress, OrderProgress
<1> QED
  BY <1>1, <1>2, <1>3, <1>4, <1>5 DEF Progress

-----------------------------------------------------------------------------
(* Types.                                                                  *)

LEMMA NothingType == Nothing \in Answer /\ NoTx \in Tx /\ NoEntry \in Entry
  BY DEF Nothing, Answer, NoTx, Tx, NoEntry, Entry

LEMMA RecordedType ==
  ASSUME TypeOK, NEW k \in Questions
  PROVE  Recorded(k) \in Answer
<1>1. \A b : MovesOf(b) \subseteq Moves
  BY DEF TypeOK, MovesOf
<1>2. \A b : OrdersPlanning(b) \subseteq Orders
  BY TraceabilityAssumption DEF OrdersPlanning, LinesPlanning, About
<1>3. \A us : ShipsLoading(us) \subseteq Ships
  BY DEF ShipsLoading
<1>4. \A ss : OrdersAboard(ss) \subseteq Orders
  BY DEF OrdersAboard
<1>5. \A c : ShipsDeparted(c) \subseteq Ships
  BY DEF ShipsDeparted, DeparturesFor, About, TypeOK
<1>6. \A o : ShipsCarrying(o) \subseteq Ships
  BY DEF ShipsCarrying
<1>7. MovesUnder(k) \subseteq Moves
  BY DEF TypeOK, MovesUnder
<1>8. CASE k \in Batches
  BY <1>1, <1>2, <1>3, <1>8, RecordedBatch DEF Answer
<1>9. CASE k \in Customers
  BY <1>4, <1>5, <1>9, RecordedCustomer DEF Answer
<1>10. CASE k \in Orders
  BY <1>6, <1>7, <1>10, RecordedOrder DEF Answer
<1> QED
  BY <1>8, <1>9, <1>10 DEF Questions, Cached

LEMMA WhatRowsName ==
  ASSUME TypeOK, NEW k
  PROVE  /\ About(LinesNaming(k)) \subseteq Receipts /\ OrdersPlanning(k) \subseteq Orders
         /\ UnitsHolding(k) \subseteq Units /\ ShipsDeparted(k) \subseteq Ships
<1>1. About(LinesNaming(k)) \subseteq Receipts
  BY TraceabilityAssumption DEF LinesNaming, About
<1>2. OrdersPlanning(k) \subseteq Orders
  BY TraceabilityAssumption DEF OrdersPlanning, LinesPlanning, About
<1>3. UnitsHolding(k) \subseteq Units
  BY DEF UnitsHolding, LinesHolding, About, TypeOK
<1>4. ShipsDeparted(k) \subseteq Ships
  BY DEF ShipsDeparted, DeparturesFor, About, TypeOK
<1> QED
  BY <1>1, <1>2, <1>3, <1>4

-----------------------------------------------------------------------------
(* Every step only adds.                                                   *)

LEMMA SameGrows == ASSUME FiniteRows, UNCHANGED db PROVE Grows
  BY DEF db, Grows, FiniteRows

LEMMA OneMore ==
  ASSUME FiniteRows, NEW x
  PROVE  IsFiniteSet(moved \cup {x}) /\ IsFiniteSet(packed \cup {x}) /\ IsFiniteSet(left \cup {x})
  BY FS_AddElement DEF FiniteRows

\* The place of a line that a dispatch logs, and that there are finitely many.
LEMMA LoggedAboard ==
  ASSUME FiniteRows, NEW s, NEW d, Dispatch(s, d)
  PROVE  \E new : /\ moved' = moved \cup new /\ IsFiniteSet(new)
                  /\ \A m \in new : \E n \in Nat, l \in LinesAboard(s) : m = <<n, s, l[4]>>
<1> DEFINE A       == LinesAboard(s)
           rank(l) == Cardinality({x \in A : x[1] <= l[1]})
           new     == {<<Cardinality(moved) + rank(l), s, l[4]>> : l \in A}
<1>1. moved' = moved \cup new
  BY DEF Dispatch, Log
<1>2. IsFiniteSet(A)
  BY FS_Subset DEF FiniteRows, LinesAboard
<1>3. \A l \in A : rank(l) \in Nat
  <2> SUFFICES ASSUME NEW l \in A PROVE rank(l) \in Nat
    OBVIOUS
  <2>1. IsFiniteSet({x \in A : x[1] <= l[1]})
    BY <1>2, FS_Subset
  <2> QED
    BY <2>1, FS_CardinalityType
<1>4. Cardinality(moved) \in Nat
  BY FS_CardinalityType DEF FiniteRows
<1>5. \A m \in new : \E n \in Nat, l \in A : m = <<n, s, l[4]>>
  <2> SUFFICES ASSUME NEW l \in A
               PROVE  \E n \in Nat : <<Cardinality(moved) + rank(l), s, l[4]>> = <<n, s, l[4]>>
    OBVIOUS
  <2>1. PICK a, b : a = Cardinality(moved) /\ b = rank(l)
    OBVIOUS
  <2>2. a + b \in Nat
    BY <1>3, <1>4, <2>1
  <2> QED
    BY <2>1, <2>2
<1>6. IsFiniteSet(new)
  <2>1. PICK f : f = [l \in A |-> <<Cardinality(moved) + rank(l), s, l[4]>>]
    OBVIOUS
  <2>2. f \in [A -> new] /\ \A m \in new : \E l \in A : f[l] = m
    BY <2>1
  <2>3. f \in Surjection(A, new)
    BY <2>2 DEF Surjection
  <2> HIDE DEF A, new
  <2> QED
    BY <1>2, <2>3, FS_Surjection
<1> QED
  BY <1>1, <1>5, <1>6

LEMMA DispatchGrows == ASSUME FiniteRows, NEW s, NEW d, Dispatch(s, d) PROVE Grows
<1>1. PICK new : moved' = moved \cup new /\ IsFiniteSet(new)
  BY LoggedAboard
<1>2. IsFiniteSet(moved')
  BY <1>1, FS_Union DEF FiniteRows
<1> QED
  BY <1>1, <1>2, OneMore DEF Dispatch, Grows, FiniteRows

LEMMA WriteGrows == ASSUME FiniteRows, Write PROVE Grows
<1>1. ASSUME NEW rl, NEW b, AddLine(rl, b) PROVE Grows
  BY <1>1 DEF AddLine, Grows, FiniteRows
<1>2. ASSUME NEW rl, NEW b, Receive(rl, b) PROVE Grows
  BY <1>2, OneMore DEF Receive, LogOne, Log, Grows, FiniteRows
<1>3. ASSUME NEW o, NEW ps, Plan(o, ps) PROVE Grows
  BY <1>3 DEF Plan, Grows, FiniteRows
<1>4. ASSUME NEW o, NEW b, ConfirmPick(o, b) PROVE Grows
  BY <1>4, OneMore DEF ConfirmPick, LogOne, Log, Grows, FiniteRows
<1>5. ASSUME NEW u, NEW o, NEW b, Pack(u, o, b) PROVE Grows
  BY <1>5, OneMore DEF Pack, Grows, FiniteRows
<1>6. ASSUME NEW s, NEW u, Assign(s, u) PROVE Grows
  BY <1>6 DEF Assign, Grows, FiniteRows
<1> QED
  BY <1>1, <1>2, <1>3, <1>4, <1>5, <1>6, DispatchGrows DEF Write

LEMMA StepGrows == ASSUME FiniteRows, [Next]_vars PROVE Grows
<1>1. CASE UNCHANGED vars
  BY <1>1, SameGrows DEF vars
<1>2. ASSUME NEW w, Statement(w) PROVE UNCHANGED db
  BY <1>2 DEF Statement, ReadReceipts, ReadMoves, ReadOrders, ReadLines, ReadLinks, ReadDeparted,
              ReadCarried, ReadShipped, Read, Store, Heard
<1>3. ASSUME NEW w, NEW k, Fail(w) \/ Hit(w, k) \/ Miss(w, k) PROVE UNCHANGED db
  BY <1>3 DEF Fail, Hit, Miss
<1>4. ASSUME NEW k, Elapse(k) PROVE UNCHANGED db
  BY <1>4 DEF Elapse
<1>5. CASE Next
  BY <1>5, <1>2, <1>3, <1>4, SameGrows, WriteGrows DEF Next
<1> QED
  BY <1>1, <1>5

\* What the document of a logged movement refers to stays there.
LEMMA BackedGrows ==
  ASSUME MovesAreBacked, Grows, NEW m \in moved
  PROVE  /\ m[2] \in Orders => m[2] \in OrdersPlanning(m[3])'
         /\ m[2] \in Ships => m[2] \in ShipsLoading(UnitsHolding(m[3]))'
<1>1. ShipsLoading(UnitsHolding(m[3])) \subseteq ShipsLoading(UnitsHolding(m[3]))'
  BY LoadedGrow
<1>2. OrdersPlanning(m[3]) \subseteq OrdersPlanning(m[3])'
  BY UnitsGrow
<1> QED
  BY <1>1, <1>2 DEF MovesAreBacked

LEMMA StepBacked ==
  ASSUME TypeOK, FiniteRows, MovesAreBacked, [Next]_vars
  PROVE  MovesAreBacked'
<1>0. Grows
  BY StepGrows
<1>1. ASSUME \A m \in moved' : m \in moved \/
                 /\ m[2] \in Orders => m[2] \in OrdersPlanning(m[3])'
                 /\ m[2] \in Ships => m[2] \in ShipsLoading(UnitsHolding(m[3]))'
      PROVE  MovesAreBacked'
  BY <1>0, <1>1, BackedGrows DEF MovesAreBacked
<1>2. ASSUME NEW rl \in RLines, NEW b \in Batches, Receive(rl, b) PROVE MovesAreBacked'
  <2>1. rl[2] \notin Orders /\ rl[2] \notin Ships
    BY TraceabilityAssumption
  <2>2. moved' = moved \cup {<<Cardinality(moved) + 1, rl[2], b>>}
    BY <1>2 DEF Receive, LogOne, Log
  <2> QED
    BY <1>1, <2>1, <2>2
<1>3. ASSUME NEW o \in Orders, NEW b \in Batches, ConfirmPick(o, b) PROVE MovesAreBacked'
  <2>1. o \notin Ships
    BY TraceabilityAssumption
  <2>2. moved' = moved \cup {<<Cardinality(moved) + 1, o, b>>}
    BY <1>3 DEF ConfirmPick, LogOne, Log
  <2>3. o \in OrdersPlanning(b)
    BY <1>3 DEF ConfirmPick, Planned, OrdersPlanning, LinesPlanning, About
  <2>4. o \in OrdersPlanning(b)'
    BY <1>0, <2>3, UnitsGrow
  <2> QED
    BY <1>1, <2>1, <2>2, <2>4
<1>4. ASSUME NEW s \in Ships, NEW d \in Dates, Dispatch(s, d) PROVE MovesAreBacked'
  <2>1. s \notin Orders
    BY TraceabilityAssumption
  <2>2. PICK new : /\ moved' = moved \cup new
                   /\ \A m \in new : \E n \in Nat, l \in LinesAboard(s) : m = <<n, s, l[4]>>
    BY <1>4, LoggedAboard
  <2>3. \A l \in LinesAboard(s) : s \in ShipsLoading(UnitsHolding(l[4]))
    BY DEF LinesAboard, ShipsLoading, UnitsHolding, LinesHolding, About
  <2>4. \A l \in LinesAboard(s) : s \in ShipsLoading(UnitsHolding(l[4]))'
    BY <1>0, <2>3, LoadedGrow
  <2>5. \A m \in new : m[2] = s /\ s \in ShipsLoading(UnitsHolding(m[3]))'
    BY <2>2, <2>4
  <2> QED
    BY <1>1, <2>1, <2>2, <2>5
<1>5. CASE UNCHANGED moved
  BY <1>1, <1>5
<1>6. CASE UNCHANGED vars
  BY <1>5, <1>6 DEF vars, db
<1>7. CASE Write
  <2>1. ASSUME NEW rl \in RLines, NEW b \in Batches, AddLine(rl, b) PROVE UNCHANGED moved
    BY <2>1 DEF AddLine
  <2>2. ASSUME NEW o, NEW ps, Plan(o, ps) PROVE UNCHANGED moved
    BY <2>2 DEF Plan
  <2>3. ASSUME NEW u, NEW o, NEW b, Pack(u, o, b) PROVE UNCHANGED moved
    BY <2>3 DEF Pack
  <2>4. ASSUME NEW s, NEW u, Assign(s, u) PROVE UNCHANGED moved
    BY <2>4 DEF Assign
  <2> QED
    BY <1>7, <1>2, <1>3, <1>4, <1>5, <2>1, <2>2, <2>3, <2>4 DEF Write
<1>8. ASSUME NEW w, Statement(w) PROVE UNCHANGED moved
  BY <1>8 DEF Statement, ReadReceipts, ReadMoves, ReadOrders, ReadLines, ReadLinks, ReadDeparted,
              ReadCarried, ReadShipped, Read, Store, Heard, db
<1>9. ASSUME NEW w, NEW k, Fail(w) \/ Hit(w, k) \/ Miss(w, k) PROVE UNCHANGED moved
  BY <1>9 DEF Fail, Hit, Miss, db
<1>10. ASSUME NEW k, Elapse(k) PROVE UNCHANGED moved
  BY <1>10 DEF Elapse, db
<1>11. CASE Next
  BY <1>11, <1>5, <1>7, <1>8, <1>9, <1>10 DEF Next
<1> QED
  BY <1>6, <1>11

-----------------------------------------------------------------------------
(* A step of one request: where it goes and with what.                     *)

Advances(w) == \E next \in Control, t \in Tx : Goto(w, next, t) /\ Progress(next, t)

LEMMA OthersStay ==
  ASSUME QueriesOK, Grows, NEW v \in Workers, pc'[v] = pc[v], tx'[v] = tx[v]
  PROVE  Progress(pc[v], tx[v])'
<1>1. PICK c, t : c = pc[v] /\ t = tx[v]
  OBVIOUS
<1>2. Progress(c, t)
  BY <1>1 DEF QueriesOK
<1>3. Progress(c, t)'
  BY <1>2, ProgressStays
<1> QED
  BY <1>1, <1>3

LEMMA AdvanceOK ==
  ASSUME TypeOK, FiniteRows, QueriesOK, UNCHANGED db, NEW w \in Workers, Advances(w)
  PROVE  QueriesOK' /\ pc' \in [Workers -> Control] /\ tx' \in [Workers -> Tx]
<1>1. PICK next \in Control, t \in Tx : Goto(w, next, t) /\ Progress(next, t)
  BY DEF Advances
<1>2. Grows
  BY SameGrows
<1>3. pc' = [pc EXCEPT ![w] = next] /\ tx' = [tx EXCEPT ![w] = t]
  BY <1>1 DEF Goto
<1>4. pc' \in [Workers -> Control] /\ tx' \in [Workers -> Tx]
  BY <1>3 DEF TypeOK
<1>5. pc'[w] = next /\ tx'[w] = t
  BY <1>3 DEF TypeOK
<1>6. Progress(next, t)'
  BY <1>1, <1>2, ProgressStays
<1>7. \A v \in Workers \ {w} : pc'[v] = pc[v] /\ tx'[v] = tx[v]
  BY <1>3 DEF TypeOK
<1>8. \A v \in Workers \ {w} : Progress(pc[v], tx[v])'
  BY <1>2, <1>7, OthersStay
<1>9. Progress(pc[w], tx[w])'
  BY <1>5, <1>6
<1> QED
  BY <1>4, <1>8, <1>9 DEF QueriesOK

LEMMA Local ==
  ASSUME TypeOK, QueriesOK, NEW w \in Workers
  PROVE  tx[w] \in Tx /\ pc[w] \in Control /\ Progress(pc[w], tx[w])
  BY DEF TypeOK, QueriesOK

LEMMA ReadReceiptsOK ==
  ASSUME TypeOK, QueriesOK, NEW w \in Workers, ReadReceipts(w)
  PROVE  Advances(w)
<1>1. PICK t : t = tx[w]
  OBVIOUS
<1>0. PICK X : X = About(Oldest(LinesNaming(t.ask)))
  OBVIOUS
<1>2. PICK u : u = [t EXCEPT !.answer.receipts = X]
  OBVIOUS
<1>3. t \in Tx /\ Progress("receipts", t)
  BY <1>1, Local DEF ReadReceipts, Read
<1>4. Goto(w, AfterRead(t.ask, "receipts"), u)
  BY <1>0, <1>1, <1>2 DEF ReadReceipts, Read
<1>5. AfterRead(t.ask, "receipts") = "moves" /\ t.ask \in Batches
  BY <1>3 DEF AfterRead, Progress, Kind
<1>6. X \subseteq Receipts
  <2>1. X \subseteq About(LinesNaming(t.ask))
    BY <1>0, PagePart
  <2> QED
    BY <2>1, WhatRowsName
<1>7. /\ u.ask = t.ask /\ u.since = t.since /\ u.units = t.units /\ u.answer.moves = t.answer.moves
      /\ u.answer.orders = t.answer.orders /\ u.answer.shipments = t.answer.shipments /\ u \in Tx
  BY <1>2, <1>3, <1>6 DEF Tx, Answer
<1>8. t.ask \notin Customers /\ t.ask \notin Orders
  BY <1>5, TraceabilityAssumption
<1>9. Progress("moves", u)
  BY <1>3, <1>5, <1>7, <1>8
     DEF Progress, Kind, Sound, Within, BatchProgress, CustomerProgress, OrderProgress
<1> QED
  BY <1>4, <1>5, <1>7, <1>9 DEF Advances, Control

LEMMA ReadMovesOK ==
  ASSUME TypeOK, FiniteRows, QueriesOK, NEW w \in Workers, ReadMoves(w)
  PROVE  Advances(w)
<1>1. PICK t : t = tx[w]
  OBVIOUS
<1>2. PICK X : X = IF t.ask \in Batches THEN Oldest(MovesOf(t.ask)) ELSE MovesUnder(t.ask)
  OBVIOUS
<1>3. PICK u : u = [t EXCEPT !.answer.moves = X]
  OBVIOUS
<1>4. t \in Tx /\ Progress("moves", t)
  BY <1>1, Local DEF ReadMoves, Read
<1>5. Goto(w, AfterRead(t.ask, "moves"), u)
  BY <1>1, <1>2, <1>3 DEF ReadMoves, Read
<1>6. X \subseteq Moves
  BY <1>2, PagePart DEF MovesOf, MovesUnder, TypeOK
<1>7. /\ u.ask = t.ask /\ u.since = t.since /\ u.units = t.units /\ u.answer.moves = X
      /\ u.answer.orders = t.answer.orders /\ u.answer.shipments = t.answer.shipments /\ u \in Tx
  BY <1>3, <1>4, <1>6 DEF Tx, Answer
<1>8. t.ask \in Questions
  BY <1>4 DEF Progress, Kind
<1>9. Within(t.since, Recorded(t.ask)) /\ Within(t.answer, Recorded(t.ask))
  BY <1>4 DEF Progress, Sound
<1>10. CASE t.ask \in Batches
  <2>1. AfterRead(t.ask, "moves") = "orders" /\ t.ask \notin Customers /\ t.ask \notin Orders
    BY <1>10, TraceabilityAssumption DEF AfterRead
  <2>2. X \subseteq Recorded(t.ask).moves /\ (Fits(t.ask) => Recorded(t.ask).moves = X)
    BY <1>2, <1>10, RecordedBatch, PagePart, FittingIsWhole
  <2>3. Kind("orders", u) /\ Sound("orders", u)
    BY <1>7, <1>8, <1>9, <1>10, <2>2 DEF Kind, Sound, Within
  <2>4. BatchProgress("orders", u)
    BY <1>7, <1>9, <2>2 DEF BatchProgress, Within
  <2>5. Progress("orders", u)
    BY <1>7, <2>1, <2>3, <2>4 DEF Progress, CustomerProgress, OrderProgress
  <2> QED
    BY <1>5, <1>7, <2>1, <2>5 DEF Advances, Control
<1>11. CASE t.ask \in Orders
  <2>1. AfterRead(t.ask, "moves") = "told" /\ t.ask \notin Customers /\ t.ask \notin Batches
    BY <1>11, TraceabilityAssumption DEF AfterRead
  <2>2. Recorded(t.ask).moves = X
    BY <1>2, <1>11, <2>1, RecordedOrder
  <2>3. Kind("told", u) /\ Sound("told", u)
    BY <1>7, <1>8, <1>9, <2>2 DEF Kind, Sound, Within
  <2>4. OrderProgress("told", u)
    BY <1>4, <1>7, <1>9, <2>2 DEF OrderProgress, Progress, Within
  <2>5. Progress("told", u)
    BY <1>7, <2>1, <2>3, <2>4 DEF Progress, CustomerProgress, BatchProgress
  <2> QED
    BY <1>5, <1>7, <2>1, <2>5 DEF Advances, Control
<1> QED
  BY <1>4, <1>10, <1>11 DEF Progress, Kind

LEMMA ReadOrdersOK ==
  ASSUME TypeOK, FiniteRows, QueriesOK, MovesAreBacked, NEW w \in Workers, ReadOrders(w)
  PROVE  Advances(w)
<1>1. PICK t : t = tx[w]
  OBVIOUS
<1>2. PICK X : X = About(Newest(LinesPlanning(t.ask)))
  OBVIOUS
<1>3. PICK u : u = [t EXCEPT !.answer.orders = X]
  OBVIOUS
<1>4. t \in Tx /\ Progress("orders", t)
  BY <1>1, Local DEF ReadOrders, Read
<1>5. Goto(w, "lines", u)
  BY <1>1, <1>2, <1>3 DEF ReadOrders, Read, AfterRead
<1>6. X \subseteq OrdersPlanning(t.ask) /\ X \subseteq Orders
  <2>1. X \subseteq OrdersPlanning(t.ask)
    BY <1>2, PagePart DEF OrdersPlanning
  <2> QED
    BY <2>1, WhatRowsName
<1>7. /\ u.ask = t.ask /\ u.since = t.since /\ u.units = t.units /\ u.answer.moves = t.answer.moves
      /\ u.answer.orders = X /\ u.answer.shipments = t.answer.shipments /\ u \in Tx
  BY <1>3, <1>4, <1>6 DEF Tx, Answer
<1>8. t.ask \in Batches /\ t.ask \notin Customers /\ t.ask \notin Orders
  BY <1>4, TraceabilityAssumption DEF Progress, Kind
<1>9. /\ Recorded(t.ask).orders = OrdersPlanning(t.ask) /\ Recorded(t.ask).moves = MovesOf(t.ask)
      /\ Fits(t.ask) => X = OrdersPlanning(t.ask)
  BY <1>2, <1>8, RecordedBatch, FittingIsWhole DEF OrdersPlanning
<1>10. Within(t.since, Recorded(t.ask)) /\ Within(t.answer, Recorded(t.ask))
  BY <1>4 DEF Progress, Sound
<1>11. Kind("lines", u) /\ Sound("lines", u)
  BY <1>6, <1>7, <1>8, <1>9, <1>10 DEF Kind, Sound, Within, Questions, Cached
<1>12. Fits(t.ask) => Named(t.ask, u.answer, Orders)
  <2> SUFFICES ASSUME Fits(t.ask), NEW m \in t.answer.moves, m[2] \in Orders PROVE m[2] \in X
    BY <1>7 DEF Named
  <2>1. m \in moved /\ m[3] = t.ask
    BY <1>9, <1>10 DEF Within, MovesOf
  <2> QED
    BY <1>9, <2>1 DEF MovesAreBacked
<1>13. Fits(t.ask) => t.since.moves \subseteq t.answer.moves
  BY <1>4, <1>8 DEF Progress, BatchProgress
<1>14. BatchProgress("lines", u)
  BY <1>7, <1>9, <1>10, <1>12, <1>13 DEF BatchProgress, Within
<1>15. Progress("lines", u)
  BY <1>7, <1>8, <1>11, <1>14 DEF Progress, CustomerProgress, OrderProgress
<1> QED
  BY <1>5, <1>7, <1>15 DEF Advances, Control

LEMMA ReadLinesOK ==
  ASSUME TypeOK, FiniteRows, QueriesOK, MovesAreBacked, NEW w \in Workers, ReadLines(w)
  PROVE  Advances(w)
<1>1. PICK t : t = tx[w]
  OBVIOUS
<1>2. PICK X : X = About(Newest(LinesHolding(t.ask)))
  OBVIOUS
<1>3. PICK u : u = [t EXCEPT !.units = X]
  OBVIOUS
<1>4. t \in Tx /\ Progress("lines", t)
  BY <1>1, Local DEF ReadLines, Read
<1>5. Goto(w, "links", u)
  BY <1>1, <1>2, <1>3 DEF ReadLines, Read, AfterRead
<1>6. X \subseteq UnitsHolding(t.ask) /\ X \subseteq Units
  <2>1. X \subseteq UnitsHolding(t.ask)
    BY <1>2, PagePart DEF UnitsHolding
  <2> QED
    BY <2>1, WhatRowsName
<1>7. u.ask = t.ask /\ u.since = t.since /\ u.units = X /\ u.answer = t.answer /\ u \in Tx
  BY <1>3, <1>4, <1>6 DEF Tx, Answer
<1>8. t.ask \in Batches /\ t.ask \notin Customers /\ t.ask \notin Orders
  BY <1>4, TraceabilityAssumption DEF Progress, Kind
<1>9. /\ Recorded(t.ask).shipments = ShipsLoading(UnitsHolding(t.ask))
      /\ Recorded(t.ask).moves = MovesOf(t.ask)
      /\ Fits(t.ask) => X = UnitsHolding(t.ask)
  BY <1>2, <1>8, RecordedBatch, FittingIsWhole DEF UnitsHolding
<1>10. Within(t.since, Recorded(t.ask)) /\ Within(t.answer, Recorded(t.ask))
  BY <1>4 DEF Progress, Sound
<1>11. Kind("links", u) /\ Sound("links", u)
  BY <1>7, <1>8, <1>10 DEF Kind, Sound, Questions, Cached
<1>12. Fits(t.ask) => \A m \in t.answer.moves : m[2] \in Ships => m[2] \in ShipsLoading(X)
  BY <1>9, <1>10 DEF Within, MovesOf, MovesAreBacked
<1>13. Fits(t.ask) =>
       /\ t.since.moves \subseteq t.answer.moves /\ t.since.orders \subseteq t.answer.orders
       /\ Named(t.ask, t.answer, Orders)
  BY <1>4, <1>8 DEF Progress, BatchProgress
<1>14. Fits(t.ask) => t.since.shipments \subseteq ShipsLoading(X)
  BY <1>9, <1>10 DEF Within
<1>15. BatchProgress("links", u)
  BY <1>6, <1>7, <1>12, <1>13, <1>14 DEF BatchProgress
<1>16. Progress("links", u)
  BY <1>7, <1>8, <1>11, <1>15 DEF Progress, CustomerProgress, OrderProgress
<1> QED
  BY <1>5, <1>7, <1>16 DEF Advances, Control

LEMMA ReadLinksOK ==
  ASSUME TypeOK, QueriesOK, NEW w \in Workers, ReadLinks(w)
  PROVE  Advances(w)
<1>1. PICK t : t = tx[w]
  OBVIOUS
<1>2. PICK X : X = ShipsLoading(t.units)
  OBVIOUS
<1>3. PICK u : u = [t EXCEPT !.answer.shipments = X]
  OBVIOUS
<1>4. t \in Tx /\ Progress("links", t)
  BY <1>1, Local DEF ReadLinks, Read
<1>5. Goto(w, "store", u)
  BY <1>1, <1>2, <1>3 DEF ReadLinks, Read, AfterRead
<1>6. X \subseteq Ships
  BY <1>2 DEF ShipsLoading
<1>7. /\ u.ask = t.ask /\ u.since = t.since /\ u.units = t.units /\ u.answer.moves = t.answer.moves
      /\ u.answer.orders = t.answer.orders /\ u.answer.shipments = X /\ u \in Tx
  BY <1>3, <1>4, <1>6 DEF Tx, Answer
<1>8. t.ask \in Batches /\ t.ask \notin Customers /\ t.ask \notin Orders
  BY <1>4, TraceabilityAssumption DEF Progress, Kind
<1>9. /\ t.units \subseteq UnitsHolding(t.ask)
      /\ Fits(t.ask) =>
           /\ t.since.shipments \subseteq X
           /\ \A m \in t.answer.moves : m[2] \in Ships => m[2] \in X
           /\ t.since.moves \subseteq t.answer.moves /\ t.since.orders \subseteq t.answer.orders
           /\ Named(t.ask, t.answer, Orders)
  BY <1>2, <1>4, <1>8 DEF Progress, BatchProgress
<1>10. X \subseteq Recorded(t.ask).shipments
  <2>1. ShipsLoading(t.units) \subseteq ShipsLoading(UnitsHolding(t.ask))
    BY <1>9 DEF ShipsLoading
  <2> QED
    BY <1>2, <1>8, <2>1, RecordedBatch
<1>11. Within(t.since, Recorded(t.ask)) /\ Within(t.answer, Recorded(t.ask))
  BY <1>4 DEF Progress, Sound
<1>12. Kind("store", u) /\ Sound("store", u)
  BY <1>7, <1>8, <1>10, <1>11 DEF Kind, Sound, Within, Questions, Cached
<1>13. Fits(t.ask) => Named(t.ask, u.answer, Orders) /\ Named(t.ask, u.answer, Ships)
  <2> SUFFICES ASSUME Fits(t.ask) PROVE Named(t.ask, u.answer, Orders) /\ Named(t.ask, u.answer, Ships)
    OBVIOUS
  <2>1. \A m \in t.answer.moves : m[2] \in Orders => m[2] \in t.answer.orders
    <3> SUFFICES ASSUME NEW m \in t.answer.moves, m[2] \in Orders PROVE m[2] \in t.answer.orders
      OBVIOUS
    <3>1. m[2] \in t.answer.orders \cup t.answer.shipments
      BY <1>9 DEF Named
    <3>2. t.answer.shipments \subseteq Ships
      BY <1>4 DEF Tx, Answer
    <3> QED
      BY <3>1, <3>2, TraceabilityAssumption
  <2> QED
    BY <1>7, <1>9, <2>1 DEF Named
<1>14. BatchProgress("store", u)
  BY <1>7, <1>9, <1>13 DEF BatchProgress
<1>15. Progress("store", u)
  BY <1>7, <1>8, <1>12, <1>14 DEF Progress, CustomerProgress, OrderProgress
<1> QED
  BY <1>5, <1>7, <1>15 DEF Advances, Control

LEMMA ReadDepartedOK ==
  ASSUME TypeOK, FiniteRows, QueriesOK, NEW w \in Workers, ReadDeparted(w)
  PROVE  Advances(w)
<1>1. PICK t : t = tx[w]
  OBVIOUS
<1>2. PICK X : X = About(Newest(DeparturesFor(t.ask)))
  OBVIOUS
<1>3. PICK u : u = [t EXCEPT !.answer.shipments = X]
  OBVIOUS
<1>4. t \in Tx /\ Progress("departed", t)
  BY <1>1, Local DEF ReadDeparted, Read
<1>5. Goto(w, "carried", u)
  BY <1>1, <1>2, <1>3 DEF ReadDeparted, Read, AfterRead
<1>6. X \subseteq ShipsDeparted(t.ask) /\ X \subseteq Ships
  <2>1. X \subseteq ShipsDeparted(t.ask)
    BY <1>2, PagePart DEF ShipsDeparted
  <2> QED
    BY <2>1, WhatRowsName
<1>7. /\ u.ask = t.ask /\ u.since = t.since /\ u.units = t.units /\ u.answer.moves = t.answer.moves
      /\ u.answer.orders = t.answer.orders /\ u.answer.shipments = X /\ u \in Tx
  BY <1>3, <1>4, <1>6 DEF Tx, Answer
<1>8. t.ask \in Customers /\ t.ask \notin Batches /\ t.ask \notin Orders
  BY <1>4, TraceabilityAssumption DEF Progress, Kind
<1>9. /\ Recorded(t.ask).shipments = ShipsDeparted(t.ask)
      /\ Fits(t.ask) => X = ShipsDeparted(t.ask)
  BY <1>2, <1>8, RecordedCustomer, FittingIsWhole DEF ShipsDeparted
<1>10. Within(t.since, Recorded(t.ask)) /\ Within(t.answer, Recorded(t.ask))
  BY <1>4 DEF Progress, Sound
<1>11. Kind("carried", u) /\ Sound("carried", u)
  BY <1>6, <1>7, <1>8, <1>9, <1>10 DEF Kind, Sound, Within, Questions, Cached
<1>12. Owned(t.ask, X, Orders)
  <2> SUFFICES ASSUME NEW s \in X
               PROVE  \E o \in Orders : s \in ShipsCarrying(o) /\ CustomerOf[o] = t.ask
    BY DEF Owned
  <2>1. PICK o \in OrdersAboard({s}) : CustomerOf[o] = t.ask
    BY <1>6 DEF ShipsDeparted, DeparturesFor, About
  <2>2. o \in Orders /\ s \in ShipsCarrying(o)
    BY <1>6, <2>1 DEF OrdersAboard, ShipsCarrying
  <2> QED
    BY <2>1, <2>2
<1>13. t.since.orders \subseteq OrdersAboard(t.since.shipments)
  BY <1>4, <1>8 DEF Progress, CustomerProgress
<1>14. CustomerProgress("carried", u)
  <2>1. Fits(t.ask) => t.since.shipments \subseteq X
    BY <1>9, <1>10 DEF Within
  <2>2. u.ask = t.ask /\ u.since = t.since /\ u.answer.shipments = X
    BY <1>7
  <2> QED
    BY <1>12, <1>13, <2>1, <2>2 DEF CustomerProgress
<1>15. Progress("carried", u)
  BY <1>7, <1>8, <1>11, <1>14 DEF Progress, BatchProgress, OrderProgress
<1> QED
  BY <1>5, <1>7, <1>15 DEF Advances, Control

LEMMA ReadCarriedOK ==
  ASSUME TypeOK, QueriesOK, NEW w \in Workers, ReadCarried(w)
  PROVE  Advances(w)
<1>1. PICK t : t = tx[w]
  OBVIOUS
<1>2. PICK X : X = OrdersAboard(t.answer.shipments)
  OBVIOUS
<1>3. PICK u : u = [t EXCEPT !.answer.orders = X]
  OBVIOUS
<1>4. t \in Tx /\ Progress("carried", t)
  BY <1>1, Local DEF ReadCarried, Read
<1>5. Goto(w, "store", u)
  BY <1>1, <1>2, <1>3 DEF ReadCarried, Read, AfterRead
<1>6. X \subseteq Orders
  BY <1>2 DEF OrdersAboard
<1>7. /\ u.ask = t.ask /\ u.since = t.since /\ u.units = t.units /\ u.answer.moves = t.answer.moves
      /\ u.answer.orders = X /\ u.answer.shipments = t.answer.shipments /\ u \in Tx
  BY <1>3, <1>4, <1>6 DEF Tx, Answer
<1>8. t.ask \in Customers /\ t.ask \notin Batches /\ t.ask \notin Orders
  BY <1>4, TraceabilityAssumption DEF Progress, Kind
<1>9. /\ Fits(t.ask) => t.since.shipments \subseteq t.answer.shipments
      /\ Owned(t.ask, t.answer.shipments, Orders)
      /\ t.since.orders \subseteq OrdersAboard(t.since.shipments)
  BY <1>4, <1>8 DEF Progress, CustomerProgress
<1>10. Within(t.since, Recorded(t.ask)) /\ Within(t.answer, Recorded(t.ask))
  BY <1>4 DEF Progress, Sound
<1>11. Fits(t.ask) => t.since.orders \subseteq X
  BY <1>2, <1>9 DEF OrdersAboard
<1>12. X \subseteq Recorded(t.ask).orders
  <2>1. t.answer.shipments \subseteq ShipsDeparted(t.ask)
    BY <1>8, <1>10, RecordedCustomer DEF Within
  <2>2. X \subseteq OrdersAboard(ShipsDeparted(t.ask))
    BY <1>2, <2>1 DEF OrdersAboard
  <2> QED
    BY <1>8, <2>2, RecordedCustomer
<1>13. Kind("store", u) /\ Sound("store", u)
  BY <1>7, <1>8, <1>10, <1>12 DEF Kind, Sound, Within, Questions, Cached
<1>14. Owned(t.ask, t.answer.shipments, X)
  <2> SUFFICES ASSUME NEW s \in t.answer.shipments
               PROVE  \E o \in X : s \in ShipsCarrying(o) /\ CustomerOf[o] = t.ask
    BY DEF Owned
  <2>1. PICK o \in Orders : s \in ShipsCarrying(o) /\ CustomerOf[o] = t.ask
    BY <1>9 DEF Owned
  <2>2. o \in X
    BY <1>2, <2>1 DEF OrdersAboard, ShipsCarrying
  <2> QED
    BY <2>1, <2>2
<1>15. CustomerProgress("store", u)
  <2>1. /\ u.ask = t.ask /\ u.since = t.since /\ u.answer.orders = X
        /\ u.answer.shipments = t.answer.shipments
    BY <1>7
  <2> QED
    BY <1>9, <1>11, <1>14, <2>1 DEF CustomerProgress
<1>16. Progress("store", u)
  BY <1>7, <1>8, <1>13, <1>15 DEF Progress, BatchProgress, OrderProgress
<1> QED
  BY <1>5, <1>7, <1>16 DEF Advances, Control

LEMMA ReadShippedOK ==
  ASSUME TypeOK, QueriesOK, NEW w \in Workers, ReadShipped(w)
  PROVE  Advances(w)
<1>1. PICK t : t = tx[w]
  OBVIOUS
<1>2. PICK X : X = ShipsCarrying(t.ask)
  OBVIOUS
<1>3. PICK u : u = [t EXCEPT !.answer.shipments = X]
  OBVIOUS
<1>4. t \in Tx /\ Progress("shipped", t)
  BY <1>1, Local DEF ReadShipped, Read
<1>5. Goto(w, "moves", u)
  BY <1>1, <1>2, <1>3 DEF ReadShipped, Read, AfterRead
<1>6. X \subseteq Ships
  BY <1>2 DEF ShipsCarrying
<1>7. /\ u.ask = t.ask /\ u.since = t.since /\ u.units = t.units /\ u.answer.moves = t.answer.moves
      /\ u.answer.orders = t.answer.orders /\ u.answer.shipments = X /\ u \in Tx
  BY <1>3, <1>4, <1>6 DEF Tx, Answer
<1>8. t.ask \in Orders /\ t.ask \notin Batches /\ t.ask \notin Customers
  BY <1>4, TraceabilityAssumption DEF Progress, Kind
<1>9. Recorded(t.ask).shipments = X
  BY <1>2, <1>8, RecordedOrder
<1>10. Within(t.since, Recorded(t.ask)) /\ Within(t.answer, Recorded(t.ask))
  BY <1>4 DEF Progress, Sound
<1>11. Kind("moves", u) /\ Sound("moves", u)
  BY <1>7, <1>8, <1>9, <1>10 DEF Kind, Sound, Within, Questions, Cached
<1>12. OrderProgress("moves", u)
  BY <1>7, <1>9, <1>10 DEF OrderProgress, Within
<1>13. Progress("moves", u)
  BY <1>7, <1>8, <1>11, <1>12 DEF Progress, BatchProgress, CustomerProgress
<1> QED
  BY <1>5, <1>7, <1>13 DEF Advances, Control

\* A request that has all it wants has something good to tell or store, and the other way round.
LEMMA ToldIsGood ==
  ASSUME NEW c \in {"store", "told"}, NEW t, Progress(c, t)
  PROVE  Good(t.ask, t.answer, t.since)
<1>1. t.ask \in Questions
  BY DEF Progress, Kind
<1>2. Within(t.since, Recorded(t.ask)) /\ Within(t.answer, Recorded(t.ask))
  BY DEF Progress, Sound
<1>3. CASE t.ask \in Batches
  <2>1. t.ask \notin Customers
    BY <1>3, TraceabilityAssumption
  <2>2. Fits(t.ask) => /\ Within(t.since, t.answer) /\ Named(t.ask, t.answer, Orders)
                       /\ Named(t.ask, t.answer, Ships)
    BY <1>3 DEF Progress, BatchProgress, Within
  <2> QED
    BY <1>2, <2>1, <2>2 DEF Good, Crossed, Named
<1>4. CASE t.ask \in Customers
  <2>1. t.ask \notin Batches
    BY <1>4, TraceabilityAssumption
  <2>2. t.since.moves = {}
    BY <1>2, <1>4, RecordedCustomer DEF Within
  <2>3. /\ Fits(t.ask) => Within(t.since, t.answer)
        /\ Owned(t.ask, t.answer.shipments, t.answer.orders)
    BY <1>4, <2>2 DEF Progress, CustomerProgress, Within
  <2> QED
    BY <1>2, <2>1, <2>3 DEF Good, Crossed
<1>5. CASE t.ask \in Orders /\ c = "told"
  <2>1. t.ask \notin Batches /\ t.ask \notin Customers
    BY <1>5, TraceabilityAssumption
  <2>2. t.since.orders = {}
    BY <1>2, <1>5, RecordedOrder DEF Within
  <2>3. Within(t.since, t.answer)
    BY <1>5, <2>2 DEF Progress, OrderProgress, Within
  <2> QED
    BY <1>2, <2>1, <2>3 DEF Good, Crossed
<1>6. c = "store" => t.ask \notin Orders
  BY TraceabilityAssumption DEF Progress, Kind, Cached
<1> QED
  BY <1>1, <1>3, <1>4, <1>5, <1>6 DEF Questions, Cached

LEMMA GoodIsTold ==
  ASSUME NEW t \in Tx, t.ask \in Cached, Good(t.ask, t.answer, t.since)
  PROVE  Progress("told", t)
<1>1. Within(t.since, Recorded(t.ask)) /\ Within(t.answer, Recorded(t.ask))
  BY DEF Good
<1>2. Kind("told", t) /\ Sound("told", t)
  BY <1>1 DEF Kind, Sound, Questions
<1>3. BatchProgress("told", t)
  BY DEF Good, Within, Crossed, Named, BatchProgress
<1>4. CustomerProgress("told", t)
  <2>1. t.answer.orders \subseteq Orders
    BY DEF Tx, Answer
  <2>2. Fits(t.ask) => /\ t.since.shipments \subseteq t.answer.shipments
                       /\ t.since.orders \subseteq t.answer.orders
    BY DEF Good, Within
  <2>3. t.ask \in Customers => /\ Owned(t.ask, t.answer.shipments, t.answer.orders)
                               /\ Owned(t.ask, t.answer.shipments, Orders)
    BY <2>1 DEF Good, Crossed, Owned
  <2> QED
    BY <2>2, <2>3 DEF CustomerProgress
<1>5. OrderProgress("told", t)
  BY TraceabilityAssumption DEF Cached, OrderProgress
<1> QED
  BY <1>2, <1>3, <1>4, <1>5 DEF Progress

LEMMA IdleProgress == Progress("idle", NoTx)
<1>1. NoTx.ask \notin Batches /\ NoTx.ask \notin Customers /\ NoTx.ask \notin Orders
  BY TraceabilityAssumption DEF NoTx, Questions, Cached
<1> QED
  BY <1>1 DEF Progress, Kind, Sound, BatchProgress, CustomerProgress, OrderProgress

LEMMA EndOK ==
  ASSUME NEW w \in Workers, Heard(w) \/ Fail(w)
  PROVE  Advances(w)
<1>1. Goto(w, "idle", NoTx)
  BY DEF Heard, Fail
<1> QED
  BY <1>1, IdleProgress, NothingType DEF Advances, Control

LEMMA HitOK ==
  ASSUME TypeOK, CacheOK, NEW w \in Workers, NEW k \in Questions, Hit(w, k)
  PROVE  Advances(w)
<1>1. k \in Cached /\ cache[k].age # "none"
  BY DEF Hit, Key
<1>2. PICK u : u = [NoTx EXCEPT !.ask = k, !.answer = cache[k].answer, !.since = cache[k].since]
  OBVIOUS
<1>3. Goto(w, "told", u)
  BY <1>2 DEF Hit, Key
<1>4. cache[k] \in Entry /\ cache[k].answer \in Answer /\ cache[k].since \in Answer
  BY <1>1 DEF TypeOK, Entry
<1>5. u \in Tx /\ u.ask = k /\ u.answer = cache[k].answer /\ u.since = cache[k].since
  BY <1>2, <1>4 DEF NoTx, Tx
<1>6. Good(k, cache[k].answer, cache[k].since)
  BY <1>1 DEF CacheOK
<1>7. Progress("told", u)
  BY <1>1, <1>5, <1>6, GoodIsTold
<1> QED
  BY <1>3, <1>5, <1>7 DEF Advances, Control

LEMMA MissOK ==
  ASSUME TypeOK, NEW w \in Workers, NEW k \in Questions, Miss(w, k)
  PROVE  Advances(w)
<1>1. PICK R : R = Recorded(k)
  OBVIOUS
<1>2. PICK u : u = [NoTx EXCEPT !.ask = k, !.since = R]
  OBVIOUS
<1>3. Goto(w, FirstRead(k), u)
  BY <1>1, <1>2 DEF Miss
<1>4. R \in Answer
  BY <1>1, RecordedType
<1>5. u \in Tx /\ u.ask = k /\ u.answer = Nothing /\ u.since = R
  BY <1>2, <1>4, NothingType DEF NoTx, Tx
<1>6. Within(Nothing, R) /\ Within(R, R)
  BY DEF Within, Nothing
<1>7. \A c \in Control : Sound(c, u)
  BY <1>1, <1>5, <1>6 DEF Sound
<1>8. CASE k \in Batches
  <2>1. k \notin Customers /\ k \notin Orders
    BY <1>8, TraceabilityAssumption
  <2>2. FirstRead(k) = "receipts"
    BY <1>8, <2>1 DEF FirstRead
  <2>3. Progress("receipts", u)
    BY <1>5, <1>7, <1>8, <2>1
       DEF Progress, Kind, BatchProgress, CustomerProgress, OrderProgress, Control
  <2> QED
    BY <1>3, <1>5, <2>2, <2>3 DEF Advances, Control
<1>9. CASE k \in Customers
  <2>1. k \notin Batches /\ k \notin Orders
    BY <1>9, TraceabilityAssumption
  <2>2. FirstRead(k) = "departed"
    BY <1>9, <2>1 DEF FirstRead
  <2>3. R.orders = OrdersAboard(R.shipments)
    BY <1>1, <1>9, RecordedCustomer
  <2>4. Progress("departed", u)
    BY <1>5, <1>7, <1>9, <2>1, <2>3
       DEF Progress, Kind, BatchProgress, CustomerProgress, OrderProgress, Control
  <2> QED
    BY <1>3, <1>5, <2>2, <2>4 DEF Advances, Control
<1>10. CASE k \in Orders
  <2>1. k \notin Batches /\ k \notin Customers
    BY <1>10, TraceabilityAssumption
  <2>2. FirstRead(k) = "shipped"
    BY <2>1 DEF FirstRead
  <2>3. Progress("shipped", u)
    BY <1>5, <1>7, <1>10, <2>1
       DEF Progress, Kind, BatchProgress, CustomerProgress, OrderProgress, Control
  <2> QED
    BY <1>3, <1>5, <2>2, <2>3 DEF Advances, Control
<1> QED
  BY <1>8, <1>9, <1>10 DEF Questions, Cached

-----------------------------------------------------------------------------
(* The steps that touch Redis.                                             *)

LEMMA CacheStays ==
  ASSUME Grows, CacheOK, UNCHANGED cache
  PROVE  CacheOK'
<1> SUFFICES ASSUME NEW k \in Cached, cache[k].age # "none"
             PROVE  Good(k, cache[k].answer, cache[k].since)'
  BY DEF CacheOK
<1>1. PICK a, s : a = cache[k].answer /\ s = cache[k].since
  OBVIOUS
<1>2. Good(k, a, s)
  BY <1>1 DEF CacheOK
<1>3. Good(k, a, s)'
  BY <1>2, GoodStays DEF Questions
<1> QED
  BY <1>1, <1>3

LEMMA EntryOK ==
  ASSUME TypeOK, FiniteRows, CacheOK, UNCHANGED db, NEW k \in Cached, NEW e \in Entry,
         e.age # "none" => Good(k, e.answer, e.since),
         cache' = [cache EXCEPT ![k] = e]
  PROVE  CacheOK' /\ cache' \in [Cached -> Entry]
<1>1. Grows
  BY SameGrows
<1>2. cache' \in [Cached -> Entry]
  BY DEF TypeOK
<1> SUFFICES ASSUME NEW j \in Cached, cache'[j].age # "none"
             PROVE  Good(j, cache[j].answer, cache[j].since)'
  BY <1>2 DEF CacheOK
<1>3. PICK f : f = cache'[j]
  OBVIOUS
<1>4. Good(j, f.answer, f.since)
  <2>1. CASE j = k
    BY <1>3, <2>1 DEF TypeOK
  <2>2. CASE j # k
    BY <1>3, <2>2 DEF TypeOK, CacheOK
  <2> QED
    BY <2>1, <2>2
<1>5. Good(j, f.answer, f.since)'
  BY <1>1, <1>4, GoodStays DEF Questions
<1> QED
  BY <1>3, <1>5

LEMMA StoreOK ==
  ASSUME TypeOK, FiniteRows, QueriesOK, CacheOK, NEW w \in Workers, Store(w)
  PROVE  Advances(w) /\ CacheOK' /\ cache' \in [Cached -> Entry]
<1>1. PICK t : t = tx[w]
  OBVIOUS
<1>2. t \in Tx /\ Progress("store", t)
  BY <1>1, Local DEF Store
<1>3. t.ask \in Cached
  BY <1>2 DEF Progress, Kind
<1>4. Good(t.ask, t.answer, t.since)
  BY <1>2, ToldIsGood
<1>5. Goto(w, "told", t)
  BY <1>1 DEF Store
<1>6. Progress("told", t)
  BY <1>2, <1>3, <1>4, GoodIsTold
<1>7. PICK e : e = [age |-> "fresh", answer |-> t.answer, since |-> t.since]
  OBVIOUS
<1>8. e \in Entry /\ e.answer = t.answer /\ e.since = t.since
  BY <1>2, <1>7 DEF Tx, Entry
<1>9. cache' = [cache EXCEPT ![t.ask] = e] /\ UNCHANGED db
  BY <1>1, <1>7 DEF Store, Key
<1>10. CacheOK' /\ cache' \in [Cached -> Entry]
  BY <1>3, <1>4, <1>8, <1>9, EntryOK
<1> QED
  BY <1>2, <1>5, <1>6, <1>10 DEF Advances, Control

LEMMA ElapseOK ==
  ASSUME TypeOK, FiniteRows, CacheOK, NEW k \in Cached, Elapse(k)
  PROVE  CacheOK' /\ cache' \in [Cached -> Entry]
<1>1. PICK o : o = cache[k]
  OBVIOUS
<1>2. o \in Entry /\ o.age # "none" /\ Good(k, o.answer, o.since)
  BY <1>1 DEF TypeOK, CacheOK, Elapse
<1>3. PICK e : e = IF o.age = "fresh" THEN [o EXCEPT !.age = "old"] ELSE NoEntry
  OBVIOUS
<1>4. e \in Entry /\ (e.age # "none" => Good(k, e.answer, e.since))
  <2>1. CASE o.age = "fresh"
    <3>1. e \in Entry /\ e.answer = o.answer /\ e.since = o.since
      BY <1>2, <1>3, <2>1 DEF Entry
    <3> QED
      BY <1>2, <3>1
  <2>2. CASE o.age # "fresh"
    BY <1>3, <2>2, NothingType DEF NoEntry
  <2> QED
    BY <2>1, <2>2
<1>5. cache' = [cache EXCEPT ![k] = e] /\ UNCHANGED db
  BY <1>1, <1>3 DEF Elapse
<1> QED
  BY <1>4, <1>5, EntryOK

-----------------------------------------------------------------------------
(* Every step.                                                             *)

TablesOK ==
  /\ named \in [RLines -> Batches \cup {NoBatch}]
  /\ moved \subseteq Moves
  /\ planned \subseteq OLines \X Batches
  /\ packed \subseteq Nat \X Units \X Orders \X (Batches \cup {NoBatch})
  /\ links \subseteq Ships \X Units \X Orders
  /\ left \subseteq Dates \X Ships

LEMMA WriteType ==
  ASSUME TypeOK, FiniteRows, Write
  PROVE  TablesOK' /\ UNCHANGED <<cache, pc, tx>>
<1>0. /\ TablesOK /\ Cardinality(moved) + 1 \in Nat /\ Cardinality(packed) + 1 \in Nat
  BY FS_CardinalityType DEF TypeOK, TablesOK, FiniteRows
<1>1. ASSUME NEW rl \in RLines, NEW b \in Batches, AddLine(rl, b)
      PROVE  TablesOK' /\ UNCHANGED <<cache, pc, tx>>
  BY <1>0, <1>1 DEF AddLine, TablesOK
<1>2. ASSUME NEW rl \in RLines, NEW b \in Batches, Receive(rl, b)
      PROVE  TablesOK' /\ UNCHANGED <<cache, pc, tx>>
  <2>1. <<Cardinality(moved) + 1, rl[2], b>> \in Moves
    BY <1>0, TraceabilityAssumption DEF Moves, Docs
  <2> QED
    BY <1>0, <1>2, <2>1 DEF Receive, LogOne, Log, TablesOK
<1>3. ASSUME NEW o \in Orders, NEW ps \in SUBSET (OLines \X Batches), Plan(o, ps)
      PROVE  TablesOK' /\ UNCHANGED <<cache, pc, tx>>
  BY <1>0, <1>3 DEF Plan, TablesOK
<1>4. ASSUME NEW o \in Orders, NEW b \in Batches, ConfirmPick(o, b)
      PROVE  TablesOK' /\ UNCHANGED <<cache, pc, tx>>
  <2>1. <<Cardinality(moved) + 1, o, b>> \in Moves
    BY <1>0 DEF Moves, Docs
  <2> QED
    BY <1>0, <1>4, <2>1 DEF ConfirmPick, LogOne, Log, TablesOK
<1>5. ASSUME NEW u \in Units, NEW o \in Orders, NEW b \in Batches \cup {NoBatch}, Pack(u, o, b)
      PROVE  TablesOK' /\ UNCHANGED <<cache, pc, tx>>
  BY <1>0, <1>5 DEF Pack, TablesOK
<1>6. ASSUME NEW s \in Ships, NEW u \in Units, Assign(s, u) PROVE TablesOK' /\ UNCHANGED <<cache, pc, tx>>
  <2>1. {s} \X {u} \X OrdersIn(u) \subseteq Ships \X Units \X Orders
    BY DEF OrdersIn
  <2> QED
    BY <1>0, <1>6, <2>1 DEF Assign, TablesOK
<1>7. ASSUME NEW s \in Ships, NEW d \in Dates, Dispatch(s, d)
      PROVE  TablesOK' /\ UNCHANGED <<cache, pc, tx>>
  <2>1. PICK new : /\ moved' = moved \cup new
                   /\ \A m \in new : \E n \in Nat, l \in LinesAboard(s) : m = <<n, s, l[4]>>
    BY <1>7, LoggedAboard
  <2>2. \A l \in LinesAboard(s) : l[4] \in Batches
    BY <1>0 DEF LinesAboard, TablesOK
  <2>3. new \subseteq Moves
    BY <2>1, <2>2 DEF Moves, Docs
  <2> QED
    BY <1>0, <1>7, <2>1, <2>3 DEF Dispatch, TablesOK
<1> QED
  BY <1>1, <1>2, <1>3, <1>4, <1>5, <1>6, <1>7 DEF Write

LEMMA StepInv == Inv /\ [Next]_vars => Inv'
<1> SUFFICES ASSUME Inv, [Next]_vars PROVE Inv'
  OBVIOUS
<1>0. TypeOK /\ FiniteRows /\ MovesAreBacked /\ QueriesOK /\ CacheOK
  BY DEF Inv
<1>1. Grows /\ MovesAreBacked' /\ FiniteRows'
  BY <1>0, StepGrows, StepBacked DEF Grows
<1>2. ASSUME UNCHANGED <<pc, tx>> PROVE QueriesOK'
  <2> SUFFICES ASSUME NEW v \in Workers PROVE Progress(pc[v], tx[v])'
    BY DEF QueriesOK
  <2> QED
    BY <1>0, <1>1, <1>2, OthersStay
<1>3. ASSUME UNCHANGED db, NEW w \in Workers, Advances(w), CacheOK', cache' \in [Cached -> Entry]
      PROVE  Inv'
  <2>1. QueriesOK' /\ pc' \in [Workers -> Control] /\ tx' \in [Workers -> Tx]
    BY <1>0, <1>3, AdvanceOK
  <2>2. TypeOK'
    BY <1>0, <1>3, <2>1 DEF TypeOK, db
  <2> QED
    BY <1>1, <1>3, <2>1, <2>2 DEF Inv
<1>4. ASSUME UNCHANGED <<db, cache>>, NEW w \in Workers, Advances(w) PROVE Inv'
  <2>1. CacheOK'
    BY <1>0, <1>1, <1>4, CacheStays
  <2>2. cache' \in [Cached -> Entry]
    BY <1>0, <1>4 DEF TypeOK
  <2> QED
    BY <1>3, <1>4, <2>1, <2>2
<1>5. CASE UNCHANGED vars
  <2>1. UNCHANGED <<pc, tx>> /\ UNCHANGED cache /\ TypeOK'
    BY <1>0, <1>5 DEF vars, db, TypeOK
  <2> QED
    BY <1>0, <1>1, <1>2, <2>1, CacheStays DEF Inv
<1>6. CASE Write
  <2>1. TablesOK' /\ UNCHANGED <<cache, pc, tx>>
    BY <1>0, <1>6, WriteType
  <2>2. TypeOK'
    BY <1>0, <2>1 DEF TypeOK, TablesOK
  <2> QED
    BY <1>0, <1>1, <1>2, <2>1, <2>2, CacheStays DEF Inv
<1>7. ASSUME NEW w \in Workers, Statement(w) PROVE Inv'
  <2>1. CASE Store(w)
    <3>1. UNCHANGED db
      BY <2>1 DEF Store
    <3>2. Advances(w) /\ CacheOK' /\ cache' \in [Cached -> Entry]
      BY <1>0, <2>1, StoreOK
    <3> QED
      BY <1>3, <3>1, <3>2
  <2>2. CASE ~Store(w)
    <3>1. UNCHANGED <<db, cache>>
      BY <1>7, <2>2 DEF Statement, ReadReceipts, ReadMoves, ReadOrders, ReadLines, ReadLinks,
                        ReadDeparted, ReadCarried, ReadShipped, Read, Heard
    <3>2. Advances(w)
      BY <1>0, <1>7, <2>2, ReadReceiptsOK, ReadMovesOK, ReadOrdersOK, ReadLinesOK, ReadLinksOK,
         ReadDepartedOK, ReadCarriedOK, ReadShippedOK, EndOK DEF Statement
    <3> QED
      BY <1>4, <3>1, <3>2
  <2> QED
    BY <2>1, <2>2
<1>8. ASSUME NEW w \in Workers, NEW k \in Questions, Hit(w, k) \/ Miss(w, k) PROVE Inv'
  <2>1. UNCHANGED <<db, cache>>
    BY <1>8 DEF Hit, Miss
  <2>2. Advances(w)
    BY <1>0, <1>8, HitOK, MissOK
  <2> QED
    BY <1>4, <2>1, <2>2
<1>9. ASSUME NEW w \in Workers, Fail(w) PROVE Inv'
  <2>1. UNCHANGED <<db, cache>>
    BY <1>9 DEF Fail
  <2>2. Advances(w)
    BY <1>9, EndOK
  <2> QED
    BY <1>4, <2>1, <2>2
<1>10. ASSUME NEW k \in Cached, Elapse(k) PROVE Inv'
  <2>1. CacheOK' /\ cache' \in [Cached -> Entry]
    BY <1>0, <1>10, ElapseOK
  <2>2. UNCHANGED <<pc, tx>> /\ UNCHANGED db
    BY <1>10 DEF Elapse
  <2>3. TypeOK'
    BY <1>0, <2>1, <2>2 DEF TypeOK, db
  <2> QED
    BY <1>1, <1>2, <2>1, <2>2, <2>3 DEF Inv
<1> QED
  BY <1>5, <1>6, <1>7, <1>8, <1>9, <1>10 DEF Next

LEMMA InitInv == Init => Inv
<1> SUFFICES ASSUME Init PROVE Inv
  OBVIOUS
<1>1. TypeOK
  BY NothingType DEF Init, TypeOK, Control
<1>2. MovesAreBacked /\ FiniteRows
  BY FS_EmptySet DEF Init, MovesAreBacked, FiniteRows
<1>3. QueriesOK
  BY IdleProgress DEF Init, QueriesOK
<1>4. CacheOK
  BY DEF Init, CacheOK, NoEntry
<1> QED
  BY <1>1, <1>2, <1>3, <1>4 DEF Inv

LEMMA Invariance == Spec => []Inv
  BY InitInv, StepInv, PTL DEF Spec

\* The tables, Redis and the requests keep their types.
THEOREM TypeCorrect == Spec => []TypeOK
<1>1. Inv => TypeOK
  BY DEF Inv
<1> QED
  BY <1>1, Invariance, PTL

LEMMA InvTold ==
  ASSUME Inv, NEW w \in Workers, pc[w] = "told"
  PROVE  Good(tx[w].ask, tx[w].answer, tx[w].since)
<1>1. PICK t : t = tx[w]
  OBVIOUS
<1>2. Progress("told", t)
  BY <1>1 DEF Inv, QueriesOK
<1> QED
  BY <1>1, <1>2, ToldIsGood

\* Whatever is written between the reads of a query, its answer has nothing that is not
\* recorded, and of a trace that fits in the page all that was recorded when it began; and
\* so has one that Redis kept.
THEOREM TracesAreRecent == Spec => []AnswersAreRecent
<1>1. Inv => AnswersAreRecent
  BY InvTold DEF AnswersAreRecent, Good
<1> QED
  BY <1>1, Invariance, PTL

\* An answer about a batch that tells of a pick or an exit also names its order or shipment,
\* as long as its trace fits in the page; one that tells a customer of a shipment always
\* names the customer's order in it.
THEOREM TracesCrossReference == Spec => []AnswersCrossReference
<1>1. ASSUME Inv, NEW w \in Workers, pc[w] = "told"
      PROVE  /\ tx[w].ask \in Batches /\ Fits(tx[w].ask) =>
                  \A m \in tx[w].answer.moves : m[2] \notin Receipts =>
                     m[2] \in tx[w].answer.orders \cup tx[w].answer.shipments
             /\ tx[w].ask \in Customers =>
                  \A s \in tx[w].answer.shipments : \E o \in tx[w].answer.orders :
                     s \in ShipsCarrying(o) /\ CustomerOf[o] = tx[w].ask
  <2>1. Crossed(tx[w].ask, tx[w].answer)
    BY <1>1, InvTold DEF Good
  <2>2. \A m \in tx[w].answer.moves : m[2] \in Docs
    BY <1>1 DEF Inv, TypeOK, Tx, Answer, Moves
  <2> QED
    BY <2>1, <2>2 DEF Crossed, Named, Owned, Docs
<1>2. Inv => AnswersCrossReference
  BY <1>1 DEF AnswersCrossReference
<1> QED
  BY <1>2, Invariance, PTL

-----------------------------------------------------------------------------
(***************************************************************************)
(*                                 WAVES                                   *)
(***************************************************************************)

(* Recursion over numbers.                                                 *)

LEMMA Upwards ==
  ASSUME NEW N \in Nat, NEW B, 0 \in B, \A n \in 1..N : n - 1 \in B => n \in B
  PROVE  \A n \in 0..N : n \in B
<1> DEFINE Out == {n \in Nat : n <= N /\ n \notin B}
<1>1. SUFFICES ASSUME Out # {} PROVE FALSE
  OBVIOUS
<1>2. Out \subseteq Nat
  OBVIOUS
<1> HIDE DEF Out
<1>3. PICK n \in Out : \A m \in Out : <<m, n>> \notin OpToRel(<, Nat)
  BY <1>1, <1>2, NatLessThanWellFounded, WFMin
<1> USE DEF Out
<1>4. \A m \in Out : ~(m < n)
  BY <1>3 DEF OpToRel
<1>5. n # 0 /\ n \in 1..N /\ n - 1 \in Nat
  OBVIOUS
<1>6. n - 1 \in B
  BY <1>4, <1>5
<1> QED
  BY <1>5, <1>6

\* f runs from base through the moves that go says.
Runs(f, N, base, go) == f = [n \in 0..N |-> IF n = 0 THEN base ELSE go[<<n, f[n - 1]>>]]

LEMMA RunExists ==
  ASSUME NEW N \in Nat, NEW S, NEW base \in S, NEW go \in [(1..N) \X S -> S]
  PROVE  \E f \in [0..N -> S] : Runs(f, N, base, go)
<1> DEFINE B == {n \in 0..N : \E f \in [0..n -> S] : Runs(f, n, base, go)}
<1>1. 0 \in B
  <2> DEFINE f == [m \in 0..0 |-> base]
  <2>1. f \in [0..0 -> S]
    OBVIOUS
  <2>2. Runs(f, 0, base, go)
    BY DEF Runs
  <2> QED
    BY <2>1, <2>2
<1>2. ASSUME NEW n \in 1..N, n - 1 \in B PROVE n \in B
  <2>1. PICK f \in [0..(n - 1) -> S] : Runs(f, n - 1, base, go)
    BY <1>2
  <2> DEFINE g == [m \in 0..n |-> IF m = n THEN go[<<n, f[n - 1]>>] ELSE f[m]]
  <2>2. f[n - 1] \in S /\ <<n, f[n - 1]>> \in (1..N) \X S
    OBVIOUS
  <2>3. g \in [0..n -> S]
    BY <2>2
  <2>4. ASSUME NEW m \in 0..n PROVE g[m] = IF m = 0 THEN base ELSE go[<<m, g[m - 1]>>]
    <3>1. CASE m = n
      <4>1. n - 1 \in 0..n /\ n - 1 # n /\ n # 0
        OBVIOUS
      <4>2. g[n - 1] = f[n - 1] /\ g[n] = go[<<n, f[n - 1]>>]
        BY <4>1
      <4> QED
        BY <3>1, <4>1, <4>2
    <3>2. CASE m # n
      <4>1. m \in 0..(n - 1) /\ f[m] = IF m = 0 THEN base ELSE go[<<m, f[m - 1]>>]
        BY <2>1, <3>2 DEF Runs
      <4>2. g[m] = f[m]
        BY <3>2
      <4>3. ASSUME m # 0 PROVE g[m - 1] = f[m - 1]
        <5>1. m - 1 \in 0..n /\ m - 1 # n
          BY <4>3
        <5> QED
          BY <5>1
      <4> QED
        BY <4>1, <4>2, <4>3
    <3> QED
      BY <3>1, <3>2
  <2>5. g = [m \in 0..n |-> g[m]]
    OBVIOUS
  <2> HIDE DEF g
  <2>6. Runs(g, n, base, go)
    BY <2>4, <2>5 DEF Runs
  <2> QED
    BY <2>3, <2>6
<1> HIDE DEF B
<1>3. N \in B
  BY <1>1, <1>2, Upwards
<1> QED
  BY <1>3 DEF B

-----------------------------------------------------------------------------
(* Sequences of the elements of a finite set.                              *)

LEMMA SetToSeqIs ==
  ASSUME NEW S, IsFiniteSet(S)
  PROVE  /\ Cardinality(S) \in Nat /\ SetToSeq(S) \in [1..Cardinality(S) -> S]
         /\ \A i, j \in 1..Cardinality(S) : SetToSeq(S)[i] = SetToSeq(S)[j] => i = j
         /\ \A x \in S : \E i \in 1..Cardinality(S) : SetToSeq(S)[i] = x
<1> DEFINE D == 1..Cardinality(S)
<1>1. Cardinality(S) \in Nat /\ ExistsBijection(D, S)
  BY FS_CardinalityType
<1>2. PICK g \in Bijection(D, S) : TRUE
  BY <1>1 DEF ExistsBijection
<1>3. g \in [D -> S] /\ IsInjective(g)
  BY <1>2 DEF Bijection, Injection, IsInjective
<1>4. SetToSeq(S) \in [D -> S] /\ IsInjective(SetToSeq(S))
  BY <1>3 DEF SetToSeq
<1>5. SetToSeq(S) \in Injection(D, S)
  BY <1>4 DEF Injection, IsInjective
<1>6. Cardinality(D) = Cardinality(S)
  BY <1>1, FS_Interval
<1>7. SetToSeq(S) \in Surjection(D, S)
  BY <1>5, <1>6, FS_Injection
<1> QED
  BY <1>1, <1>4, <1>7 DEF Surjection, IsInjective

LEMMA FunctionIsSeq ==
  ASSUME NEW S, NEW n \in Nat, NEW f \in [1..n -> S]
  PROVE  f \in Seq(S) /\ Len(f) = n /\ DOMAIN f = 1..n
BY SeqDef

LEMMA SetToSeqsAre ==
  ASSUME NEW S, NEW T, T \subseteq S, IsFiniteSet(S), NEW f \in SetToSeqs(T)
  PROVE  f \in Seq(S) /\ IsInjective(f) /\ ToSet(f) \subseteq T
<1>1. Cardinality(T) \in Nat
  BY FS_Subset, FS_CardinalityType
<1>2. f \in [1..Cardinality(T) -> T] /\ f \in [1..Cardinality(T) -> S]
  BY DEF SetToSeqs
<1>3. f \in Seq(S) /\ DOMAIN f = 1..Cardinality(T)
  BY <1>1, <1>2, FunctionIsSeq
<1>4. IsInjective(f)
  BY <1>2 DEF SetToSeqs, IsInjective
<1>5. ToSet(f) \subseteq T
  BY <1>2 DEF ToSet
<1> QED
  BY <1>3, <1>4, <1>5

LEMMA ConcatIs ==
  ASSUME NEW S, NEW s \in Seq(S), NEW t \in Seq(S)
  PROVE  /\ s \o t \in Seq(S) /\ Len(s \o t) = Len(s) + Len(t)
         /\ \A i \in 1..Len(s) : (s \o t)[i] = s[i]
         /\ \A i \in 1..Len(t) : (s \o t)[Len(s) + i] = t[i]
<1>1. Len(s) \in Nat /\ Len(t) \in Nat
  OBVIOUS
<1>2. ASSUME NEW i \in 1..Len(t)
      PROVE  Len(s) + i \in 1..(Len(s) + Len(t)) /\ ~(Len(s) + i <= Len(s)) /\ Len(s) + i - Len(s) = i
  BY <1>1
<1> QED
  BY <1>1, <1>2, ConcatProperties

\* The lines of some orders together.
LEMMA FlattenType ==
  ASSUME NEW S, NEW seqs \in Seq(Seq(S))
  PROVE  FlattenSeq(seqs) \in Seq(S)
<1> DEFINE N == Len(seqs)
           go == [x \in (1..N) \X Seq(S) |-> x[2] \o seqs[x[1]]]
           Flat(h) == h = [i \in 1..N |-> IF i = 1 THEN seqs[i] ELSE h[i - 1] \o seqs[i]]
           flat == CHOOSE h : Flat(h)
           B == {n \in 0..N : n # 0 => flat[n] \in Seq(S)}
<1>1. N \in Nat /\ \A i \in 1..N : seqs[i] \in Seq(S)
  BY LenProperties
<1>2. CASE N = 0
  <2>1. FlattenSeq(seqs) = <<>>
    BY <1>2 DEF FlattenSeq
  <2> QED
    BY <2>1
<1>3. CASE N # 0
  <2>1. go \in [(1..N) \X Seq(S) -> Seq(S)]
    BY <1>1, ConcatIs
  <2>2. PICK f \in [0..N -> Seq(S)] : Runs(f, N, <<>>, go)
    BY <1>1, <2>1, RunExists, EmptySeq
  <2>3. f[0] = <<>> /\ \A n \in 1..N : f[n] = f[n - 1] \o seqs[n] /\ f[n - 1] \in Seq(S)
    <3>1. f[0] = <<>>
      BY <1>1, <2>2 DEF Runs
    <3>2. ASSUME NEW n \in 1..N PROVE f[n] = f[n - 1] \o seqs[n] /\ f[n - 1] \in Seq(S)
      <4>1. n \in 0..N /\ n # 0 /\ n - 1 \in 0..N
        BY <1>1
      <4>2. f[n - 1] \in Seq(S)
        BY <4>1
      <4>3. f[n] = go[<<n, f[n - 1]>>]
        BY <2>2, <4>1 DEF Runs
      <4> QED
        BY <4>2, <4>3
    <3> QED
      BY <3>1, <3>2
  <2> HIDE DEF go
  <2> DEFINE g == [i \in 1..N |-> f[i]]
  <2>4. ASSUME NEW i \in 1..N PROVE g[i] = IF i = 1 THEN seqs[i] ELSE g[i - 1] \o seqs[i]
    <3>1. CASE i = 1
      <4>1. f[1] = <<>> \o seqs[1] /\ seqs[1] \in Seq(S)
        <5>1. 1 \in 1..N /\ 1 - 1 = 0
          BY <1>1, <1>3
        <5>2. f[1] = f[0] \o seqs[1]
          BY <2>3, <5>1
        <5> QED
          BY <1>1, <2>3, <5>1, <5>2
      <4> QED
        BY <3>1, <4>1, ConcatEmptySeq
    <3>2. CASE i # 1
      <4>1. i - 1 \in 1..N
        BY <3>2
      <4> QED
        BY <2>3, <3>2, <4>1
    <3> QED
      BY <3>1, <3>2
  <2>5. g = [i \in 1..N |-> g[i]]
    OBVIOUS
  <2> HIDE DEF g
  <2>6. Flat(g)
    BY <2>4, <2>5
  <2> HIDE DEF Flat
  <2>7. Flat(flat)
    BY <2>6
  <2>8. FlattenSeq(seqs) = flat[N]
    BY <1>3 DEF FlattenSeq, Flat
  <2> HIDE DEF flat
  <2>9. ASSUME NEW n \in 1..N, n - 1 \in B PROVE n \in B
    <3>1. flat[n] = IF n = 1 THEN seqs[n] ELSE flat[n - 1] \o seqs[n]
      BY <2>7 DEF Flat
    <3>2. n # 1 => flat[n - 1] \in Seq(S)
      BY <2>9
    <3>3. n # 1 => flat[n - 1] \o seqs[n] \in Seq(S)
      BY <1>1, <3>2, ConcatIs
    <3>4. flat[n] \in Seq(S)
      BY <1>1, <3>1, <3>3
    <3> QED
      BY <3>4
  <2>10. 0 \in B
    BY <1>1
  <2>11. \A n \in 0..N : n \in B
    <3> HIDE DEF B
    <3> QED
      BY <1>1, <2>9, <2>10, Upwards
  <2> QED
    BY <1>1, <1>3, <2>8, <2>11
<1> QED
  BY <1>2, <1>3

-----------------------------------------------------------------------------
(* Groups and chunks of orders.                                            *)

\* s has the orders of xs, each once.
Lists(s, xs) == s \in Seq(OutboundOrders) /\ IsInjective(s) /\ ToSet(s) = xs

OfKey(found, key, n) == {found[i] : i \in {j \in 1..n : KeyOf[found[j]] = key}}

LEMMA ListsAppend ==
  ASSUME NEW s, NEW xs, Lists(s, xs), NEW o \in OutboundOrders, o \notin xs
  PROVE  Lists(Append(s, o), xs \cup {o})
<1> DEFINE t == Append(s, o)
<1>1. s \in Seq(OutboundOrders) /\ Len(s) \in Nat /\ DOMAIN s = 1..Len(s)
  BY LenProperties DEF Lists
<1>2. /\ t \in Seq(OutboundOrders) /\ Len(t) = Len(s) + 1 /\ DOMAIN t = 1..(Len(s) + 1)
      /\ \A i \in 1..Len(s) : t[i] = s[i]
      /\ t[Len(s) + 1] = o
  BY <1>1, AppendProperties, LenProperties
<1>3. \A i \in 1..Len(s) : s[i] \in xs
  BY <1>1 DEF Lists, ToSet
<1> HIDE DEF t
<1>4. IsInjective(t)
  <2>1. ASSUME NEW i \in 1..(Len(s) + 1), NEW j \in 1..(Len(s) + 1), t[i] = t[j] PROVE i = j
    <3>1. i \in 1..Len(s) \/ i = Len(s) + 1
      BY <1>1
    <3>2. j \in 1..Len(s) \/ j = Len(s) + 1
      BY <1>1
    <3>3. CASE i \in 1..Len(s) /\ j \in 1..Len(s)
      BY <1>1, <1>2, <2>1, <3>3 DEF Lists, IsInjective
    <3> QED
      BY <1>2, <1>3, <2>1, <3>1, <3>2, <3>3
  <2> QED
    BY <1>2, <2>1 DEF IsInjective
<1>5. ToSet(t) = xs \cup {o}
  <2>1. ToSet(t) = {t[i] : i \in 1..(Len(s) + 1)}
    BY <1>2 DEF ToSet
  <2>2. xs = {s[i] : i \in 1..Len(s)}
    BY <1>1 DEF Lists, ToSet
  <2>3. \A i \in 1..(Len(s) + 1) : i \in 1..Len(s) \/ i = Len(s) + 1
    BY <1>1
  <2>4. \A i \in 1..Len(s) : i \in 1..(Len(s) + 1)
    BY <1>1
  <2>5. Len(s) + 1 \in 1..(Len(s) + 1)
    BY <1>1
  <2> QED
    BY <1>2, <2>1, <2>2, <2>3, <2>4, <2>5
<1> QED
  BY <1>2, <1>4, <1>5 DEF Lists, t

LEMMA GroupIs ==
  ASSUME NEW found \in Seq(OutboundOrders), IsInjective(found), NEW key
  PROVE  Lists(Group(found, key), {o \in ToSet(found) : KeyOf[o] = key})
<1> DEFINE N == Len(found)
           S == Seq(OutboundOrders)
           go == [x \in (1..N) \X S |-> IF KeyOf[found[x[1]]] = key THEN Append(x[2], found[x[1]]) ELSE x[2]]
           Kept(h) == h = [n \in 0..N |-> IF n = 0 THEN <<>>
                                ELSE IF KeyOf[found[n]] = key THEN Append(h[n - 1], found[n]) ELSE h[n - 1]]
           kept == CHOOSE h : Kept(h)
           B == {n \in 0..N : Lists(kept[n], OfKey(found, key, n))}
<1>1. N \in Nat /\ DOMAIN found = 1..N /\ \A i \in 1..N : found[i] \in OutboundOrders
  BY LenProperties
<1>2. go \in [(1..N) \X S -> S]
  BY <1>1, AppendProperties
<1>3. PICK f \in [0..N -> S] : Runs(f, N, <<>>, go)
  BY <1>1, <1>2, RunExists, EmptySeq
<1>4. ASSUME NEW n \in 0..N
      PROVE  f[n] = IF n = 0 THEN <<>>
                    ELSE IF KeyOf[found[n]] = key THEN Append(f[n - 1], found[n]) ELSE f[n - 1]
  <2>1. f[n] = IF n = 0 THEN <<>> ELSE go[<<n, f[n - 1]>>]
    BY <1>3 DEF Runs
  <2>2. CASE n # 0
    <3>1. n \in 1..N /\ n - 1 \in 0..N
      BY <1>1, <2>2
    <3>2. f[n - 1] \in S
      BY <3>1
    <3>3. <<n, f[n - 1]>> \in (1..N) \X S
      BY <3>1, <3>2
    <3>4. go[<<n, f[n - 1]>>] = IF KeyOf[found[n]] = key THEN Append(f[n - 1], found[n]) ELSE f[n - 1]
      BY <3>3
    <3> QED
      BY <2>1, <2>2, <3>4
  <2> QED
    BY <2>1, <2>2
<1>5. f = [n \in 0..N |-> f[n]]
  OBVIOUS
<1> HIDE DEF go
<1>6. Kept(f)
  BY <1>4, <1>5
<1> HIDE DEF Kept
<1>7. Kept(kept)
  BY <1>6
<1>8. Group(found, key) = kept[N]
  BY DEF Group, Kept
<1> HIDE DEF kept
<1>9. \A n \in 0..N : kept[n] = IF n = 0 THEN <<>>
         ELSE IF KeyOf[found[n]] = key THEN Append(kept[n - 1], found[n]) ELSE kept[n - 1]
  BY <1>7 DEF Kept
<1>10. 0 \in B
  <2>1. kept[0] = <<>> /\ OfKey(found, key, 0) = {}
    BY <1>1, <1>9 DEF OfKey
  <2>2. Lists(<<>>, {})
    BY DEF Lists, IsInjective, ToSet
  <2>3. Lists(kept[0], OfKey(found, key, 0))
    BY <2>1, <2>2
  <2>4. 0 \in 0..N
    BY <1>1
  <2> QED
    BY <2>3, <2>4
<1>11. ASSUME NEW n \in 1..N, n - 1 \in B PROVE n \in B
  <2>1. n \in 0..N /\ n # 0 /\ n - 1 \in 0..N
    BY <1>1
  <2>2. Lists(kept[n - 1], OfKey(found, key, n - 1))
    BY <1>11
  <2>3. \A j : j \in 1..n <=> j \in 1..(n - 1) \/ j = n
    BY <2>1
  <2>4. CASE KeyOf[found[n]] = key
    <3>1. OfKey(found, key, n) = OfKey(found, key, n - 1) \cup {found[n]}
      BY <2>3, <2>4 DEF OfKey
    <3>2. found[n] \notin OfKey(found, key, n - 1)
      <4>1. \A j \in 1..(n - 1) : j \in 1..N /\ j # n
        BY <1>1
      <4> QED
        BY <1>1, <4>1 DEF OfKey, IsInjective
    <3>3. kept[n] = Append(kept[n - 1], found[n])
      BY <1>9, <2>1, <2>4
    <3>4. Lists(Append(kept[n - 1], found[n]), OfKey(found, key, n - 1) \cup {found[n]})
      BY <1>1, <2>2, <3>2, ListsAppend
    <3> QED
      BY <2>1, <3>1, <3>3, <3>4
  <2>5. CASE KeyOf[found[n]] # key
    <3>1. OfKey(found, key, n) = OfKey(found, key, n - 1)
      BY <2>3, <2>5 DEF OfKey
    <3>2. kept[n] = kept[n - 1]
      BY <1>9, <2>1, <2>5
    <3> QED
      BY <2>1, <2>2, <3>1, <3>2
  <2> QED
    BY <2>4, <2>5
<1> HIDE DEF B
<1>12. N \in B
  <2>1. \A n \in 0..N : n \in B
    BY <1>1, <1>10, <1>11, Upwards
  <2>2. N \in 0..N
    BY <1>1
  <2> QED
    BY <2>1, <2>2
<1>13. OfKey(found, key, N) = {o \in ToSet(found) : KeyOf[o] = key}
  BY <1>1 DEF OfKey, ToSet
<1> QED
  BY <1>8, <1>12, <1>13 DEF B

LEMMA Quotient ==
  ASSUME NEW a \in Nat, NEW m \in Nat \ {0}
  PROVE  /\ a \div m \in Nat /\ (a \div m) * m <= a /\ a < (a \div m) * m + m
         /\ \A k \in Nat : k * m <= a => k <= a \div m
OBVIOUS

LEMMA Multiples ==
  ASSUME NEW m \in Nat, NEW k \in Nat, NEW l \in Nat
  PROVE  /\ k * m \in Nat /\ (k + 1) * m = k * m + m
         /\ k < l => (k + 1) * m <= l * m
<1>1. k * m \in Nat /\ (k + 1) * m = k * m + m
  OBVIOUS
<1>2. ASSUME k < l PROVE (k + 1) * m <= l * m
  <2>1. PICK d \in Nat : l = (k + 1) + d
    <3>1. l - (k + 1) \in Nat /\ l = (k + 1) + (l - (k + 1))
      BY <1>2
    <3> QED
      BY <3>1
  <2>2. l * m = (k + 1) * m + d * m
    BY <2>1
  <2>3. d * m \in Nat /\ (k + 1) * m \in Nat
    OBVIOUS
  <2> QED
    BY <2>2, <2>3
<1> QED
  BY <1>1, <1>2

\* A chunk has the elements from one place of s to another.
From(k, m)   == k * m
To(s, k, m)  == IF (k + 1) * m < Len(s) THEN (k + 1) * m ELSE Len(s)
Between(s, i, j) == {s[n] : n \in (i + 1)..j}

LEMMA ChunkIs ==
  ASSUME NEW s, NEW xs, Lists(s, xs), NEW m \in Nat, NEW k \in Nat, From(k, m) <= Len(s)
  PROVE  /\ Lists(Chunk(s, m, k), Between(s, From(k, m), To(s, k, m)))
         /\ Len(Chunk(s, m, k)) <= m /\ Between(s, From(k, m), To(s, k, m)) \subseteq xs
<1> DEFINE i == From(k, m)
           j == To(s, k, m)
           c == Chunk(s, m, k)
<1>1. s \in Seq(OutboundOrders) /\ Len(s) \in Nat /\ DOMAIN s = 1..Len(s)
  BY LenProperties DEF Lists
<1>2. i \in Nat /\ j \in Nat /\ i <= j /\ j <= Len(s) /\ j - i <= m /\ i <= Len(s)
  BY <1>1, Multiples DEF From, To
<1>3. c = SubSeq(s, i + 1, j)
  BY DEF Chunk, From, To
<1> HIDE DEF i, j, c
<1>4. \A n \in (i + 1)..j : s[n] \in OutboundOrders
  <2>1. \A n \in (i + 1)..j : n \in 1..Len(s)
    BY <1>1, <1>2
  <2> QED
    BY <1>1, <2>1, ElementOfSeq
<1>5. /\ c \in Seq(OutboundOrders)
      /\ Len(c) = IF i + 1 <= j THEN j - (i + 1) + 1 ELSE 0
      /\ \A n \in 1..(j - (i + 1) + 1) : c[n] = s[i + 1 + n - 1]
  <2>1. i + 1 \in Int /\ j \in Int
    BY <1>2
  <2> QED
    BY <1>3, <1>4, <2>1, SubSeqProperties
<1>6. Len(c) = j - i /\ DOMAIN c = 1..(j - i)
  BY <1>2, <1>5, LenProperties
<1>7. ASSUME NEW n \in 1..(j - i) PROVE c[n] = s[i + n] /\ i + n \in (i + 1)..j /\ i + n \in 1..Len(s)
  <2>1. n \in 1..(j - (i + 1) + 1) /\ i + 1 + n - 1 = i + n
    BY <1>2
  <2>2. i + n \in (i + 1)..j /\ i + n \in 1..Len(s)
    BY <1>1, <1>2
  <2> QED
    BY <1>5, <2>1, <2>2
<1>8. IsInjective(c)
  <2>1. ASSUME NEW a \in 1..(j - i), NEW b \in 1..(j - i), c[a] = c[b] PROVE a = b
    <3>1. i + a = i + b
      BY <1>1, <1>7, <2>1 DEF Lists, IsInjective
    <3> QED
      BY <1>2, <3>1
  <2> QED
    BY <1>6, <2>1 DEF IsInjective
<1>9. ToSet(c) = Between(s, i, j)
  <2>1. ToSet(c) = {c[n] : n \in 1..(j - i)}
    BY <1>6 DEF ToSet
  <2>2. ASSUME NEW n \in (i + 1)..j PROVE n - i \in 1..(j - i) /\ c[n - i] = s[n]
    <3>1. n - i \in 1..(j - i) /\ i + (n - i) = n
      BY <1>2
    <3> QED
      BY <1>7, <3>1
  <2>3. Between(s, i, j) = {s[n] : n \in (i + 1)..j}
    BY DEF Between
  <2>4. \A n \in 1..(j - i) : c[n] = s[i + n] /\ i + n \in (i + 1)..j
    BY <1>7
  <2> QED
    BY <2>1, <2>2, <2>3, <2>4
<1>10. Between(s, i, j) \subseteq xs
  <2>1. \A n \in (i + 1)..j : n \in 1..Len(s)
    BY <1>1, <1>2
  <2> QED
    BY <1>1, <2>1 DEF Between, Lists, ToSet
<1>11. Lists(c, Between(s, i, j)) /\ Len(c) <= m /\ Between(s, i, j) \subseteq xs
  BY <1>2, <1>5, <1>6, <1>8, <1>9, <1>10 DEF Lists
<1> QED
  BY <1>11 DEF i, j, c

\* The sequences of C have each of xs once, and at most m of them each.
Divides(C, xs, m) ==
  /\ IsFiniteSet(C)
  /\ \A c \in C : Lists(c, ToSet(c)) /\ ToSet(c) \subseteq xs /\ Len(c) <= m
  /\ \A x \in xs : \E c \in C : x \in ToSet(c)
  /\ \A b, c \in C : b = c \/ ToSet(b) \cap ToSet(c) = {}

LEMMA ChunkRanges ==
  ASSUME NEW s, NEW xs, Lists(s, xs), NEW m \in Nat \ {0}, NEW k \in Nat, NEW l \in Nat, k < l
  PROVE  Between(s, From(k, m), To(s, k, m)) \cap Between(s, From(l, m), To(s, l, m)) = {}
<1>1. Len(s) \in Nat /\ DOMAIN s = 1..Len(s)
  BY LenProperties DEF Lists
<1>2. (k + 1) * m <= l * m /\ (k + 1) * m \in Nat /\ l * m \in Nat /\ k * m \in Nat
  BY Multiples
<1>3. To(s, k, m) \in Nat /\ To(s, l, m) \in Nat /\ To(s, k, m) <= From(l, m) /\ To(s, l, m) <= Len(s)
      /\ To(s, k, m) <= Len(s) /\ From(k, m) \in Nat /\ From(l, m) \in Nat
  <2>1. (l + 1) * m \in Nat
    BY Multiples
  <2> QED
    BY <1>1, <1>2, <2>1 DEF From, To
<1>4. \A i \in (From(k, m) + 1)..To(s, k, m), j \in (From(l, m) + 1)..To(s, l, m) :
         i # j /\ i \in 1..Len(s) /\ j \in 1..Len(s)
  BY <1>1, <1>3
<1>5. \A i \in (From(k, m) + 1)..To(s, k, m), j \in (From(l, m) + 1)..To(s, l, m) : s[i] # s[j]
  BY <1>1, <1>4 DEF Lists, IsInjective
<1> QED
  BY <1>5 DEF Between

LEMMA ChunksDivide ==
  ASSUME NEW s, NEW xs, Lists(s, xs), s # <<>>, NEW m \in Nat \ {0}
  PROVE  Divides(Chunks(s, m), xs, m)
<1> DEFINE last == (Len(s) - 1) \div m
           range(k) == Between(s, From(k, m), To(s, k, m))
<1>1. /\ s \in Seq(OutboundOrders) /\ Len(s) \in Nat \ {0} /\ DOMAIN s = 1..Len(s)
      /\ Len(s) - 1 \in Nat
  <2>1. s \in Seq(OutboundOrders)
    BY DEF Lists
  <2>2. Len(s) \in Nat \ {0} /\ DOMAIN s = 1..Len(s)
    BY <2>1, LenProperties, EmptySeq
  <2> QED
    BY <2>1, <2>2
<1>2. last \in Nat /\ last * m <= Len(s) - 1
  BY <1>1, Quotient
<1>3. Chunks(s, m) = {Chunk(s, m, k) : k \in 0..last}
  BY DEF Chunks
<1> HIDE DEF last
<1>4. ASSUME NEW k \in 0..last
      PROVE  k \in Nat /\ Lists(Chunk(s, m, k), range(k)) /\ Len(Chunk(s, m, k)) <= m /\ range(k) \subseteq xs
  <2>1. k \in Nat /\ (k = last \/ k < last)
    BY <1>2
  <2>2. k * m \in Nat /\ last * m \in Nat /\ (k + 1) * m = k * m + m
    BY <1>2, <2>1, Multiples
  <2>3. k * m <= last * m
    BY <1>2, <2>1, <2>2, Multiples
  <2>4. From(k, m) <= Len(s)
    BY <1>1, <1>2, <2>2, <2>3 DEF From
  <2> QED
    BY <2>1, <2>4, ChunkIs
<1> HIDE DEF range
<1>5. \A k \in 0..last : ToSet(Chunk(s, m, k)) = range(k)
  BY <1>4 DEF Lists
<1>6. IsFiniteSet(Chunks(s, m))
  <2>1. IsFiniteSet(0..last)
    BY <1>2, FS_Interval
  <2> DEFINE f == [k \in 0..last |-> Chunk(s, m, k)]
  <2>2. f \in Surjection(0..last, Chunks(s, m))
    BY <1>3 DEF Surjection
  <2> QED
    BY <2>1, <2>2, FS_Surjection
<1>7. ASSUME NEW x \in xs PROVE \E c \in Chunks(s, m) : x \in ToSet(c)
  <2>1. PICK j \in 1..Len(s) : x = s[j]
    BY <1>1 DEF Lists, ToSet
  <2> DEFINE k == (j - 1) \div m
  <2>2. j - 1 \in Nat /\ j \in Nat
    OBVIOUS
  <2>3. k \in Nat /\ k * m <= j - 1 /\ j - 1 < k * m + m
    BY <2>2, Quotient
  <2> HIDE DEF k
  <2>4. k * m \in Nat /\ (k + 1) * m = k * m + m
    BY <2>3, Multiples
  <2>5. k <= last
    <3>1. k * m <= Len(s) - 1
      BY <1>1, <2>3, <2>4
    <3> QED
      BY <1>1, <2>3, <3>1, Quotient DEF last
  <2>6. k \in 0..last
    BY <1>2, <2>3, <2>5
  <2>7. j \in (From(k, m) + 1)..To(s, k, m)
    BY <1>1, <2>3, <2>4 DEF From, To
  <2>8. x \in range(k)
    BY <2>1, <2>7 DEF range, Between
  <2> QED
    BY <1>3, <1>5, <2>6, <2>8
<1>8. ASSUME NEW b \in Chunks(s, m), NEW c \in Chunks(s, m), b # c PROVE ToSet(b) \cap ToSet(c) = {}
  <2>1. PICK k \in 0..last : b = Chunk(s, m, k)
    BY <1>3
  <2>2. PICK l \in 0..last : c = Chunk(s, m, l)
    BY <1>3
  <2>3. k \in Nat /\ l \in Nat /\ k # l
    BY <1>4, <1>8, <2>1, <2>2
  <2>4. k < l => range(k) \cap range(l) = {}
    BY <2>3, ChunkRanges DEF range
  <2>5. l < k => range(l) \cap range(k) = {}
    BY <2>3, ChunkRanges DEF range
  <2>6. k < l \/ l < k
    BY <2>3
  <2> QED
    BY <1>5, <2>1, <2>2, <2>4, <2>5, <2>6
<1>9. \A c \in Chunks(s, m) : Lists(c, ToSet(c)) /\ ToSet(c) \subseteq xs /\ Len(c) <= m
  BY <1>3, <1>4, <1>5
<1> QED
  BY <1>6, <1>7, <1>8, <1>9 DEF Divides

\* The chunks of all groups: each order found once, and orders of one key together.
LEMMA AllChunksDivide ==
  ASSUME NEW found \in Seq(OutboundOrders), IsInjective(found), NEW size \in Nat
  PROVE  LET C == AllChunks(found, size)
         IN /\ IsFiniteSet(C) /\ ToSet(found) = UNION {ToSet(c) : c \in C}
            /\ \A c \in C : /\ Lists(c, ToSet(c)) /\ ToSet(c) \subseteq ToSet(found)
                            /\ size # 0 => Len(c) <= size
                            /\ \A x, y \in ToSet(c) : KeyOf[x] = KeyOf[y]
            /\ \A b, c \in C : b = c \/ ToSet(b) \cap ToSet(c) = {}
<1> DEFINE F == ToSet(found)
           Same(o) == {x \in F : KeyOf[x] = KeyOf[o]}
           Mine(o) == Group(found, KeyOf[o])
           Most(o) == IF size = 0 THEN Len(Mine(o)) ELSE size
           Cut(o) == Chunks(Mine(o), Most(o))
           C == AllChunks(found, size)
<1>1. F \subseteq OutboundOrders /\ IsFiniteSet(F)
  <2>1. F \subseteq OutboundOrders
    BY LenProperties DEF ToSet
  <2>2. IsFiniteSet(OutboundOrders)
    BY WavesAssumption
  <2> QED
    BY <2>1, <2>2, FS_Subset
<1>2. C = UNION {Cut(o) : o \in F}
  BY DEF AllChunks
<1>3. ASSUME NEW o \in F PROVE Lists(Mine(o), Same(o)) /\ Divides(Cut(o), Same(o), Most(o))
  <2>1. Lists(Mine(o), Same(o))
    BY GroupIs
  <2>2. o \in Same(o)
    OBVIOUS
  <2> HIDE DEF Mine, Same
  <2>3. Mine(o) # <<>>
    BY <2>1, <2>2 DEF Lists, ToSet
  <2>4. Mine(o) \in Seq(OutboundOrders)
    BY <2>1 DEF Lists
  <2>5. Len(Mine(o)) \in Nat \ {0}
    BY <2>3, <2>4, EmptySeq
  <2>6. Most(o) \in Nat \ {0}
    BY <2>5
  <2> HIDE DEF Most
  <2> QED
    BY <2>1, <2>3, <2>6, ChunksDivide
<1> HIDE DEF Mine, Cut, C
<1>4. ASSUME NEW o \in F
      PROVE /\ IsFiniteSet(Cut(o))
            /\ \A c \in Cut(o) : Lists(c, ToSet(c)) /\ ToSet(c) \subseteq Same(o) /\ Len(c) <= Most(o)
            /\ \A x \in Same(o) : \E c \in Cut(o) : x \in ToSet(c)
            /\ \A b, c \in Cut(o) : b = c \/ ToSet(b) \cap ToSet(c) = {}
  BY <1>3 DEF Divides
<1>5. IsFiniteSet(C)
  <2> DEFINE f == [o \in F |-> Cut(o)]
             all == {Cut(o) : o \in F}
  <2>1. f \in Surjection(F, all)
    BY DEF Surjection
  <2>2. IsFiniteSet(all)
    <3> HIDE DEF f, all, F
    <3> QED
      BY <1>1, <2>1, FS_Surjection
  <2>3. \A c \in all : IsFiniteSet(c)
    BY <1>4
  <2>4. IsFiniteSet(UNION all)
    <3> HIDE DEF all
    <3> QED
      BY <2>2, <2>3, FS_UNION
  <2> QED
    BY <1>2, <2>4
<1>6. ASSUME NEW c \in C
      PROVE  /\ Lists(c, ToSet(c)) /\ ToSet(c) \subseteq F
             /\ size # 0 => Len(c) <= size
             /\ \A x, y \in ToSet(c) : KeyOf[x] = KeyOf[y]
  <2>1. PICK o \in F : c \in Cut(o)
    BY <1>2
  <2>2. Lists(c, ToSet(c)) /\ ToSet(c) \subseteq Same(o) /\ Len(c) <= Most(o)
    BY <1>4, <2>1
  <2> QED
    BY <2>2
<1>7. F = UNION {ToSet(c) : c \in C}
  <2>1. ASSUME NEW o \in F PROVE \E c \in C : o \in ToSet(c)
    <3>1. o \in Same(o)
      OBVIOUS
    <3>2. \A x \in Same(o) : \E c \in Cut(o) : x \in ToSet(c)
      <4> HIDE DEF Same, Most
      <4> QED
        BY <1>3 DEF Divides
    <3>3. PICK c \in Cut(o) : o \in ToSet(c)
      <4> HIDE DEF Same
      <4> QED
        BY <3>1, <3>2
    <3> QED
      BY <1>2, <3>3
  <2> HIDE DEF F
  <2> QED
    BY <1>6, <2>1
<1>8. ASSUME NEW b \in C, NEW c \in C, b # c PROVE ToSet(b) \cap ToSet(c) = {}
  <2>1. PICK o \in F : b \in Cut(o)
    BY <1>2
  <2>2. PICK x \in F : c \in Cut(x)
    BY <1>2
  <2>3. CASE KeyOf[o] = KeyOf[x]
    <3>1. Cut(o) = Cut(x)
      BY <2>3 DEF Cut, Mine
    <3> QED
      BY <1>4, <1>8, <2>1, <2>2, <3>1
  <2>4. CASE KeyOf[o] # KeyOf[x]
    <3>1. ToSet(b) \subseteq Same(o) /\ ToSet(c) \subseteq Same(x)
      BY <1>4, <2>1, <2>2
    <3> QED
      BY <2>4, <3>1
  <2> QED
    BY <2>3, <2>4
<1> HIDE DEF F
<1>9. ToSet(found) = UNION {ToSet(c) : c \in C}
  BY <1>7 DEF F
<1> QED
  BY <1>5, <1>6, <1>8, <1>9 DEF C, F

-----------------------------------------------------------------------------
(* The walk.                                                               *)

LEMMA Least ==
  ASSUME NEW B, B \subseteq Nat, B # {}
  PROVE  \E n \in B : \A m \in B : n <= m
<1>1. PICK n \in B : \A m \in B : <<m, n>> \notin OpToRel(<, Nat)
  BY NatLessThanWellFounded, WFMin
<1>2. \A m \in B : ~(m < n)
  BY <1>1 DEF OpToRel
<1> QED
  BY <1>2

LEMMA NearestIs ==
  ASSUME NEW from \in Nodes, NEW s \in Seq(Locs), s # <<>>
  PROVE  /\ Nearest(from, s) \in 1..Len(s)
         /\ \A j \in 1..Len(s) : Dist[<<from, s[Nearest(from, s)]>>] <= Dist[<<from, s[j]>>]
<1> DEFINE D == 1..Len(s)
           far == [j \in D |-> Dist[<<from, s[j]>>]]
           ds == {far[j] : j \in D}
           ks(d) == {j \in D : far[j] = d}
<1>1. Len(s) \in Nat /\ 1 \in D /\ D \subseteq Nat
  BY EmptySeq
<1>2. far \in [D -> Nat]
  <2>1. \A j \in D : s[j] \in Nodes
    BY ElementOfSeq DEF Nodes
  <2> QED
    BY <2>1, WavesAssumption
<1>4. Nearest(from, s) = CHOOSE k \in D : IsNearest(from, s, k)
  BY DEF Nearest
<1>5. \A j \in D : Dist[<<from, s[j]>>] = far[j]
  OBVIOUS
<1> HIDE DEF far
<1>3. \A k \in D : IsNearest(from, s, k) <=> \A j \in D : far[k] < far[j] \/ (far[k] = far[j] /\ k <= j)
  BY <1>5 DEF IsNearest
<1> HIDE DEF D
<1>6. ds \subseteq Nat /\ ds # {}
  BY <1>1, <1>2
<1>7. PICK d \in ds : \A e \in ds : d <= e
  <2> HIDE DEF ds
  <2> QED
    BY <1>6, Least
<1>8. ks(d) \subseteq Nat /\ ks(d) # {}
  BY <1>1, <1>7
<1>9. PICK k \in ks(d) : \A j \in ks(d) : k <= j
  <2> HIDE DEF ks
  <2> QED
    BY <1>8, Least
<1>10. IsNearest(from, s, k)
  <2>1. k \in D /\ far[k] = d
    OBVIOUS
  <2>2. ASSUME NEW j \in D PROVE far[k] < far[j] \/ (far[k] = far[j] /\ k <= j)
    <3>1. far[j] \in Nat /\ far[j] \in ds /\ d \in Nat
      BY <1>2, <1>6
    <3>2. d <= far[j]
      BY <1>7, <3>1
    <3>3. far[j] = d => k <= j
      BY <1>9
    <3> HIDE DEF ks, ds
    <3>4. far[k] <= far[j] /\ far[k] \in Nat
      BY <2>1, <3>1, <3>2
    <3>5. far[k] = far[j] => k <= j
      BY <2>1, <3>3
    <3> QED
      BY <3>1, <3>4, <3>5
  <2> QED
    BY <1>3, <2>1, <2>2
<1>11. Nearest(from, s) \in D /\ IsNearest(from, s, Nearest(from, s))
  BY <1>4, <1>9, <1>10
<1>12. \A j \in D : far[Nearest(from, s)] <= far[j]
  BY <1>2, <1>3, <1>11
<1> QED
  BY <1>5, <1>11, <1>12 DEF D

LEMMA RemoveAtIs ==
  ASSUME NEW S, NEW s \in Seq(S), IsInjective(s), NEW k \in 1..Len(s)
  PROVE  /\ RemoveAt(s, k) \in Seq(S) /\ Len(RemoveAt(s, k)) = Len(s) - 1
         /\ IsInjective(RemoveAt(s, k)) /\ ToSet(RemoveAt(s, k)) = ToSet(s) \ {s[k]}
<1> DEFINE N == Len(s)
           a == SubSeq(s, 1, k - 1)
           b == SubSeq(s, k + 1, N)
           c == a \o b
           was(i) == IF i < k THEN i ELSE i + 1
<1>1. N \in Nat /\ DOMAIN s = 1..N /\ k \in Nat /\ 1 <= k /\ k <= N /\ \A i \in 1..N : s[i] \in S
  BY LenProperties
<1>2. a \in Seq(S) /\ Len(a) = k - 1 /\ \A i \in 1..(k - 1) : a[i] = s[i]
  <2>1. \A i \in 1..(k - 1) : s[i] \in S
    BY <1>1
  <2>2. 1 \in Int /\ k - 1 \in Int
    BY <1>1
  <2>3. /\ a \in Seq(S) /\ Len(a) = IF 1 <= k - 1 THEN (k - 1) - 1 + 1 ELSE 0
        /\ \A i \in 1..((k - 1) - 1 + 1) : a[i] = s[1 + i - 1]
    BY <2>1, <2>2, SubSeqProperties
  <2> HIDE DEF a
  <2> QED
    BY <1>1, <2>3
<1>3. b \in Seq(S) /\ Len(b) = N - k /\ \A i \in 1..(N - k) : b[i] = s[k + i]
  <2>1. \A i \in (k + 1)..N : s[i] \in S
    BY <1>1
  <2>2. k + 1 \in Int /\ N \in Int
    BY <1>1
  <2>3. /\ b \in Seq(S) /\ Len(b) = IF k + 1 <= N THEN N - (k + 1) + 1 ELSE 0
        /\ \A i \in 1..(N - (k + 1) + 1) : b[i] = s[k + 1 + i - 1]
    BY <2>1, <2>2, SubSeqProperties
  <2>4. N - (k + 1) + 1 = N - k /\ \A i \in 1..(N - k) : k + 1 + i - 1 = k + i
    BY <1>1
  <2> HIDE DEF b
  <2>5. Len(b) = N - k
    <3>1. Len(b) = IF k + 1 <= N THEN N - (k + 1) + 1 ELSE 0
      BY <2>3
    <3> HIDE DEF N
    <3> QED
      BY <1>1, <3>1
  <2>6. ASSUME NEW i \in 1..(N - k) PROVE b[i] = s[k + i]
    <3>1. b[i] = s[k + 1 + i - 1]
      BY <2>3, <2>4
    <3> QED
      BY <2>4, <3>1
  <2> QED
    BY <2>3, <2>5, <2>6
<1> HIDE DEF a, b
<1>4. /\ c \in Seq(S) /\ Len(c) = N - 1 /\ DOMAIN c = 1..(N - 1)
      /\ \A i \in 1..(k - 1) : c[i] = s[i]
      /\ \A i \in 1..(N - k) : c[(k - 1) + i] = s[k + i]
  <2>1. /\ c \in Seq(S) /\ Len(c) = (k - 1) + (N - k)
        /\ \A i \in 1..(k - 1) : c[i] = a[i]
        /\ \A i \in 1..(N - k) : c[(k - 1) + i] = b[i]
    <3>1. /\ c \in Seq(S) /\ Len(c) = Len(a) + Len(b)
          /\ \A i \in 1..Len(a) : c[i] = a[i]
          /\ \A i \in 1..Len(b) : c[Len(a) + i] = b[i]
      <4>1. a \in Seq(S) /\ b \in Seq(S)
        BY <1>2, <1>3
      <4> QED
        BY <4>1, ConcatIs
    <3> HIDE DEF c
    <3> QED
      BY <1>2, <1>3, <3>1
  <2>2. DOMAIN c = 1..Len(c) /\ (k - 1) + (N - k) = N - 1
    BY <1>1, <2>1, LenProperties
  <2> HIDE DEF c
  <2> QED
    BY <1>2, <1>3, <2>1, <2>2
<1> HIDE DEF c
<1>5. ASSUME NEW i \in 1..(N - 1) PROVE c[i] = s[was(i)] /\ was(i) \in 1..N /\ was(i) # k
  <2>1. CASE i < k
    BY <1>1, <1>4, <2>1
  <2>2. CASE ~(i < k)
    <3>1. i - (k - 1) \in 1..(N - k) /\ (k - 1) + (i - (k - 1)) = i /\ k + (i - (k - 1)) = i + 1
      BY <1>1, <2>2
    <3>2. c[(k - 1) + (i - (k - 1))] = s[k + (i - (k - 1))]
      BY <1>4, <3>1
    <3> QED
      BY <1>1, <2>2, <3>1, <3>2
  <2> QED
    BY <2>1, <2>2
<1>6. IsInjective(c)
  <2>1. ASSUME NEW i \in 1..(N - 1), NEW j \in 1..(N - 1), c[i] = c[j] PROVE i = j
    <3>1. was(i) = was(j)
      BY <1>1, <1>5, <2>1 DEF IsInjective
    <3> QED
      BY <1>1, <3>1
  <2> QED
    BY <1>4, <2>1 DEF IsInjective
<1>7. ToSet(c) = ToSet(s) \ {s[k]}
  <2>1. ToSet(c) = {c[i] : i \in 1..(N - 1)} /\ ToSet(s) = {s[i] : i \in 1..N}
    BY <1>1, <1>4 DEF ToSet
  <2>2. \A i \in 1..(N - 1) : c[i] \in ToSet(s) /\ c[i] # s[k]
    <3>1. \A i \in 1..N : s[i] = s[k] => i = k
      BY <1>1 DEF IsInjective
    <3>2. \A i \in 1..(N - 1) : c[i] = s[was(i)] /\ was(i) \in 1..N /\ was(i) # k
      BY <1>5
    <3> HIDE DEF was
    <3> QED
      BY <2>1, <3>1, <3>2
  <2>3. ASSUME NEW j \in 1..N, j # k PROVE \E i \in 1..(N - 1) : c[i] = s[j]
    <3>1. CASE j < k
      <4>1. j \in 1..(N - 1) /\ was(j) = j
        BY <1>1, <3>1
      <4> QED
        BY <1>5, <4>1
    <3>2. CASE j > k
      <4>1. j - 1 \in 1..(N - 1) /\ was(j - 1) = j
        BY <1>1, <3>2
      <4> QED
        BY <1>5, <4>1
    <3> QED
      BY <1>1, <2>3, <3>1, <3>2
  <2>4. \A j \in 1..N : s[j] # s[k] => \E i \in 1..(N - 1) : c[i] = s[j]
    BY <2>3
  <2> HIDE DEF N
  <2> QED
    BY <2>1, <2>2, <2>4
<1>8. RemoveAt(s, k) = c
  BY DEF RemoveAt, a, b, c
<1> QED
  BY <1>4, <1>6, <1>7, <1>8

\* t is the walk over the nodes of xs after n steps.
Walked(t, xs, n) ==
  /\ t.route \in Seq(Nodes) /\ Len(t.route) = n + 1 /\ t.route[1] = Start /\ IsInjective(t.route)
  /\ t.remaining \in Seq(Locs) /\ IsInjective(t.remaining)
  /\ ToSet(t.route) \ {Start} = xs \ ToSet(t.remaining)
  /\ ToSet(t.route) \cap ToSet(t.remaining) = {} /\ ToSet(t.remaining) \subseteq xs
  /\ \A k \in 1..n : /\ \A j \in (k + 1)..(n + 1) :
                          Dist[<<t.route[k], t.route[k + 1]>>] <= Dist[<<t.route[k], t.route[j]>>]
                     /\ \A x \in ToSet(t.remaining) :
                          Dist[<<t.route[k], t.route[k + 1]>>] <= Dist[<<t.route[k], x>>]

Onward(t) ==
  LET k == Nearest(Last(t.route), t.remaining)
  IN [route |-> Append(t.route, t.remaining[k]), remaining |-> RemoveAt(t.remaining, k)]

LEMMA AppendIs ==
  ASSUME NEW S, NEW s \in Seq(S), NEW e \in S
  PROVE  /\ Append(s, e) \in Seq(S) /\ Len(Append(s, e)) = Len(s) + 1
         /\ \A i \in 1..Len(s) : Append(s, e)[i] = s[i]
         /\ Append(s, e)[Len(s) + 1] = e
         /\ ToSet(Append(s, e)) = ToSet(s) \cup {e}
         /\ IsInjective(s) /\ e \notin ToSet(s) => IsInjective(Append(s, e))
<1> DEFINE t == Append(s, e)
           N == Len(s)
<1>1. N \in Nat /\ DOMAIN s = 1..N
  BY LenProperties
<1>2. t \in Seq(S) /\ Len(t) = N + 1 /\ DOMAIN t = 1..(N + 1)
      /\ (\A i \in 1..N : t[i] = s[i]) /\ t[N + 1] = e
  BY <1>1, AppendProperties, LenProperties
<1> HIDE DEF t, N
<1>3. \A i : i \in 1..(N + 1) <=> i \in 1..N \/ i = N + 1
  BY <1>1
<1>4. ToSet(t) = ToSet(s) \cup {e}
  <2>1. ToSet(t) = {t[i] : i \in 1..(N + 1)} /\ ToSet(s) = {s[i] : i \in 1..N}
    BY <1>1, <1>2 DEF ToSet
  <2> QED
    BY <1>2, <1>3, <2>1
<1>5. ASSUME IsInjective(s), e \notin ToSet(s) PROVE IsInjective(t)
  <2>1. \A i \in 1..N : s[i] # e
    BY <1>1, <1>5 DEF ToSet
  <2>2. \A i, j \in 1..N : s[i] = s[j] => i = j
    BY <1>1, <1>5 DEF IsInjective
  <2>3. \A i, j \in 1..(N + 1) : t[i] = t[j] => i = j
    BY <1>2, <1>3, <2>1, <2>2
  <2> QED
    BY <1>2, <2>3 DEF IsInjective
<1>6. /\ t \in Seq(S) /\ Len(t) = N + 1
      /\ \A i \in 1..N : t[i] = s[i]
      /\ t[N + 1] = e /\ ToSet(t) = ToSet(s) \cup {e}
      /\ IsInjective(s) /\ e \notin ToSet(s) => IsInjective(t)
  BY <1>2, <1>4, <1>5
<1> QED
  BY <1>6 DEF t, N

LEMMA WalkOnward ==
  ASSUME NEW xs, NEW n \in Nat, NEW t, Walked(t, xs, n), t.remaining # <<>>
  PROVE  Walked(Onward(t), xs, n + 1) /\ Len(Onward(t).remaining) = Len(t.remaining) - 1
<1> DEFINE r == t.route
           m == t.remaining
           from == r[n + 1]
           k == Nearest(from, m)
           x == m[k]
           rr == Append(r, x)
           mm == RemoveAt(m, k)
<1>1. r \in Seq(Nodes) /\ Len(r) = n + 1 /\ DOMAIN r = 1..(n + 1) /\ r[1] = Start /\ IsInjective(r)
  BY LenProperties DEF Walked
<1>2. m \in Seq(Locs) /\ IsInjective(m) /\ m # <<>> /\ DOMAIN m = 1..Len(m) /\ Len(m) \in Nat
  BY LenProperties DEF Walked
<1>3. ToSet(r) \ {Start} = xs \ ToSet(m) /\ ToSet(r) \cap ToSet(m) = {} /\ ToSet(m) \subseteq xs
  BY DEF Walked
<1>4. /\ \A i \in 1..n : \A j \in (i + 1)..(n + 1) : Dist[<<r[i], r[i + 1]>>] <= Dist[<<r[i], r[j]>>]
      /\ \A i \in 1..n : \A y \in ToSet(m) : Dist[<<r[i], r[i + 1]>>] <= Dist[<<r[i], y>>]
  BY DEF Walked
<1>5. Last(r) = from /\ from \in Nodes
  BY <1>1 DEF Last
<1>6. Onward(t) = [route |-> rr, remaining |-> mm]
  BY <1>5 DEF Onward
<1> HIDE DEF r, m, from
<1>7. k \in 1..Len(m) /\ \A j \in 1..Len(m) : Dist[<<from, m[k]>>] <= Dist[<<from, m[j]>>]
  BY <1>2, <1>5, NearestIs
<1> HIDE DEF k
<1>8. x \in Locs /\ x \in Nodes /\ x \in ToSet(m) /\ x \notin ToSet(r) /\ x # Start
  <2>1. x \in Locs /\ x \in ToSet(m)
    BY <1>2, <1>7, ElementOfSeq DEF ToSet
  <2> QED
    BY <1>3, <2>1, WavesAssumption DEF Nodes
<1>9. \A y \in ToSet(m) : Dist[<<from, x>>] <= Dist[<<from, y>>]
  BY <1>2, <1>7 DEF ToSet
<1>10. /\ mm \in Seq(Locs) /\ Len(mm) = Len(m) - 1
       /\ IsInjective(mm) /\ ToSet(mm) = ToSet(m) \ {x}
  BY <1>2, <1>7, RemoveAtIs
<1> HIDE DEF x
<1>11. /\ rr \in Seq(Nodes) /\ Len(rr) = n + 2
       /\ \A i \in 1..(n + 1) : rr[i] = r[i]
       /\ rr[n + 2] = x
       /\ ToSet(rr) = ToSet(r) \cup {x} /\ IsInjective(rr)
  <2>1. /\ rr \in Seq(Nodes) /\ Len(rr) = Len(r) + 1
        /\ \A i \in 1..Len(r) : rr[i] = r[i]
        /\ rr[Len(r) + 1] = x
        /\ ToSet(rr) = ToSet(r) \cup {x} /\ IsInjective(rr)
    BY <1>1, <1>8, AppendIs
  <2>2. Len(r) + 1 = n + 2
    BY <1>1
  <2> HIDE DEF rr
  <2> QED
    BY <1>1, <2>1, <2>2
<1> HIDE DEF rr, mm
<1>12. ASSUME NEW i \in 1..(n + 1), NEW j \in (i + 1)..(n + 2)
       PROVE  Dist[<<rr[i], rr[i + 1]>>] <= Dist[<<rr[i], rr[j]>>]
  <2>1. CASE i = n + 1
    <3>1. j = n + 2 /\ i + 1 = n + 2 /\ rr[i] = from
      BY <1>11, <2>1 DEF from
    <3>2. rr[i + 1] = x /\ rr[j] = x
      BY <1>11, <3>1
    <3> QED
      BY <1>8, <1>9, <3>1, <3>2
  <2>2. CASE i # n + 1
    <3>1. i \in 1..n /\ i + 1 \in 1..(n + 1)
      BY <2>2
    <3>2. rr[i] = r[i] /\ rr[i + 1] = r[i + 1]
      BY <1>11, <3>1
    <3>3. CASE j = n + 2
      <4>1. rr[j] = x
        BY <1>11, <3>3
      <4> QED
        BY <1>4, <1>8, <3>1, <3>2, <4>1
    <3>4. CASE j # n + 2
      <4>1. j \in (i + 1)..(n + 1) /\ j \in 1..(n + 1)
        BY <3>4
      <4>2. rr[j] = r[j]
        BY <1>11, <4>1
      <4> QED
        BY <1>4, <3>1, <3>2, <4>1, <4>2
    <3> QED
      BY <3>3, <3>4
  <2> QED
    BY <2>1, <2>2
<1>13. ASSUME NEW i \in 1..(n + 1), NEW y \in ToSet(mm)
       PROVE  Dist[<<rr[i], rr[i + 1]>>] <= Dist[<<rr[i], y>>]
  <2>1. y \in ToSet(m)
    BY <1>10
  <2>2. CASE i = n + 1
    <3>1. i + 1 = n + 2 /\ rr[i] = from /\ rr[i + 1] = x
      BY <1>11, <2>2 DEF from
    <3> QED
      BY <1>9, <2>1, <3>1
  <2>3. CASE i # n + 1
    <3>1. i \in 1..n /\ i + 1 \in 1..(n + 1)
      BY <2>3
    <3>2. rr[i] = r[i] /\ rr[i + 1] = r[i + 1]
      BY <1>11, <3>1
    <3> QED
      BY <1>4, <2>1, <3>1, <3>2
  <2> QED
    BY <2>2, <2>3
<1>14. rr[1] = Start
  <2>1. 1 \in 1..(n + 1)
    OBVIOUS
  <2> QED
    BY <1>1, <1>11, <2>1
<1>15. /\ ToSet(rr) \ {Start} = xs \ ToSet(mm)
       /\ ToSet(rr) \cap ToSet(mm) = {} /\ ToSet(mm) \subseteq xs
  BY <1>3, <1>8, <1>10, <1>11
<1>16. Onward(t).route = rr /\ Onward(t).remaining = mm
  BY <1>6
<1>17. Len(rr) = (n + 1) + 1 /\ (n + 1) + 1 = n + 2
  BY <1>11
<1>18. Walked(Onward(t), xs, n + 1)
  BY <1>10, <1>11, <1>12, <1>13, <1>14, <1>15, <1>16, <1>17 DEF Walked
<1> QED
  BY <1>10, <1>16, <1>18 DEF m

\* One step further, of a walk over xs that has not ended.
Goes(t, xs, n, last) == Walked(t, xs, n) /\ Len(t.remaining) = last - n

LEMMA GoesOnward ==
  ASSUME NEW xs, NEW last \in Nat, NEW n \in 1..last, NEW t, Goes(t, xs, n - 1, last)
  PROVE  Goes(Onward(t), xs, n, last)
<1>1. n - 1 \in Nat /\ (n - 1) + 1 = n /\ last - (n - 1) # 0 /\ last - (n - 1) - 1 = last - n
  OBVIOUS
<1>2. t.remaining # <<>>
  BY <1>1 DEF Goes
<1>3. Walked(Onward(t), xs, (n - 1) + 1) /\ Len(Onward(t).remaining) = Len(t.remaining) - 1
  BY <1>1, <1>2, WalkOnward DEF Goes
<1> QED
  BY <1>1, <1>3 DEF Goes

LEMMA WalkBegins ==
  ASSUME NEW locs \in Seq(Locs), IsInjective(locs)
  PROVE  Goes([route |-> <<Start>>, remaining |-> locs], ToSet(locs), 0, Len(locs))
<1> DEFINE r == <<Start>>
<1>1. r \in Seq(Nodes) /\ Len(r) = 1 /\ r[1] = Start /\ DOMAIN r = 1..1
  BY DEF Nodes
<1>2. IsInjective(r) /\ ToSet(r) = {Start}
  <2> HIDE DEF r
  <2>1. \A i \in 1..1 : i = 1
    OBVIOUS
  <2>2. IsInjective(r)
    BY <1>1, <2>1 DEF IsInjective
  <2>3. ToSet(r) = {r[i] : i \in 1..1}
    BY <1>1 DEF ToSet
  <2>4. 1 \in 1..1
    OBVIOUS
  <2> QED
    BY <1>1, <2>1, <2>2, <2>3, <2>4
<1>3. Start \notin ToSet(locs)
  <2>1. ToSet(locs) \subseteq Locs
    BY LenProperties DEF ToSet
  <2> QED
    BY <2>1, WavesAssumption
<1>4. Len(locs) \in Nat
  OBVIOUS
<1> HIDE DEF r
<1> QED
  BY <1>1, <1>2, <1>3, <1>4 DEF Goes, Walked, r

LEMMA WalkIs ==
  ASSUME NEW locs \in Seq(Locs), IsInjective(locs)
  PROVE  \E t : Goes(t, ToSet(locs), Len(locs), Len(locs)) /\ NearestNeighbor(locs) = t.route
<1> DEFINE N == Len(locs)
           xs == ToSet(locs)
           base == [route |-> <<Start>>, remaining |-> locs]
           S == {t \in [route : Seq(Nodes), remaining : Seq(Locs)] : \E n \in 0..N : Goes(t, xs, n, N)}
           go == [x \in (1..N) \X S |-> IF Goes(x[2], xs, x[1] - 1, N) THEN Onward(x[2]) ELSE x[2]]
           Walks(h) == h = [n \in 0..N |-> IF n = 0 THEN base ELSE Onward(h[n - 1])]
           walk == CHOOSE h : Walks(h)
<1>1. N \in Nat
  OBVIOUS
<1>2. Goes(base, xs, 0, N)
  BY WalkBegins
<1>3. base \in S
  <2>1. base \in [route : Seq(Nodes), remaining : Seq(Locs)]
    BY DEF Nodes
  <2>2. 0 \in 0..N
    BY <1>1
  <2> QED
    BY <1>2, <2>1, <2>2
<1> HIDE DEF base, xs
<1>4. ASSUME NEW n \in 1..N, NEW t, Goes(t, xs, n - 1, N)
      PROVE  Goes(Onward(t), xs, n, N) /\ Onward(t) \in S
  <2>1. Goes(Onward(t), xs, n, N)
    BY <1>1, <1>4, GoesOnward
  <2>2. Onward(t).route \in Seq(Nodes) /\ Onward(t).remaining \in Seq(Locs)
    BY <2>1 DEF Goes, Walked
  <2>3. Onward(t) \in [route : Seq(Nodes), remaining : Seq(Locs)]
    BY <2>2 DEF Onward
  <2>4. n \in 0..N
    BY <1>1
  <2> QED
    BY <2>1, <2>3, <2>4
<1> HIDE DEF S
<1>5. go \in [(1..N) \X S -> S]
  <2>1. ASSUME NEW n \in 1..N, NEW t \in S
        PROVE  (IF Goes(t, xs, n - 1, N) THEN Onward(t) ELSE t) \in S
    BY <1>4
  <2> QED
    BY <2>1
<1>6. PICK f \in [0..N -> S] : Runs(f, N, base, go)
  BY <1>1, <1>3, <1>5, RunExists
<1>7. ASSUME NEW n \in 0..N PROVE f[n] = IF n = 0 THEN base ELSE go[<<n, f[n - 1]>>]
  BY <1>6 DEF Runs
<1> DEFINE B == {n \in 0..N : Goes(f[n], xs, n, N)}
<1>8. \A n \in 0..N : n \in B
  <2>1. 0 \in B
    BY <1>1, <1>2, <1>7
  <2>2. ASSUME NEW n \in 1..N, n - 1 \in B PROVE n \in B
    <3>1. n \in 0..N /\ n # 0 /\ n - 1 \in 0..N /\ Goes(f[n - 1], xs, n - 1, N)
      BY <1>1, <2>2
    <3>2. f[n] = Onward(f[n - 1])
      <4>1. f[n] = go[<<n, f[n - 1]>>] /\ f[n - 1] \in S
        BY <1>7, <3>1
      <4> QED
        BY <3>1, <4>1
    <3> QED
      BY <1>4, <3>1, <3>2
  <2> HIDE DEF B
  <2> QED
    BY <1>1, <2>1, <2>2, Upwards
<1>9. ASSUME NEW n \in 0..N PROVE f[n] = IF n = 0 THEN base ELSE Onward(f[n - 1])
  <2>1. CASE n = 0
    BY <1>7, <2>1
  <2>2. CASE n # 0
    <3>1. n \in 1..N /\ n - 1 \in 0..N
      BY <1>1, <2>2
    <3>2. Goes(f[n - 1], xs, n - 1, N) /\ f[n - 1] \in S
      BY <1>8, <3>1
    <3> QED
      BY <1>7, <2>2, <3>1, <3>2
  <2> QED
    BY <2>1, <2>2
<1>10. f = [n \in 0..N |-> f[n]]
  OBVIOUS
<1> HIDE DEF go
<1>11. Walks(f)
  BY <1>9, <1>10
<1> HIDE DEF Walks
<1>12. Walks(walk)
  BY <1>11
<1>13. NearestNeighbor(locs) = walk[N].route
  BY DEF NearestNeighbor, Walks, base, Onward
<1> HIDE DEF walk
<1>14. \A n \in 0..N : walk[n] = IF n = 0 THEN base ELSE Onward(walk[n - 1])
  BY <1>12 DEF Walks
<1> DEFINE A == {n \in 0..N : Goes(walk[n], xs, n, N)}
<1>15. \A n \in 0..N : n \in A
  <2>1. 0 \in A
    BY <1>1, <1>2, <1>14
  <2>2. ASSUME NEW n \in 1..N, n - 1 \in A PROVE n \in A
    <3>1. n \in 0..N /\ n # 0 /\ Goes(walk[n - 1], xs, n - 1, N)
      BY <1>1, <2>2
    <3>2. walk[n] = Onward(walk[n - 1])
      BY <1>14, <3>1
    <3> QED
      BY <1>4, <3>1, <3>2
  <2> HIDE DEF A
  <2> QED
    BY <1>1, <2>1, <2>2, Upwards
<1>16. Goes(walk[N], xs, N, N)
  BY <1>1, <1>15
<1> QED
  BY <1>13, <1>16 DEF xs

\* What the walk returns: the route of a greedy tour.
LEMMA NearestNeighborIs ==
  ASSUME NEW locs \in Seq(Locs), IsInjective(locs)
  PROVE  LET route == NearestNeighbor(locs)
         IN /\ route \in Seq(Nodes) /\ route # <<>> /\ route[1] = Start /\ IsInjective(route)
            /\ ToSet(Tail(route)) = ToSet(locs)
            /\ \A k \in 1..(Len(route) - 1), j \in 1..Len(route) :
                 j > k => Dist[<<route[k], route[k + 1]>>] <= Dist[<<route[k], route[j]>>]
<1> DEFINE r == NearestNeighbor(locs)
           N == Len(locs)
<1>1. PICK t : Goes(t, ToSet(locs), N, N) /\ r = t.route
  BY WalkIs
<1> HIDE DEF r
<1>2. N \in Nat /\ ToSet(locs) \subseteq Locs
  BY LenProperties DEF ToSet
<1>3. /\ r \in Seq(Nodes) /\ Len(r) = N + 1 /\ r[1] = Start /\ IsInjective(r)
      /\ ToSet(r) \ {Start} = ToSet(locs) \ ToSet(t.remaining)
      /\ \A k \in 1..N : \A j \in (k + 1)..(N + 1) : Dist[<<r[k], r[k + 1]>>] <= Dist[<<r[k], r[j]>>]
  BY <1>1 DEF Goes, Walked
<1>4. ToSet(t.remaining) = {}
  <2>1. t.remaining \in Seq(Locs) /\ Len(t.remaining) = 0
    BY <1>1, <1>2 DEF Goes, Walked
  <2>2. DOMAIN t.remaining = 1..0
    BY <2>1, LenProperties
  <2> QED
    BY <2>2 DEF ToSet
<1>5. r # <<>> /\ DOMAIN r = 1..(N + 1)
  BY <1>2, <1>3, LenProperties
<1>6. /\ Tail(r) \in Seq(Nodes) /\ Len(Tail(r)) = N
      /\ \A i \in 1..N : Tail(r)[i] = r[i + 1]
  <2>1. /\ Tail(r) \in Seq(Nodes) /\ Len(Tail(r)) = Len(r) - 1
        /\ \A i \in 1..Len(Tail(r)) : Tail(r)[i] = r[i + 1]
    BY <1>3, <1>5, HeadTailProperties
  <2>2. Len(r) - 1 = N
    BY <1>2, <1>3
  <2> QED
    BY <2>1, <2>2
<1>7. ToSet(Tail(r)) = ToSet(r) \ {Start}
  <2>1. DOMAIN Tail(r) = 1..N
    BY <1>6, LenProperties
  <2>2. ToSet(Tail(r)) = {r[i + 1] : i \in 1..N}
    BY <1>6, <2>1 DEF ToSet
  <2>3. ToSet(r) = {r[i] : i \in 1..(N + 1)}
    BY <1>5 DEF ToSet
  <2>4. \A i \in 1..N : i + 1 \in 1..(N + 1) /\ r[i + 1] # Start
    <3>1. \A i \in 1..N : i + 1 \in 1..(N + 1) /\ i + 1 # 1 /\ 1 \in 1..(N + 1)
      BY <1>2
    <3> QED
      BY <1>3, <1>5, <3>1 DEF IsInjective
  <2>5. \A i \in 1..(N + 1) : r[i] # Start => \E j \in 1..N : r[i] = r[j + 1]
    <3>1. \A i \in 1..(N + 1) : i = 1 \/ (i - 1 \in 1..N /\ (i - 1) + 1 = i)
      BY <1>2
    <3> QED
      BY <1>3, <3>1
  <2> QED
    BY <2>2, <2>3, <2>4, <2>5
<1>8. ToSet(Tail(r)) = ToSet(locs)
  BY <1>3, <1>4, <1>7
<1>9. ASSUME NEW k \in 1..(Len(r) - 1), NEW j \in 1..Len(r), j > k
      PROVE  Dist[<<r[k], r[k + 1]>>] <= Dist[<<r[k], r[j]>>]
  <2>1. k \in 1..N /\ j \in (k + 1)..(N + 1)
    BY <1>2, <1>3, <1>9
  <2> QED
    BY <1>3, <2>1
<1> QED
  BY <1>3, <1>5, <1>8, <1>9 DEF r

-----------------------------------------------------------------------------
(* The invariant.                                                          *)

\* Where each row stands: a path for every wave, a wave for every task.
RowsOK ==
  /\ Len(paths) = Len(waves)
  /\ \A i \in 1..Len(waves) : waves[i].gen <= i
  /\ \A k \in 1..Len(tasks) : tasks[k].wave \in 1..Len(waves)
  /\ \A r \in Rows : stock[r] <= Reserved[r]

\* What a handler has read is of a wave that is there, each order once.
ReadsOK ==
  \A w \in Handlers :
    /\ step[w] = "group" => IsInjective(work[w].found)
    /\ step[w] \in {"consolidate", "walk"} => work[w].wave \in 1..Len(waves)
    /\ step[w] = "walk" => IsInjective(work[w].locs)

\* Lines that have been consolidated from the first n of the order lines asked.
Naming(asked, n, prod) == {j \in 1..n : asked[j] = prod}
Consolidated(lines, asked, n) ==
  \A r \in Rows : lines[r] # None =>
    /\ Naming(asked, n, ProductOf[r]) # {}
    /\ lines[r] <= Cardinality(Naming(asked, n, ProductOf[r])) * Reserved[r]

\* The order lines of t that are still to be looked up are the last of those asked.
Consolidates(t, asked) ==
  \E n \in 0..Len(asked) : /\ n + Len(t.todo) = Len(asked)
                           /\ \A j \in 1..Len(t.todo) : t.todo[j] = asked[n + j]
                           /\ Consolidated(t.lines, asked, n)

LinesOK ==
  \A w \in Handlers : step[w] = "consolidate" => Consolidates(work[w], LinesOfWave(waves[work[w].wave]))

WalksOK ==
  \A w \in Handlers : step[w] = "walk" => ToSet(work[w].locs) \subseteq LocsOfWave(work[w].wave)

\* What no step takes back: waves keep what they were made of, and tasks all.
Alike(v, u) == /\ v.orders = u.orders /\ v.total = u.total /\ v.gen = u.gen
               /\ v.found = u.found /\ v.size = u.size
WavesStay == /\ Len(waves) <= Len(waves')
             /\ \A i \in 1..Len(waves) : Alike(waves'[i], waves[i])
TasksStay == /\ Len(tasks) <= Len(tasks')
             /\ \A k \in 1..Len(tasks) : tasks'[k] = tasks[k]

Base == WaveTypeOK /\ RowsOK /\ ReadsOK

-----------------------------------------------------------------------------
(* Types, and where the rows and the reads stand.                          *)

LEMMA EmptyTypes == NoWork \in Work /\ NoPath \in Path /\ NoLines \in [Rows -> Nat \cup {None}]
<1>1. NoLines \in [Rows -> Nat \cup {None}]
  BY DEF NoLines
<1>2. (CHOOSE n \in Sizes : TRUE) \in Sizes
  BY WavesAssumption
<1>3. NoWork \in Work
  BY <1>1, <1>2 DEF NoWork, Work, Jobs
<1>4. NoPath \in Path
  BY DEF NoPath, Path
<1> QED
  BY <1>1, <1>3, <1>4

LEMMA Proceeds ==
  ASSUME WaveTypeOK, NEW w \in Handlers, NEW next \in Steps, NEW t \in Work, Proceed(w, next, t)
  PROVE  /\ step' \in [Handlers -> Steps] /\ work' \in [Handlers -> Work]
         /\ step'[w] = next /\ work'[w] = t
         /\ \A v \in Handlers \ {w} : step'[v] = step[v] /\ work'[v] = work[v]
BY DEF WaveTypeOK, Proceed

LEMMA ReadsStay ==
  ASSUME Base, NEW w \in Handlers, NEW next \in Steps, NEW t \in Work, Proceed(w, next, t), WavesStay,
         waves' \in Seq(Wave),
         next = "group" => IsInjective(t.found),
         next \in {"consolidate", "walk"} => t.wave \in 1..Len(waves),
         next = "walk" => IsInjective(t.locs)
  PROVE  ReadsOK'
<1>1. /\ step'[w] = next /\ work'[w] = t
      /\ \A v \in Handlers \ {w} : step'[v] = step[v] /\ work'[v] = work[v]
  BY Proceeds DEF Base
<1>2. \A i \in 1..Len(waves) : i \in 1..Len(waves')
  <2>1. Len(waves) \in Nat /\ Len(waves') \in Nat /\ Len(waves) <= Len(waves')
    BY DEF Base, WaveTypeOK, WavesStay
  <2> QED
    BY <2>1
<1>3. ASSUME NEW v \in Handlers
      PROVE  /\ step'[v] = "group" => IsInjective(work'[v].found)
             /\ step'[v] \in {"consolidate", "walk"} => work'[v].wave \in 1..Len(waves')
             /\ step'[v] = "walk" => IsInjective(work'[v].locs)
  <2>1. CASE v = w
    BY <1>1, <1>2, <2>1
  <2>2. CASE v # w
    BY <1>1, <1>2, <2>2 DEF Base, ReadsOK
  <2> QED
    BY <2>1, <2>2
<1> QED
  BY <1>3 DEF ReadsOK

\* Nothing changed in the waves and tasks.
LEMMA TablesStay ==
  ASSUME WaveTypeOK, UNCHANGED <<waves, tasks>>
  PROVE  WavesStay /\ TasksStay /\ waves' \in Seq(Wave) /\ tasks' \in Seq(Task)
BY DEF WavesStay, TasksStay, Alike, WaveTypeOK

\* A handler goes on and takes no part of the tables.
LEMMA ProceedBase ==
  ASSUME Base, NEW w \in Handlers, NEW next \in Steps, NEW t \in Work, Proceed(w, next, t),
         UNCHANGED tables, queue' \in [{"first", "again"} -> Nat],
         next = "group" => IsInjective(t.found),
         next \in {"consolidate", "walk"} => t.wave \in 1..Len(waves),
         next = "walk" => IsInjective(t.locs)
  PROVE  Base' /\ WavesStay /\ TasksStay
<1>1. Proceed(w, next, t) /\ UNCHANGED <<orderStatus, stock, waves, tasks, paths>>
  BY DEF tables
<1>2. WavesStay /\ TasksStay /\ waves' \in Seq(Wave)
  BY <1>1, TablesStay DEF Base
<1>3. ReadsOK'
  BY <1>1, <1>2, ReadsStay
<1>4. step' \in [Handlers -> Steps] /\ work' \in [Handlers -> Work]
  BY <1>1, Proceeds DEF Base
<1>5. WaveTypeOK'
  BY <1>1, <1>4 DEF Base, WaveTypeOK
<1>6. RowsOK'
  BY <1>1 DEF Base, RowsOK
<1> QED
  BY <1>2, <1>3, <1>5, <1>6 DEF Base

\* What others do touches no wave, task or handler.
LEMMA OthersBase ==
  ASSUME Base, UNCHANGED <<waves, tasks, paths, step, work>>,
         orderStatus' \in [OutboundOrders -> OrderStatus], stock' \in [Rows -> Nat],
         \A r \in Rows : stock'[r] <= stock[r], queue' \in [{"first", "again"} -> Nat]
  PROVE  Base' /\ WavesStay /\ TasksStay
<1>1. WavesStay /\ TasksStay
  BY TablesStay DEF Base
<1>2. WaveTypeOK'
  BY DEF Base, WaveTypeOK
<1>3. RowsOK'
  <2>1. \A r \in Rows : stock'[r] <= Reserved[r]
    <3>1. \A r \in Rows : stock[r] \in Nat /\ stock'[r] \in Nat /\ Reserved[r] \in Nat
                          /\ stock[r] <= Reserved[r] /\ stock'[r] <= stock[r]
      BY WavesAssumption DEF Base, WaveTypeOK, RowsOK
    <3> QED
      BY <3>1
  <2> QED
    BY <2>1 DEF Base, RowsOK
<1>4. ReadsOK'
  BY DEF Base, ReadsOK
<1> QED
  BY <1>1, <1>2, <1>3, <1>4 DEF Base

LEMMA WriteOthers ==
  ASSUME Base, \/ Enqueue
               \/ \E o \in OutboundOrders : FinishOrder(o) \/ \E new \in Eligible : Release(o, new)
               \/ \E r \in Rows : PickRow(r)
  PROVE  Base' /\ WavesStay /\ TasksStay /\ UNCHANGED <<waves, tasks, paths, step, work>>
<1>1. CASE Enqueue
  <2>1. UNCHANGED <<orderStatus, stock, waves, tasks, paths, step, work>>
    BY <1>1 DEF Enqueue, tables
  <2>2. queue' \in [{"first", "again"} -> Nat]
    BY <1>1 DEF Enqueue, Base, WaveTypeOK
  <2>3. orderStatus' \in [OutboundOrders -> OrderStatus] /\ stock' \in [Rows -> Nat]
        /\ \A r \in Rows : stock'[r] <= stock[r]
    BY <2>1 DEF Base, WaveTypeOK
  <2> QED
    BY <2>1, <2>2, <2>3, OthersBase
<1>2. ASSUME NEW o \in OutboundOrders, FinishOrder(o) \/ \E new \in Eligible : Release(o, new)
      PROVE  Base' /\ WavesStay /\ TasksStay /\ UNCHANGED <<waves, tasks, paths, step, work>>
  <2>1. UNCHANGED <<stock, waves, tasks, paths, queue, step, work>>
    BY <1>2 DEF FinishOrder, Release
  <2>2. orderStatus' \in [OutboundOrders -> OrderStatus]
    BY <1>2 DEF FinishOrder, Release, Base, WaveTypeOK, OrderStatus
  <2>3. queue' \in [{"first", "again"} -> Nat] /\ stock' \in [Rows -> Nat]
        /\ \A r \in Rows : stock'[r] <= stock[r]
    BY <2>1 DEF Base, WaveTypeOK
  <2> QED
    BY <2>1, <2>2, <2>3, OthersBase
<1>3. ASSUME NEW r \in Rows, PickRow(r)
      PROVE  Base' /\ WavesStay /\ TasksStay /\ UNCHANGED <<waves, tasks, paths, step, work>>
  <2>1. UNCHANGED <<orderStatus, waves, tasks, paths, queue, step, work>>
    BY <1>3 DEF PickRow
  <2>2. stock[r] \in Nat /\ stock[r] > 0 /\ stock' = [stock EXCEPT ![r] = stock[r] - 1] /\ stock \in [Rows -> Nat]
    BY <1>3 DEF PickRow, Base, WaveTypeOK
  <2>3. stock' \in [Rows -> Nat] /\ \A x \in Rows : stock'[x] <= stock[x]
    BY <2>2
  <2>4. queue' \in [{"first", "again"} -> Nat] /\ orderStatus' \in [OutboundOrders -> OrderStatus]
    BY <2>1 DEF Base, WaveTypeOK
  <2> QED
    BY <2>1, <2>3, <2>4, OthersBase
<1> QED
  BY <1>1, <1>2, <1>3

\* A wave is marked or assigned.
LEMMA WriteWave ==
  ASSUME Base, NEW i \in 1..Len(waves), AssignWave(i) \/ \E new \in WaveStatus : MarkWave(i, new)
  PROVE  Base' /\ WavesStay /\ TasksStay /\ Len(waves') = Len(waves)
         /\ UNCHANGED <<tasks, paths, step, work>>
<1>1. UNCHANGED <<orderStatus, stock, tasks, paths, queue, step, work>>
  BY DEF AssignWave, MarkWave
<1>2. waves \in Seq(Wave) /\ Len(waves) \in Nat /\ waves[i] \in Wave
  BY ElementOfSeq DEF Base, WaveTypeOK
<1>3. \E v \in Wave : waves' = [waves EXCEPT ![i] = v] /\ Alike(v, waves[i])
  <2>1. CASE AssignWave(i)
    <3> DEFINE v == [waves[i] EXCEPT !.picker = TRUE]
    <3>1. v \in Wave /\ Alike(v, waves[i])
      BY <1>2 DEF Wave, Alike
    <3>2. waves' = [waves EXCEPT ![i] = v]
      BY <2>1 DEF AssignWave
    <3> QED
      BY <3>1, <3>2
  <2>2. ASSUME NEW new \in WaveStatus, MarkWave(i, new)
        PROVE  \E v \in Wave : waves' = [waves EXCEPT ![i] = v] /\ Alike(v, waves[i])
    <3> DEFINE v == [waves[i] EXCEPT !.status = new]
    <3>1. v \in Wave /\ Alike(v, waves[i])
      BY <1>2 DEF Wave, Alike
    <3>2. waves' = [waves EXCEPT ![i] = v]
      BY <2>2 DEF MarkWave
    <3> QED
      BY <3>1, <3>2
  <2> QED
    BY <2>1, <2>2
<1>4. /\ waves' \in Seq(Wave) /\ Len(waves') = Len(waves)
      /\ \A j \in 1..Len(waves) : Alike(waves'[j], waves[j])
  <2>1. PICK v \in Wave : waves' = [waves EXCEPT ![i] = v] /\ Alike(v, waves[i])
    BY <1>3
  <2>2. /\ waves' \in Seq(Wave) /\ Len(waves') = Len(waves)
        /\ \A j \in 1..Len(waves) : waves'[j] = IF j = i THEN v ELSE waves[j]
    BY <1>2, <2>1, ExceptSeq
  <2>3. \A j \in 1..Len(waves) : Alike(waves[j], waves[j])
    BY DEF Alike
  <2> QED
    BY <2>1, <2>2, <2>3
<1>5. WavesStay /\ TasksStay
  BY <1>1, <1>2, <1>4 DEF WavesStay, TasksStay, Base, WaveTypeOK
<1>6. WaveTypeOK'
  <2>1. \A j \in 1..Len(waves') : waves'[j].total = Len(waves'[j].orders)
    BY <1>4 DEF Alike, Base, WaveTypeOK
  <2> QED
    BY <1>1, <1>4, <2>1 DEF Base, WaveTypeOK
<1>7. RowsOK'
  BY <1>1, <1>4 DEF Base, RowsOK, Alike
<1>8. ReadsOK'
  BY <1>1, <1>4 DEF Base, ReadsOK
<1> QED
  BY <1>1, <1>4, <1>5, <1>6, <1>7, <1>8 DEF Base

\* A generation begins.
LEMMA FoundOrders ==
  ASSUME Base, NEW w \in Handlers, NEW found \in Found, NEW size \in Sizes, NEW job \in Jobs,
         FindOrders(w, found, size, job), UNCHANGED tables, queue' \in [{"first", "again"} -> Nat]
  PROVE  Base' /\ WavesStay /\ TasksStay /\ \E t \in Work : Proceed(w, "group", t)
<1> DEFINE t == [NoWork EXCEPT !.job = job, !.found = found, !.size = size]
<1>1. found \in Seq(OutboundOrders) /\ IsInjective(found)
  BY SetToSeqsAre, WavesAssumption DEF Found, Allocated
<1>2. t \in Work /\ t.found = found
  BY <1>1, EmptyTypes DEF Work, NoWork
<1>3. Proceed(w, "group", t)
  BY DEF FindOrders
<1> HIDE DEF t
<1>4. "group" \in Steps
  BY DEF Steps
<1> QED
  BY <1>1, <1>2, <1>3, <1>4, ProceedBase

LEMMA GenerateBase ==
  ASSUME Base, NEW w \in Handlers, GenerateByRequest(w) \/ \E job \in DOMAIN queue : GenerateByJob(w, job)
  PROVE  Base' /\ WavesStay /\ TasksStay /\ UNCHANGED tables /\ \E t \in Work : Proceed(w, "group", t)
<1>1. queue \in [{"first", "again"} -> Nat]
  BY DEF Base, WaveTypeOK
<1>2. CASE GenerateByRequest(w)
  <2>1. PICK found \in Found, size \in Sizes :
          FindOrders(w, found, size, "none") /\ UNCHANGED <<tables, queue>>
    BY <1>2 DEF GenerateByRequest
  <2>2. "none" \in Jobs /\ queue' \in [{"first", "again"} -> Nat] /\ UNCHANGED tables
    BY <1>1, <2>1 DEF Jobs
  <2> QED
    BY <2>1, <2>2, FoundOrders
<1>3. ASSUME NEW job \in DOMAIN queue, GenerateByJob(w, job)
      PROVE  Base' /\ WavesStay /\ TasksStay /\ UNCHANGED tables /\ \E t \in Work : Proceed(w, "group", t)
  <2>1. PICK found \in Found : FindOrders(w, found, 0, job)
    BY <1>3 DEF GenerateByJob
  <2>2. 0 \in Sizes /\ job \in Jobs /\ UNCHANGED tables
    BY <1>1, <1>3 DEF GenerateByJob, Jobs
  <2>3. queue[job] \in Nat /\ queue[job] > 0 /\ queue' = [queue EXCEPT ![job] = queue[job] - 1]
    BY <1>1, <1>3 DEF GenerateByJob
  <2>4. queue' \in [{"first", "again"} -> Nat]
    BY <1>1, <2>3
  <2> QED
    BY <2>1, <2>2, <2>4, FoundOrders
<1> QED
  BY <1>2, <1>3

LEMMA EndBase ==
  ASSUME Base, NEW w \in Handlers, Report(w) \/ GiveUp(w)
  PROVE  Base' /\ WavesStay /\ TasksStay /\ UNCHANGED tables /\ Proceed(w, "idle", NoWork)
<1>1. Proceed(w, "idle", NoWork) /\ UNCHANGED tables
  BY DEF Report, GiveUp, Continue
<1>2. queue' \in [{"first", "again"} -> Nat]
  <2>1. queue \in [{"first", "again"} -> Nat]
    BY DEF Base, WaveTypeOK
  <2>2. queue' = queue \/ queue' = [queue EXCEPT !["again"] = queue["again"] + 1]
    BY DEF Report, GiveUp, Continue
  <2> QED
    BY <2>1, <2>2
<1>3. "idle" \in Steps /\ NoWork \in Work
  BY EmptyTypes DEF Steps
<1> QED
  BY <1>1, <1>2, <1>3, ProceedBase

LEMMA LinesType ==
  ASSUME NEW v \in Wave
  PROVE  LinesOfWave(v) \in Seq(Products)
<1> DEFINE f == [k \in 1..Len(v.orders) |-> LinesOf[v.orders[k]]]
<1>1. v.orders \in Seq(OutboundOrders)
  BY DEF Wave
<1>2. Len(v.orders) \in Nat /\ \A k \in 1..Len(v.orders) : v.orders[k] \in OutboundOrders
  BY <1>1, LenProperties
<1>3. f \in [1..Len(v.orders) -> Seq(Products)]
  BY <1>2, WavesAssumption
<1>4. f \in Seq(Seq(Products))
  <2> HIDE DEF f
  <2> QED
    BY <1>2, <1>3, FunctionIsSeq
<1>5. FlattenSeq(f) \in Seq(Products)
  <2> HIDE DEF f
  <2> QED
    BY <1>4, FlattenType
<1> QED
  BY <1>5 DEF LinesOfWave

LEMMA ReadWaveBase ==
  ASSUME Base, NEW w \in Handlers, NEW i \in 1..Len(waves), ReadWave(w, i)
  PROVE  /\ Base' /\ WavesStay /\ TasksStay /\ UNCHANGED tables
         /\ \E t \in Work : /\ Proceed(w, "consolidate", t) /\ t.wave = i
                            /\ t.todo = LinesOfWave(waves[i]) /\ t.lines = NoLines
<1> DEFINE t == [NoWork EXCEPT !.wave = i, !.picker = waves[i].picker, !.todo = LinesOfWave(waves[i])]
<1>1. waves[i] \in Wave /\ i \in Nat
  BY ElementOfSeq DEF Base, WaveTypeOK
<1>2. LinesOfWave(waves[i]) \in Seq(Products) /\ waves[i].picker \in BOOLEAN
  BY <1>1, LinesType DEF Wave
<1>3. t \in Work
  <2> HIDE DEF LinesOfWave
  <2> QED
    BY <1>1, <1>2, EmptyTypes DEF Work
<1>4. t.wave = i /\ t.todo = LinesOfWave(waves[i]) /\ t.lines = NoLines
  BY DEF NoWork
<1>5. Proceed(w, "consolidate", t) /\ UNCHANGED <<tables, queue>>
  BY DEF ReadWave, Continue
<1>6. "consolidate" \in Steps /\ queue' \in [{"first", "again"} -> Nat]
  BY <1>5 DEF Steps, Base, WaveTypeOK
<1> HIDE DEF t
<1> QED
  BY <1>3, <1>4, <1>5, <1>6, ProceedBase

\* The lines of t, with what the rows for its next order line have now.
Added(t) ==
  [r \in Rows |-> IF r \in RowsFor(Head(t.todo))
                  THEN stock[r] + (IF t.lines[r] = None THEN 0 ELSE t.lines[r])
                  ELSE t.lines[r]]

LEMMA AddedType ==
  ASSUME Base, NEW t \in Work
  PROVE  Added(t) \in [Rows -> Nat \cup {None}]
<1>1. t.lines \in [Rows -> Nat \cup {None}] /\ stock \in [Rows -> Nat]
  BY DEF Base, WaveTypeOK, Work
<1>2. ASSUME NEW r \in Rows
      PROVE  stock[r] + (IF t.lines[r] = None THEN 0 ELSE t.lines[r]) \in Nat
  BY <1>1 DEF None
<1> QED
  BY <1>1, <1>2 DEF Added

LEMMA ConsolidateBase ==
  ASSUME Base, NEW w \in Handlers, Consolidate(w)
  PROVE  /\ Base' /\ WavesStay /\ TasksStay /\ UNCHANGED tables
         /\ step[w] = "consolidate" /\ work[w].todo # <<>>
         /\ \E t \in Work : /\ Proceed(w, "consolidate", t) /\ t.wave = work[w].wave
                            /\ t.todo = Tail(work[w].todo) /\ t.lines = Added(work[w])
<1> DEFINE t == [work[w] EXCEPT !.todo = Tail(work[w].todo), !.lines = Added(work[w])]
<1>1. work[w] \in Work /\ step[w] = "consolidate" /\ work[w].todo # <<>>
  BY DEF Base, WaveTypeOK, Consolidate
<1>2. Tail(work[w].todo) \in Seq(Products) /\ Added(work[w]) \in [Rows -> Nat \cup {None}]
  <2>1. work[w].todo \in Seq(Products)
    BY <1>1 DEF Work
  <2> QED
    BY <1>1, <2>1, AddedType, HeadTailProperties
<1>3. t \in Work /\ t.wave = work[w].wave /\ t.todo = Tail(work[w].todo) /\ t.lines = Added(work[w])
  BY <1>1, <1>2 DEF Work
<1>4. Proceed(w, "consolidate", t) /\ UNCHANGED <<tables, queue>>
  BY DEF Consolidate, Continue, Added
<1>5. "consolidate" \in Steps /\ queue' \in [{"first", "again"} -> Nat]
  BY <1>4 DEF Steps, Base, WaveTypeOK
<1>6. work[w].wave \in 1..Len(waves)
  BY <1>1 DEF Base, ReadsOK
<1> HIDE DEF t
<1> QED
  BY <1>1, <1>3, <1>4, <1>5, <1>6, ProceedBase

LEMMA ReadTasksBase ==
  ASSUME Base, NEW w \in Handlers, NEW i \in 1..Len(waves), ReadTasks(w, i)
  PROVE  /\ Base' /\ WavesStay /\ TasksStay /\ UNCHANGED tables
         /\ \E t \in Work : /\ Proceed(w, "walk", t) /\ t.wave = i
                            /\ ToSet(t.locs) \subseteq LocsOfWave(i)
<1>1. PICK locs \in SetToSeqs(LocsOfWave(i)) : Continue(w, "walk", [NoWork EXCEPT !.wave = i, !.locs = locs])
  BY DEF ReadTasks
<1> DEFINE t == [NoWork EXCEPT !.wave = i, !.locs = locs]
<1>2. LocsOfWave(i) \subseteq Locs
  BY WavesAssumption DEF LocsOfWave, LocsOf
<1>3. locs \in Seq(Locs) /\ IsInjective(locs) /\ ToSet(locs) \subseteq LocsOfWave(i)
  BY <1>2, SetToSeqsAre, WavesAssumption
<1>4. t \in Work /\ t.wave = i /\ t.locs = locs
  <2>1. i \in Nat
    BY DEF Base, WaveTypeOK
  <2>2. t \in Work
    BY <1>3, <2>1, EmptyTypes DEF Work
  <2> QED
    BY <2>2 DEF NoWork
<1>5. Proceed(w, "walk", t) /\ UNCHANGED <<tables, queue>>
  BY <1>1 DEF Continue
<1>6. "walk" \in Steps /\ queue' \in [{"first", "again"} -> Nat]
  BY <1>5 DEF Steps, Base, WaveTypeOK
<1> HIDE DEF t
<1> QED
  BY <1>3, <1>4, <1>5, <1>6, ProceedBase

LEMMA CreateTaskBase ==
  ASSUME Base, NEW w \in Handlers, CreateTask(w)
  PROVE  /\ Base' /\ WavesStay /\ TasksStay /\ UNCHANGED <<waves, paths>> /\ Proceed(w, "idle", NoWork)
         /\ step[w] = "consolidate" /\ work[w].todo = <<>> /\ Len(tasks') = Len(tasks) + 1
         /\ tasks'[Len(tasks) + 1].wave = work[w].wave
         /\ tasks'[Len(tasks) + 1].lines = work[w].lines
<1> DEFINE task == [wave |-> work[w].wave, lines |-> work[w].lines,
                    status |-> IF work[w].picker THEN "ASSIGNED" ELSE "CREATED"]
           n == Len(tasks)
<1>1. /\ step[w] = "consolidate" /\ work[w].todo = <<>> /\ Proceed(w, "idle", NoWork)
      /\ UNCHANGED <<orderStatus, stock, waves, paths, queue>>
      /\ tasks' = Append(tasks, task)
  BY DEF CreateTask
<1>2. task \in Task /\ task.wave = work[w].wave /\ task.lines = work[w].lines
  <2>1. work[w] \in Work
    BY DEF Base, WaveTypeOK
  <2> QED
    BY <2>1 DEF Work, Task
<1> HIDE DEF task
<1>3. tasks \in Seq(Task) /\ n \in Nat
  BY DEF Base, WaveTypeOK
<1>4. /\ tasks' \in Seq(Task) /\ Len(tasks') = n + 1 /\ tasks'[n + 1] = task
      /\ \A k \in 1..n : tasks'[k] = tasks[k]
  BY <1>1, <1>2, <1>3, AppendProperties
<1>5. WavesStay /\ TasksStay
  <2>1. n <= n + 1 /\ Len(waves) \in Nat
    BY <1>3 DEF Base, WaveTypeOK
  <2> QED
    BY <1>1, <1>4, <2>1 DEF WavesStay, TasksStay, Alike
<1>6. NoWork \in Work /\ "idle" \in Steps /\ "idle" \notin {"group", "consolidate", "walk"}
  BY EmptyTypes DEF Steps
<1>7. waves' \in Seq(Wave)
  BY <1>1 DEF Base, WaveTypeOK
<1>8. ReadsOK'
  BY <1>1, <1>5, <1>6, <1>7, ReadsStay
<1>9. step' \in [Handlers -> Steps] /\ work' \in [Handlers -> Work]
  BY <1>1, <1>6, Proceeds DEF Base
<1>10. WaveTypeOK'
  BY <1>1, <1>4, <1>9 DEF Base, WaveTypeOK
<1>11. RowsOK'
  <2>1. task.wave \in 1..Len(waves)
    BY <1>1, <1>2 DEF Base, ReadsOK
  <2>2. \A k \in 1..(n + 1) : k \in 1..n \/ k = n + 1
    BY <1>3
  <2>3. \A k \in 1..(n + 1) : tasks'[k].wave \in 1..Len(waves)
    BY <1>4, <2>1, <2>2 DEF Base, RowsOK
  <2> QED
    BY <1>1, <1>4, <2>3 DEF Base, RowsOK
<1> QED
  BY <1>1, <1>2, <1>4, <1>5, <1>8, <1>10, <1>11 DEF Base

LEMMA LengthType ==
  ASSUME NEW route \in Seq(Nodes)
  PROVE  LengthOf(route) \in Nat
<1> DEFINE legs == 1..(Len(route) - 1)
           f == [k \in legs |-> Dist[<<route[k], route[k + 1]>>]]
<1>1. Len(route) \in Nat
  OBVIOUS
<1>2. IsFiniteSet(legs)
  BY <1>1, FS_Interval
<1>3. ASSUME NEW k \in legs PROVE f[k] \in Nat
  <2>1. k \in 1..Len(route) /\ k + 1 \in 1..Len(route)
    BY <1>1
  <2>2. route[k] \in Nodes /\ route[k + 1] \in Nodes
    BY <2>1, ElementOfSeq
  <2> QED
    BY <2>2, WavesAssumption
<1>4. SumFunctionOnSet(f, legs) \in Nat
  <2> HIDE DEF f, legs
  <2> QED
    BY <1>2, <1>3, SumNat
<1> QED
  BY <1>4 DEF LengthOf

LEMMA StorePathBase ==
  ASSUME Base, NEW w \in Handlers, StorePath(w)
  PROVE  /\ Base' /\ WavesStay /\ TasksStay /\ UNCHANGED <<waves, tasks>> /\ Proceed(w, "idle", NoWork)
         /\ step[w] = "walk" /\ work[w].locs \in Seq(Locs) /\ IsInjective(work[w].locs) /\ work[w].wave \in 1..Len(paths)
         /\ Len(paths') = Len(paths)
         /\ \A i \in 1..Len(paths) : i # work[w].wave => paths'[i] = paths[i]
         /\ paths'[work[w].wave].route = NearestNeighbor(work[w].locs)
         /\ paths'[work[w].wave].seen = ToSet(work[w].locs)
<1> DEFINE locs == work[w].locs
           i == work[w].wave
           route == NearestNeighbor(locs)
           path == [route |-> route, length |-> LengthOf(route), seen |-> ToSet(locs)]
<1>1. /\ step[w] = "walk" /\ Proceed(w, "idle", NoWork)
      /\ UNCHANGED <<orderStatus, stock, waves, tasks, queue>>
      /\ paths' = [paths EXCEPT ![i] = path]
  BY DEF StorePath
<1>2. locs \in Seq(Locs) /\ ToSet(locs) \subseteq Locs /\ IsInjective(locs)
  <2>1. locs \in Seq(Locs) /\ IsInjective(locs)
    BY <1>1 DEF Base, WaveTypeOK, Work, ReadsOK
  <2> QED
    BY <2>1, LenProperties DEF ToSet
<1>3. route \in Seq(Nodes)
  BY <1>2, NearestNeighborIs
<1>4. path \in Path /\ path.route = route /\ path.seen = ToSet(locs)
  <2> HIDE DEF route, locs
  <2> QED
    BY <1>2, <1>3, LengthType DEF Path
<1>5. i \in 1..Len(paths) /\ paths \in Seq(Path)
  BY <1>1 DEF Base, WaveTypeOK, ReadsOK, RowsOK
<1> HIDE DEF path, i, route, locs
<1>6. /\ paths' \in Seq(Path) /\ Len(paths') = Len(paths)
      /\ \A j \in 1..Len(paths) : paths'[j] = IF j = i THEN path ELSE paths[j]
  BY <1>1, <1>4, <1>5, ExceptSeq
<1>7. WavesStay /\ TasksStay /\ waves' \in Seq(Wave)
  BY <1>1, TablesStay DEF Base
<1>8. NoWork \in Work /\ "idle" \in Steps /\ "idle" \notin {"group", "consolidate", "walk"}
  BY EmptyTypes DEF Steps
<1>9. ReadsOK'
  BY <1>1, <1>7, <1>8, ReadsStay
<1>10. step' \in [Handlers -> Steps] /\ work' \in [Handlers -> Work]
  BY <1>1, <1>8, Proceeds DEF Base
<1>11. WaveTypeOK'
  BY <1>1, <1>6, <1>10 DEF Base, WaveTypeOK
<1>12. RowsOK'
  BY <1>1, <1>6 DEF Base, RowsOK
<1>13. Base'
  BY <1>9, <1>11, <1>12 DEF Base
<1> QED
  BY <1>1, <1>2, <1>4, <1>5, <1>6, <1>7, <1>13 DEF i, locs, route

-----------------------------------------------------------------------------
(* The waves of a generation.                                              *)

\* made are the batches of the orders found: each order in one of them.
MadeOf(made, n, found, size) ==
  /\ made \in Seq(Seq(OutboundOrders)) /\ Len(made) = n
  /\ found \subseteq OutboundOrders /\ found = UNION {ToSet(made[k]) : k \in 1..n}
  /\ \A k \in 1..n : /\ Lists(made[k], ToSet(made[k])) /\ (size # 0 => Len(made[k]) <= size)
                     /\ \A x, y \in ToSet(made[k]) : KeyOf[x] = KeyOf[y]
  /\ \A k, l \in 1..n : k = l \/ ToSet(made[k]) \cap ToSet(made[l]) = {}

LEMMA BatchesMade ==
  ASSUME NEW found \in Seq(OutboundOrders), IsInjective(found), NEW size \in Nat
  PROVE  \E n \in Nat : MadeOf(SetToSeq(AllChunks(found, size)), n, ToSet(found), size)
<1> DEFINE C == AllChunks(found, size)
           n == Cardinality(C)
           made == SetToSeq(C)
<1>1. /\ IsFiniteSet(C) /\ ToSet(found) = UNION {ToSet(c) : c \in C}
      /\ \A c \in C : /\ Lists(c, ToSet(c)) /\ ToSet(c) \subseteq ToSet(found)
                      /\ size # 0 => Len(c) <= size
                      /\ \A x, y \in ToSet(c) : KeyOf[x] = KeyOf[y]
      /\ \A b, c \in C : b = c \/ ToSet(b) \cap ToSet(c) = {}
  BY AllChunksDivide
<1>2. /\ n \in Nat /\ made \in [1..n -> C]
      /\ \A i, j \in 1..n : made[i] = made[j] => i = j
      /\ \A c \in C : \E i \in 1..n : made[i] = c
  BY <1>1, SetToSeqIs
<1>3. ToSet(found) \subseteq OutboundOrders
  BY LenProperties DEF ToSet
<1> HIDE DEF C, n, made
<1>4. \A c \in C : c \in Seq(OutboundOrders)
  BY <1>1 DEF Lists
<1>5. made \in Seq(Seq(OutboundOrders)) /\ Len(made) = n
  <2>1. made \in [1..n -> Seq(OutboundOrders)]
    BY <1>2, <1>4
  <2> QED
    BY <1>2, <2>1, FunctionIsSeq
<1>6. \A k \in 1..n : made[k] \in C
  BY <1>2
<1>7. UNION {ToSet(c) : c \in C} = UNION {ToSet(made[k]) : k \in 1..n}
  BY <1>2, <1>6
<1>8. \A k, l \in 1..n : k = l \/ ToSet(made[k]) \cap ToSet(made[l]) = {}
  BY <1>1, <1>2, <1>6
<1>9. MadeOf(made, n, ToSet(found), size)
  <2>1. \A k \in 1..n : /\ Lists(made[k], ToSet(made[k])) /\ (size # 0 => Len(made[k]) <= size)
                        /\ \A x, y \in ToSet(made[k]) : KeyOf[x] = KeyOf[y]
    BY <1>1, <1>6
  <2>2. ToSet(found) = UNION {ToSet(made[k]) : k \in 1..n}
    BY <1>1, <1>7
  <2> QED
    BY <1>3, <1>5, <1>8, <2>1, <2>2 DEF MadeOf
<1> QED
  BY <1>2, <1>9 DEF C, made

\* The wave that is made of some orders.
NewWave(orders, gen, found, size) ==
  [orders |-> orders, status |-> "CREATED", total |-> TotalOf(orders), picker |-> FALSE,
   gen |-> gen, found |-> found, size |-> size]

\* The waves that CreateWaves adds: n of them after those there are.
Generated(made, n, found, size) ==
  /\ n \in Nat /\ MadeOf(made, n, found, size)
  /\ Len(waves') = Len(waves) + n
  /\ \A i \in 1..Len(waves) : waves'[i] = waves[i]
  /\ \A k \in 1..n : waves'[Len(waves) + k] = NewWave(made[k], Len(waves) + 1, found, size)

LEMMA CreateWavesBase ==
  ASSUME Base, NEW w \in Handlers, CreateWaves(w)
  PROVE  /\ Base' /\ WavesStay /\ TasksStay /\ UNCHANGED tasks
         /\ \E next \in {"idle", "report"}, t \in Work : Proceed(w, next, t)
         /\ \E made, n, found, size : Generated(made, n, found, size)
         /\ Len(paths) <= Len(paths')
         /\ \A i \in 1..Len(paths) : paths'[i] = paths[i]
         /\ \A i \in 1..Len(paths') : i \in 1..Len(paths) \/ paths'[i] = NoPath
<1> DEFINE found == ToSet(work[w].found)
           size == work[w].size
           made == SetToSeq(AllChunks(work[w].found, size))
           N == Len(waves)
           new == [k \in 1..Len(made) |-> NewWave(made[k], N + 1, found, size)]
           none == [k \in 1..Len(made) |-> NoPath]
<1>1. /\ step[w] = "group" /\ waves' = waves \o new /\ paths' = paths \o none
      /\ UNCHANGED <<orderStatus, stock, tasks, queue>>
      /\ \/ Proceed(w, "idle", NoWork)
         \/ Proceed(w, "report", [NoWork EXCEPT !.job = work[w].job])
  BY DEF CreateWaves, NewWave
<1>2. /\ work[w] \in Work /\ work[w].found \in Seq(OutboundOrders) /\ size \in Sizes /\ size \in Nat
      /\ IsInjective(work[w].found) /\ work[w].job \in Jobs
  BY <1>1, WavesAssumption DEF Base, WaveTypeOK, ReadsOK, Work
<1>3. PICK n \in Nat : MadeOf(made, n, found, size)
  BY <1>2, BatchesMade
<1>4. Len(made) = n /\ found \subseteq OutboundOrders
      /\ \A k \in 1..n : made[k] \in Seq(OutboundOrders) /\ Len(made[k]) \in Nat
  BY <1>3 DEF MadeOf, Lists
<1>5. N \in Nat /\ waves \in Seq(Wave) /\ paths \in Seq(Path) /\ Len(paths) = N
  BY DEF Base, WaveTypeOK, RowsOK
<1> HIDE DEF made, found, size, N
<1>6. \A k \in 1..n : NewWave(made[k], N + 1, found, size) \in Wave
  BY <1>2, <1>4, <1>5 DEF NewWave, Wave, TotalOf, WaveStatus
<1>6a. \A os : LET v == NewWave(os, N + 1, found, size) IN v.total = Len(v.orders) /\ v.gen = N + 1
  BY DEF NewWave, TotalOf
<1>7. new \in Seq(Wave) /\ Len(new) = n
  <2>1. new \in [1..n -> Wave]
    BY <1>4, <1>6
  <2> HIDE DEF new
  <2> QED
    BY <2>1, FunctionIsSeq
<1>8. none \in Seq(Path) /\ Len(none) = n
  <2>1. none \in [1..n -> Path]
    BY <1>4, EmptyTypes
  <2> HIDE DEF none
  <2> QED
    BY <2>1, FunctionIsSeq
<1>9. \A k \in 1..n : new[k] = NewWave(made[k], N + 1, found, size) /\ none[k] = NoPath
  BY <1>4
<1> HIDE DEF new, none
<1>10. /\ waves' \in Seq(Wave) /\ Len(waves') = N + n
       /\ \A i \in 1..N : waves'[i] = waves[i]
       /\ \A k \in 1..n : waves'[N + k] = NewWave(made[k], N + 1, found, size)
  <2>1. /\ waves' \in Seq(Wave) /\ Len(waves') = Len(waves) + Len(new)
        /\ \A i \in 1..Len(waves) : waves'[i] = waves[i]
        /\ \A k \in 1..Len(new) : waves'[Len(waves) + k] = new[k]
    <3>1. waves \in Seq(Wave) /\ new \in Seq(Wave)
      BY <1>5, <1>7
    <3>2. /\ waves \o new \in Seq(Wave) /\ Len(waves \o new) = Len(waves) + Len(new)
          /\ \A i \in 1..Len(waves) : (waves \o new)[i] = waves[i]
          /\ \A k \in 1..Len(new) : (waves \o new)[Len(waves) + k] = new[k]
      BY <3>1, ConcatIs
    <3>3. waves' = waves \o new
      BY <1>1
    <3> QED
      BY <3>2, <3>3
  <2> QED
    BY <1>7, <1>9, <2>1 DEF N
<1>11. /\ paths' \in Seq(Path) /\ Len(paths') = N + n
       /\ \A i \in 1..N : paths'[i] = paths[i]
       /\ \A k \in 1..n : paths'[N + k] = NoPath
  <2>1. /\ paths' \in Seq(Path) /\ Len(paths') = Len(paths) + Len(none)
        /\ \A i \in 1..Len(paths) : paths'[i] = paths[i]
        /\ \A k \in 1..Len(none) : paths'[Len(paths) + k] = none[k]
    <3>1. paths \in Seq(Path) /\ none \in Seq(Path)
      BY <1>5, <1>8
    <3>2. /\ paths \o none \in Seq(Path) /\ Len(paths \o none) = Len(paths) + Len(none)
          /\ \A i \in 1..Len(paths) : (paths \o none)[i] = paths[i]
          /\ \A k \in 1..Len(none) : (paths \o none)[Len(paths) + k] = none[k]
      BY <3>1, ConcatIs
    <3>3. paths' = paths \o none
      BY <1>1
    <3> QED
      BY <3>2, <3>3
  <2> QED
    BY <1>5, <1>8, <1>9, <2>1
<1>12. \A i \in 1..(N + n) : i \in 1..N \/ (i - N \in 1..n /\ N + (i - N) = i)
  BY <1>5
<1>13. WavesStay /\ TasksStay
  <2>1. N <= N + n
    BY <1>5
  <2> QED
    BY <1>1, <1>10, <2>1 DEF WavesStay, TasksStay, Alike, N, Base, WaveTypeOK
<1>14. PICK next \in {"idle", "report"}, t \in Work : Proceed(w, next, t)
  <2>1. NoWork \in Work /\ [NoWork EXCEPT !.job = work[w].job] \in Work
    BY <1>2, EmptyTypes DEF Work
  <2> QED
    BY <1>1, <2>1
<1>15. next \in Steps /\ next \notin {"group", "consolidate", "walk"}
  BY DEF Steps
<1>16. ReadsOK'
  BY <1>10, <1>13, <1>14, <1>15, ReadsStay
<1>17. step' \in [Handlers -> Steps] /\ work' \in [Handlers -> Work]
  BY <1>14, <1>15, Proceeds DEF Base
<1>18. \A i \in 1..(N + n) : waves'[i].total = Len(waves'[i].orders)
  <2>1. \A k \in 1..n : waves'[N + k].total = Len(waves'[N + k].orders)
    BY <1>10, <1>6a
  <2>2. \A i \in 1..N : waves'[i].total = Len(waves'[i].orders)
    BY <1>10 DEF Base, WaveTypeOK, N
  <2> QED
    BY <1>12, <2>1, <2>2
<1>19. WaveTypeOK'
  BY <1>1, <1>10, <1>11, <1>17, <1>18 DEF Base, WaveTypeOK
<1>20. RowsOK'
  <2>1. \A i \in 1..(N + n) : waves'[i].gen <= i
    <3>1. \A i \in 1..N : waves'[i].gen <= i
      BY <1>10 DEF Base, RowsOK, N
    <3>2. \A k \in 1..n : waves'[N + k].gen = N + 1
      BY <1>10, <1>6a
    <3>3. N \in Nat
      BY <1>5
    <3>4. \A k \in 1..n : N + 1 <= N + k
      BY <3>3
    <3>5. \A k \in 1..n : waves'[N + k].gen <= N + k
      BY <3>2, <3>4
    <3> QED
      BY <1>12, <3>1, <3>5
  <2>2. \A k \in 1..Len(tasks) : tasks[k].wave \in 1..(N + n)
    <3>1. \A i \in 1..N : i \in 1..(N + n)
      BY <1>5
    <3> QED
      BY <3>1 DEF Base, RowsOK, N
  <2> QED
    BY <1>1, <1>10, <1>11, <2>1, <2>2 DEF Base, RowsOK
<1>21. Base'
  BY <1>16, <1>19, <1>20 DEF Base
<1>22. Generated(made, n, found, size)
  BY <1>3, <1>10 DEF Generated, N
<1>23. Len(paths) <= Len(paths') /\ \A i \in 1..Len(paths') : i \in 1..Len(paths) \/ paths'[i] = NoPath
  BY <1>5, <1>11, <1>12
<1> QED
  BY <1>1, <1>5, <1>11, <1>13, <1>14, <1>21, <1>22, <1>23

-----------------------------------------------------------------------------
LEMMA InitBase == WaveInit => Base
<1> SUFFICES ASSUME WaveInit PROVE Base
  OBVIOUS
<1>1. NoWork \in Work /\ "idle" \in Steps /\ "DRAFT" \in OrderStatus
  BY EmptyTypes DEF Steps, OrderStatus
<1>2. Reserved \in [Rows -> Nat]
  BY WavesAssumption
<1>3. waves = <<>> /\ tasks = <<>> /\ paths = <<>> /\ stock = Reserved
      /\ \A w \in Handlers : step[w] = "idle"
  BY DEF WaveInit
<1>4. WaveTypeOK
  BY <1>1, <1>2 DEF WaveInit, WaveTypeOK
<1>5. RowsOK
  BY <1>2, <1>3 DEF RowsOK
<1>6. ReadsOK
  BY <1>3 DEF ReadsOK
<1> QED
  BY <1>4, <1>5, <1>6 DEF Base

\* What a step may be, for the proofs by cases.
Handled(w) ==
  \/ GenerateByRequest(w) \/ \E job \in DOMAIN queue : GenerateByJob(w, job)
  \/ CreateWaves(w) \/ Report(w) \/ GiveUp(w) \/ Consolidate(w) \/ CreateTask(w) \/ StorePath(w)
  \/ \E i \in 1..Len(waves) : ReadWave(w, i) \/ ReadTasks(w, i)

LEMMA StepCases ==
  ASSUME WaveNext
  PROVE  \/ \/ Enqueue
            \/ \E o \in OutboundOrders : FinishOrder(o) \/ \E new \in Eligible : Release(o, new)
            \/ \E r \in Rows : PickRow(r)
         \/ \E i \in 1..Len(waves) : AssignWave(i) \/ \E new \in WaveStatus : MarkWave(i, new)
         \/ \E w \in Handlers : Handled(w)
BY DEF WaveNext, Handled

LEMMA StepBase ==
  ASSUME Base, [WaveNext]_waveVars
  PROVE  Base' /\ WavesStay /\ TasksStay
<1>1. CASE UNCHANGED waveVars
  <2>1. UNCHANGED <<orderStatus, stock, waves, tasks, paths, queue, step, work>>
    BY <1>1 DEF waveVars, tables
  <2>2. orderStatus' \in [OutboundOrders -> OrderStatus] /\ stock' \in [Rows -> Nat]
        /\ queue' \in [{"first", "again"} -> Nat] /\ \A r \in Rows : stock'[r] <= stock[r]
    BY <2>1 DEF Base, WaveTypeOK
  <2> QED
    BY <2>1, <2>2, OthersBase
<1>2. ASSUME NEW i \in 1..Len(waves), AssignWave(i) \/ \E new \in WaveStatus : MarkWave(i, new)
      PROVE  Base' /\ WavesStay /\ TasksStay
  BY <1>2, WriteWave
<1>3. ASSUME NEW w \in Handlers, Handled(w)
      PROVE  Base' /\ WavesStay /\ TasksStay
  BY <1>3, GenerateBase, CreateWavesBase, EndBase, ConsolidateBase, CreateTaskBase, StorePathBase,
     ReadWaveBase, ReadTasksBase DEF Handled
<1> QED
  BY <1>1, <1>2, <1>3, StepCases, WriteOthers

LEMMA BaseHolds == WaveSpec => []Base
BY InitBase, StepBase, PTL DEF WaveSpec

\* The tables and the handlers hold what they are declared to hold, for every number of
\* orders, waves and handlers; a wave counts as many orders as it has.
THEOREM WavesTypeCorrect == WaveSpec => []WaveTypeOK
<1>1. Base => WaveTypeOK
  BY DEF Base
<1> QED
  BY <1>1, BaseHolds, PTL

-----------------------------------------------------------------------------
(* Each generation partitions the orders that it found.                    *)

Peers(vs, i) == {j \in 1..Len(vs) : vs[j].gen = vs[i].gen}
Partitioned(vs, i) ==
  /\ vs[i].found = UNION {ToSet(vs[j].orders) : j \in Peers(vs, i)}
  /\ vs[i].size # 0 => vs[i].total <= vs[i].size
  /\ \A x, y \in ToSet(vs[i].orders) : KeyOf[x] = KeyOf[y]
  /\ IsInjective(vs[i].orders)
  /\ \A j \in Peers(vs, i) \ {i} : ToSet(vs[i].orders) \cap ToSet(vs[j].orders) = {}

LEMMA PartitionIs == /\ GenerationsPartition <=> \A i \in 1..Len(waves) : Partitioned(waves, i)
                     /\ GenerationsPartition' <=> \A i \in 1..Len(waves') : Partitioned(waves', i)
BY DEF GenerationsPartition, Partitioned, Peers

\* A wave whose peers stay the same, with the same orders, stays as it is.
LEMMA PartitionedStays ==
  ASSUME NEW vs, NEW us, NEW i \in 1..Len(vs), \A j \in 1..Len(vs) : Alike(us[j], vs[j]),
         Partitioned(vs, i), Peers(us, i) = Peers(vs, i)
  PROVE  Partitioned(us, i)
<1>1. \A j \in 1..Len(vs) : us[j].orders = vs[j].orders
  BY DEF Alike
<1>2. /\ us[i].orders = vs[i].orders /\ us[i].total = vs[i].total
      /\ us[i].found = vs[i].found /\ us[i].size = vs[i].size
  BY DEF Alike
<1>3. \A j \in Peers(vs, i) : us[j].orders = vs[j].orders
  BY <1>1 DEF Peers
<1>4. UNION {ToSet(us[j].orders) : j \in Peers(vs, i)} = UNION {ToSet(vs[j].orders) : j \in Peers(vs, i)}
  BY <1>3
<1>5. us[i].found = UNION {ToSet(us[j].orders) : j \in Peers(us, i)}
  BY <1>2, <1>4 DEF Partitioned
<1>6. \A j \in Peers(us, i) \ {i} : ToSet(us[i].orders) \cap ToSet(us[j].orders) = {}
  BY <1>2, <1>3 DEF Partitioned
<1> QED
  BY <1>2, <1>5, <1>6 DEF Partitioned

LEMMA GenOfWave ==
  ASSUME Base, NEW j \in 1..Len(waves)
  PROVE  waves[j].gen # Len(waves) + 1
<1>1. waves[j] \in Wave /\ Len(waves) \in Nat
  BY ElementOfSeq DEF Base, WaveTypeOK
<1>2. waves[j].gen \in Nat
  BY <1>1 DEF Wave
<1>3. waves[j].gen <= j
  BY DEF Base, RowsOK
<1> QED
  BY <1>1, <1>2, <1>3

LEMMA PeersStay ==
  ASSUME Base, WavesStay, NEW i \in 1..Len(waves), Len(waves') \in Nat,
         \A j \in 1..Len(waves') : j \in 1..Len(waves) \/ waves'[j].gen = Len(waves) + 1
  PROVE  Peers(waves', i) = Peers(waves, i)
<1>1. \A j \in 1..Len(waves) : waves'[j].gen = waves[j].gen /\ j \in 1..Len(waves')
  <2>1. Len(waves) \in Nat /\ Len(waves) <= Len(waves')
    BY DEF Base, WaveTypeOK, WavesStay
  <2> QED
    BY <2>1 DEF WavesStay, Alike
<1>2. waves[i].gen # Len(waves) + 1
  BY GenOfWave
<1> QED
  BY <1>1, <1>2 DEF Peers

LEMMA NewPartition ==
  ASSUME Base, NEW made, NEW n, NEW found, NEW size, Generated(made, n, found, size), NEW k \in 1..n
  PROVE  Partitioned(waves', Len(waves) + k)
<1> DEFINE N == Len(waves)
           i == N + k
<1>1. /\ n \in Nat /\ MadeOf(made, n, found, size) /\ Len(waves') = N + n
      /\ \A j \in 1..N : waves'[j] = waves[j]
      /\ \A l \in 1..n : waves'[N + l] = NewWave(made[l], N + 1, found, size)
  BY DEF Generated
<1>2. N \in Nat
  BY DEF Base, WaveTypeOK
<1>3. \A j \in 1..N : waves[j].gen # N + 1
  BY GenOfWave
<1> HIDE DEF N
<1>4. \A os : LET v == NewWave(os, N + 1, found, size)
              IN /\ v.orders = os /\ v.total = Len(os) /\ v.gen = N + 1
                 /\ v.found = found /\ v.size = size
  BY DEF NewWave, TotalOf
<1>5. \A l \in 1..n : /\ waves'[N + l].orders = made[l] /\ waves'[N + l].total = Len(made[l])
                      /\ waves'[N + l].gen = N + 1
                      /\ waves'[N + l].found = found /\ waves'[N + l].size = size
  BY <1>1, <1>4
<1>6. \A j \in 1..(N + n) : j \in 1..N \/ \E l \in 1..n : j = N + l
  <2>1. \A j \in 1..(N + n) : j \in 1..N \/ (j - N \in 1..n /\ j = N + (j - N))
    BY <1>1, <1>2
  <2> QED
    BY <2>1
<1>7. \A l \in 1..n : N + l \in 1..(N + n)
  BY <1>1, <1>2
<1>8. Peers(waves', i) = {N + l : l \in 1..n}
  <2>1. waves'[i].gen = N + 1
    BY <1>5
  <2>2. Peers(waves', i) = {j \in 1..(N + n) : waves'[j].gen = N + 1}
    BY <1>1, <2>1 DEF Peers
  <2>3. \A j \in 1..N : waves'[j].gen # N + 1
    BY <1>1, <1>3
  <2> QED
    BY <1>5, <1>6, <1>7, <2>2, <2>3
<1>9. /\ found = UNION {ToSet(made[l]) : l \in 1..n}
      /\ Lists(made[k], ToSet(made[k])) /\ (size # 0 => Len(made[k]) <= size)
      /\ \A x, y \in ToSet(made[k]) : KeyOf[x] = KeyOf[y]
      /\ \A l \in 1..n : k = l \/ ToSet(made[k]) \cap ToSet(made[l]) = {}
  BY <1>1 DEF MadeOf
<1>10. /\ waves'[i].orders = made[k] /\ waves'[i].total = Len(made[k])
       /\ waves'[i].found = found /\ waves'[i].size = size
  BY <1>5
<1> DEFINE P == Peers(waves', i)
<1>11. waves'[i].found = UNION {ToSet(waves'[j].orders) : j \in P}
  <2>1. \A l \in 1..n : ToSet(waves'[N + l].orders) = ToSet(made[l])
    BY <1>5
  <2>2. UNION {ToSet(waves'[j].orders) : j \in P} = UNION {ToSet(made[l]) : l \in 1..n}
    BY <1>8, <2>1
  <2> QED
    BY <1>9, <1>10, <2>2
<1>12. \A j \in P \ {i} : ToSet(waves'[i].orders) \cap ToSet(waves'[j].orders) = {}
  <2>1. \A l \in 1..n : l # k => ToSet(made[k]) \cap ToSet(waves'[N + l].orders) = {}
    BY <1>5, <1>9
  <2>2. \A j \in P \ {i} : \E l \in 1..n : l # k /\ j = N + l
    BY <1>8
  <2> QED
    BY <1>10, <2>1, <2>2
<1>13. Partitioned(waves', i)
  BY <1>9, <1>10, <1>11, <1>12 DEF Partitioned, Lists
<1> QED
  BY <1>13 DEF N

LEMMA CreatePartition ==
  ASSUME Base, GenerationsPartition, NEW made, NEW n, NEW found, NEW size,
         Generated(made, n, found, size), WavesStay
  PROVE  GenerationsPartition'
<1>1. n \in Nat /\ Len(waves) \in Nat /\ Len(waves') = Len(waves) + n
  BY DEF Generated, Base, WaveTypeOK
<1>2. \A j \in 1..Len(waves') : j \in 1..Len(waves) \/ \E k \in 1..n : j = Len(waves) + k
  <2>1. \A j \in 1..Len(waves') :
          j \in 1..Len(waves) \/ (j - Len(waves) \in 1..n /\ j = Len(waves) + (j - Len(waves)))
    BY <1>1
  <2> QED
    BY <2>1
<1>3. \A k \in 1..n : waves'[Len(waves) + k].gen = Len(waves) + 1
  <2>1. \A os : NewWave(os, Len(waves) + 1, found, size).gen = Len(waves) + 1
    BY DEF NewWave
  <2> QED
    BY <2>1 DEF Generated
<1>4. \A j \in 1..Len(waves') : j \in 1..Len(waves) \/ waves'[j].gen = Len(waves) + 1
  BY <1>2, <1>3
<1>5. ASSUME NEW i \in 1..Len(waves) PROVE Partitioned(waves', i)
  <2>1. Peers(waves', i) = Peers(waves, i)
    BY <1>1, <1>4, PeersStay
  <2>2. \A j \in 1..Len(waves) : Alike(waves'[j], waves[j])
    BY DEF WavesStay
  <2> QED
    BY <2>1, <2>2, PartitionIs, PartitionedStays
<1>6. \A k \in 1..n : Partitioned(waves', Len(waves) + k)
  BY NewPartition
<1>7. ASSUME NEW i \in 1..Len(waves') PROVE Partitioned(waves', i)
  <2>1. CASE i \in 1..Len(waves)
    BY <1>5, <2>1
  <2>2. CASE \E k \in 1..n : i = Len(waves) + k
    BY <1>6, <2>2
  <2> QED
    BY <1>2, <2>1, <2>2
<1> QED
  BY <1>7, PartitionIs

LEMMA StayPartition ==
  ASSUME Base, GenerationsPartition, WavesStay, Len(waves') = Len(waves)
  PROVE  GenerationsPartition'
<1>1. ASSUME NEW i \in 1..Len(waves) PROVE Partitioned(waves', i)
  <2>1. Len(waves) \in Nat
    BY DEF Base, WaveTypeOK
  <2>2. Peers(waves', i) = Peers(waves, i)
    BY <2>1, PeersStay
  <2>3. \A j \in 1..Len(waves) : Alike(waves'[j], waves[j])
    BY DEF WavesStay
  <2> QED
    BY <2>2, <2>3, PartitionIs, PartitionedStays
<1> QED
  BY <1>1, PartitionIs

\* Only CreateWaves adds waves.
LEMMA WavesAdded ==
  ASSUME Base, [WaveNext]_waveVars
  PROVE  Len(waves') = Len(waves) \/ \E made, n, found, size : Generated(made, n, found, size)
<1>1. CASE UNCHANGED waveVars
  BY <1>1 DEF waveVars, tables
<1>2. ASSUME NEW i \in 1..Len(waves), AssignWave(i) \/ \E new \in WaveStatus : MarkWave(i, new)
      PROVE  Len(waves') = Len(waves)
  BY <1>2, WriteWave
<1>3. ASSUME NEW w \in Handlers, Handled(w), ~CreateWaves(w)
      PROVE  waves' = waves
  BY <1>3, GenerateBase, EndBase, ConsolidateBase, CreateTaskBase, StorePathBase,
     ReadWaveBase, ReadTasksBase DEF Handled, tables
<1>4. ASSUME NEW w \in Handlers, CreateWaves(w)
      PROVE  \E made, n, found, size : Generated(made, n, found, size)
  BY <1>4, CreateWavesBase
<1>5. ASSUME \/ Enqueue
             \/ \E o \in OutboundOrders : FinishOrder(o) \/ \E new \in Eligible : Release(o, new)
             \/ \E r \in Rows : PickRow(r)
      PROVE  waves' = waves
  BY <1>5, WriteOthers
<1> QED
  BY <1>1, <1>2, <1>3, <1>4, <1>5, StepCases

LEMMA StepPartition ==
  ASSUME Base, GenerationsPartition, [WaveNext]_waveVars
  PROVE  GenerationsPartition'
BY WavesAdded, CreatePartition, StayPartition, StepBase

\* However often the cron job or requests generate waves of the same orders, and
\* whichever workers do it at once, one generation puts each order it found in one wave.
THEOREM GenerationsDivide == WaveSpec => []GenerationsPartition
<1>1. WaveInit => GenerationsPartition
  BY DEF WaveInit, GenerationsPartition
<1>2. Base /\ GenerationsPartition /\ [WaveNext]_waveVars => GenerationsPartition'
  BY StepPartition
<1> QED
  BY <1>1, <1>2, BaseHolds, PTL DEF WaveSpec

-----------------------------------------------------------------------------
(* Tasks ask for what is reserved.                                         *)

\* One order line more names its own product.
LEMMA NamingOnward ==
  ASSUME NEW asked, NEW n \in Nat, NEW prod
  PROVE  /\ Cardinality(Naming(asked, n, prod)) \in Nat
         /\ IF asked[n + 1] = prod
            THEN /\ Naming(asked, n + 1, prod) # {}
                 /\ Cardinality(Naming(asked, n + 1, prod)) = Cardinality(Naming(asked, n, prod)) + 1
            ELSE Naming(asked, n + 1, prod) = Naming(asked, n, prod)
<1> DEFINE was == Naming(asked, n, prod)
<1>1. was \in SUBSET (1..n) /\ n + 1 \notin 1..n /\ 1..(n + 1) = (1..n) \cup {n + 1}
  BY DEF Naming
<1>2. IsFiniteSet(was) /\ Cardinality(was) \in Nat
  <2> HIDE DEF was
  <2>1. IsFiniteSet(1..n)
    BY FS_Interval
  <2>2. IsFiniteSet(was)
    BY <1>1, <2>1, FS_Subset
  <2> QED
    BY <2>2, FS_CardinalityType
<1>3. CASE asked[n + 1] = prod
  <2>1. Naming(asked, n + 1, prod) = was \cup {n + 1} /\ n + 1 \notin was
    BY <1>1, <1>3 DEF Naming
  <2>2. Cardinality(was \cup {n + 1}) = Cardinality(was) + 1
    BY <1>2, <2>1, FS_AddElement
  <2> QED
    BY <1>2, <1>3, <2>1, <2>2
<1>4. CASE asked[n + 1] # prod
  <2>1. Naming(asked, n + 1, prod) = was
    BY <1>1, <1>4 DEF Naming
  <2> QED
    BY <1>2, <1>4, <2>1
<1> QED
  BY <1>3, <1>4

\* What the rows of one more order line have stays within what was reserved.
LEMMA AddedConsolidated ==
  ASSUME Base, NEW t \in Work, NEW asked, NEW n \in Nat, Consolidated(t.lines, asked, n),
         Head(t.todo) = asked[n + 1]
  PROVE  Consolidated(Added(t), asked, n + 1)
<1> SUFFICES ASSUME NEW r \in Rows, Added(t)[r] # None
             PROVE  /\ Naming(asked, n + 1, ProductOf[r]) # {}
                    /\ Added(t)[r] <= Cardinality(Naming(asked, n + 1, ProductOf[r])) * Reserved[r]
  BY DEF Consolidated
<1> DEFINE old == t.lines[r]
           c   == Cardinality(Naming(asked, n, ProductOf[r]))
           m   == Reserved[r]
<1>1. old \in Nat \cup {None} /\ stock[r] \in Nat /\ m \in Nat /\ stock[r] <= m
  BY WavesAssumption DEF Base, WaveTypeOK, RowsOK, Work
<1>2. c \in Nat
  BY NamingOnward
<1>3. old # None => Naming(asked, n, ProductOf[r]) # {} /\ old <= c * m
  BY DEF Consolidated
<1>4. CASE r \in RowsFor(Head(t.todo))
  <2>1. asked[n + 1] = ProductOf[r] /\ Added(t)[r] = stock[r] + (IF old = None THEN 0 ELSE old)
    BY <1>4 DEF RowsFor, Added
  <2>2. /\ Naming(asked, n + 1, ProductOf[r]) # {}
        /\ Cardinality(Naming(asked, n + 1, ProductOf[r])) = c + 1
    BY <2>1, NamingOnward
  <2>3. c * m \in Nat /\ (c + 1) * m = c * m + m
    BY <1>1, <1>2, Multiples
  <2>4. stock[r] + (IF old = None THEN 0 ELSE old) <= (c + 1) * m
    <3> HIDE DEF c, m, old
    <3>1. CASE old = None
      BY <1>1, <2>3, <3>1
    <3>2. CASE old # None
      BY <1>1, <1>3, <2>3, <3>2
    <3> QED
      BY <3>1, <3>2
  <2> QED
    BY <2>1, <2>2, <2>4
<1>5. CASE r \notin RowsFor(Head(t.todo))
  <2>1. Added(t)[r] = old /\ old # None /\ old <= c * m /\ Naming(asked, n, ProductOf[r]) # {}
    BY <1>3, <1>5 DEF Added
  <2>2. CASE asked[n + 1] = ProductOf[r]
    <3>1. /\ Naming(asked, n + 1, ProductOf[r]) # {}
          /\ Cardinality(Naming(asked, n + 1, ProductOf[r])) = c + 1
      BY <2>2, NamingOnward
    <3>2. c * m \in Nat /\ (c + 1) * m = c * m + m
      BY <1>1, <1>2, Multiples
    <3>3. old <= (c + 1) * m
      <4> HIDE DEF c, m, old
      <4> QED
        BY <1>1, <2>1, <3>2
    <3> QED
      BY <2>1, <3>1, <3>3
  <2>3. CASE asked[n + 1] # ProductOf[r]
    BY <2>1, <2>3, NamingOnward
  <2> QED
    BY <2>2, <2>3
<1> QED
  BY <1>4, <1>5

\* A handler that has looked nothing up, one order line more, and all of them.
LEMMA NothingConsolidated ==
  ASSUME NEW t, NEW asked \in Seq(Products), t.todo = asked, t.lines = NoLines
  PROVE  Consolidates(t, asked)
<1>1. Len(asked) \in Nat /\ 0 \in 0..Len(asked) /\ 0 + Len(asked) = Len(asked)
  OBVIOUS
<1>2. \A j \in 1..Len(asked) : asked[j] = asked[0 + j]
  BY <1>1
<1>3. Consolidated(t.lines, asked, 0)
  BY DEF Consolidated, NoLines
<1>4. \E n \in 0..Len(asked) : /\ n + Len(t.todo) = Len(asked)
                               /\ \A j \in 1..Len(t.todo) : t.todo[j] = asked[n + j]
                               /\ Consolidated(t.lines, asked, n)
  <2> WITNESS 0 \in 0..Len(asked)
  <2> QED
    BY <1>1, <1>2, <1>3
<1> QED
  BY <1>4 DEF Consolidates

LEMMA OneMoreConsolidated ==
  ASSUME Base, NEW t \in Work, NEW asked \in Seq(Products), Consolidates(t, asked), t.todo # <<>>,
         NEW u, u.todo = Tail(t.todo), u.lines = Added(t)
  PROVE  Consolidates(u, asked)
<1>1. PICK n \in 0..Len(asked) : /\ n + Len(t.todo) = Len(asked)
                                 /\ \A j \in 1..Len(t.todo) : t.todo[j] = asked[n + j]
                                 /\ Consolidated(t.lines, asked, n)
  BY DEF Consolidates
<1>2. t.todo \in Seq(Products) /\ Len(asked) \in Nat
  BY DEF Work
<1>3. /\ Len(t.todo) \in Nat \ {0} /\ Head(t.todo) = t.todo[1] /\ Len(Tail(t.todo)) = Len(t.todo) - 1
      /\ \A i \in 1..Len(Tail(t.todo)) : Tail(t.todo)[i] = t.todo[i + 1]
  BY <1>2, HeadTailProperties, EmptySeq, LenProperties
<1>4. /\ n + 1 \in 0..Len(asked) /\ (n + 1) + Len(Tail(t.todo)) = Len(asked) /\ 1 \in 1..Len(t.todo)
      /\ \A j \in 1..Len(Tail(t.todo)) : j + 1 \in 1..Len(t.todo) /\ n + (j + 1) = (n + 1) + j
  <2> DEFINE l == Len(t.todo)
             m == Len(Tail(t.todo))
             N == Len(asked)
  <2>1. n \in Nat /\ l \in Nat \ {0} /\ m = l - 1 /\ n + l = N /\ N \in Nat
    BY <1>1, <1>2, <1>3
  <2> HIDE DEF l, m, N
  <2>2. n + 1 \in 0..N /\ (n + 1) + m = N /\ 1 \in 1..l
    BY <2>1
  <2>3. \A j \in 1..m : j + 1 \in 1..l /\ n + (j + 1) = (n + 1) + j
    BY <2>1
  <2> QED
    BY <2>2, <2>3 DEF l, m, N
<1>5. Head(t.todo) = asked[n + 1]
  BY <1>1, <1>3, <1>4
<1>6. Consolidated(Added(t), asked, n + 1)
  <2>1. n \in Nat /\ Consolidated(t.lines, asked, n)
    BY <1>1, <1>2
  <2> HIDE DEF Consolidated
  <2> QED
    BY <1>5, <2>1, AddedConsolidated
<1>7. \A j \in 1..Len(Tail(t.todo)) : Tail(t.todo)[j] = asked[(n + 1) + j]
  BY <1>1, <1>3, <1>4
<1>8. \E k \in 0..Len(asked) : /\ k + Len(u.todo) = Len(asked)
                               /\ \A j \in 1..Len(u.todo) : u.todo[j] = asked[k + j]
                               /\ Consolidated(u.lines, asked, k)
  <2> USE <1>4
  <2> WITNESS n + 1 \in 0..Len(asked)
  <2> QED
    BY <1>6, <1>7
<1> QED
  BY <1>8 DEF Consolidates

LEMMA AllConsolidated ==
  ASSUME NEW t, NEW asked \in Seq(Products), Consolidates(t, asked), t.todo = <<>>
  PROVE  Consolidated(t.lines, asked, Len(asked))
<1>1. PICK n \in 0..Len(asked) : n + Len(t.todo) = Len(asked) /\ Consolidated(t.lines, asked, n)
  BY DEF Consolidates
<1>2. Len(t.todo) = 0 /\ Len(asked) \in Nat
  OBVIOUS
<1>3. n = Len(asked)
  BY <1>1, <1>2
<1> QED
  BY <1>1, <1>3

\* The whole of a task asks for what its wave names.
Backed(task, v) == Consolidated(task.lines, LinesOfWave(v), Len(LinesOfWave(v)))

LEMMA BackedIs ==
  /\ TasksAskForReservations <=> \A k \in 1..Len(tasks) : Backed(tasks[k], waves[tasks[k].wave])
  /\ TasksAskForReservations' <=> \A k \in 1..Len(tasks') : Backed(tasks'[k], waves'[tasks'[k].wave])
BY DEF TasksAskForReservations, Backed, Consolidated, Naming

LEMMA LinesOKIs ==
  /\ LinesOK <=> \A w \in Handlers :
       step[w] = "consolidate" => Consolidates(work[w], LinesOfWave(waves[work[w].wave]))
  /\ LinesOK' <=> \A w \in Handlers :
       step'[w] = "consolidate" => Consolidates(work'[w], LinesOfWave(waves'[work'[w].wave]))
BY DEF LinesOK

\* A wave asks for the same lines for ever.
LEMMA LinesOfWaveStay ==
  ASSUME Base, WavesStay, NEW i \in 1..Len(waves)
  PROVE  LinesOfWave(waves'[i]) = LinesOfWave(waves[i]) /\ LinesOfWave(waves[i]) \in Seq(Products)
<1>1. waves'[i].orders = waves[i].orders
  BY DEF WavesStay, Alike
<1>2. waves[i] \in Wave
  BY ElementOfSeq DEF Base, WaveTypeOK
<1> QED
  BY <1>1, <1>2, LinesType DEF LinesOfWave

\* The tasks there are stay backed, whatever becomes of their waves.
LEMMA TasksStayBacked ==
  ASSUME Base, TasksAskForReservations, WavesStay, TasksStay, NEW k \in 1..Len(tasks)
  PROVE  Backed(tasks'[k], waves'[tasks'[k].wave])
<1>1. tasks'[k] = tasks[k] /\ tasks[k].wave \in 1..Len(waves)
  BY DEF TasksStay, Base, RowsOK
<1>2. LinesOfWave(waves'[tasks[k].wave]) = LinesOfWave(waves[tasks[k].wave])
  BY <1>1, LinesOfWaveStay
<1>3. Backed(tasks[k], waves[tasks[k].wave])
  BY BackedIs
<1> QED
  BY <1>1, <1>2, <1>3 DEF Backed

LEMMA UnchangedBacked ==
  ASSUME Base, TasksAskForReservations, WavesStay, TasksStay, Len(tasks') = Len(tasks)
  PROVE  TasksAskForReservations'
BY TasksStayBacked, BackedIs

\* One handler goes on to do something else than to look up lines.
LEMMA LinesStay ==
  ASSUME Base, LinesOK, WavesStay, NEW w \in Handlers, NEW next \in Steps, NEW t \in Work, Proceed(w, next, t),
         next = "consolidate" => /\ t.wave \in 1..Len(waves)
                                 /\ Consolidates(t, LinesOfWave(waves[t.wave]))
  PROVE  LinesOK'
<1>1. /\ step'[w] = next /\ work'[w] = t
      /\ \A v \in Handlers \ {w} : step'[v] = step[v] /\ work'[v] = work[v]
  BY Proceeds DEF Base
<1>2. ASSUME NEW v \in Handlers, step'[v] = "consolidate"
      PROVE  Consolidates(work'[v], LinesOfWave(waves'[work'[v].wave]))
  <2>1. work'[v].wave \in 1..Len(waves) /\ Consolidates(work'[v], LinesOfWave(waves[work'[v].wave]))
    <3>1. CASE v = w
      BY <1>1, <1>2, <3>1
    <3>2. CASE v # w
      BY <1>1, <1>2, <3>2, LinesOKIs DEF Base, ReadsOK
    <3> QED
      BY <3>1, <3>2
  <2>2. LinesOfWave(waves'[work'[v].wave]) = LinesOfWave(waves[work'[v].wave])
    BY <2>1, LinesOfWaveStay
  <2> QED
    BY <2>1, <2>2
<1> QED
  BY <1>2, LinesOKIs

\* Nobody goes on.
LEMMA LinesUnchanged ==
  ASSUME Base, LinesOK, WavesStay, UNCHANGED <<step, work>>
  PROVE  LinesOK'
<1>1. ASSUME NEW v \in Handlers, step'[v] = "consolidate"
      PROVE  Consolidates(work'[v], LinesOfWave(waves'[work'[v].wave]))
  <2>1. work[v].wave \in 1..Len(waves) /\ Consolidates(work[v], LinesOfWave(waves[work[v].wave]))
    BY <1>1, LinesOKIs DEF Base, ReadsOK
  <2> QED
    BY <2>1, LinesOfWaveStay
<1> QED
  BY <1>1, LinesOKIs

LEMMA ReadWaveLines ==
  ASSUME Base, LinesOK, NEW w \in Handlers, NEW i \in 1..Len(waves), ReadWave(w, i)
  PROVE  LinesOK'
<1>1. PICK t \in Work : /\ Proceed(w, "consolidate", t) /\ t.wave = i
                        /\ t.todo = LinesOfWave(waves[i]) /\ t.lines = NoLines
  BY ReadWaveBase
<1>2. WavesStay /\ "consolidate" \in Steps
  BY ReadWaveBase DEF Steps
<1>3. LinesOfWave(waves[i]) \in Seq(Products)
  BY <1>2, LinesOfWaveStay
<1>4. Consolidates(t, LinesOfWave(waves[t.wave]))
  BY <1>1, <1>3, NothingConsolidated
<1> QED
  BY <1>1, <1>2, <1>4, LinesStay

LEMMA ConsolidateLines ==
  ASSUME Base, LinesOK, NEW w \in Handlers, Consolidate(w)
  PROVE  LinesOK'
<1>1. PICK t \in Work : /\ Proceed(w, "consolidate", t) /\ t.wave = work[w].wave
                        /\ t.todo = Tail(work[w].todo) /\ t.lines = Added(work[w])
  BY ConsolidateBase
<1>2. WavesStay /\ "consolidate" \in Steps /\ step[w] = "consolidate" /\ work[w].todo # <<>>
  BY ConsolidateBase DEF Steps
<1>3. work[w] \in Work /\ work[w].wave \in 1..Len(waves)
  BY <1>2 DEF Base, WaveTypeOK, ReadsOK
<1>4. LinesOfWave(waves[work[w].wave]) \in Seq(Products)
  BY <1>2, <1>3, LinesOfWaveStay
<1>5. Consolidates(work[w], LinesOfWave(waves[work[w].wave]))
  BY <1>2, LinesOKIs
<1>6. Consolidates(t, LinesOfWave(waves[t.wave]))
  BY <1>1, <1>2, <1>3, <1>4, <1>5, OneMoreConsolidated
<1> QED
  BY <1>1, <1>2, <1>3, <1>6, LinesStay

LEMMA CreateTaskLines ==
  ASSUME Base, LinesOK, TasksAskForReservations, NEW w \in Handlers, CreateTask(w)
  PROVE  LinesOK' /\ TasksAskForReservations'
<1> DEFINE i == work[w].wave
           n == Len(tasks)
<1>1. /\ WavesStay /\ TasksStay /\ UNCHANGED waves /\ Proceed(w, "idle", NoWork)
      /\ step[w] = "consolidate" /\ work[w].todo = <<>> /\ Len(tasks') = n + 1
      /\ tasks'[n + 1].wave = i /\ tasks'[n + 1].lines = work[w].lines
  BY CreateTaskBase
<1>2. i \in 1..Len(waves) /\ n \in Nat
  BY <1>1 DEF Base, WaveTypeOK, ReadsOK
<1>3. LinesOfWave(waves[i]) \in Seq(Products)
  BY <1>1, <1>2, LinesOfWaveStay
<1>4. Consolidates(work[w], LinesOfWave(waves[i]))
  BY <1>1, LinesOKIs
<1>5. Backed(tasks'[n + 1], waves'[tasks'[n + 1].wave])
  BY <1>1, <1>3, <1>4, AllConsolidated DEF Backed
<1>6. \A k \in 1..Len(tasks') : k \in 1..n \/ k = n + 1
  BY <1>1, <1>2
<1>7. TasksAskForReservations'
  BY <1>1, <1>5, <1>6, TasksStayBacked, BackedIs
<1>8. LinesOK'
  <2>1. NoWork \in Work /\ "idle" \in Steps /\ "idle" # "consolidate"
    BY EmptyTypes DEF Steps
  <2> QED
    BY <1>1, <2>1, LinesStay
<1> QED
  BY <1>7, <1>8

LEMMA HandledLines ==
  ASSUME Base, LinesOK, TasksAskForReservations, NEW w \in Handlers, Handled(w)
  PROVE  LinesOK' /\ TasksAskForReservations'
<1>1. /\ "group" \in Steps /\ "idle" \in Steps /\ "report" \in Steps /\ "walk" \in Steps
      /\ "consolidate" \notin {"group", "idle", "report", "walk"}
      /\ NoWork \in Work
  BY EmptyTypes DEF Steps
<1>2. CASE GenerateByRequest(w) \/ \E job \in DOMAIN queue : GenerateByJob(w, job)
  <2>1. WavesStay /\ TasksStay /\ UNCHANGED tables /\ \E t \in Work : Proceed(w, "group", t)
    BY <1>2, GenerateBase
  <2> QED
    BY <1>1, <2>1, LinesStay, UnchangedBacked DEF tables
<1>3. CASE CreateWaves(w)
  <2>1. WavesStay /\ TasksStay /\ UNCHANGED tasks
        /\ \E next \in {"idle", "report"}, t \in Work : Proceed(w, next, t)
    BY <1>3, CreateWavesBase
  <2> QED
    BY <1>1, <2>1, LinesStay, UnchangedBacked
<1>4. CASE Report(w) \/ GiveUp(w)
  <2>1. WavesStay /\ TasksStay /\ UNCHANGED tables /\ Proceed(w, "idle", NoWork)
    BY <1>4, EndBase
  <2> QED
    BY <1>1, <2>1, LinesStay, UnchangedBacked DEF tables
<1>5. CASE Consolidate(w)
  <2>1. WavesStay /\ TasksStay /\ UNCHANGED tables
    BY <1>5, ConsolidateBase
  <2> QED
    BY <1>5, <2>1, ConsolidateLines, UnchangedBacked DEF tables
<1>6. CASE CreateTask(w)
  BY <1>6, CreateTaskLines
<1>7. CASE StorePath(w)
  <2>1. WavesStay /\ TasksStay /\ UNCHANGED tasks /\ Proceed(w, "idle", NoWork)
    BY <1>7, StorePathBase
  <2> QED
    BY <1>1, <2>1, LinesStay, UnchangedBacked
<1>8. ASSUME NEW i \in 1..Len(waves), ReadWave(w, i)
      PROVE  LinesOK' /\ TasksAskForReservations'
  <2>1. WavesStay /\ TasksStay /\ UNCHANGED tables
    BY <1>8, ReadWaveBase
  <2> QED
    BY <1>8, <2>1, ReadWaveLines, UnchangedBacked DEF tables
<1>9. ASSUME NEW i \in 1..Len(waves), ReadTasks(w, i)
      PROVE  LinesOK' /\ TasksAskForReservations'
  <2>1. WavesStay /\ TasksStay /\ UNCHANGED tables /\ \E t \in Work : Proceed(w, "walk", t)
    BY <1>9, ReadTasksBase
  <2> QED
    BY <1>1, <2>1, LinesStay, UnchangedBacked DEF tables
<1> QED
  BY <1>2, <1>3, <1>4, <1>5, <1>6, <1>7, <1>8, <1>9 DEF Handled

\* What is not done by a handler, for the invariants that only handlers disturb.
LEMMA NotHandled ==
  ASSUME Base, [WaveNext]_waveVars, ~ \E w \in Handlers : Handled(w)
  PROVE  WavesStay /\ TasksStay /\ Len(waves') = Len(waves) /\ UNCHANGED <<tasks, paths, step, work>>
<1>1. WavesStay /\ TasksStay
  BY StepBase
<1>2. CASE UNCHANGED waveVars
  BY <1>1, <1>2 DEF waveVars, tables
<1>3. ASSUME NEW i \in 1..Len(waves), AssignWave(i) \/ \E new \in WaveStatus : MarkWave(i, new)
      PROVE  Len(waves') = Len(waves) /\ UNCHANGED <<tasks, paths, step, work>>
  BY <1>3, WriteWave
<1>4. ASSUME \/ Enqueue
             \/ \E o \in OutboundOrders : FinishOrder(o) \/ \E new \in Eligible : Release(o, new)
             \/ \E r \in Rows : PickRow(r)
      PROVE  UNCHANGED <<waves, tasks, paths, step, work>>
  BY <1>4, WriteOthers
<1> QED
  BY <1>1, <1>2, <1>3, <1>4, StepCases

LEMMA StepLines ==
  ASSUME Base, LinesOK, TasksAskForReservations, [WaveNext]_waveVars
  PROVE  LinesOK' /\ TasksAskForReservations'
<1>1. ASSUME NEW w \in Handlers, Handled(w) PROVE LinesOK' /\ TasksAskForReservations'
  BY <1>1, HandledLines
<1>2. ASSUME ~ \E w \in Handlers : Handled(w) PROVE LinesOK' /\ TasksAskForReservations'
  <2>1. WavesStay /\ TasksStay /\ UNCHANGED <<tasks, step, work>>
    BY <1>2, NotHandled
  <2> QED
    BY <2>1, LinesUnchanged, UnchangedBacked
<1> QED
  BY <1>1, <1>2

\* Whatever is picked, and whatever becomes of the wave, while its lines are looked up
\* one by one, a task of it asks for rows that were reserved for products it names, and
\* for none more often than the wave names its product.
THEOREM TasksAskForReserved == WaveSpec => []TasksAskForReservations
<1>1. WaveInit => LinesOK /\ TasksAskForReservations
  <2>1. WaveInit => LinesOK
    BY DEF WaveInit, LinesOK
  <2>2. WaveInit => TasksAskForReservations
    BY DEF WaveInit, TasksAskForReservations
  <2> QED
    BY <2>1, <2>2
<1>2. Base /\ (LinesOK /\ TasksAskForReservations) /\ [WaveNext]_waveVars
        => (LinesOK /\ TasksAskForReservations)'
  BY StepLines
<1> QED
  BY <1>1, <1>2, BaseHolds, PTL DEF WaveSpec

-----------------------------------------------------------------------------
(* Paths are greedy tours.                                                 *)

\* The locations of all the tasks of wave i among ts.
Reached(ts, i) == UNION {LocsOf(ts[k]) : k \in {n \in 1..Len(ts) : ts[n].wave = i}}

\* A path that has been stored, over some of the locations xs.
Toured(path, xs) ==
  LET route == path.route
  IN route # <<>> =>
       /\ route[1] = Start /\ IsInjective(route)
       /\ ToSet(Tail(route)) = path.seen /\ path.seen \subseteq xs
       /\ \A k \in 1..(Len(route) - 1), j \in 1..Len(route) :
            j > k => Dist[<<route[k], route[k + 1]>>] <= Dist[<<route[k], route[j]>>]

LEMMA TouredIs ==
  /\ PathsAreGreedyTours <=> \A i \in 1..Len(paths) : Toured(paths[i], Reached(tasks, i))
  /\ PathsAreGreedyTours' <=> \A i \in 1..Len(paths') : Toured(paths'[i], Reached(tasks', i))
BY DEF PathsAreGreedyTours, Toured, LocsOfWave, Reached

LEMMA WalksOKIs ==
  /\ WalksOK <=> \A w \in Handlers :
       step[w] = "walk" => ToSet(work[w].locs) \subseteq Reached(tasks, work[w].wave)
  /\ WalksOK' <=> \A w \in Handlers :
       step'[w] = "walk" => ToSet(work'[w].locs) \subseteq Reached(tasks', work'[w].wave)
BY DEF WalksOK, LocsOfWave, Reached

\* A wave only gets more locations.
LEMMA ReachedStay ==
  ASSUME Base, TasksStay, Len(tasks') \in Nat, NEW i
  PROVE  Reached(tasks, i) \subseteq Reached(tasks', i)
<1>1. \A k \in 1..Len(tasks) : tasks'[k] = tasks[k] /\ k \in 1..Len(tasks')
  <2>1. Len(tasks) \in Nat /\ Len(tasks) <= Len(tasks')
    BY DEF Base, WaveTypeOK, TasksStay
  <2> QED
    BY <2>1 DEF TasksStay
<1> QED
  BY <1>1 DEF Reached

LEMMA TasksType ==
  ASSUME Base, [WaveNext]_waveVars
  PROVE  Len(tasks') \in Nat
<1>1. Base'
  BY StepBase
<1> QED
  BY <1>1 DEF Base, WaveTypeOK

\* The paths there are stay tours of some of the locations of their waves.
LEMMA PathsStay ==
  ASSUME Base, PathsAreGreedyTours, TasksStay, Len(tasks') \in Nat,
         NEW i \in 1..Len(paths), paths'[i] = paths[i]
  PROVE  Toured(paths'[i], Reached(tasks', i))
<1>1. Toured(paths[i], Reached(tasks, i)) /\ Reached(tasks, i) \subseteq Reached(tasks', i)
  BY TouredIs, ReachedStay
<1> QED
  BY <1>1 DEF Toured

LEMMA PathsUnchanged ==
  ASSUME Base, PathsAreGreedyTours, TasksStay, Len(tasks') \in Nat, UNCHANGED paths
  PROVE  PathsAreGreedyTours'
BY PathsStay, TouredIs

\* One handler goes on.
LEMMA WalksStay ==
  ASSUME Base, WalksOK, TasksStay, Len(tasks') \in Nat,
         NEW w \in Handlers, NEW next \in Steps, NEW t \in Work, Proceed(w, next, t),
         next = "walk" => ToSet(t.locs) \subseteq Reached(tasks, t.wave)
  PROVE  WalksOK'
<1>1. /\ step'[w] = next /\ work'[w] = t
      /\ \A v \in Handlers \ {w} : step'[v] = step[v] /\ work'[v] = work[v]
  BY Proceeds DEF Base
<1>2. ASSUME NEW v \in Handlers, step'[v] = "walk"
      PROVE  ToSet(work'[v].locs) \subseteq Reached(tasks', work'[v].wave)
  <2>1. ToSet(work'[v].locs) \subseteq Reached(tasks, work'[v].wave)
    <3>1. CASE v = w
      BY <1>1, <1>2, <3>1
    <3>2. CASE v # w
      BY <1>1, <1>2, <3>2, WalksOKIs
    <3> QED
      BY <3>1, <3>2
  <2>2. Reached(tasks, work'[v].wave) \subseteq Reached(tasks', work'[v].wave)
    BY ReachedStay
  <2> QED
    BY <2>1, <2>2
<1> QED
  BY <1>2, WalksOKIs

LEMMA StorePathTours ==
  ASSUME Base, WalksOK, PathsAreGreedyTours, NEW w \in Handlers, StorePath(w)
  PROVE  WalksOK' /\ PathsAreGreedyTours'
<1> DEFINE i == work[w].wave
           locs == work[w].locs
           path == paths'[i]
<1>1. /\ TasksStay /\ UNCHANGED tasks /\ Proceed(w, "idle", NoWork)
      /\ step[w] = "walk" /\ locs \in Seq(Locs) /\ IsInjective(locs) /\ i \in 1..Len(paths)
      /\ Len(paths') = Len(paths)
      /\ \A j \in 1..Len(paths) : j # i => paths'[j] = paths[j]
      /\ path.route = NearestNeighbor(locs) /\ path.seen = ToSet(locs)
  BY StorePathBase
<1>2. Len(tasks') \in Nat
  BY <1>1 DEF Base, WaveTypeOK
<1>3. ToSet(locs) \subseteq Reached(tasks', i)
  BY <1>1, WalksOKIs
<1> HIDE DEF i, locs, path
<1>4. Toured(path, Reached(tasks', i))
  BY <1>1, <1>3, NearestNeighborIs DEF Toured
<1>5. \A j \in 1..Len(paths) : j # i => Toured(paths'[j], Reached(tasks', j))
  BY <1>1, <1>2, PathsStay
<1>6. PathsAreGreedyTours'
  BY <1>1, <1>4, <1>5, TouredIs DEF path
<1>7. NoWork \in Work /\ "idle" \in Steps /\ "idle" # "walk"
  BY EmptyTypes DEF Steps
<1> QED
  BY <1>1, <1>2, <1>6, <1>7, WalksStay

LEMMA CreateWavesTours ==
  ASSUME Base, PathsAreGreedyTours, NEW w \in Handlers, CreateWaves(w)
  PROVE  PathsAreGreedyTours'
<1>1. /\ TasksStay /\ UNCHANGED tasks
      /\ \A i \in 1..Len(paths) : paths'[i] = paths[i]
      /\ \A i \in 1..Len(paths') : i \in 1..Len(paths) \/ paths'[i] = NoPath
  BY CreateWavesBase
<1>2. Len(tasks') \in Nat
  BY <1>1 DEF Base, WaveTypeOK
<1>3. \A xs : Toured(NoPath, xs)
  BY DEF Toured, NoPath
<1> QED
  BY <1>1, <1>2, <1>3, PathsStay, TouredIs

LEMMA HandledTours ==
  ASSUME Base, WalksOK, PathsAreGreedyTours, Len(tasks') \in Nat, NEW w \in Handlers, Handled(w)
  PROVE  WalksOK' /\ PathsAreGreedyTours'
<1>1. /\ "group" \in Steps /\ "idle" \in Steps /\ "report" \in Steps /\ "consolidate" \in Steps
      /\ "walk" \in Steps /\ "walk" \notin {"group", "idle", "report", "consolidate"}
      /\ NoWork \in Work
  BY EmptyTypes DEF Steps
<1>2. CASE GenerateByRequest(w) \/ \E job \in DOMAIN queue : GenerateByJob(w, job)
  <2>1. TasksStay /\ UNCHANGED tables /\ \E t \in Work : Proceed(w, "group", t)
    BY <1>2, GenerateBase
  <2> QED
    BY <1>1, <2>1, WalksStay, PathsUnchanged DEF tables
<1>3. CASE CreateWaves(w)
  <2>1. TasksStay /\ \E next \in {"idle", "report"}, t \in Work : Proceed(w, next, t)
    BY <1>3, CreateWavesBase
  <2> QED
    BY <1>1, <1>3, <2>1, WalksStay, CreateWavesTours
<1>4. CASE Report(w) \/ GiveUp(w)
  <2>1. TasksStay /\ UNCHANGED tables /\ Proceed(w, "idle", NoWork)
    BY <1>4, EndBase
  <2> QED
    BY <1>1, <2>1, WalksStay, PathsUnchanged DEF tables
<1>5. CASE Consolidate(w)
  <2>1. TasksStay /\ UNCHANGED tables /\ \E t \in Work : Proceed(w, "consolidate", t)
    BY <1>5, ConsolidateBase
  <2> QED
    BY <1>1, <2>1, WalksStay, PathsUnchanged DEF tables
<1>6. CASE CreateTask(w)
  <2>1. TasksStay /\ UNCHANGED paths /\ Proceed(w, "idle", NoWork)
    BY <1>6, CreateTaskBase
  <2> QED
    BY <1>1, <2>1, WalksStay, PathsUnchanged
<1>7. CASE StorePath(w)
  BY <1>7, StorePathTours
<1>8. ASSUME NEW i \in 1..Len(waves), ReadWave(w, i)
      PROVE  WalksOK' /\ PathsAreGreedyTours'
  <2>1. TasksStay /\ UNCHANGED tables /\ \E t \in Work : Proceed(w, "consolidate", t)
    BY <1>8, ReadWaveBase
  <2> QED
    BY <1>1, <2>1, WalksStay, PathsUnchanged DEF tables
<1>9. ASSUME NEW i \in 1..Len(waves), ReadTasks(w, i)
      PROVE  WalksOK' /\ PathsAreGreedyTours'
  <2>1. TasksStay /\ UNCHANGED tables
    BY <1>9, ReadTasksBase
  <2>2. PICK t \in Work : Proceed(w, "walk", t) /\ t.wave = i /\ ToSet(t.locs) \subseteq LocsOfWave(i)
    BY <1>9, ReadTasksBase
  <2>3. ToSet(t.locs) \subseteq Reached(tasks, t.wave)
    BY <2>2 DEF Reached, LocsOfWave
  <2> QED
    BY <1>1, <2>1, <2>2, <2>3, WalksStay, PathsUnchanged DEF tables
<1> QED
  BY <1>2, <1>3, <1>4, <1>5, <1>6, <1>7, <1>8, <1>9 DEF Handled

LEMMA StepTours ==
  ASSUME Base, WalksOK, PathsAreGreedyTours, [WaveNext]_waveVars
  PROVE  WalksOK' /\ PathsAreGreedyTours'
<1>1. Len(tasks') \in Nat
  BY TasksType
<1>2. ASSUME NEW w \in Handlers, Handled(w) PROVE WalksOK' /\ PathsAreGreedyTours'
  BY <1>1, <1>2, HandledTours
<1>3. ASSUME ~ \E w \in Handlers : Handled(w) PROVE WalksOK' /\ PathsAreGreedyTours'
  <2>1. TasksStay /\ UNCHANGED <<tasks, paths, step, work>>
    BY <1>3, NotHandled
  <2>2. WalksOK'
    BY <2>1, WalksOKIs
  <2> QED
    BY <1>1, <2>1, <2>2, PathsUnchanged
<1> QED
  BY <1>2, <1>3

\* However the tasks of a wave were added while its locations were on their way to the
\* algorithm, a path that is stored goes from the start once to each location it was
\* made from, always to a nearest one, and to none where no task of the wave has a line.
THEOREM PathsAreTours == WaveSpec => []PathsAreGreedyTours
<1>1. WaveInit => WalksOK /\ PathsAreGreedyTours
  <2>1. WaveInit => WalksOK
    BY DEF WaveInit, WalksOK
  <2>2. WaveInit => PathsAreGreedyTours
    BY DEF WaveInit, PathsAreGreedyTours
  <2> QED
    BY <2>1, <2>2
<1>2. Base /\ (WalksOK /\ PathsAreGreedyTours) /\ [WaveNext]_waveVars => (WalksOK /\ PathsAreGreedyTours)'
  BY StepTours
<1> QED
  BY <1>1, <1>2, BaseHolds, PTL DEF WaveSpec
==============================================================================
