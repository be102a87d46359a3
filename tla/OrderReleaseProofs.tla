------------------------- MODULE OrderReleaseProofs -------------------------
(***************************************************************************)
(* Proofs about OrderRelease, for any orders, rows, lots and number of     *)
(* concurrent requests.                                                    *)
(***************************************************************************)
EXTENDS OrderRelease, SumLemmas, TLAPS

(***************************************************************************)
(* The inductive invariant.  A request that has updated an AVAILABLE row   *)
(* holds its lock until it ends, and it touches RESERVED rows only of lots *)
(* a row of which it has so locked.  In a lot of which no two requests     *)
(* ever held different rows, that keeps the unlocked findFirst of the      *)
(* RESERVED row fresh until its result is used; in the others it does not, *)
(* and nothing is said of their RESERVED rows.                             *)
(***************************************************************************)
NoWrites(t) ==
  /\ \A ln \in Lines : t.alloc[ln] = None
  /\ \A x \in Rows : t.avail[x] = None /\ t.drawn[x] = 0
  /\ \A l \in Lots : \A o \in Orders : t.resv[l][o] = None

InLine(w) == pc[w] \in {"take", "find", "reserve"}
InRow(w)  == pc[w] \in {"find", "reserve"}

\* Where the loops of a request are, at each of its statements.
ControlOK(w) ==
  /\ pc[w] # "idle" => tx[w].order \in Orders
  /\ ~InTx(w) => NoWrites(tx[w])
  /\ InTx(w) => tx[w].k >= 1
  /\ InLine(w) => HasLine(w) /\ tx[w].i >= 1
  /\ InRow(w) => HasRow(w) /\ tx[w].avail[Row(w)] # None
  /\ pc[w] = "reserve" => tx[w].row \in Orders

\* RESERVED rows are written, and stock is drawn, under AVAILABLE locks.
HoldsLot(t, l) == \E x \in RowsOf(l) : t.avail[x] # None
WritesOK(t) ==
  /\ \A l \in Lots : \A o \in Orders : t.resv[l][o] # None => HoldsLot(t, l)
  /\ \A x \in Rows : t.drawn[x] # 0 => t.avail[x] # None

\* Row locks exclude each other.
LocksOK ==
  /\ \A w \in Workers : WritesOK(tx[w])
  /\ \A v, w \in Workers : v # w =>
       /\ \A x \in Rows : tx[v].avail[x] = None \/ tx[w].avail[x] = None
       /\ InTx(v) /\ InTx(w) => tx[v].order # tx[w].order
  /\ \A l \in Lots : Crossing(l) => l \in crossed

\* What a request has read and written of the lines of its order.
BoundsOK(w) ==
  \A ln \in Lines : /\ tx[w].base[ln] <= Requested[ln]
                    /\ tx[w].alloc[ln] <= Requested[ln]
                    /\ tx[w].alloc[ln] # None => ln \in LinesOf(tx[w].order)

\* What the quantities of the current line and row add up to.
ProgressOK(w) ==
  /\ InLine(w) => tx[w].got + tx[w].need = Requested[Line(w)]
  /\ InRow(w) => /\ tx[w].take <= tx[w].need
                 /\ tx[w].avail[Row(w)] + tx[w].take = tx[w].seen[Row(w)]

\* A request sees at most one RESERVED row of a lot.
ViewOK(w) ==
  \A l \in Lots \ crossed : \A o, p \in Orders :
    ReservedIn(w, l, o) # None /\ ReservedIn(w, l, p) # None => o = p

\* The result of findFirst is still true when it is used.
FoundOK(w) ==
  pc[w] = "reserve" /\ Lot(w) \notin crossed =>
    /\ tx[w].rowQty = 0 \/ ReservedIn(w, Lot(w), tx[w].row) # None
    /\ \A o \in Orders : ReservedIn(w, Lot(w), o) # None =>
         o = tx[w].row /\ ReservedIn(w, Lot(w), o) = tx[w].rowQty

\* What a request sees as drawn from a row, and from the rows of a lot.
DrawnIn(w, x)  == drawn[x] + tx[w].drawn[x]
LotDrawn(w, l) == SumFunctionOnSet([x \in Rows |-> DrawnIn(w, x)], RowsOf(l))

\* What findMany returned, however old, falls short by no more than what was drawn by now.
SeenOK(w) ==
  InLine(w) => \A j \in 1..Len(Candidates[Line(w)]) :
    tx[w].seen[Candidates[Line(w)][j]] + DrawnIn(w, Candidates[Line(w)][j])
      >= Initial[Candidates[Line(w)][j]]

\* So does what was stored.
DrawnOK(w) ==
  \A x \in Rows : tx[w].avail[x] # None => tx[w].avail[x] + DrawnIn(w, x) >= Initial[x]

\* The RESERVED quantity of a lot, as the request sees it, and what it has drawn from the
\* current row but not yet reserved.
ReservedSeen(w, l) ==
  SumFunctionOnSet([o \in Orders |-> IF ReservedIn(w, l, o) = None THEN 0 ELSE ReservedIn(w, l, o)], Orders)
Taking(w, l) == IF InRow(w) /\ l = Lot(w) THEN tx[w].take ELSE 0

\* Together they are what was drawn from the rows of the lot.
TotalOK(w) ==
  \A l \in Lots \ crossed : ReservedSeen(w, l) + Taking(w, l) = LotDrawn(w, l)

WorkerOK(w) ==
  /\ ControlOK(w) /\ BoundsOK(w) /\ ProgressOK(w) /\ ViewOK(w)
  /\ FoundOK(w) /\ SeenOK(w) /\ DrawnOK(w) /\ TotalOK(w)

IInv ==
  /\ TypeOK
  /\ OneReservedRow
  /\ StockNeverLost
  /\ StatusAgreesWithLines
  /\ AllocationWithinRule
  /\ LocksOK
  /\ \A w \in Workers : WorkerOK(w)

-----------------------------------------------------------------------------
(* Types of what the actions of a request read.                            *)
USE ReleaseAssumption

LEMMA TxTypes ==
  ASSUME TypeOK, NEW w \in Workers
  PROVE  /\ tx[w] \in Tx
         /\ tx[w].order \in Orders \cup {NoOrder}
         /\ tx[w].base \in [Lines -> Nat]
         /\ tx[w].k \in Nat /\ tx[w].i \in Nat
         /\ tx[w].seen \in [Rows -> Nat]
         /\ tx[w].need \in Nat /\ tx[w].got \in Nat /\ tx[w].take \in Nat
         /\ tx[w].row \in Orders \cup {NoOrder} /\ tx[w].rowQty \in Nat
         /\ tx[w].alloc \in [Lines -> Entry]
         /\ tx[w].avail \in [Rows -> Entry]
         /\ tx[w].resv \in [Lots -> [Orders -> Entry]]
         /\ tx[w].drawn \in [Rows -> Nat]
  BY DEF TypeOK, Tx

LEMMA LineType ==
  ASSUME TypeOK, NEW w \in Workers, tx[w].order \in Orders, tx[w].k >= 1, HasLine(w)
  PROVE  Line(w) \in Lines /\ Line(w) \in LinesOf(tx[w].order)
<1>1. tx[w].k \in 1..Len(OrderLines[tx[w].order])
  BY TxTypes DEF HasLine
<1> QED
  BY <1>1 DEF Line, LinesOf

LEMMA RowType ==
  ASSUME TypeOK, NEW w \in Workers, Line(w) \in Lines, tx[w].i >= 1, HasRow(w)
  PROVE  /\ tx[w].i \in 1..Len(Candidates[Line(w)])
         /\ Row(w) \in Rows /\ Lot(w) \in Lots /\ Row(w) \in RowsOf(Lot(w))
<1>1. tx[w].i \in 1..Len(Candidates[Line(w)])
  BY TxTypes DEF HasRow
<1>2. Row(w) \in Rows
  BY <1>1 DEF Row
<1>3. Lot(w) = LotOf[Row(w)] /\ LotOf[Row(w)] \in Lots
  BY <1>2 DEF Lot
<1> QED
  BY <1>1, <1>2, <1>3 DEF RowsOf

LEMMA RowsFinite ==
  ASSUME NEW l PROVE RowsOf(l) \subseteq Rows /\ IsFiniteSet(RowsOf(l))
<1>1. RowsOf(l) \subseteq Rows
  BY DEF RowsOf
<1> QED
  BY <1>1, RowsAssumption, FS_Subset

LEMMA ReservedType ==
  ASSUME TypeOK, NEW w \in Workers, NEW l \in Lots, NEW o \in Orders
  PROVE  ReservedIn(w, l, o) \in Entry
<1>1. tx[w].resv[l][o] \in Entry /\ reserved[l][o] \in Entry
  BY TxTypes DEF TypeOK
<1> QED
  BY <1>1 DEF ReservedIn

LEMMA DrawnType ==
  ASSUME TypeOK, NEW w \in Workers
  PROVE  \A x \in Rows : /\ DrawnIn(w, x) \in Nat /\ drawn[x] \in Nat /\ tx[w].drawn[x] \in Nat
                         /\ Initial[x] \in Nat
BY TxTypes DEF TypeOK, DrawnIn

LEMMA TotalType == ASSUME TypeOK, NEW l \in Lots PROVE ReservedTotal(l) \in Nat
<1>1. PICK f : f = [o \in Orders |-> IF reserved[l][o] = None THEN 0 ELSE reserved[l][o]]
  OBVIOUS
<1>2. \A o \in Orders : f[o] \in Nat
  BY <1>1 DEF TypeOK, Entry
<1>3. SumFunctionOnSet(f, Orders) \in Nat
  BY <1>2, RowsAssumption, SumNat
<1> QED
  BY <1>1, <1>3 DEF ReservedTotal

LEMMA SeenType ==
  ASSUME TypeOK, NEW w \in Workers, NEW l \in Lots PROVE ReservedSeen(w, l) \in Nat
<1>1. PICK f : f = [o \in Orders |-> IF ReservedIn(w, l, o) = None THEN 0 ELSE ReservedIn(w, l, o)]
  OBVIOUS
<1>2. \A o \in Orders : f[o] \in Nat
  BY <1>1, ReservedType DEF Entry
<1>3. SumFunctionOnSet(f, Orders) \in Nat
  BY <1>2, RowsAssumption, SumNat
<1> QED
  BY <1>1, <1>3 DEF ReservedSeen

LEMMA LotDrawnType ==
  ASSUME TypeOK, NEW w \in Workers, NEW l \in Lots PROVE LotDrawn(w, l) \in Nat
<1>1. PICK f : f = [x \in Rows |-> DrawnIn(w, x)]
  OBVIOUS
<1>2. \A x \in RowsOf(l) : f[x] \in Nat
  BY <1>1, RowsFinite, DrawnType
<1>3. SumFunctionOnSet(f, RowsOf(l)) \in Nat
  BY <1>2, RowsFinite, SumNat
<1> QED
  BY <1>1, <1>3 DEF LotDrawn

-----------------------------------------------------------------------------
(* What a request sees of the rows of a lot, and what was drawn from them. *)

LEMMA SeenStays ==
  ASSUME NEW w, NEW l, \A o \in Orders : ReservedIn(w, l, o)' = ReservedIn(w, l, o)
  PROVE  ReservedSeen(w, l)' = ReservedSeen(w, l)
<1>1. PICK f, g :
        /\ f = [o \in Orders |-> IF ReservedIn(w, l, o) = None THEN 0 ELSE ReservedIn(w, l, o)]
        /\ g = [o \in Orders |-> IF ReservedIn(w, l, o)' = None THEN 0 ELSE ReservedIn(w, l, o)']
  OBVIOUS
<1>2. f = g
  BY <1>1
<1> QED
  BY <1>1, <1>2 DEF ReservedSeen

LEMMA DrawnStays ==
  ASSUME NEW w, NEW l, \A x \in RowsOf(l) : DrawnIn(w, x)' = DrawnIn(w, x)
  PROVE  LotDrawn(w, l)' = LotDrawn(w, l)
<1>1. PICK f, g : /\ f = [x \in Rows |-> DrawnIn(w, x)]
                  /\ g = [x \in Rows |-> DrawnIn(w, x)']
  OBVIOUS
<1>2. \A x \in RowsOf(l) : f[x] = g[x]
  BY <1>1, RowsFinite
<1>3. SumFunctionOnSet(f, RowsOf(l)) = SumFunctionOnSet(g, RowsOf(l))
  BY <1>2, RowsFinite, SumAgree
<1>4. LotDrawn(w, l) = SumFunctionOnSet(f, RowsOf(l))
  BY <1>1 DEF LotDrawn
<1>5. LotDrawn(w, l)' = SumFunctionOnSet(g, RowsOf(l))
  BY <1>1 DEF LotDrawn, RowsOf
<1> QED
  BY <1>3, <1>4, <1>5

\* Rows that did not change are seen as they were and add up to what they did.
LEMMA SameView ==
  ASSUME NEW w \in Workers, tx'[w].resv = tx[w].resv, UNCHANGED reserved
  PROVE  /\ \A l, o : ReservedIn(w, l, o)' = ReservedIn(w, l, o)
         /\ \A l : ReservedSeen(w, l)' = ReservedSeen(w, l)
<1>1. \A l, o : ReservedIn(w, l, o)' = ReservedIn(w, l, o)
  BY DEF ReservedIn
<1> QED
  BY <1>1, SeenStays

LEMMA SameDrawn ==
  ASSUME NEW w \in Workers, tx'[w].drawn = tx[w].drawn, UNCHANGED drawn
  PROVE  /\ \A x : DrawnIn(w, x)' = DrawnIn(w, x)
         /\ \A l : LotDrawn(w, l)' = LotDrawn(w, l)
<1>1. \A x : DrawnIn(w, x)' = DrawnIn(w, x)
  BY DEF DrawnIn
<1> QED
  BY <1>1, DrawnStays

\* A request that has written no RESERVED row of a lot sees the committed ones.
LEMMA SeenIsCommitted ==
  ASSUME NEW w, NEW l
  PROVE  /\ (\A o \in Orders : tx[w].resv[l][o] = None) => ReservedSeen(w, l) = ReservedTotal(l)
         /\ (\A o \in Orders : tx'[w].resv[l][o] = None) => ReservedSeen(w, l)' = ReservedTotal(l)'
<1>1. ASSUME \A o \in Orders : tx[w].resv[l][o] = None PROVE ReservedSeen(w, l) = ReservedTotal(l)
  <2>1. PICK f, g :
          /\ f = [o \in Orders |-> IF ReservedIn(w, l, o) = None THEN 0 ELSE ReservedIn(w, l, o)]
          /\ g = [o \in Orders |-> IF reserved[l][o] = None THEN 0 ELSE reserved[l][o]]
    OBVIOUS
  <2>2. f = g
    BY <1>1, <2>1 DEF ReservedIn
  <2> QED
    BY <2>1, <2>2 DEF ReservedSeen, ReservedTotal
<1>2. ASSUME \A o \in Orders : tx'[w].resv[l][o] = None
      PROVE  ReservedSeen(w, l)' = ReservedTotal(l)'
  <2>1. PICK f, g :
          /\ f = [o \in Orders |-> IF ReservedIn(w, l, o)' = None THEN 0 ELSE ReservedIn(w, l, o)']
          /\ g = [o \in Orders |-> IF reserved'[l][o] = None THEN 0 ELSE reserved'[l][o]]
    OBVIOUS
  <2>2. f = g
    BY <1>2, <2>1 DEF ReservedIn
  <2> QED
    BY <2>1, <2>2 DEF ReservedSeen, ReservedTotal
<1> QED
  BY <1>1, <1>2

\* One that has drawn nothing sees what committed releases have drawn.
LEMMA DrawnIsCommitted ==
  ASSUME NEW w, NEW l
  PROVE  /\ (\A x \in RowsOf(l) : tx[w].drawn[x] = 0 /\ drawn[x] \in Nat)
              => LotDrawn(w, l) = SumFunctionOnSet(drawn, RowsOf(l))
         /\ (\A x \in RowsOf(l) : tx'[w].drawn[x] = 0 /\ drawn'[x] \in Nat)
              => LotDrawn(w, l)' = SumFunctionOnSet(drawn', RowsOf(l))
<1>1. ASSUME \A x \in RowsOf(l) : tx[w].drawn[x] = 0 /\ drawn[x] \in Nat
      PROVE  LotDrawn(w, l) = SumFunctionOnSet(drawn, RowsOf(l))
  <2>1. PICK f, g : f = [x \in Rows |-> DrawnIn(w, x)] /\ g = drawn
    OBVIOUS
  <2>2. \A x \in RowsOf(l) : f[x] = g[x]
    BY <1>1, <2>1, RowsFinite DEF DrawnIn
  <2>3. SumFunctionOnSet(f, RowsOf(l)) = SumFunctionOnSet(g, RowsOf(l))
    BY <2>2, RowsFinite, SumAgree
  <2> QED
    BY <2>1, <2>3 DEF LotDrawn
<1>2. ASSUME \A x \in RowsOf(l) : tx'[w].drawn[x] = 0 /\ drawn'[x] \in Nat
      PROVE  LotDrawn(w, l)' = SumFunctionOnSet(drawn', RowsOf(l))
  <2>1. PICK f, g : f = [x \in Rows |-> DrawnIn(w, x)'] /\ g = drawn'
    OBVIOUS
  <2>2. \A x \in RowsOf(l) : f[x] = g[x]
    BY <1>2, <2>1, RowsFinite DEF DrawnIn
  <2>3. SumFunctionOnSet(f, RowsOf(l)) = SumFunctionOnSet(g, RowsOf(l))
    BY <2>2, RowsFinite, SumAgree
  <2> QED
    BY <2>1, <2>3 DEF LotDrawn, RowsOf
<1> QED
  BY <1>1, <1>2

HIDE ReleaseAssumption

\* Drawing from a row draws from its lot.
LEMMA LotDrawnMore ==
  ASSUME TypeOK, NEW w \in Workers, NEW y \in Rows, NEW amount \in Nat,
         DrawnIn(w, y)' = DrawnIn(w, y) + amount,
         \A x \in Rows \ {y} : DrawnIn(w, x)' = DrawnIn(w, x)
  PROVE  /\ LotDrawn(w, LotOf[y])' = LotDrawn(w, LotOf[y]) + amount
         /\ \A l \in Lots \ {LotOf[y]} : LotDrawn(w, l)' = LotDrawn(w, l)
<1>1. PICK f, g, S : /\ f = [x \in Rows |-> DrawnIn(w, x)]
                     /\ g = [x \in Rows |-> DrawnIn(w, x)']
                     /\ S = RowsOf(LotOf[y])
  OBVIOUS
<1>2. S \subseteq Rows /\ IsFiniteSet(S) /\ y \in S
  BY <1>1, RowsFinite DEF RowsOf
<1>3. \A x \in S : f[x] \in Int
  BY <1>1, <1>2, DrawnType
<1>4. g[y] = f[y] + amount /\ \A x \in S \ {y} : f[x] = g[x]
  BY <1>1, <1>2
<1>5. \A x \in S : f[x] \in Int /\ g[x] \in Int
  <2>1. f[y] \in Int /\ g[y] \in Int
    BY <1>2, <1>3, <1>4
  <2> QED
    BY <1>3, <1>4, <2>1
<1>6. SumFunctionOnSet(f, S) \in Int /\ f[y] \in Int /\ g[y] \in Int
  BY <1>2, <1>5, SumInt
<1>7. SumFunctionOnSet(g, S) = SumFunctionOnSet(f, S) - f[y] + g[y]
  BY <1>2, <1>4, <1>5, <1>6, SumUpdate
<1>8. SumFunctionOnSet(g, S) = SumFunctionOnSet(f, S) + amount
  BY <1>4, <1>6, <1>7
<1>9. LotDrawn(w, LotOf[y]) = SumFunctionOnSet(f, S)
  BY <1>1 DEF LotDrawn
<1>10. LotDrawn(w, LotOf[y])' = SumFunctionOnSet(g, S)
  BY <1>1 DEF LotDrawn, RowsOf
<1>11. ASSUME NEW l \in Lots \ {LotOf[y]} PROVE LotDrawn(w, l)' = LotDrawn(w, l)
  <2>1. \A x \in RowsOf(l) : x \in Rows \ {y}
    BY DEF RowsOf
  <2> QED
    BY <2>1, DrawnStays
<1> QED
  BY <1>8, <1>9, <1>10, <1>11

\* What a request sees of the lot's RESERVED rows grows with the one row it writes.
RowWritten(w, l, r, q, amount) ==
  /\ TypeOK /\ w \in Workers /\ l \in Lots /\ r \in Orders /\ q \in Nat /\ amount \in Nat
  /\ tx'[w].resv = [tx[w].resv EXCEPT ![l][r] = q + amount] /\ UNCHANGED reserved
  /\ ReservedIn(w, l, r) = None => q = 0
  /\ ReservedIn(w, l, r) # None => ReservedIn(w, l, r) = q

LEMMA TotalGrows ==
  ASSUME NEW w, NEW l, NEW r, NEW q, NEW amount, RowWritten(w, l, r, q, amount)
  PROVE  ReservedSeen(w, l)' = ReservedSeen(w, l) + amount
<1> SUFFICES ASSUME TypeOK, w \in Workers, l \in Lots, r \in Orders, q \in Nat, amount \in Nat,
                    tx'[w].resv = [tx[w].resv EXCEPT ![l][r] = q + amount],
                    UNCHANGED reserved, ReservedIn(w, l, r) = None => q = 0,
                    ReservedIn(w, l, r) # None => ReservedIn(w, l, r) = q
             PROVE  ReservedSeen(w, l)' = ReservedSeen(w, l) + amount
  BY DEF RowWritten
<1>1. PICK n \in Nat : n = q + amount /\ n # None
  <2>1. q + amount \in Nat /\ q + amount # None
    BY DEF None
  <2> QED
    BY <2>1
<1>2. tx[w].resv \in [Lots -> [Orders -> Entry]]
  BY TxTypes
<1>3. /\ tx'[w].resv[l][r] = n
      /\ \A o \in Orders \ {r} : tx'[w].resv[l][o] = tx[w].resv[l][o]
  BY <1>1, <1>2
<1>4. /\ ReservedIn(w, l, r)' = n
      /\ \A o \in Orders \ {r} : ReservedIn(w, l, o)' = ReservedIn(w, l, o)
  BY <1>1, <1>3 DEF ReservedIn
<1>5. PICK f, g :
        /\ f = [o \in Orders |-> IF ReservedIn(w, l, o) = None THEN 0 ELSE ReservedIn(w, l, o)]
        /\ g = [o \in Orders |-> IF ReservedIn(w, l, o)' = None THEN 0 ELSE ReservedIn(w, l, o)']
  OBVIOUS
<1>6. f[r] = q /\ g[r] = n /\ \A o \in Orders \ {r} : f[o] = g[o]
  BY <1>1, <1>4, <1>5
<1>7. \A o \in Orders : f[o] \in Int
  BY <1>5, ReservedType DEF Entry
<1>8. \A o \in Orders : g[o] \in Int
  BY <1>6, <1>7
<1>9. SumFunctionOnSet(f, Orders) \in Int /\ f[r] \in Int /\ g[r] \in Int
  BY <1>7, <1>8, RowsAssumption, SumInt
<1>10. SumFunctionOnSet(g, Orders) = SumFunctionOnSet(f, Orders) - f[r] + g[r]
  BY <1>6, <1>7, <1>8, <1>9, RowsAssumption, SumUpdate
<1>11. SumFunctionOnSet(g, Orders) = SumFunctionOnSet(f, Orders) + amount
  BY <1>1, <1>6, <1>9, <1>10
<1> QED
  BY <1>5, <1>9, <1>11 DEF ReservedSeen

USE ReleaseAssumption

\* Outside the lots in which requests crossed, only one request holds rows of a lot.
LEMMA Alone ==
  ASSUME LocksOK, NEW v \in Workers, NEW w \in Workers, v # w, NEW l \in Lots, l \notin crossed,
         HoldsLot(tx[v], l)
  PROVE  /\ ~HoldsLot(tx[w], l)
         /\ \A o \in Orders : tx[w].resv[l][o] = None
         /\ \A x \in RowsOf(l) : tx[w].drawn[x] = 0
<1>1. ASSUME HoldsLot(tx[w], l) PROVE FALSE
  <2>1. PICK x \in RowsOf(l) : tx[v].avail[x] # None
    BY DEF HoldsLot
  <2>2. PICK y \in RowsOf(l) : tx[w].avail[y] # None
    BY <1>1 DEF HoldsLot
  <2>3. x \in Rows /\ y \in Rows
    BY RowsFinite
  <2>4. CASE x = y
    BY <2>1, <2>2, <2>3, <2>4 DEF LocksOK
  <2>5. CASE x # y
    BY <2>1, <2>2, <2>5 DEF LocksOK, Crossing
  <2> QED
    BY <2>4, <2>5
<1>2. WritesOK(tx[w])
  BY DEF LocksOK
<1> QED
  BY <1>1, <1>2, RowsFinite DEF WritesOK, HoldsLot

-----------------------------------------------------------------------------
LEMMA NoTxType ==
  /\ NoTx \in Tx
  /\ NoWrites(NoTx)
  /\ \A ln \in Lines : NoTx.base[ln] = 0
<1>1. NoTx \in Tx
  BY DEF NoTx, Tx, Entry, None
<1>2. NoWrites(NoTx) /\ \A ln \in Lines : NoTx.base[ln] = 0
  BY DEF NoTx, NoWrites
<1> QED
  BY <1>1, <1>2

\* A request without uncommitted writes sees what is committed.
LEMMA CommittedView ==
  \A w \in Workers :
    /\ NoWrites(tx[w]) /\ OneReservedRow /\ StockNeverLost
    /\ \A x \in Rows : drawn[x] \in Nat
    /\ ~InRow(w)
    => ViewOK(w) /\ TotalOK(w)
<1> SUFFICES ASSUME NEW w \in Workers, NoWrites(tx[w]), OneReservedRow, StockNeverLost,
                    \A x \in Rows : drawn[x] \in Nat, ~InRow(w)
             PROVE  ViewOK(w) /\ TotalOK(w)
  OBVIOUS
<1>1. ViewOK(w)
  BY DEF NoWrites, OneReservedRow, ViewOK, ReservedIn
<1>2. TotalOK(w)
  <2> SUFFICES ASSUME NEW l \in Lots \ crossed
               PROVE  ReservedSeen(w, l) + Taking(w, l) = LotDrawn(w, l)
    BY DEF TotalOK
  <2>1. ReservedSeen(w, l) = ReservedTotal(l)
    BY SeenIsCommitted DEF NoWrites
  <2>2. LotDrawn(w, l) = SumFunctionOnSet(drawn, RowsOf(l))
    BY RowsFinite, DrawnIsCommitted DEF NoWrites
  <2>3. Taking(w, l) = 0
    BY DEF Taking
  <2>4. ReservedTotal(l) = SumFunctionOnSet(drawn, RowsOf(l))
    BY DEF StockNeverLost
  <2>5. SumFunctionOnSet(drawn, RowsOf(l)) \in Nat
    BY RowsFinite, SumNat
  <2> QED
    BY <2>1, <2>2, <2>3, <2>4, <2>5
<1> QED
  BY <1>1, <1>2

\* So it will after a step.
LEMMA CommittedViewNext ==
  (\A w \in Workers :
    /\ NoWrites(tx[w]) /\ OneReservedRow /\ StockNeverLost
    /\ \A x \in Rows : drawn[x] \in Nat
    /\ ~InRow(w)
    => ViewOK(w) /\ TotalOK(w))'
BY CommittedView, PTL


LEMMA InitIInv == Init => IInv
<1> SUFFICES ASSUME Init PROVE IInv
  OBVIOUS
<1>1. TypeOK
  BY NoTxType DEF Init, TypeOK, Status, Control, Entry, None
<1>2. OneReservedRow
  BY DEF Init, OneReservedRow
<1>3. StockNeverLost
  <2>1. \A x \in Rows : available[x] + drawn[x] >= Initial[x]
    <3> TAKE x \in Rows
    <3>1. available[x] = Initial[x] /\ drawn[x] = 0 /\ Initial[x] \in Nat
      BY DEF Init
    <3> QED
      BY <3>1
  <2>2. ASSUME NEW l \in Lots PROVE ReservedTotal(l) = SumFunctionOnSet(drawn, RowsOf(l))
    <3>1. PICK f : f = [o \in Orders |-> IF reserved[l][o] = None THEN 0 ELSE reserved[l][o]]
      OBVIOUS
    <3>2. \A o \in Orders : f[o] = 0
      BY <3>1 DEF Init
    <3>3. SumFunctionOnSet(f, Orders) = 0
      BY <3>2, RowsAssumption, SumZero
    <3>4. \A x \in RowsOf(l) : drawn[x] = 0
      BY RowsFinite DEF Init
    <3>5. SumFunctionOnSet(drawn, RowsOf(l)) = 0
      BY <3>4, RowsFinite, SumZero
    <3> QED
      BY <3>1, <3>3, <3>5 DEF ReservedTotal
  <2> QED
    BY <2>1, <2>2 DEF StockNeverLost
<1>4. StatusAgreesWithLines /\ AllocationWithinRule
  <2>1. \A o \in Orders : \A ln \in LinesOf(o) : ln \in Lines
    BY DEF LinesOf
  <2> QED
    BY <2>1 DEF Init, StatusAgreesWithLines, AllocationWithinRule
<1>5. LocksOK
  <2>1. \A w \in Workers : tx[w] = NoTx /\ ~InTx(w)
    BY DEF Init, InTx
  <2>2. \A x \in Rows : NoTx.avail[x] = None /\ NoTx.drawn[x] = 0
    BY NoTxType DEF NoWrites
  <2>3. \A l \in Lots : \A o \in Orders : NoTx.resv[l][o] = None
    BY NoTxType DEF NoWrites
  <2>4. \A l \in Lots : ~Crossing(l)
    BY <2>1, <2>2, RowsFinite DEF Crossing
  <2> QED
    BY <2>1, <2>2, <2>3, <2>4 DEF LocksOK, WritesOK
<1>6. ASSUME NEW w \in Workers PROVE WorkerOK(w)
  <2>1. /\ pc[w] = "idle" /\ NoWrites(tx[w])
        /\ \A ln \in Lines : tx[w].base[ln] = 0
        /\ \A x \in Rows : drawn[x] \in Nat
    BY NoTxType DEF Init
  <2>2. ControlOK(w)
    BY <2>1 DEF ControlOK, InTx, InLine, InRow
  <2>3. BoundsOK(w) /\ ProgressOK(w)
    BY <2>1 DEF BoundsOK, ProgressOK, InLine, InRow, NoWrites, None
  <2>4. FoundOK(w) /\ SeenOK(w) /\ DrawnOK(w) /\ ~InRow(w)
    BY <2>1 DEF FoundOK, SeenOK, DrawnOK, InLine, InRow, NoWrites
  <2>5. ViewOK(w) /\ TotalOK(w)
    BY <1>2, <1>3, <2>1, <2>4, CommittedView
  <2> QED
    BY <2>2, <2>3, <2>4, <2>5 DEF WorkerOK
<1> QED
  BY <1>1, <1>2, <1>3, <1>4, <1>5, <1>6 DEF IInv

\* A request whose locals do not change keeps its part of the invariant as long
\* as the RESERVED rows stay as they are and nothing is drawn.
LEMMA UndisturbedWorker ==
  ASSUME NEW v \in Workers, tx'[v] = tx[v], pc'[v] = pc[v], UNCHANGED <<reserved, drawn>>,
         crossed \subseteq crossed', WorkerOK(v)
  PROVE  WorkerOK(v)'
<1>1. /\ Line(v)' = Line(v) /\ Row(v)' = Row(v) /\ Lot(v)' = Lot(v) /\ InLine(v)' = InLine(v)
      /\ InRow(v)' = InRow(v) /\ HasLine(v)' = HasLine(v) /\ HasRow(v)' = HasRow(v)
      /\ InTx(v)' = InTx(v)
  BY DEF InTx, InLine, InRow, HasLine, HasRow, Lot, Row, Line
<1>2. /\ \A l, o : ReservedIn(v, l, o)' = ReservedIn(v, l, o)
      /\ \A l : ReservedSeen(v, l)' = ReservedSeen(v, l)
  BY SameView
<1>3. /\ \A x : DrawnIn(v, x)' = DrawnIn(v, x)
      /\ \A l : LotDrawn(v, l)' = LotDrawn(v, l)
  BY SameDrawn
<1>4. \A l : Taking(v, l)' = Taking(v, l)
  BY <1>1 DEF Taking
<1>5. ControlOK(v)'
  BY <1>1 DEF WorkerOK, ControlOK
<1>6. BoundsOK(v)' /\ ProgressOK(v)'
  BY <1>1 DEF WorkerOK, BoundsOK, ProgressOK
<1>7. ViewOK(v)' /\ FoundOK(v)'
  <2>1. ViewOK(v)'
    BY <1>2 DEF WorkerOK, ViewOK
  <2>2. FoundOK(v)'
    BY <1>1, <1>2 DEF WorkerOK, FoundOK
  <2> QED
    BY <2>1, <2>2
<1>8. SeenOK(v)' /\ DrawnOK(v)'
  BY <1>1, <1>3 DEF WorkerOK, SeenOK, DrawnOK
<1>9. TotalOK(v)'
  BY <1>2, <1>3, <1>4 DEF WorkerOK, TotalOK
<1> QED
  BY <1>5, <1>6, <1>7, <1>8, <1>9 DEF WorkerOK

LEMMA GotoFlags ==
  ASSUME TypeOK, NEW w, NEW next, NEW t, Goto(w, next, t)
  PROVE  /\ fullOnly' = fullOnly /\ overlapped' \in BOOLEAN
         /\ crossed' \subseteq Lots /\ crossed \subseteq crossed'
         /\ \A l \in Lots : Crossing(l)' => l \in crossed'
BY DEF Goto, TypeOK

(***************************************************************************)
(* A statement that writes no committed row keeps the invariant when the   *)
(* new locals of its own request satisfy it and it takes no lock that      *)
(* another request holds.                                                  *)
(***************************************************************************)
LEMMA LocalStep ==
  ASSUME IInv, NEW w \in Workers, NEW next \in Control, NEW t \in Tx,
         Local(w, next, t), WritesOK(t),
         \A v \in Workers \ {w} : \A x \in Rows :
            t.avail[x] = None \/ tx[v].avail[x] = None,
         \A v \in Workers \ {w} : InTx(v) /\ InTx(w)' => tx[v].order # t.order,
         WorkerOK(w)'
  PROVE  IInv'
<1> USE DEF IInv
<1>1. /\ tx \in [Workers -> Tx] /\ pc \in [Workers -> Control]
      /\ tx' = [tx EXCEPT ![w] = t] /\ pc' = [pc EXCEPT ![w] = next]
      /\ UNCHANGED <<status, allocated, available, reserved, drawn>>
      /\ fullOnly' = fullOnly /\ overlapped' \in BOOLEAN
      /\ crossed' \subseteq Lots /\ crossed \subseteq crossed'
      /\ \A l \in Lots : Crossing(l)' => l \in crossed'
  BY GotoFlags DEF TypeOK, Local, Goto, stock
<1>2. TypeOK'
  BY <1>1 DEF TypeOK
<1>3. OneReservedRow' /\ StockNeverLost' /\ StatusAgreesWithLines' /\ AllocationWithinRule'
  <2>1. OneReservedRow'
    BY <1>1 DEF OneReservedRow
  <2>2. StockNeverLost'
    <3>1. \A l : ReservedTotal(l)' = ReservedTotal(l)
      BY <1>1 DEF ReservedTotal
    <3>2. \A l : SumFunctionOnSet(drawn, RowsOf(l))' = SumFunctionOnSet(drawn, RowsOf(l))
      BY <1>1 DEF RowsOf
    <3> QED
      BY <1>1, <3>1, <3>2 DEF StockNeverLost
  <2>3. StatusAgreesWithLines'
    BY <1>1 DEF StatusAgreesWithLines
  <2>4. AllocationWithinRule'
    BY <1>1 DEF AllocationWithinRule
  <2> QED
    BY <2>1, <2>2, <2>3, <2>4
<1>4. \A v \in Workers \ {w} : tx'[v] = tx[v] /\ pc'[v] = pc[v]
  BY <1>1
<1>5. tx'[w] = t /\ pc'[w] = next
  BY <1>1
<1>6. LocksOK'
  <2>1. ASSUME NEW v \in Workers PROVE WritesOK(tx'[v])
    <3>1. CASE v = w
      BY <1>5, <3>1
    <3>2. CASE v # w
      BY <1>4, <3>2 DEF LocksOK
    <3> QED
      BY <3>1, <3>2
  <2>2. ASSUME NEW u \in Workers, NEW v \in Workers, u # v, NEW x \in Rows
        PROVE  tx'[u].avail[x] = None \/ tx'[v].avail[x] = None
    <3>1. CASE u = w
      BY <1>4, <1>5, <2>2, <3>1
    <3>2. CASE v = w
      <4>1. u \in Workers \ {w} /\ tx'[u] = tx[u] /\ tx'[v] = t
        BY <1>4, <1>5, <2>2, <3>2
      <4>2. t.avail[x] = None \/ tx[u].avail[x] = None
        BY <4>1, Zenon
      <4> QED
        BY <4>1, <4>2
    <3>3. CASE u # w /\ v # w
      <4>1. tx[u].avail[x] = None \/ tx[v].avail[x] = None
        BY <2>2 DEF LocksOK
      <4> QED
        BY <1>4, <3>3, <4>1
    <3> QED
      BY <3>1, <3>2, <3>3
  <2>3. ASSUME NEW u \in Workers, NEW v \in Workers, u # v, InTx(u)', InTx(v)'
        PROVE  tx'[u].order # tx'[v].order
    <3>1. \A x \in Workers \ {w} : InTx(x)' => InTx(x)
      BY <1>4 DEF InTx
    <3>2. CASE u = w
      BY <1>4, <1>5, <2>3, <3>1, <3>2
    <3>3. CASE v = w
      BY <1>4, <1>5, <2>3, <3>1, <3>3
    <3>4. CASE u # w /\ v # w
      BY <1>4, <2>3, <3>1, <3>4 DEF LocksOK
    <3> QED
      BY <3>2, <3>3, <3>4
  <2>4. \A v \in Workers : WritesOK(tx[v])'
    BY <2>1 DEF WritesOK, HoldsLot, RowsOf
  <2>5. \A l \in Lots : Crossing(l)' => l \in crossed'
    BY <1>1
  <2> QED
    BY <2>2, <2>3, <2>4, <2>5 DEF LocksOK
<1>7. ASSUME NEW v \in Workers \ {w}
      PROVE WorkerOK(v)'
  BY <1>1, <1>4, UndisturbedWorker
<1> QED
  BY <1>2, <1>3, <1>6, <1>7

(***************************************************************************)
(* Steps to a state without uncommitted writes: the reads before the       *)
(* transaction, its first statement, and every way to roll it back.        *)
(***************************************************************************)
LEMMA QuietStep ==
  ASSUME IInv, NEW w \in Workers, NEW next \in {"idle", "readLines", "begin", "line"},
         NEW t \in Tx, Local(w, next, t), NoWrites(t),
         next # "idle" => t.order \in Orders,
         \A ln \in Lines : t.base[ln] <= Requested[ln],
         next = "line" => /\ t.k >= 1
                          /\ \A v \in Workers \ {w} : InTx(v) => tx[v].order # t.order
  PROVE  IInv'
<1>1. /\ tx'[w] = t /\ pc'[w] = next /\ UNCHANGED <<reserved, available, drawn>>
      /\ next \in Control /\ crossed \subseteq crossed'
  BY GotoFlags DEF IInv, TypeOK, Local, Goto, stock, Control
<1>2. /\ \A x \in Rows : t.avail[x] = None
      /\ \A ln \in Lines : t.alloc[ln] = None
  BY DEF NoWrites
<1>3. ControlOK(w)'
  BY <1>1 DEF ControlOK, InTx, InLine, InRow, NoWrites
<1>4. BoundsOK(w)' /\ ProgressOK(w)'
  BY <1>1, <1>2 DEF BoundsOK, ProgressOK, InLine, InRow, None
<1>5. FoundOK(w)' /\ SeenOK(w)' /\ DrawnOK(w)' /\ ~InRow(w)'
  BY <1>1, <1>2 DEF FoundOK, SeenOK, DrawnOK, InLine, InRow
<1>6. ViewOK(w)' /\ TotalOK(w)'
  <2>1. OneReservedRow'
    BY <1>1 DEF IInv, OneReservedRow
  <2>2. StockNeverLost'
    <3>1. \A l : ReservedTotal(l)' = ReservedTotal(l)
      BY <1>1 DEF ReservedTotal
    <3>2. \A l : SumFunctionOnSet(drawn, RowsOf(l))' = SumFunctionOnSet(drawn, RowsOf(l))
      BY <1>1 DEF RowsOf
    <3> QED
      BY <1>1, <3>1, <3>2 DEF IInv, StockNeverLost
  <2>3. \A x \in Rows : drawn'[x] \in Nat
    BY <1>1 DEF IInv, TypeOK
  <2>4. NoWrites(tx[w])'
    BY <1>1 DEF NoWrites
  <2> QED
    BY <1>5, <2>1, <2>2, <2>3, <2>4, CommittedViewNext
<1>7. \A v \in Workers \ {w} : InTx(v) /\ InTx(w)' => tx[v].order # t.order
  BY <1>1 DEF InTx
<1>8. WorkerOK(w)'
  BY <1>3, <1>4, <1>5, <1>6 DEF WorkerOK
<1>9. /\ WritesOK(t) /\ next \in Control
      /\ \A v \in Workers \ {w} : \A x \in Rows : t.avail[x] = None \/ tx[v].avail[x] = None
  BY <1>1, <1>2 DEF NoWrites, WritesOK
<1> QED
  BY <1>7, <1>8, <1>9, LocalStep

LEMMA RollbackStep == ASSUME IInv, NEW w \in Workers, Rollback(w) PROVE IInv'
<1>1. NoTx \in Tx /\ NoWrites(NoTx) /\ \A ln \in Lines : NoTx.base[ln] <= Requested[ln]
  BY NoTxType
<1> QED
  BY <1>1, QuietStep DEF Rollback

LEMMA CheckStep ==
  ASSUME IInv, NEW w \in Workers, NEW o \in Orders, Check(w, o) PROVE IInv'
<1> DEFINE t == [NoTx EXCEPT !.order = o]
<1>1. t \in Tx
  BY NoTxType DEF Tx
<1>2. /\ t.order = o /\ t.base = NoTx.base /\ t.alloc = NoTx.alloc
      /\ t.avail = NoTx.avail /\ t.resv = NoTx.resv /\ t.drawn = NoTx.drawn
  BY NoTxType DEF Tx
<1>3. Local(w, "readLines", t)
  BY DEF Check
<1> HIDE DEF t
<1>4. NoWrites(t) /\ \A ln \in Lines : t.base[ln] <= Requested[ln]
  BY <1>2, NoTxType DEF NoWrites
<1> QED
  BY <1>1, <1>2, <1>3, <1>4, QuietStep

LEMMA ReadLinesStep == ASSUME IInv, NEW w \in Workers, ReadLines(w) PROVE IInv'
<1> DEFINE b == [ln \in Lines |-> IF ln \in LinesOf(tx[w].order) THEN allocated[ln] ELSE 0]
           t == [tx[w] EXCEPT !.base = b]
<1>1. ControlOK(w) /\ TypeOK /\ AllocationWithinRule
  BY DEF IInv, WorkerOK
<1>2. b \in [Lines -> Nat] /\ \A ln \in Lines : b[ln] <= Requested[ln]
  BY <1>1 DEF TypeOK, AllocationWithinRule
<1>3. Local(w, "begin", t)
  BY DEF ReadLines
<1> HIDE DEF b
<1>4. t \in Tx
  <2>1. tx[w] \in Tx
    BY <1>1, TxTypes
  <2> QED
    BY <1>2, <2>1 DEF Tx
<1>5. /\ t.order = tx[w].order /\ t.base = b /\ t.alloc = tx[w].alloc
      /\ t.avail = tx[w].avail /\ t.resv = tx[w].resv /\ t.drawn = tx[w].drawn
  BY <1>1, TxTypes DEF Tx
<1> HIDE DEF t
<1>6. NoWrites(t) /\ t.order \in Orders
  BY <1>1, <1>5 DEF ControlOK, InTx, ReadLines, NoWrites
<1> QED
  BY <1>2, <1>3, <1>4, <1>5, <1>6, QuietStep

LEMMA BeginStep == ASSUME IInv, NEW w \in Workers, Begin(w) PROVE IInv'
<1> DEFINE t == [tx[w] EXCEPT !.k = 1]
<1>1. ControlOK(w) /\ BoundsOK(w) /\ TypeOK
  BY DEF IInv, WorkerOK
<1>2. Local(w, "line", t)
  BY DEF Begin
<1>3. t \in Tx
  <2>1. tx[w] \in Tx
    BY <1>1, TxTypes
  <2> QED
    BY <2>1 DEF Tx
<1>4. /\ t.order = tx[w].order /\ t.base = tx[w].base /\ t.alloc = tx[w].alloc
      /\ t.avail = tx[w].avail /\ t.resv = tx[w].resv /\ t.drawn = tx[w].drawn /\ t.k = 1
  BY <1>1, TxTypes DEF Tx
<1> HIDE DEF t
<1>5. NoWrites(t) /\ t.order \in Orders
  BY <1>1, <1>4 DEF ControlOK, InTx, Begin, NoWrites
<1>6. \A v \in Workers \ {w} : InTx(v) => tx[v].order # t.order
  BY <1>4 DEF Begin, OrderHolders
<1>7. \A ln \in Lines : t.base[ln] <= Requested[ln]
  BY <1>1, <1>4 DEF BoundsOK
<1>8. t.k >= 1
  BY <1>4
<1> QED
  BY <1>2, <1>3, <1>4, <1>5, <1>6, <1>7, <1>8, QuietStep

(***************************************************************************)
(* Statements inside the transaction that write no row.                    *)
(***************************************************************************)
\* They leave what the request sees, has drawn and holds as it is.
LEMMA ReadStep ==
  ASSUME IInv, NEW w \in Workers, NEW next \in {"line", "take", "reserve"},
         NEW t \in Tx, Local(w, next, t), InTx(w),
         t.order = tx[w].order, t.base = tx[w].base, t.alloc = tx[w].alloc,
         t.avail = tx[w].avail, t.resv = tx[w].resv, t.drawn = tx[w].drawn,
         ControlOK(w)', ProgressOK(w)', FoundOK(w)', SeenOK(w)',
         \A l \in Lots : Taking(w, l)' = Taking(w, l)
  PROVE  IInv'
<1>1. /\ tx'[w] = t /\ pc'[w] = next /\ UNCHANGED <<reserved, drawn>> /\ next \in Control
      /\ crossed \subseteq crossed'
  BY GotoFlags DEF IInv, TypeOK, Local, Goto, stock, Control
<1>2. LocksOK /\ BoundsOK(w) /\ ViewOK(w) /\ DrawnOK(w) /\ TotalOK(w)
  BY DEF IInv, WorkerOK
<1>3. WritesOK(t)
  <2>1. WritesOK(tx[w])
    BY <1>2 DEF LocksOK
  <2> QED
    BY <2>1 DEF WritesOK, HoldsLot
<1>4. \A v \in Workers \ {w} : \A x \in Rows : t.avail[x] = None \/ tx[v].avail[x] = None
  BY <1>2 DEF LocksOK
<1>5. \A v \in Workers \ {w} : InTx(v) /\ InTx(w)' => tx[v].order # t.order
  BY <1>2 DEF LocksOK
<1>6. BoundsOK(w)'
  BY <1>1, <1>2 DEF BoundsOK
<1>7. tx'[w].resv = tx[w].resv /\ tx'[w].drawn = tx[w].drawn
  BY <1>1
<1>8. /\ \A l, o : ReservedIn(w, l, o)' = ReservedIn(w, l, o)
      /\ \A l : ReservedSeen(w, l)' = ReservedSeen(w, l)
  BY <1>1, <1>7, SameView
<1>9. /\ \A x : DrawnIn(w, x)' = DrawnIn(w, x)
      /\ \A l : LotDrawn(w, l)' = LotDrawn(w, l)
  BY <1>1, <1>7, SameDrawn
<1>10. ViewOK(w)'
  BY <1>1, <1>2, <1>8 DEF ViewOK
<1>11. DrawnOK(w)'
  BY <1>1, <1>2, <1>9 DEF DrawnOK
<1>12. TotalOK(w)'
  BY <1>1, <1>2, <1>8, <1>9 DEF TotalOK
<1>13. WorkerOK(w)'
  BY <1>6, <1>10, <1>11, <1>12 DEF WorkerOK
<1> QED
  BY <1>1, <1>3, <1>4, <1>5, <1>13, LocalStep

LEMMA SkipLineStep == ASSUME IInv, NEW w \in Workers, SkipLine(w) PROVE IInv'
<1> DEFINE t == [tx[w] EXCEPT !.k = @ + 1]
<1>1. TypeOK /\ ControlOK(w) /\ InTx(w) /\ pc[w] = "line"
  BY DEF IInv, WorkerOK, SkipLine, InTx
<1>2. Local(w, "line", t)
  BY DEF SkipLine
<1>3. t \in Tx
  <2>1. tx[w] \in Tx /\ tx[w].k + 1 \in Nat
    BY <1>1, TxTypes
  <2> QED
    BY <2>1 DEF Tx
<1>4. /\ t.order = tx[w].order /\ t.base = tx[w].base /\ t.alloc = tx[w].alloc
      /\ t.avail = tx[w].avail /\ t.resv = tx[w].resv /\ t.drawn = tx[w].drawn
      /\ t.k = tx[w].k + 1
  BY <1>1, TxTypes DEF Tx
<1> HIDE DEF t
<1>5. tx'[w] = t /\ pc'[w] = "line"
  BY <1>1, <1>2 DEF TypeOK, Local, Goto
<1>6. ControlOK(w)'
  <2>1. tx[w].order \in Orders /\ tx[w].k >= 1
    BY <1>1 DEF ControlOK
  <2>2. t.k >= 1
    BY <2>1, <1>1, <1>4, TxTypes
  <2> QED
    BY <1>4, <1>5, <2>1, <2>2 DEF ControlOK, InTx, InLine, InRow
<1>7. ProgressOK(w)' /\ FoundOK(w)' /\ SeenOK(w)'
  BY <1>5 DEF ProgressOK, FoundOK, SeenOK, InLine, InRow
<1>8. \A l \in Lots : Taking(w, l)' = Taking(w, l)
  BY <1>1, <1>5 DEF Taking, InRow
<1> QED
  BY <1>1, <1>2, <1>3, <1>4, <1>6, <1>7, <1>8, ReadStep

\* Whatever quantity of a row a request reads, it falls short by no more than was drawn.
LEMMA AvailableDrawn ==
  ASSUME IInv, NEW w \in Workers, NEW x \in Rows
  PROVE  AvailableIn(w, x) + DrawnIn(w, x) >= Initial[x]
<1>1. TypeOK /\ StockNeverLost /\ DrawnOK(w) /\ WritesOK(tx[w])
  BY DEF IInv, WorkerOK, LocksOK
<1>2. CASE tx[w].avail[x] # None
  BY <1>1, <1>2 DEF DrawnOK, AvailableIn
<1>3. CASE tx[w].avail[x] = None
  <2>1. tx[w].drawn[x] = 0 /\ AvailableIn(w, x) = available[x]
    BY <1>1, <1>3 DEF WritesOK, AvailableIn
  <2>2. DrawnIn(w, x) = drawn[x]
    BY <1>1, <2>1, DrawnType DEF DrawnIn
  <2> QED
    BY <1>1, <2>1, <2>2 DEF StockNeverLost
<1> QED
  BY <1>2, <1>3

LEMMA AvailableType ==
  ASSUME TypeOK, NEW w \in Workers, NEW x \in Rows PROVE AvailableIn(w, x) \in Nat
<1>1. tx[w].avail[x] \in Entry /\ available[x] \in Nat
  BY TxTypes DEF TypeOK
<1> QED
  BY <1>1 DEF AvailableIn, Entry

LEMMA SelectStockStep == ASSUME IInv, NEW w \in Workers, SelectStock(w) PROVE IInv'
<1> DEFINE ln == Line(w)
           found == {Candidates[ln][j] : j \in 1..Len(Candidates[ln])}
           s == [x \in Rows |-> IF x \in found THEN AvailableIn(w, x) ELSE 0]
           n == Requested[ln] - tx[w].base[ln]
           g == tx[w].base[ln]
           t == [tx[w] EXCEPT !.i = 1, !.need = n, !.got = g, !.seen = s]
<1>1. /\ TypeOK /\ ControlOK(w) /\ InTx(w) /\ pc[w] = "line"
      /\ HasLine(w) /\ Requested[ln] > tx[w].base[ln] /\ tx[w].order \in Orders
      /\ tx[w].k >= 1
  BY DEF IInv, WorkerOK, SelectStock, InTx, ControlOK
<1>2. Local(w, "take", t)
  BY DEF SelectStock
<1>3. ln \in Lines
  BY <1>1, LineType
<1>4. g \in Nat /\ n \in Nat /\ g + n = Requested[ln]
  <2>1. g \in Nat /\ Requested[ln] \in Nat
    BY <1>1, <1>3, TxTypes
  <2> QED
    BY <1>1, <2>1
<1>5. s \in [Rows -> Nat]
  BY <1>1, AvailableType
<1>6. t \in Tx
  <2>1. tx[w] \in Tx
    BY <1>1, TxTypes
  <2> HIDE DEF s, n, g
  <2> QED
    BY <1>4, <1>5, <2>1 DEF Tx
<1>7. /\ t.order = tx[w].order /\ t.base = tx[w].base /\ t.alloc = tx[w].alloc
      /\ t.avail = tx[w].avail /\ t.resv = tx[w].resv /\ t.drawn = tx[w].drawn
      /\ t.k = tx[w].k /\ t.i = 1 /\ t.need = n /\ t.got = g /\ t.seen = s
  <2>1. tx[w] \in Tx
    BY <1>1, TxTypes
  <2> HIDE DEF s, n, g
  <2> QED
    BY <2>1 DEF Tx
<1>8. \A j \in 1..Len(Candidates[ln]) :
        s[Candidates[ln][j]] + DrawnIn(w, Candidates[ln][j]) >= Initial[Candidates[ln][j]]
  <2> TAKE j \in 1..Len(Candidates[ln])
  <2>1. Candidates[ln][j] \in Rows /\ Candidates[ln][j] \in found
    BY <1>3
  <2>2. s[Candidates[ln][j]] = AvailableIn(w, Candidates[ln][j])
    BY <2>1
  <2>3. AvailableIn(w, Candidates[ln][j]) + DrawnIn(w, Candidates[ln][j])
          >= Initial[Candidates[ln][j]]
    BY <2>1, AvailableDrawn
  <2> QED
    BY <2>2, <2>3
<1> HIDE DEF t, s, n, g
<1>9. tx'[w] = t /\ pc'[w] = "take" /\ UNCHANGED drawn
  BY <1>1, <1>2 DEF TypeOK, Local, Goto
<1>10. Line(w)' = ln /\ HasLine(w)'
  BY <1>1, <1>7, <1>9 DEF Line, HasLine
<1>11. ControlOK(w)'
  BY <1>1, <1>7, <1>9, <1>10 DEF ControlOK, InTx, InLine, InRow
<1>12. ProgressOK(w)' /\ FoundOK(w)'
  BY <1>4, <1>7, <1>9, <1>10 DEF ProgressOK, FoundOK, InRow
<1>13. \A x : DrawnIn(w, x)' = DrawnIn(w, x)
  BY <1>7, <1>9 DEF DrawnIn
<1>14. SeenOK(w)'
  BY <1>7, <1>8, <1>9, <1>10, <1>13 DEF SeenOK
<1>15. \A l \in Lots : Taking(w, l)' = Taking(w, l)
  BY <1>1, <1>9 DEF Taking, InRow
<1> QED
  BY <1>1, <1>2, <1>6, <1>7, <1>11, <1>12, <1>14, <1>15, ReadStep

LEMMA SkipRowStep == ASSUME IInv, NEW w \in Workers, SkipRow(w) PROVE IInv'
<1> DEFINE t == [tx[w] EXCEPT !.i = @ + 1]
<1>1. /\ TypeOK /\ ControlOK(w) /\ ProgressOK(w) /\ SeenOK(w)
      /\ InTx(w) /\ pc[w] = "take"
  BY DEF IInv, WorkerOK, SkipRow, InTx
<1>2. Local(w, "take", t)
  BY DEF SkipRow
<1>3. tx[w] \in Tx /\ tx[w].i \in Nat /\ tx[w].i + 1 \in Nat
  BY <1>1, TxTypes
<1>4. t \in Tx
  BY <1>3 DEF Tx
<1>5. /\ t.order = tx[w].order /\ t.base = tx[w].base /\ t.alloc = tx[w].alloc
      /\ t.avail = tx[w].avail /\ t.resv = tx[w].resv /\ t.drawn = tx[w].drawn
      /\ t.k = tx[w].k /\ t.i = tx[w].i + 1 /\ t.need = tx[w].need
      /\ t.got = tx[w].got /\ t.seen = tx[w].seen
  BY <1>3 DEF Tx
<1> HIDE DEF t
<1>6. tx'[w] = t /\ pc'[w] = "take" /\ UNCHANGED drawn
  BY <1>1, <1>2 DEF TypeOK, Local, Goto
<1>7. Line(w)' = Line(w) /\ HasLine(w)' = HasLine(w)
  BY <1>5, <1>6 DEF Line, HasLine
<1>8. ControlOK(w)'
  <2>1. t.i >= 1
    BY <1>1, <1>3, <1>5 DEF ControlOK, InLine
  <2> QED
    BY <1>1, <1>5, <1>6, <1>7, <2>1 DEF ControlOK, InTx, InLine, InRow
<1>9. ProgressOK(w)' /\ FoundOK(w)'
  BY <1>1, <1>5, <1>6, <1>7 DEF ProgressOK, FoundOK, InLine, InRow
<1>10. \A x : DrawnIn(w, x)' = DrawnIn(w, x)
  BY <1>5, <1>6 DEF DrawnIn
<1>11. SeenOK(w)'
  BY <1>1, <1>5, <1>6, <1>7, <1>10 DEF SeenOK, InLine
<1>12. \A l \in Lots : Taking(w, l)' = Taking(w, l)
  BY <1>1, <1>6 DEF Taking, InRow
<1> QED
  BY <1>1, <1>2, <1>4, <1>5, <1>8, <1>9, <1>11, <1>12, ReadStep

\* What is known of the current row.
LEMMA CurrentRow ==
  ASSUME IInv, NEW w \in Workers, InLine(w), HasRow(w)
  PROVE  /\ tx[w].order \in Orders
         /\ Line(w) \in Lines /\ Line(w) \in LinesOf(tx[w].order)
         /\ Row(w) \in Rows /\ Lot(w) \in Lots /\ Lot(w) = LotOf[Row(w)]
         /\ Row(w) \in RowsOf(Lot(w))
         /\ tx[w].seen[Row(w)] + DrawnIn(w, Row(w)) >= Initial[Row(w)]
<1>1. TypeOK /\ ControlOK(w) /\ SeenOK(w)
  BY DEF IInv, WorkerOK
<1>2. tx[w].order \in Orders /\ tx[w].k >= 1 /\ HasLine(w) /\ tx[w].i >= 1
  BY <1>1 DEF ControlOK, InTx, InLine
<1>3. Line(w) \in Lines /\ Line(w) \in LinesOf(tx[w].order)
  BY <1>1, <1>2, LineType
<1>4. /\ tx[w].i \in 1..Len(Candidates[Line(w)])
      /\ Row(w) \in Rows /\ Lot(w) \in Lots /\ Row(w) \in RowsOf(Lot(w))
  BY <1>1, <1>2, <1>3, RowType
<1>5. tx[w].seen[Row(w)] + DrawnIn(w, Row(w)) >= Initial[Row(w)]
  BY <1>1, <1>4 DEF SeenOK, Row
<1>6. Lot(w) = LotOf[Row(w)]
  BY DEF Lot
<1> QED
  BY <1>2, <1>3, <1>4, <1>5, <1>6

LEMMA FindReservedStep == ASSUME IInv, NEW w \in Workers, FindReserved(w) PROVE IInv'
<1> DEFINE l == Lot(w)
           rows == {o \in Orders : ReservedIn(w, l, o) # None}
<1>1. /\ TypeOK /\ ControlOK(w) /\ ProgressOK(w) /\ SeenOK(w) /\ ViewOK(w)
      /\ InTx(w) /\ pc[w] = "find" /\ InLine(w) /\ InRow(w) /\ HasRow(w)
  BY DEF IInv, WorkerOK, FindReserved, InTx, ControlOK, InLine, InRow
<1>2. l \in Lots /\ tx[w].order \in Orders
  BY <1>1, CurrentRow
<1>3. PICK r \in Orders, q \in Nat :
        /\ Local(w, "reserve", [tx[w] EXCEPT !.row = r, !.rowQty = q])
        /\ q = 0 \/ ReservedIn(w, l, r) # None
        /\ l \notin crossed => \A o \in Orders : ReservedIn(w, l, o) # None =>
             o = r /\ ReservedIn(w, l, o) = q
  <2>1. CASE rows = {}
    <3>1. /\ Local(w, "reserve", [tx[w] EXCEPT !.row = tx[w].order, !.rowQty = 0])
          /\ \A o \in Orders : ReservedIn(w, l, o) = None
      BY <2>1 DEF FindReserved
    <3> QED
      BY <1>2, <3>1
  <2>2. CASE rows # {}
    <3>1. PICK r \in Orders :
            /\ ReservedIn(w, l, r) # None
            /\ Local(w, "reserve", [tx[w] EXCEPT !.row = r, !.rowQty = ReservedIn(w, l, r)])
      BY <2>2 DEF FindReserved
    <3>2. l \notin crossed => \A o \in Orders : ReservedIn(w, l, o) # None => o = r
      BY <1>1, <1>2, <3>1 DEF ViewOK
    <3>3. ReservedIn(w, l, r) \in Nat
      BY <1>1, <1>2, <3>1, ReservedType DEF Entry
    <3>4. l \notin crossed => \A o \in Orders : ReservedIn(w, l, o) # None =>
            o = r /\ ReservedIn(w, l, o) = ReservedIn(w, l, r)
      BY <3>2
    <3> QED
      BY <3>1, <3>3, <3>4, Zenon
  <2> QED
    BY <2>1, <2>2
<1> DEFINE t == [tx[w] EXCEPT !.row = r, !.rowQty = q]
<1>4. tx[w] \in Tx
  BY <1>1, TxTypes
<1>5. t \in Tx
  BY <1>4 DEF Tx
<1>6. /\ t.order = tx[w].order /\ t.base = tx[w].base /\ t.alloc = tx[w].alloc
      /\ t.avail = tx[w].avail /\ t.resv = tx[w].resv /\ t.drawn = tx[w].drawn
      /\ t.k = tx[w].k /\ t.i = tx[w].i /\ t.need = tx[w].need /\ t.got = tx[w].got
      /\ t.seen = tx[w].seen /\ t.take = tx[w].take /\ t.row = r /\ t.rowQty = q
  BY <1>4 DEF Tx
<1>7. Local(w, "reserve", t)
  BY <1>3
<1> HIDE DEF t
<1>8. /\ tx'[w] = t /\ pc'[w] = "reserve" /\ UNCHANGED <<reserved, drawn>>
      /\ crossed \subseteq crossed'
  BY <1>1, <1>7, GotoFlags DEF TypeOK, Local, Goto, stock
<1>9. /\ Line(w)' = Line(w) /\ HasLine(w)' = HasLine(w)
      /\ Row(w)' = Row(w) /\ Lot(w)' = Lot(w) /\ HasRow(w)' = HasRow(w)
  BY <1>6, <1>8 DEF Line, HasLine, Row, Lot, HasRow
<1>10. ControlOK(w)'
  BY <1>1, <1>6, <1>8, <1>9 DEF ControlOK, InTx, InLine, InRow
<1>11. ProgressOK(w)'
  BY <1>1, <1>6, <1>8, <1>9 DEF ProgressOK, InLine, InRow
<1>12. \A m, o : ReservedIn(w, m, o)' = ReservedIn(w, m, o)
  BY <1>6, <1>8 DEF ReservedIn
<1>13. FoundOK(w)'
  BY <1>3, <1>6, <1>8, <1>9, <1>12 DEF FoundOK
<1>14. \A x : DrawnIn(w, x)' = DrawnIn(w, x)
  BY <1>6, <1>8 DEF DrawnIn
<1>15. SeenOK(w)'
  <2>1. tx'[w].seen = tx[w].seen
    BY <1>6, <1>8
  <2> QED
    BY <1>1, <1>9, <1>14, <2>1 DEF SeenOK
<1>16. \A m \in Lots : Taking(w, m)' = Taking(w, m)
  BY <1>1, <1>6, <1>8, <1>9 DEF Taking, InRow
<1> QED
  BY <1>1, <1>5, <1>6, <1>7, <1>10, <1>11, <1>13, <1>15, <1>16, ReadStep

(***************************************************************************)
(* The three statements that write rows.                                   *)
(***************************************************************************)
LEMMA TakeRowStep == ASSUME IInv, NEW w \in Workers, TakeRow(w) PROVE IInv'
<1>1. /\ TypeOK /\ LocksOK /\ ControlOK(w) /\ BoundsOK(w) /\ ProgressOK(w) /\ SeenOK(w)
      /\ DrawnOK(w) /\ ViewOK(w) /\ TotalOK(w)
      /\ InTx(w) /\ pc[w] = "take" /\ InLine(w) /\ HasRow(w)
  BY DEF IInv, WorkerOK, TakeRow, Draw, InTx, InLine
<1>2. PICK x \in Rows, l \in Lots : x = Row(w) /\ l = Lot(w)
  BY <1>1, CurrentRow
<1> DEFINE amount == Smaller(tx[w].seen[x], tx[w].need)
           left == tx[w].seen[x] - amount
           t == [tx[w] EXCEPT !.avail[x] = left, !.take = amount, !.drawn[x] = @ + amount]
<1>2a. Local(w, "find", t) /\ AvailHolders(w, x) = {}
  BY <1>2 DEF TakeRow, Draw
<1>3. /\ l = LotOf[x] /\ x \in RowsOf(l)
      /\ tx[w].seen[x] + DrawnIn(w, x) >= Initial[x]
  BY <1>1, <1>2, CurrentRow
<1>4. /\ amount \in Nat /\ left \in Nat /\ left # None
      /\ amount <= tx[w].need /\ left + amount = tx[w].seen[x]
  <2>1. tx[w].seen[x] \in Nat /\ tx[w].need \in Nat
    BY <1>1, <1>2, TxTypes
  <2>2. PICK a, b \in Nat : a = tx[w].seen[x] /\ b = tx[w].need
    BY <2>1
  <2>3. /\ Smaller(a, b) \in Nat /\ a - Smaller(a, b) \in Nat /\ a - Smaller(a, b) # None
        /\ Smaller(a, b) <= b /\ (a - Smaller(a, b)) + Smaller(a, b) = a
    BY DEF Smaller, None
  <2> QED
    BY <2>2, <2>3
<1> HIDE DEF amount, left
<1>5. /\ tx[w] \in Tx /\ tx[w].avail \in [Rows -> Entry] /\ tx[w].drawn \in [Rows -> Nat]
  BY <1>1, TxTypes
<1> DEFINE a == [tx[w].avail EXCEPT ![x] = left]
           d == [tx[w].drawn EXCEPT ![x] = @ + amount]
<1>6. a \in [Rows -> Entry] /\ a[x] = left /\ \A y \in Rows \ {x} : a[y] = tx[w].avail[y]
  BY <1>3, <1>4, <1>5 DEF Entry
<1>7. /\ d \in [Rows -> Nat] /\ d[x] = tx[w].drawn[x] + amount
      /\ \A y \in Rows \ {x} : d[y] = tx[w].drawn[y]
  BY <1>3, <1>4, <1>5
<1>8. t = [tx[w] EXCEPT !.avail = a, !.take = amount, !.drawn = d]
  BY <1>5 DEF Tx
<1> HIDE DEF a, d, t
<1>9. t \in Tx
  BY <1>4, <1>5, <1>6, <1>7, <1>8 DEF Tx
<1>10. /\ t.order = tx[w].order /\ t.base = tx[w].base /\ t.alloc = tx[w].alloc
       /\ t.avail = a /\ t.resv = tx[w].resv /\ t.drawn = d /\ t.k = tx[w].k
       /\ t.i = tx[w].i /\ t.need = tx[w].need /\ t.got = tx[w].got
       /\ t.seen = tx[w].seen /\ t.take = amount
  BY <1>5, <1>8 DEF Tx
<1>11. /\ tx'[w] = t /\ pc'[w] = "find" /\ UNCHANGED <<reserved, drawn>>
       /\ crossed \subseteq crossed'
  BY <1>1, <1>2a, GotoFlags DEF TypeOK, Local, Goto, stock
<1>12. /\ Line(w)' = Line(w) /\ HasLine(w)' = HasLine(w)
       /\ Row(w)' = x /\ Lot(w)' = l /\ HasRow(w)' = HasRow(w)
  BY <1>2, <1>10, <1>11 DEF Line, HasLine, Row, Lot, HasRow
<1>13. ControlOK(w)'
  BY <1>1, <1>4, <1>6, <1>10, <1>11, <1>12 DEF ControlOK, InTx, InLine, InRow
<1>14. BoundsOK(w)'
  BY <1>1, <1>10, <1>11 DEF BoundsOK
<1>15. ProgressOK(w)'
  BY <1>1, <1>4, <1>6, <1>10, <1>11, <1>12 DEF ProgressOK, InLine, InRow
<1>16. tx'[w].resv = tx[w].resv /\ tx'[w].drawn = d /\ tx'[w].avail = a /\ tx'[w].seen = tx[w].seen
  BY <1>10, <1>11
<1>17. /\ \A m, o : ReservedIn(w, m, o)' = ReservedIn(w, m, o)
       /\ \A m : ReservedSeen(w, m)' = ReservedSeen(w, m)
  BY <1>11, <1>16, SameView
<1>18. ViewOK(w)' /\ FoundOK(w)'
  BY <1>1, <1>11, <1>17 DEF ViewOK, FoundOK
\* What was drawn from the row grows by the amount.
<1>19. /\ DrawnIn(w, x)' = DrawnIn(w, x) + amount
       /\ \A y \in Rows \ {x} : DrawnIn(w, y)' = DrawnIn(w, y)
  <2>1. DrawnIn(w, x)' = drawn[x] + (tx[w].drawn[x] + amount)
    BY <1>7, <1>11, <1>16 DEF DrawnIn
  <2>2. drawn[x] \in Nat /\ tx[w].drawn[x] \in Nat
    BY <1>1, <1>3, DrawnType
  <2>3. DrawnIn(w, x)' = DrawnIn(w, x) + amount
    BY <1>4, <2>1, <2>2 DEF DrawnIn
  <2>4. \A y \in Rows \ {x} : DrawnIn(w, y)' = DrawnIn(w, y)
    BY <1>7, <1>11, <1>16 DEF DrawnIn
  <2> QED
    BY <2>3, <2>4
<1>20. \A y \in Rows : \A q \in Nat : q + DrawnIn(w, y) >= Initial[y] => q + DrawnIn(w, y)' >= Initial[y]
  <2> TAKE y \in Rows
  <2>1. DrawnIn(w, y) \in Nat /\ Initial[y] \in Nat
    BY <1>1, DrawnType
  <2>2. CASE y = x
    <3>1. DrawnIn(w, y)' = DrawnIn(w, y) + amount
      BY <1>19, <2>2
    <3> QED
      BY <1>4, <2>1, <3>1
  <2>3. CASE y # x
    BY <1>19, <2>3
  <2> QED
    BY <2>2, <2>3
<1>21. SeenOK(w)'
  <2>1. Line(w) \in Lines
    BY <1>1, CurrentRow
  <2>2. \A j \in 1..Len(Candidates[Line(w)]) :
          /\ Candidates[Line(w)][j] \in Rows
          /\ tx[w].seen[Candidates[Line(w)][j]] \in Nat
    BY <1>1, <2>1, TxTypes
  <2>3. \A j \in 1..Len(Candidates[Line(w)]) :
          tx[w].seen[Candidates[Line(w)][j]] + DrawnIn(w, Candidates[Line(w)][j])
            >= Initial[Candidates[Line(w)][j]]
    BY <1>1 DEF SeenOK
  <2> QED
    BY <1>12, <1>16, <1>20, <2>2, <2>3 DEF SeenOK
<1>22. DrawnOK(w)'
  <2> SUFFICES ASSUME NEW y \in Rows, a[y] # None
               PROVE  a[y] + DrawnIn(w, y)' >= Initial[y]
    BY <1>16 DEF DrawnOK
  <2>1. CASE y = x
    <3>1. DrawnIn(w, y)' = DrawnIn(w, x) + amount /\ a[y] = left
      BY <1>6, <1>19, <2>1
    <3>2. DrawnIn(w, x) \in Nat
      BY <1>1, <1>3, DrawnType
    <3>3. left + (DrawnIn(w, x) + amount) = tx[w].seen[x] + DrawnIn(w, x)
      <4>1. left + (DrawnIn(w, x) + amount) = (left + amount) + DrawnIn(w, x)
        BY <1>4, <3>2
      <4> QED
        BY <1>4, <4>1
    <3> QED
      BY <1>3, <2>1, <3>1, <3>3
  <2>2. CASE y # x
    <3>1. a[y] = tx[w].avail[y] /\ tx[w].avail[y] \in Nat
      BY <1>5, <1>6, <2>2 DEF Entry
    <3>2. tx[w].avail[y] + DrawnIn(w, y) >= Initial[y]
      BY <1>1, <3>1 DEF DrawnOK
    <3> QED
      BY <1>20, <3>1, <3>2
  <2> QED
    BY <2>1, <2>2
<1>23. TotalOK(w)'
  <2>1. /\ LotDrawn(w, l)' = LotDrawn(w, l) + amount
        /\ \A m \in Lots \ {l} : LotDrawn(w, m)' = LotDrawn(w, m)
    BY <1>1, <1>3, <1>4, <1>19, LotDrawnMore
  <2> SUFFICES ASSUME NEW m \in Lots, m \notin crossed'
               PROVE  ReservedSeen(w, m)' + Taking(w, m)' = LotDrawn(w, m)'
    BY DEF TotalOK
  <2>2. ReservedSeen(w, m) + 0 = LotDrawn(w, m) /\ ReservedSeen(w, m) \in Nat
    <3>1. m \notin crossed /\ Taking(w, m) = 0
      BY <1>1, <1>11 DEF Taking, InRow
    <3>2. ReservedSeen(w, m) + Taking(w, m) = LotDrawn(w, m)
      BY <1>1, <3>1 DEF TotalOK
    <3> QED
      BY <1>1, <3>1, <3>2, SeenType
  <2>3. ReservedSeen(w, m)' = ReservedSeen(w, m)
    BY <1>17
  <2>4. CASE m = l
    <3>1. Taking(w, m)' = amount
      BY <1>10, <1>11, <1>12, <2>4 DEF Taking, InRow
    <3>2. LotDrawn(w, m)' = LotDrawn(w, m) + amount
      BY <2>1, <2>4
    <3> QED
      BY <1>4, <2>2, <2>3, <3>1, <3>2
  <2>5. CASE m # l
    <3>1. Taking(w, m)' = 0
      BY <1>12, <2>5 DEF Taking
    <3>2. LotDrawn(w, m)' = LotDrawn(w, m)
      BY <2>1, <2>5
    <3> QED
      BY <2>2, <2>3, <3>1, <3>2
  <2> QED
    BY <2>4, <2>5
<1>24. WorkerOK(w)'
  BY <1>13, <1>14, <1>15, <1>18, <1>21, <1>22, <1>23 DEF WorkerOK
<1>25. WritesOK(t)
  <2>1. WritesOK(tx[w])
    BY <1>1 DEF LocksOK
  <2>2. \A y \in Rows : tx[w].avail[y] # None => a[y] # None
    BY <1>4, <1>6
  <2>3. \A m \in Lots : HoldsLot(tx[w], m) => HoldsLot(t, m)
    BY <1>10, <2>2, RowsFinite DEF HoldsLot
  <2>4. \A m \in Lots : \A o \in Orders : t.resv[m][o] # None => HoldsLot(t, m)
    BY <1>10, <2>1, <2>3 DEF WritesOK
  <2>5. \A y \in Rows : d[y] # 0 => a[y] # None
    BY <1>4, <1>6, <1>7, <2>1, <2>2 DEF WritesOK
  <2> QED
    BY <1>10, <2>4, <2>5 DEF WritesOK
<1>26. \A v \in Workers \ {w} : \A y \in Rows : t.avail[y] = None \/ tx[v].avail[y] = None
  <2> TAKE v \in Workers \ {w}
  <2> TAKE y \in Rows
  <2>1. CASE y = x
    BY <1>2a, <1>10, <2>1 DEF AvailHolders
  <2>2. CASE y # x
    <3>1. tx[w].avail[y] = None \/ tx[v].avail[y] = None
      BY <1>1 DEF LocksOK
    <3> QED
      BY <1>6, <1>10, <2>2, <3>1
  <2> QED
    BY <2>1, <2>2
<1>27. \A v \in Workers \ {w} : InTx(v) /\ InTx(w)' => tx[v].order # t.order
  BY <1>1, <1>10 DEF LocksOK
<1>28. "find" \in Control
  BY DEF Control
<1> QED
  BY <1>2a, <1>9, <1>24, <1>25, <1>26, <1>27, <1>28, LocalStep

LEMMA WriteLineStep == ASSUME IInv, NEW w \in Workers, WriteLine(w) PROVE IInv'
<1> DEFINE ln == Line(w)
           z == [x \in Rows |-> 0]
           t == [tx[w] EXCEPT !.alloc[ln] = tx[w].got, !.k = @ + 1, !.i = 0,
                              !.need = 0, !.got = 0, !.seen = z]
<1>1. /\ TypeOK /\ LocksOK /\ ControlOK(w) /\ BoundsOK(w) /\ ProgressOK(w)
      /\ DrawnOK(w) /\ ViewOK(w) /\ TotalOK(w) /\ InTx(w) /\ pc[w] = "take" /\ InLine(w)
  BY DEF IInv, WorkerOK, WriteLine, StoreLine, InTx, InLine
<1>2. Local(w, "line", t)
  BY DEF WriteLine, StoreLine
<1>3. /\ tx[w].order \in Orders /\ tx[w].k >= 1
      /\ ln \in Lines /\ ln \in LinesOf(tx[w].order)
  BY <1>1, LineType DEF ControlOK
<1>4. /\ tx[w] \in Tx /\ tx[w].alloc \in [Lines -> Entry] /\ z \in [Rows -> Nat]
      /\ tx[w].k \in Nat /\ tx[w].k + 1 \in Nat /\ tx[w].got \in Nat
  BY <1>1, TxTypes
<1>5. tx[w].got <= Requested[ln]
  <2>1. tx[w].need \in Nat /\ tx[w].got + tx[w].need = Requested[ln]
    BY <1>1, TxTypes DEF ProgressOK
  <2> QED
    BY <1>4, <2>1
<1> DEFINE a == [tx[w].alloc EXCEPT ![ln] = tx[w].got]
<1>6. a \in [Lines -> Entry] /\ a[ln] = tx[w].got /\ \A m \in Lines \ {ln} : a[m] = tx[w].alloc[m]
  BY <1>3, <1>4 DEF Entry
<1>7. t = [tx[w] EXCEPT !.alloc = a, !.k = @ + 1, !.i = 0, !.need = 0, !.got = 0, !.seen = z]
  BY <1>4 DEF Tx
<1> HIDE DEF a, z, t
<1>8. t \in Tx
  BY <1>4, <1>6, <1>7 DEF Tx
<1>9. /\ t.order = tx[w].order /\ t.base = tx[w].base /\ t.alloc = a
      /\ t.avail = tx[w].avail /\ t.resv = tx[w].resv /\ t.drawn = tx[w].drawn
      /\ t.k = tx[w].k + 1
  BY <1>4, <1>7 DEF Tx
<1>10. /\ tx'[w] = t /\ pc'[w] = "line" /\ UNCHANGED <<reserved, drawn>>
       /\ crossed \subseteq crossed'
  BY <1>1, <1>2, GotoFlags DEF TypeOK, Local, Goto, stock
<1>11. ControlOK(w)'
  <2>1. t.k >= 1
    BY <1>3, <1>4, <1>9
  <2> QED
    BY <1>3, <1>9, <1>10, <2>1 DEF ControlOK, InTx, InLine, InRow
<1>12. BoundsOK(w)'
  BY <1>1, <1>3, <1>5, <1>6, <1>9, <1>10 DEF BoundsOK
<1>13. ProgressOK(w)' /\ FoundOK(w)' /\ SeenOK(w)'
  BY <1>10 DEF ProgressOK, FoundOK, SeenOK, InLine, InRow
<1>14. tx'[w].resv = tx[w].resv /\ tx'[w].drawn = tx[w].drawn /\ tx'[w].avail = tx[w].avail
  BY <1>9, <1>10
<1>15. /\ \A m, o : ReservedIn(w, m, o)' = ReservedIn(w, m, o)
       /\ \A m : ReservedSeen(w, m)' = ReservedSeen(w, m)
  BY <1>10, <1>14, SameView
<1>16. /\ \A y : DrawnIn(w, y)' = DrawnIn(w, y)
       /\ \A m : LotDrawn(w, m)' = LotDrawn(w, m)
  BY <1>10, <1>14, SameDrawn
<1>17. ViewOK(w)' /\ DrawnOK(w)'
  <2>1. ViewOK(w)'
    BY <1>1, <1>10, <1>15 DEF ViewOK
  <2>2. DrawnOK(w)'
    BY <1>1, <1>14, <1>16 DEF DrawnOK
  <2> QED
    BY <2>1, <2>2
<1>18. TotalOK(w)'
  <2>1. \A m : Taking(w, m)' = Taking(w, m)
    BY <1>1, <1>10 DEF Taking, InRow
  <2> QED
    BY <1>1, <1>10, <1>15, <1>16, <2>1 DEF TotalOK
<1>19. WorkerOK(w)'
  BY <1>11, <1>12, <1>13, <1>17, <1>18 DEF WorkerOK
<1>20. WritesOK(t)
  <2>1. WritesOK(tx[w])
    BY <1>1 DEF LocksOK
  <2> QED
    BY <1>9, <2>1 DEF WritesOK, HoldsLot
<1>21. \A v \in Workers \ {w} : \A x \in Rows : t.avail[x] = None \/ tx[v].avail[x] = None
  BY <1>1, <1>9 DEF LocksOK
<1>22. \A v \in Workers \ {w} : InTx(v) /\ InTx(w)' => tx[v].order # t.order
  BY <1>1, <1>9 DEF LocksOK
<1>23. "line" \in Control
  BY DEF Control
<1> QED
  BY <1>2, <1>8, <1>19, <1>20, <1>21, <1>22, <1>23, LocalStep

LEMMA ReserveStep == ASSUME IInv, NEW w \in Workers, Reserve(w) PROVE IInv'
<1>1. /\ TypeOK /\ LocksOK /\ ControlOK(w) /\ BoundsOK(w) /\ ProgressOK(w) /\ SeenOK(w)
      /\ DrawnOK(w) /\ ViewOK(w) /\ FoundOK(w) /\ TotalOK(w) /\ InTx(w) /\ pc[w] = "reserve"
      /\ InLine(w) /\ InRow(w) /\ HasRow(w) /\ tx[w].row \in Orders
      /\ tx[w].avail[Row(w)] # None
  BY DEF IInv, WorkerOK, Reserve, StoreReserved, InTx, InLine, InRow, ControlOK
<1>2. /\ Lot(w) \in Lots /\ Line(w) \in Lines /\ Row(w) \in RowsOf(Lot(w))
      /\ tx[w].take \in Nat /\ tx[w].rowQty \in Nat
  BY <1>1, CurrentRow, TxTypes
<1>3. PICK l \in Lots, r \in Orders, amount \in Nat, found \in Nat, quantity \in Nat :
        /\ l = Lot(w) /\ r = tx[w].row /\ amount = tx[w].take /\ found = tx[w].rowQty
        /\ quantity = found + amount
  <2>1. tx[w].rowQty + tx[w].take \in Nat
    BY <1>2
  <2> QED
    BY <1>1, <1>2, <2>1
<1> DEFINE g == tx[w].got + amount
           n == tx[w].need - amount
           t == [tx[w] EXCEPT !.resv[l][r] = quantity, !.got = g, !.need = n,
                              !.i = @ + 1, !.take = 0, !.row = NoOrder, !.rowQty = 0]
<1>3a. quantity = found + amount
  BY <1>3
<1>3b. Local(w, "take", t)
  BY <1>3 DEF Reserve, StoreReserved
<1>4. /\ tx[w] \in Tx /\ tx[w].resv \in [Lots -> [Orders -> Entry]]
      /\ tx[w].i \in Nat /\ tx[w].got \in Nat /\ tx[w].need \in Nat
  BY <1>1, TxTypes
<1>5. amount <= tx[w].need /\ tx[w].got + tx[w].need = Requested[Line(w)]
  BY <1>1, <1>3 DEF ProgressOK
<1>6. /\ g \in Nat /\ n \in Nat /\ g + n = Requested[Line(w)]
      /\ tx[w].i + 1 \in Nat /\ tx[w].i + 1 >= 1 /\ quantity # None
  <2>1. tx[w].i + 1 \in Nat /\ tx[w].i + 1 >= 1 /\ quantity # None
    BY <1>4 DEF None
  <2>2. PICK x, y \in Nat : x = tx[w].got /\ y = tx[w].need /\ amount <= y
    BY <1>4, <1>5
  <2>3. x + amount \in Nat /\ y - amount \in Nat /\ (x + amount) + (y - amount) = x + y
    <3>1. y - amount \in Nat
      BY <2>2
    <3>2. x + amount \in Nat /\ (x + amount) + (y - amount) = x + y
      OBVIOUS
    <3> QED
      BY <3>1, <3>2
  <2>4. g \in Nat /\ n \in Nat /\ g + n = tx[w].got + tx[w].need
    BY <2>2, <2>3
  <2> QED
    BY <1>5, <2>1, <2>4
<1> DEFINE e == [tx[w].resv EXCEPT ![l] = [@ EXCEPT ![r] = quantity]]
<1>7. /\ e \in [Lots -> [Orders -> Entry]]
      /\ e[l][r] = quantity
      /\ \A o \in Orders \ {r} : e[l][o] = tx[w].resv[l][o]
      /\ \A m \in Lots \ {l} : e[m] = tx[w].resv[m]
  BY <1>4 DEF Entry
<1>8. t = [tx[w] EXCEPT !.resv = e, !.got = g, !.need = n, !.i = @ + 1,
                        !.take = 0, !.row = NoOrder, !.rowQty = 0]
  BY <1>4 DEF Tx
<1>8a. e = [tx[w].resv EXCEPT ![l][r] = found + amount]
  BY <1>3a, <1>4
<1> HIDE DEF e, g, n, t
<1>9. t \in Tx
  BY <1>4, <1>6, <1>7, <1>8 DEF Tx
<1>10. /\ t.order = tx[w].order /\ t.base = tx[w].base /\ t.alloc = tx[w].alloc
       /\ t.avail = tx[w].avail /\ t.resv = e /\ t.drawn = tx[w].drawn /\ t.k = tx[w].k
       /\ t.i = tx[w].i + 1 /\ t.need = n /\ t.got = g /\ t.seen = tx[w].seen
  BY <1>4, <1>8 DEF Tx
<1>11. /\ tx'[w] = t /\ pc'[w] = "take" /\ UNCHANGED <<reserved, drawn>>
       /\ crossed \subseteq crossed'
  BY <1>1, <1>3b, GotoFlags DEF TypeOK, Local, Goto, stock
<1>12. Line(w)' = Line(w) /\ HasLine(w)' = HasLine(w)
  BY <1>10, <1>11 DEF Line, HasLine
<1>13. ControlOK(w)'
  BY <1>1, <1>6, <1>10, <1>11, <1>12 DEF ControlOK, InTx, InLine, InRow
<1>14. BoundsOK(w)'
  BY <1>1, <1>10, <1>11 DEF BoundsOK
<1>15. ProgressOK(w)' /\ FoundOK(w)'
  BY <1>6, <1>10, <1>11, <1>12 DEF ProgressOK, FoundOK, InRow
<1>16. /\ tx'[w].resv = e /\ tx'[w].drawn = tx[w].drawn /\ tx'[w].avail = tx[w].avail
       /\ tx'[w].seen = tx[w].seen
  BY <1>10, <1>11
<1>17. /\ \A y : DrawnIn(w, y)' = DrawnIn(w, y)
       /\ \A m : LotDrawn(w, m)' = LotDrawn(w, m)
  BY <1>11, <1>16, SameDrawn
<1>18. SeenOK(w)' /\ DrawnOK(w)'
  <2>1. SeenOK(w)'
    BY <1>1, <1>12, <1>16, <1>17 DEF SeenOK
  <2>2. DrawnOK(w)'
    BY <1>1, <1>16, <1>17 DEF DrawnOK
  <2> QED
    BY <2>1, <2>2
\* What the request sees now: the row it wrote, and no other of the lot.
<1>19. l \notin crossed => \A o \in Orders \ {r} : ReservedIn(w, l, o)' = None
  <2> HAVE l \notin crossed
  <2> TAKE o \in Orders \ {r}
  <2>1. ReservedIn(w, l, o) = None
    BY <1>1, <1>3 DEF FoundOK
  <2> QED
    BY <1>7, <1>11, <1>16, <2>1 DEF ReservedIn
<1>20. \A m \in Lots \ {l} : \A o \in Orders : ReservedIn(w, m, o)' = ReservedIn(w, m, o)
  BY <1>7, <1>11, <1>16 DEF ReservedIn
<1>21. ViewOK(w)'
  <2> SUFFICES ASSUME NEW m \in Lots, m \notin crossed', NEW o \in Orders, NEW p \in Orders,
                      ReservedIn(w, m, o)' # None, ReservedIn(w, m, p)' # None
               PROVE  o = p
    BY DEF ViewOK
  <2>1. m \notin crossed
    BY <1>11
  <2>2. CASE m = l
    BY <1>19, <2>1, <2>2
  <2>3. CASE m # l
    BY <1>1, <1>20, <2>1, <2>3 DEF ViewOK
  <2> QED
    BY <2>2, <2>3
<1>22. TotalOK(w)'
  <2> SUFFICES ASSUME NEW m \in Lots, m \notin crossed'
               PROVE  ReservedSeen(w, m)' + Taking(w, m)' = LotDrawn(w, m)'
    BY DEF TotalOK
  <2>1. m \notin crossed /\ Taking(w, m)' = 0 /\ LotDrawn(w, m)' = LotDrawn(w, m)
    BY <1>11, <1>17 DEF Taking, InRow
  <2>2. ReservedSeen(w, m) + Taking(w, m) = LotDrawn(w, m) /\ ReservedSeen(w, m) \in Nat
    BY <1>1, <2>1, SeenType DEF TotalOK
  <2>3. CASE m = l
    <3>1. Taking(w, m) = amount
      BY <1>1, <1>3, <2>3 DEF Taking
    <3>2. /\ ReservedIn(w, l, r) = None => found = 0
          /\ ReservedIn(w, l, r) # None => ReservedIn(w, l, r) = found
      BY <1>1, <1>3, <2>1, <2>3 DEF FoundOK
    <3>3. RowWritten(w, l, r, found, amount)
      BY <1>1, <1>8a, <1>11, <1>16, <3>2 DEF RowWritten
    <3>4. ReservedSeen(w, m)' = ReservedSeen(w, m) + amount
      BY <2>3, <3>3, TotalGrows
    <3> QED
      BY <2>1, <2>2, <3>1, <3>4
  <2>4. CASE m # l
    <3>1. Taking(w, m) = 0
      BY <1>3, <2>4 DEF Taking
    <3>2. ReservedSeen(w, m)' = ReservedSeen(w, m)
      BY <1>20, <2>4, SeenStays
    <3> QED
      BY <2>1, <2>2, <3>1, <3>2
  <2> QED
    BY <2>3, <2>4
<1>23. WorkerOK(w)'
  BY <1>13, <1>14, <1>15, <1>18, <1>21, <1>22 DEF WorkerOK
<1>24. WritesOK(t)
  <2>1. WritesOK(tx[w])
    BY <1>1 DEF LocksOK
  <2>2. HoldsLot(t, l)
    BY <1>1, <1>2, <1>3, <1>10 DEF HoldsLot
  <2>3. \A m \in Lots : HoldsLot(tx[w], m) => HoldsLot(t, m)
    BY <1>10 DEF HoldsLot
  <2>4. \A m \in Lots : \A o \in Orders : t.resv[m][o] # None => HoldsLot(t, m)
    <3> TAKE m \in Lots
    <3>1. CASE m = l
      BY <2>2, <3>1
    <3>2. CASE m # l
      <4>1. t.resv[m] = tx[w].resv[m]
        BY <1>7, <1>10, <3>2
      <4> QED
        BY <2>1, <2>3, <4>1 DEF WritesOK
    <3> QED
      BY <3>1, <3>2
  <2> QED
    BY <1>10, <2>1, <2>4 DEF WritesOK
<1>25. \A v \in Workers \ {w} : \A y \in Rows : t.avail[y] = None \/ tx[v].avail[y] = None
  BY <1>1, <1>10 DEF LocksOK
<1>26. \A v \in Workers \ {w} : InTx(v) /\ InTx(w)' => tx[v].order # t.order
  BY <1>1, <1>10 DEF LocksOK
<1>27. "take" \in Control
  BY DEF Control
<1> QED
  BY <1>3b, <1>9, <1>23, <1>24, <1>25, <1>26, <1>27, LocalStep

(***************************************************************************)
(* COMMIT: the only step that changes rows the others see.                 *)
(***************************************************************************)

\* What is committed is what the request saw.
LEMMA PublishedTotal ==
  ASSUME NEW w \in Workers, Commit(w), NEW l \in Lots
  PROVE  ReservedTotal(l)' = ReservedSeen(w, l)
<1>1. reserved' = [m \in Lots |-> [o \in Orders |-> ReservedIn(w, m, o)]]
  BY DEF Commit, Publish
<1>2. PICK f, g :
        /\ f = [o \in Orders |-> IF reserved'[l][o] = None THEN 0 ELSE reserved'[l][o]]
        /\ g = [o \in Orders |-> IF ReservedIn(w, l, o) = None THEN 0 ELSE ReservedIn(w, l, o)]
  OBVIOUS
<1>3. f = g
  BY <1>1, <1>2
<1> QED
  BY <1>2, <1>3 DEF ReservedTotal, ReservedSeen

LEMMA PublishedDrawn ==
  ASSUME NEW w \in Workers, Commit(w)
  PROVE  /\ \A x \in Rows : drawn'[x] = DrawnIn(w, x)
         /\ \A l \in Lots : SumFunctionOnSet(drawn, RowsOf(l))' = LotDrawn(w, l)
<1>1. \A x \in Rows : drawn'[x] = DrawnIn(w, x)
  BY DEF Commit, Publish, DrawnIn
<1>2. ASSUME NEW l \in Lots PROVE SumFunctionOnSet(drawn, RowsOf(l))' = LotDrawn(w, l)
  <2>1. drawn' = [x \in Rows |-> DrawnIn(w, x)]
    BY DEF Commit, Publish, DrawnIn
  <2> QED
    BY <2>1 DEF LotDrawn, RowsOf
<1> QED
  BY <1>1, <1>2

\* A request keeps its part of the invariant when another commits: in a lot of which it
\* holds rows nothing moves, and in the others it sees what is committed.
LEMMA CommitOthers ==
  ASSUME IInv, NEW w \in Workers, Commit(w), NEW v \in Workers \ {w}
  PROVE  WorkerOK(v)'
<1>1. /\ TypeOK /\ LocksOK /\ ViewOK(w) /\ TotalOK(w) /\ ~InRow(w)
      /\ ControlOK(v) /\ BoundsOK(v) /\ ProgressOK(v) /\ ViewOK(v)
      /\ FoundOK(v) /\ SeenOK(v) /\ DrawnOK(v) /\ TotalOK(v)
      /\ WritesOK(tx[v]) /\ WritesOK(tx[w])
  BY DEF IInv, WorkerOK, LocksOK, Commit, InRow
<1>2. /\ tx'[v] = tx[v] /\ pc'[v] = pc[v]
      /\ reserved' = [l \in Lots |-> [o \in Orders |-> ReservedIn(w, l, o)]]
      /\ drawn' = [x \in Rows |-> drawn[x] + tx[w].drawn[x]]
      /\ crossed \subseteq crossed'
  BY <1>1, GotoFlags DEF TypeOK, Commit, Publish, Goto
<1>3. /\ Line(v)' = Line(v) /\ Row(v)' = Row(v) /\ Lot(v)' = Lot(v) /\ InLine(v)' = InLine(v)
      /\ InRow(v)' = InRow(v) /\ HasLine(v)' = HasLine(v) /\ HasRow(v)' = HasRow(v)
      /\ InTx(v)' = InTx(v)
  BY <1>2 DEF InTx, InLine, InRow, HasLine, HasRow, Row, Lot, Line
<1>4. \A x \in Rows : /\ DrawnIn(v, x) \in Nat /\ DrawnIn(v, x)' \in Nat /\ Initial[x] \in Nat
                      /\ DrawnIn(v, x)' >= DrawnIn(v, x)
  <2> TAKE x \in Rows
  <2>1. /\ drawn[x] \in Nat /\ tx[w].drawn[x] \in Nat /\ tx[v].drawn[x] \in Nat /\ Initial[x] \in Nat
    BY <1>1, DrawnType
  <2>2. /\ DrawnIn(v, x) = drawn[x] + tx[v].drawn[x]
        /\ DrawnIn(v, x)' = (drawn[x] + tx[w].drawn[x]) + tx[v].drawn[x]
    BY <1>2 DEF DrawnIn
  <2> QED
    BY <2>1, <2>2
\* Where v holds rows, it sees what it saw.
<1>5. ASSUME NEW l \in Lots, l \notin crossed, HoldsLot(tx[v], l)
      PROVE  /\ \A o \in Orders : ReservedIn(v, l, o)' = ReservedIn(v, l, o)
             /\ \A x \in RowsOf(l) : DrawnIn(v, x)' = DrawnIn(v, x)
  <2>1. /\ \A o \in Orders : tx[w].resv[l][o] = None
        /\ \A x \in RowsOf(l) : x \in Rows /\ tx[w].drawn[x] = 0
    BY <1>1, <1>5, Alone, RowsFinite
  <2>2. \A o \in Orders : reserved'[l][o] = reserved[l][o]
    BY <1>2, <2>1 DEF ReservedIn
  <2>3. \A x \in RowsOf(l) : drawn'[x] = drawn[x]
    BY <1>1, <1>2, <2>1, DrawnType
  <2> QED
    BY <1>2, <2>2, <2>3 DEF ReservedIn, DrawnIn
\* Elsewhere it has written nothing, and sees what w has committed.
<1>6. ASSUME NEW l \in Lots, ~HoldsLot(tx[v], l)
      PROVE  /\ \A o \in Orders : tx'[v].resv[l][o] = None /\ ReservedIn(v, l, o)' = ReservedIn(w, l, o)
             /\ \A x \in RowsOf(l) : tx'[v].drawn[x] = 0 /\ drawn'[x] \in Nat
  <2>1. \A o \in Orders : tx[v].resv[l][o] = None
    BY <1>1, <1>6 DEF WritesOK
  <2>2. \A x \in RowsOf(l) : x \in Rows /\ tx[v].drawn[x] = 0
    BY <1>1, <1>6, RowsFinite DEF WritesOK, HoldsLot
  <2>3. \A x \in Rows : drawn'[x] \in Nat
    BY <1>1, <1>2, DrawnType
  <2> QED
    BY <1>2, <2>1, <2>2, <2>3 DEF ReservedIn
<1>7. ControlOK(v)'
  BY <1>1, <1>2, <1>3 DEF ControlOK
<1>8. BoundsOK(v)' /\ ProgressOK(v)'
  BY <1>1, <1>2, <1>3 DEF BoundsOK, ProgressOK
<1>9. ViewOK(v)'
  <2> SUFFICES ASSUME NEW l \in Lots, l \notin crossed', NEW o \in Orders, NEW p \in Orders,
                      ReservedIn(v, l, o)' # None, ReservedIn(v, l, p)' # None
               PROVE  o = p
    BY DEF ViewOK
  <2>1. l \notin crossed
    BY <1>2
  <2>2. CASE HoldsLot(tx[v], l)
    BY <1>1, <1>5, <2>1, <2>2 DEF ViewOK
  <2>3. CASE ~HoldsLot(tx[v], l)
    BY <1>1, <1>6, <2>1, <2>3 DEF ViewOK
  <2> QED
    BY <2>2, <2>3
<1>10. FoundOK(v)'
  <2> SUFFICES ASSUME pc[v] = "reserve", Lot(v) \notin crossed
               PROVE  FoundOK(v)'
    BY <1>2, <1>3 DEF FoundOK
  <2>1. /\ Lot(v) \in Lots /\ Row(v) \in RowsOf(Lot(v)) /\ tx[v].avail[Row(v)] # None
        /\ tx[v].row \in Orders
    BY <1>1, CurrentRow DEF ControlOK, InRow, InLine
  <2>2. PICK l \in Lots : l = Lot(v)
    BY <2>1
  <2>3. HoldsLot(tx[v], l)
    BY <2>1, <2>2 DEF HoldsLot
  <2>4. \A o \in Orders : ReservedIn(v, l, o)' = ReservedIn(v, l, o)
    BY <1>5, <2>2, <2>3
  <2> QED
    BY <1>1, <1>2, <1>3, <2>1, <2>2, <2>4 DEF FoundOK
<1>11. SeenOK(v)'
  <2>1. CASE ~InLine(v)
    BY <1>3, <2>1 DEF SeenOK
  <2>2. CASE InLine(v)
    <3>1. Line(v) \in Lines
      BY <1>1, <2>2, LineType DEF ControlOK, InLine, InTx
    <3>2. \A j \in 1..Len(Candidates[Line(v)]) :
            /\ Candidates[Line(v)][j] \in Rows
            /\ tx[v].seen[Candidates[Line(v)][j]] \in Nat
      BY <1>1, <3>1, TxTypes
    <3>3. \A j \in 1..Len(Candidates[Line(v)]) :
            tx[v].seen[Candidates[Line(v)][j]] + DrawnIn(v, Candidates[Line(v)][j])
              >= Initial[Candidates[Line(v)][j]]
      BY <1>1, <2>2 DEF SeenOK
    <3>4. \A j \in 1..Len(Candidates[Line(v)]) :
            tx[v].seen[Candidates[Line(v)][j]] + DrawnIn(v, Candidates[Line(v)][j])'
              >= Initial[Candidates[Line(v)][j]]
      <4> TAKE j \in 1..Len(Candidates[Line(v)])
      <4>1. PICK x \in Rows : x = Candidates[Line(v)][j]
        BY <3>2
      <4>2. tx[v].seen[x] \in Nat /\ tx[v].seen[x] + DrawnIn(v, x) >= Initial[x]
        BY <3>2, <3>3, <4>1
      <4>3. tx[v].seen[x] + DrawnIn(v, x)' >= Initial[x]
        BY <1>4, <4>2
      <4> QED
        BY <1>3, <4>1, <4>3
    <3> QED
      BY <1>2, <1>3, <3>4 DEF SeenOK
  <2> QED
    BY <2>1, <2>2
<1>12. DrawnOK(v)'
  <2> SUFFICES ASSUME NEW x \in Rows, tx[v].avail[x] # None
               PROVE  tx[v].avail[x] + DrawnIn(v, x)' >= Initial[x]
    BY <1>2 DEF DrawnOK
  <2>1. tx[v].avail[x] \in Nat
    BY <1>1, TxTypes DEF Entry
  <2>2. tx[v].avail[x] + DrawnIn(v, x) >= Initial[x]
    BY <1>1 DEF DrawnOK
  <2> QED
    BY <1>4, <2>1, <2>2
<1>13. TotalOK(v)'
  <2> SUFFICES ASSUME NEW l \in Lots, l \notin crossed'
               PROVE  ReservedSeen(v, l)' + Taking(v, l)' = LotDrawn(v, l)'
    BY DEF TotalOK
  <2>1. l \notin crossed /\ Taking(v, l)' = Taking(v, l)
    BY <1>2, <1>3 DEF Taking
  <2>2. CASE HoldsLot(tx[v], l)
    <3>1. ReservedSeen(v, l)' = ReservedSeen(v, l) /\ LotDrawn(v, l)' = LotDrawn(v, l)
      BY <1>5, <2>1, <2>2, SeenStays, DrawnStays
    <3> QED
      BY <1>1, <2>1, <3>1 DEF TotalOK
  <2>3. CASE ~HoldsLot(tx[v], l)
    <3>1. ReservedSeen(v, l)' = ReservedTotal(l)'
      BY <1>6, <2>3, SeenIsCommitted
    <3>2. LotDrawn(v, l)' = SumFunctionOnSet(drawn', RowsOf(l))
      BY <1>6, <2>3, DrawnIsCommitted
    <3>3. ReservedTotal(l)' = ReservedSeen(w, l)
      BY PublishedTotal
    <3>4. SumFunctionOnSet(drawn', RowsOf(l)) = LotDrawn(w, l)
      <4>1. SumFunctionOnSet(drawn, RowsOf(l))' = LotDrawn(w, l)
        BY PublishedDrawn
      <4> QED
        BY <4>1 DEF RowsOf
    <3>5. ReservedSeen(w, l) + 0 = LotDrawn(w, l) /\ ReservedSeen(w, l) \in Nat
      <4>1. Taking(w, l) = 0
        BY <1>1 DEF Taking
      <4> QED
        BY <1>1, <2>1, <4>1, SeenType DEF TotalOK
    <3>6. Taking(v, l) = 0
      <4>1. CASE InRow(v)
        <5>1. Row(v) \in RowsOf(Lot(v)) /\ tx[v].avail[Row(v)] # None
          BY <1>1, <4>1, CurrentRow DEF ControlOK, InRow, InLine
        <5>2. Lot(v) # l
          BY <2>3, <5>1 DEF HoldsLot
        <5> QED
          BY <5>2 DEF Taking
      <4>2. CASE ~InRow(v)
        BY <4>2 DEF Taking
      <4> QED
        BY <4>1, <4>2
    <3> QED
      BY <2>1, <3>1, <3>2, <3>3, <3>4, <3>5, <3>6
  <2> QED
    BY <2>2, <2>3
<1> QED
  BY <1>7, <1>8, <1>9, <1>10, <1>11, <1>12, <1>13 DEF WorkerOK

LEMMA CommitStep == ASSUME IInv, NEW w \in Workers, Commit(w) PROVE IInv'
<1> DEFINE o == tx[w].order
<1>1. /\ TypeOK /\ LocksOK /\ ViewOK(w) /\ BoundsOK(w) /\ TotalOK(w) /\ StatusAgreesWithLines
      /\ AllocationWithinRule /\ o \in Orders /\ ~InRow(w)
  BY DEF IInv, WorkerOK, ControlOK, Commit, InRow
<1>2. /\ status' = [status EXCEPT ![o] = NewStatus(w)]
      /\ allocated' = [ln \in Lines |-> AllocatedIn(w, ln)]
      /\ available' = [x \in Rows |-> AvailableIn(w, x)]
      /\ reserved' = [l \in Lots |-> [p \in Orders |-> ReservedIn(w, l, p)]]
      /\ drawn' = [x \in Rows |-> drawn[x] + tx[w].drawn[x]]
      /\ pc' = [pc EXCEPT ![w] = "idle"]
      /\ tx' = [tx EXCEPT ![w] = NoTx]
      /\ fullOnly => AllAllocated(w)
      /\ fullOnly' = fullOnly /\ overlapped' \in BOOLEAN
      /\ crossed' \subseteq Lots /\ crossed \subseteq crossed'
      /\ \A l \in Lots : Crossing(l)' => l \in crossed'
  BY GotoFlags DEF Commit, Publish, Goto, IInv
<1>3. \A ln \in Lines : AllocatedIn(w, ln) \in Nat /\ AllocatedIn(w, ln) <= Requested[ln]
  <2> TAKE ln \in Lines
  <2>1. tx[w].alloc[ln] \in Entry /\ allocated[ln] \in Nat
    BY <1>1, TxTypes DEF TypeOK
  <2>2. tx[w].alloc[ln] <= Requested[ln] /\ allocated[ln] <= Requested[ln]
    BY <1>1 DEF BoundsOK, AllocationWithinRule
  <2> QED
    BY <2>1, <2>2 DEF AllocatedIn, Entry
<1>4. NewStatus(w) \in Status
  BY DEF NewStatus, Status
<1>5. TypeOK'
  <2>1. status' \in [Orders -> Status] /\ allocated' \in [Lines -> Nat]
    BY <1>1, <1>2, <1>3, <1>4 DEF TypeOK
  <2>2. available' \in [Rows -> Nat] /\ reserved' \in [Lots -> [Orders -> Entry]]
    BY <1>1, <1>2, AvailableType, ReservedType
  <2>3. pc' \in [Workers -> Control] /\ tx' \in [Workers -> Tx]
    BY <1>1, <1>2, NoTxType DEF TypeOK, Control
  <2>4. fullOnly' \in BOOLEAN /\ overlapped' \in BOOLEAN /\ crossed' \subseteq Lots
    BY <1>1, <1>2 DEF TypeOK
  <2>5. drawn' \in [Rows -> Nat]
    <3>1. \A x \in Rows : drawn[x] + tx[w].drawn[x] \in Nat
      BY <1>1, DrawnType
    <3> QED
      BY <1>2, <3>1
  <2> QED
    BY <2>1, <2>2, <2>3, <2>4, <2>5 DEF TypeOK
<1>6. OneReservedRow'
  BY <1>1, <1>2 DEF OneReservedRow, ViewOK
<1>7. StockNeverLost'
  <2>1. \A x \in Rows : available'[x] + drawn'[x] >= Initial[x]
    <3> TAKE x \in Rows
    <3>1. AvailableIn(w, x) + DrawnIn(w, x) >= Initial[x]
      BY AvailableDrawn
    <3>2. available'[x] = AvailableIn(w, x) /\ drawn'[x] = DrawnIn(w, x)
      BY <1>2, PublishedDrawn
    <3> QED
      BY <3>1, <3>2
  <2>2. ASSUME NEW l \in Lots, l \notin crossed'
        PROVE  ReservedTotal(l)' = SumFunctionOnSet(drawn, RowsOf(l))'
    <3>1. ReservedSeen(w, l) + Taking(w, l) = LotDrawn(w, l)
      BY <1>1, <1>2, <2>2 DEF TotalOK
    <3>2. Taking(w, l) = 0 /\ ReservedSeen(w, l) \in Nat
      BY <1>1, SeenType DEF Taking
    <3>3. ReservedTotal(l)' = ReservedSeen(w, l)
      BY PublishedTotal
    <3>4. SumFunctionOnSet(drawn, RowsOf(l))' = LotDrawn(w, l)
      BY PublishedDrawn
    <3> QED
      BY <3>1, <3>2, <3>3, <3>4
  <2> QED
    BY <2>1, <2>2 DEF StockNeverLost
<1>8. \A p \in Orders \ {o} : \A ln \in LinesOf(p) : ln \in Lines /\ allocated'[ln] = allocated[ln]
  <2> TAKE p \in Orders \ {o}
  <2> TAKE ln \in LinesOf(p)
  <2>1. ln \in Lines
    BY DEF LinesOf
  <2>2. ln \notin LinesOf(o)
    <3>1. LinesOf(o) \cap LinesOf(p) = {}
      BY <1>1
    <3> QED
      BY <3>1
  <2>3. tx[w].alloc[ln] = None
    BY <1>1, <2>1, <2>2 DEF BoundsOK
  <2> QED
    BY <1>2, <2>1, <2>3 DEF AllocatedIn
<1>9. \A ln \in LinesOf(o) : ln \in Lines /\ allocated'[ln] = AllocatedIn(w, ln)
  BY <1>1, <1>2 DEF LinesOf
<1>10. /\ status'[o] = NewStatus(w)
       /\ \A p \in Orders \ {o} : status'[p] = status[p]
  BY <1>1, <1>2 DEF TypeOK
<1>11. StatusAgreesWithLines'
  <2> DEFINE full(p) == \A ln \in LinesOf(p) : allocated[ln] = Requested[ln]
             some(p) == \E ln \in LinesOf(p) : allocated[ln] > 0
             agrees(p) == CASE status[p] = "FULLY_ALLOCATED" -> full(p)
                            [] status[p] = "PARTIALLY_ALLOCATED" -> some(p) /\ ~full(p)
                            [] status[p] = "RELEASED" -> ~some(p) /\ ~full(p)
                            [] status[p] = "DRAFT" -> ~some(p)
  <2>1. \A p \in Orders : agrees(p)
    BY <1>1 DEF StatusAgreesWithLines
  <2>2. ASSUME NEW p \in Orders \ {o} PROVE agrees(p)'
    <3>1. full(p)' <=> full(p)
      BY <1>8
    <3>2. some(p)' <=> some(p)
      BY <1>8
    <3>3. status'[p] = status[p] /\ agrees(p) /\ status[p] \in Status
      BY <1>1, <1>10, <2>1 DEF TypeOK
    <3> HIDE DEF full, some
    <3> QED
      BY <3>1, <3>2, <3>3 DEF Status
  <2>3. PICK p \in Orders : p = o
    BY <1>1
  <2>4. agrees(p)'
    <3>0. /\ p = tx[w].order
          /\ \A ln \in LinesOf(p) : allocated'[ln] = AllocatedIn(w, ln)
      BY <1>1, <1>9, <2>3
    <3>1. full(p)' <=> AllAllocated(w)
      BY <3>0, Zenon DEF AllAllocated
    <3>2. some(p)' <=> AnyAllocated(w)
      <4>1. ASSUME NEW ln \in LinesOf(p) PROVE allocated'[ln] > 0 <=> AllocatedIn(w, ln) > 0
        BY <3>0
      <4> QED
        BY <3>0, <4>1, Zenon DEF AnyAllocated
    <3>3. status'[p] = NewStatus(w)
      BY <1>10, <2>3
    <3> HIDE DEF full, some
    <3>4. CASE AllAllocated(w)
      BY <3>1, <3>3, <3>4 DEF NewStatus
    <3>5. CASE ~AllAllocated(w) /\ AnyAllocated(w)
      BY <3>1, <3>2, <3>3, <3>5 DEF NewStatus
    <3>6. CASE ~AllAllocated(w) /\ ~AnyAllocated(w)
      BY <3>1, <3>2, <3>3, <3>6 DEF NewStatus
    <3> QED
      BY <3>4, <3>5, <3>6
  <2>5. \A q \in Orders : agrees(q)'
    BY <2>2, <2>3, <2>4
  <2> QED
    BY <2>5 DEF StatusAgreesWithLines
<1>12. AllocationWithinRule'
  <2>1. \A ln \in Lines : allocated'[ln] <= Requested[ln]
    BY <1>2, <1>3
  <2>2. fullOnly => \A p \in Orders : status'[p] \in {"DRAFT", "FULLY_ALLOCATED"}
    BY <1>1, <1>2, <1>10 DEF AllocationWithinRule, NewStatus
  <2>3. fullOnly' = fullOnly
    BY <1>2
  <2> QED
    BY <2>1, <2>2, <2>3 DEF AllocationWithinRule
<1>13. /\ tx'[w] = NoTx /\ pc'[w] = "idle"
       /\ \A v \in Workers \ {w} : tx'[v] = tx[v] /\ pc'[v] = pc[v]
  BY <1>1, <1>2 DEF TypeOK
<1>14. /\ \A ln \in Lines : NoTx.alloc[ln] = None /\ NoTx.base[ln] = 0
       /\ \A x \in Rows : NoTx.avail[x] = None
       /\ WritesOK(NoTx) /\ NoWrites(NoTx)
  BY NoTxType DEF NoWrites, WritesOK
<1>15. LocksOK'
  <2>1. ASSUME NEW v \in Workers PROVE WritesOK(tx'[v])
    <3>1. CASE v = w
      BY <1>13, <1>14, <3>1
    <3>2. CASE v # w
      BY <1>1, <1>13, <3>2 DEF LocksOK
    <3> QED
      BY <3>1, <3>2
  <2>2. ASSUME NEW u \in Workers, NEW v \in Workers, u # v, NEW x \in Rows
        PROVE  tx'[u].avail[x] = None \/ tx'[v].avail[x] = None
    <3>1. CASE u # w /\ v # w
      <4>1. tx[u].avail[x] = None \/ tx[v].avail[x] = None
        BY <1>1, <2>2 DEF LocksOK
      <4> QED
        BY <1>13, <3>1, <4>1
    <3>2. CASE u = w \/ v = w
      BY <1>13, <1>14, <3>2
    <3> QED
      BY <3>1, <3>2
  <2>3. ASSUME NEW u \in Workers, NEW v \in Workers, u # v, InTx(u)', InTx(v)'
        PROVE  tx'[u].order # tx'[v].order
    <3>1. u # w /\ v # w /\ InTx(u) /\ InTx(v)
      BY <1>13, <2>3 DEF InTx
    <3>2. tx[u].order # tx[v].order
      BY <1>1, <2>3, <3>1 DEF LocksOK
    <3> QED
      BY <1>13, <3>1, <3>2
  <2>4. \A v \in Workers : WritesOK(tx[v])'
    BY <2>1 DEF WritesOK, HoldsLot, RowsOf
  <2> QED
    BY <1>2, <2>2, <2>3, <2>4 DEF LocksOK
<1>16. WorkerOK(w)'
  <2>1. ControlOK(w)'
    BY <1>13, NoTxType DEF ControlOK, InTx, InLine, InRow, NoWrites
  <2>2. BoundsOK(w)' /\ ProgressOK(w)'
    BY <1>13, <1>14 DEF BoundsOK, ProgressOK, InLine, InRow, None
  <2>3. FoundOK(w)' /\ SeenOK(w)' /\ DrawnOK(w)' /\ ~InRow(w)'
    BY <1>13, <1>14 DEF FoundOK, SeenOK, DrawnOK, InLine, InRow
  <2>4. ViewOK(w)' /\ TotalOK(w)'
    <3>1. NoWrites(tx[w])'
      BY <1>13, <1>14 DEF NoWrites
    <3>2. \A x \in Rows : drawn'[x] \in Nat
      BY <1>5 DEF TypeOK
    <3> QED
      BY <1>6, <1>7, <2>3, <3>1, <3>2, CommittedViewNext
  <2> QED
    BY <2>1, <2>2, <2>3, <2>4 DEF WorkerOK
<1>17. \A v \in Workers \ {w} : WorkerOK(v)'
  BY CommitOthers
<1> QED
  BY <1>5, <1>6, <1>7, <1>11, <1>12, <1>15, <1>16, <1>17 DEF IInv

-----------------------------------------------------------------------------
LEMMA StutterStep == ASSUME IInv, UNCHANGED vars PROVE IInv'
<1> USE DEF IInv, vars
<1>1. TypeOK' /\ OneReservedRow'
  BY DEF TypeOK, OneReservedRow
<1>2. StatusAgreesWithLines' /\ AllocationWithinRule'
  BY DEF StatusAgreesWithLines, AllocationWithinRule
<1>3. StockNeverLost'
  <2>1. \A l : ReservedTotal(l)' = ReservedTotal(l)
    BY DEF ReservedTotal
  <2>2. \A l : SumFunctionOnSet(drawn, RowsOf(l))' = SumFunctionOnSet(drawn, RowsOf(l))
    BY DEF RowsOf
  <2> QED
    BY <2>1, <2>2 DEF StockNeverLost
<1>4. LocksOK'
  <2>1. \A l : Crossing(l)' <=> Crossing(l)
    BY DEF Crossing, RowsOf
  <2>2. \A t : WritesOK(t)' <=> WritesOK(t)
    BY DEF WritesOK, HoldsLot, RowsOf
  <2> QED
    BY <2>1, <2>2 DEF LocksOK, InTx
<1>5. \A w \in Workers : WorkerOK(w)'
  BY UndisturbedWorker
<1> QED
  BY <1>1, <1>2, <1>3, <1>4, <1>5

LEMMA NextIInv == IInv /\ [Next]_vars => IInv'
<1> SUFFICES ASSUME IInv, [Next]_vars PROVE IInv'
  OBVIOUS
<1>1. CASE UNCHANGED vars
  BY <1>1, StutterStep
<1>2. ASSUME NEW w \in Workers, NEW o \in Orders, Check(w, o) PROVE IInv'
  BY <1>2, CheckStep
<1>3. ASSUME NEW w \in Workers, ReadLines(w) \/ Begin(w) PROVE IInv'
  BY <1>3, ReadLinesStep, BeginStep
<1>4. ASSUME NEW w \in Workers, SkipLine(w) \/ SelectStock(w) \/ SkipRow(w) PROVE IInv'
  BY <1>4, SkipLineStep, SelectStockStep, SkipRowStep
<1>5. ASSUME NEW w \in Workers, TakeRow(w) \/ FindReserved(w) \/ Reserve(w) PROVE IInv'
  BY <1>5, TakeRowStep, FindReservedStep, ReserveStep
<1>6. ASSUME NEW w \in Workers, WriteLine(w) \/ Commit(w) PROVE IInv'
  BY <1>6, WriteLineStep, CommitStep
<1>7. ASSUME NEW w \in Workers, Reject(w) \/ Fail(w) \/ DeadlockVictim(w) PROVE IInv'
  BY <1>7, RollbackStep DEF Reject, Fail, DeadlockVictim
<1> QED
  BY <1>1, <1>2, <1>3, <1>4, <1>5, <1>6, <1>7 DEF Next, Statement

\* However releases overlap and wherever they fail, what each request holds in its
\* locals and its uncommitted writes stays true of the rows as IInv says.
THEOREM Invariance == Spec => []IInv
BY InitIInv, NextIInv, PTL DEF Spec

\* Every variable keeps its type in all interleavings of any number of releases;
\* in particular no quantity ever becomes negative.
THEOREM TypeCorrect == Spec => []TypeOK
<1>1. IInv => TypeOK
  BY DEF IInv
<1> QED
  BY <1>1, Invariance, PTL

\* releaseOutboundOrder commits two RESERVED rows of a lot only where two releases at
\* once held different AVAILABLE rows of it; a lot kept in one row, and any lot as long as
\* releases do not meet in two rows of it, has one, although nothing in the schema says so.
THEOREM ReservedRowsUnique == Spec => []OneReservedRow
<1>1. IInv => OneReservedRow
  BY DEF IInv
<1> QED
  BY <1>1, Invariance, PTL

\* However the statements of concurrent releases interleave, a row never falls by more than
\* was drawn from it, and outside the lots of which two releases held different rows all of
\* it is reserved: the lost updates only ever leave too much.
THEOREM NoStockLost == Spec => []StockNeverLost
<1>1. IInv => StockNeverLost
  BY DEF IInv
<1> QED
  BY <1>1, Invariance, PTL

\* The committed status of an order is the one its committed lines justify, also
\* when two releases of the same order overlap.
THEOREM StatusJustified == Spec => []StatusAgreesWithLines
<1>1. IInv => StatusAgreesWithLines
  BY DEF IInv
<1> QED
  BY <1>1, Invariance, PTL

\* No line is allocated beyond its request, and a rule that demands full
\* allocation leaves no released order short.
THEOREM RuleEnforced == Spec => []AllocationWithinRule
<1>1. IInv => AllocationWithinRule
  BY DEF IInv
<1> QED
  BY <1>1, Invariance, PTL

-----------------------------------------------------------------------------
HIDE ReleaseAssumption

(***************************************************************************)
(* That releases refine AtomicRelease while they do not overlap.  The      *)
(* layer over IInv says what a request has drawn: a function draw of lines *)
(* and rows (the witness of the atomic step), of which the finished lines  *)
(* have drawn in order of expiry all they could, the current line the      *)
(* candidates visited so far, and the rows the request sees differ from    *)
(* the committed ones by exactly that.                                     *)
(***************************************************************************)
RowsFor(ln) == {Candidates[ln][j] : j \in 1..Len(Candidates[ln])}

\* What line ln draws in all; what order o draws from row r; what its first n lines do.
Got(draw, ln)         == SumFunctionOnSet(draw[ln], Rows)
Drawn(o, draw, r)     == SumFunctionOnSet([ln \in LinesOf(o) |-> draw[ln][r]], LinesOf(o))
DrawnBy(o, draw, n, r) ==
  SumFunctionOnSet([j \in 1..n |-> draw[OrderLines[o][j]][r]], 1..n)

\* What those of the AVAILABLE quantities av which the lines before the k-th leave.
Left(av, o, draw, k, r) == av[r] - DrawnBy(o, draw, k - 1, r)

\* Of the candidates c, one is drawn from only when those before it are used up.
InOrder(c, given, taken) ==
  \A j \in 1..Len(c) : \A i \in 1..(j - 1) : taken[c[j]] > 0 => taken[c[i]] = given[c[i]]

\* The k-th line of the order has drawn all it could, in order of expiry.
LineFilled(av, o, draw, k) ==
  LET ln    == OrderLines[o][k]
      given == [r \in Rows |-> Left(av, o, draw, k, r)]
      whole == SumFunctionOnSet(given, RowsFor(ln))
  IN /\ \A r \in Rows : draw[ln][r] <= given[r]
     /\ \A r \in Rows \ RowsFor(ln) : draw[ln][r] = 0
     /\ InOrder(Candidates[ln], given, draw[ln])
     /\ Got(draw, ln) \in {Requested[ln], whole}
     /\ Got(draw, ln) <= Requested[ln] /\ Got(draw, ln) <= whole

\* The line's allocatedQty, which a draft has at 0, was set to what it draws, if that is
\* more.
LineWritten(t, draw, ln) == Got(draw, ln) = IF t.alloc[ln] = None THEN 0 ELSE t.alloc[ln]

\* For a request with the locals t, the lines before the current one are filled and
\* written, those after it untouched.
LineDone(av, t, draw, j) ==
  LET ln == OrderLines[t.order][j]
  IN /\ j < t.k => LineFilled(av, t.order, draw, j) /\ LineWritten(t, draw, ln)
     /\ j >= t.k => t.alloc[ln] = None
     /\ j > t.k => \A r \in Rows : draw[ln][r] = 0
LinesDone(av, t, draw) ==
  \A j \in 1..Len(OrderLines[t.order]) : LineDone(av, t, draw, j)

\* The current line is untouched.
LineUntouched(t, draw) ==
  t.k <= Len(OrderLines[t.order]) =>
    \A r \in Rows : draw[OrderLines[t.order][t.k]][r] = 0

\* Of the current line, the candidates before the i-th have been used up.
LineProgress(av, o, k, i, need, got, seen, draw) ==
  LET ln == OrderLines[o][k]
      c  == Candidates[ln]
  IN /\ \A r \in Rows : /\ seen[r] = IF r \in RowsFor(ln) THEN Left(av, o, draw, k, r) ELSE 0
                        /\ draw[ln][r] <= seen[r]
     /\ \A j \in 1..Len(c) : /\ j >= i => draw[ln][c[j]] = 0
                             /\ j < i /\ need > 0 => draw[ln][c[j]] = seen[c[j]]
     /\ InOrder(c, seen, draw[ln])
     /\ got = Got(draw, ln)
LineBegun(av, t, draw) ==
  LineProgress(av, t.order, t.k, t.i, t.need, t.got, t.seen, draw)

\* What the request has drawn from a row and added to a RESERVED row.
Placed(w, r) == tx[w].drawn[r] - IF InRow(w) /\ r = Row(w) THEN tx[w].take ELSE 0

\* The rows the request sees differ from the committed ones by what it has drawn.
RowsMoved(w, draw) ==
  \A r \in Rows :
    /\ ~(InRow(w) /\ r = Row(w)) =>
         AvailableIn(w, r) = available[r] - Drawn(tx[w].order, draw, r)
    /\ Placed(w, r) = Drawn(tx[w].order, draw, r)
    /\ Drawn(tx[w].order, draw, r) = DrawnBy(tx[w].order, draw, tx[w].k - 1, r)
                                       + IF InLine(w) THEN draw[Line(w)][r] ELSE 0

\* Of the current candidate, it takes what there is or what is needed.
TakesAll(t) ==
  t.take = Smaller(t.seen[Candidates[OrderLines[t.order][t.k]][t.i]], t.need)

Draws(w, draw) ==
  /\ LinesDone(available, tx[w], draw)
  /\ RowsMoved(w, draw)
  /\ InRow(w) => TakesAll(tx[w])
  /\ InLine(w) => LineBegun(available, tx[w], draw)
  /\ ~InLine(w) => LineUntouched(tx[w], draw)

\* As long as requests have not overlapped, at most one is under way; its order is
\* still a draft with nothing allocated; and what it has done so far is to draw.
SerialOK ==
  ~overlapped =>
    /\ crossed = {}
    /\ \A v, w \in Workers : pc[v] # "idle" /\ pc[w] # "idle" => v = w
    /\ \A r \in Rows : available[r] <= Initial[r]
    /\ \A w \in Workers : pc[w] # "idle" =>
         /\ status[tx[w].order] = "DRAFT"
         /\ \A ln \in Lines : tx[w].base[ln] = 0
    /\ \A w \in Workers : InTx(w) =>
         \E draw \in [LinesOf(tx[w].order) -> [Rows -> Nat]] : Draws(w, draw)

-----------------------------------------------------------------------------
(* What the operators on draws return.                                     *)

LEMMA OrderLine ==
  ASSUME NEW o \in Orders, NEW j \in 1..Len(OrderLines[o])
  PROVE  /\ OrderLines[o][j] \in LinesOf(o) /\ OrderLines[o][j] \in Lines
         /\ \A i \in 1..Len(OrderLines[o]) : OrderLines[o][i] = OrderLines[o][j] => i = j
<1>1. OrderLines[o] \in Seq(Lines)
  BY ReleaseAssumption
<1>2. DOMAIN OrderLines[o] = 1..Len(OrderLines[o]) /\ OrderLines[o][j] \in Lines
  BY <1>1
<1>3. IsInjective(OrderLines[o])
  BY RowsAssumption
<1> QED
  BY <1>2, <1>3 DEF LinesOf, IsInjective

LEMMA LinesFinite ==
  ASSUME NEW o \in Orders
  PROVE  LinesOf(o) \subseteq Lines /\ IsFiniteSet(LinesOf(o))
<1>1. LinesOf(o) \subseteq Lines
  BY OrderLine DEF LinesOf
<1> QED
  BY <1>1, RowsAssumption, FS_Subset

LEMMA DrawTypes ==
  ASSUME NEW o \in Orders, NEW draw \in [LinesOf(o) -> [Rows -> Nat]]
  PROVE  /\ \A ln \in LinesOf(o) : Got(draw, ln) \in Nat
         /\ \A r \in Rows : Drawn(o, draw, r) \in Nat
         /\ \A r \in Rows : \A n \in 0..Len(OrderLines[o]) : DrawnBy(o, draw, n, r) \in Nat
<1>1. ASSUME NEW ln \in LinesOf(o) PROVE Got(draw, ln) \in Nat
  BY RowsAssumption, SumNat DEF Got
<1>2. ASSUME NEW r \in Rows PROVE Drawn(o, draw, r) \in Nat
  <2>1. PICK f : f = [ln \in LinesOf(o) |-> draw[ln][r]]
    OBVIOUS
  <2>2. \A x \in LinesOf(o) : f[x] \in Nat
    BY <2>1
  <2>3. SumFunctionOnSet(f, LinesOf(o)) \in Nat
    BY <2>2, LinesFinite, SumNat
  <2> QED
    BY <2>1, <2>3 DEF Drawn
<1>3. ASSUME NEW r \in Rows, NEW n \in 0..Len(OrderLines[o])
      PROVE  DrawnBy(o, draw, n, r) \in Nat
  <2>1. PICK f : f = [j \in 1..n |-> draw[OrderLines[o][j]][r]]
    OBVIOUS
  <2>0. OrderLines[o] \in Seq(Lines)
    BY ReleaseAssumption
  <2>2. \A x \in 1..n : f[x] \in Nat
    <3> TAKE x \in 1..n
    <3>1. x \in 1..Len(OrderLines[o])
      BY <2>0
    <3>2. draw[OrderLines[o][x]][r] \in Nat
      BY <3>1, OrderLine
    <3> QED
      BY <2>1, <3>2
  <2>3. IsFiniteSet(1..n)
    BY <2>0, FS_Interval
  <2>4. SumFunctionOnSet(f, 1..n) \in Nat
    BY <2>2, <2>3, SumNat
  <2> QED
    BY <2>1, <2>4 DEF DrawnBy
<1> QED
  BY <1>1, <1>2, <1>3

\* What the first n lines draw from a row depends on these lines only.
LEMMA DrawnByAgree ==
  ASSUME NEW o \in Orders, NEW draw, NEW e, NEW r, NEW n \in 0..Len(OrderLines[o]),
         \A j \in 1..n : e[OrderLines[o][j]] = draw[OrderLines[o][j]]
  PROVE  DrawnBy(o, e, n, r) = DrawnBy(o, draw, n, r)
<1>1. PICK f, g : /\ f = [j \in 1..n |-> draw[OrderLines[o][j]][r]]
                  /\ g = [j \in 1..n |-> e[OrderLines[o][j]][r]]
  OBVIOUS
<1>2. \A x \in 1..n : f[x] = g[x]
  BY <1>1
<1>3. IsFiniteSet(1..n)
  <2>1. OrderLines[o] \in Seq(Lines)
    BY ReleaseAssumption
  <2> QED
    BY <2>1, FS_Interval
<1>4. SumFunctionOnSet(f, 1..n) = SumFunctionOnSet(g, 1..n)
  BY <1>2, <1>3, SumAgree
<1> QED
  BY <1>1, <1>4 DEF DrawnBy

\* The next line adds what it draws.
LEMMA DrawnByNext ==
  ASSUME NEW o \in Orders, NEW draw \in [LinesOf(o) -> [Rows -> Nat]], NEW r \in Rows,
         NEW n \in 1..Len(OrderLines[o])
  PROVE  DrawnBy(o, draw, n, r) = DrawnBy(o, draw, n - 1, r) + draw[OrderLines[o][n]][r]
<1>0. OrderLines[o] \in Seq(Lines) /\ n \in Nat
  BY ReleaseAssumption
<1>1. PICK m \in Nat : m = n - 1 /\ n = m + 1
  BY <1>0
<1>2. PICK f, g : /\ f = [j \in 1..n |-> draw[OrderLines[o][j]][r]]
                  /\ g = [j \in 1..m |-> draw[OrderLines[o][j]][r]]
  OBVIOUS
<1>3. PICK S, R : S = 1..n /\ R = 1..m
  OBVIOUS
<1>4. IsFiniteSet(S) /\ IsFiniteSet(R)
  BY <1>0, <1>3, FS_Interval
<1>5. n \in S /\ R = S \ {n}
  BY <1>0, <1>1, <1>3
<1>6. \A x \in S : f[x] \in Int
  <2> TAKE x \in S
  <2>1. x \in 1..Len(OrderLines[o])
    BY <1>0, <1>3
  <2>2. draw[OrderLines[o][x]][r] \in Nat
    BY <2>1, OrderLine
  <2> QED
    BY <1>2, <1>3, <2>2
<1>7. SumFunctionOnSet(f, S) = f[n] + SumFunctionOnSet(f, R)
  <2>1. n \in S
    BY <1>5
  <2>2. \A x \in S : SumFunctionOnSet(f, S) = f[x] + SumFunctionOnSet(f, S \ {x})
    BY <1>4, <1>6, SumRemove
  <2> QED
    BY <1>5, <2>1, <2>2
<1>8. \A x \in R : f[x] = g[x] /\ f[x] \in Int
  BY <1>2, <1>3, <1>5, <1>6
<1>9. SumFunctionOnSet(f, R) = SumFunctionOnSet(g, R) /\ SumFunctionOnSet(f, R) \in Int
  BY <1>4, <1>8, SumAgree, SumInt
<1>10. f[n] = draw[OrderLines[o][n]][r] /\ f[n] \in Int
  BY <1>2, <1>3, <1>5, <1>6
<1>11. DrawnBy(o, draw, n, r) = SumFunctionOnSet(f, S)
  BY <1>2, <1>3 DEF DrawnBy
<1>12. DrawnBy(o, draw, n - 1, r) = SumFunctionOnSet(g, R)
  BY <1>1, <1>2, <1>3 DEF DrawnBy
<1> QED
  BY <1>7, <1>9, <1>10, <1>11, <1>12

\* Line ln draws amount more of row x, and nothing else changes.
DrawsMore(o, draw, e, ln, x, amount) ==
  /\ e[ln][x] = draw[ln][x] + amount
  /\ \A m \in Rows \ {x} : e[ln][m] = draw[ln][m]
  /\ \A p \in LinesOf(o) \ {ln} : e[p] = draw[p]

\* What order o draws from row x grows by amount, and from no other row.
DrawnMore(o, draw, e, x, amount) ==
  /\ Drawn(o, e, x) = Drawn(o, draw, x) + amount
  /\ \A m \in Rows \ {x} : Drawn(o, e, m) = Drawn(o, draw, m)

LEMMA DrawMore ==
  ASSUME NEW o \in Orders, NEW draw \in [LinesOf(o) -> [Rows -> Nat]],
         NEW ln \in LinesOf(o), NEW r \in Rows, NEW amount \in Nat
  PROVE  \E e \in [LinesOf(o) -> [Rows -> Nat]] :
           /\ DrawsMore(o, draw, e, ln, r, amount) /\ DrawnMore(o, draw, e, r, amount)
           /\ Got(e, ln) = Got(draw, ln) + amount
<1>0. PICK e : e = [draw EXCEPT ![ln] = [draw[ln] EXCEPT ![r] = draw[ln][r] + amount]]
  OBVIOUS
<1>1. PICK d \in [Rows -> Nat] : d = [draw[ln] EXCEPT ![r] = draw[ln][r] + amount]
  <2>1. PICK b \in [Rows -> Nat] : b = draw[ln]
    OBVIOUS
  <2>2. b[r] + amount \in Nat
    OBVIOUS
  <2>3. [b EXCEPT ![r] = b[r] + amount] \in [Rows -> Nat]
    BY <2>2
  <2> QED
    BY <2>1, <2>3
<1>2. d[r] = draw[ln][r] + amount /\ \A m \in Rows \ {r} : d[m] = draw[ln][m]
  BY <1>1
<1>3. /\ e \in [LinesOf(o) -> [Rows -> Nat]] /\ e[ln] = d
      /\ \A p \in LinesOf(o) \ {ln} : e[p] = draw[p]
  BY <1>0, <1>1
<1>4. Got(e, ln) = Got(draw, ln) + amount
  <2>1. PICK f, g : f = draw[ln] /\ g = d
    OBVIOUS
  <2>2. \A m \in Rows : f[m] \in Int /\ g[m] \in Int
    BY <2>1
  <2>3. \A m \in Rows \ {r} : f[m] = g[m]
    BY <1>2, <2>1
  <2>4. IsFiniteSet(Rows)
    BY RowsAssumption
  <2>5. SumFunctionOnSet(f, Rows) \in Int /\ f[r] \in Int /\ g[r] \in Int
    BY <2>2, <2>4, SumInt
  <2>6. SumFunctionOnSet(g, Rows) = SumFunctionOnSet(f, Rows) - f[r] + g[r]
    BY <2>2, <2>3, <2>4, <2>5, SumUpdate
  <2>7. g[r] = f[r] + amount
    BY <1>2, <2>1
  <2>8. SumFunctionOnSet(g, Rows) = SumFunctionOnSet(f, Rows) + amount
    BY <2>5, <2>6, <2>7
  <2> QED
    BY <1>3, <2>1, <2>8 DEF Got
<1>5. IsFiniteSet(LinesOf(o))
  BY LinesFinite
<1>6. Drawn(o, e, r) = Drawn(o, draw, r) + amount
  <2>1. PICK f, g : /\ f = [p \in LinesOf(o) |-> draw[p][r]]
                    /\ g = [p \in LinesOf(o) |-> e[p][r]]
    OBVIOUS
  <2>2. \A p \in LinesOf(o) : f[p] \in Int /\ g[p] \in Int
    BY <1>3, <2>1
  <2>3. \A p \in LinesOf(o) \ {ln} : f[p] = g[p]
    BY <1>3, <2>1
  <2>4. SumFunctionOnSet(f, LinesOf(o)) \in Int /\ f[ln] \in Int /\ g[ln] \in Int
    BY <1>5, <2>2, SumInt
  <2>5. SumFunctionOnSet(g, LinesOf(o)) = SumFunctionOnSet(f, LinesOf(o)) - f[ln] + g[ln]
    BY <1>5, <2>2, <2>3, <2>4, SumUpdate
  <2>6. g[ln] = f[ln] + amount
    BY <1>2, <1>3, <2>1
  <2>7. SumFunctionOnSet(g, LinesOf(o)) = SumFunctionOnSet(f, LinesOf(o)) + amount
    BY <2>4, <2>5, <2>6
  <2> QED
    BY <2>1, <2>7 DEF Drawn
<1>7. ASSUME NEW m \in Rows \ {r} PROVE Drawn(o, e, m) = Drawn(o, draw, m)
  <2>1. PICK f, g : /\ f = [p \in LinesOf(o) |-> draw[p][m]]
                    /\ g = [p \in LinesOf(o) |-> e[p][m]]
    OBVIOUS
  <2>2. \A p \in LinesOf(o) : f[p] = g[p]
    BY <1>2, <1>3, <2>1
  <2>3. SumFunctionOnSet(f, LinesOf(o)) = SumFunctionOnSet(g, LinesOf(o))
    BY <1>5, <2>2, SumAgree
  <2> QED
    BY <2>1, <2>3 DEF Drawn
<1>8. DrawsMore(o, draw, e, ln, r, amount)
  BY <1>2, <1>3 DEF DrawsMore
<1>9. DrawnMore(o, draw, e, r, amount)
  BY <1>6, <1>7 DEF DrawnMore
<1> QED
  BY <1>3, <1>4, <1>8, <1>9

\* Whether a line is filled depends on what it and the lines before it draw.
LEMMA LineFilledAgree ==
  ASSUME NEW av, NEW o \in Orders, NEW draw, NEW e, NEW k \in 1..Len(OrderLines[o]),
         \A j \in 1..k : e[OrderLines[o][j]] = draw[OrderLines[o][j]],
         LineFilled(av, o, draw, k)
  PROVE  LineFilled(av, o, e, k)
<1>0. OrderLines[o] \in Seq(Lines) /\ k \in Nat
  BY ReleaseAssumption
<1>1. PICK ln : ln = OrderLines[o][k]
  OBVIOUS
<1>2. e[ln] = draw[ln]
  BY <1>0, <1>1
<1>3. PICK m \in 0..Len(OrderLines[o]) : m = k - 1
  BY <1>0
<1>4. \A j \in 1..m : e[OrderLines[o][j]] = draw[OrderLines[o][j]]
  BY <1>0, <1>3
<1>5. \A r \in Rows : DrawnBy(o, e, m, r) = DrawnBy(o, draw, m, r)
  BY <1>4, DrawnByAgree
<1>6. \A r \in Rows : Left(av, o, e, k, r) = Left(av, o, draw, k, r)
  BY <1>3, <1>5 DEF Left
<1>7. [r \in Rows |-> Left(av, o, e, k, r)] = [r \in Rows |-> Left(av, o, draw, k, r)]
  BY <1>6
<1>8. Got(e, ln) = Got(draw, ln)
  BY <1>2 DEF Got
<1>9. PICK given : given = [r \in Rows |-> Left(av, o, draw, k, r)]
  OBVIOUS
<1>10. given = [r \in Rows |-> Left(av, o, e, k, r)]
  BY <1>7, <1>9
<1>11. /\ \A r \in Rows : draw[ln][r] <= given[r]
       /\ \A r \in Rows \ RowsFor(ln) : draw[ln][r] = 0
       /\ InOrder(Candidates[ln], given, draw[ln])
       /\ Got(draw, ln) \in {Requested[ln], SumFunctionOnSet(given, RowsFor(ln))}
       /\ Got(draw, ln) <= Requested[ln]
       /\ Got(draw, ln) <= SumFunctionOnSet(given, RowsFor(ln))
  BY <1>1, <1>9 DEF LineFilled
<1>12. /\ \A r \in Rows : e[ln][r] <= given[r]
       /\ \A r \in Rows \ RowsFor(ln) : e[ln][r] = 0
       /\ InOrder(Candidates[ln], given, e[ln])
       /\ Got(e, ln) \in {Requested[ln], SumFunctionOnSet(given, RowsFor(ln))}
       /\ Got(e, ln) <= Requested[ln]
       /\ Got(e, ln) <= SumFunctionOnSet(given, RowsFor(ln))
  BY <1>2, <1>8, <1>11
<1> QED
  BY <1>1, <1>10, <1>12 DEF LineFilled

LEMMA SumOfRows ==
  ASSUME NEW S, S \subseteq Rows, NEW f, \A r \in Rows : f[r] \in Int,
         NEW g, \A r \in Rows : g[r] = IF r \in S THEN f[r] ELSE 0
  PROVE  SumFunctionOnSet(g, Rows) = SumFunctionOnSet(f, S)
BY RowsAssumption, SumPart

\* A line that has used up its candidates, or got what it requests, is filled.
LEMMA LineCompleted ==
  ASSUME NEW av, NEW o \in Orders, NEW draw \in [LinesOf(o) -> [Rows -> Nat]],
         NEW k \in 1..Len(OrderLines[o]), NEW ln \in Lines, ln = OrderLines[o][k],
         NEW seen \in [Rows -> Nat],
         \A r \in Rows : Left(av, o, draw, k, r) \in Nat,
         \A r \in Rows : seen[r] = IF r \in RowsFor(ln) THEN Left(av, o, draw, k, r) ELSE 0,
         \A r \in Rows : draw[ln][r] <= seen[r],
         InOrder(Candidates[ln], seen, draw[ln]),
         Got(draw, ln) <= Requested[ln],
         \/ Got(draw, ln) = Requested[ln]
         \/ \A j \in 1..Len(Candidates[ln]) : draw[ln][Candidates[ln][j]] = seen[Candidates[ln][j]]
  PROVE  LineFilled(av, o, draw, k)
<1>0. /\ Candidates[ln] \in Seq(Rows) /\ ln \in LinesOf(o)
      /\ draw[ln] \in [Rows -> Nat]
  BY OrderLine, ReleaseAssumption
<1>1. PICK given \in [Rows -> Nat] : given = [r \in Rows |-> Left(av, o, draw, k, r)]
  OBVIOUS
<1>2. \A r \in Rows : seen[r] = IF r \in RowsFor(ln) THEN given[r] ELSE 0
  BY <1>1
<1>3. PICK c : c = Candidates[ln]
  OBVIOUS
<1>4. /\ RowsFor(ln) \subseteq Rows
      /\ \A j \in 1..Len(c) : c[j] \in RowsFor(ln) /\ c[j] \in Rows
  <2>1. \A j \in 1..Len(c) : c[j] \in Rows
    BY <1>0, <1>3
  <2>2. RowsFor(ln) = {c[j] : j \in 1..Len(c)}
    BY <1>3 DEF RowsFor
  <2> QED
    BY <2>1, <2>2
<1>5. \A r \in Rows : draw[ln][r] <= given[r]
  <2> TAKE r \in Rows
  <2>1. draw[ln][r] \in Nat /\ given[r] \in Nat /\ draw[ln][r] <= seen[r]
    BY <1>0
  <2>2. seen[r] = given[r] \/ seen[r] = 0
    BY <1>2
  <2> QED
    BY <2>1, <2>2
<1>6. \A r \in Rows \ RowsFor(ln) : draw[ln][r] = 0
  <2> TAKE r \in Rows \ RowsFor(ln)
  <2>1. draw[ln][r] \in Nat /\ draw[ln][r] <= seen[r]
    BY <1>0
  <2> QED
    BY <1>2, <2>1
<1>7. InOrder(c, given, draw[ln])
  <2> SUFFICES ASSUME NEW j \in 1..Len(c), NEW i \in 1..(j - 1), draw[ln][c[j]] > 0
               PROVE  draw[ln][c[i]] = given[c[i]]
    BY DEF InOrder
  <2>1. i \in 1..Len(c)
    BY <1>0, <1>3
  <2>2. draw[ln][c[i]] = seen[c[i]]
    BY <1>3 DEF InOrder
  <2> QED
    BY <1>2, <1>4, <2>1, <2>2
<1>8. SumFunctionOnSet(seen, Rows) = SumFunctionOnSet(given, RowsFor(ln))
  <2>1. PICK f, g : f = given /\ g = seen
    OBVIOUS
  <2>2. \A r \in Rows : f[r] \in Int
    BY <2>1
  <2>3. RowsFor(ln) \subseteq Rows
    BY <1>4
  <2>4. \A r \in Rows : g[r] = IF r \in RowsFor(ln) THEN f[r] ELSE 0
    BY <1>2, <2>1
  <2>5. SumFunctionOnSet(g, Rows) = SumFunctionOnSet(f, RowsFor(ln))
    BY <2>2, <2>3, <2>4, SumOfRows
  <2> QED
    BY <2>1, <2>5
<1>9. PICK whole \in Nat : /\ whole = SumFunctionOnSet(given, RowsFor(ln))
                           /\ whole = SumFunctionOnSet(seen, Rows)
  <2>1. SumFunctionOnSet(seen, Rows) \in Nat
    BY RowsAssumption, SumNat
  <2> QED
    BY <1>8, <2>1
<1>10. PICK d \in [Rows -> Nat] : d = draw[ln]
  BY <1>0
<1>11. IsFiniteSet(Rows) /\ \A r \in Rows : d[r] \in Int /\ seen[r] \in Int /\ d[r] <= seen[r]
  BY <1>10, RowsAssumption
<1>12. Got(draw, ln) <= whole
  <2>1. SumFunctionOnSet(d, Rows) <= SumFunctionOnSet(seen, Rows)
    BY <1>11, SumMonotone
  <2> QED
    BY <1>9, <1>10, <2>1 DEF Got
<1>13. Got(draw, ln) \in {Requested[ln], whole}
  <2>1. CASE Got(draw, ln) = Requested[ln]
    BY <2>1
  <2>2. CASE \A j \in 1..Len(c) : draw[ln][c[j]] = seen[c[j]]
    <3>1. \A r \in Rows : d[r] = seen[r]
      <4> TAKE r \in Rows
      <4>1. CASE r \in RowsFor(ln)
        <5>1. PICK j \in 1..Len(c) : r = c[j]
          BY <1>3, <4>1 DEF RowsFor
        <5> QED
          BY <1>10, <2>2, <5>1
      <4>2. CASE r \notin RowsFor(ln)
        BY <1>2, <1>6, <1>10, <4>2
      <4> QED
        BY <4>1, <4>2
    <3>2. SumFunctionOnSet(d, Rows) = SumFunctionOnSet(seen, Rows)
      BY <1>11, <3>1, SumAgree
    <3> QED
      BY <1>9, <1>10, <3>2 DEF Got
  <2> QED
    BY <1>3, <2>1, <2>2
<1> QED
  BY <1>1, <1>3, <1>5, <1>6, <1>7, <1>9, <1>12, <1>13 DEF LineFilled

USE ReleaseAssumption

-----------------------------------------------------------------------------
(* What is known while releases have not overlapped.                       *)

LEMMA SerialFacts ==
  ASSUME IInv, SerialOK, NEW w \in Workers, NEW next, NEW t, Goto(w, next, t), ~overlapped'
  PROVE  /\ ~overlapped
         /\ crossed = {} /\ crossed' = {}
         /\ \A v \in Workers \ {w} : pc[v] = "idle"
         /\ \A r \in Rows : available[r] <= Initial[r]
         /\ pc[w] # "idle" => /\ status[tx[w].order] = "DRAFT"
                              /\ \A ln \in Lines : tx[w].base[ln] = 0
         /\ InTx(w) => \E draw \in [LinesOf(tx[w].order) -> [Rows -> Nat]] : Draws(w, draw)
<1>1. ~overlapped /\ \A v \in Workers \ {w} : pc[v] = "idle"
  BY DEF Goto
<1>2. crossed = {}
  BY <1>1 DEF SerialOK
<1>3. crossed' = {}
  <2>1. TypeOK /\ \A v \in Workers \ {w} : \A x \in Rows : tx[v].avail[x] = None
    BY <1>1 DEF IInv, WorkerOK, ControlOK, NoWrites, InTx
  <2>2. \A v \in Workers \ {w} : tx'[v] = tx[v]
    BY <2>1 DEF TypeOK, Goto
  <2>3. ASSUME NEW l \in Lots, Crossing(l)' PROVE FALSE
    <3>1. PICK x \in Rows, y \in Rows, u \in Workers, v \in Workers :
            u # v /\ tx'[u].avail[x] # None /\ tx'[v].avail[y] # None
      BY <2>3 DEF Crossing, RowsOf
    <3>2. u = w /\ v = w
      BY <2>1, <2>2, <3>1
    <3> QED
      BY <3>1, <3>2
  <2> QED
    BY <1>2, <2>3 DEF Goto
<1> QED
  BY <1>1, <1>2, <1>3 DEF SerialOK

\* A statement that writes no committed row keeps it, when it does so for its own request.
LEMMA SerialStep ==
  ASSUME IInv, SerialOK, NEW w \in Workers, NEW next, NEW t, Local(w, next, t),
         next # "idle" /\ ~overlapped' =>
           status[t.order] = "DRAFT" /\ \A ln \in Lines : t.base[ln] = 0,
         InTx(w)' /\ ~overlapped' =>
           \E draw \in [LinesOf(t.order) -> [Rows -> Nat]] : Draws(w, draw)'
  PROVE  SerialOK'
<1> SUFFICES ASSUME ~overlapped' PROVE SerialOK'
  BY DEF SerialOK
<1>1. /\ tx'[w] = t /\ pc'[w] = next
      /\ \A v \in Workers \ {w} : tx'[v] = tx[v] /\ pc'[v] = pc[v]
      /\ UNCHANGED <<status, available>>
  BY DEF IInv, TypeOK, Local, Goto, stock
<1>2. /\ \A v \in Workers \ {w} : pc[v] = "idle"
      /\ \A r \in Rows : available[r] <= Initial[r]
      /\ crossed' = {}
  BY SerialFacts DEF Local
<1>3. \A v \in Workers \ {w} : pc'[v] = "idle" /\ ~InTx(v)'
  BY <1>1, <1>2 DEF InTx
<1>4. \A u, v \in Workers : pc'[u] # "idle" /\ pc'[v] # "idle" => u = v
  BY <1>3
<1>5. \A r \in Rows : available'[r] <= Initial[r]
  BY <1>1, <1>2
<1>6. ASSUME NEW v \in Workers, pc'[v] # "idle"
      PROVE  status'[tx'[v].order] = "DRAFT" /\ \A ln \in Lines : tx'[v].base[ln] = 0
  <2>1. v = w
    BY <1>3, <1>6
  <2> QED
    BY <1>1, <1>6, <2>1
<1>7. ASSUME NEW v \in Workers, InTx(v)'
      PROVE  \E draw \in [LinesOf(tx[v].order)' -> [Rows -> Nat]] : Draws(v, draw)'
  <2>1. v = w
    BY <1>3, <1>7
  <2>2. \E draw \in [LinesOf(t.order) -> [Rows -> Nat]] : Draws(w, draw)'
    BY <1>7, <2>1
  <2>3. LinesOf(tx[w].order)' = LinesOf(t.order)
    BY <1>1 DEF LinesOf
  <2> QED
    BY <2>1, <2>2, <2>3
<1> QED
  BY <1>2, <1>4, <1>5, <1>6, <1>7 DEF SerialOK

LEMMA SerialRollback == ASSUME IInv, SerialOK, NEW w \in Workers, Rollback(w) PROVE SerialOK'
<1>1. ~InTx(w)'
  BY DEF IInv, TypeOK, Rollback, Local, Goto, InTx
<1> QED
  BY <1>1, SerialStep DEF Rollback

LEMMA SerialCheck ==
  ASSUME IInv, SerialOK, NEW w \in Workers, NEW o \in Orders, Check(w, o) PROVE SerialOK'
<1>1. PICK t : t = [NoTx EXCEPT !.order = o]
  OBVIOUS
<1>2. t.order = o /\ \A ln \in Lines : t.base[ln] = 0
  BY <1>1, NoTxType DEF Tx
<1>3. Local(w, "readLines", t) /\ status[o] = "DRAFT"
  BY <1>1 DEF Check
<1>4. ~InTx(w)'
  BY <1>3 DEF IInv, TypeOK, Local, Goto, InTx
<1> QED
  BY <1>2, <1>3, <1>4, SerialStep

\* A draft has nothing allocated.
LEMMA DraftEmpty ==
  ASSUME IInv, NEW o \in Orders, status[o] = "DRAFT", NEW ln \in LinesOf(o)
  PROVE  allocated[ln] = 0
<1>1. ln \in Lines
  BY DEF LinesOf
<1>2. allocated[ln] \in Nat /\ ~ allocated[ln] > 0
  BY <1>1 DEF IInv, TypeOK, StatusAgreesWithLines
<1> QED
  BY <1>2

LEMMA SerialReadLines ==
  ASSUME IInv, SerialOK, NEW w \in Workers, ReadLines(w) PROVE SerialOK'
<1>1. PICK b : b = [ln \in Lines |-> IF ln \in LinesOf(tx[w].order) THEN allocated[ln] ELSE 0]
  OBVIOUS
<1>2. PICK t : t = [tx[w] EXCEPT !.base = b]
  OBVIOUS
<1>3. Local(w, "begin", t)
  BY <1>1, <1>2 DEF ReadLines
<1>4. t.order = tx[w].order /\ t.base = b /\ tx[w].order \in Orders
  BY <1>2, TxTypes DEF IInv, Tx, WorkerOK, ControlOK, ReadLines
<1>5. ~InTx(w)'
  BY <1>3 DEF IInv, TypeOK, Local, Goto, InTx
<1>6. ASSUME ~overlapped' PROVE status[t.order] = "DRAFT" /\ \A ln \in Lines : t.base[ln] = 0
  <2>1. status[tx[w].order] = "DRAFT"
    BY <1>3, <1>6, SerialFacts DEF Local, ReadLines
  <2> QED
    BY <1>1, <1>4, <2>1, DraftEmpty
<1> QED
  BY <1>3, <1>5, <1>6, SerialStep

\* Nothing is drawn by lines that draw nothing.
LEMMA NothingDrawn ==
  ASSUME NEW o \in Orders, NEW draw, \A ln \in LinesOf(o) : \A r \in Rows : draw[ln][r] = 0,
         NEW r \in Rows
  PROVE  Drawn(o, draw, r) = 0 /\ DrawnBy(o, draw, 0, r) = 0
<1>1. PICK f : f = [ln \in LinesOf(o) |-> draw[ln][r]]
  OBVIOUS
<1>2. \A ln \in LinesOf(o) : f[ln] = 0
  BY <1>1
<1>3. SumFunctionOnSet(f, LinesOf(o)) = 0
  BY <1>2, LinesFinite, SumZero
<1>4. 1..0 = {}
  OBVIOUS
<1> QED
  BY <1>1, <1>3, <1>4, SumEmpty DEF Drawn, DrawnBy

\* The rows of the next state, when order o and line k are what the request is at then.
LEMMA RowsMovedNext ==
  ASSUME NEW w \in Workers, NEW o \in Orders, NEW k \in Nat, tx'[w].order = o, tx'[w].k = k,
         NEW draw,
         \A r \in Rows :
           /\ ~(InRow(w)' /\ r = Row(w)') => AvailableIn(w, r)' = available'[r] - Drawn(o, draw, r)
           /\ Placed(w, r)' = Drawn(o, draw, r)
           /\ Drawn(o, draw, r) = DrawnBy(o, draw, k - 1, r)
                                    + IF InLine(w)' THEN draw[Line(w)'][r] ELSE 0
  PROVE  RowsMoved(w, draw)'
BY Zenon DEF RowsMoved

LEMMA DrawsNext ==
  ASSUME NEW w \in Workers, NEW t, tx'[w] = t, UNCHANGED available, NEW draw,
         LinesDone(available, t, draw),
         RowsMoved(w, draw)',
         IF pc'[w] \in {"take", "find", "reserve"}
         THEN LineBegun(available, t, draw) ELSE LineUntouched(t, draw),
         pc'[w] \in {"find", "reserve"} => TakesAll(t)
  PROVE  Draws(w, draw)'
BY DEF Draws, InLine, InRow

LEMMA SerialBegin ==
  ASSUME IInv, SerialOK, NEW w \in Workers, Begin(w) PROVE SerialOK'
<1>1. PICK t : t = [tx[w] EXCEPT !.k = 1]
  OBVIOUS
<1>2. Local(w, "line", t)
  BY <1>1 DEF Begin
<1>3. TypeOK /\ ControlOK(w) /\ pc[w] = "begin" /\ ~InTx(w)
  BY DEF IInv, WorkerOK, Begin, InTx
<1>4. /\ t.order = tx[w].order /\ t.base = tx[w].base /\ t.alloc = tx[w].alloc
      /\ t.avail = tx[w].avail /\ t.drawn = tx[w].drawn /\ t.k = 1
  BY <1>1, <1>3, TxTypes DEF Tx
<1>5. PICK o \in Orders : o = tx[w].order
  BY <1>3 DEF ControlOK
<1>6. /\ tx'[w] = t /\ pc'[w] = "line" /\ UNCHANGED <<allocated, available, reserved>>
  BY <1>2, <1>3 DEF TypeOK, Local, Goto, stock
<1>7. /\ \A ln \in Lines : t.alloc[ln] = None
      /\ \A r \in Rows : t.avail[r] = None /\ t.drawn[r] = 0
  BY <1>3, <1>4 DEF ControlOK, NoWrites
<1>8. ASSUME ~overlapped' PROVE status[t.order] = "DRAFT" /\ \A ln \in Lines : t.base[ln] = 0
  BY <1>2, <1>3, <1>4, <1>8, SerialFacts DEF Local
<1>9. PICK draw \in [LinesOf(o) -> [Rows -> Nat]] :
        \A ln \in LinesOf(o) : \A r \in Rows : draw[ln][r] = 0
  <2>1. [r \in Rows |-> 0] \in [Rows -> Nat]
    OBVIOUS
  <2>2. [ln \in LinesOf(o) |-> [r \in Rows |-> 0]] \in [LinesOf(o) -> [Rows -> Nat]]
    BY <2>1
  <2> QED
    BY <2>2
<1>10. ~InLine(w)' /\ ~InRow(w)'
  BY <1>6 DEF InLine, InRow
<1>11. PICK k \in Nat : k = 1 /\ tx'[w].k = k /\ tx'[w].order = o
  BY <1>4, <1>5, <1>6
<1>12. LinesDone(available, t, draw)
  <2> SUFFICES ASSUME NEW j \in 1..Len(OrderLines[o])
               PROVE  /\ ~ j < 1
                      /\ t.alloc[OrderLines[o][j]] = None
                      /\ \A r \in Rows : draw[OrderLines[o][j]][r] = 0
    BY <1>4, <1>5 DEF LinesDone, LineDone
  <2>1. OrderLines[o] \in Seq(Lines)
    OBVIOUS
  <2> QED
    BY <1>7, <1>9, <2>1, OrderLine
<1>13. RowsMoved(w, draw)'
  <2>1. \A r \in Rows :
          /\ AvailableIn(w, r)' = available'[r] - Drawn(o, draw, r)
          /\ Placed(w, r)' = Drawn(o, draw, r)
          /\ Drawn(o, draw, r) = DrawnBy(o, draw, k - 1, r) + 0
    <3> TAKE r \in Rows
    <3>1. AvailableIn(w, r)' = available'[r] /\ available'[r] \in Nat
      BY <1>3, <1>6, <1>7 DEF AvailableIn, TypeOK
    <3>2. Placed(w, r)' = 0
      BY <1>6, <1>7, <1>10 DEF Placed
    <3>4. Drawn(o, draw, r) = 0 /\ DrawnBy(o, draw, k - 1, r) = 0
      <4>1. Drawn(o, draw, r) = 0 /\ DrawnBy(o, draw, 0, r) = 0
        BY <1>9, NothingDrawn
      <4>2. k - 1 = 0
        BY <1>11
      <4> QED
        BY <4>1, <4>2
    <3> QED
      BY <3>1, <3>2, <3>4
  <2> QED
    BY <1>10, <1>11, <2>1, RowsMovedNext
<1>14. Draws(w, draw)'
  <2>1. LineUntouched(t, draw)
    <3> SUFFICES ASSUME 1 <= Len(OrderLines[o])
                 PROVE  \A r \in Rows : draw[OrderLines[o][1]][r] = 0
      BY <1>4, <1>5 DEF LineUntouched
    <3>1. OrderLines[o] \in Seq(Lines)
      OBVIOUS
    <3>2. 1 \in 1..Len(OrderLines[o])
      BY <3>1
    <3> QED
      BY <1>9, <3>2, OrderLine
  <2> QED
    BY <1>6, <1>12, <1>13, <2>1, DrawsNext
<1> QED
  BY <1>2, <1>4, <1>5, <1>8, <1>14, SerialStep

\* Between two rows, what the earlier lines leave is what the request sees, and what the
\* current line has drawn.
LEMMA LeftIsSeen ==
  ASSUME TypeOK, NEW w \in Workers, NEW o \in Orders, tx[w].order = o, ~InRow(w),
         NEW k \in 1..Len(OrderLines[o]), tx[w].k = k,
         NEW draw \in [LinesOf(o) -> [Rows -> Nat]], RowsMoved(w, draw),
         NEW r \in Rows, NEW d \in Nat, IF InLine(w) THEN d = draw[Line(w)][r] ELSE d = 0
  PROVE  /\ Left(available, o, draw, k, r) = AvailableIn(w, r) + d
         /\ Left(available, o, draw, k, r) \in Nat
<1>0. OrderLines[o] \in Seq(Lines) /\ k \in Nat
  OBVIOUS
<1>1. PICK n \in 0..Len(OrderLines[o]) : n = k - 1
  BY <1>0
<1>2. /\ AvailableIn(w, r) = available[r] - Drawn(o, draw, r)
      /\ Drawn(o, draw, r) = DrawnBy(o, draw, n, r) + d
  BY <1>1 DEF RowsMoved
<1>3. PICK a, b, c, x \in Int :
        /\ a = available[r] /\ b = Drawn(o, draw, r) /\ c = DrawnBy(o, draw, n, r)
        /\ x = AvailableIn(w, r) /\ x \in Nat
  <2>1. available[r] \in Int /\ AvailableIn(w, r) \in Nat
    BY AvailableType DEF TypeOK
  <2>2. Drawn(o, draw, r) \in Nat
    BY DrawTypes
  <2>3. DrawnBy(o, draw, n, r) \in Nat
    BY DrawTypes
  <2> QED
    BY <2>1, <2>2, <2>3
<1>4. x = a - b /\ b = c + d
  BY <1>2, <1>3
<1>5. Left(available, o, draw, k, r) = a - c
  BY <1>1, <1>3 DEF Left
<1>6. a - c = x + d
  BY <1>4
<1>7. x + d \in Nat
  BY <1>3
<1> QED
  BY <1>3, <1>5, <1>6, <1>7

LEMMA SameRows ==
  ASSUME NEW w \in Workers, tx'[w].avail = tx[w].avail, tx'[w].drawn = tx[w].drawn,
         UNCHANGED available, ~InRow(w), ~InRow(w)'
  PROVE  \A r \in Rows : AvailableIn(w, r)' = AvailableIn(w, r) /\ Placed(w, r)' = Placed(w, r)
BY DEF AvailableIn, Placed

\* The k-th line, once filled and written, joins those before it.
KeepsOtherLines(t, u, k) ==
  \A j \in 1..Len(OrderLines[t.order]) :
    j # k => u.alloc[OrderLines[t.order][j]] = t.alloc[OrderLines[t.order][j]]

LEMMA LineJoins ==
  ASSUME NEW t, NEW u, NEW o \in Orders, NEW k \in Nat, NEW m \in Nat, NEW draw,
         t.order = o, t.k = k, u.order = o, u.k = m, m = k + 1,
         LinesDone(available, t, draw), KeepsOtherLines(t, u, k),
         LineFilled(available, o, draw, k), LineWritten(u, draw, OrderLines[o][k])
  PROVE  LinesDone(available, u, draw) /\ LineUntouched(u, draw)
<1>0. OrderLines[o] \in Seq(Lines)
  OBVIOUS
<1>1. \A j \in 1..Len(OrderLines[o]) : LineDone(available, t, draw, j)
  BY DEF LinesDone
<1>2. ASSUME NEW j \in 1..Len(OrderLines[o])
      PROVE  /\ LineDone(available, u, draw, j)
             /\ j >= m => \A r \in Rows : draw[OrderLines[o][j]][r] = 0
  <2>0. j \in Nat /\ LineDone(available, t, draw, j)
    BY <1>0, <1>1
  <2>1. j # k => u.alloc[OrderLines[o][j]] = t.alloc[OrderLines[o][j]]
    BY DEF KeepsOtherLines
  <2>2. CASE j < k
    <3>1. j < m /\ ~ j >= m /\ ~ j > m /\ j # k
      BY <2>0, <2>2
    <3>2. LineFilled(available, o, draw, j) /\ LineWritten(t, draw, OrderLines[o][j])
      BY <2>0, <2>2 DEF LineDone
    <3>3. LineWritten(u, draw, OrderLines[o][j])
      BY <2>1, <3>1, <3>2 DEF LineWritten
    <3> QED
      BY <3>1, <3>2, <3>3 DEF LineDone
  <2>3. CASE j = k
    <3>1. j < m /\ ~ j >= m /\ ~ j > m
      BY <2>0, <2>3
    <3> QED
      BY <2>3, <3>1 DEF LineDone
  <2>4. CASE j > k
    <3>1. ~ j < m /\ j >= k /\ j # k
      BY <2>0, <2>4
    <3>2. t.alloc[OrderLines[o][j]] = None /\ \A r \in Rows : draw[OrderLines[o][j]][r] = 0
      BY <2>0, <2>4, <3>1 DEF LineDone
    <3> QED
      BY <2>1, <3>1, <3>2 DEF LineDone
  <2> QED
    BY <2>0, <2>2, <2>3, <2>4
<1>3. LinesDone(available, u, draw)
  BY <1>2 DEF LinesDone
<1>4. LineUntouched(u, draw)
  <2> SUFFICES ASSUME m <= Len(OrderLines[o])
               PROVE  \A r \in Rows : draw[OrderLines[o][m]][r] = 0
    BY DEF LineUntouched
  <2>1. m \in 1..Len(OrderLines[o]) /\ m >= m
    BY <1>0
  <2> QED
    BY <1>2, <2>1
<1> QED
  BY <1>3, <1>4

LEMMA LineAt ==
  ASSUME NEW t, NEW o \in Orders, NEW k \in 1..Len(OrderLines[o]), t.order = o, t.k = k,
         NEW av, NEW draw, LinesDone(av, t, draw)
  PROVE  t.alloc[OrderLines[o][k]] = None
<1>1. OrderLines[o] \in Seq(Lines)
  OBVIOUS
<1>2. k >= k /\ LineDone(av, t, draw, k)
  BY <1>1 DEF LinesDone
<1> QED
  BY <1>2 DEF LineDone

HIDE ReleaseAssumption

\* What has been drawn by the order is what its lines up to the current one have drawn.
LEMMA DrawnThrough ==
  ASSUME NEW w \in Workers, NEW o \in Orders, NEW k \in 1..Len(OrderLines[o]),
         tx[w].order = o, tx[w].k = k,
         NEW draw \in [LinesOf(o) -> [Rows -> Nat]], RowsMoved(w, draw),
         ~InLine(w) => LineUntouched(tx[w], draw), NEW r \in Rows
  PROVE  Drawn(o, draw, r) = DrawnBy(o, draw, k, r) /\ Drawn(o, draw, r) \in Nat
<1>1. Drawn(o, draw, r) = DrawnBy(o, draw, k - 1, r)
                            + IF InLine(w) THEN draw[Line(w)][r] ELSE 0
  BY DEF RowsMoved
<1>2. DrawnBy(o, draw, k, r) = DrawnBy(o, draw, k - 1, r) + draw[OrderLines[o][k]][r]
  BY DrawnByNext
<1>3. draw[OrderLines[o][k]][r] = IF InLine(w) THEN draw[Line(w)][r] ELSE 0
  <2>1. CASE InLine(w)
    BY <2>1 DEF Line
  <2>2. CASE ~InLine(w)
    <3>1. OrderLines[o] \in Seq(Lines)
      BY ReleaseAssumption
    <3>2. LineUntouched(tx[w], draw) /\ k <= Len(OrderLines[o])
      BY <2>2, <3>1
    <3> QED
      BY <2>2, <3>2 DEF LineUntouched
  <2> QED
    BY <2>1, <2>2
<1>4. Drawn(o, draw, r) \in Nat
  BY DrawTypes
<1> QED
  BY <1>1, <1>2, <1>3, <1>4

\* The request goes on to the next line, having filled and written the k-th.
LEMMA NextLine ==
  ASSUME IInv, NEW w \in Workers, NEW t, Local(w, "line", t), ~InRow(w),
         NEW o \in Orders, NEW k \in Nat, NEW m \in Nat, k \in 1..Len(OrderLines[o]),
         tx[w].order = o, tx[w].k = k, t.order = o, t.k = m, m = k + 1,
         t.avail = tx[w].avail, t.drawn = tx[w].drawn, KeepsOtherLines(tx[w], t, k),
         NEW draw \in [LinesOf(o) -> [Rows -> Nat]], Draws(w, draw),
         LineFilled(available, o, draw, k), LineWritten(t, draw, OrderLines[o][k])
  PROVE  Draws(w, draw)'
<1>0. m - 1 = k
  OBVIOUS
<1>1. tx'[w] = t /\ pc'[w] = "line" /\ UNCHANGED <<available, reserved>>
  BY DEF IInv, TypeOK, Local, Goto, stock
<1>2. LinesDone(available, tx[w], draw) /\ RowsMoved(w, draw)
  BY DEF Draws
<1>3. LinesDone(available, t, draw) /\ LineUntouched(t, draw)
  BY <1>2, LineJoins
<1>4. ~InLine(w) => LineUntouched(tx[w], draw)
  BY DEF Draws
<1>5. ~InLine(w)' /\ ~InRow(w)'
  BY <1>1 DEF InLine, InRow
<1>6. RowsMoved(w, draw)'
  <2>1. ASSUME NEW r \in Rows
        PROVE  /\ AvailableIn(w, r)' = available'[r] - Drawn(o, draw, r)
               /\ Placed(w, r)' = Drawn(o, draw, r)
               /\ Drawn(o, draw, r) = DrawnBy(o, draw, m - 1, r) + 0
    <3>1. /\ AvailableIn(w, r) = available[r] - Drawn(o, draw, r)
          /\ Placed(w, r) = Drawn(o, draw, r)
      BY <1>2 DEF RowsMoved
    <3>2. AvailableIn(w, r)' = AvailableIn(w, r) /\ Placed(w, r)' = Placed(w, r)
      BY <1>1, <1>5, SameRows
    <3>3. Drawn(o, draw, r) = DrawnBy(o, draw, k, r) /\ Drawn(o, draw, r) \in Nat
      BY <1>2, <1>4, DrawnThrough
    <3>4. Drawn(o, draw, r) = DrawnBy(o, draw, m - 1, r) + 0
      BY <1>0, <3>3
    <3> QED
      BY <1>1, <3>1, <3>2, <3>4
  <2>2. tx'[w].order = o /\ tx'[w].k = m
    BY <1>1
  <2> QED
    BY <1>5, <2>1, <2>2, RowsMovedNext
<1> QED
  BY <1>1, <1>3, <1>6, DrawsNext

LEMMA SerialSkipLine ==
  ASSUME IInv, SerialOK, NEW w \in Workers, SkipLine(w) PROVE SerialOK'
<1>1. PICK t : t = [tx[w] EXCEPT !.k = @ + 1]
  OBVIOUS
<1>2. Local(w, "line", t)
  BY <1>1 DEF SkipLine
<1>3. /\ TypeOK /\ ControlOK(w) /\ pc[w] = "line" /\ InTx(w) /\ ~InLine(w) /\ ~InRow(w)
      /\ HasLine(w) /\ Requested[Line(w)] <= tx[w].base[Line(w)]
  BY DEF IInv, WorkerOK, SkipLine, InTx, InLine, InRow
<1>4. /\ t.order = tx[w].order /\ t.base = tx[w].base /\ t.alloc = tx[w].alloc
      /\ t.avail = tx[w].avail /\ t.drawn = tx[w].drawn /\ t.k = tx[w].k + 1
  BY <1>1, <1>3, TxTypes DEF Tx
<1>5. PICK o \in Orders, k \in Nat :
        o = tx[w].order /\ k = tx[w].k /\ k \in 1..Len(OrderLines[o])
  BY <1>3, TxTypes DEF ControlOK, HasLine
<1>6. PICK ln \in Lines : ln = OrderLines[o][k] /\ ln = Line(w) /\ ln \in LinesOf(o)
  BY <1>5, OrderLine DEF Line
<1>7. SUFFICES ASSUME ~overlapped'
      PROVE  /\ status[t.order] = "DRAFT" /\ \A p \in Lines : t.base[p] = 0
             /\ \E draw \in [LinesOf(o) -> [Rows -> Nat]] : Draws(w, draw)'
  BY <1>2, <1>4, <1>5, SerialStep
<1>8. status[o] = "DRAFT" /\ \A p \in Lines : tx[w].base[p] = 0
  BY <1>2, <1>3, <1>5, <1>7, SerialFacts DEF Local
<1>9. PICK draw \in [LinesOf(o) -> [Rows -> Nat]] : Draws(w, draw)
  BY <1>2, <1>3, <1>5, <1>7, SerialFacts DEF Local
<1>10. LinesDone(available, tx[w], draw) /\ RowsMoved(w, draw)
  BY <1>9 DEF Draws
<1>11. Requested[ln] = 0
  <2>1. Requested[ln] \in Nat /\ Requested[ln] <= 0
    BY <1>3, <1>6, <1>8, ReleaseAssumption
  <2> QED
    BY <2>1
<1>12. \A r \in Rows : draw[ln][r] = 0
  <2>1. LineUntouched(tx[w], draw) /\ k <= Len(OrderLines[o])
    BY <1>3, <1>5, <1>9 DEF Draws
  <2> QED
    BY <1>5, <1>6, <2>1 DEF LineUntouched
<1>13. Got(draw, ln) = 0
  BY <1>12, RowsAssumption, SumZero DEF Got
<1>14. \A r \in Rows : Left(available, o, draw, k, r) \in Nat
  <2> TAKE r \in Rows
  <2>1. 0 \in Nat /\ IF InLine(w) THEN 0 = draw[Line(w)][r] ELSE 0 = 0
    BY <1>3
  <2> QED
    BY <1>3, <1>5, <1>10, <2>1, LeftIsSeen
<1>15. LineFilled(available, o, draw, k)
  <2>1. PICK s \in [Rows -> Nat] :
          \A r \in Rows : s[r] = IF r \in RowsFor(ln) THEN Left(available, o, draw, k, r) ELSE 0
    <3>1. [r \in Rows |-> IF r \in RowsFor(ln) THEN Left(available, o, draw, k, r) ELSE 0]
            \in [Rows -> Nat]
      BY <1>14
    <3> QED
      BY <3>1
  <2>2. \A r \in Rows : draw[ln][r] <= s[r]
    BY <1>12
  <2>3. InOrder(Candidates[ln], s, draw[ln])
    <3>1. ASSUME NEW j \in 1..Len(Candidates[ln]) PROVE ~ draw[ln][Candidates[ln][j]] > 0
      <4>1. Candidates[ln][j] \in Rows
        BY ReleaseAssumption
      <4> QED
        BY <1>12, <4>1
    <3> QED
      BY <3>1 DEF InOrder
  <2>4. Got(draw, ln) <= Requested[ln] /\ Got(draw, ln) = Requested[ln]
    BY <1>11, <1>13
  <2> QED
    BY <1>5, <1>6, <1>14, <2>1, <2>2, <2>3, <2>4, LineCompleted
<1>16. LineWritten(t, draw, ln)
  <2>1. tx[w].alloc[OrderLines[o][k]] = None
    BY <1>5, <1>10, LineAt
  <2>2. tx[w].alloc[ln] = None
    BY <1>6, <2>1
  <2> QED
    BY <1>4, <1>13, <2>2 DEF LineWritten
<1>17. Draws(w, draw)'
  <2>1. PICK m \in Nat : m = k + 1
    BY <1>5
  <2>2. KeepsOtherLines(tx[w], t, k)
    BY <1>4 DEF KeepsOtherLines
  <2> QED
    BY <1>2, <1>3, <1>4, <1>5, <1>6, <1>9, <1>15, <1>16, <2>1, <2>2, NextLine, Zenon
<1> QED
  BY <1>4, <1>5, <1>8, <1>17

\* A statement within a line, which the request has then drawn for.
LEMMA RowsInLine ==
  ASSUME NEW w \in Workers, NEW o \in Orders, NEW k \in 1..Len(OrderLines[o]), k \in Nat,
         tx'[w].order = o, tx'[w].k = k, pc'[w] \in {"take", "find", "reserve"},
         NEW draw \in [LinesOf(o) -> [Rows -> Nat]],
         \A r \in Rows :
           /\ Drawn(o, draw, r) = DrawnBy(o, draw, k, r)
           /\ ~(InRow(w)' /\ r = Row(w)') => AvailableIn(w, r)' = available'[r] - Drawn(o, draw, r)
           /\ Placed(w, r)' = Drawn(o, draw, r)
  PROVE  RowsMoved(w, draw)'
<1>1. InLine(w)' /\ Line(w)' = OrderLines[o][k]
  BY DEF InLine, Line
<1>2. ASSUME NEW r \in Rows
      PROVE  Drawn(o, draw, r) = DrawnBy(o, draw, k - 1, r) + draw[Line(w)'][r]
  <2>1. Drawn(o, draw, r) = DrawnBy(o, draw, k, r)
    OBVIOUS
  <2>2. DrawnBy(o, draw, k, r) = DrawnBy(o, draw, k - 1, r) + draw[OrderLines[o][k]][r]
    BY DrawnByNext
  <2> QED
    BY <1>1, <2>1, <2>2
<1>3. ASSUME NEW r \in Rows
      PROVE  /\ ~(InRow(w)' /\ r = Row(w)') => AvailableIn(w, r)' = available'[r] - Drawn(o, draw, r)
             /\ Placed(w, r)' = Drawn(o, draw, r)
             /\ Drawn(o, draw, r) = DrawnBy(o, draw, k - 1, r)
                                      + IF InLine(w)' THEN draw[Line(w)'][r] ELSE 0
  BY <1>1, <1>2, Zenon
<1> QED
  BY <1>3, RowsMovedNext

\* One that writes no row and enters no row.
LEMMA RowsStay ==
  ASSUME NEW w \in Workers, ~InRow(w), NEW t, tx'[w] = t, pc'[w] = "take",
         UNCHANGED <<available, reserved>>,
         NEW o \in Orders, NEW k \in 1..Len(OrderLines[o]), k \in Nat,
         tx[w].order = o, tx[w].k = k, t.order = o, t.k = k,
         t.avail = tx[w].avail, t.drawn = tx[w].drawn,
         NEW draw \in [LinesOf(o) -> [Rows -> Nat]], Draws(w, draw)
  PROVE  RowsMoved(w, draw)'
<1>1. RowsMoved(w, draw) /\ (~InLine(w) => LineUntouched(tx[w], draw))
  BY DEF Draws
<1>2. ~InRow(w)'
  BY DEF InRow
<1>3. ASSUME NEW r \in Rows
      PROVE  /\ Drawn(o, draw, r) = DrawnBy(o, draw, k, r)
             /\ AvailableIn(w, r)' = available'[r] - Drawn(o, draw, r)
             /\ Placed(w, r)' = Drawn(o, draw, r)
  <2>1. /\ AvailableIn(w, r) = available[r] - Drawn(o, draw, r)
        /\ Placed(w, r) = Drawn(o, draw, r)
    BY <1>1 DEF RowsMoved
  <2>2. AvailableIn(w, r)' = AvailableIn(w, r) /\ Placed(w, r)' = Placed(w, r)
    BY <1>2, SameRows
  <2>3. Drawn(o, draw, r) = DrawnBy(o, draw, k, r)
    BY <1>1, DrawnThrough
  <2> QED
    BY <2>1, <2>2, <2>3
<1> QED
  BY <1>3, RowsInLine

LEMMA LinesStay ==
  ASSUME NEW av, NEW t, NEW u, NEW draw, LinesDone(av, t, draw),
         u.order = t.order, u.k = t.k, u.alloc = t.alloc
  PROVE  LinesDone(av, u, draw)
BY DEF LinesDone, LineDone, LineWritten

\* Nothing drawn yet of the current line, whose candidates were just read.
LEMMA LineBegins ==
  ASSUME NEW av, NEW o \in Orders, NEW k \in 1..Len(OrderLines[o]), NEW ln \in Lines,
         ln = OrderLines[o][k], NEW need, NEW seen, NEW draw,
         \A r \in Rows : /\ seen[r] = IF r \in RowsFor(ln) THEN Left(av, o, draw, k, r) ELSE 0
                         /\ seen[r] \in Nat
                         /\ draw[ln][r] = 0
  PROVE  LineProgress(av, o, k, 1, need, 0, seen, draw)
<1>1. PICK c \in Seq(Rows) : c = Candidates[ln]
  BY ReleaseAssumption
<1>2. \A r \in Rows : draw[ln][r] <= seen[r]
  OBVIOUS
<1>3. \A j \in 1..Len(c) : draw[ln][c[j]] = 0 /\ ~ j < 1
  BY <1>1
<1>4. InOrder(c, seen, draw[ln])
  BY <1>3 DEF InOrder
<1>5. Got(draw, ln) = 0
  BY RowsAssumption, SumZero DEF Got
<1> QED
  BY <1>1, <1>2, <1>3, <1>4, <1>5 DEF LineProgress

LEMMA SerialSelectStock ==
  ASSUME IInv, SerialOK, NEW w \in Workers, SelectStock(w) PROVE SerialOK'
<1>1. PICK s : s = [r \in Rows |-> IF r \in RowsFor(Line(w)) THEN AvailableIn(w, r) ELSE 0]
  OBVIOUS
<1>2. PICK t : t = [tx[w] EXCEPT !.i = 1,
                                 !.need = Requested[Line(w)] - tx[w].base[Line(w)],
                                 !.got = tx[w].base[Line(w)],
                                 !.seen = s]
  OBVIOUS
<1>3. Local(w, "take", t)
  BY <1>1, <1>2 DEF SelectStock, RowsFor
<1>4. /\ TypeOK /\ ControlOK(w) /\ pc[w] = "line" /\ InTx(w) /\ ~InLine(w) /\ ~InRow(w)
      /\ HasLine(w)
  BY DEF IInv, WorkerOK, SelectStock, InTx, InLine, InRow
<1>5. /\ t.order = tx[w].order /\ t.base = tx[w].base /\ t.alloc = tx[w].alloc
      /\ t.avail = tx[w].avail /\ t.drawn = tx[w].drawn /\ t.k = tx[w].k
      /\ t.i = 1 /\ t.got = tx[w].base[Line(w)] /\ t.seen = s
  BY <1>2, <1>4, TxTypes DEF Tx
<1>6. PICK o \in Orders, k \in Nat :
        o = tx[w].order /\ k = tx[w].k /\ k \in 1..Len(OrderLines[o])
  BY <1>4, TxTypes DEF ControlOK, HasLine
<1>7. PICK ln \in Lines : ln = OrderLines[o][k] /\ ln = Line(w) /\ ln \in LinesOf(o)
  BY <1>6, OrderLine DEF Line
<1>8. SUFFICES ASSUME ~overlapped'
      PROVE  /\ status[t.order] = "DRAFT" /\ \A p \in Lines : t.base[p] = 0
             /\ \E draw \in [LinesOf(o) -> [Rows -> Nat]] : Draws(w, draw)'
  BY <1>3, <1>5, <1>6, SerialStep
<1>9. status[o] = "DRAFT" /\ \A p \in Lines : tx[w].base[p] = 0
  BY <1>3, <1>4, <1>6, <1>8, SerialFacts DEF Local
<1>10. PICK draw \in [LinesOf(o) -> [Rows -> Nat]] : Draws(w, draw)
  BY <1>3, <1>4, <1>6, <1>8, SerialFacts DEF Local
<1>11. LinesDone(available, tx[w], draw) /\ RowsMoved(w, draw)
  BY <1>10 DEF Draws
<1>12. \A r \in Rows : draw[ln][r] = 0
  <2>1. LineUntouched(tx[w], draw) /\ k <= Len(OrderLines[o])
    BY <1>4, <1>6, <1>10 DEF Draws, HasLine
  <2> QED
    BY <1>6, <1>7, <2>1 DEF LineUntouched
<1>13. ASSUME NEW r \in Rows
       PROVE  /\ s[r] = IF r \in RowsFor(ln) THEN Left(available, o, draw, k, r) ELSE 0
              /\ s[r] \in Nat
  <2>1. 0 \in Nat /\ IF InLine(w) THEN 0 = draw[Line(w)][r] ELSE 0 = 0
    BY <1>4
  <2>2. /\ Left(available, o, draw, k, r) = AvailableIn(w, r) + 0
        /\ Left(available, o, draw, k, r) \in Nat
    BY <1>4, <1>6, <1>11, <2>1, LeftIsSeen
  <2>3. AvailableIn(w, r) \in Nat
    BY <1>4, AvailableType
  <2>4. s[r] = IF r \in RowsFor(ln) THEN AvailableIn(w, r) ELSE 0
    BY <1>1, <1>7
  <2> QED
    BY <2>2, <2>3, <2>4
<1>14. tx'[w] = t /\ pc'[w] = "take" /\ UNCHANGED <<available, reserved>>
  BY <1>3, <1>4 DEF TypeOK, Local, Goto, stock
<1>15. LineBegun(available, t, draw)
  <2>1. t.got = 0
    BY <1>5, <1>7, <1>9
  <2>2. \A r \in Rows :
          /\ t.seen[r] = IF r \in RowsFor(ln) THEN Left(available, o, draw, k, r) ELSE 0
          /\ t.seen[r] \in Nat
          /\ draw[ln][r] = 0
    BY <1>5, <1>12, <1>13
  <2>3. t.order = o /\ t.k = k /\ t.i = 1
    BY <1>5, <1>6
  <2>4. LineProgress(available, o, k, 1, t.need, 0, t.seen, draw)
    BY <1>6, <1>7, <2>2, LineBegins
  <2> QED
    BY <2>1, <2>3, <2>4 DEF LineBegun
<1>16. RowsMoved(w, draw)'
  BY <1>4, <1>5, <1>6, <1>10, <1>14, RowsStay
<1>17. LinesDone(available, t, draw)
  BY <1>5, <1>11, LinesStay
<1>18. Draws(w, draw)'
  BY <1>14, <1>15, <1>16, <1>17, DrawsNext
<1> QED
  BY <1>5, <1>6, <1>9, <1>18

\* The i-th candidate has nothing left.
LEMMA RowSkipped ==
  ASSUME NEW av, NEW o \in Orders, NEW k \in 1..Len(OrderLines[o]),
         NEW ln \in Lines, ln = OrderLines[o][k], NEW i \in 1..Len(Candidates[ln]),
         NEW need, NEW got, NEW seen, NEW draw,
         LineProgress(av, o, k, i, need, got, seen, draw),
         draw[ln][Candidates[ln][i]] = seen[Candidates[ln][i]]
  PROVE  LineProgress(av, o, k, i + 1, need, got, seen, draw)
<1>1. PICK c \in Seq(Rows) : c = Candidates[ln]
  BY ReleaseAssumption
<1>2. ASSUME NEW j \in 1..Len(c)
      PROVE  /\ j >= i + 1 => draw[ln][c[j]] = 0
             /\ j < i + 1 /\ need > 0 => draw[ln][c[j]] = seen[c[j]]
  <2>1. /\ j >= i => draw[ln][c[j]] = 0
        /\ j < i /\ need > 0 => draw[ln][c[j]] = seen[c[j]]
    BY <1>1 DEF LineProgress
  <2>2. (j >= i + 1 => j >= i) /\ (j < i + 1 => j < i \/ j = i)
    BY <1>1
  <2> QED
    BY <1>1, <2>1, <2>2
<1> QED
  BY <1>1, <1>2 DEF LineProgress

LEMMA LineStays ==
  ASSUME NEW av, NEW t, NEW u, NEW draw, LineBegun(av, t, draw), u.order = t.order,
         u.k = t.k, u.i = t.i, u.seen = t.seen, u.need = t.need, u.got = t.got
  PROVE  LineBegun(av, u, draw)
BY DEF LineBegun

\* What a request within a line, and the line within its order, are.
LEMMA AtLine ==
  ASSUME TypeOK, NEW w \in Workers, ControlOK(w), InLine(w)
  PROVE  \E o \in Orders, k \in Nat, ln \in Lines :
           /\ o = tx[w].order /\ k = tx[w].k /\ k \in 1..Len(OrderLines[o])
           /\ ln = OrderLines[o][k] /\ ln = Line(w) /\ ln \in LinesOf(o)
<1>1. PICK o \in Orders, k \in Nat :
        o = tx[w].order /\ k = tx[w].k /\ k \in 1..Len(OrderLines[o])
  <2>1. tx[w].order \in Orders /\ tx[w].k \in Nat /\ tx[w].k >= 1
    BY TxTypes DEF ControlOK, InLine, InTx
  <2>2. tx[w].k <= Len(OrderLines[tx[w].order])
    BY DEF ControlOK, HasLine
  <2>3. OrderLines[tx[w].order] \in Seq(Lines)
    BY <2>1, ReleaseAssumption
  <2> QED
    BY <2>1, <2>2, <2>3
<1>2. PICK ln \in Lines : ln = OrderLines[o][k] /\ ln = Line(w) /\ ln \in LinesOf(o)
  BY <1>1, OrderLine DEF Line
<1> QED
  BY <1>1, <1>2

LEMMA SerialSkipRow ==
  ASSUME IInv, SerialOK, NEW w \in Workers, SkipRow(w) PROVE SerialOK'
<1>1. PICK t : t = [tx[w] EXCEPT !.i = @ + 1]
  OBVIOUS
<1>2. Local(w, "take", t)
  BY <1>1 DEF SkipRow
<1>3. /\ TypeOK /\ ControlOK(w) /\ pc[w] = "take" /\ InTx(w) /\ InLine(w) /\ ~InRow(w)
      /\ HasRow(w) /\ tx[w].seen[Row(w)] = 0
  BY DEF IInv, WorkerOK, SkipRow, InTx, InLine, InRow
<1>4. /\ t.order = tx[w].order /\ t.base = tx[w].base /\ t.alloc = tx[w].alloc
      /\ t.avail = tx[w].avail /\ t.drawn = tx[w].drawn /\ t.k = tx[w].k
      /\ t.i = tx[w].i + 1 /\ t.got = tx[w].got /\ t.need = tx[w].need /\ t.seen = tx[w].seen
  BY <1>1, <1>3, TxTypes DEF Tx
<1>5. PICK o \in Orders, k \in Nat, ln \in Lines :
        /\ o = tx[w].order /\ k = tx[w].k /\ k \in 1..Len(OrderLines[o])
        /\ ln = OrderLines[o][k] /\ ln = Line(w) /\ ln \in LinesOf(o)
  BY <1>3, AtLine
<1>6. SUFFICES ASSUME ~overlapped'
      PROVE  /\ status[t.order] = "DRAFT" /\ \A p \in Lines : t.base[p] = 0
             /\ \E draw \in [LinesOf(o) -> [Rows -> Nat]] : Draws(w, draw)'
  BY <1>2, <1>4, <1>5, SerialStep
<1>7. status[o] = "DRAFT" /\ \A p \in Lines : tx[w].base[p] = 0
  BY <1>2, <1>3, <1>5, <1>6, SerialFacts DEF Local
<1>8. PICK draw \in [LinesOf(o) -> [Rows -> Nat]] : Draws(w, draw)
  BY <1>2, <1>3, <1>5, <1>6, SerialFacts DEF Local
<1>9. LinesDone(available, tx[w], draw) /\ LineBegun(available, tx[w], draw)
  BY <1>3, <1>8 DEF Draws
<1>10. tx'[w] = t /\ pc'[w] = "take" /\ UNCHANGED <<available, reserved>>
  BY <1>2, <1>3 DEF TypeOK, Local, Goto, stock
<1>11. LineBegun(available, t, draw)
  <2>1. PICK i \in 1..Len(Candidates[ln]) :
          i = tx[w].i /\ Row(w) = Candidates[ln][i] /\ Row(w) \in Rows
    BY <1>3, <1>5, RowType DEF ControlOK, Row
  <2>2. LineProgress(available, o, k, i, t.need, t.got, t.seen, draw)
    BY <1>4, <1>5, <1>9, <2>1 DEF LineBegun
  <2>3. draw[ln][Candidates[ln][i]] = t.seen[Candidates[ln][i]]
    <3>1. draw[ln][Row(w)] \in Nat
      BY <1>5, <2>1
    <3>2. draw[ln][Row(w)] <= 0
      BY <1>3, <1>4, <1>5, <2>1, <2>2 DEF LineProgress
    <3> QED
      BY <1>3, <1>4, <2>1, <3>1, <3>2
  <2>4. LineProgress(available, o, k, i + 1, t.need, t.got, t.seen, draw)
    BY <1>5, <2>2, <2>3, RowSkipped
  <2>5. t.i = i + 1 /\ t.order = o /\ t.k = k
    BY <1>4, <1>5, <2>1
  <2> QED
    BY <2>4, <2>5 DEF LineBegun
<1>12. RowsMoved(w, draw)'
  BY <1>3, <1>4, <1>5, <1>8, <1>10, RowsStay
<1>13. LinesDone(available, t, draw)
  BY <1>4, <1>9, LinesStay
<1>14. Draws(w, draw)'
  BY <1>10, <1>11, <1>12, <1>13, DrawsNext
<1> QED
  BY <1>4, <1>5, <1>7, <1>14

\* The two statements of a row write no other row's AVAILABLE row.
KeepsOtherRows(t, u, x) == \A r \in Rows \ {x} : u.avail[r] = t.avail[r]

LEMMA RowsInRow ==
  ASSUME NEW w \in Workers, NEW t, tx'[w] = t, pc'[w] \in {"find", "reserve"},
         UNCHANGED <<available, reserved>>,
         NEW o \in Orders, NEW k \in 1..Len(OrderLines[o]), k \in Nat, NEW x, x = Row(w),
         tx[w].order = o, tx[w].k = k, t.order = o, t.k = k, t.i = tx[w].i,
         KeepsOtherRows(tx[w], t, x), \A r \in Rows : Placed(w, r)' = Placed(w, r),
         NEW draw \in [LinesOf(o) -> [Rows -> Nat]], Draws(w, draw)
  PROVE  RowsMoved(w, draw)'
<1>1. RowsMoved(w, draw) /\ (~InLine(w) => LineUntouched(tx[w], draw))
  BY DEF Draws
<1>2. InRow(w)' /\ Row(w)' = x
  BY DEF InRow, Row, Line
<1>3. ASSUME NEW r \in Rows
      PROVE  /\ Drawn(o, draw, r) = DrawnBy(o, draw, k, r)
             /\ r # x => AvailableIn(w, r)' = available'[r] - Drawn(o, draw, r)
             /\ Placed(w, r)' = Drawn(o, draw, r)
  <2>1. /\ r # x => AvailableIn(w, r) = available[r] - Drawn(o, draw, r)
        /\ Placed(w, r) = Drawn(o, draw, r)
    BY <1>1 DEF RowsMoved
  <2>2. Placed(w, r)' = Placed(w, r)
    OBVIOUS
  <2>3. r # x => AvailableIn(w, r)' = AvailableIn(w, r)
    BY DEF AvailableIn, KeepsOtherRows
  <2>4. Drawn(o, draw, r) = DrawnBy(o, draw, k, r)
    BY <1>1, DrawnThrough
  <2> QED
    BY <2>1, <2>2, <2>3, <2>4
<1> QED
  BY <1>2, <1>3, RowsInLine

LEMMA SerialTakeRow ==
  ASSUME IInv, SerialOK, NEW w \in Workers, TakeRow(w) PROVE SerialOK'
<1>1. PICK amount : amount = Smaller(tx[w].seen[Row(w)], tx[w].need)
  OBVIOUS
<1>2. PICK av : av = [tx[w].avail EXCEPT ![Row(w)] = tx[w].seen[Row(w)] - amount]
  OBVIOUS
<1>2a. PICK dr : dr = [tx[w].drawn EXCEPT ![Row(w)] = tx[w].drawn[Row(w)] + amount]
  OBVIOUS
<1>3. PICK t : t = [tx[w] EXCEPT !.avail = av, !.take = amount, !.drawn = dr]
  OBVIOUS
<1>4. TypeOK /\ ControlOK(w) /\ pc[w] = "take" /\ InTx(w) /\ InLine(w)
  BY DEF IInv, WorkerOK, TakeRow, Draw, InTx, InLine
<1>5. Local(w, "find", t)
  <2>1. tx[w] \in Tx
    BY <1>4, TxTypes
  <2>2. t = [tx[w] EXCEPT !.avail[Row(w)] = tx[w].seen[Row(w)] - amount, !.take = amount,
                          !.drawn[Row(w)] = @ + amount]
    BY <1>2, <1>2a, <1>3, <2>1 DEF Tx
  <2> QED
    BY <1>1, <2>2 DEF TakeRow, Draw
<1>6. /\ t.order = tx[w].order /\ t.base = tx[w].base /\ t.alloc = tx[w].alloc
      /\ t.avail = av /\ t.drawn = dr /\ t.take = amount /\ t.k = tx[w].k
      /\ t.i = tx[w].i /\ t.got = tx[w].got /\ t.need = tx[w].need /\ t.seen = tx[w].seen
  BY <1>3, <1>4, TxTypes DEF Tx
<1>7. PICK o \in Orders, k \in Nat, ln \in Lines :
        /\ o = tx[w].order /\ k = tx[w].k /\ k \in 1..Len(OrderLines[o])
        /\ ln = OrderLines[o][k] /\ ln = Line(w) /\ ln \in LinesOf(o)
  BY <1>4, AtLine
<1>8. SUFFICES ASSUME ~overlapped'
      PROVE  /\ status[t.order] = "DRAFT" /\ \A p \in Lines : t.base[p] = 0
             /\ \E draw \in [LinesOf(o) -> [Rows -> Nat]] : Draws(w, draw)'
  BY <1>5, <1>6, <1>7, SerialStep
<1>9. status[o] = "DRAFT" /\ \A p \in Lines : tx[w].base[p] = 0
  BY <1>4, <1>5, <1>7, <1>8, SerialFacts DEF Local
<1>10. PICK draw \in [LinesOf(o) -> [Rows -> Nat]] : Draws(w, draw)
  BY <1>4, <1>5, <1>7, <1>8, SerialFacts DEF Local
<1>11. LinesDone(available, tx[w], draw) /\ LineBegun(available, tx[w], draw)
  BY <1>4, <1>10 DEF Draws
<1>12. tx'[w] = t /\ pc'[w] = "find" /\ UNCHANGED <<available, reserved>>
  BY <1>4, <1>5 DEF TypeOK, Local, Goto, stock
<1>13. LineBegun(available, t, draw) /\ LinesDone(available, t, draw)
  BY <1>6, <1>11, LineStays, LinesStay
<1>14. RowsMoved(w, draw)'
  <2>1. PICK x : x = Row(w)
    OBVIOUS
  <2>2. tx[w].avail \in [Rows -> Entry]
    BY <1>4, TxTypes
  <2>3. KeepsOtherRows(tx[w], t, x)
    BY <1>2, <1>6, <2>1, <2>2 DEF KeepsOtherRows
  <2>4. t.order = o /\ t.k = k /\ t.i = tx[w].i
    BY <1>6, <1>7
  <2>6. \A r \in Rows : Placed(w, r)' = Placed(w, r)
    <3>1. amount \in Nat /\ x \in Rows
      BY <1>1, <1>4, <1>7, <2>1, RowType, TxTypes DEF Smaller, ControlOK, TakeRow, Draw
    <3>2. ~InRow(w) /\ InRow(w)' /\ Row(w)' = x
      BY <1>4, <1>12, <2>1, <2>4, <1>7 DEF InRow, Row, Line
    <3>3. /\ t.drawn[x] = tx[w].drawn[x] + amount /\ t.take = amount
          /\ \A r \in Rows \ {x} : t.drawn[r] = tx[w].drawn[r]
      BY <1>2a, <1>4, <1>6, <2>1, <3>1, TxTypes
    <3>4. \A r \in Rows : tx[w].drawn[r] \in Nat
      BY <1>4, TxTypes
    <3> QED
      BY <1>12, <3>1, <3>2, <3>3, <3>4 DEF Placed
  <2>5. tx'[w] = t /\ pc'[w] \in {"find", "reserve"}
    BY <1>12
  <2> QED
    BY <1>7, <1>10, <1>12, <2>1, <2>3, <2>4, <2>5, <2>6, RowsInRow
<1>15. TakesAll(t)
  BY <1>1, <1>3, <1>4, <1>6, TxTypes DEF TakesAll, Row, Line, Tx
<1>16. Draws(w, draw)'
  BY <1>12, <1>13, <1>14, <1>15, DrawsNext
<1> QED
  BY <1>6, <1>7, <1>9, <1>16

LEMMA SerialFindReserved ==
  ASSUME IInv, SerialOK, NEW w \in Workers, FindReserved(w) PROVE SerialOK'
<1>1. PICK u, q : Local(w, "reserve", [tx[w] EXCEPT !.row = u, !.rowQty = q])
  BY DEF FindReserved
<1>2. PICK t : t = [tx[w] EXCEPT !.row = u, !.rowQty = q]
  OBVIOUS
<1>3. Local(w, "reserve", t)
  BY <1>1, <1>2
<1>4. TypeOK /\ ControlOK(w) /\ pc[w] = "find" /\ InTx(w) /\ InLine(w)
  BY DEF IInv, WorkerOK, FindReserved, InTx, InLine
<1>6. /\ t.order = tx[w].order /\ t.base = tx[w].base /\ t.alloc = tx[w].alloc
      /\ t.avail = tx[w].avail /\ t.drawn = tx[w].drawn /\ t.k = tx[w].k
      /\ t.take = tx[w].take /\ t.i = tx[w].i /\ t.got = tx[w].got /\ t.need = tx[w].need
      /\ t.seen = tx[w].seen
  BY <1>2, <1>4, TxTypes DEF Tx
<1>7. PICK o \in Orders, k \in Nat, ln \in Lines :
        /\ o = tx[w].order /\ k = tx[w].k /\ k \in 1..Len(OrderLines[o])
        /\ ln = OrderLines[o][k] /\ ln = Line(w) /\ ln \in LinesOf(o)
  BY <1>4, AtLine
<1>8. SUFFICES ASSUME ~overlapped'
      PROVE  /\ status[t.order] = "DRAFT" /\ \A p \in Lines : t.base[p] = 0
             /\ \E draw \in [LinesOf(o) -> [Rows -> Nat]] : Draws(w, draw)'
  BY <1>3, <1>6, <1>7, SerialStep
<1>9. status[o] = "DRAFT" /\ \A p \in Lines : tx[w].base[p] = 0
  BY <1>3, <1>4, <1>7, <1>8, SerialFacts DEF Local
<1>10. PICK draw \in [LinesOf(o) -> [Rows -> Nat]] : Draws(w, draw)
  BY <1>3, <1>4, <1>7, <1>8, SerialFacts DEF Local
<1>11. LinesDone(available, tx[w], draw) /\ LineBegun(available, tx[w], draw)
  BY <1>4, <1>10 DEF Draws
<1>12. tx'[w] = t /\ pc'[w] = "reserve" /\ UNCHANGED <<available, reserved>>
  BY <1>3, <1>4 DEF TypeOK, Local, Goto, stock
<1>13. LineBegun(available, t, draw) /\ LinesDone(available, t, draw)
  BY <1>6, <1>11, LineStays, LinesStay
<1>14. RowsMoved(w, draw)'
  <2>1. PICK x : x = Row(w)
    OBVIOUS
  <2>2. KeepsOtherRows(tx[w], t, x)
    BY <1>6 DEF KeepsOtherRows
  <2>3. \A r \in Rows : Placed(w, r)' = Placed(w, r)
    <3>1. InRow(w) /\ InRow(w)' /\ Row(w)' = Row(w)
      BY <1>4, <1>6, <1>12 DEF InRow, Row, Line
    <3> QED
      BY <1>6, <1>12, <3>1 DEF Placed
  <2> QED
    BY <1>6, <1>7, <1>10, <1>12, <2>1, <2>2, <2>3, RowsInRow
<1>15. TakesAll(t)
  <2>1. TakesAll(tx[w])
    BY <1>4, <1>10 DEF Draws, InRow
  <2> QED
    BY <1>6, <2>1 DEF TakesAll
<1>16. Draws(w, draw)'
  BY <1>12, <1>13, <1>14, <1>15, DrawsNext
<1> QED
  BY <1>6, <1>7, <1>9, <1>16

LEMMA Candidate ==
  ASSUME NEW ln \in Lines, NEW i \in 1..Len(Candidates[ln])
  PROVE  /\ Candidates[ln][i] \in Rows /\ Candidates[ln][i] \in RowsFor(ln)
         /\ \A j \in 1..Len(Candidates[ln]) : Candidates[ln][j] = Candidates[ln][i] => j = i
<1>1. Candidates[ln] \in Seq(Rows)
  BY ReleaseAssumption
<1>2. DOMAIN Candidates[ln] = 1..Len(Candidates[ln]) /\ Candidates[ln][i] \in Rows
  BY <1>1
<1>3. IsInjective(Candidates[ln])
  BY RowsAssumption
<1> QED
  BY <1>2, <1>3 DEF RowsFor, IsInjective

\* What the lines before the k-th draw does not depend on the k-th.
LEMMA EarlierLines ==
  ASSUME NEW o \in Orders, NEW k \in 1..Len(OrderLines[o]), NEW ln, ln = OrderLines[o][k],
         NEW draw \in [LinesOf(o) -> [Rows -> Nat]], NEW e, NEW x, NEW amount,
         DrawsMore(o, draw, e, ln, x, amount), NEW r \in Rows
  PROVE  /\ DrawnBy(o, e, k - 1, r) = DrawnBy(o, draw, k - 1, r)
         /\ DrawnBy(o, draw, k - 1, r) \in Int
<1>1. OrderLines[o] \in Seq(Lines) /\ k \in Nat
  BY ReleaseAssumption
<1>2. PICK h \in 0..Len(OrderLines[o]) : h = k - 1
  BY <1>1
<1>3. ASSUME NEW j \in 1..h PROVE e[OrderLines[o][j]] = draw[OrderLines[o][j]]
  <2>1. j \in 1..Len(OrderLines[o]) /\ j # k
    BY <1>1, <1>2
  <2>2. OrderLines[o][j] \in LinesOf(o) /\ OrderLines[o][j] # ln
    BY <2>1, OrderLine
  <2> QED
    BY <2>2 DEF DrawsMore
<1>4. DrawnBy(o, e, h, r) = DrawnBy(o, draw, h, r)
  BY <1>3, DrawnByAgree
<1>5. DrawnBy(o, draw, h, r) \in Nat
  BY DrawTypes
<1> QED
  BY <1>2, <1>4, <1>5

\* The i-th candidate x of line ln gives amount: all that is left, or all that is needed.
RowGives(av, o, k, ln, i, x, need, got, seen, draw, e, amount) ==
  /\ o \in Orders /\ k \in Nat /\ k \in 1..Len(OrderLines[o])
  /\ ln \in Lines /\ ln = OrderLines[o][k]
  /\ i \in 1..Len(Candidates[ln]) /\ x \in Rows /\ x = Candidates[ln][i]
  /\ need \in Nat /\ need > 0 /\ got \in Nat /\ seen \in [Rows -> Nat]
  /\ draw \in [LinesOf(o) -> [Rows -> Nat]] /\ e \in [LinesOf(o) -> [Rows -> Nat]]
  /\ LineProgress(av, o, k, i, need, got, seen, draw)
  /\ amount \in Nat /\ amount <= seen[x] /\ (need - amount > 0 => amount = seen[x])
  /\ DrawsMore(o, draw, e, ln, x, amount)
  /\ Got(e, ln) = Got(draw, ln) + amount

LEMMA RowDrawn ==
  ASSUME NEW av, NEW o, NEW k, NEW ln, NEW i, NEW x, NEW need, NEW got, NEW seen, NEW draw,
         NEW e, NEW amount, RowGives(av, o, k, ln, i, x, need, got, seen, draw, e, amount)
  PROVE  /\ draw[ln][x] = 0
         /\ LineProgress(av, o, k, i + 1, need - amount, got + amount, seen, e)
<1>0. \A r \in Rows : Left(av, o, e, k, r) = Left(av, o, draw, k, r)
  <2>1. /\ o \in Orders /\ k \in 1..Len(OrderLines[o]) /\ ln = OrderLines[o][k]
        /\ draw \in [LinesOf(o) -> [Rows -> Nat]] /\ DrawsMore(o, draw, e, ln, x, amount)
    BY DEF RowGives
  <2>2. \A r \in Rows : DrawnBy(o, e, k - 1, r) = DrawnBy(o, draw, k - 1, r)
    BY <2>1, EarlierLines
  <2> QED
    BY <2>2 DEF Left
<1> SUFFICES ASSUME o \in Orders, k \in Nat, k \in 1..Len(OrderLines[o]),
                    ln \in Lines, ln = OrderLines[o][k],
                    i \in 1..Len(Candidates[ln]), x \in Rows, x = Candidates[ln][i],
                    need \in Nat, need > 0, got \in Nat, seen \in [Rows -> Nat],
                    draw \in [LinesOf(o) -> [Rows -> Nat]], e \in [LinesOf(o) -> [Rows -> Nat]],
                    LineProgress(av, o, k, i, need, got, seen, draw),
                    amount \in Nat, amount <= seen[x], need - amount > 0 => amount = seen[x],
                    DrawsMore(o, draw, e, ln, x, amount),
                    Got(e, ln) = Got(draw, ln) + amount
             PROVE  /\ draw[ln][x] = 0
                    /\ LineProgress(av, o, k, i + 1, need - amount, got + amount, seen, e)
  BY DEF RowGives
<1>1. PICK c \in Seq(Rows), n \in Nat : c = Candidates[ln] /\ n = Len(c)
  BY ReleaseAssumption
<1>2. i \in 1..n /\ i \in Nat /\ x = c[i]
  BY <1>1
<1>3. \A j \in 1..n : j # i => c[j] \in Rows \ {x}
  <2> TAKE j \in 1..n
  <2>1. /\ c[j] \in Rows
        /\ \A h \in 1..n : c[h] = c[j] => h = j
    BY <1>1, Candidate
  <2> QED
    BY <1>2, <2>1
<1>4. /\ \A r \in Rows : /\ seen[r] = IF r \in RowsFor(ln) THEN Left(av, o, draw, k, r) ELSE 0
                         /\ draw[ln][r] <= seen[r]
      /\ \A j \in 1..n : /\ j >= i => draw[ln][c[j]] = 0
                         /\ j < i => draw[ln][c[j]] = seen[c[j]]
      /\ InOrder(c, seen, draw[ln]) /\ got = Got(draw, ln)
  BY <1>1 DEF LineProgress
<1>5. draw[ln][x] = 0
  BY <1>2, <1>4
<1>6. e[ln][x] = amount /\ \A m \in Rows \ {x} : e[ln][m] = draw[ln][m]
  <2>1. e[ln][x] = draw[ln][x] + amount
    BY DEF DrawsMore
  <2>2. 0 + amount = amount
    OBVIOUS
  <2>3. \A m \in Rows \ {x} : e[ln][m] = draw[ln][m]
    BY DEF DrawsMore
  <2> QED
    BY <1>5, <2>1, <2>2, <2>3
<1>8. ASSUME NEW r \in Rows
      PROVE  seen[r] = IF r \in RowsFor(ln) THEN Left(av, o, e, k, r) ELSE 0
  BY <1>4, <1>0
<1>9. ASSUME NEW r \in Rows PROVE e[ln][r] <= seen[r]
  <2>1. CASE r = x
    BY <1>6, <2>1
  <2>2. CASE r # x
    BY <1>4, <1>6, <2>2
  <2> QED
    BY <2>1, <2>2
<1>10. ASSUME NEW j \in 1..n
       PROVE  /\ j >= i + 1 => e[ln][c[j]] = 0
              /\ j < i + 1 /\ need - amount > 0 => e[ln][c[j]] = seen[c[j]]
  <2>1. CASE j = i
    <3>1. c[j] = x /\ ~ j >= i + 1
      BY <1>2, <2>1
    <3>2. need - amount > 0 => amount = seen[x]
      OBVIOUS
    <3> QED
      BY <1>6, <3>1, <3>2
  <2>2. CASE j # i
    <3>1. e[ln][c[j]] = draw[ln][c[j]]
      BY <1>3, <1>6, <2>2
    <3>2. (j >= i + 1 => j >= i) /\ (j < i + 1 => j < i)
      BY <1>2, <2>2
    <3> QED
      BY <1>4, <3>1, <3>2
  <2> QED
    BY <2>1, <2>2
<1>11. InOrder(c, seen, e[ln])
  <2> SUFFICES ASSUME NEW j \in 1..n, NEW h \in 1..(j - 1), e[ln][c[j]] > 0
               PROVE  e[ln][c[h]] = seen[c[h]]
    BY <1>1 DEF InOrder
  <2>1. h \in 1..n /\ h < j
    BY <1>1
  <2>2. ~ j >= i + 1
    <3>1. e[ln][c[j]] # 0
      OBVIOUS
    <3> QED
      BY <1>10, <3>1
  <2>3. h < i
    BY <1>2, <2>1, <2>2
  <2>4. draw[ln][c[h]] = seen[c[h]]
    BY <1>4, <2>1, <2>3
  <2>5. h # i
    BY <1>2, <2>3
  <2>6. e[ln][c[h]] = draw[ln][c[h]]
    BY <1>3, <1>6, <2>1, <2>5
  <2> QED
    BY <2>4, <2>6
<1>12. got + amount = Got(e, ln)
  BY <1>4
<1>13. /\ \A j \in 1..Len(c) :
           /\ j >= i + 1 => e[ln][c[j]] = 0
           /\ j < i + 1 /\ need - amount > 0 => e[ln][c[j]] = seen[c[j]]
  BY <1>1, <1>10
<1> QED
  BY <1>1, <1>5, <1>8, <1>9, <1>11, <1>12, <1>13 DEF LineProgress

\* The other lines are as filled as they were.
LEMMA LinesKept ==
  ASSUME NEW av, NEW t, NEW u, NEW o \in Orders, NEW k \in 1..Len(OrderLines[o]), k \in Nat,
         NEW ln, ln = OrderLines[o][k],
         t.order = o, t.k = k, u.order = o, u.k = k, u.alloc = t.alloc,
         NEW draw, NEW e,
         NEW x, NEW amount, DrawsMore(o, draw, e, ln, x, amount), LinesDone(av, t, draw)
  PROVE  LinesDone(av, u, e)
<1>0. OrderLines[o] \in Seq(Lines)
  BY ReleaseAssumption
<1>1. \A j \in 1..Len(OrderLines[o]) :
        j # k => e[OrderLines[o][j]] = draw[OrderLines[o][j]]
  <2> TAKE j \in 1..Len(OrderLines[o])
  <2>1. OrderLines[o][j] \in LinesOf(o) /\ (j # k => OrderLines[o][j] # ln)
    BY OrderLine
  <2> QED
    BY <2>1 DEF DrawsMore
<1>2. ASSUME NEW j \in 1..Len(OrderLines[o]) PROVE LineDone(av, u, e, j)
  <2>0. j \in Nat /\ LineDone(av, t, draw, j)
    BY <1>0 DEF LinesDone
  <2>1. CASE j < k
    <3>1. LineFilled(av, o, draw, j) /\ LineWritten(t, draw, OrderLines[o][j])
      BY <2>0, <2>1 DEF LineDone
    <3>2. \A h \in 1..j : e[OrderLines[o][h]] = draw[OrderLines[o][h]]
      <4> TAKE h \in 1..j
      <4>1. h \in 1..Len(OrderLines[o]) /\ h # k
        BY <1>0, <2>0, <2>1
      <4> QED
        BY <1>1, <4>1
    <3>3. LineFilled(av, o, e, j)
      BY <3>1, <3>2, LineFilledAgree
    <3>4. e[OrderLines[o][j]] = draw[OrderLines[o][j]]
      BY <1>1, <2>0, <2>1
    <3>5. LineWritten(u, e, OrderLines[o][j])
      BY <3>1, <3>4 DEF LineWritten, Got
    <3>6. ~ j >= k /\ ~ j > k
      BY <2>0, <2>1
    <3> QED
      BY <3>3, <3>5, <3>6 DEF LineDone
  <2>2. CASE ~ j < k
    <3>1. j >= k
      BY <2>0, <2>2
    <3>2. u.alloc[OrderLines[o][j]] = None
      BY <2>0, <3>1 DEF LineDone
    <3>3. ASSUME j > k, NEW r \in Rows PROVE e[OrderLines[o][j]][r] = 0
      <4>1. j # k /\ draw[OrderLines[o][j]][r] = 0
        BY <2>0, <3>3 DEF LineDone
      <4> QED
        BY <1>1, <4>1
    <3> QED
      BY <2>2, <3>2, <3>3 DEF LineDone
  <2> QED
    BY <2>1, <2>2
<1> QED
  BY <1>2 DEF LinesDone

LEMMA RowLess ==
  ASSUME NEW av, NEW o, NEW draw, NEW k, NEW x, NEW n \in Nat, NEW amount \in Nat,
         av[x] \in Int, DrawnBy(o, draw, k - 1, x) \in Int,
         n + amount = Left(av, o, draw, k, x)
  PROVE  n = av[x] - (DrawnBy(o, draw, k - 1, x) + amount)
BY DEF Left

HoldsRow(w, x, n) == tx[w].avail[x] = n

PlacedMore(w, x, amount) ==
  /\ Placed(w, x)' = Placed(w, x) + amount
  /\ \A r \in Rows \ {x} : Placed(w, r)' = Placed(w, r)

\* What the line draws from a row is added to a RESERVED row.
RowTaken(w, t, o, k, ln, x, n, amount, draw, e) ==
  /\ TypeOK /\ w \in Workers /\ InRow(w) /\ tx'[w] = t /\ pc'[w] = "take"
  /\ UNCHANGED <<available, reserved>>
  /\ o \in Orders /\ k \in 1..Len(OrderLines[o]) /\ k \in Nat
  /\ ln \in LinesOf(o) /\ ln = OrderLines[o][k] /\ x \in Rows /\ x = Row(w)
  /\ tx[w].order = o /\ tx[w].k = k /\ t.order = o /\ t.k = k /\ t.avail = tx[w].avail
  /\ draw \in [LinesOf(o) -> [Rows -> Nat]] /\ RowsMoved(w, draw)
  /\ amount \in Nat /\ e \in [LinesOf(o) -> [Rows -> Nat]]
  /\ DrawsMore(o, draw, e, ln, x, amount) /\ DrawnMore(o, draw, e, x, amount)
  /\ draw[ln][x] = 0 /\ n \in Nat /\ HoldsRow(w, x, n)
  /\ n + amount = Left(available, o, draw, k, x) /\ PlacedMore(w, x, amount)

LEMMA RowsReserve ==
  ASSUME NEW w, NEW t, NEW o, NEW k, NEW ln, NEW x, NEW n, NEW amount, NEW draw, NEW e,
         RowTaken(w, t, o, k, ln, x, n, amount, draw, e)
  PROVE  RowsMoved(w, e)'
<1> SUFFICES ASSUME TypeOK, w \in Workers, InRow(w), tx'[w] = t, pc'[w] = "take",
                      UNCHANGED <<available, reserved>>,
                      o \in Orders, k \in 1..Len(OrderLines[o]), k \in Nat,
                      ln \in LinesOf(o), ln = OrderLines[o][k], x \in Rows, x = Row(w),
                      tx[w].order = o, tx[w].k = k, t.order = o, t.k = k, t.avail = tx[w].avail,
                      draw \in [LinesOf(o) -> [Rows -> Nat]], RowsMoved(w, draw),
                      amount \in Nat, e \in [LinesOf(o) -> [Rows -> Nat]],
                      DrawsMore(o, draw, e, ln, x, amount), DrawnMore(o, draw, e, x, amount),
                      draw[ln][x] = 0, n \in Nat, HoldsRow(w, x, n),
                      n + amount = Left(available, o, draw, k, x), PlacedMore(w, x, amount)
             PROVE  RowsMoved(w, e)'
  BY DEF RowTaken
<1>1. InLine(w) /\ ~InRow(w)'
  BY DEF InLine, InRow
<1>2. ASSUME NEW r \in Rows
      PROVE  /\ Drawn(o, draw, r) = DrawnBy(o, draw, k, r)
             /\ DrawnBy(o, draw, k, r) = DrawnBy(o, draw, k - 1, r) + draw[ln][r]
             /\ DrawnBy(o, e, k, r) = DrawnBy(o, e, k - 1, r) + e[ln][r]
             /\ DrawnBy(o, e, k - 1, r) = DrawnBy(o, draw, k - 1, r)
             /\ DrawnBy(o, draw, k - 1, r) \in Int
  <2>1. Drawn(o, draw, r) = DrawnBy(o, draw, k, r)
    BY <1>1, DrawnThrough
  <2>2. DrawnBy(o, draw, k, r) = DrawnBy(o, draw, k - 1, r) + draw[ln][r]
    BY DrawnByNext
  <2>3. DrawnBy(o, e, k, r) = DrawnBy(o, e, k - 1, r) + e[ln][r]
    BY DrawnByNext
  <2>4. DrawnBy(o, e, k - 1, r) = DrawnBy(o, draw, k - 1, r) /\ DrawnBy(o, draw, k - 1, r) \in Int
    BY EarlierLines
  <2> QED
    BY <2>1, <2>2, <2>3, <2>4
<1>3. Drawn(o, e, x) = DrawnBy(o, draw, k - 1, x) + amount
  <2>1. PICK d \in Int : d = DrawnBy(o, draw, k - 1, x)
    BY <1>2
  <2>2. Drawn(o, draw, x) = d + 0
    BY <1>2, <2>1
  <2>3. Drawn(o, e, x) = d + 0 + amount
    BY <2>2 DEF DrawnMore
  <2> QED
    BY <2>1, <2>3
<1>3a. n = available[x] - (DrawnBy(o, draw, k - 1, x) + amount)
  <2>1. DrawnBy(o, draw, k - 1, x) \in Int /\ available[x] \in Int
    BY <1>2 DEF TypeOK
  <2> QED
    BY <2>1, RowLess
<1>4. ASSUME NEW r \in Rows PROVE Drawn(o, e, r) = DrawnBy(o, e, k, r)
  <2>1. CASE r = x
    <3>1. e[ln][x] = 0 + amount
      BY DEF DrawsMore
    <3>2. DrawnBy(o, e, k, x) = DrawnBy(o, draw, k - 1, x) + (0 + amount)
      BY <1>2, <3>1
    <3>3. 0 + amount = amount
      OBVIOUS
    <3> QED
      BY <1>3, <2>1, <3>2, <3>3
  <2>2. CASE r # x
    <3>1. e[ln][r] = draw[ln][r]
      BY <2>2 DEF DrawsMore
    <3>2. Drawn(o, e, r) = Drawn(o, draw, r)
      BY <2>2 DEF DrawnMore
    <3> QED
      BY <1>2, <3>1, <3>2
  <2> QED
    BY <2>1, <2>2
<1>5. ASSUME NEW r \in Rows
      PROVE  AvailableIn(w, r)' = available'[r] - Drawn(o, e, r)
  <2>1. AvailableIn(w, r)' = AvailableIn(w, r)
    BY DEF AvailableIn
  <2>2. CASE r = x
    <3>1. AvailableIn(w, x) = n
      BY DEF AvailableIn, None, HoldsRow
    <3> QED
      BY <1>3, <1>3a, <2>1, <2>2, <3>1
  <2>3. CASE r # x
    <3>1. AvailableIn(w, r) = available[r] - Drawn(o, draw, r)
      BY <2>3 DEF RowsMoved
    <3>2. Drawn(o, e, r) = Drawn(o, draw, r)
      BY <2>3 DEF DrawnMore
    <3> QED
      BY <2>1, <3>1, <3>2
  <2> QED
    BY <2>2, <2>3
<1>6. ASSUME NEW r \in Rows PROVE Placed(w, r)' = Drawn(o, e, r)
  <2>1. Placed(w, r) = Drawn(o, draw, r)
    BY DEF RowsMoved
  <2> QED
    BY <2>1 DEF DrawnMore, PlacedMore
<1> QED
  BY <1>1, <1>4, <1>5, <1>6, RowsInLine

LEMMA SerialReserve ==
  ASSUME IInv, SerialOK, NEW w \in Workers, Reserve(w) PROVE SerialOK'
<1>1. /\ TypeOK /\ ControlOK(w) /\ ProgressOK(w) /\ pc[w] = "reserve" /\ InTx(w) /\ InLine(w)
      /\ InRow(w) /\ HasRow(w)
  BY DEF IInv, WorkerOK, Reserve, StoreReserved, InTx, InLine, InRow, ControlOK
<1>2. PICK o \in Orders, k \in Nat, ln \in Lines :
        /\ o = tx[w].order /\ k = tx[w].k /\ k \in 1..Len(OrderLines[o])
        /\ ln = OrderLines[o][k] /\ ln = Line(w) /\ ln \in LinesOf(o)
  BY <1>1, AtLine
<1>3. PICK i \in 1..Len(Candidates[ln]) :
        i = tx[w].i /\ Row(w) = Candidates[ln][i] /\ Row(w) \in Rows
  BY <1>1, <1>2, RowType DEF ControlOK, Row
<1>4. PICK x \in Rows, amount \in Nat : x = Row(w) /\ amount = tx[w].take
  BY <1>1, <1>3, TxTypes DEF ControlOK
<1>5. PICK need \in Nat, got \in Nat, seen \in [Rows -> Nat], n \in Nat :
        /\ need = tx[w].need /\ got = tx[w].got /\ seen = tx[w].seen /\ need > 0
        /\ n = tx[w].avail[x] /\ n + amount = seen[x]
  <2>1. tx[w].avail[x] \in Entry /\ tx[w].avail[x] # None
    BY <1>1, <1>4, TxTypes DEF ControlOK
  <2>2. tx[w].avail[x] + amount = tx[w].seen[x] /\ tx[w].need > 0
    BY <1>1, <1>4 DEF ProgressOK, HasRow
  <2> QED
    BY <1>1, <2>1, <2>2, TxTypes DEF Entry
<1>6. PICK rv : rv = [tx[w].resv EXCEPT ![Lot(w)][tx[w].row] = tx[w].rowQty + amount]
  OBVIOUS
<1>7. PICK t : t = [tx[w] EXCEPT !.resv = rv, !.got = got + amount, !.need = need - amount,
                                 !.i = @ + 1, !.take = 0, !.row = NoOrder, !.rowQty = 0]
  OBVIOUS
<1>8. Local(w, "take", t)
  <2>1. tx[w] \in Tx
    BY <1>1, TxTypes
  <2>2. t = [tx[w] EXCEPT !.resv[Lot(w)][tx[w].row] = tx[w].rowQty + amount,
                          !.got  = @ + amount,
                          !.need = @ - amount,
                          !.i    = @ + 1,
                          !.take = 0, !.row = NoOrder, !.rowQty = 0]
    BY <1>5, <1>6, <1>7, <2>1 DEF Tx
  <2> QED
    BY <1>4, <2>2 DEF Reserve, StoreReserved
<1>9. /\ t.order = tx[w].order /\ t.base = tx[w].base /\ t.alloc = tx[w].alloc
      /\ t.avail = tx[w].avail /\ t.drawn = tx[w].drawn /\ t.k = tx[w].k
      /\ t.i = tx[w].i + 1 /\ t.got = got + amount /\ t.need = need - amount
      /\ t.seen = tx[w].seen
  BY <1>1, <1>7, TxTypes DEF Tx
<1>10. SUFFICES ASSUME ~overlapped'
       PROVE  /\ status[t.order] = "DRAFT" /\ \A p \in Lines : t.base[p] = 0
              /\ \E draw \in [LinesOf(o) -> [Rows -> Nat]] : Draws(w, draw)'
  BY <1>2, <1>8, <1>9, SerialStep
<1>11. status[o] = "DRAFT" /\ \A p \in Lines : tx[w].base[p] = 0
  BY <1>1, <1>2, <1>8, <1>10, SerialFacts DEF Local
<1>12. PICK draw \in [LinesOf(o) -> [Rows -> Nat]] : Draws(w, draw)
  BY <1>1, <1>2, <1>8, <1>10, SerialFacts DEF Local
<1>13. /\ LinesDone(available, tx[w], draw) /\ LineBegun(available, tx[w], draw)
       /\ RowsMoved(w, draw) /\ TakesAll(tx[w])
  BY <1>1, <1>12 DEF Draws
<1>14. tx'[w] = t /\ pc'[w] = "take" /\ UNCHANGED <<available, reserved>>
  BY <1>1, <1>8 DEF TypeOK, Local, Goto, stock
<1>15. /\ k \in 1..Len(OrderLines[o]) /\ ln = OrderLines[o][k] /\ ln \in LinesOf(o)
       /\ need > 0
  BY <1>2, <1>5
<1>16. PICK e \in [LinesOf(o) -> [Rows -> Nat]] :
         /\ DrawsMore(o, draw, e, ln, x, amount) /\ DrawnMore(o, draw, e, x, amount)
         /\ Got(e, ln) = Got(draw, ln) + amount
  BY <1>15, DrawMore
<1>17. LineProgress(available, o, k, i, need, got, seen, draw)
  BY <1>2, <1>3, <1>5, <1>13 DEF LineBegun
<1>18. draw[ln][x] = 0 /\ LineProgress(available, o, k, i + 1, need - amount, got + amount, seen, e)
  <2>1. amount <= seen[x] /\ (need - amount > 0 => amount = seen[x])
    <3>1. amount = Smaller(seen[x], need)
      BY <1>2, <1>3, <1>4, <1>5, <1>13 DEF TakesAll
    <3>2. PICK s \in Nat : s = seen[x]
      OBVIOUS
    <3>3. amount = IF s < need THEN s ELSE need
      BY <3>1, <3>2 DEF Smaller
    <3>4. amount <= s /\ (need - amount > 0 => amount = s)
      BY <3>3
    <3> QED
      BY <3>2, <3>4
  <2>2. RowGives(available, o, k, ln, i, x, need, got, seen, draw, e, amount)
    BY <1>3, <1>4, <1>15, <1>16, <1>17, <2>1 DEF RowGives
  <2> QED
    BY <2>2, RowDrawn
<1>19. LineBegun(available, t, e)
  BY <1>2, <1>3, <1>5, <1>9, <1>18 DEF LineBegun
<1>20. LinesDone(available, t, e)
  <2>1. tx[w].order = o /\ tx[w].k = k /\ t.order = o /\ t.k = k /\ t.alloc = tx[w].alloc
    BY <1>2, <1>9
  <2>2. DrawsMore(o, draw, e, ln, x, amount)
    BY <1>16
  <2> QED
    BY <1>13, <1>15, <2>1, <2>2, LinesKept, ZenonT(30)
<1>21. PlacedMore(w, x, amount)
  <2>1. ~InRow(w)' /\ \A r \in Rows : tx[w].drawn[r] \in Nat
    BY <1>1, <1>14, TxTypes DEF InRow
  <2>2. \A r \in Rows : Placed(w, r)' = tx[w].drawn[r]
    BY <1>9, <1>14, <2>1 DEF Placed
  <2>3. \A r \in Rows : Placed(w, r) = tx[w].drawn[r] - IF r = x THEN amount ELSE 0
    BY <1>1, <1>4 DEF Placed
  <2> QED
    BY <2>1, <2>2, <2>3 DEF PlacedMore
<1>22. RowsMoved(w, e)'
  <2>1. HoldsRow(w, x, n)
    BY <1>5 DEF HoldsRow
  <2>2. n + amount = Left(available, o, draw, k, x)
    <3>1. x \in RowsFor(ln)
      BY <1>3, <1>4, Candidate
    <3>2. seen[x] = Left(available, o, draw, k, x)
      BY <1>2, <1>17, <3>1 DEF LineProgress
    <3> QED
      BY <1>5, <3>2
  <2>3. /\ tx[w].order = o /\ tx[w].k = k /\ t.order = o /\ t.k = k /\ t.avail = tx[w].avail
        /\ x = Row(w)
    BY <1>2, <1>4, <1>9
  <2>4. RowTaken(w, t, o, k, ln, x, n, amount, draw, e)
    BY <1>1, <1>13, <1>14, <1>15, <1>16, <1>18, <1>21, <2>1, <2>2, <2>3 DEF RowTaken
  <2> QED
    BY <2>4, RowsReserve
<1>23. Draws(w, e)'
  BY <1>14, <1>19, <1>20, <1>22, DrawsNext
<1> QED
  BY <1>2, <1>9, <1>11, <1>16, <1>23

\* A line whose candidates are used up, or that got what it requests, is filled.
LEMMA LineEnds ==
  ASSUME NEW av, NEW o \in Orders, NEW k \in Nat, k \in 1..Len(OrderLines[o]),
         NEW ln \in Lines, ln = OrderLines[o][k], NEW i \in Nat, NEW need \in Nat, NEW got \in Nat,
         NEW seen \in [Rows -> Nat], NEW draw \in [LinesOf(o) -> [Rows -> Nat]],
         LineProgress(av, o, k, i, need, got, seen, draw), got + need = Requested[ln],
         \A r \in Rows : Left(av, o, draw, k, r) \in Nat,
         need = 0 \/ i > Len(Candidates[ln])
  PROVE  LineFilled(av, o, draw, k)
<1>1. /\ \A r \in Rows : seen[r] = IF r \in RowsFor(ln) THEN Left(av, o, draw, k, r) ELSE 0
      /\ \A r \in Rows : draw[ln][r] <= seen[r]
      /\ InOrder(Candidates[ln], seen, draw[ln]) /\ got = Got(draw, ln)
  BY DEF LineProgress
<1>2. Got(draw, ln) <= Requested[ln]
  BY <1>1
<1>3. \/ Got(draw, ln) = Requested[ln]
      \/ \A j \in 1..Len(Candidates[ln]) : draw[ln][Candidates[ln][j]] = seen[Candidates[ln][j]]
  <2>1. CASE need = 0
    BY <1>1, <2>1
  <2>2. CASE need > 0
    <3>1. i > Len(Candidates[ln])
      BY <2>2
    <3>2. ASSUME NEW j \in 1..Len(Candidates[ln]) PROVE j < i
      <4>1. Candidates[ln] \in Seq(Rows)
        BY ReleaseAssumption
      <4> QED
        BY <3>1, <4>1
    <3> QED
      BY <2>2, <3>2 DEF LineProgress
  <2> QED
    BY <2>1, <2>2
<1> QED
  BY <1>1, <1>2, <1>3, LineCompleted

LEMMA SerialWriteLine ==
  ASSUME IInv, SerialOK, NEW w \in Workers, WriteLine(w) PROVE SerialOK'
<1>1. /\ TypeOK /\ ControlOK(w) /\ ProgressOK(w) /\ pc[w] = "take" /\ InTx(w) /\ InLine(w)
      /\ ~InRow(w) /\ ~HasRow(w)
  BY DEF IInv, WorkerOK, WriteLine, StoreLine, InTx, InLine, InRow
<1>2. PICK o \in Orders, k \in Nat, ln \in Lines :
        /\ o = tx[w].order /\ k = tx[w].k /\ k \in 1..Len(OrderLines[o])
        /\ ln = OrderLines[o][k] /\ ln = Line(w) /\ ln \in LinesOf(o)
  BY <1>1, AtLine
<1>3. PICK i \in Nat, need \in Nat, got \in Nat, seen \in [Rows -> Nat] :
        i = tx[w].i /\ need = tx[w].need /\ got = tx[w].got /\ seen = tx[w].seen
  BY <1>1, TxTypes
<1>4. PICK al : al = [tx[w].alloc EXCEPT ![ln] = got]
  OBVIOUS
<1>5. PICK s : s = [r \in Rows |-> 0]
  OBVIOUS
<1>6. PICK t : t = [tx[w] EXCEPT !.alloc = al, !.k = @ + 1, !.i = 0, !.need = 0, !.got = 0,
                                 !.seen = s]
  OBVIOUS
<1>7. Local(w, "line", t)
  <2>1. tx[w] \in Tx
    BY <1>1, TxTypes
  <2>2. t = [tx[w] EXCEPT !.alloc[ln] = got,
                          !.k = @ + 1, !.i = 0, !.need = 0, !.got = 0,
                          !.seen = [r \in Rows |-> 0]]
    BY <1>4, <1>5, <1>6, <2>1 DEF Tx
  <2> QED
    BY <1>2, <1>3, <2>2 DEF WriteLine, StoreLine
<1>8. /\ t.order = tx[w].order /\ t.base = tx[w].base /\ t.alloc = al
      /\ t.avail = tx[w].avail /\ t.drawn = tx[w].drawn /\ t.k = tx[w].k + 1
  BY <1>1, <1>6, TxTypes DEF Tx
<1>9. SUFFICES ASSUME ~overlapped'
      PROVE  /\ status[t.order] = "DRAFT" /\ \A p \in Lines : t.base[p] = 0
             /\ \E draw \in [LinesOf(o) -> [Rows -> Nat]] : Draws(w, draw)'
  BY <1>2, <1>7, <1>8, SerialStep
<1>10. status[o] = "DRAFT" /\ \A p \in Lines : tx[w].base[p] = 0
  BY <1>1, <1>2, <1>7, <1>9, SerialFacts DEF Local
<1>11. PICK draw \in [LinesOf(o) -> [Rows -> Nat]] : Draws(w, draw)
  BY <1>1, <1>2, <1>7, <1>9, SerialFacts DEF Local
<1>12. RowsMoved(w, draw) /\ LineBegun(available, tx[w], draw)
  BY <1>1, <1>11 DEF Draws
<1>13. /\ k \in 1..Len(OrderLines[o]) /\ ln = OrderLines[o][k] /\ ln \in LinesOf(o)
       /\ tx[w].order = o /\ tx[w].k = k
  BY <1>2
<1>14. LineProgress(available, o, k, i, need, got, seen, draw)
  BY <1>2, <1>3, <1>12 DEF LineBegun
<1>15. \A r \in Rows : Left(available, o, draw, k, r) \in Nat
  <2> TAKE r \in Rows
  <2>1. PICK d \in Nat : d = draw[ln][r]
    BY <1>13
  <2>2. IF InLine(w) THEN d = draw[Line(w)][r] ELSE d = 0
    BY <1>1, <1>2, <2>1
  <2> QED
    BY <1>1, <1>12, <1>13, <2>2, LeftIsSeen
<1>16. LineFilled(available, o, draw, k)
  <2>1. got + need = Requested[ln]
    BY <1>1, <1>2, <1>3 DEF ProgressOK
  <2>2. need = 0 \/ i > Len(Candidates[ln])
    <3>1. ~(need > 0 /\ i <= Len(Candidates[ln]))
      BY <1>1, <1>2, <1>3 DEF HasRow
    <3>2. Candidates[ln] \in Seq(Rows)
      BY ReleaseAssumption
    <3> QED
      BY <3>1, <3>2
  <2>3. k \in 1..Len(OrderLines[o]) /\ ln = OrderLines[o][k]
    BY <1>13
  <2> QED
    BY <1>14, <1>15, <2>1, <2>2, <2>3, LineEnds
<1>17. LineWritten(t, draw, OrderLines[o][k])
  <2>1. t.alloc[ln] = got /\ got # None
    BY <1>1, <1>4, <1>8, TxTypes DEF None
  <2>2. got = Got(draw, ln)
    BY <1>13, <1>14 DEF LineProgress
  <2> QED
    BY <1>13, <2>1, <2>2 DEF LineWritten
<1>18. KeepsOtherLines(tx[w], t, k)
  <2>1. ASSUME NEW j \in 1..Len(OrderLines[o]), j # k
        PROVE  t.alloc[OrderLines[o][j]] = tx[w].alloc[OrderLines[o][j]]
    <3>1. OrderLines[o][j] \in Lines /\ OrderLines[o][j] # ln
      BY <1>13, <2>1, OrderLine
    <3> QED
      BY <1>1, <1>4, <1>8, <3>1, TxTypes
  <2> QED
    BY <1>13, <2>1 DEF KeepsOtherLines
<1>19. Draws(w, draw)'
  <2>1. PICK m \in Nat : m = k + 1
    OBVIOUS
  <2>2. /\ t.order = o /\ t.k = m /\ t.avail = tx[w].avail /\ t.drawn = tx[w].drawn
    BY <1>2, <1>8, <2>1
  <2> QED
    BY <1>1, <1>7, <1>11, <1>13, <1>16, <1>17, <1>18, <2>1, <2>2, NextLine, Zenon
<1> QED
  BY <1>8, <1>10, <1>13, <1>19

-----------------------------------------------------------------------------
(* A commit is the atomic step.                                            *)

LEMMA SameSum == \A f, S : Atomic!SumFunctionOnSet(f, S) = SumFunctionOnSet(f, S)
BY DEF SumFunctionOnSet, FoldFunctionOnSet, MapThenFoldSet, Atomic!SumFunctionOnSet,
       Atomic!FoldFunctionOnSet, Atomic!MapThenFoldSet

LEMMA SmallerOfTwo ==
  ASSUME NEW a \in Int, NEW b \in Int, NEW g, g \in {a, b}, g <= a, g <= b
  PROVE  g = Atomic!Min({a, b})
BY DEF Atomic!Min

LEMMA SameSets ==
  /\ \A o \in Orders : Atomic!OrderLineSet(o) = LinesOf(o)
  /\ \A ln \in Lines : Atomic!RowSet(ln) = RowsFor(ln)
  /\ \A l : Atomic!RowsOfLot(l) = RowsOf(l)
BY DEF Atomic!OrderLineSet, LinesOf, Atomic!RowSet, RowsFor, Atomic!RowsOfLot, RowsOf

LEMMA SameLeft ==
  \A o, draw, k, r : Atomic!Left(o, draw, k, r) = Left(available, o, draw, k, r)
BY SameSum DEF Atomic!Left, Left, DrawnBy

FollowsOn(o, draw, k) ==
  LET ln == OrderLines[o][k]
      c  == Candidates[ln]
      whole == Atomic!SumFunctionOnSet([r \in Rows |-> Atomic!Left(o, draw, k, r)],
                                       Atomic!RowSet(ln))
  IN /\ \A r \in Rows : draw[ln][r] <= Atomic!Left(o, draw, k, r)
     /\ \A r \in Rows \ Atomic!RowSet(ln) : draw[ln][r] = 0
     /\ \A j \in 1..Len(c) : \A i \in 1..(j - 1) :
          draw[ln][c[j]] > 0 => draw[ln][c[i]] = Atomic!Left(o, draw, k, c[i])
     /\ Atomic!SumFunctionOnSet(draw[ln], Rows) = Atomic!Min({Requested[ln], whole})

\* A line that is filled follows the order of expiry.
LEMMA FilledFollows ==
  ASSUME TypeOK, NEW o \in Orders, NEW draw \in [LinesOf(o) -> [Rows -> Nat]],
         NEW k \in 1..Len(OrderLines[o]), LineFilled(available, o, draw, k)
  PROVE  FollowsOn(o, draw, k)
<1>0. PICK ln : ln = OrderLines[o][k]
  OBVIOUS
<1>1. PICK given : given = [r \in Rows |-> Left(available, o, draw, k, r)]
  OBVIOUS
<1>2. PICK whole : whole = SumFunctionOnSet(given, RowsFor(ln))
  OBVIOUS
<1>3. /\ \A r \in Rows : draw[ln][r] <= given[r]
      /\ \A r \in Rows \ RowsFor(ln) : draw[ln][r] = 0
      /\ InOrder(Candidates[ln], given, draw[ln])
      /\ Got(draw, ln) \in {Requested[ln], whole}
      /\ Got(draw, ln) <= Requested[ln] /\ Got(draw, ln) <= whole
  BY <1>0, <1>1, <1>2 DEF LineFilled
<1>4. ln \in LinesOf(o) /\ ln \in Lines
  BY <1>0, OrderLine
<1>5. \A j \in 1..Len(Candidates[ln]) : Candidates[ln][j] \in Rows
  BY <1>4, Candidate
<1>6. RowsFor(ln) \subseteq Rows /\ IsFiniteSet(RowsFor(ln))
  <2>1. RowsFor(ln) \subseteq Rows
    BY <1>5 DEF RowsFor
  <2> QED
    BY <2>1, RowsAssumption, FS_Subset
<1>7. \A r \in Rows : given[r] \in Int
  <2> TAKE r \in Rows
  <2>1. OrderLines[o] \in Seq(Lines)
    BY ReleaseAssumption
  <2>2. PICK n \in 0..Len(OrderLines[o]) : n = k - 1
    BY <2>1
  <2>3. DrawnBy(o, draw, n, r) \in Nat
    BY DrawTypes
  <2>4. available[r] \in Nat
    BY DEF TypeOK
  <2>5. given[r] = available[r] - DrawnBy(o, draw, n, r)
    BY <1>1, <2>2 DEF Left
  <2> QED
    BY <2>3, <2>4, <2>5
<1>8. whole \in Int
  <2>1. \A r \in RowsFor(ln) : given[r] \in Int
    BY <1>6, <1>7
  <2> QED
    BY <1>2, <1>6, <2>1, SumInt
<1>9. Got(draw, ln) = Atomic!Min({Requested[ln], whole})
  <2>1. Requested[ln] \in Int
    BY <1>4, ReleaseAssumption
  <2> QED
    BY <1>3, <1>8, <2>1, SmallerOfTwo
<1>10. given = [r \in Rows |-> Atomic!Left(o, draw, k, r)]
  BY <1>1, SameLeft
<1>11. Atomic!SumFunctionOnSet(draw[ln], Rows) =
         Atomic!Min({Requested[ln], Atomic!SumFunctionOnSet(given, Atomic!RowSet(ln))})
  BY <1>2, <1>4, <1>9, SameSum, SameSets DEF Got
<1>12. \A j \in 1..Len(Candidates[ln]) : \A i \in 1..(j - 1) :
         draw[ln][Candidates[ln][j]] > 0 =>
           draw[ln][Candidates[ln][i]] = Atomic!Left(o, draw, k, Candidates[ln][i])
  <2> SUFFICES ASSUME NEW j \in 1..Len(Candidates[ln]), NEW i \in 1..(j - 1),
                      draw[ln][Candidates[ln][j]] > 0
               PROVE  draw[ln][Candidates[ln][i]] = Atomic!Left(o, draw, k, Candidates[ln][i])
    OBVIOUS
  <2>1. draw[ln][Candidates[ln][i]] = given[Candidates[ln][i]]
    BY <1>3 DEF InOrder
  <2>2. Candidates[ln][i] \in Rows
    <3>1. Candidates[ln] \in Seq(Rows)
      BY <1>4, ReleaseAssumption
    <3>2. i \in 1..Len(Candidates[ln])
      BY <3>1
    <3> QED
      BY <1>5, <3>2
  <2> QED
    BY <1>10, <2>1, <2>2
<1>13. /\ \A r \in Rows : draw[ln][r] <= Atomic!Left(o, draw, k, r)
       /\ \A r \in Rows \ Atomic!RowSet(ln) : draw[ln][r] = 0
  BY <1>3, <1>4, <1>10, SameSets
<1> QED
  BY <1>0, <1>10, <1>11, <1>12, <1>13 DEF FollowsOn

LEMMA DrawFollowsFefo ==
  ASSUME TypeOK, NEW o \in Orders, NEW draw \in [LinesOf(o) -> [Rows -> Nat]],
         \A k \in 1..Len(OrderLines[o]) : LineFilled(available, o, draw, k)
  PROVE  Atomic!FollowsFefo(o, draw)
<1>1. \A k \in 1..Len(OrderLines[o]) : FollowsOn(o, draw, k)
  BY FilledFollows
<1>2. ASSUME NEW ln \in Atomic!OrderLineSet(o), NEW r \in Rows \ Atomic!RowSet(ln)
      PROVE  draw[ln][r] = 0
  <2>1. PICK k \in 1..Len(OrderLines[o]) : ln = OrderLines[o][k]
    BY DEF Atomic!OrderLineSet
  <2> QED
    BY <1>1, <2>1 DEF FollowsOn
<1> QED
  BY <1>1, <1>2 DEF Atomic!FollowsFefo, FollowsOn

\* No line draws more from a row than there is, and so than there ever was.
LEMMA DrawIsAmount ==
  ASSUME TypeOK, \A r \in Rows : available[r] <= Initial[r],
         NEW o \in Orders, NEW draw \in [LinesOf(o) -> [Rows -> Nat]],
         \A k \in 1..Len(OrderLines[o]) : LineFilled(available, o, draw, k)
  PROVE  draw \in [LinesOf(o) -> [Rows -> Atomic!Amount]]
<1>1. ASSUME NEW ln \in LinesOf(o), NEW r \in Rows PROVE draw[ln][r] \in Atomic!Amount
  <2>1. PICK k \in 1..Len(OrderLines[o]) : ln = OrderLines[o][k]
    BY DEF LinesOf
  <2>2. draw[ln][r] <= Left(available, o, draw, k, r)
    BY <2>1 DEF LineFilled
  <2>3. OrderLines[o] \in Seq(Lines)
    BY ReleaseAssumption
  <2>4. PICK n \in 0..Len(OrderLines[o]) : n = k - 1
    BY <2>3
  <2>5. DrawnBy(o, draw, n, r) \in Nat
    BY DrawTypes
  <2>6. available[r] \in Nat /\ Initial[r] \in Nat /\ draw[ln][r] \in Nat
    BY ReleaseAssumption DEF TypeOK
  <2>7. draw[ln][r] <= Initial[r]
    BY <2>2, <2>4, <2>5, <2>6 DEF Left
  <2>8. draw[ln][r] \in 0..Initial[r]
    BY <2>6, <2>7
  <2> QED
    BY <2>8 DEF Atomic!Amount
<1> QED
  BY <1>1

\* A request at its end has filled every line of its order, and what it is about to
\* publish is what they draw.
Finished(w, o, draw) ==
  /\ \A k \in 1..Len(OrderLines[o]) : LineFilled(available, o, draw, k)
  /\ \A ln \in Lines :
       AllocatedIn(w, ln) = IF ln \in LinesOf(o) THEN Got(draw, ln) ELSE allocated[ln]
  /\ \A r \in Rows : /\ AvailableIn(w, r) = available[r] - Drawn(o, draw, r)
                     /\ tx[w].drawn[r] = Drawn(o, draw, r)

LEMMA AllFilled ==
  ASSUME IInv, NEW w \in Workers, pc[w] = "line", ~HasLine(w),
         NEW o \in Orders, tx[w].order = o, status[o] = "DRAFT",
         NEW draw \in [LinesOf(o) -> [Rows -> Nat]], Draws(w, draw)
  PROVE  Finished(w, o, draw)
<1>1. /\ TypeOK /\ BoundsOK(w) /\ ~InRow(w) /\ tx[w].k \in Nat
      /\ OrderLines[o] \in Seq(Lines)
  BY ReleaseAssumption, TxTypes DEF IInv, WorkerOK, InRow
<1>2. ASSUME NEW j \in 1..Len(OrderLines[o])
      PROVE  LineFilled(available, o, draw, j) /\ LineWritten(tx[w], draw, OrderLines[o][j])
  <2>1. j < tx[w].k
    BY <1>1 DEF HasLine
  <2> QED
    BY <2>1 DEF Draws, LinesDone, LineDone
<1>3. ASSUME NEW ln \in Lines
      PROVE  AllocatedIn(w, ln) = IF ln \in LinesOf(o) THEN Got(draw, ln) ELSE allocated[ln]
  <2>1. CASE ln \in LinesOf(o)
    <3>1. LineWritten(tx[w], draw, ln)
      BY <1>2, <2>1 DEF LinesOf
    <3>2. allocated[ln] = 0
      BY <2>1, DraftEmpty
    <3> QED
      BY <2>1, <3>1, <3>2 DEF LineWritten, AllocatedIn
  <2>2. CASE ln \notin LinesOf(o)
    <3>1. tx[w].alloc[ln] = None
      BY <1>1, <2>2 DEF BoundsOK
    <3> QED
      BY <2>2, <3>1 DEF AllocatedIn
  <2> QED
    BY <2>1, <2>2
<1>4. \A r \in Rows : /\ AvailableIn(w, r) = available[r] - Drawn(o, draw, r)
                      /\ tx[w].drawn[r] = Drawn(o, draw, r)
  BY <1>1, TxTypes DEF Draws, RowsMoved, Placed
<1> QED
  BY <1>2, <1>3, <1>4 DEF Finished

\* What the request has drawn is what the lot's RESERVED stock grows by.
LotDraw(o, draw, l) ==
  SumFunctionOnSet([r \in RowsOf(l) |-> Drawn(o, draw, r)], RowsOf(l))

LEMMA ReservedGrows ==
  ASSUME IInv, NEW w \in Workers, Commit(w), crossed = {},
         NEW o \in Orders, NEW draw, Finished(w, o, draw), NEW l \in Lots
  PROVE  ReservedTotal(l)' = ReservedTotal(l) + LotDraw(o, draw, l)
<1>1. TypeOK /\ ~InRow(w) /\ RowsOf(l) \subseteq Rows /\ IsFiniteSet(RowsOf(l))
  BY RowsFinite DEF IInv, Commit, InRow
<1>2. ReservedTotal(l)' = LotDrawn(w, l)
  <2>1. ReservedTotal(l)' = ReservedSeen(w, l) /\ ReservedSeen(w, l) \in Nat
    BY <1>1, PublishedTotal, SeenType
  <2>2. ReservedSeen(w, l) + Taking(w, l) = LotDrawn(w, l) /\ Taking(w, l) = 0
    BY <1>1 DEF IInv, WorkerOK, TotalOK, Taking
  <2> QED
    BY <2>1, <2>2
<1>3. ReservedTotal(l) = SumFunctionOnSet(drawn, RowsOf(l))
  BY DEF IInv, StockNeverLost
<1>4. PICK f, g : /\ f = [r \in RowsOf(l) |-> Drawn(o, draw, r)]
                  /\ g = [x \in Rows |-> DrawnIn(w, x)]
  OBVIOUS
<1>5. PICK d : d = drawn
  OBVIOUS
<1>6. \A r \in RowsOf(l) : d[r] \in Int /\ f[r] \in Int /\ g[r] = d[r] + f[r]
  <2> TAKE r \in RowsOf(l)
  <2>1. r \in Rows /\ f[r] = tx[w].drawn[r] /\ g[r] = drawn[r] + tx[w].drawn[r]
    BY <1>1, <1>4 DEF Finished, DrawnIn
  <2>2. drawn[r] \in Nat /\ tx[w].drawn[r] \in Nat
    BY <1>1, <2>1, TxTypes DEF TypeOK
  <2> QED
    BY <1>5, <2>1, <2>2
<1>7. SumFunctionOnSet(g, RowsOf(l)) =
        SumFunctionOnSet(d, RowsOf(l)) + SumFunctionOnSet(f, RowsOf(l))
  BY <1>1, <1>6, SumPlus
<1> QED
  BY <1>2, <1>3, <1>4, <1>5, <1>7 DEF LotDrawn, LotDraw

LEMMA SerialCommit == ASSUME IInv, SerialOK, NEW w \in Workers, Commit(w) PROVE SerialOK'
<1> SUFFICES ASSUME ~overlapped' PROVE SerialOK'
  BY DEF SerialOK
<1>1. TypeOK /\ Goto(w, "idle", NoTx) /\ pc[w] = "line" /\ ~HasLine(w) /\ InTx(w)
  BY DEF IInv, Commit, Publish, InTx
<1>2. /\ \A v \in Workers \ {w} : pc[v] = "idle"
      /\ \A r \in Rows : available[r] <= Initial[r]
      /\ crossed' = {}
      /\ status[tx[w].order] = "DRAFT"
      /\ \E draw \in [LinesOf(tx[w].order) -> [Rows -> Nat]] : Draws(w, draw)
  BY <1>1, SerialFacts
<1>3. PICK o \in Orders : o = tx[w].order
  BY <1>1 DEF IInv, WorkerOK, ControlOK
<1>4. PICK draw \in [LinesOf(o) -> [Rows -> Nat]] : Draws(w, draw)
  BY <1>2, <1>3
<1>5. Finished(w, o, draw)
  BY <1>1, <1>2, <1>3, <1>4, AllFilled
<1>6. \A v \in Workers : pc'[v] = "idle" /\ ~InTx(v)'
  BY <1>1, <1>2 DEF TypeOK, Goto, InTx
<1>7. ASSUME NEW r \in Rows PROVE available'[r] <= Initial[r]
  <2>1. available'[r] = available[r] - Drawn(o, draw, r)
    BY <1>5 DEF Commit, Publish, Finished
  <2>2. available[r] \in Nat /\ Initial[r] \in Nat /\ Drawn(o, draw, r) \in Nat
    BY <1>1, DrawTypes, ReleaseAssumption DEF TypeOK
  <2>3. available[r] <= Initial[r]
    BY <1>2
  <2> QED
    BY <2>1, <2>2, <2>3
<1> QED
  BY <1>2, <1>6, <1>7 DEF SerialOK

\* The atomic step in which order o draws draw.
ReleasedWith(o, draw) ==
  LET drawnBy(r) ==
        Atomic!SumFunctionOnSet([ln \in Atomic!OrderLineSet(o) |-> draw[ln][r]],
                                Atomic!OrderLineSet(o))
      got(ln)  == Atomic!SumFunctionOnSet(draw[ln], Rows)
      full     == \A ln \in Atomic!OrderLineSet(o) : got(ln) = Requested[ln]
  IN /\ Atomic!FollowsFefo(o, draw)
     /\ fullOnly => full
     /\ available' = [r \in Rows |-> available[r] - drawnBy(r)]
     /\ [l \in Lots |-> ReservedTotal(l)]' = [l \in Lots |->
          [m \in Lots |-> ReservedTotal(m)][l]
            + Atomic!SumFunctionOnSet([r \in Atomic!RowsOfLot(l) |-> drawnBy(r)],
                                      Atomic!RowsOfLot(l))]
     /\ allocated' = [ln \in Lines |->
          IF ln \in Atomic!OrderLineSet(o) THEN got(ln) ELSE allocated[ln]]
     /\ status' = [status EXCEPT ![o] =
          IF full THEN "FULLY_ALLOCATED"
          ELSE IF \E ln \in Atomic!OrderLineSet(o) : got(ln) > 0
               THEN "PARTIALLY_ALLOCATED" ELSE "RELEASED"]

LEMMA ReleaseWith ==
  ASSUME NEW o \in Orders, status[o] = "DRAFT", status'[o] # "DRAFT", UNCHANGED fullOnly,
         NEW draw \in [LinesOf(o) -> [Rows -> Atomic!Amount]], ReleasedWith(o, draw)
  PROVE  Atomic!Release(o)
<1>1. draw \in [Atomic!OrderLineSet(o) -> [Rows -> Atomic!Amount]]
  BY SameSets
<1> QED
  BY <1>1 DEF ReleasedWith, Atomic!Release

\* A request that commits without having overlapped another has done the atomic step.
LEMMA CommitIsRelease ==
  ASSUME IInv, SerialOK, NEW w \in Workers, Commit(w), ~overlapped'
  PROVE  Atomic!Next
<1>1. /\ TypeOK /\ Goto(w, "idle", NoTx) /\ Publish(w) /\ pc[w] = "line" /\ ~HasLine(w)
      /\ InTx(w) /\ (fullOnly => AllAllocated(w))
  BY DEF IInv, Commit, Publish, InTx
<1>2. /\ \A r \in Rows : available[r] <= Initial[r]
      /\ status[tx[w].order] = "DRAFT" /\ crossed = {}
      /\ \E draw \in [LinesOf(tx[w].order) -> [Rows -> Nat]] : Draws(w, draw)
  BY <1>1, SerialFacts
<1>3. PICK o \in Orders : o = tx[w].order
  BY <1>1 DEF IInv, WorkerOK, ControlOK
<1>4. PICK draw \in [LinesOf(o) -> [Rows -> Nat]] : Draws(w, draw)
  BY <1>2, <1>3
<1>5. Finished(w, o, draw)
  BY <1>1, <1>2, <1>3, <1>4, AllFilled
<1>6. \A k \in 1..Len(OrderLines[o]) : LineFilled(available, o, draw, k)
  BY <1>5 DEF Finished
<1>7. draw \in [LinesOf(o) -> [Rows -> Atomic!Amount]] /\ Atomic!FollowsFefo(o, draw)
  BY <1>1, <1>2, <1>6, DrawIsAmount, DrawFollowsFefo
<1>8. \A ln \in Lines :
        AllocatedIn(w, ln) = IF ln \in LinesOf(o) THEN Got(draw, ln) ELSE allocated[ln]
  BY <1>5 DEF Finished
<1>9. LinesOf(o) \subseteq Lines
  BY LinesFinite
<1>10. \A ln \in LinesOf(o) : AllocatedIn(w, ln) = Got(draw, ln)
  BY <1>8, <1>9
<1>11. /\ AllAllocated(w) <=> \A ln \in LinesOf(o) : Got(draw, ln) = Requested[ln]
       /\ AnyAllocated(w) <=> \E ln \in LinesOf(o) : Got(draw, ln) > 0
  BY <1>3, <1>10 DEF AllAllocated, AnyAllocated
<1>12. status' = [status EXCEPT ![o] =
         IF \A ln \in LinesOf(o) : Got(draw, ln) = Requested[ln] THEN "FULLY_ALLOCATED"
         ELSE IF \E ln \in LinesOf(o) : Got(draw, ln) > 0
              THEN "PARTIALLY_ALLOCATED" ELSE "RELEASED"]
  BY <1>1, <1>3, <1>11 DEF Publish, NewStatus
<1>13. allocated' = [ln \in Lines |-> IF ln \in LinesOf(o) THEN Got(draw, ln) ELSE allocated[ln]]
  BY <1>1, <1>8 DEF Publish
<1>14. available' = [r \in Rows |-> available[r] - Drawn(o, draw, r)]
  BY <1>1, <1>5 DEF Publish, Finished
<1>15. \A l \in Lots : ReservedTotal(l)' = ReservedTotal(l) + LotDraw(o, draw, l)
  BY <1>2, <1>5, ReservedGrows
<1>16. [l \in Lots |-> ReservedTotal(l)]' =
         [l \in Lots |-> [m \in Lots |-> ReservedTotal(m)][l] + LotDraw(o, draw, l)]
  BY <1>15
<1>17. /\ \A r : Atomic!SumFunctionOnSet([ln \in LinesOf(o) |-> draw[ln][r]], LinesOf(o))
                  = Drawn(o, draw, r)
       /\ \A ln : Atomic!SumFunctionOnSet(draw[ln], Rows) = Got(draw, ln)
       /\ Atomic!OrderLineSet(o) = LinesOf(o) /\ \A l : Atomic!RowsOfLot(l) = RowsOf(l)
  BY SameSum, SameSets DEF Drawn, Got
<1>18. ReleasedWith(o, draw)
  <2> DEFINE drawnBy(r) == Atomic!SumFunctionOnSet([ln \in LinesOf(o) |-> draw[ln][r]], LinesOf(o))
             got(ln)  == Atomic!SumFunctionOnSet(draw[ln], Rows)
             full     == \A ln \in LinesOf(o) : got(ln) = Requested[ln]
  <2>1. fullOnly => full
    BY <1>1, <1>11, <1>17
  <2>2. available' = [r \in Rows |-> available[r] - drawnBy(r)]
    BY <1>14, <1>17
  <2>3. [l \in Lots |-> ReservedTotal(l)]' = [l \in Lots |->
          [m \in Lots |-> ReservedTotal(m)][l]
            + Atomic!SumFunctionOnSet([r \in RowsOf(l) |-> drawnBy(r)], RowsOf(l))]
    <3>1. \A l \in Lots : LotDraw(o, draw, l) =
            Atomic!SumFunctionOnSet([r \in RowsOf(l) |-> drawnBy(r)], RowsOf(l))
      BY <1>17, SameSum DEF LotDraw
    <3> QED
      BY <1>16, <3>1
  <2>4. allocated' = [ln \in Lines |-> IF ln \in LinesOf(o) THEN got(ln) ELSE allocated[ln]]
    BY <1>13, <1>17
  <2>5. status' = [status EXCEPT ![o] =
          IF full THEN "FULLY_ALLOCATED"
          ELSE IF \E ln \in LinesOf(o) : got(ln) > 0 THEN "PARTIALLY_ALLOCATED" ELSE "RELEASED"]
    BY <1>12, <1>17
  <2>6. Atomic!OrderLineSet(o) = LinesOf(o) /\ \A l : Atomic!RowsOfLot(l) = RowsOf(l)
    BY <1>17
  <2> QED
    BY <1>7, <2>1, <2>2, <2>3, <2>4, <2>5, <2>6 DEF ReleasedWith
<1>19. status[o] = "DRAFT" /\ status'[o] # "DRAFT" /\ UNCHANGED fullOnly
  <2>1. status'[o] = NewStatus(w) /\ NewStatus(w) # "DRAFT"
    BY <1>1, <1>3 DEF Publish, NewStatus, TypeOK
  <2> QED
    BY <1>1, <1>2, <1>3, <2>1 DEF Goto
<1>20. Atomic!Release(o)
  BY <1>7, <1>18, <1>19, ReleaseWith
<1> QED
  BY <1>20 DEF Atomic!Next

-----------------------------------------------------------------------------
(* The refinement.                                                         *)

LEMMA SerialStutter == ASSUME SerialOK, UNCHANGED vars PROVE SerialOK'
<1>1. \A w \in Workers : InTx(w)' = InTx(w) /\ InLine(w)' = InLine(w) /\ InRow(w)' = InRow(w)
  BY DEF vars, InTx, InLine, InRow
<1>2. \A w, draw : Draws(w, draw)' = Draws(w, draw)
  <2> TAKE w, draw
  <2>1. /\ InLine(w)' = InLine(w) /\ InRow(w)' = InRow(w)
        /\ Line(w)' = Line(w) /\ Row(w)' = Row(w)
        /\ \A r : AvailableIn(w, r)' = AvailableIn(w, r)
        /\ \A r : Placed(w, r)' = Placed(w, r)
    BY DEF vars, InLine, InRow, Line, Row, AvailableIn, Placed
  <2>2. RowsMoved(w, draw)' = RowsMoved(w, draw)
    BY <2>1 DEF vars, RowsMoved
  <2> QED
    BY <2>1, <2>2 DEF vars, Draws
<1> QED
  BY <1>1, <1>2 DEF vars, SerialOK

LEMMA InitSerial == Init => SerialOK /\ Atomic!Init
<1> SUFFICES ASSUME Init PROVE SerialOK /\ Atomic!Init
  OBVIOUS
<1>1. SerialOK
  <2>1. \A w \in Workers : pc[w] = "idle" /\ ~InTx(w)
    BY DEF Init, InTx
  <2>2. \A r \in Rows : available[r] <= Initial[r]
    <3> TAKE r \in Rows
    <3>1. available[r] = Initial[r] /\ Initial[r] \in Nat
      BY ReleaseAssumption DEF Init
    <3> QED
      BY <3>1
  <2>3. crossed = {}
    BY DEF Init
  <2> QED
    BY <2>1, <2>2, <2>3 DEF SerialOK
<1>2. ASSUME NEW l \in Lots PROVE ReservedTotal(l) = 0
  <2>1. PICK f : f = [o \in Orders |-> IF reserved[l][o] = None THEN 0 ELSE reserved[l][o]]
    OBVIOUS
  <2>2. \A o \in Orders : f[o] = 0
    BY <2>1 DEF Init
  <2>3. SumFunctionOnSet(f, Orders) = 0
    BY <2>2, RowsAssumption, SumZero
  <2> QED
    BY <2>1, <2>3 DEF ReservedTotal
<1>3. Atomic!Init
  BY <1>2 DEF Init, Atomic!Init
<1> QED
  BY <1>1, <1>3

\* Every statement but the last leaves the committed rows as they are, and rollback as well.
LEMMA LocalStatements ==
  ASSUME NEW w \in Workers,
         \/ \E o \in Orders : Check(w, o)
         \/ ReadLines(w) \/ Begin(w) \/ SkipLine(w) \/ SelectStock(w) \/ SkipRow(w)
         \/ TakeRow(w) \/ FindReserved(w) \/ Reserve(w) \/ WriteLine(w)
         \/ Reject(w) \/ Fail(w) \/ DeadlockVictim(w)
  PROVE  UNCHANGED <<status, allocated, stock>>
<1>1. CASE \E o \in Orders : Check(w, o)
  BY <1>1 DEF Check, Local
<1>2. CASE ReadLines(w) \/ Begin(w) \/ SkipLine(w) \/ SelectStock(w) \/ SkipRow(w)
  BY <1>2 DEF ReadLines, Begin, SkipLine, SelectStock, SkipRow, Local
<1>3. CASE TakeRow(w) \/ FindReserved(w) \/ Reserve(w) \/ WriteLine(w)
  BY <1>3 DEF TakeRow, Draw, FindReserved, Reserve, StoreReserved, WriteLine, StoreLine, Local
<1>4. CASE Reject(w) \/ Fail(w) \/ DeadlockVictim(w)
  BY <1>4 DEF Reject, Fail, DeadlockVictim, Rollback, Local
<1> QED
  BY <1>1, <1>2, <1>3, <1>4

LEMMA NextSerial == IInv /\ SerialOK /\ [Next]_vars => SerialOK'
<1> SUFFICES ASSUME IInv, SerialOK, [Next]_vars PROVE SerialOK'
  OBVIOUS
<1>1. CASE UNCHANGED vars
  BY <1>1, SerialStutter
<1>2. ASSUME NEW w \in Workers, NEW o \in Orders, Check(w, o) PROVE SerialOK'
  BY <1>2, SerialCheck
<1>3. ASSUME NEW w \in Workers, ReadLines(w) \/ Begin(w) PROVE SerialOK'
  BY <1>3, SerialReadLines, SerialBegin
<1>4. ASSUME NEW w \in Workers, SkipLine(w) \/ SelectStock(w) \/ SkipRow(w) PROVE SerialOK'
  BY <1>4, SerialSkipLine, SerialSelectStock, SerialSkipRow
<1>5. ASSUME NEW w \in Workers, TakeRow(w) \/ FindReserved(w) \/ Reserve(w) PROVE SerialOK'
  BY <1>5, SerialTakeRow, SerialFindReserved, SerialReserve
<1>6. ASSUME NEW w \in Workers, WriteLine(w) \/ Commit(w) PROVE SerialOK'
  BY <1>6, SerialWriteLine, SerialCommit
<1>7. ASSUME NEW w \in Workers, Reject(w) \/ Fail(w) \/ DeadlockVictim(w) PROVE SerialOK'
  BY <1>7, SerialRollback DEF Reject, Fail, DeadlockVictim
<1> QED
  BY <1>1, <1>2, <1>3, <1>4, <1>5, <1>6, <1>7 DEF Next, Statement

LEMMA NextAtomic ==
  IInv /\ SerialOK /\ [Next]_vars => [~overlapped' => Atomic!Next]_<<status, allocated, stock>>
<1> SUFFICES ASSUME IInv, SerialOK, [Next]_vars
             PROVE  (~overlapped' => Atomic!Next) \/ UNCHANGED <<status, allocated, stock>>
  OBVIOUS
<1>1. CASE UNCHANGED vars
  BY <1>1 DEF vars, stock
<1>2. ASSUME NEW w \in Workers, Commit(w), ~overlapped' PROVE Atomic!Next
  BY <1>2, CommitIsRelease
<1>3. ASSUME Next PROVE (\E w \in Workers : Commit(w)) \/ UNCHANGED <<status, allocated, stock>>
  BY <1>3, LocalStatements DEF Next, Statement
<1> QED
  BY <1>1, <1>2, <1>3

\* As long as releases do not overlap, whatever rolls back in between, each one that
\* commits is the atomic step of AtomicRelease: its lines have drawn what they request,
\* as far as there is stock, from the rows in order of expiry; what they drew is RESERVED;
\* and the status says how much that was.
THEOREM ReleaseIsAtomic == Spec => SerialReleaseIsAtomic
<1>1. Init => SerialOK /\ Atomic!Init
  BY InitSerial
<1>2. IInv /\ SerialOK /\ [Next]_vars => SerialOK'
  BY NextSerial
<1>3. IInv /\ SerialOK /\ [Next]_vars => [~overlapped' => Atomic!Next]_<<status, allocated, stock>>
  BY NextAtomic
<1> QED
  BY <1>1, <1>2, <1>3, Invariance, PTL DEF Spec, SerialReleaseIsAtomic
=============================================================================
