--------------------------- MODULE RelocationProofs ---------------------------
(***************************************************************************)
(* How far the plan's limit on transfers can be passed: the check before   *)
(* a transfer and the count after it are no transaction, so transfers that *)
(* were let in and are not yet counted (InFlight) are what may exceed it;  *)
(* and what was made is counted, lost, or held by such a request (Placed). *)
(*                                                                         *)
(* Then the types; that rows keep their product and place (Steady) and     *)
(* requests their products (Scoped); and from those, that moves that do    *)
(* not overlap lose no unit and leave the stock their movements say        *)
(* (Ledger).                                                               *)
(***************************************************************************)
EXTENDS Relocation, SumLemmas

InFlight == {w \in Workers : tx[w].order # NoOrder}
Allowed  == Limit + Cardinality(Workers) - 1

Shape ==
  /\ used \in Nat
  /\ pc \in [Workers -> Control]
  /\ tx = [w \in Workers |-> tx[w]]
  /\ \A w \in Workers : DOMAIN tx[w] = DOMAIN NoTx

\* A request that is not slotting's is a transfer with an order.
OrdersKnown ==
  \A w \in Workers : pc[w] # "idle" /\ tx[w].rec = NoRec => tx[w].order # NoOrder

\* A transfer that waits to be counted has one.
Waiting == \A w \in Workers : pc[w] = "increment" => tx[w].order # NoOrder

Inv ==
  /\ Shape
  /\ OrdersKnown /\ Waiting
  /\ used + Cardinality(InFlight) <= Allowed

-----------------------------------------------------------------------------
LEMMA NoTxFields ==
  /\ NoTx.order = NoOrder /\ NoTx.rec = NoRec
  /\ DOMAIN NoTx = {"order", "rec", "named", "todo", "from", "to", "src", "srcQty", "dst",
                    "dstQty", "dirty", "put", "log", "odd"}
  BY DEF NoTx

LEMMA WorkersCount == Cardinality(Workers) \in Nat /\ Cardinality(Workers) >= 1
<1>1. IsFiniteSet(Workers) /\ Workers # {}
  BY RelocationAssumption
<1>2. Cardinality(Workers) \in Nat
  BY <1>1, FS_CardinalityType
<1>3. Cardinality(Workers) # 0
  BY <1>1, FS_EmptySet
<1> QED
  BY <1>2, <1>3

\* Any set of workers is finite, and no larger than all of them.
LEMMA SubsetCount ==
  ASSUME NEW S, NEW T, T \subseteq Workers, S \subseteq T
  PROVE  /\ Cardinality(S) \in Nat /\ Cardinality(T) \in Nat
         /\ Cardinality(S) <= Cardinality(T)
<1>1. IsFiniteSet(Workers)
  BY RelocationAssumption
<1>2. IsFiniteSet(T)
  BY <1>1, FS_Subset
<1> QED
  BY <1>2, FS_Subset, FS_CardinalityType

LEMMA InitInv == Init => Inv
<1> SUFFICES ASSUME Init PROVE Inv
  OBVIOUS
<1>1. Shape
  BY DEF Init, Shape, Control
<1>2. OrdersKnown /\ Waiting
  BY DEF Init, OrdersKnown, Waiting
<1>3. InFlight = {}
  BY NoTxFields DEF Init, InFlight
<1>4. used + Cardinality(InFlight) = 0
  <2>1. Cardinality(InFlight) = 0
    BY <1>3, FS_EmptySet
  <2> QED
    BY <2>1 DEF Init
<1>5. Limit \in Nat
  BY RelocationAssumption
<1>6. 0 <= Allowed
  BY <1>5, WorkersCount DEF Allowed
<1> QED
  BY <1>1, <1>2, <1>4, <1>6 DEF Inv

(***************************************************************************)
(* Every step replaces the locals of one request, and none but Transfer    *)
(* puts one in flight, none but Increment counts.                          *)
(***************************************************************************)
LEMMA GotoShape ==
  ASSUME Inv, NEW w \in Workers, NEW next \in Control, NEW t, Goto(w, next, t), used' \in Nat,
         DOMAIN t = DOMAIN NoTx,
         (next # "idle" /\ t.rec = NoRec) \/ next = "increment" => t.order # NoOrder
  PROVE  /\ Shape' /\ OrdersKnown' /\ Waiting'
         /\ tx'[w] = t /\ \A v \in Workers \ {w} : tx'[v] = tx[v]
<1>1. pc \in [Workers -> Control] /\ DOMAIN tx = Workers
  BY DEF Inv, Shape
<1>2. /\ pc' \in [Workers -> Control] /\ tx' = [v \in Workers |-> IF v = w THEN t ELSE tx[v]]
      /\ pc'[w] = next /\ \A v \in Workers \ {w} : pc'[v] = pc[v]
  BY <1>1 DEF Goto
<1>3. tx'[w] = t /\ \A v \in Workers \ {w} : tx'[v] = tx[v]
  BY <1>2
<1>4. Shape'
  <2>1. \A v \in Workers : DOMAIN tx'[v] = DOMAIN NoTx
    BY <1>3 DEF Inv, Shape
  <2>2. tx' = [v \in Workers |-> tx'[v]]
    BY <1>2
  <2> QED
    BY <1>2, <2>1, <2>2 DEF Shape
<1>5. OrdersKnown' /\ Waiting'
  BY <1>2, <1>3 DEF Inv, OrdersKnown, Waiting
<1> QED
  BY <1>3, <1>4, <1>5

\* A request that was not in flight still is not.
LEMMA QuietStep ==
  ASSUME Inv, NEW w \in Workers, NEW next \in Control, NEW t, Goto(w, next, t), used' = used,
         DOMAIN t = DOMAIN NoTx, t.order # NoOrder => tx[w].order # NoOrder,
         (next # "idle" /\ t.rec = NoRec) \/ next = "increment" => t.order # NoOrder
  PROVE  Inv'
<1>1. used \in Nat /\ used + Cardinality(InFlight) <= Allowed
  BY DEF Inv, Shape
<1>2. /\ Shape' /\ OrdersKnown' /\ Waiting'
      /\ tx'[w] = t /\ \A v \in Workers \ {w} : tx'[v] = tx[v]
  BY <1>1, GotoShape
<1>3. InFlight' \subseteq InFlight /\ InFlight \subseteq Workers
  BY <1>2 DEF InFlight
<1>4. Cardinality(InFlight') \in Nat /\ Cardinality(InFlight) \in Nat
      /\ Cardinality(InFlight') <= Cardinality(InFlight)
  BY <1>3, SubsetCount
<1>5. Allowed \in Int /\ Allowed' = Allowed
  BY RelocationAssumption, WorkersCount DEF Allowed
<1>6. (used + Cardinality(InFlight))' <= Allowed'
  <2>1. used + Cardinality(InFlight') <= Allowed
    BY <1>1, <1>4, <1>5
  <2> QED
    BY <2>1, <1>5
<1> QED
  BY <1>2, <1>6 DEF Inv

\* A statement within a request.
LEMMA LocalStep ==
  ASSUME Inv, NEW w \in Workers, NEW next \in Control, NEW t, Local(w, next, t),
         pc[w] # "idle", next # "increment",
         DOMAIN t = DOMAIN tx[w], t.order = tx[w].order, t.rec = tx[w].rec
  PROVE  Inv'
<1>1. Goto(w, next, t) /\ used' = used
  BY DEF Local, db, hist
<1>2. DOMAIN t = DOMAIN NoTx
  BY DEF Inv, Shape
<1>3. t.rec = NoRec => t.order # NoOrder
  BY DEF Inv, OrdersKnown
<1> QED
  BY <1>1, <1>2, <1>3, QuietStep

\* What such a statement leaves of its locals.
Fields(w, t) == DOMAIN t = DOMAIN tx[w] /\ t.order = tx[w].order /\ t.rec = tx[w].rec

LEMMA OutsideStep ==
  ASSUME Inv, UNCHANGED <<used, pc, tx>>
  PROVE  Inv'
<1>1. used' = used /\ pc' = pc /\ tx' = tx
  OBVIOUS
<1>2. InFlight' = InFlight /\ Allowed' = Allowed
  BY <1>1 DEF InFlight, Allowed
<1>3. Cardinality(InFlight)' = Cardinality(InFlight)
  BY <1>2
<1> QED
  BY <1>1, <1>2, <1>3 DEF Inv, Shape, OrdersKnown, Waiting

-----------------------------------------------------------------------------
LEMMA TransferStep ==
  ASSUME Inv, NEW w \in Workers, NEW from, NEW to, NEW lines, NEW named,
         Transfer(w, from, to, lines, named)
  PROVE  Inv'
<1>0. PICK next \in {"source", "commit"} : \E ls :
        Begin(w, next, [NoTx EXCEPT !.order = CHOOSE o \in Unplaced : TRUE,
                                    !.named = named, !.todo = ls, !.from = from, !.to = to])
  BY DEF Transfer
<1>1. PICK ls :
        Begin(w, next, [NoTx EXCEPT !.order = CHOOSE o \in Unplaced : TRUE,
                                    !.named = named, !.todo = ls, !.from = from, !.to = to])
  BY <1>0
<1> DEFINE t == [NoTx EXCEPT !.order = CHOOSE o \in Unplaced : TRUE,
                   !.named = named, !.todo = ls, !.from = from, !.to = to]
<1>2. Goto(w, next, t) /\ used' = used
  BY <1>1 DEF Begin, db
<1>3. used \in Nat /\ used + 1 <= Limit
  BY DEF Transfer, WithinLimit, Inv, Shape
<1>4. DOMAIN t = DOMAIN NoTx /\ t.order # NoOrder
  <2>1. Unplaced # {} /\ Unplaced \subseteq Orders /\ NoOrder \notin Orders
    BY RelocationAssumption DEF Transfer, Unplaced
  <2>2. t.order = CHOOSE o \in Unplaced : TRUE
    BY NoTxFields
  <2>3. (CHOOSE o \in Unplaced : TRUE) \in Unplaced
    BY <2>1
  <2> QED
    BY <2>1, <2>2, <2>3
<1> HIDE DEF t
<1>5. Shape' /\ OrdersKnown' /\ Waiting'
  BY <1>2, <1>3, <1>4, GotoShape DEF Control
<1>6. Cardinality(InFlight') \in Nat /\ Cardinality(InFlight') <= Cardinality(Workers)
  <2>1. InFlight' \subseteq Workers
    BY DEF InFlight
  <2> QED
    BY <2>1, SubsetCount
<1>7. (used + Cardinality(InFlight))' <= Allowed'
  <2>1. used + Cardinality(InFlight') <= Limit + Cardinality(Workers) - 1
    BY <1>3, <1>6, WorkersCount, RelocationAssumption
  <2> QED
    BY <2>1, <1>2 DEF Allowed
<1> QED
  BY <1>5, <1>7 DEF Inv

LEMMA ExecuteStep ==
  ASSUME Inv, NEW w \in Workers, NEW r \in Recs, Execute(w, r)
  PROVE  Inv'
<1>1. PICK next \in {"source", "dest", "commit"} : \E log, todo, odd :
        Begin(w, next, [NoTx EXCEPT !.rec = r, !.from = recs[r].from, !.to = recs[r].to,
                                    !.log = log, !.todo = todo, !.odd = odd])
  BY DEF Execute
<1>2. PICK log, todo, odd :
        Begin(w, next, [NoTx EXCEPT !.rec = r, !.from = recs[r].from, !.to = recs[r].to,
                                    !.log = log, !.todo = todo, !.odd = odd])
  BY <1>1
<1> DEFINE t == [NoTx EXCEPT !.rec = r, !.from = recs[r].from, !.to = recs[r].to,
                             !.log = log, !.todo = todo, !.odd = odd]
<1>3. Goto(w, next, t) /\ used' = used
  BY <1>2 DEF Begin, db
<1>4. DOMAIN t = DOMAIN NoTx /\ t.order = NoOrder /\ t.rec = r
  BY NoTxFields
<1>5. t.rec # NoRec
  BY <1>4, RelocationAssumption
<1> HIDE DEF t
<1>6. next \in Control
  BY DEF Control
<1> QED
  BY <1>3, <1>4, <1>5, <1>6, QuietStep

-----------------------------------------------------------------------------
(* The statements of the transaction.                                      *)

LEMMA ReadSourceStep ==
  ASSUME Inv, NEW w \in Workers, ReadSource(w)
  PROVE  Inv'
<1>1. PICK i, odd :
        Local(w, IF Slotting(w) THEN "take" ELSE "dest",
              [tx[w] EXCEPT !.src = i, !.srcQty = QtyOf(w, i), !.odd = odd])
  BY DEF ReadSource
<1> DEFINE t == [tx[w] EXCEPT !.src = i, !.srcQty = QtyOf(w, i), !.odd = odd]
<1>2. Fields(w, t)
  BY NoTxFields DEF Fields, Inv, Shape
<1>3. pc[w] # "idle"
  BY DEF ReadSource
<1> HIDE DEF t
<1> QED
  BY <1>1, <1>2, <1>3, LocalStep DEF Fields, Control, t

LEMMA ReadDestStep ==
  ASSUME Inv, NEW w \in Workers, ReadDest(w)
  PROVE  Inv'
<1>1. PICK i \in Found(w, tx[w].to) :
        Local(w, IF Slotting(w) THEN "put" ELSE "take",
              [tx[w] EXCEPT !.dst = i, !.dstQty = QtyOf(w, i)])
  BY DEF ReadDest
<1> DEFINE t == [tx[w] EXCEPT !.dst = i, !.dstQty = QtyOf(w, i)]
<1>2. Fields(w, t)
  BY NoTxFields DEF Fields, Inv, Shape
<1>3. pc[w] # "idle"
  BY DEF ReadDest
<1> HIDE DEF t
<1> QED
  BY <1>1, <1>2, <1>3, LocalStep DEF Fields, Control, t

LEMMA TakeStep ==
  ASSUME Inv, NEW w \in Workers, Take(w)
  PROVE  Inv'
<1>1. pc[w] # "idle"
  BY DEF Take
<1>2. PICK next \in {"dest", "put"} :
        \/ Local(w, next, tx[w])
        \/ \E dirty, put : Local(w, next, [tx[w] EXCEPT !.dirty = dirty, !.put = put])
  <2>1. CASE tx[w].src = NoId
    BY <2>1 DEF Take
  <2>2. CASE tx[w].src # NoId
    BY <2>2 DEF Take
  <2> QED
    BY <2>1, <2>2
<1>3. next \in Control
  BY DEF Control
<1>4. CASE Local(w, next, tx[w])
  BY <1>1, <1>3, <1>4, LocalStep
<1>5. ASSUME NEW dirty, NEW put, Local(w, next, [tx[w] EXCEPT !.dirty = dirty, !.put = put])
      PROVE  Inv'
  <2> DEFINE t == [tx[w] EXCEPT !.dirty = dirty, !.put = put]
  <2>1. Fields(w, t)
    BY NoTxFields DEF Fields, Inv, Shape
  <2> HIDE DEF t
  <2> QED
    BY <1>1, <1>3, <1>5, <2>1, LocalStep DEF Fields, t
<1> QED
  BY <1>2, <1>4, <1>5

LEMMA PutStep ==
  ASSUME Inv, NEW w \in Workers, Put(w)
  PROVE  Inv'
<1>1. pc[w] # "idle"
  BY DEF Put
<1>2. PICK dirty, put, log, todo :
        Local(w, IF Len(tx[w].todo) = 1 THEN "commit" ELSE "source",
              [tx[w] EXCEPT !.dirty = dirty, !.put = put, !.log = log, !.todo = todo])
  BY DEF Put
<1> DEFINE t == [tx[w] EXCEPT !.dirty = dirty, !.put = put, !.log = log, !.todo = todo]
<1>3. Fields(w, t)
  BY NoTxFields DEF Fields, Inv, Shape
<1> HIDE DEF t
<1> QED
  BY <1>1, <1>2, <1>3, LocalStep DEF Fields, Control, t

LEMMA CommitStep ==
  ASSUME Inv, NEW w \in Workers, Commit(w)
  PROVE  Inv'
<1>1. pc[w] = "commit" /\ used' = used
  BY DEF Commit
<1>2. CASE Slotting(w)
  <2>1. Goto(w, "idle", NoTx)
    BY <1>2 DEF Commit
  <2> QED
    BY <1>1, <2>1, NoTxFields, QuietStep DEF Control
<1>3. CASE ~Slotting(w)
  <2> DEFINE t == [NoTx EXCEPT !.order = tx[w].order]
  <2>1. Goto(w, "increment", t)
    BY <1>3 DEF Commit
  <2>2. DOMAIN t = DOMAIN NoTx /\ t.order = tx[w].order
    BY NoTxFields
  <2>3. tx[w].order # NoOrder
    BY <1>1, <1>3 DEF Inv, OrdersKnown, Slotting
  <2> HIDE DEF t
  <2> QED
    BY <1>1, <2>1, <2>2, <2>3, QuietStep DEF Control
<1> QED
  BY <1>2, <1>3

\* What is counted is in flight no more.
LEMMA IncrementStep ==
  ASSUME Inv, NEW w \in Workers, Increment(w)
  PROVE  Inv'
<1>1. pc[w] = "increment" /\ used' = used + 1 /\ Goto(w, "idle", NoTx)
  BY DEF Increment
<1>2. used \in Nat /\ used + Cardinality(InFlight) <= Allowed
  BY DEF Inv, Shape
<1>3. /\ Shape' /\ OrdersKnown' /\ Waiting'
      /\ tx'[w] = NoTx /\ \A v \in Workers \ {w} : tx'[v] = tx[v]
  BY <1>1, <1>2, NoTxFields, GotoShape DEF Control
<1>4. w \in InFlight /\ InFlight' = InFlight \ {w}
  <2>1. tx[w].order # NoOrder
    BY <1>1 DEF Inv, Waiting
  <2> QED
    BY <1>3, <2>1, NoTxFields DEF InFlight
<1>5. Cardinality(InFlight') = Cardinality(InFlight) - 1
  <2>1. IsFiniteSet(InFlight)
    BY RelocationAssumption, FS_Subset DEF InFlight
  <2> QED
    BY <1>4, <2>1, FS_RemoveElement
<1>6. Cardinality(InFlight) \in Nat
  BY SubsetCount DEF InFlight
<1>7. (used + Cardinality(InFlight))' <= Allowed'
  <2>1. used + 1 + Cardinality(InFlight') <= Allowed
    BY <1>2, <1>5, <1>6
  <2> QED
    BY <2>1, <1>1 DEF Allowed
<1> QED
  BY <1>3, <1>7 DEF Inv

LEMMA FailStep ==
  ASSUME Inv, NEW w \in Workers, Fail(w)
  PROVE  Inv'
<1>1. Goto(w, "idle", NoTx) /\ used' = used
  BY DEF Fail, db
<1> QED
  BY <1>1, NoTxFields, QuietStep DEF Control

-----------------------------------------------------------------------------
LEMMA InvStep == Inv /\ [Next]_vars => Inv'
<1> SUFFICES ASSUME Inv, [Next]_vars PROVE Inv'
  OBVIOUS
<1>1. CASE UNCHANGED vars
  BY <1>1, OutsideStep DEF vars, db, hist
<1>2. ASSUME NEW i \in Ids, NEW j \in Ids, Reserve(i, j) PROVE Inv'
  BY <1>2, OutsideStep DEF Reserve
<1>3. ASSUME NEW s \in Sugs, NEW p \in Products, Evaluate(s, p) PROVE Inv'
  BY <1>3, OutsideStep DEF Evaluate
<1>4. ASSUME NEW s \in Sugs, NEW new, MarkSuggestion(s, new) PROVE Inv'
  BY <1>4, OutsideStep DEF MarkSuggestion
<1>5. ASSUME NEW o \in Orders, NEW new, MarkOrder(o, new) PROVE Inv'
  BY <1>5, OutsideStep DEF MarkOrder
<1>6. ASSUME NEW r \in Recs, NEW p \in Products, NEW to \in Locs, Recommend(r, p, to) PROVE Inv'
  BY <1>6, OutsideStep DEF Recommend
<1>7. ASSUME NEW r \in Recs, NEW new, MarkRecommendation(r, new) PROVE Inv'
  BY <1>7, OutsideStep DEF MarkRecommendation
<1>8. ASSUME NEW w \in Workers, Statement(w) PROVE Inv'
  BY <1>8, ReadSourceStep, ReadDestStep, TakeStep, PutStep, CommitStep, IncrementStep
     DEF Statement
<1> QED
  BY <1>1, <1>2, <1>3, <1>4, <1>5, <1>6, <1>7, <1>8, TransferStep, ExecuteStep, FailStep DEF Next

(***************************************************************************)
(* The transfers made: an order is committed once, by the request that     *)
(* placed it, which holds it until it has counted it or died.              *)
(***************************************************************************)
Settled == {o \in Made \ lost : \A w \in Workers : tx[w].order # o}

Placed ==
  /\ orders \in [Orders -> OrderStatus]
  /\ \A w \in Workers : pc[w] = "idle" \/ tx[w].rec # NoRec => tx[w].order = NoOrder
  /\ \A w \in Workers : pc[w] # "increment" => tx[w].order \notin Made
  /\ \A v, w \in Workers : v # w /\ tx[v].order = tx[w].order => tx[v].order = NoOrder
  /\ Cardinality(Settled) <= used

LEMMA OrdersFinite ==
  ASSUME NEW S, S \subseteq Orders
  PROVE  IsFiniteSet(S) /\ Cardinality(S) \in Nat
BY RelocationAssumption, FS_Subset, FS_CardinalityType

LEMMA FewerOrders ==
  ASSUME NEW S, NEW T, S \subseteq T, T \subseteq Orders
  PROVE  Cardinality(S) <= Cardinality(T)
BY OrdersFinite, FS_Subset

LEMMA MadeNothing == NoOrder \notin Made /\ NoOrder \notin Settled /\ Settled \subseteq Orders
BY RelocationAssumption DEF Made, Settled

LEMMA InitPlaced == Init => Placed
<1> SUFFICES ASSUME Init PROVE Placed
  OBVIOUS
<1>1. Settled = {} /\ Made = {}
  BY DEF Init, Settled, Made
<1>2. Cardinality(Settled) <= used
  BY <1>1, FS_EmptySet DEF Init
<1> QED
  BY <1>1, <1>2, NoTxFields DEF Init, Placed, OrderStatus

\* A request goes on with t. What it held is not settled by that, unless it counts it.
LEMMA PlacedGoto ==
  ASSUME Inv, Placed, NEW w \in Workers, NEW next, NEW t, Goto(w, next, t),
         orders' \in [Orders -> OrderStatus],
         next = "idle" \/ t.rec # NoRec => t.order = NoOrder,
         next # "increment" => t.order \notin Made',
         \A v \in Workers \ {w} : t.order = tx[v].order => t.order = NoOrder,
         Made' \subseteq Made \cup {tx[w].order}, Made \subseteq Made',
         used' \in Nat, Cardinality(Settled') <= used'
  PROVE  Placed'
<1>1. /\ pc'[w] = next /\ tx'[w] = t
      /\ \A v \in Workers \ {w} : pc'[v] = pc[v] /\ tx'[v] = tx[v]
  BY DEF Goto, Inv, Shape
<1>2. \A v \in Workers : pc'[v] = "idle" \/ tx'[v].rec # NoRec => tx'[v].order = NoOrder
  BY <1>1 DEF Placed
<1>3. \A v \in Workers : pc'[v] # "increment" => tx'[v].order \notin Made'
  <2>1. TAKE v \in Workers
  <2>2. CASE v = w
    BY <1>1, <2>2
  <2>3. CASE v # w
    <3>1. tx[v].order = tx[w].order => tx[v].order \notin Made'
      <4>1. NoOrder \notin Made'
        BY RelocationAssumption DEF Made
      <4> QED
        BY <2>3, <4>1 DEF Placed
    <3> QED
      BY <1>1, <2>3, <3>1 DEF Placed
  <2> QED
    BY <2>2, <2>3
<1>4. \A u, v \in Workers : u # v /\ tx'[u].order = tx'[v].order => tx'[u].order = NoOrder
  BY <1>1 DEF Placed
<1> QED
  BY <1>2, <1>3, <1>4 DEF Placed

\* A statement within a request, which keeps its order.
LEMMA PlacedLocal ==
  ASSUME Inv, Placed, NEW w \in Workers, NEW next, NEW t, Local(w, next, t),
         pc[w] \notin {"idle", "increment"}, next \notin {"idle", "increment"},
         t.order = tx[w].order, t.rec = tx[w].rec
  PROVE  Placed'
<1>1. Goto(w, next, t) /\ orders' = orders /\ used' = used /\ lost' = lost
  BY DEF Local, db, hist
<1>2. /\ tx'[w] = t /\ \A v \in Workers \ {w} : tx'[v] = tx[v]
  BY <1>1 DEF Goto, Inv, Shape
<1>3. Made' = Made /\ \A v \in Workers : tx'[v].order = tx[v].order
  BY <1>1, <1>2 DEF Made
<1>4. Settled' = Settled
  BY <1>1, <1>3 DEF Settled
<1>5. Cardinality(Settled') <= used' /\ used' \in Nat
  BY <1>1, <1>4 DEF Placed, Inv, Shape
<1>6. orders' \in [Orders -> OrderStatus] /\ t.order \notin Made'
  BY <1>1, <1>3 DEF Placed
<1>7. \A v \in Workers \ {w} : t.order = tx[v].order => t.order = NoOrder
  BY DEF Placed
<1>8. t.rec # NoRec => t.order = NoOrder
  BY DEF Placed
<1> QED
  BY <1>1, <1>3, <1>5, <1>6, <1>7, <1>8, PlacedGoto

\* A request begins, with a new order or none.
LEMMA PlacedBegin ==
  ASSUME Inv, Placed, NEW w \in Workers, NEW next, NEW t, Begin(w, next, t),
         next \notin {"idle", "increment"}, t.order = NoOrder \/ (t.order \in Unplaced /\ t.rec = NoRec)
  PROVE  Placed'
<1>1. Goto(w, next, t) /\ orders' = orders /\ used' = used /\ lost' = lost /\ pc[w] = "idle"
  BY DEF Begin, db
<1>2. /\ tx'[w] = t /\ \A v \in Workers \ {w} : tx'[v] = tx[v]
  BY <1>1 DEF Goto, Inv, Shape
<1>3. Made' = Made /\ t.order \notin Made /\ tx[w].order = NoOrder
  BY <1>1, MadeNothing DEF Made, Unplaced, Placed
<1>4. Settled' = Settled
  <2>1. \A o \in Made : t.order # o /\ tx[w].order # o
    BY <1>3, MadeNothing
  <2> QED
    BY <1>1, <1>2, <1>3, <2>1 DEF Settled
<1>5. Cardinality(Settled') <= used' /\ used' \in Nat
  BY <1>1, <1>4 DEF Placed, Inv, Shape
<1>6. \A v \in Workers \ {w} : t.order = tx[v].order => t.order = NoOrder
  BY DEF Unplaced
<1>7. orders' \in [Orders -> OrderStatus] /\ t.order \notin Made'
  BY <1>1, <1>3 DEF Placed
<1>8. t.rec # NoRec => t.order = NoOrder
  OBVIOUS
<1> QED
  BY <1>1, <1>3, <1>5, <1>6, <1>7, <1>8, PlacedGoto

LEMMA TransferPlaced ==
  ASSUME Inv, Placed, NEW w \in Workers, NEW from, NEW to, NEW lines, NEW named,
         Transfer(w, from, to, lines, named)
  PROVE  Placed'
<1>0. PICK next \in {"source", "commit"} : \E ls :
        Begin(w, next, [NoTx EXCEPT !.order = CHOOSE o \in Unplaced : TRUE,
                                    !.named = named, !.todo = ls, !.from = from, !.to = to])
  BY DEF Transfer
<1>1. PICK ls :
        Begin(w, next, [NoTx EXCEPT !.order = CHOOSE o \in Unplaced : TRUE,
                                    !.named = named, !.todo = ls, !.from = from, !.to = to])
  BY <1>0
<1> DEFINE t == [NoTx EXCEPT !.order = CHOOSE o \in Unplaced : TRUE,
                   !.named = named, !.todo = ls, !.from = from, !.to = to]
<1>2. t.rec = NoRec /\ t.order = CHOOSE o \in Unplaced : TRUE
  BY NoTxFields
<1>3. (CHOOSE o \in Unplaced : TRUE) \in Unplaced
  BY DEF Transfer
<1>4. Begin(w, next, t)
  BY <1>1
<1> HIDE DEF t
<1> QED
  BY <1>2, <1>3, <1>4, PlacedBegin

LEMMA ExecutePlaced ==
  ASSUME Inv, Placed, NEW w \in Workers, NEW r \in Recs, Execute(w, r)
  PROVE  Placed'
<1>0. PICK next \in {"source", "dest", "commit"} : \E log, todo, odd :
        Begin(w, next, [NoTx EXCEPT !.rec = r, !.from = recs[r].from, !.to = recs[r].to,
                                    !.log = log, !.todo = todo, !.odd = odd])
  BY DEF Execute
<1>1. PICK log, todo, odd :
        Begin(w, next, [NoTx EXCEPT !.rec = r, !.from = recs[r].from, !.to = recs[r].to,
                                    !.log = log, !.todo = todo, !.odd = odd])
  BY <1>0
<1> DEFINE t == [NoTx EXCEPT !.rec = r, !.from = recs[r].from, !.to = recs[r].to,
                             !.log = log, !.todo = todo, !.odd = odd]
<1>2. t.order = NoOrder /\ Begin(w, next, t)
  BY <1>1, NoTxFields
<1> HIDE DEF t
<1> QED
  BY <1>2, PlacedBegin

LEMMA StatementPlaced ==
  ASSUME Inv, Placed, NEW w \in Workers, ReadSource(w) \/ ReadDest(w) \/ Take(w) \/ Put(w)
  PROVE  Placed'
<1>0. PICK next \in {"take", "dest", "put", "commit", "source"} : \E t :
        Local(w, next, t) /\ t.order = tx[w].order /\ t.rec = tx[w].rec
  <2>1. CASE ReadSource(w)
    <3>1. PICK i, odd : Local(w, IF Slotting(w) THEN "take" ELSE "dest",
                              [tx[w] EXCEPT !.src = i, !.srcQty = QtyOf(w, i), !.odd = odd])
      BY <2>1 DEF ReadSource
    <3>2. [tx[w] EXCEPT !.src = i, !.srcQty = QtyOf(w, i), !.odd = odd].order = tx[w].order
          /\ [tx[w] EXCEPT !.src = i, !.srcQty = QtyOf(w, i), !.odd = odd].rec = tx[w].rec
      BY NoTxFields DEF Inv, Shape
    <3> QED
      BY <3>1, <3>2
  <2>2. CASE ReadDest(w)
    <3>1. PICK i : Local(w, IF Slotting(w) THEN "put" ELSE "take",
                         [tx[w] EXCEPT !.dst = i, !.dstQty = QtyOf(w, i)])
      BY <2>2 DEF ReadDest
    <3>2. [tx[w] EXCEPT !.dst = i, !.dstQty = QtyOf(w, i)].order = tx[w].order
          /\ [tx[w] EXCEPT !.dst = i, !.dstQty = QtyOf(w, i)].rec = tx[w].rec
      BY NoTxFields DEF Inv, Shape
    <3> QED
      BY <3>1, <3>2
  <2>3. CASE Take(w)
    <3>1. PICK dirty, put :
            \/ Local(w, IF Slotting(w) THEN "dest" ELSE "put", tx[w])
            \/ Local(w, IF Slotting(w) THEN "dest" ELSE "put",
                     [tx[w] EXCEPT !.dirty = dirty, !.put = put])
      <4>1. CASE tx[w].src = NoId
        BY <2>3, <4>1 DEF Take
      <4>2. CASE tx[w].src # NoId
        BY <2>3, <4>2 DEF Take
      <4> QED
        BY <4>1, <4>2
    <3>2. [tx[w] EXCEPT !.dirty = dirty, !.put = put].order = tx[w].order
          /\ [tx[w] EXCEPT !.dirty = dirty, !.put = put].rec = tx[w].rec
      BY NoTxFields DEF Inv, Shape
    <3> QED
      BY <3>1, <3>2
  <2>4. CASE Put(w)
    <3>1. PICK dirty, put, log, todo :
            Local(w, IF Len(tx[w].todo) = 1 THEN "commit" ELSE "source",
                  [tx[w] EXCEPT !.dirty = dirty, !.put = put, !.log = log, !.todo = todo])
      BY <2>4 DEF Put
    <3>2. [tx[w] EXCEPT !.dirty = dirty, !.put = put, !.log = log, !.todo = todo].order = tx[w].order
          /\ [tx[w] EXCEPT !.dirty = dirty, !.put = put, !.log = log, !.todo = todo].rec = tx[w].rec
      BY NoTxFields DEF Inv, Shape
    <3> QED
      BY <3>1, <3>2
  <2> QED
    BY <2>1, <2>2, <2>3, <2>4
<1>1. PICK t : Local(w, next, t) /\ t.order = tx[w].order /\ t.rec = tx[w].rec
  BY <1>0
<1>2. pc[w] \notin {"idle", "increment"}
  BY DEF ReadSource, ReadDest, Take, Put
<1> QED
  BY <1>1, <1>2, PlacedLocal

\* The order is made, but the request that made it still holds it.
LEMMA CommitPlaced ==
  ASSUME Inv, Placed, NEW w \in Workers, Commit(w)
  PROVE  Placed'
<1>1. /\ pc[w] = "commit" /\ used' = used /\ lost' = lost
      /\ orders' = [o \in Orders |-> IF o = tx[w].order THEN "COMPLETED" ELSE orders[o]]
  BY DEF Commit
<1>2. orders' \in [Orders -> OrderStatus]
  BY <1>1 DEF Placed, OrderStatus
<1>3. Made' = Made \cup ({tx[w].order} \cap Orders)
  BY <1>1 DEF Made
<1>4. PICK next, t : /\ Goto(w, next, t) /\ t.order = tx[w].order
                     /\ \/ next = "idle" /\ tx[w].order = NoOrder
                        \/ next = "increment" /\ t.rec = NoRec
  <2>1. CASE Slotting(w)
    <3>1. tx[w].order = NoOrder /\ Goto(w, "idle", NoTx)
      BY <2>1 DEF Commit, Slotting, Placed
    <3> QED
      BY <3>1, NoTxFields
  <2>2. CASE ~Slotting(w)
    <3>1. Goto(w, "increment", [NoTx EXCEPT !.order = tx[w].order])
      BY <2>2 DEF Commit
    <3> QED
      BY <3>1, NoTxFields
  <2> QED
    BY <2>1, <2>2
<1>5. tx'[w] = t /\ \A v \in Workers \ {w} : tx'[v] = tx[v]
  BY <1>4 DEF Goto, Inv, Shape
<1>6. Settled' = Settled
  <2>1. \A v \in Workers : tx'[v].order = tx[v].order
    BY <1>4, <1>5
  <2> QED
    BY <1>1, <1>3, <2>1 DEF Settled
<1>7. Cardinality(Settled') <= used' /\ used' \in Nat
  BY <1>1, <1>6 DEF Placed, Inv, Shape
<1>8. next = "idle" \/ t.rec # NoRec => t.order = NoOrder
  BY <1>4
<1>9. next # "increment" => t.order \notin Made'
  BY <1>4, RelocationAssumption DEF Made
<1>10. \A v \in Workers \ {w} : t.order = tx[v].order => t.order = NoOrder
  BY <1>4 DEF Placed
<1> QED
  BY <1>2, <1>3, <1>4, <1>7, <1>8, <1>9, <1>10, PlacedGoto

\* An order that a request lets go is settled: counted, unless it is lost.
LEMMA EndPlaced ==
  ASSUME Inv, Placed, NEW w \in Workers, Increment(w) \/ Fail(w)
  PROVE  Placed'
<1>1. Goto(w, "idle", NoTx) /\ orders' = orders
  BY DEF Increment, Fail, db
<1>2. tx'[w] = NoTx /\ \A v \in Workers \ {w} : tx'[v] = tx[v]
  BY <1>1 DEF Goto, Inv, Shape
<1>3. Made' = Made /\ NoTx.order = NoOrder /\ NoTx.rec = NoRec
  BY <1>1, NoTxFields DEF Made
<1>4. used \in Nat /\ Cardinality(Settled) <= used
  BY DEF Inv, Shape, Placed
<1>5. used' \in Nat /\ Cardinality(Settled') <= used'
  <2>1. CASE Increment(w)
    <3>1. used' = used + 1 /\ lost' = lost
      BY <2>1 DEF Increment, hist
    <3>2. Settled' \subseteq Settled \cup {tx[w].order}
      BY <1>2, <1>3, <3>1 DEF Settled
    <3>3. IsFiniteSet(Settled) /\ Cardinality(Settled) \in Nat
      BY MadeNothing, OrdersFinite
    <3>4. /\ IsFiniteSet(Settled \cup {tx[w].order})
          /\ Cardinality(Settled \cup {tx[w].order}) <= Cardinality(Settled) + 1
      BY <3>3, FS_AddElement
    <3>5. Cardinality(Settled') <= Cardinality(Settled \cup {tx[w].order})
      BY <3>2, <3>4, FS_Subset
    <3>6. Cardinality(Settled') \in Nat /\ Cardinality(Settled \cup {tx[w].order}) \in Nat
      BY <3>2, <3>4, FS_Subset, FS_CardinalityType
    <3> QED
      BY <1>4, <3>1, <3>3, <3>4, <3>5, <3>6
  <2>2. CASE Fail(w)
    <3>1. used' = used /\ lost' = IF pc[w] = "increment" THEN lost \cup {tx[w].order} ELSE lost
      BY <2>2 DEF Fail, db
    <3>2. tx[w].order \notin Made \/ tx[w].order \in lost'
      BY <3>1 DEF Placed
    <3>3. Settled' \subseteq Settled
      BY <1>2, <1>3, <3>1, <3>2 DEF Settled
    <3>4. Cardinality(Settled') <= Cardinality(Settled)
      BY <3>3, MadeNothing, FewerOrders
    <3>5. Cardinality(Settled) \in Nat /\ Cardinality(Settled') \in Nat
      BY <3>3, MadeNothing, OrdersFinite
    <3> QED
      BY <1>4, <3>1, <3>4, <3>5
  <2> QED
    BY <2>1, <2>2
<1>6. orders' \in [Orders -> OrderStatus] /\ NoTx.order \notin Made'
  BY <1>1, <1>3, MadeNothing DEF Placed
<1> QED
  BY <1>1, <1>3, <1>5, <1>6, PlacedGoto

\* Marking an order makes none.
LEMMA PlacedElsewhere ==
  ASSUME Placed, UNCHANGED <<used, lost, pc, tx>>, Made' = Made,
         orders' \in [Orders -> OrderStatus]
  PROVE  Placed'
<1>1. used' = used /\ lost' = lost /\ pc' = pc /\ tx' = tx
  OBVIOUS
<1>2. Settled' = Settled
  BY <1>1 DEF Settled
<1> QED
  BY <1>1, <1>2 DEF Placed

LEMMA NextPlaced == Inv /\ Placed /\ [Next]_vars => Placed'
<1> SUFFICES ASSUME Inv, Placed, [Next]_vars PROVE Placed'
  OBVIOUS
<1>1. ASSUME UNCHANGED <<orders, used, lost, pc, tx>> PROVE Placed'
  <2>1. orders' = orders /\ UNCHANGED <<used, lost, pc, tx>>
    BY <1>1
  <2>2. Made' = Made /\ orders' \in [Orders -> OrderStatus]
    BY <2>1 DEF Made, Placed
  <2> QED
    BY <2>1, <2>2, PlacedElsewhere
<1>2. CASE UNCHANGED vars
  BY <1>1, <1>2 DEF vars, db, hist
<1>3. ASSUME NEW i \in Ids, NEW j \in Ids, Reserve(i, j) PROVE Placed'
  BY <1>1, <1>3 DEF Reserve
<1>4. ASSUME NEW s \in Sugs, NEW p \in Products, Evaluate(s, p) PROVE Placed'
  BY <1>1, <1>4 DEF Evaluate, hist
<1>5. ASSUME NEW s \in Sugs, NEW new, MarkSuggestion(s, new) PROVE Placed'
  BY <1>1, <1>5 DEF MarkSuggestion, hist
<1>6. ASSUME NEW o \in Orders, NEW new \in {"APPROVED", "COMPLETED"}, MarkOrder(o, new) PROVE Placed'
  <2>1. orders' = [orders EXCEPT ![o] = new] /\ orders[o] # "NONE"
    BY <1>6 DEF MarkOrder
  <2>2. orders' \in [Orders -> OrderStatus] /\ Made' = Made
    BY <1>6, <2>1 DEF Made, Placed, OrderStatus
  <2> QED
    BY <1>6, <2>2, PlacedElsewhere DEF MarkOrder, hist
<1>7. ASSUME NEW r \in Recs, NEW p \in Products, NEW to \in Locs, Recommend(r, p, to) PROVE Placed'
  BY <1>1, <1>7 DEF Recommend, hist
<1>8. ASSUME NEW r \in Recs, NEW new, MarkRecommendation(r, new) PROVE Placed'
  BY <1>1, <1>8 DEF MarkRecommendation, hist
<1>9. ASSUME NEW w \in Workers, Statement(w) \/ Fail(w) PROVE Placed'
  BY <1>9, StatementPlaced, CommitPlaced, EndPlaced DEF Statement
<1> QED
  BY <1>2, <1>3, <1>4, <1>5, <1>6, <1>7, <1>8, <1>9, TransferPlaced, ExecutePlaced DEF Next

\* What is made and not lost is settled, or a request that is in flight holds it.
LEMMA InvImplies == Inv /\ Placed => OverrunIsBounded
<1> SUFFICES ASSUME Inv, Placed PROVE OverrunIsBounded
  OBVIOUS
<1> DEFINE Held == {tx[w].order : w \in InFlight} \cap Orders
           holders == {w \in InFlight : tx[w].order \in Orders}
<1>1. IsFiniteSet(InFlight) /\ Cardinality(InFlight) \in Nat
  BY RelocationAssumption, FS_Subset, SubsetCount DEF InFlight
<1>2. IsFiniteSet(holders) /\ Cardinality(holders) <= Cardinality(InFlight)
  BY <1>1, FS_Subset
<1>3. Cardinality(Held) <= Cardinality(holders) /\ IsFiniteSet(Held)
  <2>1. PICK f : f = [w \in holders |-> tx[w].order]
    OBVIOUS
  <2>2. f \in Surjection(holders, Held)
    BY <2>1 DEF Surjection
  <2> QED
    BY <1>2, <2>2, FS_Surjection
<1>4. Made \ lost \subseteq Settled \cup Held
  <2>1. SUFFICES ASSUME NEW o \in Made \ lost, o \notin Settled PROVE o \in Held
    OBVIOUS
  <2>2. PICK w \in Workers : tx[w].order = o
    BY <2>1 DEF Settled
  <2>3. w \in InFlight /\ o \in Orders
    BY <2>1, <2>2, MadeNothing DEF InFlight, Made
  <2> QED
    BY <2>2, <2>3
<1>5. Settled \subseteq Orders /\ Held \subseteq Orders
  BY MadeNothing
<1> HIDE DEF Held, holders
<1>6. Cardinality(Settled \cup Held) <= Cardinality(Settled) + Cardinality(Held)
  <2>1. Cardinality(Settled \cup Held)
        = Cardinality(Settled) + Cardinality(Held) - Cardinality(Settled \cap Held)
    BY <1>5, OrdersFinite, FS_Union
  <2>2. /\ Cardinality(Settled) \in Nat /\ Cardinality(Held) \in Nat
        /\ Cardinality(Settled \cap Held) \in Nat
    BY <1>5, OrdersFinite
  <2> QED
    BY <2>1, <2>2
<1>7. Cardinality(Made \ lost) <= Cardinality(Settled \cup Held)
  BY <1>4, <1>5, FewerOrders
<1>8. used \in Nat /\ used + Cardinality(InFlight) <= Allowed /\ Cardinality(Settled) <= used
  BY DEF Inv, Shape, Placed
<1>9. Allowed \in Int
  BY RelocationAssumption, WorkersCount DEF Allowed
<1>10. /\ Cardinality(Made \ lost) \in Nat /\ Cardinality(Settled \cup Held) \in Nat
       /\ Cardinality(Settled) \in Nat /\ Cardinality(Held) \in Nat /\ Cardinality(holders) \in Nat
  BY <1>2, <1>5, OrdersFinite, FS_CardinalityType DEF Made
<1>11. Cardinality(Made \ lost) <= Allowed
  BY <1>1, <1>2, <1>3, <1>6, <1>7, <1>8, <1>9, <1>10
<1> QED
  BY <1>11 DEF OverrunIsBounded, Allowed

\* However transfer orders overlap and fail, the transfers made pass the plan's limit by
\* less than the number of requests served at once, besides those whose request died after
\* its COMMIT: what the code has committed, whatever its counter says.
THEOREM LimitOverrun == Spec => []OverrunIsBounded
<1>1. Init => Inv /\ Placed
  BY InitInv, InitPlaced
<1>2. Inv /\ Placed /\ [Next]_vars => Inv' /\ Placed'
  BY InvStep, NextPlaced
<1>3. Inv /\ Placed => OverrunIsBounded
  BY InvImplies
<1> QED
  BY <1>1, <1>2, <1>3, PTL DEF Spec

-----------------------------------------------------------------------------
(***************************************************************************)
(* Types, and what holds of a request's locals whatever the others do.     *)
(***************************************************************************)
Busy == Control \ {"idle", "increment"}

\* What the line at hand, of quantity n, brings into location l and takes out of it.
Into(t, l)  == IF l = t.to THEN Head(t.todo).qty ELSE 0
OutOf(t, l) == IF l = t.from THEN Head(t.todo).qty ELSE 0

ProductsOf(t) == ItemsOf(t) \cup {t.put[i].product : i \in t.dirty}

\* A request at work has a line at hand, unless it has none at all; slotting has one only, of a positive quantity,
\* and with it the movements that it recorded beforehand.
Lined(c, t) ==
  c \in Busy =>
    /\ t.to \in Locs /\ (c # "commit" => t.todo # <<>>)
    /\ t.rec = NoRec \/ c \in {"source", "take"} => t.from \in Locs
    /\ t.rec # NoRec => Len(t.todo) = 1
    /\ t.rec # NoRec /\ c # "commit" =>
         /\ Head(t.todo).qty > 0
         /\ \A l \in Locs : t.log[Head(t.todo).product][l] = Into(t, l) - OutOf(t, l)

\* Movements are recorded for the products of the request only.
Logs(t) == \A p \in Products \ ProductsOf(t) : \A l \in Locs : t.log[p][l] = 0

AtSrc(c, t) == c = "take" \/ (c = "dest" /\ t.rec = NoRec)
AtDst(c, t) == c = "put" \/ (c = "take" /\ t.rec = NoRec)

\* A move without a source row, or within a location, is known to be one.
Odd(c, t) ==
  /\ AtSrc(c, t) /\ t.src = NoId => Head(t.todo).product \in t.odd
  /\ t.rec = NoRec /\ (AtSrc(c, t) \/ AtDst(c, t)) /\ t.from = t.to =>
       Head(t.todo).product \in t.odd
  /\ AtDst(c, t) /\ t.dst = NoId => t.dstQty = 0

Fits(c, t) == /\ c \in {"idle", "increment"} => t.dirty = {}
              /\ Lined(c, t) /\ Odd(c, t)

TInv == TypeOK /\ \A w \in Workers : Fits(pc[w], tx[w])

LEMMA NoTxType ==
  /\ NoTx \in Tx /\ NoTx.dirty = {} /\ NoTx.todo = <<>> /\ NoTx.odd = {}
  /\ NoTx.log = [p \in Products |-> [l \in Locs |-> 0]]
  BY RelocationAssumption DEF NoTx, NoMoves, Tx

LEMMA IdleFits ==
  ASSUME NEW t \in Tx, t.dirty = {}, NEW c \in {"idle", "increment"}
  PROVE  Fits(c, t)
BY DEF Fits, Lined, Odd, AtSrc, AtDst, Busy

LEMMA InitTypes == Init => TInv
<1> SUFFICES ASSUME Init PROVE TInv
  OBVIOUS
<1>1. (CHOOSE p \in Products : TRUE) \in Products /\ (CHOOSE l \in Locs : TRUE) \in Locs
  BY RelocationAssumption
<1>2. rows \in [Ids -> Row] /\ logged \in [Products -> [Locs -> Int]]
  BY RelocationAssumption DEF Init, NoMoves
<1>3. recs \in [Recs -> Rec] /\ sugs \in [Sugs -> Sug] /\ orders \in [Orders -> OrderStatus]
  BY <1>1 DEF Init, Blank, Rec, Sug, OrderStatus
<1>4. pc \in [Workers -> Control] /\ \A w \in Workers : tx[w] \in Tx
  BY NoTxType DEF Init, Control
<1>5. TypeOK
  BY <1>2, <1>3, <1>4 DEF Init, TypeOK
<1>6. \A w \in Workers : Fits(pc[w], tx[w])
  BY IdleFits, NoTxType DEF Init
<1> QED
  BY <1>5, <1>6 DEF TInv

\* The request at work gets new locals.
LEMMA GotoAt ==
  ASSUME Inv, TypeOK, NEW w \in Workers, NEW next, NEW t, Goto(w, next, t)
  PROVE  /\ pc'[w] = next /\ tx'[w] = t
         /\ \A v \in Workers \ {w} : pc'[v] = pc[v] /\ tx'[v] = tx[v]
         /\ next \in Control => pc' \in [Workers -> Control]
BY DEF Goto, Inv, Shape, TypeOK

Tables ==
  /\ rows \in [Ids -> Row] /\ logged \in [Products -> [Locs -> Int]]
  /\ recs \in [Recs -> Rec] /\ sugs \in [Sugs -> Sug]
  /\ orders \in [Orders -> OrderStatus] /\ used \in Nat
  /\ lost \subseteq Orders /\ met \subseteq Products /\ irregular \subseteq Products

LEMMA GotoFits ==
  ASSUME Inv, TInv, NEW w \in Workers, NEW next \in Control, NEW t \in Tx, Goto(w, next, t),
         Fits(next, t), Tables'
  PROVE  TInv'
<1>1. TypeOK /\ \A v \in Workers : Fits(pc[v], tx[v])
  BY DEF TInv
<1>2. /\ pc'[w] = next /\ tx'[w] = t /\ pc' \in [Workers -> Control]
      /\ \A v \in Workers \ {w} : pc'[v] = pc[v] /\ tx'[v] = tx[v]
  BY <1>1, GotoAt
<1>3. \A v \in Workers : tx'[v] \in Tx
  BY <1>1, <1>2 DEF TypeOK
<1>4. TypeOK'
  BY <1>2, <1>3 DEF Tables, TypeOK
<1>5. \A v \in Workers : Fits(pc'[v], tx'[v])
  BY <1>1, <1>2
<1> QED
  BY <1>4, <1>5 DEF TInv

LEMMA SameTables == ASSUME TypeOK, UNCHANGED <<db, hist>> PROVE Tables'
<1>1. rows' = rows /\ logged' = logged /\ recs' = recs /\ sugs' = sugs /\ orders' = orders
      /\ used' = used /\ lost' = lost /\ met' = met /\ irregular' = irregular
  BY DEF db, hist
<1> QED
  BY <1>1 DEF Tables, TypeOK

LEMMA LocalFits ==
  ASSUME Inv, TInv, NEW w \in Workers, NEW next \in Control, NEW t \in Tx, Local(w, next, t),
         Fits(next, t)
  PROVE  TInv'
<1>1. Tables'
  BY SameTables DEF Local, TInv
<1> QED
  BY <1>1, GotoFits DEF Local

-----------------------------------------------------------------------------
(* What each statement does to the locals.                                 *)

LEMMA ItemType ==
  ASSUME TInv, NEW w \in Workers, pc[w] \in Busy, pc[w] # "commit"
  PROVE  /\ Item(w) \in Line /\ Item(w).product \in Products /\ Item(w).qty \in Nat
         /\ Item(w).qty \in Int /\ tx[w].todo # <<>> /\ tx[w].todo \in Seq(Line)
         /\ Item(w).product \in ItemsOf(tx[w]) /\ tx[w].to \in Locs /\ tx[w] \in Tx
<1>1. tx[w] \in Tx /\ Lined(pc[w], tx[w])
  BY DEF TInv, TypeOK, Fits
<1>2. tx[w].todo \in Seq(Line) /\ tx[w].todo # <<>> /\ tx[w].to \in Locs
  BY <1>1 DEF Lined, Tx
<1>3. Item(w) = tx[w].todo[1] /\ 1 \in 1..Len(tx[w].todo)
  BY <1>2 DEF Item
<1>4. Item(w) \in Line
  BY <1>2, <1>3
<1>5. Item(w).product \in ItemsOf(tx[w])
  BY <1>3 DEF ItemsOf
<1> QED
  BY <1>1, <1>2, <1>4, <1>5 DEF Line

LEMMA RowInType ==
  ASSUME TypeOK
  PROVE  \A w \in Workers : \A i \in Ids : RowIn(w, i) \in Row
BY DEF TypeOK, RowIn, Tx

LEMMA ReadSourceEffect ==
  ASSUME TInv, NEW w \in Workers, ReadSource(w)
  PROVE  \E t \in Tx :
           /\ Local(w, IF Slotting(w) THEN "take" ELSE "dest", t)
           /\ t = [tx[w] EXCEPT !.src = t.src, !.srcQty = t.srcQty, !.odd = t.odd]
           /\ tx[w].odd \subseteq t.odd
           /\ t.src = NoId \/ (~Slotting(w) /\ t.from = t.to) => Item(w).product \in t.odd
           /\ t.src # NoId => /\ t.src \in Ids /\ t.srcQty = RowIn(w, t.src).qty
                              /\ RowIn(w, t.src).product = Item(w).product
                              /\ RowIn(w, t.src).loc = t.from
<1>1. PICK i \in Found(w, tx[w].from) :
        Local(w, IF Slotting(w) THEN "take" ELSE "dest",
             [tx[w] EXCEPT !.src = i, !.srcQty = QtyOf(w, i),
                           !.odd = @ \cup IF i = NoId \/ (~Slotting(w) /\ tx[w].from = tx[w].to)
                                          THEN {Item(w).product} ELSE {}])
  BY DEF ReadSource
<1>2. pc[w] \in Busy
  BY DEF ReadSource, Busy, Control
<1>3. Item(w).product \in Products /\ tx[w] \in Tx
  BY <1>2, ItemType DEF ReadSource
<1>4. i \in Ids \cup {NoId} /\ (i # NoId => i \in Match(w, tx[w].from))
  BY DEF Found, Match
<1>5. QtyOf(w, i) \in Int
  BY <1>4, RowInType DEF QtyOf, Row, TInv
<1>6. PICK odd \in SUBSET Products :
        odd = tx[w].odd \cup IF i = NoId \/ (~Slotting(w) /\ tx[w].from = tx[w].to)
                             THEN {Item(w).product} ELSE {}
  BY <1>3 DEF Tx
<1> DEFINE t == [tx[w] EXCEPT !.src = i, !.srcQty = QtyOf(w, i), !.odd = odd]
<1>7. Local(w, IF Slotting(w) THEN "take" ELSE "dest", t)
  BY <1>1, <1>6
<1>8. t \in Tx /\ t.src = i /\ t.srcQty = QtyOf(w, i) /\ t.odd = odd
      /\ t.from = tx[w].from /\ t.to = tx[w].to
  BY <1>3, <1>4, <1>5 DEF Tx
<1>9. t = [tx[w] EXCEPT !.src = t.src, !.srcQty = t.srcQty, !.odd = t.odd]
  BY <1>8
<1> HIDE DEF t
<1>10. t.src # NoId => /\ t.src \in Ids /\ t.srcQty = RowIn(w, t.src).qty
                       /\ RowIn(w, t.src).product = Item(w).product
                       /\ RowIn(w, t.src).loc = t.from
  BY <1>4, <1>8 DEF Match, QtyOf
<1> QED
  BY <1>6, <1>7, <1>8, <1>9, <1>10

LEMMA ReadDestEffect ==
  ASSUME TInv, NEW w \in Workers, ReadDest(w)
  PROVE  \E t \in Tx :
           /\ Local(w, IF Slotting(w) THEN "put" ELSE "take", t)
           /\ t = [tx[w] EXCEPT !.dst = t.dst, !.dstQty = t.dstQty]
           /\ t.dst = NoId => t.dstQty = 0
           /\ t.dst # NoId => /\ t.dst \in Ids /\ t.dstQty = RowIn(w, t.dst).qty
                              /\ RowIn(w, t.dst).product = Item(w).product
                              /\ RowIn(w, t.dst).loc = t.to
<1>1. PICK i \in Found(w, tx[w].to) :
        Local(w, IF Slotting(w) THEN "put" ELSE "take",
              [tx[w] EXCEPT !.dst = i, !.dstQty = QtyOf(w, i)])
  BY DEF ReadDest
<1>3. tx[w] \in Tx
  BY DEF TInv, TypeOK
<1>4. i \in Ids \cup {NoId} /\ (i # NoId => i \in Match(w, tx[w].to))
  BY DEF Found, Match
<1>5. QtyOf(w, i) \in Int
  BY <1>4, RowInType DEF QtyOf, Row, TInv
<1> DEFINE t == [tx[w] EXCEPT !.dst = i, !.dstQty = QtyOf(w, i)]
<1>7. Local(w, IF Slotting(w) THEN "put" ELSE "take", t)
  BY <1>1
<1>8. t \in Tx /\ t.dst = i /\ t.dstQty = QtyOf(w, i) /\ t.from = tx[w].from /\ t.to = tx[w].to
  BY <1>3, <1>4, <1>5 DEF Tx
<1>9. t = [tx[w] EXCEPT !.dst = t.dst, !.dstQty = t.dstQty]
  BY <1>8
<1> HIDE DEF t
<1>10. t.dst # NoId => /\ t.dst \in Ids /\ t.dstQty = RowIn(w, t.dst).qty
                       /\ RowIn(w, t.dst).product = Item(w).product
                       /\ RowIn(w, t.dst).loc = t.to
  BY <1>4, <1>8 DEF Match, QtyOf
<1>11. t.dst = NoId => t.dstQty = 0
  BY <1>8 DEF QtyOf
<1> QED
  BY <1>7, <1>8, <1>9, <1>10, <1>11

\* A row that the transaction changes or inserts.
Writes(w, t, i, r) ==
  /\ t.dirty = tx[w].dirty \cup {i} /\ t.put[i] = r
  /\ \A j \in Ids \ {i} : t.put[j] = tx[w].put[j]

LEMMA TakeEffect ==
  ASSUME TInv, NEW w \in Workers, Take(w), tx[w].src # NoId
  PROVE  \E t \in Tx :
           /\ Local(w, IF Slotting(w) THEN "dest" ELSE "put", t)
           /\ tx[w].src \in Ids /\ Free(w, tx[w].src)
           /\ t = [tx[w] EXCEPT !.dirty = t.dirty, !.put = t.put]
           /\ Writes(w, t, tx[w].src, [RowIn(w, tx[w].src) EXCEPT !.qty = Left(w)])
           /\ Left(w) \in Int
<1>1. PICK i \in Ids : i = tx[w].src
  BY DEF TInv, TypeOK, Tx
<1>2. pc[w] \in Busy /\ tx[w] \in Tx
  BY DEF Take, Busy, Control, TInv, TypeOK
<1>3. Left(w) \in Int
  BY <1>2, ItemType DEF Left, Tx, Take
<1>4. RowIn(w, i) \in Row
  BY RowInType DEF TInv
<1>5. PICK r \in Row : r = [RowIn(w, i) EXCEPT !.qty = Left(w)]
  BY <1>3, <1>4 DEF Row
<1>6. tx[w].put \in [Ids -> Row]
  BY <1>2 DEF Tx
<1>7. [tx[w].put EXCEPT ![i] = r] \in [Ids -> Row]
  BY <1>6
<1>8. PICK put \in [Ids -> Row] : put = [tx[w].put EXCEPT ![i] = r]
  BY <1>7
<1> DEFINE t == [tx[w] EXCEPT !.dirty = tx[w].dirty \cup {i}, !.put = put]
<1>9. Local(w, IF Slotting(w) THEN "dest" ELSE "put", t)
  BY <1>1, <1>5, <1>8, RelocationAssumption DEF Take
<1>10. t \in Tx /\ t.dirty = tx[w].dirty \cup {i} /\ t.put = put
  BY <1>2 DEF Tx
<1>11. t = [tx[w] EXCEPT !.dirty = t.dirty, !.put = t.put]
  BY <1>10
<1> HIDE DEF t
<1>12. Free(w, i)
  BY <1>1 DEF Take
<1>13. Writes(w, t, i, r)
  BY <1>6, <1>8, <1>10 DEF Writes
<1> QED
  BY <1>1, <1>3, <1>5, <1>9, <1>10, <1>11, <1>12, <1>13

LEMMA TakeNothing ==
  ASSUME TInv, NEW w \in Workers, Take(w), tx[w].src = NoId
  PROVE  Local(w, IF Slotting(w) THEN "dest" ELSE "put", tx[w])
BY DEF Take

\* The row that a line lands on, and the movements that a transfer records.
Lands(w, t, i, r) ==
  /\ Writes(w, t, i, r)
  /\ tx[w].dst # NoId => i = tx[w].dst /\ r = [RowIn(w, i) EXCEPT !.qty = Landed(w)]
  /\ tx[w].dst = NoId => /\ RowIn(w, i).loc = NoLoc
                         /\ r.product = Item(w).product /\ r.loc = tx[w].to
                         /\ r.qty = Landed(w)
  /\ t = [tx[w] EXCEPT !.dirty = t.dirty, !.put = t.put, !.log = t.log, !.todo = t.todo]
  /\ Slotting(w) => t.log = tx[w].log
  /\ ~Slotting(w) => \A p \in Products : \A l \in Locs :
       t.log[p][l] = IF p = Item(w).product
                     THEN tx[w].log[p][l] + Into(tx[w], l) - OutOf(tx[w], l)
                     ELSE tx[w].log[p][l]
  /\ t.todo = IF Len(tx[w].todo) = 1 THEN tx[w].todo ELSE Tail(tx[w].todo)

LEMMA PutEffect ==
  ASSUME TInv, NEW w \in Workers, Put(w)
  PROVE  \E t \in Tx, i \in Ids, r \in Row :
           /\ Local(w, IF Len(tx[w].todo) = 1 THEN "commit" ELSE "source", t)
           /\ Free(w, i) /\ Landed(w) \in Int
           /\ Lands(w, t, i, r)
<1> DEFINE new(i) == IF tx[w].dst # NoId THEN [RowIn(w, i) EXCEPT !.qty = Landed(w)]
                     ELSE [product |-> Item(w).product, loc |-> tx[w].to,
                           status |-> "AVAILABLE", qty |-> Landed(w)]
           log == IF Slotting(w) THEN tx[w].log
                  ELSE [tx[w].log EXCEPT ![Item(w).product] = [l \in Locs |->
                            @[l] + (IF l = tx[w].to THEN Item(w).qty ELSE 0)
                                 - (IF l = tx[w].from THEN Item(w).qty ELSE 0)]]
           todo == IF Len(tx[w].todo) = 1 THEN tx[w].todo ELSE Tail(tx[w].todo)
<1>1. PICK i \in Landing(w) :
        /\ Free(w, i)
        /\ Local(w, IF Len(tx[w].todo) = 1 THEN "commit" ELSE "source",
                 [tx[w] EXCEPT !.dirty = tx[w].dirty \cup {i},
                               !.put = [tx[w].put EXCEPT ![i] = new(i)], !.log = log,
                               !.todo = todo])
  <2>1. PICK i \in Landing(w) :
          /\ Free(w, i)
          /\ Local(w, IF Len(tx[w].todo) = 1 THEN "commit" ELSE "source",
                   [tx[w] EXCEPT !.dirty = @ \cup {i}, !.put[i] = new(i), !.log = log,
                                 !.todo = IF Len(@) = 1 THEN @ ELSE Tail(@)])
    BY DEF Put
  <2>2. [tx[w] EXCEPT !.dirty = @ \cup {i}, !.put[i] = new(i), !.log = log,
                      !.todo = IF Len(@) = 1 THEN @ ELSE Tail(@)]
        = [tx[w] EXCEPT !.dirty = tx[w].dirty \cup {i},
                        !.put = [tx[w].put EXCEPT ![i] = new(i)], !.log = log, !.todo = todo]
    OBVIOUS
  <2> QED
    BY <2>1, <2>2
<1>2. pc[w] \in Busy /\ tx[w] \in Tx
  BY DEF Put, Busy, Control, TInv, TypeOK
<1>3. /\ i \in Ids
      /\ tx[w].dst # NoId => i = tx[w].dst
      /\ tx[w].dst = NoId => RowIn(w, i).loc = NoLoc
  <2>1. CASE tx[w].dst # NoId
    BY <1>1, <1>2, <2>1 DEF Landing, Tx
  <2>2. CASE tx[w].dst = NoId
    <3>1. Unused(w) # {} /\ i = CHOOSE k \in Unused(w) : TRUE
      BY <1>1, <2>2 DEF Landing
    <3>2. i \in Unused(w)
      BY <3>1
    <3> QED
      BY <2>2, <3>2 DEF Unused
  <2> QED
    BY <2>1, <2>2
<1>4. /\ Landed(w) \in Int /\ Item(w).product \in Products /\ tx[w].to \in Locs
      /\ Item(w).qty \in Int /\ tx[w].todo \in Seq(Line) /\ tx[w].todo # <<>>
  BY <1>2, ItemType DEF Landed, Tx, Put
<1>5. RowIn(w, i) \in Row
  BY <1>3, RowInType DEF TInv
<1>6. PICK r \in Row : r = new(i)
  <2>1. CASE tx[w].dst # NoId
    BY <1>4, <1>5, <2>1 DEF Row
  <2>2. CASE tx[w].dst = NoId
    <3>1. [product |-> Item(w).product, loc |-> tx[w].to, status |-> "AVAILABLE",
           qty |-> Landed(w)] \in Row
      BY <1>4 DEF Row, StockStatus
    <3>2. new(i) \in Row
      BY <2>2, <3>1
    <3> QED
      BY <3>2
  <2> QED
    BY <2>1, <2>2
<1>7. tx[w].put \in [Ids -> Row] /\ tx[w].log \in [Products -> [Locs -> Int]]
  BY <1>2 DEF Tx
<1>8. [tx[w].put EXCEPT ![i] = r] \in [Ids -> Row]
  BY <1>7
<1>9. PICK put \in [Ids -> Row] : put = [tx[w].put EXCEPT ![i] = r]
  BY <1>8
<1>10. /\ log \in [Products -> [Locs -> Int]]
       /\ Slotting(w) => log = tx[w].log
       /\ ~Slotting(w) => \A p \in Products : \A l \in Locs :
            log[p][l] = IF p = Item(w).product
                        THEN tx[w].log[p][l] + Into(tx[w], l) - OutOf(tx[w], l)
                        ELSE tx[w].log[p][l]
  <2>1. CASE Slotting(w)
    BY <1>7, <2>1
  <2>2. CASE ~Slotting(w)
    <3>1. PICK f \in [Locs -> Int] :
            \A l \in Locs : f[l] = tx[w].log[Item(w).product][l] + Into(tx[w], l) - OutOf(tx[w], l)
      <4> DEFINE f == [l \in Locs |-> tx[w].log[Item(w).product][l] + Into(tx[w], l) - OutOf(tx[w], l)]
      <4>1. \A l \in Locs : Into(tx[w], l) \in Int /\ OutOf(tx[w], l) \in Int
        BY <1>4 DEF Into, OutOf, Item
      <4>2. f \in [Locs -> Int]
        BY <1>4, <1>7, <4>1
      <4> QED
        BY <4>2
    <3>2. [l \in Locs |-> tx[w].log[Item(w).product][l]
                            + (IF l = tx[w].to THEN Item(w).qty ELSE 0)
                            - (IF l = tx[w].from THEN Item(w).qty ELSE 0)] = f
      BY <3>1 DEF Into, OutOf, Item
    <3>3. log = [tx[w].log EXCEPT ![Item(w).product] = f]
      BY <2>2, <3>2
    <3> QED
      BY <1>4, <1>7, <2>2, <3>1, <3>3
  <2> QED
    BY <2>1, <2>2
<1>11. todo \in Seq(Line)
  BY <1>4
<1>12. PICK log2 \in [Products -> [Locs -> Int]], todo2 \in Seq(Line) : log2 = log /\ todo2 = todo
  BY <1>10, <1>11
<1> HIDE DEF new, log, todo
<1> DEFINE t == [tx[w] EXCEPT !.dirty = tx[w].dirty \cup {i}, !.put = put, !.log = log2, !.todo = todo2]
<1>13. Local(w, IF Len(tx[w].todo) = 1 THEN "commit" ELSE "source", t)
  BY <1>1, <1>6, <1>9, <1>12
<1>14. /\ t \in Tx /\ t.dirty = tx[w].dirty \cup {i} /\ t.put = put /\ t.log = log2
       /\ t.todo = todo2
  BY <1>2, <1>3 DEF Tx
<1>15. t = [tx[w] EXCEPT !.dirty = t.dirty, !.put = t.put, !.log = t.log, !.todo = t.todo]
  BY <1>14
<1> HIDE DEF t
<1>16. Writes(w, t, i, r)
  BY <1>7, <1>9, <1>14 DEF Writes
<1>17. Lands(w, t, i, r)
  <2>1. t.log = log /\ t.todo = todo
    BY <1>12, <1>14
  <2>2. /\ tx[w].dst # NoId => i = tx[w].dst /\ r = [RowIn(w, i) EXCEPT !.qty = Landed(w)]
        /\ tx[w].dst = NoId => /\ RowIn(w, i).loc = NoLoc
                               /\ r.product = Item(w).product /\ r.loc = tx[w].to
                               /\ r.qty = Landed(w)
    BY <1>3, <1>6 DEF new
  <2>3. todo = IF Len(tx[w].todo) = 1 THEN tx[w].todo ELSE Tail(tx[w].todo)
    BY DEF todo
  <2> QED
    BY <1>10, <1>15, <1>16, <2>1, <2>2, <2>3 DEF Lands
<1> QED
  BY <1>1, <1>3, <1>4, <1>13, <1>14, <1>17

LEMMA CommitTables ==
  ASSUME TypeOK, NEW w \in Workers, Commit(w)
  PROVE  Tables'
<1>1. rows' \in [Ids -> Row]
  BY RowInType DEF Commit
<1>2. logged' \in [Products -> [Locs -> Int]]
  <2>1. \A p \in Products, l \in Locs : logged[p][l] + tx[w].log[p][l] \in Int
    BY DEF TypeOK, Tx
  <2>2. logged' = [p \in Products |-> [l \in Locs |-> logged[p][l] + tx[w].log[p][l]]]
    BY DEF Commit
  <2> QED
    BY <2>1, <2>2
<1>3. recs' \in [Recs -> Rec]
  <2>1. \A r \in Recs : [recs[r] EXCEPT !.status = "EXECUTED"] \in Rec
    BY DEF TypeOK, Rec
  <2> QED
    BY <2>1 DEF Commit, TypeOK
<1>4. sugs' \in [Sugs -> Sug]
  <2>1. \A s \in Sugs : [sugs[s] EXCEPT !.status = "EXECUTED"] \in Sug
    BY DEF TypeOK, Sug
  <2> QED
    BY <2>1 DEF Commit, TypeOK
<1>5. orders' \in [Orders -> OrderStatus]
  BY DEF Commit, TypeOK, OrderStatus
<1>6. used' = used /\ lost' = lost /\ met' = met /\ irregular' \subseteq Products
  BY DEF Commit, TypeOK, Tx
<1> QED
  BY <1>1, <1>2, <1>3, <1>4, <1>5, <1>6 DEF Tables, TypeOK

-----------------------------------------------------------------------------
(* The locals a request starts with.                                       *)
Opened(next, t) ==
  /\ t.dirty = {} /\ Fits(next, t) /\ Logs(t)
  /\ next \in {"source", "dest", "commit"}
  /\ t.rec = NoRec => next # "dest" /\ t.log = NoTx.log
  /\ t.rec # NoRec /\ next = "dest" => t.from = NoLoc
  /\ t.rec # NoRec /\ next = "commit" /\ Head(t.todo).product \notin t.odd =>
       \A l \in Locs : t.log[Head(t.todo).product][l] = 0
  /\ t.rec # NoRec /\ next = "source" /\ Head(t.todo).product \notin t.odd =>
       \A i \in Ids : rows[i].product = Head(t.todo).product /\ rows[i].loc = t.from =>
         rows[i].qty = Head(t.todo).qty

LEMMA TransferEffect ==
  ASSUME TypeOK, NEW w \in Workers, NEW from \in Locs, NEW to \in Locs,
         NEW lines \in Asks \cup {<<>>}, NEW named \in SUBSET Sugs,
         Transfer(w, from, to, lines, named)
  PROVE  \E t \in Tx, next \in Control : Begin(w, next, t) /\ Opened(next, t)
<1> DEFINE suggested(f) == [k \in DOMAIN f |-> [product |-> sugs[f[k]].product, qty |-> sugs[f[k]].qty]]
<1>1. PICK ls \in IF lines # <<>> THEN {lines}
                  ELSE {suggested(f) : f \in Bijection(1..Cardinality(named), named)} :
        Begin(w, IF ls = <<>> THEN "commit" ELSE "source",
              [NoTx EXCEPT !.order = CHOOSE o \in Unplaced : TRUE, !.named = named,
                           !.todo = ls, !.from = from, !.to = to])
  BY DEF Transfer
<1>2. ls \in Seq(Line)
  <2>1. CASE lines # <<>>
    BY <1>1, <2>1, RelocationAssumption
  <2>2. CASE lines = <<>>
    <3>1. PICK f \in Bijection(1..Cardinality(named), named) : ls = suggested(f)
      BY <1>1, <2>2
    <3>2. IsFiniteSet(named)
      BY RelocationAssumption, FS_Subset
    <3>3. Cardinality(named) \in Nat
      BY <3>2, FS_CardinalityType
    <3>4. f \in [1..Cardinality(named) -> named]
      BY DEF Bijection, Injection, Surjection
    <3>5. \A k \in 1..Cardinality(named) :
            [product |-> sugs[f[k]].product, qty |-> sugs[f[k]].qty] \in Line
      <4>1. TAKE k \in 1..Cardinality(named)
      <4>2. sugs[f[k]] \in Sug
        BY <3>4 DEF TypeOK
      <4> QED
        BY <4>2 DEF Sug, Line
    <3>6. ls \in [1..Cardinality(named) -> Line]
      BY <3>1, <3>4, <3>5
    <3> QED
      BY <3>3, <3>6
  <2> QED
    BY <2>1, <2>2
<1>3. (CHOOSE o \in Unplaced : TRUE) \in Orders
  <2>1. Unplaced # {} /\ Unplaced \subseteq Orders
    BY DEF Transfer, Unplaced
  <2> QED
    BY <2>1
<1>4. PICK o \in Orders : o = CHOOSE a \in Unplaced : TRUE
  BY <1>3
<1> DEFINE t == [NoTx EXCEPT !.order = o, !.named = named, !.todo = ls, !.from = from, !.to = to]
<1>5. PICK next \in {"source", "commit"} :
        Begin(w, next, t) /\ (next = "source" => ls # <<>>)
  BY <1>1, <1>4
<1>6. /\ t \in Tx /\ t.dirty = {} /\ t.log = NoTx.log /\ t.rec = NoRec /\ t.todo = ls
      /\ t.from = from /\ t.to = to
  BY <1>2, NoTxType, NoTxFields DEF Tx
<1> HIDE DEF t
<1>7. Fits(next, t)
  <2>1. Lined(next, t)
    BY <1>2, <1>5, <1>6 DEF Lined, Busy, Control
  <2>3. Odd(next, t)
    BY DEF Odd, AtSrc, AtDst
  <2> QED
    BY <2>1, <2>3 DEF Fits
<1>8. Opened(next, t)
  <2>1. Logs(t)
    BY <1>6, NoTxType DEF Logs
  <2> QED
    BY <1>6, <1>7, <2>1 DEF Opened
<1> QED
  BY <1>5, <1>6, <1>8 DEF Control

\* If only one row adds up to the sum, it has all of it.
LEMMA SingleRow ==
  ASSUME NEW S, IsFiniteSet(S), ~ Cardinality(S) > 1, NEW i \in S, NEW f, \A j \in S : f[j] \in Int
  PROVE  f[i] = SumFunctionOnSet(f, S)
<1>1. Cardinality(S) \in Nat /\ IsFiniteSet(S \ {i}) /\ Cardinality(S \ {i}) = Cardinality(S) - 1
      /\ Cardinality(S \ {i}) \in Nat
  BY FS_CardinalityType, FS_RemoveElement
<1>2. S \ {i} = {}
  BY <1>1, FS_EmptySet
<1>3. SumFunctionOnSet(f, S) = f[i] + SumFunctionOnSet(f, {})
  BY <1>2, SumRemove
<1> QED
  BY <1>3, SumEmpty

LEMMA SumOfType == ASSUME TypeOK, NEW is, is \subseteq Ids PROVE SumOf(is) \in Int
<1>1. IsFiniteSet(is)
  BY RelocationAssumption, FS_Subset
<1>2. \A i \in is : [j \in Ids |-> rows[j].qty][i] \in Int
  BY DEF TypeOK, Row
<1> QED
  BY <1>1, <1>2, SumInt DEF SumOf

LEMMA ExecuteEffect ==
  ASSUME TypeOK, NEW w \in Workers, NEW r \in Recs, Execute(w, r)
  PROVE  \E t \in Tx, next \in Control : Begin(w, next, t) /\ Opened(next, t)
<1> DEFINE found == IF recs[r].from = NoLoc THEN RowsOf(recs[r].product)
                    ELSE RowsAt(recs[r].product, recs[r].from)
           out == [NoMoves EXCEPT ![recs[r].product][recs[r].to] = SumOf(found)]
           moves == IF recs[r].from = NoLoc THEN out
                    ELSE [out EXCEPT ![recs[r].product][recs[r].from] = @ - SumOf(found)]
           step == CASE SumOf(found) > 0 /\ recs[r].from # NoLoc -> "source"
                     [] SumOf(found) > 0 /\ recs[r].from = NoLoc -> "dest"
                     [] OTHER -> "commit"
           faults == IF SumOf(found) < 0 \/ (recs[r].from # NoLoc /\ Cardinality(found) > 1)
                     THEN {recs[r].product} ELSE {}
           line == [product |-> recs[r].product, qty |-> IF SumOf(found) > 0 THEN SumOf(found) ELSE 0]
<1>1. Begin(w, step, [NoTx EXCEPT !.rec = r, !.from = recs[r].from, !.to = recs[r].to,
                                  !.log = moves, !.todo = <<line>>, !.odd = faults])
  BY DEF Execute
<1>2. /\ recs[r].product \in Products /\ recs[r].to \in Locs
      /\ recs[r].from \in Locs \cup {NoLoc} /\ NoLoc \notin Locs
  BY RelocationAssumption DEF TypeOK, Rec
<1>3. found \subseteq Ids /\ IsFiniteSet(found)
  BY RelocationAssumption, FS_Subset DEF RowsOf, RowsAt
<1>4. PICK qty \in Int : qty = SumOf(found)
  BY <1>3, SumOfType
<1>5. PICK p \in Products, to \in Locs, from \in Locs \cup {NoLoc} :
        p = recs[r].product /\ to = recs[r].to /\ from = recs[r].from
  BY <1>2
<1>6. PICK log \in [Products -> [Locs -> Int]] :
        /\ log = moves
        /\ \A q \in Products \ {p} : \A l \in Locs : log[q][l] = 0
        /\ \A l \in Locs : log[p][l] = (IF l = to THEN qty ELSE 0) - (IF l = from THEN qty ELSE 0)
  <2>1. NoMoves \in [Products -> [Locs -> Int]] /\ \A q \in Products, l \in Locs : NoMoves[q][l] = 0
    BY DEF NoMoves
  <2>2. PICK f \in [Locs -> Int] : f = [NoMoves[p] EXCEPT ![to] = qty]
    <3>1. [NoMoves[p] EXCEPT ![to] = qty] \in [Locs -> Int]
      BY <2>1
    <3> QED
      BY <3>1
  <2>3. out = [NoMoves EXCEPT ![p] = f]
    BY <1>4, <1>5, <2>2
  <2>4. PICK h \in [Products -> [Locs -> Int]] : h = out
    <3>1. [NoMoves EXCEPT ![p] = f] \in [Products -> [Locs -> Int]]
      BY <2>1
    <3> QED
      BY <2>3, <3>1
  <2>5. /\ \A q \in Products \ {p} : \A l \in Locs : h[q][l] = 0
        /\ \A l \in Locs : h[p][l] = IF l = to THEN qty ELSE 0
    BY <2>1, <2>2, <2>3, <2>4
  <2>6. CASE from = NoLoc
    <3>1. moves = h
      BY <1>5, <2>4, <2>6
    <3>2. \A l \in Locs : l # from
      BY <1>2, <2>6
    <3> QED
      BY <2>5, <3>1, <3>2
  <2>7. CASE from # NoLoc
    <3>1. from \in Locs
      BY <2>7
    <3>2. PICK g \in [Locs -> Int] : g = [h[p] EXCEPT ![from] = h[p][from] - qty]
      <4>1. h[p] \in [Locs -> Int] /\ h[p][from] - qty \in Int
        BY <3>1
      <4>2. [h[p] EXCEPT ![from] = h[p][from] - qty] \in [Locs -> Int]
        BY <4>1
      <4> QED
        BY <4>2
    <3>3. moves = [h EXCEPT ![p][from] = @ - qty]
      BY <1>4, <1>5, <2>4, <2>7
    <3>4. moves = [h EXCEPT ![p] = g]
      BY <3>2, <3>3
    <3>5. [h EXCEPT ![p] = g] \in [Products -> [Locs -> Int]]
      OBVIOUS
    <3>6. PICK k \in [Products -> [Locs -> Int]] : k = moves
      BY <3>4, <3>5
    <3>7. \A q \in Products \ {p} : \A l \in Locs : k[q][l] = 0
      BY <2>5, <3>4, <3>6
    <3>8. k[p] = g
      BY <3>4, <3>6
    <3>9. \A l \in Locs : k[p][l] = (IF l = to THEN qty ELSE 0) - (IF l = from THEN qty ELSE 0)
      <4>1. TAKE l \in Locs
      <4>2. g[l] = IF l = from THEN h[p][from] - qty ELSE h[p][l]
        BY <3>1, <3>2
      <4>3. /\ h[p][l] = IF l = to THEN qty ELSE 0
            /\ h[p][from] = IF from = to THEN qty ELSE 0
        BY <2>5, <3>1
      <4>4. CASE l = from
        BY <3>8, <4>2, <4>3, <4>4
      <4>5. CASE l # from
        BY <3>8, <4>2, <4>3, <4>5
      <4> QED
        BY <4>4, <4>5
    <3> QED
      BY <3>6, <3>7, <3>9
  <2> QED
    BY <2>6, <2>7
<1>7. PICK n \in Nat : n = IF qty > 0 THEN qty ELSE 0
  OBVIOUS
<1>8. PICK todo \in Seq(Line) :
        todo = <<line>> /\ Len(todo) = 1 /\ todo # <<>> /\ Head(todo).product = p
        /\ Head(todo).qty = n /\ {todo[k].product : k \in 1..Len(todo)} = {p}
  <2>1. line = [product |-> p, qty |-> n] /\ line \in Line
    BY <1>4, <1>5, <1>7 DEF Line
  <2> HIDE DEF line
  <2>2. PICK todo \in Seq(Line) : todo = <<line>>
    <3>1. <<line>> \in Seq(Line)
      BY <2>1
    <3> QED
      BY <3>1
  <2>3. Len(todo) = 1 /\ todo # <<>> /\ Head(todo) = line /\ todo[1] = line
    BY <2>1, <2>2
  <2>4. {todo[k].product : k \in 1..Len(todo)} = {p}
    <3>1. 1..Len(todo) = {1}
      BY <2>3
    <3> QED
      BY <2>1, <2>3, <3>1
  <2>5. Head(todo).product = p /\ Head(todo).qty = n
    BY <2>1, <2>3
  <2> QED
    BY <2>2, <2>3, <2>4, <2>5
<1>9. PICK odd \in SUBSET Products : odd = faults
  BY <1>2
<1>10. PICK next \in Control : next = step
  BY DEF Control
<1>11. /\ next \in {"source", "dest", "commit"}
       /\ next = "source" <=> qty > 0 /\ from # NoLoc
       /\ next = "dest" <=> qty > 0 /\ from = NoLoc
  BY <1>4, <1>5, <1>10
<1>12. p \notin odd => ~ qty < 0 /\ (from # NoLoc => ~ Cardinality(found) > 1)
  BY <1>4, <1>5, <1>9
<1>13. from # NoLoc => found = RowsAt(p, from)
  BY <1>5
<1> HIDE DEF found, out, moves, step, faults, line
<1> DEFINE t == [NoTx EXCEPT !.rec = r, !.from = from, !.to = to, !.log = log, !.todo = todo,
                             !.odd = odd]
<1>14. Begin(w, next, t)
  BY <1>1, <1>5, <1>6, <1>8, <1>9, <1>10
<1>15. /\ t \in Tx /\ t.dirty = {} /\ t.log = log /\ t.rec = r /\ t.todo = todo
       /\ t.from = from /\ t.to = to /\ t.odd = odd /\ ItemsOf(t) = {p}
  <2>1. t \in Tx
    BY NoTxType DEF Tx
  <2>2. /\ t.dirty = {} /\ t.log = log /\ t.rec = r /\ t.todo = todo
        /\ t.from = from /\ t.to = to /\ t.odd = odd
    BY NoTxType, NoTxFields
  <2>3. ItemsOf(t) = {p}
    BY <1>8, <2>2 DEF ItemsOf
  <2> QED
    BY <2>1, <2>2, <2>3
<1>16. r # NoRec
  BY RelocationAssumption
<1> HIDE DEF t
<1>17. Fits(next, t)
  <2>1. Lined(next, t)
    <3>1. next # "commit" => n > 0 /\ n = qty
      BY <1>7, <1>11
    <3>2. \A l \in Locs : n = qty => t.log[p][l] = Into(t, l) - OutOf(t, l)
      BY <1>6, <1>8, <1>15 DEF Into, OutOf
    <3>3. next \in {"source", "take"} => from \in Locs
      BY <1>11
    <3> QED
      BY <1>8, <1>15, <1>16, <3>1, <3>2, <3>3 DEF Lined
  <2>3. Odd(next, t)
    BY <1>11, <1>15, <1>16 DEF Odd, AtSrc, AtDst
  <2> QED
    BY <1>11, <2>1, <2>3 DEF Fits
<1>18. next = "commit" /\ p \notin odd => \A l \in Locs : log[p][l] = 0
  <2>1. SUFFICES ASSUME next = "commit", p \notin odd PROVE \A l \in Locs : log[p][l] = 0
    OBVIOUS
  <2>2. qty = 0
    BY <1>11, <1>12, <2>1
  <2> QED
    BY <1>6, <2>2
<1>19. next = "source" /\ p \notin odd =>
         \A i \in Ids : rows[i].product = p /\ rows[i].loc = from => rows[i].qty = n
  <2>1. SUFFICES ASSUME next = "source", p \notin odd, NEW i \in Ids,
                        rows[i].product = p, rows[i].loc = from
                 PROVE  rows[i].qty = n
    OBVIOUS
  <2>2. qty > 0 /\ from # NoLoc /\ n = qty /\ ~ Cardinality(found) > 1 /\ i \in found
    BY <1>7, <1>11, <1>12, <1>13, <2>1 DEF RowsAt
  <2>3. \A j \in found : [k \in Ids |-> rows[k].qty][j] \in Int
    BY <1>3 DEF TypeOK, Row
  <2>4. [k \in Ids |-> rows[k].qty][i] = SumFunctionOnSet([k \in Ids |-> rows[k].qty], found)
    BY <1>3, <2>2, <2>3, SingleRow
  <2> QED
    BY <1>4, <2>2, <2>4 DEF SumOf
<1>20. Logs(t)
  BY <1>6, <1>15 DEF Logs, ProductsOf
<1>21. Opened(next, t)
  BY <1>20, <1>8, <1>11, <1>15, <1>16, <1>17, <1>18, <1>19 DEF Opened
<1> QED
  BY <1>14, <1>15, <1>21

-----------------------------------------------------------------------------
LEMMA OutsideFits ==
  ASSUME TInv, UNCHANGED <<pc, tx>>, Tables'
  PROVE  TInv'
<1>1. pc' = pc /\ tx' = tx
  OBVIOUS
<1> QED
  BY <1>1 DEF TInv, TypeOK, Tables

LEMMA ReserveTables == ASSUME TypeOK, NEW i \in Ids, NEW j \in Ids, Reserve(i, j) PROVE Tables'
<1>1. rows[i] \in Row /\ rows[j] \in Row /\ i # j
  BY DEF TypeOK, Reserve, Row
<1>2. PICK r \in Row : r = [rows[i] EXCEPT !.qty = @ - 1]
  <2>1. [rows[i] EXCEPT !.qty = @ - 1] \in Row
    BY <1>1 DEF Row
  <2> QED
    BY <2>1
<1>3. PICK q \in Row : q = [rows[j] EXCEPT !.qty = @ + 1]
  <2>1. [rows[j] EXCEPT !.qty = @ + 1] \in Row
    BY <1>1 DEF Row
  <2> QED
    BY <2>1
<1>4. rows' = [rows EXCEPT ![i] = r, ![j] = q]
  BY <1>1, <1>2, <1>3 DEF Reserve
<1>5. rows' \in [Ids -> Row]
  BY <1>4 DEF TypeOK
<1>6. met' \subseteq Products
  BY <1>1 DEF Reserve, TypeOK, Row
<1> QED
  BY <1>5, <1>6 DEF Reserve, Tables, TypeOK

LEMMA EvaluateTables ==
  ASSUME TypeOK, NEW s \in Sugs, NEW p \in Products, Evaluate(s, p)
  PROVE  Tables'
<1>1. SumOf(RowsOf(p)) \in Int
  BY SumOfType DEF RowsOf
<1>2. SuggestedQty(p) \in Nat
  BY <1>1, RelocationAssumption DEF SuggestedQty
<1>3. [status |-> "PENDING", product |-> p, qty |-> SuggestedQty(p)] \in Sug
  BY <1>2 DEF Sug
<1>4. sugs' \in [Sugs -> Sug]
  BY <1>3 DEF Evaluate, TypeOK
<1> QED
  BY <1>4 DEF Evaluate, Tables, TypeOK, hist

LEMMA MarkTables ==
  ASSUME TypeOK
  PROVE  /\ \A s \in Sugs, new \in {"APPROVED", "REJECTED", "EXECUTED"} : MarkSuggestion(s, new) => Tables'
         /\ \A o \in Orders, new \in {"APPROVED", "COMPLETED"} : MarkOrder(o, new) => Tables'
         /\ \A r \in Recs, new \in {"APPROVED", "REJECTED"} : MarkRecommendation(r, new) => Tables'
<1>1. ASSUME NEW s \in Sugs, NEW new \in {"APPROVED", "REJECTED", "EXECUTED"}, MarkSuggestion(s, new)
      PROVE  Tables'
  <2>1. [sugs[s] EXCEPT !.status = new] \in Sug
    BY DEF TypeOK, Sug
  <2>2. sugs' = [sugs EXCEPT ![s] = [sugs[s] EXCEPT !.status = new]]
    BY <1>1 DEF MarkSuggestion
  <2>3. sugs' \in [Sugs -> Sug]
    BY <2>1, <2>2 DEF TypeOK
  <2> QED
    BY <1>1, <2>3 DEF MarkSuggestion, Tables, TypeOK, hist
<1>2. ASSUME NEW o \in Orders, NEW new \in {"APPROVED", "COMPLETED"}, MarkOrder(o, new)
      PROVE  Tables'
  BY <1>2 DEF MarkOrder, Tables, TypeOK, OrderStatus, hist
<1>3. ASSUME NEW r \in Recs, NEW new \in {"APPROVED", "REJECTED"}, MarkRecommendation(r, new)
      PROVE  Tables'
  <2>1. [recs[r] EXCEPT !.status = new] \in Rec
    BY DEF TypeOK, Rec
  <2>2. recs' = [recs EXCEPT ![r] = [recs[r] EXCEPT !.status = new]]
    BY <1>3 DEF MarkRecommendation
  <2>3. recs' \in [Recs -> Rec]
    BY <2>1, <2>2 DEF TypeOK
  <2> QED
    BY <1>3, <2>3 DEF MarkRecommendation, Tables, TypeOK, hist
<1> QED
  BY <1>1, <1>2, <1>3

LEMMA RecommendTables ==
  ASSUME TypeOK, NEW r \in Recs, NEW p \in Products, NEW to \in Locs, Recommend(r, p, to)
  PROVE  Tables'
<1>1. PICK from \in IF RowsOf(p) = {} THEN {NoLoc} ELSE {rows[i].loc : i \in Largest(p)} :
        recs' = [recs EXCEPT ![r] = [status |-> "PENDING", product |-> p, from |-> from, to |-> to]]
  BY DEF Recommend
<1>2. from \in Locs \cup {NoLoc}
  BY <1>1 DEF Largest, RowsOf, TypeOK, Row
<1>3. [status |-> "PENDING", product |-> p, from |-> from, to |-> to] \in Rec
  BY <1>2 DEF Rec
<1>4. recs' \in [Recs -> Rec]
  BY <1>1, <1>3 DEF TypeOK
<1> QED
  BY <1>4 DEF Recommend, Tables, TypeOK, hist

LEMMA BeginFits ==
  ASSUME Inv, TInv, NEW w \in Workers, NEW next \in Control, NEW t \in Tx, Begin(w, next, t), Fits(next, t)
  PROVE  TInv'
<1>1. ItemsOf(t) \subseteq Products
  <2>1. \A k \in 1..Len(t.todo) : t.todo[k] \in Line
    BY DEF Tx
  <2> QED
    BY <2>1 DEF ItemsOf, Line
<1>2. met' \subseteq Products
  BY <1>1 DEF Begin, TInv, TypeOK
<1>3. Tables'
  BY <1>2 DEF Begin, db, TInv, TypeOK, Tables
<1> QED
  BY <1>3, GotoFits DEF Begin

LEMMA ReadSourceFits == ASSUME Inv, TInv, NEW w \in Workers, ReadSource(w) PROVE TInv'
<1>1. PICK t \in Tx :
        /\ Local(w, IF Slotting(w) THEN "take" ELSE "dest", t)
        /\ t = [tx[w] EXCEPT !.src = t.src, !.srcQty = t.srcQty, !.odd = t.odd]
        /\ t.src = NoId \/ (~Slotting(w) /\ t.from = t.to) => Item(w).product \in t.odd
  BY ReadSourceEffect
<1>2. tx[w] \in Tx /\ Lined("source", tx[w]) /\ pc[w] = "source"
  BY DEF TInv, TypeOK, Fits, ReadSource
<1>3. /\ t.rec = tx[w].rec /\ t.todo = tx[w].todo /\ t.from = tx[w].from /\ t.to = tx[w].to
      /\ t.log = tx[w].log
  BY <1>1, <1>2 DEF Tx
<1>4. PICK next \in {"take", "dest"} : next = IF Slotting(w) THEN "take" ELSE "dest"
  OBVIOUS
<1>5. Lined(next, t)
  BY <1>2, <1>3 DEF Lined, Busy, Control, Into, OutOf
<1>6. Odd(next, t)
  BY <1>1, <1>3, <1>4 DEF Odd, AtSrc, AtDst, Slotting, Item
<1>7. Fits(next, t)
  BY <1>5, <1>6 DEF Fits
<1> QED
  BY <1>1, <1>4, <1>7, LocalFits DEF Control

LEMMA ReadDestFits == ASSUME Inv, TInv, NEW w \in Workers, ReadDest(w) PROVE TInv'
<1>1. PICK t \in Tx :
        /\ Local(w, IF Slotting(w) THEN "put" ELSE "take", t)
        /\ t = [tx[w] EXCEPT !.dst = t.dst, !.dstQty = t.dstQty]
        /\ t.dst = NoId => t.dstQty = 0
  BY ReadDestEffect
<1>2. tx[w] \in Tx /\ Lined("dest", tx[w]) /\ Odd("dest", tx[w]) /\ pc[w] = "dest"
  BY DEF TInv, TypeOK, Fits, ReadDest
<1>3. /\ t.rec = tx[w].rec /\ t.todo = tx[w].todo /\ t.from = tx[w].from /\ t.to = tx[w].to
      /\ t.log = tx[w].log /\ t.odd = tx[w].odd /\ t.src = tx[w].src
  BY <1>1, <1>2 DEF Tx
<1>4. PICK next \in {"put", "take"} : next = IF Slotting(w) THEN "put" ELSE "take"
  OBVIOUS
<1>5. Lined(next, t)
  BY <1>2, <1>3, <1>4 DEF Lined, Busy, Control, Into, OutOf, Slotting
<1>6. Odd(next, t)
  BY <1>1, <1>2, <1>3, <1>4 DEF Odd, AtSrc, AtDst, Slotting
<1>7. Fits(next, t)
  BY <1>5, <1>6 DEF Fits
<1> QED
  BY <1>1, <1>4, <1>7, LocalFits DEF Control

LEMMA TakeFits == ASSUME Inv, TInv, NEW w \in Workers, Take(w) PROVE TInv'
<1>1. tx[w] \in Tx /\ Lined("take", tx[w]) /\ Odd("take", tx[w]) /\ pc[w] = "take"
  BY DEF TInv, TypeOK, Fits, Take
<1>2. PICK next \in {"put", "dest"} : next = IF Slotting(w) THEN "dest" ELSE "put"
  OBVIOUS
<1>3. PICK t \in Tx :
        /\ Local(w, next, t)
        /\ t.rec = tx[w].rec /\ t.todo = tx[w].todo /\ t.from = tx[w].from /\ t.to = tx[w].to
        /\ t.log = tx[w].log /\ t.odd = tx[w].odd /\ t.src = tx[w].src /\ t.dst = tx[w].dst
        /\ t.dstQty = tx[w].dstQty
  <2>1. CASE tx[w].src = NoId
    BY <1>1, <1>2, <2>1, TakeNothing
  <2>2. CASE tx[w].src # NoId
    <3>1. PICK t \in Tx : /\ Local(w, next, t)
                          /\ t = [tx[w] EXCEPT !.dirty = t.dirty, !.put = t.put]
      BY <1>2, <2>2, TakeEffect
    <3> QED
      BY <1>1, <3>1 DEF Tx
  <2> QED
    BY <2>1, <2>2
<1>4. Lined(next, t)
  BY <1>1, <1>2, <1>3 DEF Lined, Busy, Control, Into, OutOf, Slotting
<1>5. Odd(next, t)
  BY <1>1, <1>2, <1>3 DEF Odd, AtSrc, AtDst, Slotting
<1>6. Fits(next, t)
  BY <1>4, <1>5 DEF Fits
<1> QED
  BY <1>2, <1>3, <1>6, LocalFits DEF Control

LEMMA PutFits == ASSUME Inv, TInv, NEW w \in Workers, Put(w) PROVE TInv'
<1>1. tx[w] \in Tx /\ Lined("put", tx[w]) /\ pc[w] = "put"
  BY DEF TInv, TypeOK, Fits, Put
<1>2. PICK next \in {"commit", "source"} : next = IF Len(tx[w].todo) = 1 THEN "commit" ELSE "source"
  OBVIOUS
<1>3. PICK t \in Tx, i \in Ids, r \in Row : Local(w, next, t) /\ Lands(w, t, i, r)
  BY <1>2, PutEffect
<1>4. t.rec = tx[w].rec /\ t.from = tx[w].from /\ t.to = tx[w].to
  BY <1>1, <1>3 DEF Lands, Tx
<1>5. t.todo # <<>> /\ (Len(tx[w].todo) = 1 => t.todo = tx[w].todo)
  <2>1. tx[w].todo \in Seq(Line) /\ tx[w].todo # <<>>
    BY <1>1 DEF Lined, Busy, Control, Tx
  <2>2. t.todo = IF Len(tx[w].todo) = 1 THEN tx[w].todo ELSE Tail(tx[w].todo)
    BY <1>3 DEF Lands
  <2>3. Len(tx[w].todo) # 1 => Tail(tx[w].todo) # <<>>
    <3>1. SUFFICES ASSUME Len(tx[w].todo) # 1 PROVE Tail(tx[w].todo) # <<>>
      OBVIOUS
    <3>2. Len(Tail(tx[w].todo)) = Len(tx[w].todo) - 1 /\ Len(tx[w].todo) - 1 # 0
      BY <2>1, <3>1
    <3> QED
      BY <3>2
  <2> QED
    BY <2>1, <2>2, <2>3
<1>6. Lined(next, t)
  BY <1>1, <1>2, <1>4, <1>5 DEF Lined, Busy, Control, Into, OutOf
<1>7. Odd(next, t)
  BY <1>2 DEF Odd, AtSrc, AtDst
<1>8. Fits(next, t)
  BY <1>6, <1>7 DEF Fits
<1> QED
  BY <1>2, <1>3, <1>8, LocalFits DEF Control

LEMMA LostType ==
  ASSUME Inv, TypeOK, NEW w \in Workers, Fail(w)
  PROVE  lost' \subseteq Orders
<1>1. pc[w] = "increment" => tx[w].order \in Orders
  BY DEF Inv, Waiting, TypeOK, Tx
<1> QED
  BY <1>1 DEF Fail, TypeOK

LEMMA EndFits ==
  ASSUME Inv, TInv, NEW w \in Workers, Commit(w) \/ Increment(w) \/ Fail(w)
  PROVE  TInv'
<1>1. [NoTx EXCEPT !.order = tx[w].order] \in Tx /\ [NoTx EXCEPT !.order = tx[w].order].dirty = {}
  BY NoTxType DEF TInv, TypeOK, Tx
<1>2. CASE Commit(w)
  <2>1. Tables'
    BY <1>2, CommitTables DEF TInv
  <2>2. CASE Slotting(w)
    BY <1>2, <2>1, <2>2, NoTxType, IdleFits, GotoFits DEF Commit, Control
  <2>3. CASE ~Slotting(w)
    <3>1. PICK t \in Tx : t = [NoTx EXCEPT !.order = tx[w].order] /\ t.dirty = {}
      BY <1>1
    <3>2. Goto(w, "increment", t)
      BY <1>2, <2>3, <3>1 DEF Commit
    <3> QED
      BY <2>1, <3>1, <3>2, IdleFits, GotoFits DEF Control
  <2> QED
    BY <2>2, <2>3
<1>3. CASE Increment(w)
  <2>1. Tables'
    BY <1>3 DEF Increment, Tables, TInv, TypeOK, hist
  <2> QED
    BY <1>3, <2>1, NoTxType, IdleFits, GotoFits DEF Increment, Control
<1>4. CASE Fail(w)
  <2>1. Tables'
    BY <1>4, LostType DEF Fail, db, Tables, TInv, TypeOK
  <2> QED
    BY <1>4, <2>1, NoTxType, IdleFits, GotoFits DEF Fail, Control
<1> QED
  BY <1>2, <1>3, <1>4

LEMMA NextTypes == Inv /\ TInv /\ [Next]_vars => TInv'
<1> SUFFICES ASSUME Inv, TInv, [Next]_vars PROVE TInv'
  OBVIOUS
<1>0. TypeOK
  BY DEF TInv
<1>1. CASE UNCHANGED vars
  <2>1. UNCHANGED <<db, hist>> /\ UNCHANGED <<pc, tx>>
    BY <1>1 DEF vars
  <2> QED
    BY <1>0, <2>1, SameTables, OutsideFits
<1>2. ASSUME NEW i \in Ids, NEW j \in Ids, Reserve(i, j) PROVE TInv'
  BY <1>0, <1>2, ReserveTables, OutsideFits DEF Reserve
<1>3. ASSUME NEW s \in Sugs, NEW p \in Products, Evaluate(s, p) PROVE TInv'
  BY <1>0, <1>3, EvaluateTables, OutsideFits DEF Evaluate
<1>4. ASSUME NEW s \in Sugs, NEW new \in {"APPROVED", "REJECTED", "EXECUTED"}, MarkSuggestion(s, new)
      PROVE  TInv'
  BY <1>0, <1>4, MarkTables, OutsideFits DEF MarkSuggestion
<1>5. ASSUME NEW o \in Orders, NEW new \in {"APPROVED", "COMPLETED"}, MarkOrder(o, new)
      PROVE  TInv'
  BY <1>0, <1>5, MarkTables, OutsideFits DEF MarkOrder
<1>6. ASSUME NEW r \in Recs, NEW p \in Products, NEW to \in Locs, Recommend(r, p, to) PROVE TInv'
  BY <1>0, <1>6, RecommendTables, OutsideFits DEF Recommend
<1>7. ASSUME NEW r \in Recs, NEW new \in {"APPROVED", "REJECTED"}, MarkRecommendation(r, new)
      PROVE  TInv'
  BY <1>0, <1>7, MarkTables, OutsideFits DEF MarkRecommendation
<1>8. ASSUME NEW w \in Workers, NEW from \in Locs, NEW to \in Locs, NEW ls \in Asks \cup {<<>>},
             NEW ss \in SUBSET Sugs, Transfer(w, from, to, ls, ss)
      PROVE  TInv'
  <2>1. PICK t \in Tx, next \in Control : Begin(w, next, t) /\ Opened(next, t)
    BY <1>0, <1>8, TransferEffect
  <2> QED
    BY <2>1, BeginFits DEF Opened
<1>9. ASSUME NEW w \in Workers, NEW r \in Recs, Execute(w, r) PROVE TInv'
  <2>1. PICK t \in Tx, next \in Control : Begin(w, next, t) /\ Opened(next, t)
    BY <1>0, <1>9, ExecuteEffect
  <2> QED
    BY <2>1, BeginFits DEF Opened
<1>10. ASSUME NEW w \in Workers, Statement(w) \/ Fail(w) PROVE TInv'
  BY <1>10, ReadSourceFits, ReadDestFits, TakeFits, PutFits, EndFits DEF Statement
<1> QED
  BY <1>1, <1>2, <1>3, <1>4, <1>5, <1>6, <1>7, <1>8, <1>9, <1>10 DEF Next

LEMMA AlwaysTyped == Spec => [](Inv /\ TInv)
<1>1. Init => Inv /\ TInv
  BY InitInv, InitTypes
<1>2. Inv /\ TInv /\ [Next]_vars => (Inv /\ TInv)'
  BY InvStep, NextTypes
<1> QED
  BY <1>1, <1>2, PTL DEF Spec

\* Every table and every request keeps its type: in particular a line is at hand whenever
\* a statement reads one, and a suggested quantity is never negative.
THEOREM TypeCorrect == Spec => []TypeOK
<1>1. Inv /\ TInv => TypeOK
  BY DEF TInv
<1> QED
  BY <1>1, AlwaysTyped, PTL

-----------------------------------------------------------------------------
(***************************************************************************)
(* Rows keep their product and their place: no row is ever removed, two    *)
(* transactions never change the same one, and what a request has read     *)
(* stays a row of its product where it looked for it.  Only the quantity   *)
(* may be stale.                                                           *)
(***************************************************************************)
\* Row i as a transaction with locals t sees it over the committed rows R.
Seen(R, t, i) == IF i \in t.dirty THEN t.put[i] ELSE R[i]

KeptBy(R, t) ==
  \A i \in t.dirty :
    /\ t.put[i].loc # NoLoc
    /\ R[i].loc # NoLoc => t.put[i].product = R[i].product /\ t.put[i].loc = R[i].loc

HeldBy(R, c, t) ==
  /\ AtSrc(c, t) /\ t.src # NoId => /\ Seen(R, t, t.src).product = Head(t.todo).product
                                    /\ Seen(R, t, t.src).loc = t.from
  /\ AtDst(c, t) /\ t.dst # NoId => /\ Seen(R, t, t.dst).product = Head(t.todo).product
                                    /\ Seen(R, t, t.dst).loc = t.to

Steady ==
  /\ \A v, w \in Workers : v # w => tx[v].dirty \cap tx[w].dirty = {}
  /\ \A w \in Workers : KeptBy(rows, tx[w]) /\ HeldBy(rows, pc[w], tx[w])

\* A change of the committed rows that leaves those of t alone and moves none.
Settles(R, S, t) ==
  \A i \in Ids : /\ i \in t.dirty => S[i] = R[i]
                 /\ R[i].loc # NoLoc => S[i].product = R[i].product /\ S[i].loc = R[i].loc

LEMMA SettlesKeeps ==
  ASSUME NEW R, NEW S, NEW c \in Control, NEW t \in Tx, Settles(R, S, t), Fits(c, t), KeptBy(R, t),
         HeldBy(R, c, t)
  PROVE  KeptBy(S, t) /\ HeldBy(S, c, t)
<1>1. t.dirty \subseteq Ids /\ t.src \in Ids \cup {NoId} /\ t.dst \in Ids \cup {NoId}
  BY DEF Tx
<1>2. KeptBy(S, t)
  BY <1>1 DEF KeptBy, Settles
<1>3. /\ AtSrc(c, t) => t.from # NoLoc
      /\ AtDst(c, t) => t.to # NoLoc
  BY RelocationAssumption DEF Fits, Lined, AtSrc, AtDst, Busy, Control
<1>4. HeldBy(S, c, t)
  BY <1>1, <1>3 DEF HeldBy, Settles, Seen
<1> QED
  BY <1>2, <1>4

LEMMA SteadyGoto ==
  ASSUME Inv, TInv, Steady, NEW w \in Workers, NEW next, NEW t, Goto(w, next, t),
         \A v \in Workers \ {w} : Settles(rows, rows', tx[v]) /\ t.dirty \cap tx[v].dirty = {},
         KeptBy(rows', t), HeldBy(rows', next, t)
  PROVE  Steady'
<1>1. /\ pc'[w] = next /\ tx'[w] = t
      /\ \A v \in Workers \ {w} : pc'[v] = pc[v] /\ tx'[v] = tx[v]
  BY GotoAt DEF TInv
<1>2. \A v \in Workers : pc[v] \in Control /\ tx[v] \in Tx /\ Fits(pc[v], tx[v])
  BY DEF TInv, TypeOK
<1>3. \A v \in Workers \ {w} : KeptBy(rows', tx[v]) /\ HeldBy(rows', pc[v], tx[v])
  BY <1>2, SettlesKeeps DEF Steady
<1> QED
  BY <1>1, <1>3 DEF Steady

LEMMA SameSettles == ASSUME rows' = rows PROVE \A t : Settles(rows, rows', t)
BY DEF Settles

LEMMA SteadyLocal ==
  ASSUME Inv, TInv, Steady, NEW w \in Workers, NEW next, NEW t, Local(w, next, t),
         \A v \in Workers \ {w} : t.dirty \cap tx[v].dirty = {},
         KeptBy(rows, t), HeldBy(rows, next, t)
  PROVE  Steady'
<1>1. rows' = rows /\ Goto(w, next, t)
  BY DEF Local, db, hist
<1> QED
  BY <1>1, SameSettles, SteadyGoto

\* A request that has read nothing yet.
LEMMA FreshHeld ==
  ASSUME NEW R, NEW next, NEW t, t.dirty = {}, ~AtSrc(next, t), ~AtDst(next, t)
  PROVE  KeptBy(R, t) /\ HeldBy(R, next, t)
BY DEF KeptBy, HeldBy

LEMMA WritesSeen ==
  ASSUME NEW w \in Workers, NEW t, NEW i \in Ids, NEW r, Writes(w, t, i, r)
  PROVE  \A j \in Ids : Seen(rows, t, j) = IF j = i THEN r ELSE RowIn(w, j)
BY DEF Writes, Seen, RowIn

LEMMA CommitSettles ==
  ASSUME TInv, Steady, NEW w \in Workers, Commit(w), NEW v \in Workers \ {w}
  PROVE  Settles(rows, rows', tx[v])
<1>1. \A i \in Ids : rows'[i] = RowIn(w, i)
  BY DEF Commit
<1>2. tx[v].dirty \cap tx[w].dirty = {} /\ KeptBy(rows, tx[w])
  BY DEF Steady
<1> QED
  BY <1>1, <1>2 DEF Settles, RowIn, KeptBy

\* Of the rows only those of i and j change, and they in quantity.
LEMMA ReserveRows ==
  ASSUME TypeOK, NEW i \in Ids, NEW j \in Ids, Reserve(i, j)
  PROVE  /\ i # j /\ rows[j].product = rows[i].product /\ rows[j].loc = rows[i].loc
         /\ rows[i].loc \in Locs
         /\ rows'[i].product = rows[i].product /\ rows'[i].loc = rows[i].loc
         /\ rows'[j].product = rows[i].product /\ rows'[j].loc = rows[i].loc
         /\ rows'[i].qty = rows[i].qty - 1 /\ rows'[j].qty = rows[j].qty + 1
         /\ \A k \in Ids \ {i, j} : rows'[k] = rows[k]
<1>1. rows[i] \in Row /\ rows[j] \in Row /\ rows \in [Ids -> Row]
  BY DEF TypeOK
<1>2. rows[j] = [rows[i] EXCEPT !.status = "RESERVED", !.qty = rows[j].qty]
  BY DEF Reserve
<1>3. rows[j].product = rows[i].product /\ rows[j].loc = rows[i].loc /\ rows[j].status = "RESERVED"
  BY <1>1, <1>2 DEF Row
<1>4. i # j
  BY <1>3 DEF Reserve
<1>5. rows[i].loc \in Locs
  BY <1>1 DEF Reserve, Row
<1>6. rows' = [rows EXCEPT ![i].qty = @ - 1, ![j].qty = @ + 1]
  BY DEF Reserve
<1>7. rows'[i] = [rows[i] EXCEPT !.qty = @ - 1] /\ rows'[j] = [rows[j] EXCEPT !.qty = @ + 1]
  BY <1>1, <1>4, <1>6
<1>8. \A k \in Ids \ {i, j} : rows'[k] = rows[k]
  BY <1>1, <1>6
<1> QED
  BY <1>1, <1>3, <1>4, <1>5, <1>7, <1>8 DEF Row

LEMMA ReserveSettles ==
  ASSUME TypeOK, NEW i \in Ids, NEW j \in Ids, Reserve(i, j), NEW w \in Workers
  PROVE  Settles(rows, rows', tx[w])
<1>1. i \notin tx[w].dirty /\ j \notin tx[w].dirty
  BY DEF Reserve
<1> QED
  BY <1>1, ReserveRows DEF Settles

LEMMA TakeSteady == ASSUME Inv, TInv, Steady, NEW w \in Workers, Take(w) PROVE Steady'
<1>1. tx[w] \in Tx /\ Lined("take", tx[w]) /\ pc[w] = "take"
      /\ KeptBy(rows, tx[w]) /\ HeldBy(rows, "take", tx[w])
  BY DEF TInv, TypeOK, Fits, Take, Steady
<1>2. CASE tx[w].src = NoId
  <2>1. Local(w, IF Slotting(w) THEN "dest" ELSE "put", tx[w])
    BY <1>2, TakeNothing
  <2>2. HeldBy(rows, IF Slotting(w) THEN "dest" ELSE "put", tx[w])
    BY <1>1 DEF HeldBy, AtSrc, AtDst, Slotting
  <2>3. \A v \in Workers \ {w} : tx[w].dirty \cap tx[v].dirty = {}
    BY DEF Steady
  <2> QED
    BY <1>1, <2>1, <2>2, <2>3, SteadyLocal
<1>3. CASE tx[w].src # NoId
  <2>1. PICK t \in Tx :
          /\ Local(w, IF Slotting(w) THEN "dest" ELSE "put", t)
          /\ tx[w].src \in Ids /\ Free(w, tx[w].src)
          /\ t = [tx[w] EXCEPT !.dirty = t.dirty, !.put = t.put]
          /\ Writes(w, t, tx[w].src, [RowIn(w, tx[w].src) EXCEPT !.qty = Left(w)])
          /\ Left(w) \in Int
    BY <1>3, TakeEffect
  <2>a. PICK i \in Ids : i = tx[w].src
    BY <2>1
  <2>2. PICK r : i = tx[w].src /\ r = [RowIn(w, i) EXCEPT !.qty = Left(w)]
    BY <2>a
  <2>3. RowIn(w, i) \in Row
    BY RowInType DEF TInv
  <2>4. r.product = RowIn(w, i).product /\ r.loc = RowIn(w, i).loc
    BY <2>2, <2>3 DEF Row
  <2>5. RowIn(w, i).loc \in Locs
    <3>1. Seen(rows, tx[w], i).loc = tx[w].from
      BY <1>1, <1>3, <2>2 DEF HeldBy, AtSrc
    <3> QED
      BY <1>1, <3>1 DEF Seen, RowIn, Lined, Busy, Control
  <2>6. /\ t.dst = tx[w].dst /\ t.to = tx[w].to /\ t.todo = tx[w].todo /\ t.rec = tx[w].rec
        /\ t.dst \in Ids \cup {NoId}
    BY <1>1, <2>1 DEF Tx
  <2>7. Writes(w, t, i, r)
    BY <2>1, <2>2
  <2>8. KeptBy(rows, t)
    <3>1. SUFFICES ASSUME NEW j \in t.dirty
                   PROVE  /\ t.put[j].loc # NoLoc
                          /\ rows[j].loc # NoLoc => /\ t.put[j].product = rows[j].product
                                                    /\ t.put[j].loc = rows[j].loc
      BY DEF KeptBy
    <3>2. CASE j = i
      <4>1. t.put[j] = r
        BY <2>7, <3>2 DEF Writes
      <4>2. CASE i \in tx[w].dirty
        BY <1>1, <2>4, <2>5, <3>2, <4>1, <4>2 DEF KeptBy, RowIn
      <4>3. CASE i \notin tx[w].dirty
        <5>1. RowIn(w, i) = rows[i]
          BY <4>3 DEF RowIn
        <5> QED
          BY <2>4, <2>5, <3>2, <4>1, <5>1, RelocationAssumption
      <4> QED
        BY <4>2, <4>3
    <3>3. CASE j # i
      <4>1. j \in tx[w].dirty /\ j \in Ids
        BY <1>1, <2>7, <3>3 DEF Writes, Tx
      <4>2. t.put[j] = tx[w].put[j]
        BY <2>7, <3>3, <4>1 DEF Writes
      <4> QED
        BY <1>1, <4>1, <4>2 DEF KeptBy
    <3> QED
      BY <3>2, <3>3
  <2>9. HeldBy(rows, IF Slotting(w) THEN "dest" ELSE "put", t)
    <3>1. \A j \in Ids : /\ Seen(rows, t, j).product = Seen(rows, tx[w], j).product
                         /\ Seen(rows, t, j).loc = Seen(rows, tx[w], j).loc
      <4>1. \A j \in Ids : Seen(rows, t, j) = IF j = i THEN r ELSE RowIn(w, j)
        BY <2>7, WritesSeen
      <4>2. \A j \in Ids : RowIn(w, j) = Seen(rows, tx[w], j)
        BY DEF Seen, RowIn
      <4> QED
        BY <2>4, <4>1, <4>2
    <3> QED
      BY <1>1, <2>6, <3>1 DEF HeldBy, AtSrc, AtDst, Slotting
  <2>10. \A v \in Workers \ {w} : t.dirty \cap tx[v].dirty = {}
    BY <2>1, <2>2, <2>7 DEF Steady, Free, Writes
  <2> QED
    BY <2>1, <2>8, <2>9, <2>10, SteadyLocal
<1> QED
  BY <1>2, <1>3

LEMMA PutSteady == ASSUME Inv, TInv, Steady, NEW w \in Workers, Put(w) PROVE Steady'
<1>1. /\ tx[w] \in Tx /\ Lined("put", tx[w]) /\ pc[w] = "put"
      /\ KeptBy(rows, tx[w]) /\ HeldBy(rows, "put", tx[w])
  BY DEF TInv, TypeOK, Fits, Put, Steady
<1>2. PICK t \in Tx, i \in Ids, r \in Row :
        /\ Local(w, IF Len(tx[w].todo) = 1 THEN "commit" ELSE "source", t)
        /\ Free(w, i) /\ Lands(w, t, i, r)
  BY PutEffect
<1>3. tx[w].to \in Locs /\ RowIn(w, i) \in Row
  BY <1>1, RowInType DEF Lined, Busy, Control, TInv
<1>4. /\ r.loc = tx[w].to
      /\ RowIn(w, i).loc # NoLoc => r.product = RowIn(w, i).product /\ r.loc = RowIn(w, i).loc
  <2>1. CASE tx[w].dst # NoId
    <3>1. i = tx[w].dst /\ r = [RowIn(w, i) EXCEPT !.qty = Landed(w)]
      BY <1>2, <2>1 DEF Lands
    <3>2. r.product = RowIn(w, i).product /\ r.loc = RowIn(w, i).loc
      BY <1>3, <3>1 DEF Row
    <3>3. Seen(rows, tx[w], i).loc = tx[w].to
      BY <1>1, <2>1, <3>1 DEF HeldBy, AtDst
    <3> QED
      BY <3>2, <3>3 DEF Seen, RowIn
  <2>2. CASE tx[w].dst = NoId
    BY <1>2, <2>2 DEF Lands
  <2> QED
    BY <2>1, <2>2
<1>5. Writes(w, t, i, r)
  BY <1>2 DEF Lands
<1>6. KeptBy(rows, t)
  <2>1. SUFFICES ASSUME NEW j \in t.dirty
                 PROVE  /\ t.put[j].loc # NoLoc
                        /\ rows[j].loc # NoLoc => /\ t.put[j].product = rows[j].product
                                                  /\ t.put[j].loc = rows[j].loc
    BY DEF KeptBy
  <2>2. CASE j = i
    <3>1. t.put[j] = r
      BY <1>5, <2>2 DEF Writes
    <3>2. CASE i \in tx[w].dirty
      BY <1>1, <1>3, <1>4, <2>2, <3>1, <3>2, RelocationAssumption DEF KeptBy, RowIn
    <3>3. CASE i \notin tx[w].dirty
      BY <1>3, <1>4, <2>2, <3>1, <3>3, RelocationAssumption DEF RowIn
    <3> QED
      BY <3>2, <3>3
  <2>3. CASE j # i
    <3>1. j \in tx[w].dirty /\ j \in Ids
      BY <1>1, <1>5, <2>3 DEF Writes, Tx
    <3>2. t.put[j] = tx[w].put[j]
      BY <1>5, <2>3, <3>1 DEF Writes
    <3> QED
      BY <1>1, <3>1, <3>2 DEF KeptBy
  <2> QED
    BY <2>2, <2>3
<1>7. HeldBy(rows, IF Len(tx[w].todo) = 1 THEN "commit" ELSE "source", t)
  BY DEF HeldBy, AtSrc, AtDst
<1>8. \A v \in Workers \ {w} : t.dirty \cap tx[v].dirty = {}
  BY <1>2, <1>5 DEF Steady, Free, Writes
<1> QED
  BY <1>2, <1>6, <1>7, <1>8, SteadyLocal

LEMMA ReadSteady ==
  ASSUME Inv, TInv, Steady, NEW w \in Workers, ReadSource(w) \/ ReadDest(w)
  PROVE  Steady'
<1>1. tx[w] \in Tx /\ KeptBy(rows, tx[w]) /\ HeldBy(rows, pc[w], tx[w])
      /\ \A v \in Workers \ {w} : tx[w].dirty \cap tx[v].dirty = {}
  BY DEF TInv, TypeOK, Steady
<1>2. CASE ReadSource(w)
  <2>1. PICK t \in Tx :
          /\ Local(w, IF Slotting(w) THEN "take" ELSE "dest", t)
          /\ t = [tx[w] EXCEPT !.src = t.src, !.srcQty = t.srcQty, !.odd = t.odd]
          /\ t.src # NoId => /\ t.src \in Ids
                             /\ RowIn(w, t.src).product = Item(w).product
                             /\ RowIn(w, t.src).loc = t.from
    BY <1>2, ReadSourceEffect
  <2>2. /\ t.dirty = tx[w].dirty /\ t.put = tx[w].put /\ t.todo = tx[w].todo /\ t.rec = tx[w].rec
    BY <1>1, <2>1 DEF Tx
  <2>3. KeptBy(rows, t)
    BY <1>1, <2>2 DEF KeptBy
  <2>4. HeldBy(rows, IF Slotting(w) THEN "take" ELSE "dest", t)
    BY <2>1, <2>2 DEF HeldBy, AtSrc, AtDst, Slotting, Seen, RowIn, Item
  <2> QED
    BY <1>1, <2>1, <2>2, <2>3, <2>4, SteadyLocal
<1>3. CASE ReadDest(w)
  <2>1. PICK t \in Tx :
          /\ Local(w, IF Slotting(w) THEN "put" ELSE "take", t)
          /\ t = [tx[w] EXCEPT !.dst = t.dst, !.dstQty = t.dstQty]
          /\ t.dst # NoId => /\ t.dst \in Ids
                             /\ RowIn(w, t.dst).product = Item(w).product
                             /\ RowIn(w, t.dst).loc = t.to
    BY <1>3, ReadDestEffect
  <2>2. /\ t.dirty = tx[w].dirty /\ t.put = tx[w].put /\ t.todo = tx[w].todo /\ t.rec = tx[w].rec
        /\ t.src = tx[w].src /\ t.from = tx[w].from /\ pc[w] = "dest"
    BY <1>1, <1>3, <2>1 DEF Tx, ReadDest
  <2>3. KeptBy(rows, t)
    BY <1>1, <2>2 DEF KeptBy
  <2>4. HeldBy(rows, IF Slotting(w) THEN "put" ELSE "take", t)
    BY <1>1, <2>1, <2>2 DEF HeldBy, AtSrc, AtDst, Slotting, Seen, RowIn, Item
  <2> QED
    BY <1>1, <2>1, <2>2, <2>3, <2>4, SteadyLocal
<1> QED
  BY <1>2, <1>3

LEMMA EndSteady ==
  ASSUME Inv, TInv, Steady, NEW w \in Workers, Commit(w) \/ Increment(w) \/ Fail(w)
  PROVE  Steady'
<1>1. PICK next, t : next \in {"idle", "increment"} /\ Goto(w, next, t) /\ t.dirty = {}
  <2>1. [NoTx EXCEPT !.order = tx[w].order].dirty = {} /\ NoTx.dirty = {}
    BY NoTxType, NoTxFields
  <2> QED
    BY <2>1 DEF Commit, Increment, Fail, Local
<1>2. KeptBy(rows', t) /\ HeldBy(rows', next, t)
  BY <1>1, FreshHeld DEF AtSrc, AtDst
<1>3. \A v \in Workers \ {w} : Settles(rows, rows', tx[v])
  <2>1. CASE Commit(w)
    BY <2>1, CommitSettles
  <2>2. CASE Increment(w) \/ Fail(w)
    <3>1. rows' = rows
      BY <2>2 DEF Increment, Fail, Local, db, hist
    <3> QED
      BY <3>1, SameSettles
  <2> QED
    BY <2>1, <2>2
<1> QED
  BY <1>1, <1>2, <1>3, SteadyGoto

LEMMA BeginSteady ==
  ASSUME Inv, TInv, Steady, NEW w \in Workers, NEW next, NEW t, Begin(w, next, t), Opened(next, t)
  PROVE  Steady'
<1>1. rows' = rows /\ Goto(w, next, t) /\ t.dirty = {}
  BY DEF Begin, db, Opened
<1>2. ~AtSrc(next, t) /\ ~AtDst(next, t)
  BY DEF Opened, AtSrc, AtDst
<1> QED
  BY <1>1, <1>2, FreshHeld, SameSettles, SteadyGoto

LEMMA NextSteady == Inv /\ TInv /\ Steady /\ [Next]_vars => Steady'
<1> SUFFICES ASSUME Inv, TInv, Steady, [Next]_vars PROVE Steady'
  OBVIOUS
<1>0. TypeOK
  BY DEF TInv
<1>1. ASSUME UNCHANGED <<rows, pc, tx>> PROVE Steady'
  <2>1. rows' = rows /\ pc' = pc /\ tx' = tx
    BY <1>1
  <2> QED
    BY <2>1 DEF Steady
<1>2. ASSUME NEW i \in Ids, NEW j \in Ids, Reserve(i, j) PROVE Steady'
  <2>1. pc' = pc /\ tx' = tx
    BY <1>2 DEF Reserve
  <2>2. \A w \in Workers : Settles(rows, rows', tx[w])
    BY <1>0, <1>2, ReserveSettles
  <2>3. \A w \in Workers : pc[w] \in Control /\ tx[w] \in Tx /\ Fits(pc[w], tx[w])
    BY DEF TInv, TypeOK
  <2>4. \A w \in Workers : KeptBy(rows', tx[w]) /\ HeldBy(rows', pc[w], tx[w])
    BY <2>2, <2>3, SettlesKeeps DEF Steady
  <2> QED
    BY <2>1, <2>4 DEF Steady
<1>3. ASSUME NEW w \in Workers, NEW from \in Locs, NEW to \in Locs, NEW ls \in Asks \cup {<<>>},
             NEW ss \in SUBSET Sugs, Transfer(w, from, to, ls, ss)
      PROVE  Steady'
  BY <1>0, <1>3, TransferEffect, BeginSteady
<1>4. ASSUME NEW w \in Workers, NEW r \in Recs, Execute(w, r) PROVE Steady'
  BY <1>0, <1>4, ExecuteEffect, BeginSteady
<1>5. ASSUME NEW w \in Workers, Statement(w) \/ Fail(w) PROVE Steady'
  BY <1>5, ReadSteady, TakeSteady, PutSteady, EndSteady DEF Statement
<1>6. CASE UNCHANGED vars
  BY <1>1, <1>6 DEF vars, db, hist
<1>7. ASSUME NEW s \in Sugs, NEW p \in Products, Evaluate(s, p) PROVE Steady'
  BY <1>1, <1>7 DEF Evaluate
<1>8. ASSUME NEW s \in Sugs, NEW new, MarkSuggestion(s, new) PROVE Steady'
  BY <1>1, <1>8 DEF MarkSuggestion
<1>9. ASSUME NEW o \in Orders, NEW new, MarkOrder(o, new) PROVE Steady'
  BY <1>1, <1>9 DEF MarkOrder
<1>10. ASSUME NEW r \in Recs, NEW p \in Products, NEW to \in Locs, Recommend(r, p, to) PROVE Steady'
  BY <1>1, <1>10 DEF Recommend
<1>11. ASSUME NEW r \in Recs, NEW new, MarkRecommendation(r, new) PROVE Steady'
  BY <1>1, <1>11 DEF MarkRecommendation
<1> QED
  BY <1>2, <1>3, <1>4, <1>5, <1>6, <1>7, <1>8, <1>9, <1>10, <1>11 DEF Next

LEMMA InitSteady == Init => Steady
BY NoTxType DEF Init, Steady, KeptBy, HeldBy, AtSrc, AtDst

-----------------------------------------------------------------------------
(***************************************************************************)
(* A request keeps the products it started with until it ends, so that two *)
(* requests at work on one product have put it into met.                   *)
(***************************************************************************)
Within(c, t) == IF c \in {"idle", "increment"} THEN {} ELSE ProductsOf(t)

Scoped ==
  /\ \A v, w \in Workers : v # w => Within(pc[v], tx[v]) \cap Within(pc[w], tx[w]) \subseteq met
  /\ \A w \in Workers : Logs(tx[w])

LEMMA ScopeIs == \A w \in Workers : Scope(w) = Within(pc[w], tx[w])
BY DEF Scope, Within, ProductsOf

LEMMA ScopedGoto ==
  ASSUME Inv, TInv, Scoped, NEW w \in Workers, NEW next, NEW t, Goto(w, next, t), met \subseteq met',
         Within(next, t) \subseteq Within(pc[w], tx[w]), Logs(t)
  PROVE  Scoped'
<1>1. /\ pc'[w] = next /\ tx'[w] = t
      /\ \A v \in Workers \ {w} : pc'[v] = pc[v] /\ tx'[v] = tx[v]
  BY GotoAt DEF TInv
<1>2. \A v \in Workers : Within(pc'[v], tx'[v]) \subseteq Within(pc[v], tx[v]) /\ Logs(tx'[v])
  BY <1>1 DEF Scoped
<1> QED
  BY <1>2 DEF Scoped

LEMMA ScopedBegin ==
  ASSUME Inv, TInv, Scoped, NEW w \in Workers, NEW next, NEW t, Begin(w, next, t), Opened(next, t)
  PROVE  Scoped'
<1>1. /\ pc'[w] = next /\ tx'[w] = t
      /\ \A v \in Workers \ {w} : pc'[v] = pc[v] /\ tx'[v] = tx[v]
  BY GotoAt DEF TInv, Begin
<1>2. Within(next, t) \subseteq ItemsOf(t) /\ Logs(t)
  BY DEF Within, ProductsOf, Opened
<1>3. met' = met \cup UNION {ItemsOf(t) \cap Within(pc[o], tx[o]) : o \in Workers \ {w}}
  BY ScopeIs DEF Begin
<1>4. \A v \in Workers \ {w} : Within(next, t) \cap Within(pc[v], tx[v]) \subseteq met'
  BY <1>2, <1>3
<1> QED
  BY <1>1, <1>2, <1>3, <1>4 DEF Scoped

\* The products of a request after each of its statements.
LEMMA ReadProducts ==
  ASSUME NEW w \in Workers, NEW t, t.todo = tx[w].todo, t.dirty = tx[w].dirty, t.put = tx[w].put
  PROVE  ProductsOf(t) = ProductsOf(tx[w])
BY DEF ProductsOf, ItemsOf

LEMMA TakeProducts ==
  ASSUME TInv, Steady, NEW w \in Workers, pc[w] = "take", NEW t, NEW i \in Ids, NEW r,
         i = tx[w].src, t.todo = tx[w].todo, Writes(w, t, i, r), r.product = RowIn(w, i).product
  PROVE  ProductsOf(t) = ProductsOf(tx[w]) /\ r.product = Item(w).product
<1>1. tx[w] \in Tx /\ HeldBy(rows, "take", tx[w]) /\ Item(w).product \in ItemsOf(tx[w])
  BY ItemType DEF TInv, TypeOK, Steady, Busy, Control
<1>2. r.product = Item(w).product
  BY <1>1, RelocationAssumption DEF HeldBy, AtSrc, Seen, RowIn, Item
<1>3. ItemsOf(t) = ItemsOf(tx[w])
  BY DEF ItemsOf
<1>4. \A j \in tx[w].dirty : t.put[j].product = tx[w].put[j].product
  <2>1. TAKE j \in tx[w].dirty
  <2>2. j \in Ids
    BY <1>1 DEF Tx
  <2> QED
    BY <2>2 DEF Writes, RowIn
<1>5. t.dirty = tx[w].dirty \cup {i} /\ t.put[i].product = Item(w).product
  BY <1>2 DEF Writes
<1> QED
  BY <1>1, <1>2, <1>3, <1>4, <1>5 DEF ProductsOf

LEMMA PutProducts ==
  ASSUME TInv, Steady, NEW w \in Workers, pc[w] = "put", NEW t, NEW i \in Ids, NEW r,
         Lands(w, t, i, r)
  PROVE  ProductsOf(t) = ProductsOf(tx[w]) /\ r.product = Item(w).product /\ r.loc = tx[w].to
<1>1. /\ tx[w] \in Tx /\ HeldBy(rows, "put", tx[w]) /\ Item(w).product \in ItemsOf(tx[w])
      /\ tx[w].todo \in Seq(Line) /\ tx[w].todo # <<>> /\ KeptBy(rows, tx[w])
  BY ItemType DEF TInv, TypeOK, Steady, Busy, Control
<1>2. RowIn(w, i) \in Row
  BY RowInType DEF TInv
<1>3. /\ r.product = Item(w).product /\ r.loc = tx[w].to
      /\ tx[w].dst # NoId => r.product = RowIn(w, i).product
      /\ tx[w].dst = NoId => RowIn(w, i).loc = NoLoc
  <2>1. CASE tx[w].dst # NoId
    <3>1. i = tx[w].dst /\ r.product = RowIn(w, i).product /\ r.loc = RowIn(w, i).loc
      BY <1>2, <2>1 DEF Lands, Row
    <3> QED
      BY <1>1, <2>1, <3>1 DEF HeldBy, AtDst, Seen, RowIn, Item
  <2>2. CASE tx[w].dst = NoId
    BY <2>2 DEF Lands
  <2> QED
    BY <2>1, <2>2
<1>4. Writes(w, t, i, r)
  BY DEF Lands
<1>5. ItemsOf(t) \cup {Item(w).product} = ItemsOf(tx[w])
  <2>1. CASE Len(tx[w].todo) = 1
    <3>1. t.todo = tx[w].todo
      BY <2>1 DEF Lands
    <3> QED
      BY <1>1, <3>1 DEF ItemsOf
  <2>2. CASE Len(tx[w].todo) # 1
    <3>1. t.todo = Tail(tx[w].todo)
      BY <2>2 DEF Lands
    <3>2. Len(t.todo) = Len(tx[w].todo) - 1 /\ \A k \in 1..Len(t.todo) : t.todo[k] = tx[w].todo[k + 1]
      BY <1>1, <3>1
    <3>3. ItemsOf(t) \subseteq ItemsOf(tx[w])
      <4>1. SUFFICES ASSUME NEW k \in 1..Len(t.todo) PROVE t.todo[k].product \in ItemsOf(tx[w])
        BY DEF ItemsOf
      <4>2. k + 1 \in 1..Len(tx[w].todo) /\ t.todo[k] = tx[w].todo[k + 1]
        BY <1>1, <3>2
      <4> QED
        BY <4>2 DEF ItemsOf
    <3>4. ItemsOf(tx[w]) \subseteq ItemsOf(t) \cup {Item(w).product}
      <4>0. Item(w) = tx[w].todo[1]
        BY <1>1 DEF Item
      <4>1. SUFFICES ASSUME NEW k \in 1..Len(tx[w].todo), k # 1
                     PROVE  tx[w].todo[k].product \in ItemsOf(t)
        BY <4>0 DEF ItemsOf
      <4>2. k - 1 \in 1..Len(t.todo) /\ t.todo[k - 1] = tx[w].todo[k - 1 + 1] /\ k - 1 + 1 = k
        BY <1>1, <3>2, <4>1
      <4> QED
        BY <4>2 DEF ItemsOf
    <3> QED
      BY <1>1, <3>3, <3>4
  <2> QED
    BY <2>1, <2>2
<1>6. \A j \in tx[w].dirty : t.put[j].product = tx[w].put[j].product
  <2>1. TAKE j \in tx[w].dirty
  <2>2. j \in Ids /\ tx[w].put[j].loc # NoLoc
    BY <1>1 DEF Tx, KeptBy
  <2>3. CASE j = i
    <3>1. RowIn(w, i) = tx[w].put[i] /\ t.put[i] = r
      BY <1>4, <2>3 DEF RowIn, Writes
    <3> QED
      BY <1>3, <2>2, <2>3, <3>1
  <2>4. CASE j # i
    BY <1>4, <2>2, <2>4 DEF Writes
  <2> QED
    BY <2>3, <2>4
<1>7. t.dirty = tx[w].dirty \cup {i} /\ t.put[i].product = Item(w).product
  BY <1>3, <1>4 DEF Writes
<1> QED
  BY <1>1, <1>3, <1>5, <1>6, <1>7 DEF ProductsOf

LEMMA NextScoped == Inv /\ TInv /\ Steady /\ Scoped /\ [Next]_vars => Scoped'
<1> SUFFICES ASSUME Inv, TInv, Steady, Scoped, [Next]_vars PROVE Scoped'
  OBVIOUS
<1>0. TypeOK
  BY DEF TInv
<1>1. ASSUME UNCHANGED <<pc, tx>>, met \subseteq met' PROVE Scoped'
  <2>1. pc' = pc /\ tx' = tx
    BY <1>1
  <2> QED
    BY <1>1, <2>1 DEF Scoped
<1>2. ASSUME NEW w \in Workers, NEW from \in Locs, NEW to \in Locs, NEW ls \in Asks \cup {<<>>},
             NEW ss \in SUBSET Sugs, Transfer(w, from, to, ls, ss)
      PROVE  Scoped'
  BY <1>0, <1>2, TransferEffect, ScopedBegin
<1>3. ASSUME NEW w \in Workers, NEW r \in Recs, Execute(w, r) PROVE Scoped'
  BY <1>0, <1>3, ExecuteEffect, ScopedBegin
<1>4. ASSUME NEW w \in Workers, NEW next, NEW t, Goto(w, next, t), met' = met, pc[w] \in Busy,
             ProductsOf(t) = ProductsOf(tx[w]),
             \A p \in Products \ ProductsOf(t) : t.log[p] = tx[w].log[p]
      PROVE  Scoped'
  <2>1. Logs(t)
    BY <1>4 DEF Scoped, Logs
  <2>2. Within(next, t) \subseteq Within(pc[w], tx[w])
    BY <1>4 DEF Within, Busy
  <2> QED
    BY <1>4, <2>1, <2>2, ScopedGoto
<1>5. ASSUME NEW w \in Workers, ReadSource(w) PROVE Scoped'
  <2>1. PICK t \in Tx :
          /\ Local(w, IF Slotting(w) THEN "take" ELSE "dest", t)
          /\ t = [tx[w] EXCEPT !.src = t.src, !.srcQty = t.srcQty, !.odd = t.odd]
    BY <1>5, ReadSourceEffect
  <2>2. t.dirty = tx[w].dirty /\ t.put = tx[w].put /\ t.todo = tx[w].todo /\ t.log = tx[w].log
    BY <1>0, <2>1 DEF Tx, TypeOK
  <2> QED
    BY <1>4, <1>5, <2>1, <2>2, ReadProducts DEF Local, ReadSource, Busy, Control, hist
<1>6. ASSUME NEW w \in Workers, ReadDest(w) PROVE Scoped'
  <2>1. PICK t \in Tx :
          /\ Local(w, IF Slotting(w) THEN "put" ELSE "take", t)
          /\ t = [tx[w] EXCEPT !.dst = t.dst, !.dstQty = t.dstQty]
    BY <1>6, ReadDestEffect
  <2>2. t.dirty = tx[w].dirty /\ t.put = tx[w].put /\ t.todo = tx[w].todo /\ t.log = tx[w].log
    BY <1>0, <2>1 DEF Tx, TypeOK
  <2> QED
    BY <1>4, <1>6, <2>1, <2>2, ReadProducts DEF Local, ReadDest, Busy, Control, hist
<1>7. ASSUME NEW w \in Workers, Take(w) PROVE Scoped'
  <2>1. pc[w] = "take" /\ pc[w] \in Busy
    BY <1>7 DEF Take, Busy, Control
  <2>2. CASE tx[w].src = NoId
    BY <1>4, <1>7, <2>1, <2>2, TakeNothing DEF Local, hist
  <2>3. CASE tx[w].src # NoId
    <3>1. PICK t \in Tx :
            /\ Local(w, IF Slotting(w) THEN "dest" ELSE "put", t)
            /\ tx[w].src \in Ids
            /\ t = [tx[w] EXCEPT !.dirty = t.dirty, !.put = t.put]
            /\ Writes(w, t, tx[w].src, [RowIn(w, tx[w].src) EXCEPT !.qty = Left(w)])
      BY <1>7, <2>3, TakeEffect
    <3>2. t.todo = tx[w].todo /\ t.log = tx[w].log
      BY <1>0, <3>1 DEF Tx, TypeOK
    <3>3. RowIn(w, tx[w].src) \in Row
      BY <1>0, <3>1, RowInType
    <3>4. PICK r : r = [RowIn(w, tx[w].src) EXCEPT !.qty = Left(w)]
      OBVIOUS
    <3>5. r.product = RowIn(w, tx[w].src).product
      BY <3>3, <3>4 DEF Row
    <3>6. ProductsOf(t) = ProductsOf(tx[w])
      BY <2>1, <3>1, <3>2, <3>4, <3>5, TakeProducts
    <3> QED
      BY <1>4, <2>1, <3>1, <3>2, <3>6 DEF Local, hist
  <2> QED
    BY <2>2, <2>3
<1>8. ASSUME NEW w \in Workers, Put(w) PROVE Scoped'
  <2>1. pc[w] = "put" /\ pc[w] \in Busy
    BY <1>8 DEF Put, Busy, Control
  <2>2. PICK t \in Tx, i \in Ids, r \in Row :
          /\ Local(w, IF Len(tx[w].todo) = 1 THEN "commit" ELSE "source", t)
          /\ Lands(w, t, i, r)
    BY <1>8, PutEffect
  <2>3. ProductsOf(t) = ProductsOf(tx[w])
    BY <2>1, <2>2, PutProducts
  <2>4. \A p \in Products \ ProductsOf(t) : t.log[p] = tx[w].log[p]
    <3>1. Item(w).product \in ProductsOf(tx[w])
      BY <2>1, ItemType DEF ProductsOf
    <3>2. t.log \in [Products -> [Locs -> Int]] /\ tx[w].log \in [Products -> [Locs -> Int]]
      BY <1>0 DEF Tx, TypeOK
    <3>3. \A p \in Products \ ProductsOf(t) : \A l \in Locs : t.log[p][l] = tx[w].log[p][l]
      BY <2>2, <2>3, <3>1 DEF Lands
    <3> QED
      BY <3>2, <3>3
  <2> QED
    BY <1>4, <2>1, <2>2, <2>3, <2>4 DEF Local, hist
<1>9. ASSUME NEW w \in Workers, Commit(w) \/ Increment(w) \/ Fail(w) PROVE Scoped'
  <2>1. PICK next, t : next \in {"idle", "increment"} /\ Goto(w, next, t) /\ t.log = NoTx.log /\ met' = met
    <3>1. [NoTx EXCEPT !.order = tx[w].order].log = NoTx.log
      BY NoTxFields
    <3> QED
      BY <1>9, <3>1 DEF Commit, Increment, Fail, Local, hist
  <2>2. Logs(t) /\ Within(next, t) = {}
    BY <2>1, NoTxType DEF Logs, Within
  <2> QED
    BY <2>1, <2>2, ScopedGoto
<1>10. ASSUME NEW w \in Workers, Statement(w) \/ Fail(w) PROVE Scoped'
  BY <1>5, <1>6, <1>7, <1>8, <1>9, <1>10 DEF Statement
<1>11. CASE UNCHANGED vars
  BY <1>1, <1>11 DEF vars, hist
<1>12. ASSUME NEW i \in Ids, NEW j \in Ids, Reserve(i, j) PROVE Scoped'
  BY <1>1, <1>12 DEF Reserve
<1>13. ASSUME NEW s \in Sugs, NEW p \in Products, Evaluate(s, p) PROVE Scoped'
  BY <1>1, <1>13 DEF Evaluate, hist
<1>14. ASSUME NEW s \in Sugs, NEW new, MarkSuggestion(s, new) PROVE Scoped'
  BY <1>1, <1>14 DEF MarkSuggestion, hist
<1>15. ASSUME NEW o \in Orders, NEW new, MarkOrder(o, new) PROVE Scoped'
  BY <1>1, <1>15 DEF MarkOrder, hist
<1>16. ASSUME NEW r \in Recs, NEW p \in Products, NEW to \in Locs, Recommend(r, p, to) PROVE Scoped'
  BY <1>1, <1>16 DEF Recommend, hist
<1>17. ASSUME NEW r \in Recs, NEW new, MarkRecommendation(r, new) PROVE Scoped'
  BY <1>1, <1>17 DEF MarkRecommendation, hist
<1> QED
  BY <1>2, <1>3, <1>10, <1>11, <1>12, <1>13, <1>14, <1>15, <1>16, <1>17 DEF Next

LEMMA InitScoped == Init => Scoped
BY NoTxType DEF Init, Scoped, Within, Logs

-----------------------------------------------------------------------------
(***************************************************************************)
(* The stock of a product as the committed rows and as a transaction have  *)
(* it, and what the two owe each other while requests do not overlap.      *)
(***************************************************************************)
Part(r, p, L) == IF r.product = p /\ r.loc \in L THEN r.qty ELSE 0

Stock(R, p, L)   == SumFunctionOnSet([i \in Ids |-> Part(R[i], p, L)], Ids)
View(R, t, p, L) == SumFunctionOnSet([i \in Ids |-> Part(Seen(R, t, i), p, L)], Ids)

\* The source has its new quantity and the destination has not.
Had(c, t) == c = "put" \/ (c = "dest" /\ t.rec # NoRec)

\* What the transaction's movements say of the rows it has changed so far.
Booked(c, t, p, l) ==
  IF p = Head(t.todo).product
  THEN (IF t.rec # NoRec /\ c # "commit" THEN 0 ELSE t.log[p][l])
       - (IF Had(c, t) THEN OutOf(t, l) ELSE 0)
  ELSE t.log[p][l]

Due(c, t, p) == IF p = Head(t.todo).product /\ Had(c, t) THEN Head(t.todo).qty ELSE 0

\* The quantities that were read are those of the rows; a destination that was read
\* before its own decrease is known to be odd.
Current(R, c, t, p) ==
  p = Head(t.todo).product =>
    /\ AtSrc(c, t) /\ t.src # NoId => t.srcQty = Seen(R, t, t.src).qty
    /\ AtDst(c, t) /\ t.dst # NoId =>
         /\ Seen(R, t, t.dst).qty <= t.dstQty
         /\ p \notin t.odd => t.dstQty = Seen(R, t, t.dst).qty
    /\ t.rec # NoRec /\ c \in {"source", "take"} /\ p \notin t.odd =>
         \A i \in Ids : Seen(R, t, i).product = p /\ Seen(R, t, i).loc = t.from =>
           Seen(R, t, i).qty = Head(t.todo).qty

Lossless(R, c, t, p) == Stock(R, p, Locs) <= View(R, t, p, Locs) + Due(c, t, p)

Explained(R, G, c, t, p) ==
  \A l \in Locs : View(R, t, p, {l}) = InitAt(p, l) + G[p][l] + Booked(c, t, p, l)

Balances(R, G, I, c, t, p) ==
  /\ Current(R, c, t, p)
  /\ Lossless(R, c, t, p)
  /\ p \notin I \cup t.odd => Explained(R, G, c, t, p)

Ledger ==
  /\ \A p \in Products \ (met \cup irregular) : \A l \in Locs :
       Stock(rows, p, {l}) = InitAt(p, l) + logged[p][l]
  /\ \A w \in Workers : \A p \in Within(pc[w], tx[w]) \ met :
       Balances(rows, logged, irregular, pc[w], tx[w], p)

LEMMA SeenIs == \A w \in Workers : \A i \in Ids : RowIn(w, i) = Seen(rows, tx[w], i)
BY DEF RowIn, Seen

LEMMA PartType ==
  ASSUME NEW R \in [Ids -> Row], NEW t \in Tx, NEW p, NEW L
  PROVE  /\ \A i \in Ids : Part(R[i], p, L) \in Int /\ Part(Seen(R, t, i), p, L) \in Int
         /\ Stock(R, p, L) \in Int /\ View(R, t, p, L) \in Int
<1>1. \A i \in Ids : R[i] \in Row /\ Seen(R, t, i) \in Row
  BY DEF Seen, Tx
<1>2. \A i \in Ids : Part(R[i], p, L) \in Int /\ Part(Seen(R, t, i), p, L) \in Int
  BY <1>1 DEF Part, Row
<1>3. PICK f, g : f = [i \in Ids |-> Part(R[i], p, L)] /\ g = [i \in Ids |-> Part(Seen(R, t, i), p, L)]
  OBVIOUS
<1>4. (\A i \in Ids : f[i] \in Int) /\ (\A i \in Ids : g[i] \in Int)
  BY <1>2, <1>3
<1>5. SumFunctionOnSet(f, Ids) \in Int /\ SumFunctionOnSet(g, Ids) \in Int
  BY <1>4, SumInt, RelocationAssumption
<1> QED
  BY <1>2, <1>3, <1>5 DEF Stock, View

\* The sums of the model over the rows of a product, in a location or in all.
LEMMA StockIs ==
  ASSUME NEW R \in [Ids -> Row], NEW p, NEW L, NEW S,
         S = {i \in Ids : R[i].product = p /\ R[i].loc \in L}
  PROVE  SumFunctionOnSet([i \in Ids |-> R[i].qty], S) = Stock(R, p, L)
<1>1. PICK f, g : f = [i \in Ids |-> R[i].qty] /\ g = [i \in Ids |-> Part(R[i], p, L)]
  OBVIOUS
<1>2. /\ IsFiniteSet(Ids) /\ S \subseteq Ids /\ \A i \in Ids : f[i] \in Int
      /\ \A i \in Ids : g[i] = IF i \in S THEN f[i] ELSE 0
  BY <1>1, RelocationAssumption DEF Row, Part
<1>3. SumFunctionOnSet(g, Ids) = SumFunctionOnSet(f, S)
  BY <1>2, SumPart
<1> QED
  BY <1>1, <1>3 DEF Stock

Sums ==
  /\ \A p \in Products : SumOf(RowsOf(p)) = Stock(rows, p, Locs)
  /\ \A p \in Products, l \in Locs : SumOf(RowsAt(p, l)) = Stock(rows, p, {l})

LEMMA SumsAre == TypeOK => Sums
<1> SUFFICES ASSUME TypeOK PROVE Sums
  OBVIOUS
<1>0. rows \in [Ids -> Row] /\ \A i \in Ids : rows[i] \in Row
  BY DEF TypeOK
<1>1. ASSUME NEW p \in Products PROVE SumOf(RowsOf(p)) = Stock(rows, p, Locs)
  <2>1. RowsOf(p) = {i \in Ids : rows[i].product = p /\ rows[i].loc \in Locs}
    BY <1>0, RelocationAssumption DEF RowsOf, Row
  <2> QED
    BY <1>0, <2>1, StockIs DEF SumOf
<1>2. ASSUME NEW p \in Products, NEW l \in Locs PROVE SumOf(RowsAt(p, l)) = Stock(rows, p, {l})
  <2>1. RowsAt(p, l) = {i \in Ids : rows[i].product = p /\ rows[i].loc \in {l}}
    BY DEF RowsAt
  <2> QED
    BY <1>0, <2>1, StockIs DEF SumOf
<1> QED
  BY <1>1, <1>2 DEF Sums

LEMMA InitAtIs ==
  \A p \in Products, l \in Locs : InitAt(p, l) = Stock(InitRows, p, {l}) /\ InitAt(p, l) \in Int
<1>1. TAKE p \in Products, l \in Locs
<1>2. {i \in Ids : InitRows[i].product = p /\ InitRows[i].loc = l}
        = {i \in Ids : InitRows[i].product = p /\ InitRows[i].loc \in {l}}
  OBVIOUS
<1>3. InitRows \in [Ids -> Row]
  BY RelocationAssumption
<1>4. InitAt(p, l) = Stock(InitRows, p, {l})
  BY <1>2, <1>3, StockIs DEF InitAt
<1> QED
  BY <1>3, <1>4, PartType, NoTxType

\* A write changes the stock by what it changes of its row.
LEMMA WriteView ==
  ASSUME TInv, NEW w \in Workers, NEW t \in Tx, NEW i \in Ids, NEW r \in Row, Writes(w, t, i, r),
         NEW p, NEW L
  PROVE  View(rows, t, p, L) = View(rows, tx[w], p, L) - Part(RowIn(w, i), p, L) + Part(r, p, L)
<1>1. rows \in [Ids -> Row] /\ tx[w] \in Tx
  BY DEF TInv, TypeOK
<1>2. PICK f, g : /\ f = [j \in Ids |-> Part(Seen(rows, tx[w], j), p, L)]
                  /\ g = [j \in Ids |-> Part(Seen(rows, t, j), p, L)]
  OBVIOUS
<1>3. \A j \in Ids : f[j] \in Int /\ g[j] \in Int
  BY <1>1, <1>2, PartType
<1>4. f[i] = Part(RowIn(w, i), p, L) /\ g[i] = Part(r, p, L)
  BY <1>2, SeenIs, WritesSeen
<1>5. \A j \in Ids \ {i} : f[j] = g[j]
  BY <1>2, SeenIs, WritesSeen
<1>6. SumFunctionOnSet(g, Ids) = SumFunctionOnSet(f, Ids) - f[i] + g[i]
  <2>1. IsFiniteSet(Ids)
    BY RelocationAssumption
  <2> QED
    BY <1>3, <1>5, <2>1, SumUpdate
<1> QED
  BY <1>2, <1>4, <1>6 DEF View

\* Nothing of product p changes under a transaction with locals t.
Of(r, p) == r.product = p /\ r.loc # NoLoc
Untouched(R, S, t, p) ==
  \A i \in Ids : S[i] = R[i] \/ (i \notin t.dirty /\ ~Of(R[i], p) /\ ~Of(S[i], p))

LEMMA UntouchedSums ==
  ASSUME NEW R, NEW S, NEW t, NEW p, Untouched(R, S, t, p), NEW L, L \subseteq Locs
  PROVE  Stock(S, p, L) = Stock(R, p, L) /\ View(S, t, p, L) = View(R, t, p, L)
<1>1. \A i \in Ids : Part(S[i], p, L) = Part(R[i], p, L)
  BY RelocationAssumption DEF Untouched, Of, Part
<1>2. \A i \in Ids : Part(Seen(S, t, i), p, L) = Part(Seen(R, t, i), p, L)
  <2>1. TAKE i \in Ids
  <2>2. CASE i \in t.dirty
    BY <2>2 DEF Seen
  <2>3. CASE i \notin t.dirty
    BY <1>1, <2>3 DEF Seen
  <2> QED
    BY <2>2, <2>3
<1>3. [i \in Ids |-> Part(S[i], p, L)] = [i \in Ids |-> Part(R[i], p, L)]
  BY <1>1
<1>4. [i \in Ids |-> Part(Seen(S, t, i), p, L)] = [i \in Ids |-> Part(Seen(R, t, i), p, L)]
  BY <1>2
<1> QED
  BY <1>3, <1>4 DEF Stock, View

LEMMA BalancesKept ==
  ASSUME NEW R, NEW S, NEW G, NEW H, NEW I, NEW J, NEW c \in Control, NEW t \in Tx, NEW p,
         Balances(R, G, I, c, t, p), Fits(c, t), HeldBy(R, c, t), Untouched(R, S, t, p),
         \A l \in Locs : H[p][l] = G[p][l], I \subseteq J
  PROVE  Balances(S, H, J, c, t, p)
<1>1. /\ Stock(S, p, Locs) = Stock(R, p, Locs) /\ View(S, t, p, Locs) = View(R, t, p, Locs)
      /\ \A l \in Locs : View(S, t, p, {l}) = View(R, t, p, {l})
  BY UntouchedSums
<1>2. \A i \in Ids : Of(Seen(R, t, i), p) \/ Of(Seen(S, t, i), p) => Seen(S, t, i) = Seen(R, t, i)
  BY DEF Untouched, Seen
<1>3. t.src \in Ids \cup {NoId} /\ t.dst \in Ids \cup {NoId} /\ NoLoc \notin Locs
  BY RelocationAssumption DEF Tx
<1>4. /\ AtSrc(c, t) \/ c = "source" => t.from \in Locs
      /\ AtDst(c, t) => t.to \in Locs
  BY DEF Fits, Lined, AtSrc, AtDst, Busy, Control
<1>5. Current(S, c, t, p)
  <2>1. SUFFICES ASSUME p = Head(t.todo).product
                 PROVE  /\ AtSrc(c, t) /\ t.src # NoId => t.srcQty = Seen(S, t, t.src).qty
                        /\ AtDst(c, t) /\ t.dst # NoId =>
                             /\ Seen(S, t, t.dst).qty <= t.dstQty
                             /\ p \notin t.odd => t.dstQty = Seen(S, t, t.dst).qty
                        /\ t.rec # NoRec /\ c \in {"source", "take"} /\ p \notin t.odd =>
                             \A i \in Ids : Seen(S, t, i).product = p /\ Seen(S, t, i).loc = t.from =>
                               Seen(S, t, i).qty = Head(t.todo).qty
    BY DEF Current
  <2>2. AtSrc(c, t) /\ t.src # NoId => Seen(S, t, t.src) = Seen(R, t, t.src)
    BY <1>2, <1>3, <1>4, <2>1 DEF HeldBy, Of
  <2>3. AtDst(c, t) /\ t.dst # NoId => Seen(S, t, t.dst) = Seen(R, t, t.dst)
    BY <1>2, <1>3, <1>4, <2>1 DEF HeldBy, Of
  <2>4. c \in {"source", "take"} =>
          \A i \in Ids : Seen(S, t, i).product = p /\ Seen(S, t, i).loc = t.from =>
            Seen(S, t, i) = Seen(R, t, i)
    BY <1>2, <1>3, <1>4 DEF Of, AtSrc
  <2> QED
    BY <2>1, <2>2, <2>3, <2>4 DEF Balances, Current
<1>6. Lossless(S, c, t, p)
  BY <1>1 DEF Balances, Lossless
<1>7. p \notin J \cup t.odd => Explained(S, H, c, t, p)
  BY <1>1 DEF Balances, Explained
<1> QED
  BY <1>5, <1>6, <1>7 DEF Balances

-----------------------------------------------------------------------------
\* A step of w that leaves the committed tables alone.
LEMMA LedgerGoto ==
  ASSUME Inv, TInv, Ledger, NEW w \in Workers, NEW next, NEW t, Goto(w, next, t),
         rows' = rows, logged' = logged, irregular' = irregular, met \subseteq met',
         \A p \in Within(next, t) \ met' : Balances(rows, logged, irregular, next, t, p)
  PROVE  Ledger'
<1>1. /\ pc'[w] = next /\ tx'[w] = t
      /\ \A v \in Workers \ {w} : pc'[v] = pc[v] /\ tx'[v] = tx[v]
  BY GotoAt DEF TInv
<1>2. \A v \in Workers : \A p \in Within(pc'[v], tx'[v]) \ met' :
        Balances(rows, logged, irregular, pc'[v], tx'[v], p)
  BY <1>1 DEF Ledger
<1>3. \A p \in Products \ (met' \cup irregular) : \A l \in Locs :
        Stock(rows, p, {l}) = InitAt(p, l) + logged[p][l]
  BY DEF Ledger
<1> QED
  BY <1>2, <1>3 DEF Ledger

LEMMA BeginLedger ==
  ASSUME Inv, TInv, Ledger, NEW w \in Workers, NEW next \in Control, NEW t \in Tx,
         Begin(w, next, t), Opened(next, t)
  PROVE  Ledger'
<1>1. /\ Goto(w, next, t) /\ rows' = rows /\ logged' = logged /\ irregular' = irregular
      /\ met \subseteq met'
  BY DEF Begin, db
<1>2. ~AtSrc(next, t) /\ ~AtDst(next, t) /\ t.dirty = {} /\ Lined(next, t) /\ next \in Busy
  BY DEF Opened, Fits, AtSrc, AtDst, Busy, Control
<1>3. \A i \in Ids : Seen(rows, t, i) = rows[i]
  BY <1>2 DEF Seen
<1>4. \A p, L : View(rows, t, p, L) = Stock(rows, p, L)
  <2>1. \A p, L : [i \in Ids |-> Part(Seen(rows, t, i), p, L)] = [i \in Ids |-> Part(rows[i], p, L)]
    BY <1>3
  <2> QED
    BY <2>1 DEF View, Stock
<1>5. ASSUME NEW p \in Within(next, t) \ met' PROVE Balances(rows, logged, irregular, next, t, p)
  <2>1. t.todo \in Seq(Line) /\ t.todo # <<>> /\ Head(t.todo) \in Line
    <3>1. p \in ItemsOf(t)
      BY <1>2, <1>5 DEF Within, ProductsOf
    <3>2. t.todo \in Seq(Line)
      BY DEF Tx
    <3>3. t.todo # <<>>
      BY <3>1, <3>2 DEF ItemsOf
    <3> QED
      BY <3>2, <3>3
  <2>2. p \in ItemsOf(t) /\ p \in Products
    <3>1. p \in ItemsOf(t)
      BY <1>2, <1>5 DEF Within, ProductsOf
    <3>2. PICK k \in 1..Len(t.todo) : p = t.todo[k].product
      BY <3>1 DEF ItemsOf
    <3>3. t.todo[k] \in Line
      BY <2>1
    <3> QED
      BY <3>1, <3>2, <3>3 DEF Line
  <2>3. Current(rows, next, t, p)
    BY <1>2, <1>3 DEF Current, Opened
  <2>4. Lossless(rows, next, t, p)
    <3>1. Due(next, t, p) \in Nat
      BY <2>1 DEF Due, Line
    <3>2. Stock(rows, p, Locs) \in Int
      BY PartType DEF TInv, TypeOK
    <3> QED
      BY <1>4, <3>1, <3>2 DEF Lossless
  <2>5. ASSUME p \notin irregular \cup t.odd PROVE Explained(rows, logged, next, t, p)
    <3>1. SUFFICES ASSUME NEW l \in Locs
                   PROVE  View(rows, t, p, {l}) = InitAt(p, l) + logged[p][l] + Booked(next, t, p, l)
      BY DEF Explained
    <3>2. Booked(next, t, p, l) = 0
      <4>1. CASE t.rec = NoRec
        BY <2>2, <4>1, NoTxType DEF Booked, Opened, Had
      <4>2. CASE t.rec # NoRec
        <5>1. p = Head(t.todo).product
          <6>1. Len(t.todo) = 1
            BY <1>2, <4>2 DEF Lined
          <6> QED
            BY <2>1, <2>2, <6>1 DEF ItemsOf
        <5>2. CASE next = "source"
          BY <4>2, <5>1, <5>2 DEF Booked, Had
        <5>3. CASE next = "dest"
          <6>1. t.from = NoLoc /\ OutOf(t, l) = 0
            BY <4>2, <5>3, RelocationAssumption DEF Opened, OutOf
          <6> QED
            BY <4>2, <5>1, <5>3, <6>1 DEF Booked, Had
        <5>4. CASE next = "commit"
          <6>1. t.log[p][l] = 0
            BY <2>5, <4>2, <5>1, <5>4 DEF Opened
          <6> QED
            BY <5>1, <5>4, <6>1 DEF Booked, Had
        <5> QED
          BY <5>2, <5>3, <5>4 DEF Opened
      <4> QED
        BY <4>1, <4>2
    <3>3. Stock(rows, p, {l}) = InitAt(p, l) + logged[p][l]
      BY <1>1, <1>5, <2>2, <2>5 DEF Ledger
    <3>4. InitAt(p, l) \in Int /\ logged[p][l] \in Int
      BY <2>2, InitAtIs DEF TInv, TypeOK
    <3> QED
      BY <1>4, <3>2, <3>3, <3>4
  <2> QED
    BY <2>3, <2>4, <2>5 DEF Balances
<1> QED
  BY <1>1, <1>5, LedgerGoto

LEMMA SameView ==
  ASSUME NEW R, NEW t, NEW u, u.dirty = t.dirty, u.put = t.put
  PROVE  /\ \A i \in Ids : Seen(R, u, i) = Seen(R, t, i)
         /\ \A p, L : View(R, u, p, L) = View(R, t, p, L)
<1>1. \A i \in Ids : Seen(R, u, i) = Seen(R, t, i)
  BY DEF Seen
<1>2. \A p, L : [i \in Ids |-> Part(Seen(R, u, i), p, L)] = [i \in Ids |-> Part(Seen(R, t, i), p, L)]
  BY <1>1
<1> QED
  BY <1>1, <1>2 DEF View

LEMMA ReadSourceLedger == ASSUME Inv, TInv, Ledger, NEW w \in Workers, ReadSource(w) PROVE Ledger'
<1>1. PICK next \in {"take", "dest"} : next = IF Slotting(w) THEN "take" ELSE "dest"
  OBVIOUS
<1>2. PICK t \in Tx :
        /\ Local(w, next, t)
        /\ t = [tx[w] EXCEPT !.src = t.src, !.srcQty = t.srcQty, !.odd = t.odd]
        /\ tx[w].odd \subseteq t.odd
        /\ t.src # NoId => t.src \in Ids /\ t.srcQty = RowIn(w, t.src).qty
  BY <1>1, ReadSourceEffect
<1>3. tx[w] \in Tx /\ pc[w] = "source"
  BY DEF TInv, TypeOK, ReadSource
<1>4. /\ t.dirty = tx[w].dirty /\ t.put = tx[w].put /\ t.todo = tx[w].todo /\ t.rec = tx[w].rec
      /\ t.from = tx[w].from /\ t.to = tx[w].to /\ t.log = tx[w].log
  BY <1>2, <1>3 DEF Tx
<1>5. /\ \A i \in Ids : Seen(rows, t, i) = Seen(rows, tx[w], i)
      /\ \A p, L : View(rows, t, p, L) = View(rows, tx[w], p, L)
  BY <1>4, SameView
<1>6. Within(next, t) = Within("source", tx[w])
  BY <1>4, ReadProducts DEF Within
<1>7. ASSUME NEW p \in Within(next, t) \ met PROVE Balances(rows, logged, irregular, next, t, p)
  <2>1. Balances(rows, logged, irregular, "source", tx[w], p)
    BY <1>3, <1>6, <1>7 DEF Ledger
  <2>2. Current(rows, next, t, p)
    <3>1. t.src # NoId => t.srcQty = Seen(rows, t, t.src).qty
      BY <1>2, <1>5, SeenIs
    <3>2. ~AtDst(next, t)
      BY <1>1, <1>4 DEF AtDst, Slotting
    <3>3. next = "take" => t.rec # NoRec
      BY <1>1, <1>4 DEF Slotting
    <3> QED
      BY <1>2, <1>4, <1>5, <2>1, <3>1, <3>2 DEF Balances, Current
  <2>3. /\ Due("source", tx[w], p) = 0 /\ Due(next, t, p) = 0
        /\ \A l : Booked(next, t, p, l) = Booked("source", tx[w], p, l)
    BY <1>1, <1>4 DEF Due, Booked, Had, Slotting
  <2>4. Lossless(rows, next, t, p)
    BY <1>5, <2>1, <2>3 DEF Balances, Lossless
  <2>5. p \notin irregular \cup t.odd => Explained(rows, logged, next, t, p)
    BY <1>2, <1>5, <2>1, <2>3 DEF Balances, Explained
  <2> QED
    BY <2>2, <2>4, <2>5 DEF Balances
<1> QED
  BY <1>2, <1>7, LedgerGoto DEF Local, db, hist

LEMMA ReadDestLedger == ASSUME Inv, TInv, Ledger, NEW w \in Workers, ReadDest(w) PROVE Ledger'
<1>1. PICK next \in {"put", "take"} : next = IF Slotting(w) THEN "put" ELSE "take"
  OBVIOUS
<1>2. PICK t \in Tx :
        /\ Local(w, next, t)
        /\ t = [tx[w] EXCEPT !.dst = t.dst, !.dstQty = t.dstQty]
        /\ t.dst # NoId => t.dst \in Ids /\ t.dstQty = RowIn(w, t.dst).qty
  BY <1>1, ReadDestEffect
<1>3. tx[w] \in Tx /\ pc[w] = "dest"
  BY DEF TInv, TypeOK, ReadDest
<1>4. /\ t.dirty = tx[w].dirty /\ t.put = tx[w].put /\ t.todo = tx[w].todo /\ t.rec = tx[w].rec
      /\ t.from = tx[w].from /\ t.to = tx[w].to /\ t.log = tx[w].log /\ t.odd = tx[w].odd
      /\ t.src = tx[w].src /\ t.srcQty = tx[w].srcQty /\ t.src \in Ids \cup {NoId}
  BY <1>2, <1>3 DEF Tx
<1>5. /\ \A i \in Ids : Seen(rows, t, i) = Seen(rows, tx[w], i)
      /\ \A p, L : View(rows, t, p, L) = View(rows, tx[w], p, L)
  BY <1>4, SameView
<1>6. Within(next, t) = Within("dest", tx[w])
  BY <1>4, ReadProducts DEF Within
<1>7. ASSUME NEW p \in Within(next, t) \ met PROVE Balances(rows, logged, irregular, next, t, p)
  <2>1. Balances(rows, logged, irregular, "dest", tx[w], p)
    BY <1>3, <1>6, <1>7 DEF Ledger
  <2>2. Current(rows, next, t, p)
    <3>1. t.dst # NoId => /\ t.dstQty = Seen(rows, t, t.dst).qty
                          /\ Seen(rows, t, t.dst).qty <= t.dstQty
      <4>1. t.dst # NoId => RowIn(w, t.dst) \in Row
        BY <1>2, RowInType DEF TInv
      <4> QED
        BY <1>2, <1>5, <4>1, SeenIs DEF Row
    <3>2. AtSrc(next, t) => AtSrc("dest", tx[w]) /\ t.rec = NoRec
      BY <1>1, <1>4 DEF AtSrc, Slotting
    <3>3. next = "take" => t.rec = NoRec
      BY <1>1, <1>4 DEF Slotting
    <3>4. t.src # NoId => Seen(rows, t, t.src) = Seen(rows, tx[w], t.src)
      BY <1>4, <1>5
    <3> QED
      BY <1>1, <1>4, <2>1, <3>1, <3>2, <3>3, <3>4 DEF Balances, Current
  <2>3. /\ Due("dest", tx[w], p) = Due(next, t, p)
        /\ \A l : Booked(next, t, p, l) = Booked("dest", tx[w], p, l)
    BY <1>1, <1>4 DEF Due, Booked, Had, Slotting, OutOf
  <2>4. Lossless(rows, next, t, p)
    BY <1>5, <2>1, <2>3 DEF Balances, Lossless
  <2>5. p \notin irregular \cup t.odd => Explained(rows, logged, next, t, p)
    BY <1>4, <1>5, <2>1, <2>3 DEF Balances, Explained
  <2> QED
    BY <2>2, <2>4, <2>5 DEF Balances
<1> QED
  BY <1>2, <1>7, LedgerGoto DEF Local, db, hist

\* What is left at the source: no more is taken than the line asks for, and just that
\* when the one row has it all.
LEMMA LeftIs ==
  ASSUME TInv, NEW w \in Workers, pc[w] = "take"
  PROVE  /\ Left(w) \in Int /\ tx[w].srcQty \in Int /\ Item(w).qty \in Nat
         /\ tx[w].srcQty - Left(w) <= Item(w).qty
         /\ tx[w].rec = NoRec \/ tx[w].srcQty = Item(w).qty => tx[w].srcQty - Left(w) = Item(w).qty
<1>1. /\ Item(w).qty \in Nat /\ Item(w).qty \in Int /\ tx[w].srcQty \in Int
  BY ItemType DEF Busy, Control, Tx
<1>2. PICK n \in Nat, q \in Int : n = Item(w).qty /\ q = tx[w].srcQty
  BY <1>1
<1>3. Left(w) = IF Slotting(w) /\ q - n < 0 THEN 0 ELSE q - n
  BY <1>2 DEF Left
<1> QED
  BY <1>1, <1>2, <1>3 DEF Slotting

LEMMA TakeLedger == ASSUME Inv, TInv, Steady, Ledger, NEW w \in Workers, Take(w) PROVE Ledger'
<1>1. PICK next \in {"dest", "put"} : next = IF Slotting(w) THEN "dest" ELSE "put"
  OBVIOUS
<1>2. /\ tx[w] \in Tx /\ pc[w] = "take" /\ Fits("take", tx[w]) /\ HeldBy(rows, "take", tx[w])
      /\ tx[w].todo \in Seq(Line) /\ Item(w).qty \in Nat /\ rows \in [Ids -> Row]
      /\ tx[w].rec = NoRec <=> ~Slotting(w)
  BY ItemType DEF TInv, TypeOK, Take, Steady, Busy, Control, Slotting
<1>3. CASE tx[w].src = NoId
  <2>1. Local(w, next, tx[w])
    BY <1>1, <1>3, TakeNothing
  <2>2. Item(w).product \in tx[w].odd
    BY <1>2, <1>3 DEF Fits, Odd, AtSrc, Item
  <2>3. Within(next, tx[w]) = Within("take", tx[w])
    BY DEF Within
  <2>4. ASSUME NEW p \in Within(next, tx[w]) \ met
        PROVE  Balances(rows, logged, irregular, next, tx[w], p)
    <3>1. Balances(rows, logged, irregular, "take", tx[w], p)
      BY <1>2, <2>3, <2>4 DEF Ledger
    <3>2. Current(rows, next, tx[w], p)
      <4>1. AtDst(next, tx[w]) => AtDst("take", tx[w])
        BY <1>1, <1>2 DEF AtDst
      <4> QED
        BY <1>3, <3>1, <4>1 DEF Balances, Current
    <3>3. Lossless(rows, next, tx[w], p)
      <4>1. Stock(rows, p, Locs) <= View(rows, tx[w], p, Locs) + 0
        BY <3>1 DEF Balances, Lossless, Due, Had
      <4>2. Due(next, tx[w], p) \in Nat
        BY <1>2 DEF Due, Item
      <4>3. Stock(rows, p, Locs) \in Int /\ View(rows, tx[w], p, Locs) \in Int
        BY <1>2, PartType
      <4> QED
        BY <4>1, <4>2, <4>3 DEF Lossless
    <3>4. p \notin irregular \cup tx[w].odd => Explained(rows, logged, next, tx[w], p)
      <4>1. SUFFICES ASSUME p \notin irregular \cup tx[w].odd
                     PROVE  Explained(rows, logged, next, tx[w], p)
        OBVIOUS
      <4>2. \A l : Booked(next, tx[w], p, l) = Booked("take", tx[w], p, l)
        BY <2>2, <4>1 DEF Booked, Item
      <4> QED
        BY <3>1, <4>1, <4>2 DEF Balances, Explained
    <3> QED
      BY <3>2, <3>3, <3>4 DEF Balances
  <2> QED
    BY <2>1, <2>4, LedgerGoto DEF Local, db, hist
<1>4. CASE tx[w].src # NoId
  <2>1. PICK t \in Tx :
          /\ Local(w, next, t)
          /\ tx[w].src \in Ids
          /\ t = [tx[w] EXCEPT !.dirty = t.dirty, !.put = t.put]
          /\ Writes(w, t, tx[w].src, [RowIn(w, tx[w].src) EXCEPT !.qty = Left(w)])
    BY <1>1, <1>4, TakeEffect
  <2>2. /\ t.todo = tx[w].todo /\ t.rec = tx[w].rec /\ t.dst \in Ids \cup {NoId}
        /\ t.from = tx[w].from /\ t.to = tx[w].to /\ t.log = tx[w].log /\ t.odd = tx[w].odd
        /\ t.dst = tx[w].dst /\ t.dstQty = tx[w].dstQty /\ t.dstQty \in Int
    BY <1>2, <2>1 DEF Tx
  <2>3. PICK i \in Ids : i = tx[w].src
    BY <2>1
  <2>4. RowIn(w, i) \in Row /\ Left(w) \in Int
    BY <1>2, RowInType, LeftIs DEF TInv
  <2>5. PICK r \in Row : r = [RowIn(w, i) EXCEPT !.qty = Left(w)]
    <3>1. [RowIn(w, i) EXCEPT !.qty = Left(w)] \in Row
      BY <2>4 DEF Row
    <3> QED
      BY <3>1
  <2>6. /\ r.product = Item(w).product /\ RowIn(w, i).product = Item(w).product
        /\ r.loc = tx[w].from /\ RowIn(w, i).loc = tx[w].from
        /\ r.qty = Left(w) /\ RowIn(w, i).qty \in Int
    <3>1. r.product = RowIn(w, i).product /\ r.loc = RowIn(w, i).loc /\ r.qty = Left(w)
          /\ RowIn(w, i).qty \in Int
      BY <2>4, <2>5 DEF Row
    <3>2. RowIn(w, i).product = Item(w).product /\ RowIn(w, i).loc = tx[w].from
      BY <1>2, <1>4, <2>3, SeenIs DEF HeldBy, AtSrc, Item
    <3> QED
      BY <3>1, <3>2
  <2>7. Writes(w, t, i, r)
    BY <2>1, <2>3, <2>5
  <2>8. \A p, L : View(rows, t, p, L)
                    = View(rows, tx[w], p, L) - Part(RowIn(w, i), p, L) + Part(r, p, L)
    BY <2>7, WriteView
  <2>9. Within(next, t) = Within("take", tx[w])
    <3>1. ProductsOf(t) = ProductsOf(tx[w])
      BY <1>2, <2>2, <2>3, <2>6, <2>7, TakeProducts
    <3> QED
      BY <3>1 DEF Within
  <2>10. ASSUME NEW p \in Within(next, t) \ met PROVE Balances(rows, logged, irregular, next, t, p)
    <3>1. Balances(rows, logged, irregular, "take", tx[w], p)
      BY <1>2, <2>9, <2>10 DEF Ledger
    <3>2. /\ Stock(rows, p, Locs) \in Int
          /\ \A L : View(rows, tx[w], p, L) \in Int /\ View(rows, t, p, L) \in Int
      BY <1>2, PartType
    <3>3. CASE p # Item(w).product
      <4>1. \A L : View(rows, t, p, L) = View(rows, tx[w], p, L)
        <5>1. \A L : Part(RowIn(w, i), p, L) = 0 /\ Part(r, p, L) = 0
          BY <2>6, <3>3 DEF Part
        <5> QED
          BY <2>8, <3>2, <5>1
      <4>2. /\ Due(next, t, p) = 0 /\ Due("take", tx[w], p) = 0
            /\ \A l : Booked(next, t, p, l) = Booked("take", tx[w], p, l)
        BY <2>2, <3>3 DEF Due, Booked, Item
      <4>3. Current(rows, next, t, p)
        BY <2>2, <3>3 DEF Current, Item
      <4>4. Lossless(rows, next, t, p)
        BY <3>1, <4>1, <4>2 DEF Balances, Lossless
      <4>5. p \notin irregular \cup t.odd => Explained(rows, logged, next, t, p)
        BY <2>2, <3>1, <4>1, <4>2 DEF Balances, Explained
      <4> QED
        BY <4>3, <4>4, <4>5 DEF Balances
    <3>4. CASE p = Item(w).product
      <4>1. /\ p = Head(tx[w].todo).product /\ p = Head(t.todo).product
            /\ Had(next, t) /\ ~Had("take", tx[w])
            /\ Current(rows, "take", tx[w], p)
        BY <1>1, <1>2, <2>2, <3>1, <3>4 DEF Item, Had, Balances
      <4>2. tx[w].srcQty = RowIn(w, i).qty
        BY <1>4, <2>3, <4>1, SeenIs DEF Current, AtSrc
      <4>3. PICK n \in Nat, q \in Int, left \in Int :
              n = Item(w).qty /\ q = RowIn(w, i).qty /\ left = Left(w) /\ q - left <= n
        BY <1>2, <2>6, <4>2, LeftIs
      <4>4. p \notin t.odd => q - left = n
        <5>1. SUFFICES ASSUME p \notin t.odd PROVE q - left = n
          OBVIOUS
        <5>2. CASE tx[w].rec = NoRec
          BY <1>2, <4>2, <4>3, <5>2, LeftIs
        <5>3. CASE tx[w].rec # NoRec
          <6>1. RowIn(w, i).qty = Item(w).qty
            BY <2>2, <2>6, <3>4, <4>1, <5>1, <5>3, SeenIs DEF Current, Item
          <6> QED
            BY <1>2, <4>2, <4>3, <6>1, LeftIs
        <5> QED
          BY <5>2, <5>3
      <4>5. \A L : View(rows, t, p, L)
                     = View(rows, tx[w], p, L) - (IF tx[w].from \in L THEN q - left ELSE 0)
        <5>1. TAKE L
        <5>2. /\ Part(RowIn(w, i), p, L) = IF tx[w].from \in L THEN q ELSE 0
              /\ Part(r, p, L) = IF tx[w].from \in L THEN left ELSE 0
          BY <2>6, <3>4, <4>3 DEF Part
        <5>3. PICK a \in Int, b \in Int : a = View(rows, tx[w], p, L) /\ b = View(rows, t, p, L)
          BY <3>2
        <5>4. b = a - (IF tx[w].from \in L THEN q ELSE 0) + (IF tx[w].from \in L THEN left ELSE 0)
          BY <2>8, <5>2, <5>3
        <5> QED
          BY <4>3, <5>3, <5>4
      <4>6. Current(rows, next, t, p)
        <5>1. ~AtSrc(next, t) /\ next \notin {"source", "take"}
          BY <1>1, <1>2, <2>2 DEF AtSrc
        <5>2. AtDst(next, t) /\ t.dst # NoId =>
                /\ Seen(rows, t, t.dst).qty <= t.dstQty
                /\ p \notin t.odd => t.dstQty = Seen(rows, t, t.dst).qty
          <6>1. SUFFICES ASSUME AtDst(next, t), t.dst # NoId
                         PROVE  /\ Seen(rows, t, t.dst).qty <= t.dstQty
                                /\ p \notin t.odd => t.dstQty = Seen(rows, t, t.dst).qty
            OBVIOUS
          <6>2. tx[w].rec = NoRec /\ AtDst("take", tx[w]) /\ AtSrc("take", tx[w])
            BY <1>1, <1>2, <2>2, <6>1 DEF AtDst, AtSrc
          <6>3. PICK d \in Ids : d = t.dst /\ d = tx[w].dst
            BY <2>2, <6>1
          <6>4. /\ RowIn(w, d).qty <= t.dstQty
                /\ p \notin t.odd => t.dstQty = RowIn(w, d).qty
            BY <2>2, <4>1, <6>1, <6>2, <6>3, SeenIs DEF Current
          <6>5. Seen(rows, t, d) = IF d = i THEN r ELSE RowIn(w, d)
            BY <2>7, WritesSeen
          <6>6. CASE d = i
            <7>1. tx[w].from = tx[w].to
              BY <1>2, <2>6, <6>1, <6>2, <6>3, <6>6, SeenIs DEF HeldBy
            <7>2. p \in t.odd
              BY <1>2, <2>2, <4>1, <6>2, <7>1 DEF Fits, Odd
            <7>3. left <= q
              <8>1. left = q - n
                BY <1>2, <4>2, <4>3, <6>2, LeftIs
              <8> QED
                BY <4>3, <8>1
            <7> QED
              BY <2>2, <2>6, <4>3, <6>3, <6>4, <6>5, <6>6, <7>2, <7>3
          <6>7. CASE d # i
            BY <6>3, <6>4, <6>5, <6>7
          <6> QED
            BY <6>6, <6>7
        <5> QED
          BY <5>1, <5>2 DEF Current
      <4>7. Lossless(rows, next, t, p)
        <5>1. Due("take", tx[w], p) = 0 /\ Due(next, t, p) = n
          BY <2>2, <4>1, <4>3 DEF Due, Item
        <5>2. PICK s \in Int, a \in Int, b \in Int :
                s = Stock(rows, p, Locs) /\ a = View(rows, tx[w], p, Locs) /\ b = View(rows, t, p, Locs)
          BY <3>2
        <5>3. s <= a
          BY <3>1, <5>1, <5>2 DEF Balances, Lossless
        <5>4. tx[w].from \in Locs
          BY <1>2 DEF Fits, Lined, Busy, Control
        <5>5. b = a - (q - left)
          BY <4>5, <5>2, <5>4
        <5>6. s <= b + n
          BY <4>3, <5>3, <5>5
        <5> QED
          BY <5>1, <5>2, <5>6 DEF Lossless
      <4>8. ASSUME p \notin irregular \cup t.odd PROVE Explained(rows, logged, next, t, p)
        <5>1. SUFFICES ASSUME NEW l \in Locs
                       PROVE  View(rows, t, p, {l}) = InitAt(p, l) + logged[p][l] + Booked(next, t, p, l)
          BY DEF Explained
        <5>2. PICK a \in Int, b \in Int : a = View(rows, tx[w], p, {l}) /\ b = View(rows, t, p, {l})
          BY <3>2
        <5>3. a = InitAt(p, l) + logged[p][l] + Booked("take", tx[w], p, l)
          BY <2>2, <3>1, <4>8, <5>2 DEF Balances, Explained
        <5>7. p \in Products /\ tx[w].log[p][l] \in Int
          <6>1. p \in Products
            BY <1>2, <3>4, ItemType DEF Busy, Control
          <6> QED
            BY <1>2, <6>1 DEF Tx
        <5>8. /\ Booked("take", tx[w], p, l) = IF tx[w].rec # NoRec THEN 0 ELSE tx[w].log[p][l]
              /\ Booked("take", tx[w], p, l) \in Int
          <6>1. PICK m \in Int : m = IF tx[w].rec # NoRec THEN 0 ELSE tx[w].log[p][l]
            BY <5>7
          <6>2. Booked("take", tx[w], p, l) = m - 0
            BY <4>1, <6>1 DEF Booked
          <6> QED
            BY <6>1, <6>2
        <5>4. Booked(next, t, p, l) = Booked("take", tx[w], p, l) - (IF l = tx[w].from THEN n ELSE 0)
          <6>1. OutOf(t, l) = IF l = tx[w].from THEN n ELSE 0
            BY <2>2, <4>3 DEF OutOf, Item
          <6>2. Booked(next, t, p, l)
                  = (IF tx[w].rec # NoRec THEN 0 ELSE tx[w].log[p][l]) - OutOf(t, l)
            BY <1>1, <2>2, <4>1 DEF Booked
          <6> QED
            BY <5>8, <6>1, <6>2
        <5>5. b = a - (IF l = tx[w].from THEN n ELSE 0)
          <6>1. b = a - (IF tx[w].from \in {l} THEN q - left ELSE 0) /\ q - left = n
            BY <4>4, <4>5, <4>8, <5>2
          <6> QED
            BY <4>3, <5>2, <6>1
        <5>6. InitAt(p, l) \in Int /\ logged[p][l] \in Int
          BY <5>7, InitAtIs DEF TInv, TypeOK
        <5> QED
          BY <4>3, <5>2, <5>3, <5>4, <5>5, <5>6, <5>8
      <4> QED
        BY <4>6, <4>7, <4>8 DEF Balances
    <3> QED
      BY <3>3, <3>4
  <2> QED
    BY <2>1, <2>10, LedgerGoto DEF Local, db, hist
<1> QED
  BY <1>3, <1>4

\* What a line brings in: at least its quantity, and just that unless the destination
\* was the source.
LEMMA PutGain ==
  ASSUME TInv, Steady, NEW w \in Workers, pc[w] = "put", NEW t \in Tx, NEW i \in Ids, NEW r \in Row,
         Lands(w, t, i, r), Landed(w) \in Int, NEW p, Current(rows, "put", tx[w], p),
         p = Item(w).product, NEW L \in SUBSET Locs
  PROVE  /\ Part(RowIn(w, i), p, L) \in Int /\ Part(r, p, L) \in Int
         /\ tx[w].to \in L => Part(r, p, L) - Part(RowIn(w, i), p, L) >= Item(w).qty
         /\ tx[w].to \in L /\ p \notin tx[w].odd =>
              Part(r, p, L) - Part(RowIn(w, i), p, L) = Item(w).qty
         /\ tx[w].to \notin L => Part(r, p, L) = 0 /\ Part(RowIn(w, i), p, L) = 0
<1>1. /\ tx[w] \in Tx /\ Item(w).qty \in Nat /\ HeldBy(rows, "put", tx[w])
      /\ Fits("put", tx[w]) /\ RowIn(w, i) \in Row
  BY ItemType, RowInType DEF TInv, TypeOK, Steady, Busy, Control
<1>2. r.product = p /\ r.loc = tx[w].to
  BY PutProducts
<1>3. PICK n \in Nat, d \in Int : n = Item(w).qty /\ d = tx[w].dstQty /\ Landed(w) = d + n
  BY <1>1 DEF Landed, Tx
<1>4. CASE tx[w].dst = NoId
  <2>1. d = 0 /\ RowIn(w, i).loc = NoLoc /\ r.qty = n
    BY <1>1, <1>3, <1>4 DEF Fits, Odd, AtDst, Lands
  <2>2. Part(RowIn(w, i), p, L) = 0
    BY <2>1, RelocationAssumption DEF Part
  <2>3. Part(r, p, L) = IF tx[w].to \in L THEN n ELSE 0
    BY <1>2, <2>1 DEF Part
  <2> QED
    BY <1>3, <2>2, <2>3
<1>5. CASE tx[w].dst # NoId
  <2>1. i = tx[w].dst /\ r.qty = d + n
    BY <1>1, <1>3, <1>5 DEF Lands, Row
  <2>2. RowIn(w, i).product = p /\ RowIn(w, i).loc = tx[w].to
    BY <1>1, <1>5, <2>1, SeenIs DEF HeldBy, AtDst, Item
  <2>3. /\ RowIn(w, i).qty <= d
        /\ p \notin tx[w].odd => d = RowIn(w, i).qty
    BY <1>3, <1>5, <2>1, SeenIs DEF Current, AtDst, Item
  <2>4. PICK m \in Int : m = RowIn(w, i).qty
    BY <1>1 DEF Row
  <2>5. /\ Part(RowIn(w, i), p, L) = IF tx[w].to \in L THEN m ELSE 0
        /\ Part(r, p, L) = IF tx[w].to \in L THEN d + n ELSE 0
    BY <1>2, <2>1, <2>2, <2>4 DEF Part
  <2> QED
    BY <1>3, <2>3, <2>4, <2>5
<1> QED
  BY <1>4, <1>5

LEMMA PutLedger == ASSUME Inv, TInv, Steady, Ledger, NEW w \in Workers, Put(w) PROVE Ledger'
<1>1. PICK next \in {"commit", "source"} : next = IF Len(tx[w].todo) = 1 THEN "commit" ELSE "source"
  OBVIOUS
<1>2. PICK t \in Tx, i \in Ids, r \in Row :
        Local(w, next, t) /\ Landed(w) \in Int /\ Lands(w, t, i, r)
  BY <1>1, PutEffect
<1>3. /\ tx[w] \in Tx /\ pc[w] = "put" /\ Lined("put", tx[w])
      /\ tx[w].to \in Locs /\ Item(w).qty \in Nat /\ Item(w).product \in Products
      /\ rows \in [Ids -> Row] /\ RowIn(w, i) \in Row
  BY ItemType, RowInType DEF TInv, TypeOK, Put, Fits, Busy, Control
<1>4. t.rec = tx[w].rec /\ t.odd = tx[w].odd
  BY <1>2, <1>3 DEF Lands, Tx
<1>5. ProductsOf(t) = ProductsOf(tx[w]) /\ r.product = Item(w).product
  BY <1>2, <1>3, PutProducts
<1>6. Within(next, t) = Within("put", tx[w])
  BY <1>5 DEF Within
<1>7. t.rec # NoRec => next = "commit"
  BY <1>1, <1>3, <1>4 DEF Lined, Busy, Control
<1>8. \A p, L : View(rows, t, p, L)
                  = View(rows, tx[w], p, L) - Part(RowIn(w, i), p, L) + Part(r, p, L)
  BY <1>2, WriteView DEF Lands
<1>9. ASSUME NEW p \in Within(next, t) \ met PROVE Balances(rows, logged, irregular, next, t, p)
  <2>1. Balances(rows, logged, irregular, "put", tx[w], p)
    BY <1>3, <1>6, <1>9 DEF Ledger
  <2>2. /\ Stock(rows, p, Locs) \in Int
        /\ \A L : View(rows, tx[w], p, L) \in Int /\ View(rows, t, p, L) \in Int
    BY <1>3, PartType
  <2>3. Current(rows, next, t, p)
    BY <1>7 DEF Current, AtSrc, AtDst
  <2>4. Due(next, t, p) = 0
    BY DEF Due, Had
  <2>5. CASE p # Item(w).product
    <3>1. \A L \in SUBSET Locs : Part(RowIn(w, i), p, L) = 0 /\ Part(r, p, L) = 0
      <4>1. r.product # p
        BY <1>5, <2>5
      <4>2. RowIn(w, i).product # p \/ RowIn(w, i).loc \notin Locs
        <5>1. CASE tx[w].dst = NoId
          BY <1>2, <5>1, RelocationAssumption DEF Lands
        <5>2. CASE tx[w].dst # NoId
          <6>1. r = [RowIn(w, i) EXCEPT !.qty = Landed(w)]
            BY <1>2, <5>2 DEF Lands
          <6> QED
            BY <1>3, <4>1, <6>1 DEF Row
        <5> QED
          BY <5>1, <5>2
      <4> QED
        BY <4>1, <4>2 DEF Part
    <3>2. \A L \in SUBSET Locs : View(rows, t, p, L) = View(rows, tx[w], p, L)
      BY <1>8, <2>2, <3>1
    <3>3. Due("put", tx[w], p) = 0
      BY <2>5 DEF Due, Item
    <3>4. Lossless(rows, next, t, p)
      BY <2>1, <2>4, <3>2, <3>3 DEF Balances, Lossless
    <3>5. ASSUME p \notin irregular \cup t.odd PROVE Explained(rows, logged, next, t, p)
      <4>1. SUFFICES ASSUME NEW l \in Locs
                     PROVE  View(rows, t, p, {l}) = InitAt(p, l) + logged[p][l] + Booked(next, t, p, l)
        BY DEF Explained
      <4>2. p \in Products /\ t.log[p][l] = tx[w].log[p][l] /\ t.log[p][l] \in Int
        <5>1. p \in Products
          <6>1. p \in ProductsOf(tx[w])
            BY <1>6, <1>9 DEF Within
          <6>2. ProductsOf(tx[w]) \subseteq Products
            <7>1. \A k \in 1..Len(tx[w].todo) : tx[w].todo[k] \in Line
              BY <1>3 DEF Tx
            <7>2. \A j \in tx[w].dirty : tx[w].put[j] \in Row
              BY <1>3 DEF Tx
            <7> QED
              BY <7>1, <7>2 DEF ProductsOf, ItemsOf, Line, Row
          <6> QED
            BY <6>1, <6>2
        <5>2. t.log[p][l] = tx[w].log[p][l]
          BY <1>2, <2>5, <5>1 DEF Lands
        <5> QED
          BY <5>1, <5>2 DEF Tx
      <4>3. Booked(next, t, p, l) = t.log[p][l]
        <5>1. PICK m \in Int : m = t.log[p][l]
          BY <4>2
        <5>2. Booked(next, t, p, l) = m \/ Booked(next, t, p, l) = m - 0
          BY <1>7, <5>1 DEF Booked, Had
        <5> QED
          BY <5>1, <5>2
      <4>4. Booked("put", tx[w], p, l) = tx[w].log[p][l]
        BY <2>5 DEF Booked, Item
      <4> QED
        BY <1>4, <2>1, <3>2, <3>5, <4>2, <4>3, <4>4 DEF Balances, Explained
    <3> QED
      BY <2>3, <3>4, <3>5 DEF Balances
  <2>6. CASE p = Item(w).product
    <3>1. Current(rows, "put", tx[w], p)
      BY <2>1 DEF Balances
    <3>2. \A L \in SUBSET Locs :
            /\ Part(RowIn(w, i), p, L) \in Int /\ Part(r, p, L) \in Int
            /\ tx[w].to \in L => Part(r, p, L) - Part(RowIn(w, i), p, L) >= Item(w).qty
            /\ tx[w].to \in L /\ p \notin tx[w].odd =>
                 Part(r, p, L) - Part(RowIn(w, i), p, L) = Item(w).qty
            /\ tx[w].to \notin L => Part(r, p, L) = 0 /\ Part(RowIn(w, i), p, L) = 0
      BY <1>2, <1>3, <2>6, <3>1, PutGain
    <3>3. PICK n \in Nat : n = Item(w).qty /\ n = Head(tx[w].todo).qty
      BY <1>3 DEF Item
    <3>4. Lossless(rows, next, t, p)
      <4>1. PICK s \in Int, a \in Int, b \in Int :
              s = Stock(rows, p, Locs) /\ a = View(rows, tx[w], p, Locs) /\ b = View(rows, t, p, Locs)
        BY <2>2
      <4>2. PICK x \in Int, y \in Int :
              x = Part(RowIn(w, i), p, Locs) /\ y = Part(r, p, Locs) /\ y - x >= n
        BY <1>3, <3>2, <3>3
      <4>3. b = a - x + y
        BY <1>8, <4>1, <4>2
      <4>4. s <= a + n
        <5>1. Due("put", tx[w], p) = n
          BY <2>6, <3>3 DEF Due, Had, Item
        <5> QED
          BY <2>1, <4>1, <5>1 DEF Balances, Lossless
      <4>5. s <= b + 0
        BY <4>2, <4>3, <4>4
      <4> QED
        BY <2>4, <4>1, <4>5 DEF Lossless
    <3>5. ASSUME p \notin irregular \cup t.odd PROVE Explained(rows, logged, next, t, p)
      <4>1. SUFFICES ASSUME NEW l \in Locs
                     PROVE  View(rows, t, p, {l}) = InitAt(p, l) + logged[p][l] + Booked(next, t, p, l)
        BY DEF Explained
      <4>2. PICK a \in Int, b \in Int, x \in Int, y \in Int :
              /\ a = View(rows, tx[w], p, {l}) /\ b = View(rows, t, p, {l})
              /\ x = Part(RowIn(w, i), p, {l}) /\ y = Part(r, p, {l})
        BY <2>2, <3>2
      <4>3. b = a - x + y
        BY <1>8, <4>2
      <4>4. y - x = IF l = tx[w].to THEN n ELSE 0
        <5>1. /\ tx[w].to \in {l} => y - x = n
              /\ tx[w].to \notin {l} => y = 0 /\ x = 0
          BY <1>4, <3>2, <3>3, <3>5, <4>2
        <5> QED
          BY <5>1
      <4>5. PICK base \in Int : base = InitAt(p, l) + logged[p][l]
                                /\ InitAt(p, l) \in Int /\ logged[p][l] \in Int
        <5>1. p \in Products
          BY <1>3, <2>6
        <5>2. InitAt(p, l) \in Int /\ logged[p][l] \in Int
          BY <5>1, InitAtIs DEF TInv, TypeOK
        <5> QED
          BY <5>2
      <4>6. PICK g \in Int, h \in Int : g = tx[w].log[p][l] /\ h = t.log[p][l]
        <5>1. p \in Products
          BY <1>3, <2>6
        <5>2. tx[w].log[p][l] \in Int /\ t.log[p][l] \in Int
          BY <1>3, <5>1 DEF Tx
        <5> QED
          BY <5>2
      <4>7. PICK into \in Int, out \in Int :
              /\ into = Into(tx[w], l) /\ out = OutOf(tx[w], l)
              /\ into = IF l = tx[w].to THEN n ELSE 0
        BY <3>3 DEF Into, OutOf
      <4>8. /\ a = base + Booked("put", tx[w], p, l)
            /\ Booked("put", tx[w], p, l) = (IF tx[w].rec # NoRec THEN 0 ELSE g) - out
        <5>1. a = base + Booked("put", tx[w], p, l)
          BY <1>4, <2>1, <3>5, <4>2, <4>5 DEF Balances, Explained
        <5>2. Booked("put", tx[w], p, l) = (IF tx[w].rec # NoRec THEN 0 ELSE g) - out
          BY <2>6, <4>6, <4>7 DEF Booked, Had, Item
        <5> QED
          BY <5>1, <5>2
      <4>9. h = (IF tx[w].rec # NoRec THEN 0 ELSE g) - out + into
        <5>1. CASE tx[w].rec # NoRec
          <6>1. t.log = tx[w].log /\ g = into - out
            BY <1>2, <1>3, <2>6, <4>6, <4>7, <5>1 DEF Lands, Slotting, Lined, Busy, Control, Item
          <6> QED
            BY <4>6, <5>1, <6>1
        <5>2. CASE tx[w].rec = NoRec
          <6>1. h = g + into - out
            BY <1>2, <1>3, <2>6, <4>6, <4>7, <5>2 DEF Lands, Slotting
          <6> QED
            BY <5>2, <6>1
        <5> QED
          BY <5>1, <5>2
      <4>10. Booked(next, t, p, l) = h
        <5>1. Booked(next, t, p, l) = h \/ Booked(next, t, p, l) = h - 0
          BY <1>7, <4>6 DEF Booked, Had
        <5> QED
          BY <5>1
      <4>11. PICK k \in Int : k = IF tx[w].rec # NoRec THEN 0 ELSE g
        OBVIOUS
      <4>12. a = base + (k - out) /\ h = k - out + into
        BY <4>8, <4>9, <4>11
      <4>13. b = a + into
        BY <4>3, <4>4, <4>7
      <4>14. b = base + h
        BY <4>12, <4>13
      <4> QED
        BY <4>2, <4>5, <4>10, <4>14
    <3> QED
      BY <2>3, <3>4, <3>5 DEF Balances
  <2> QED
    BY <2>5, <2>6
<1> QED
  BY <1>2, <1>9, LedgerGoto DEF Local, db, hist

-----------------------------------------------------------------------------
\* What a commit does to the products of the request, and to the others.
LEMMA CommitView ==
  ASSUME NEW w \in Workers, Commit(w)
  PROVE  \A p, L : Stock(rows', p, L) = View(rows, tx[w], p, L)
<1>1. TAKE p, L
<1>2. \A i \in Ids : rows'[i] = Seen(rows, tx[w], i)
  BY SeenIs DEF Commit
<1>3. [i \in Ids |-> Part(rows'[i], p, L)] = [i \in Ids |-> Part(Seen(rows, tx[w], i), p, L)]
  BY <1>2
<1> QED
  BY <1>3 DEF Stock, View

LEMMA CommitUntouched ==
  ASSUME TInv, Steady, NEW w \in Workers, Commit(w), NEW p, p \notin ProductsOf(tx[w]),
         NEW t, t.dirty \cap tx[w].dirty = {}
  PROVE  Untouched(rows, rows', t, p)
<1>1. \A i \in Ids : rows'[i] = RowIn(w, i)
  BY DEF Commit
<1>2. \A i \in tx[w].dirty : tx[w].put[i].product # p
  BY DEF ProductsOf
<1>3. KeptBy(rows, tx[w])
  BY DEF Steady
<1> QED
  BY <1>1, <1>2, <1>3 DEF Untouched, RowIn, KeptBy, Of

LEMMA CommitLedger ==
  ASSUME Inv, TInv, Steady, Scoped, Ledger, NEW w \in Workers, Commit(w)
  PROVE  Ledger'
<1>1. PICK next, t : next \in {"idle", "increment"} /\ Goto(w, next, t)
  BY DEF Commit
<1>2. /\ pc'[w] = next /\ tx'[w] = t
      /\ \A v \in Workers \ {w} : pc'[v] = pc[v] /\ tx'[v] = tx[v]
  BY <1>1, GotoAt DEF TInv
<1>3. /\ met' = met /\ irregular' = irregular \cup tx[w].odd
      /\ \A p \in Products : \A l \in Locs : logged'[p][l] = logged[p][l] + tx[w].log[p][l]
      /\ pc[w] = "commit" /\ Logs(tx[w]) /\ tx[w] \in Tx
  BY DEF Commit, Scoped, TInv, TypeOK
<1>4. ASSUME NEW p \in Products \ ProductsOf(tx[w])
      PROVE  \A l \in Locs : logged'[p][l] = logged[p][l]
  <2>1. TAKE l \in Locs
  <2>2. tx[w].log[p][l] = 0 /\ logged[p][l] \in Int
    BY <1>3 DEF Logs, TInv, TypeOK
  <2> QED
    BY <1>3, <2>2
<1>5. ASSUME NEW p \in Products \ (met \cup irregular'), NEW l \in Locs
      PROVE  Stock(rows', p, {l}) = InitAt(p, l) + logged'[p][l]
  <2>1. CASE p \in ProductsOf(tx[w])
    <3>1. p \in Within("commit", tx[w]) \ met /\ p \notin irregular \cup tx[w].odd
      BY <1>3, <1>5, <2>1 DEF Within
    <3>2. Explained(rows, logged, "commit", tx[w], p)
      BY <1>3, <3>1 DEF Ledger, Balances
    <3>3. PICK m \in Int : m = tx[w].log[p][l]
      BY <1>3 DEF Tx
    <3>4. Booked("commit", tx[w], p, l) = m
      <4>1. Booked("commit", tx[w], p, l) = m \/ Booked("commit", tx[w], p, l) = m - 0
        BY <3>3 DEF Booked, Had
      <4> QED
        BY <4>1
    <3>5. InitAt(p, l) \in Int /\ logged[p][l] \in Int
      BY InitAtIs DEF TInv, TypeOK
    <3>6. View(rows, tx[w], p, {l}) = InitAt(p, l) + logged[p][l] + m
      BY <3>2, <3>4 DEF Explained
    <3> QED
      BY <1>3, <3>3, <3>5, <3>6, CommitView
  <2>2. CASE p \notin ProductsOf(tx[w])
    <3>1. NoTx.dirty \cap tx[w].dirty = {}
      BY NoTxType
    <3>2. Untouched(rows, rows', NoTx, p)
      BY <2>2, <3>1, CommitUntouched
    <3>3. Stock(rows', p, {l}) = Stock(rows, p, {l})
      BY <3>2, UntouchedSums
    <3>4. logged'[p][l] = logged[p][l]
      BY <1>4, <2>2
    <3>5. Stock(rows, p, {l}) = InitAt(p, l) + logged[p][l]
      BY <1>3, <1>5 DEF Ledger
    <3> QED
      BY <3>3, <3>4, <3>5
  <2> QED
    BY <2>1, <2>2
<1>6. ASSUME NEW v \in Workers, NEW p \in Within(pc'[v], tx'[v]) \ met
      PROVE  Balances(rows', logged', irregular', pc'[v], tx'[v], p)
  <2>1. v # w
    BY <1>1, <1>2, <1>6 DEF Within
  <2>2. pc'[v] = pc[v] /\ tx'[v] = tx[v] /\ p \in Within(pc[v], tx[v])
    BY <1>2, <1>6, <2>1
  <2>3. p \notin Within(pc[w], tx[w])
    BY <1>6, <2>1, <2>2 DEF Scoped
  <2>4. p \notin ProductsOf(tx[w])
    BY <1>3, <2>3 DEF Within
  <2>5. p \in Products
    <3>1. tx[v] \in Tx
      BY DEF TInv, TypeOK
    <3>2. \A k \in 1..Len(tx[v].todo) : tx[v].todo[k] \in Line
      BY <3>1 DEF Tx
    <3>3. \A j \in tx[v].dirty : tx[v].put[j] \in Row
      BY <3>1 DEF Tx
    <3> QED
      BY <2>2, <3>2, <3>3 DEF Within, ProductsOf, ItemsOf, Line, Row
  <2>6. /\ pc[v] \in Control /\ tx[v] \in Tx /\ Fits(pc[v], tx[v]) /\ HeldBy(rows, pc[v], tx[v])
        /\ tx[v].dirty \cap tx[w].dirty = {}
    BY <2>1 DEF TInv, TypeOK, Steady
  <2>7. Untouched(rows, rows', tx[v], p)
    BY <2>4, <2>6, CommitUntouched
  <2>8. Balances(rows, logged, irregular, pc[v], tx[v], p)
    BY <1>6, <2>2 DEF Ledger
  <2>9. irregular \subseteq irregular' /\ \A l \in Locs : logged'[p][l] = logged[p][l]
    BY <1>3, <1>4, <2>4, <2>5
  <2>10. Balances(rows', logged', irregular', pc[v], tx[v], p)
    BY <2>6, <2>7, <2>8, <2>9, BalancesKept
  <2> QED
    BY <2>2, <2>10
<1> QED
  BY <1>3, <1>5, <1>6 DEF Ledger

\* A reservation moves a unit between two rows of one place.
LEMMA ReserveStock ==
  ASSUME TInv, NEW i \in Ids, NEW j \in Ids, Reserve(i, j), NEW p, NEW L
  PROVE  Stock(rows', p, L) = Stock(rows, p, L)
<1>1. TypeOK /\ rows \in [Ids -> Row]
  BY DEF TInv, TypeOK
<1>2. /\ i # j /\ rows[j].product = rows[i].product /\ rows[j].loc = rows[i].loc
      /\ rows'[i].product = rows[i].product /\ rows'[i].loc = rows[i].loc
      /\ rows'[j].product = rows[i].product /\ rows'[j].loc = rows[i].loc
      /\ rows'[i].qty = rows[i].qty - 1 /\ rows'[j].qty = rows[j].qty + 1
      /\ \A k \in Ids \ {i, j} : rows'[k] = rows[k]
  BY <1>1, ReserveRows
<1>3. PICK f, h : /\ f = [k \in Ids |-> Part(rows[k], p, L)]
                  /\ h = [k \in Ids |-> Part(rows'[k], p, L)]
  OBVIOUS
<1>4. PICK g : g = [k \in Ids |-> IF k = i THEN h[i] ELSE f[k]]
  OBVIOUS
<1>5. \A k \in Ids : f[k] \in Int
  BY <1>1, <1>3, PartType, NoTxType
<1>6. rows[i].qty \in Int /\ rows[j].qty \in Int
  BY <1>1 DEF Row
<1>7. /\ f[i] = (IF rows[i].product = p /\ rows[i].loc \in L THEN rows[i].qty ELSE 0)
      /\ h[i] = (IF rows[i].product = p /\ rows[i].loc \in L THEN rows[i].qty - 1 ELSE 0)
      /\ f[j] = (IF rows[i].product = p /\ rows[i].loc \in L THEN rows[j].qty ELSE 0)
      /\ h[j] = (IF rows[i].product = p /\ rows[i].loc \in L THEN rows[j].qty + 1 ELSE 0)
  BY <1>2, <1>3 DEF Part
<1>8. h[i] \in Int /\ h[j] \in Int /\ h[i] - f[i] + (h[j] - f[j]) = 0
  BY <1>6, <1>7
<1>9. \A k \in Ids \ {i, j} : h[k] = f[k]
  BY <1>2, <1>3
<1>10. \A k \in Ids : f[k] \in Int /\ g[k] \in Int /\ h[k] \in Int
  BY <1>4, <1>5, <1>8, <1>9
<1>11. IsFiniteSet(Ids)
  BY RelocationAssumption
<1>12. SumFunctionOnSet(g, Ids) = SumFunctionOnSet(f, Ids) - f[i] + g[i]
  <2>1. \A k \in Ids \ {i} : f[k] = g[k]
    BY <1>4
  <2>2. \A k \in Ids : f[k] \in Int /\ g[k] \in Int
    BY <1>10
  <2> QED
    BY <1>11, <2>1, <2>2, SumUpdate
<1>13. SumFunctionOnSet(h, Ids) = SumFunctionOnSet(g, Ids) - g[j] + h[j]
  <2>1. \A k \in Ids \ {j} : g[k] = h[k]
    BY <1>4, <1>9
  <2>2. \A k \in Ids : g[k] \in Int /\ h[k] \in Int
    BY <1>10
  <2> QED
    BY <1>11, <2>1, <2>2, SumUpdate
<1>14. g[i] = h[i] /\ g[j] = f[j]
  BY <1>2, <1>4
<1>15. SumFunctionOnSet(f, Ids) \in Int
  BY <1>5, <1>11, SumInt
<1>16. SumFunctionOnSet(h, Ids) = SumFunctionOnSet(f, Ids)
  BY <1>5, <1>8, <1>12, <1>13, <1>14, <1>15
<1> QED
  BY <1>3, <1>16 DEF Stock

LEMMA ReserveLedger ==
  ASSUME TInv, Steady, Ledger, NEW i \in Ids, NEW j \in Ids, Reserve(i, j)
  PROVE  Ledger'
<1>1. /\ pc' = pc /\ tx' = tx /\ irregular' = irregular /\ logged' = logged
      /\ met' = met \cup UNION {{rows[i].product} \cap Within(pc[w], tx[w]) : w \in Workers}
  BY ScopeIs DEF Reserve
<1>2. \A p \in Products \ (met' \cup irregular) : \A l \in Locs :
        Stock(rows', p, {l}) = InitAt(p, l) + logged[p][l]
  BY <1>1, ReserveStock DEF Ledger
<1>3. ASSUME NEW w \in Workers, NEW p \in Within(pc[w], tx[w]) \ met'
      PROVE  Balances(rows', logged, irregular, pc[w], tx[w], p)
  <2>1. p # rows[i].product /\ p \notin met
    BY <1>1, <1>3
  <2>2. i \notin tx[w].dirty /\ j \notin tx[w].dirty
    BY DEF Reserve
  <2>3. /\ rows[j].product = rows[i].product
        /\ rows'[i].product = rows[i].product /\ rows'[j].product = rows[i].product
        /\ \A k \in Ids \ {i, j} : rows'[k] = rows[k]
    BY ReserveRows DEF TInv
  <2>4. Untouched(rows, rows', tx[w], p)
    BY <2>1, <2>2, <2>3 DEF Untouched, Of
  <2>5. /\ pc[w] \in Control /\ tx[w] \in Tx /\ Fits(pc[w], tx[w]) /\ HeldBy(rows, pc[w], tx[w])
        /\ Balances(rows, logged, irregular, pc[w], tx[w], p)
    BY <1>3, <2>1 DEF TInv, TypeOK, Steady, Ledger
  <2> QED
    BY <2>4, <2>5, BalancesKept
<1> QED
  BY <1>1, <1>2, <1>3 DEF Ledger

LEMMA NextLedger == Inv /\ TInv /\ Steady /\ Scoped /\ Ledger /\ [Next]_vars => Ledger'
<1> SUFFICES ASSUME Inv, TInv, Steady, Scoped, Ledger, [Next]_vars PROVE Ledger'
  OBVIOUS
<1>0. TypeOK
  BY DEF TInv
<1>1. ASSUME UNCHANGED <<rows, logged, pc, tx, met, irregular>> PROVE Ledger'
  <2>1. /\ rows' = rows /\ logged' = logged /\ pc' = pc /\ tx' = tx /\ met' = met
        /\ irregular' = irregular
    BY <1>1
  <2> QED
    BY <2>1 DEF Ledger
<1>2. ASSUME NEW w \in Workers, NEW from \in Locs, NEW to \in Locs, NEW ls \in Asks \cup {<<>>},
             NEW ss \in SUBSET Sugs, Transfer(w, from, to, ls, ss)
      PROVE  Ledger'
  BY <1>0, <1>2, TransferEffect, BeginLedger DEF Control
<1>3. ASSUME NEW w \in Workers, NEW r \in Recs, Execute(w, r) PROVE Ledger'
  BY <1>0, <1>3, ExecuteEffect, BeginLedger
<1>4. ASSUME NEW w \in Workers, Increment(w) \/ Fail(w) PROVE Ledger'
  <2>1. /\ Goto(w, "idle", NoTx) /\ rows' = rows /\ logged' = logged /\ irregular' = irregular
        /\ met' = met
    BY <1>4 DEF Increment, Fail, Local, db, hist
  <2> QED
    BY <2>1, LedgerGoto DEF Within
<1>5. ASSUME NEW w \in Workers, Statement(w) \/ Fail(w) PROVE Ledger'
  BY <1>4, <1>5, ReadSourceLedger, ReadDestLedger, TakeLedger, PutLedger, CommitLedger DEF Statement
<1>6. CASE UNCHANGED vars
  BY <1>1, <1>6 DEF vars, db, hist
<1>7. ASSUME NEW i \in Ids, NEW j \in Ids, Reserve(i, j) PROVE Ledger'
  BY <1>7, ReserveLedger
<1>8. ASSUME NEW s \in Sugs, NEW p \in Products, Evaluate(s, p) PROVE Ledger'
  BY <1>1, <1>8 DEF Evaluate, hist
<1>9. ASSUME NEW s \in Sugs, NEW new, MarkSuggestion(s, new) PROVE Ledger'
  BY <1>1, <1>9 DEF MarkSuggestion, hist
<1>10. ASSUME NEW o \in Orders, NEW new, MarkOrder(o, new) PROVE Ledger'
  BY <1>1, <1>10 DEF MarkOrder, hist
<1>11. ASSUME NEW r \in Recs, NEW p \in Products, NEW to \in Locs, Recommend(r, p, to) PROVE Ledger'
  BY <1>1, <1>11 DEF Recommend, hist
<1>12. ASSUME NEW r \in Recs, NEW new, MarkRecommendation(r, new) PROVE Ledger'
  BY <1>1, <1>12 DEF MarkRecommendation, hist
<1> QED
  BY <1>2, <1>3, <1>5, <1>6, <1>7, <1>8, <1>9, <1>10, <1>11, <1>12 DEF Next

LEMMA InitLedger == Init => Ledger
<1> SUFFICES ASSUME Init PROVE Ledger
  OBVIOUS
<1>1. \A w \in Workers : Within(pc[w], tx[w]) = {}
  BY DEF Init, Within
<1>2. ASSUME NEW p \in Products, NEW l \in Locs PROVE Stock(rows, p, {l}) = InitAt(p, l) + logged[p][l]
  <2>1. logged[p][l] = 0 /\ rows = InitRows
    BY DEF Init, NoMoves
  <2>2. InitAt(p, l) = Stock(InitRows, p, {l}) /\ InitAt(p, l) \in Int
    BY InitAtIs
  <2> QED
    BY <2>1, <2>2
<1> QED
  BY <1>1, <1>2 DEF Ledger

\* The whole of the inductive invariant.
IInv == Inv /\ TInv /\ Steady /\ Scoped /\ Ledger

LEMMA Inductive == (Init => IInv) /\ (IInv /\ [Next]_vars => IInv')
<1>1. Init => IInv
  BY InitInv, InitTypes, InitSteady, InitScoped, InitLedger DEF IInv
<1>2. IInv /\ [Next]_vars => IInv'
  BY InvStep, NextTypes, NextSteady, NextScoped, NextLedger DEF IInv
<1> QED
  BY <1>1, <1>2

\* Whatever the transfers, the recommendations and the reservations of a warehouse do and
\* however they fail, a product whose moves never overlapped, and always had one row to
\* move out of, has in every location just what the recorded movements say.
THEOREM StockFollowsMovements == Spec => []StockIsMovements
<1>1. IInv => StockIsMovements
  BY SumsAre DEF Sums, IInv, Ledger, StockIsMovements, TInv
<1> QED
  BY <1>1, Inductive, PTL DEF Spec

LEMMA StepLosesNothing ==
  IInv /\ IInv' /\ [Next]_vars =>
    [\A p \in Products \ met' : SumOf(RowsOf(p)) <= SumOf(RowsOf(p))']_vars
<1> SUFFICES ASSUME IInv, IInv', [Next]_vars, NEW p \in Products \ met'
             PROVE  SumOf(RowsOf(p)) <= SumOf(RowsOf(p))'
  OBVIOUS
<1>0. TypeOK /\ TypeOK' /\ Inv /\ TInv /\ Steady /\ Scoped /\ Ledger
  BY DEF IInv, TInv
<1>1. SumOf(RowsOf(p)) = Stock(rows, p, Locs)
  BY <1>0, SumsAre DEF Sums
<1>2. SumOf(RowsOf(p))' = Stock(rows', p, Locs)
  <2>1. TypeOK' => Sums'
    BY SumsAre, PTL
  <2> QED
    BY <1>0, <2>1 DEF Sums
<1>3. Stock(rows, p, Locs) \in Int
  BY <1>0, PartType, NoTxType DEF TypeOK
<1>4. SUFFICES Stock(rows, p, Locs) <= Stock(rows', p, Locs)
  BY <1>1, <1>2
<1>5. ASSUME rows' = rows PROVE Stock(rows, p, Locs) <= Stock(rows', p, Locs)
  BY <1>3, <1>5
<1>6. ASSUME NEW i \in Ids, NEW j \in Ids, Reserve(i, j)
      PROVE  Stock(rows, p, Locs) <= Stock(rows', p, Locs)
  BY <1>0, <1>3, <1>6, ReserveStock
<1>7. ASSUME NEW w \in Workers, Commit(w) PROVE Stock(rows, p, Locs) <= Stock(rows', p, Locs)
  <2>1. met' = met /\ pc[w] = "commit"
    BY <1>7 DEF Commit
  <2>2. CASE p \in ProductsOf(tx[w])
    <3>1. p \in Within(pc[w], tx[w]) \ met
      BY <2>1, <2>2 DEF Within
    <3>2. Lossless(rows, "commit", tx[w], p)
      BY <1>0, <2>1, <3>1 DEF Ledger, Balances
    <3>3. Due("commit", tx[w], p) = 0
      BY DEF Due, Had
    <3>4. View(rows, tx[w], p, Locs) \in Int
      BY <1>0, PartType DEF TypeOK
    <3> QED
      BY <1>3, <1>7, <3>2, <3>3, <3>4, CommitView DEF Lossless
  <2>3. CASE p \notin ProductsOf(tx[w])
    <3>1. NoTx.dirty \cap tx[w].dirty = {}
      BY NoTxType
    <3>2. Untouched(rows, rows', NoTx, p)
      BY <1>0, <1>7, <2>3, <3>1, CommitUntouched
    <3>3. Stock(rows', p, Locs) = Stock(rows, p, Locs)
      BY <3>2, UntouchedSums
    <3> QED
      BY <1>3, <3>3
  <2> QED
    BY <2>2, <2>3
<1>8. ASSUME NEW w \in Workers, Statement(w) \/ Fail(w)
      PROVE  Stock(rows, p, Locs) <= Stock(rows', p, Locs)
  BY <1>5, <1>7, <1>8 DEF Statement, ReadSource, ReadDest, Take, Put, Increment, Fail, Local, db, hist
<1>9. ASSUME NEW w \in Workers, NEW from, NEW to, NEW ls, NEW ss, Transfer(w, from, to, ls, ss)
      PROVE  Stock(rows, p, Locs) <= Stock(rows', p, Locs)
  BY <1>5, <1>9 DEF Transfer, Begin, db
<1>10. ASSUME NEW w \in Workers, NEW r, Execute(w, r)
       PROVE  Stock(rows, p, Locs) <= Stock(rows', p, Locs)
  BY <1>5, <1>10 DEF Execute, Begin, db
<1>11. ASSUME NEW s, NEW q, Evaluate(s, q) \/ MarkSuggestion(s, q) \/ MarkOrder(s, q) \/ MarkRecommendation(s, q)
       PROVE  Stock(rows, p, Locs) <= Stock(rows', p, Locs)
  BY <1>5, <1>11 DEF Evaluate, MarkSuggestion, MarkOrder, MarkRecommendation
<1>12. ASSUME NEW r, NEW q, NEW to, Recommend(r, q, to)
       PROVE  Stock(rows, p, Locs) <= Stock(rows', p, Locs)
  BY <1>5, <1>12 DEF Recommend
<1>13. CASE UNCHANGED vars
  BY <1>5, <1>13 DEF vars, db, hist
<1> QED
  BY <1>6, <1>8, <1>9, <1>10, <1>11, <1>12, <1>13 DEF Next

\* No unit of a product is ever lost while its moves do not overlap, however irregular
\* they are: a move without a source row, within one location, out of several rows or
\* out of one that owes only adds stock.
THEOREM NoUnitIsLost == Spec => NothingIsLost
<1>1. Spec => []IInv
  BY Inductive, PTL DEF Spec
<1>2. IInv /\ IInv' /\ [Next]_vars =>
        [\A p \in Products \ met' : SumOf(RowsOf(p)) <= SumOf(RowsOf(p))']_vars
  BY StepLosesNothing
<1> QED
  BY <1>1, <1>2, PTL DEF Spec, NothingIsLost
=============================================================================
