---------------------------- MODULE ReceivingProofs ----------------------------
(***************************************************************************)
(* No line is recorded as received beyond its tolerance, for any receipts  *)
(* and number of overlapping requests.  What the next generation checks is *)
(* the very sum that is stored; receiveLegacyLine checks nothing, but asks *)
(* for no more than was pending when it read the line, and what was read   *)
(* is what it adds to.                                                     *)
(*                                                                         *)
(* Then the types; that overwritten rows never hold more than was moved    *)
(* (the lemmas on Backed, used for the cells and for the lines of a        *)
(* receipt); and that requests that do not meet keep stock, lines and      *)
(* movements equal (the layers Solo, OInv and BInv).                       *)
(***************************************************************************)
EXTENDS Receiving, SumLemmas

Cap(ln) == Expected[ln] + Over[ln]

\* A request that is at one of its items, none of which may take a line too far.
Working(t) ==
  /\ t.items \in Seq(Item) /\ t.k \in 1..Len(t.items)
  /\ t.legacy => \A k \in 1..Len(t.items) :
                   t.read[t.items[k].line] + t.items[k].qty <= Cap(t.items[k].line)

\* The locals t of a request at statement c.
LocalsOK(c, t) ==
  /\ DOMAIN t = {"receipt", "loc", "status", "legacy", "asked", "items", "k", "seen", "read",
                 "slot", "qty", "got", "put", "move", "next"}
  /\ t.asked \in Asks \cup {{}} /\ t.legacy \in BOOLEAN /\ t.seen \subseteq Lines
  /\ t.read \in [Lines -> Nat] /\ t.got \in [Lines -> Nat]
  /\ \A ln \in Lines : t.got[ln] <= Cap(ln)
  /\ c \in {"update", "find", "store"} => Working(t)

IInv ==
  /\ received \in [Lines -> Nat] /\ present \subseteq Lines
  /\ WithinTolerance
  /\ pc \in [Workers -> Control] /\ DOMAIN tx = Workers
  /\ \A w \in Workers : LocalsOK(pc[w], tx[w])

-----------------------------------------------------------------------------
LEMMA CapNat == \A ln \in Lines : Expected[ln] \in Nat /\ Over[ln] \in Nat /\ Cap(ln) \in Nat
<1>1. Expected \in [Lines -> Nat \ {0}] /\ Over \in [Lines -> Nat]
  BY ReceivingAssumption
<1> QED
  BY <1>1 DEF Cap

LEMMA NoTxOK ==
  ASSUME NEW c, c \notin {"update", "find", "store"}, NEW w
  PROVE  LocalsOK(c, NoTx(w))
BY CapNat DEF LocalsOK, NoTx, NoQty

LEMMA InitIInv == Init => IInv
<1> SUFFICES ASSUME Init PROVE IInv
  OBVIOUS
<1>1. received \in [Lines -> Nat] /\ present \subseteq Lines /\ WithinTolerance
  BY CapNat DEF Init, NoQty, WithinTolerance, Cap
<1>2. pc \in [Workers -> Control] /\ DOMAIN tx = Workers
  BY DEF Init, Control
<1>3. ASSUME NEW w \in Workers PROVE LocalsOK(pc[w], tx[w])
  <2>1. pc[w] = "idle" /\ tx[w] = NoTx(w)
    BY DEF Init
  <2> QED
    BY <2>1, NoTxOK
<1> QED
  BY <1>1, <1>2, <1>3 DEF IInv

\* The common part of all statements of a request w.
LEMMA GotoStep ==
  ASSUME IInv, NEW w \in Workers, NEW next \in Control, NEW t, Goto(w, next, t), LocalsOK(next, t),
         received' \in [Lines -> Nat], present' \subseteq Lines, WithinTolerance'
  PROVE  IInv'
<1>1. /\ pc' \in [Workers -> Control] /\ DOMAIN tx' = Workers
      /\ pc'[w] = next /\ tx'[w] = t
      /\ \A v \in Workers \ {w} : pc'[v] = pc[v] /\ tx'[v] = tx[v]
  BY DEF Goto, IInv
<1>2. ASSUME NEW v \in Workers PROVE LocalsOK(pc'[v], tx'[v])
  <2>1. CASE v = w
    BY <1>1, <2>1
  <2>2. CASE v # w
    BY <1>1, <2>2 DEF IInv
  <2> QED
    BY <2>1, <2>2
<1>3. \A v \in Workers : LocalsOK(pc[v], tx[v])'
  BY <1>2 DEF LocalsOK, Working, Cap
<1> QED
  BY <1>1, <1>3 DEF IInv

\* ... that leaves the lines.
LEMMA SameLines ==
  ASSUME IInv, NEW w \in Workers, NEW next \in Control, NEW t, Goto(w, next, t), LocalsOK(next, t),
         received' = received, present' = present
  PROVE  IInv'
<1>1. WithinTolerance'
  BY DEF IInv, WithinTolerance
<1>2. received' \in [Lines -> Nat] /\ present' \subseteq Lines
  BY DEF IInv
<1> QED
  BY <1>1, <1>2, GotoStep

LEMMA LocalStep ==
  ASSUME IInv, NEW w \in Workers, NEW next \in Control, NEW t, Local(w, next, t), LocalsOK(next, t)
  PROVE  IInv'
BY SameLines DEF Local, rows

LEMMA RollbackStep ==
  ASSUME IInv, NEW w \in Workers, Rollback(w)
  PROVE  IInv'
<1>1. PICK t : t = NoTx(w)
  OBVIOUS
<1>2. Local(w, "idle", t) /\ LocalsOK("idle", t)
  BY <1>1, NoTxOK DEF Rollback
<1> QED
  BY <1>2, LocalStep DEF Control

LEMMA QuitStep ==
  ASSUME IInv, NEW w \in Workers, Goto(w, "idle", NoTx(w)), received' = received, present' = present
  PROVE  IInv'
BY NoTxOK, SameLines DEF Control

-----------------------------------------------------------------------------
(* The beginnings.                                                         *)

\* A request reads the row of its receipt.
LEMMA BeginStep ==
  ASSUME IInv, NEW w \in Workers, NEW r, NEW next \in Control, NEW t, Begin(w, r, next, t),
         next \notin {"update", "find", "store"}, LocalsOK(next, t)
  PROVE  IInv'
<1>1. PICK x : x = [t EXCEPT !.receipt = r, !.status = status[r]]
  OBVIOUS
<1>2. Goto(w, next, x) /\ received' = received /\ present' = present
  BY <1>1 DEF Begin, rows
<1>3. LocalsOK(next, x)
  BY <1>1 DEF LocalsOK
<1> QED
  BY <1>2, <1>3, SameLines

LEMMA ReadForLineStep ==
  ASSUME IInv, NEW w \in Workers, NEW ln \in Lines, ReadForLine(w, ln)
  PROVE  IInv'
<1>1. PICK r, n, t : /\ t = [n EXCEPT !.seen = {ln}] /\ n = NoTx(w)
                     /\ Begin(w, r, "insert", t)
  BY DEF ReadForLine
<1>2. LocalsOK("insert", n)
  BY <1>1, NoTxOK
<1>3. LocalsOK("insert", t)
  BY <1>1, <1>2 DEF LocalsOK
<1> QED
  BY <1>1, <1>3, BeginStep DEF Control

LEMMA ConfirmStep ==
  ASSUME IInv, NEW w \in Workers, NEW r \in Receipts, NEW loc \in Locs, NEW asked \in Asks,
         Confirm(w, r, loc, asked) \/ ReceiveLine(w, r, loc, asked)
  PROVE  IInv'
<1>1. PICK n, t : /\ n = NoTx(w) /\ Begin(w, r, "lines", t)
                  /\ \/ t = [n EXCEPT !.loc = loc, !.asked = asked]
                     \/ t = [n EXCEPT !.loc = loc, !.asked = asked, !.legacy = TRUE]
  BY DEF Confirm, ReceiveLine
<1>2. LocalsOK("lines", n)
  BY <1>1, NoTxOK
<1>3. LocalsOK("lines", t)
  BY <1>1, <1>2 DEF LocalsOK
<1> QED
  BY <1>1, <1>3, BeginStep DEF Control

LEMMA CompleteReceiptStep ==
  ASSUME IInv, NEW w \in Workers, NEW r \in Receipts, CompleteReceipt(w, r)
  PROVE  IInv'
<1>1. PICK n : n = NoTx(w) /\ Begin(w, r, "pending", n)
  BY DEF CompleteReceipt
<1>2. LocalsOK("pending", n)
  BY <1>1, NoTxOK
<1> QED
  BY <1>1, <1>2, BeginStep DEF Control

-----------------------------------------------------------------------------
(* What a request asks for.                                                *)

LEMMA MinOfTwo ==
  ASSUME NEW a \in Int, NEW b \in Int
  PROVE  Min({a, b}) \in Int /\ Min({a, b}) <= b
<1>1. \E x \in {a, b} : \A y \in {a, b} : x <= y
  <2>1. CASE a <= b
    BY <2>1
  <2>2. CASE b <= a
    BY <2>2
  <2> QED
    BY <2>1, <2>2
<1>2. Min({a, b}) \in {a, b} /\ \A y \in {a, b} : Min({a, b}) <= y
  BY <1>1 DEF Min
<1> QED
  BY <1>2

\* The payload is finite and not empty, names lines of the receipt, and in
\* receiveLegacyLine no more than is pending.
LEMMA PayloadOK ==
  ASSUME IInv, NEW w \in Workers, pc[w] = "lines", LinesOf(tx[w].receipt) # {},
         \A p \in tx[w].asked : p[1] \in LinesOf(tx[w].receipt)
  PROVE  /\ IsFiniteSet(Payload(w)) /\ Payload(w) # {}
         /\ \A e \in Payload(w) : /\ e \in Item /\ e.line \in LinesOf(tx[w].receipt)
                                  /\ tx[w].legacy => e.qty <= Expected[e.line] - received[e.line]
<1> DEFINE mine    == LinesOf(tx[w].receipt)
           pending == {<<ln, Expected[ln] - received[ln]>> : ln \in mine}
           wanted  == IF tx[w].asked = {} THEN pending ELSE tx[w].asked
           item(p) == [line |-> p[1], qty |-> QtyOf(tx[w].legacy, p[1], p[2])]
<1>1. mine \subseteq Lines /\ IsFiniteSet(mine)
  <2>1. mine \subseteq Lines
    BY DEF LinesOf, IInv
  <2> QED
    BY <2>1, ReceivingAssumption, FS_Subset
<1>2. \A ln \in mine : Expected[ln] - received[ln] \in Int
  BY <1>1, CapNat DEF IInv
<1>3. IsFiniteSet(pending)
  <2> DEFINE f == [ln \in mine |-> <<ln, Expected[ln] - received[ln]>>]
  <2>1. f \in Surjection(mine, pending)
    BY DEF Surjection
  <2> HIDE DEF f
  <2> QED
    BY <1>1, <2>1, FS_Surjection
<1>4. IsFiniteSet(wanted) /\ wanted # {}
  <2>1. CASE tx[w].asked = {}
    BY <1>3, <2>1
  <2>2. CASE tx[w].asked # {}
    <3>1. tx[w].asked \in Asks
      BY <2>2 DEF IInv, LocalsOK
    <3> QED
      BY <2>2, <3>1, ReceivingAssumption
  <2> QED
    BY <2>1, <2>2
<1>5. \A p \in wanted : p[1] \in mine /\ p[2] \in Int
  <2>1. CASE tx[w].asked = {}
    BY <1>2, <2>1
  <2>2. CASE tx[w].asked # {}
    <3>1. tx[w].asked \in Asks
      BY <2>2 DEF IInv, LocalsOK
    <3>2. tx[w].asked \subseteq Lines \X (Nat \ {0})
      BY <3>1, ReceivingAssumption
    <3> QED
      BY <2>2, <3>2
  <2> QED
    BY <2>1, <2>2
<1>6. Payload(w) = {item(p) : p \in wanted}
  BY DEF Payload
<1>7. ASSUME NEW p \in wanted
      PROVE  /\ item(p).line = p[1] /\ item(p).qty \in Int
             /\ tx[w].legacy => item(p).qty <= Expected[p[1]] - received[p[1]]
  <2>1. PICK a, b : a = p[2] /\ b = Expected[p[1]] - received[p[1]]
    OBVIOUS
  <2>2. a \in Int /\ b \in Int
    BY <1>2, <1>5, <2>1
  <2>3. QtyOf(tx[w].legacy, p[1], p[2]) = IF tx[w].legacy THEN Min({a, b}) ELSE a
    BY <2>1 DEF QtyOf
  <2>4. QtyOf(tx[w].legacy, p[1], p[2]) \in Int
    BY <2>2, <2>3, MinOfTwo
  <2>5. tx[w].legacy => QtyOf(tx[w].legacy, p[1], p[2]) <= b
    BY <2>2, <2>3, MinOfTwo
  <2> QED
    BY <2>1, <2>4, <2>5
<1>8. IsFiniteSet(Payload(w))
  <2> DEFINE g == [p \in wanted |-> item(p)]
  <2> HIDE DEF wanted, item
  <2>1. g \in Surjection(wanted, Payload(w))
    BY <1>6 DEF Surjection
  <2> HIDE DEF g
  <2> QED
    BY <1>4, <2>1, FS_Surjection
<1> HIDE DEF wanted
<1>9. ASSUME NEW e \in Payload(w)
      PROVE  /\ e \in Item /\ e.line \in mine
             /\ tx[w].legacy => e.qty <= Expected[e.line] - received[e.line]
  <2>1. PICK p \in wanted : e = item(p)
    BY <1>6
  <2>2. e = [line |-> e.line, qty |-> e.qty] /\ e.line = p[1] /\ e.qty \in Int
    BY <1>7, <2>1
  <2>3. p[1] \in mine /\ p[1] \in Lines
    BY <1>1, <1>5
  <2>4. tx[w].legacy => e.qty <= Expected[p[1]] - received[p[1]]
    BY <1>7, <2>1
  <2> QED
    BY <2>2, <2>3, <2>4 DEF Item
<1>10. Payload(w) # {}
  BY <1>4, <1>6
<1> QED
  BY <1>8, <1>9, <1>10

-----------------------------------------------------------------------------
(* The statements of confirmReceipt and receiveLegacyLine.                 *)

LEMMA ReadLinesStep ==
  ASSUME IInv, NEW w \in Workers, ReadLines(w)
  PROVE  IInv'
<1>1. /\ pc[w] = "lines" /\ LinesOf(tx[w].receipt) # {}
      /\ \A p \in tx[w].asked : p[1] \in LinesOf(tx[w].receipt)
  BY DEF ReadLines
<1> DEFINE mine == LinesOf(tx[w].receipt)
           read == [ln \in Lines |-> IF ln \in mine THEN received[ln] ELSE 0]
<1>2. PICK items \in SetToSeqs(Payload(w)) :
        Local(w, "update", [tx[w] EXCEPT !.items = items, !.k = 1, !.asked = {},
                              !.status = "NONE", !.seen = mine, !.read = read])
  BY DEF ReadLines
<1>3. PICK t : t = [tx[w] EXCEPT !.items = items, !.k = 1, !.asked = {},
                                 !.status = "NONE", !.seen = mine, !.read = read]
  OBVIOUS
<1>4. mine \subseteq Lines /\ received \in [Lines -> Nat]
  BY DEF LinesOf, IInv
<1>5. read \in [Lines -> Nat] /\ \A ln \in mine : read[ln] = received[ln]
  BY <1>4
<1>6. /\ IsFiniteSet(Payload(w)) /\ Payload(w) # {}
      /\ \A e \in Payload(w) : /\ e \in Item /\ e.line \in mine
                               /\ tx[w].legacy => e.qty <= Expected[e.line] - received[e.line]
  BY <1>1, PayloadOK
<1>7. PICK n \in Nat : n >= 1 /\ items \in [1..n -> Payload(w)]
  <2>1. Cardinality(Payload(w)) \in Nat /\ Cardinality(Payload(w)) # 0
    BY <1>6, FS_CardinalityType, FS_EmptySet
  <2>2. items \in [1..Cardinality(Payload(w)) -> Payload(w)]
    BY <1>2 DEF SetToSeqs
  <2> QED
    BY <2>1, <2>2
<1>8. items \in Seq(Item) /\ Len(items) = n
  <2>1. items \in [1..n -> Item]
    BY <1>6, <1>7
  <2> QED
    BY <2>1
<1>9. LocalsOK("lines", tx[w])
  BY <1>1 DEF IInv
<1> HIDE DEF mine, read
<1>10. /\ t.items = items /\ t.k = 1 /\ t.asked = {} /\ t.seen = mine /\ t.read = read
       /\ t.legacy = tx[w].legacy /\ t.got = tx[w].got /\ DOMAIN t = DOMAIN tx[w]
  BY <1>3, <1>9 DEF LocalsOK
<1>11. Working(t)
  <2>1. ASSUME t.legacy, NEW k \in 1..Len(t.items)
        PROVE  t.read[t.items[k].line] + t.items[k].qty <= Cap(t.items[k].line)
    <3>1. PICK e \in Payload(w) : e = t.items[k]
      BY <1>7, <1>8, <1>10
    <3>2. e.qty <= Expected[e.line] - received[e.line] /\ read[e.line] = received[e.line]
      BY <1>5, <1>6, <1>10, <2>1
    <3>3. e.line \in Lines /\ e.qty \in Int
      BY <1>4, <1>6 DEF Item
    <3>4. received[e.line] \in Nat /\ Expected[e.line] \in Nat /\ Over[e.line] \in Nat
      BY <1>4, <3>3, CapNat
    <3>5. received[e.line] + e.qty <= Expected[e.line] + Over[e.line]
      BY <3>2, <3>3, <3>4
    <3> QED
      BY <1>10, <3>1, <3>2, <3>5 DEF Cap
  <2>2. 1 \in 1..Len(t.items)
    BY <1>7, <1>8, <1>10
  <2> QED
    BY <1>8, <1>10, <2>1, <2>2 DEF Working
<1>12. LocalsOK("update", t)
  BY <1>4, <1>5, <1>9, <1>10, <1>11 DEF LocalsOK
<1> QED
  BY <1>2, <1>3, <1>12, LocalStep DEF Control

LEMMA CurrentOK ==
  ASSUME IInv, NEW w \in Workers, pc[w] \in {"update", "find", "store"}
  PROVE  /\ LocalsOK(pc[w], tx[w]) /\ Working(tx[w])
         /\ Current(w).line \in Lines /\ Current(w).qty \in Int
         /\ tx[w].legacy => tx[w].read[Current(w).line] + Current(w).qty <= Cap(Current(w).line)
<1>1. LocalsOK(pc[w], tx[w]) /\ Working(tx[w])
  BY DEF IInv, LocalsOK
<1>2. Current(w) \in Item
  BY <1>1 DEF Working, Current
<1> QED
  BY <1>1, <1>2 DEF Working, Current, Item

\* The sum that is compared is the sum that is stored.
LEMMA UpdateLineStep ==
  ASSUME IInv, NEW w \in Workers, UpdateLine(w)
  PROVE  IInv'
<1> DEFINE ln == Current(w).line
           n  == Current(w).qty
<1>1. /\ pc[w] = "update" /\ Tolerated(tx[w], ln, n)
      /\ Local(w, "find", [tx[w] EXCEPT !.got[ln] = tx[w].read[ln] + n])
  BY DEF UpdateLine
<1>2. /\ LocalsOK("update", tx[w]) /\ Working(tx[w]) /\ ln \in Lines /\ n \in Int
      /\ tx[w].legacy => tx[w].read[ln] + n <= Cap(ln)
  BY <1>1, CurrentOK
<1>3. n > 0 /\ tx[w].read[ln] + n <= Cap(ln)
  BY <1>1, <1>2 DEF Tolerated, Cap
<1>4. tx[w].read[ln] \in Nat
  BY <1>2 DEF LocalsOK
<1> HIDE DEF ln, n
<1>5. PICK sum : sum = tx[w].read[ln] + n
  OBVIOUS
<1>6. sum \in Nat /\ sum <= Cap(ln)
  BY <1>2, <1>3, <1>4, <1>5
<1>7. PICK t : t = [tx[w] EXCEPT !.got[ln] = sum]
  OBVIOUS
<1>8. /\ DOMAIN t = DOMAIN tx[w] /\ t.got = [tx[w].got EXCEPT ![ln] = sum]
      /\ t.asked = tx[w].asked /\ t.legacy = tx[w].legacy /\ t.seen = tx[w].seen
      /\ t.read = tx[w].read /\ t.items = tx[w].items /\ t.k = tx[w].k
  BY <1>2, <1>7 DEF LocalsOK
<1>9. t.got \in [Lines -> Nat] /\ \A x \in Lines : t.got[x] <= Cap(x)
  <2>1. tx[w].got \in [Lines -> Nat] /\ \A x \in Lines : tx[w].got[x] <= Cap(x)
    BY <1>2 DEF LocalsOK
  <2> QED
    BY <1>2, <1>6, <1>8, <2>1
<1>10. LocalsOK("find", t)
  BY <1>2, <1>8, <1>9 DEF LocalsOK, Working
<1> QED
  BY <1>1, <1>5, <1>7, <1>10, LocalStep DEF Control

LEMMA FindStockStep ==
  ASSUME IInv, NEW w \in Workers, FindStock(w)
  PROVE  IInv'
<1>1. pc[w] = "find"
  BY DEF FindStock
<1>2. PICK slot, qty : Local(w, "store", [tx[w] EXCEPT !.slot = slot, !.qty = qty])
  BY DEF FindStock
<1>3. PICK t : t = [tx[w] EXCEPT !.slot = slot, !.qty = qty]
  OBVIOUS
<1>4. LocalsOK("find", tx[w]) /\ Working(tx[w])
  BY <1>1, CurrentOK
<1>5. LocalsOK("store", t)
  BY <1>3, <1>4 DEF LocalsOK, Working
<1> QED
  BY <1>2, <1>3, <1>5, LocalStep DEF Control

LEMMA StoreStockStep ==
  ASSUME IInv, NEW w \in Workers, StoreStock(w)
  PROVE  IInv'
<1>1. pc[w] = "store"
  BY DEF StoreStock
<1>2. PICK put, move :
        Local(w, IF tx[w].k < Len(tx[w].items) THEN "update" ELSE "judge",
              [tx[w] EXCEPT !.put = put, !.move = move, !.k = @ + 1, !.slot = w, !.qty = 0])
  BY DEF StoreStock
<1>3. PICK next, t : /\ next = IF tx[w].k < Len(tx[w].items) THEN "update" ELSE "judge"
                     /\ t = [tx[w] EXCEPT !.put = put, !.move = move, !.k = @ + 1,
                                          !.slot = w, !.qty = 0]
  OBVIOUS
<1>4. LocalsOK("store", tx[w]) /\ Working(tx[w])
  BY <1>1, CurrentOK
<1>5. /\ DOMAIN t = DOMAIN tx[w] /\ t.got = tx[w].got /\ t.asked = tx[w].asked
      /\ t.legacy = tx[w].legacy /\ t.seen = tx[w].seen /\ t.read = tx[w].read
      /\ t.items = tx[w].items /\ t.k = tx[w].k + 1
  BY <1>3, <1>4 DEF LocalsOK
<1>6. next = "update" => Working(t)
  <2>1. tx[w].k \in 1..Len(tx[w].items) /\ tx[w].items \in Seq(Item)
    BY <1>4 DEF Working
  <2>2. next = "update" => tx[w].k + 1 \in 1..Len(tx[w].items)
    BY <1>3, <2>1
  <2> QED
    BY <1>4, <1>5, <2>2 DEF Working
<1>7. LocalsOK(next, t)
  BY <1>3, <1>4, <1>5, <1>6 DEF LocalsOK
<1> QED
  BY <1>2, <1>3, <1>7, LocalStep DEF Control

LEMMA JudgeStep ==
  ASSUME IInv, NEW w \in Workers, Judge(w)
  PROVE  IInv'
<1>1. pc[w] = "judge"
  BY DEF Judge
<1>2. PICK new, t : /\ t = [tx[w] EXCEPT !.next = new, !.items = <<>>, !.seen = {}, !.read = NoQty]
                    /\ Local(w, "commit", t)
  BY DEF Judge
<1>3. LocalsOK("judge", tx[w])
  BY <1>1 DEF IInv
<1>4. LocalsOK("commit", t)
  BY <1>2, <1>3 DEF LocalsOK, NoQty
<1> QED
  BY <1>2, <1>4, LocalStep DEF Control

LEMMA CommitStep ==
  ASSUME IInv, NEW w \in Workers, Commit(w)
  PROVE  IInv'
<1>1. /\ received' = [ln \in Lines |-> ReceivedIn(w, ln)] /\ present' = present
      /\ Goto(w, "idle", NoTx(w))
  BY DEF Commit
<1>2. /\ tx[w].got \in [Lines -> Nat] /\ \A ln \in Lines : tx[w].got[ln] <= Cap(ln)
      /\ received \in [Lines -> Nat] /\ \A ln \in Lines : received[ln] <= Cap(ln)
  BY DEF IInv, LocalsOK, WithinTolerance, Cap
<1>3. \A ln \in Lines : ReceivedIn(w, ln) \in Nat /\ ReceivedIn(w, ln) <= Cap(ln)
  BY <1>2 DEF ReceivedIn
<1>4. received' \in [Lines -> Nat] /\ \A ln \in Lines : received'[ln] <= Cap(ln)
  BY <1>1, <1>3
<1>5. WithinTolerance'
  BY <1>4 DEF WithinTolerance, Cap
<1>6. PICK t : t = NoTx(w) /\ LocalsOK("idle", t)
  BY NoTxOK
<1>7. present' \subseteq Lines
  BY <1>1 DEF IInv
<1> QED
  BY <1>1, <1>4, <1>5, <1>6, <1>7, GotoStep DEF Control

-----------------------------------------------------------------------------
(* The other statements.                                                   *)

LEMMA CreateReceiptStep ==
  ASSUME IInv, NEW r \in Receipts, CreateReceipt(r)
  PROVE  IInv'
<1>1. received' = received /\ present' = present /\ pc' = pc /\ tx' = tx
  BY DEF CreateReceipt
<1> QED
  BY <1>1 DEF IInv, WithinTolerance, LocalsOK, Working, Cap

LEMMA InsertLineStep ==
  ASSUME IInv, NEW w \in Workers, InsertLine(w)
  PROVE  IInv'
<1>1. present' = present \cup tx[w].seen /\ received' = received /\ Goto(w, "idle", NoTx(w))
  BY DEF InsertLine
<1>2. tx[w].seen \subseteq Lines
  BY DEF IInv, LocalsOK
<1>3. received' \in [Lines -> Nat] /\ present' \subseteq Lines /\ WithinTolerance'
  BY <1>1, <1>2 DEF IInv, WithinTolerance
<1>4. PICK t : t = NoTx(w) /\ LocalsOK("idle", t)
  BY NoTxOK
<1> QED
  BY <1>1, <1>3, <1>4, GotoStep DEF Control

LEMMA RefuseStep ==
  ASSUME IInv, NEW w \in Workers, RefuseReceipt(w) \/ RefuseLine(w) \/ Fail(w)
  PROVE  IInv'
BY RollbackStep DEF RefuseReceipt, RefuseLine, Fail

LEMMA CloseStep ==
  ASSUME IInv, NEW w \in Workers, ReadPending(w) \/ Close(w)
  PROVE  IInv'
<1>1. CASE Close(w)
  BY <1>1, QuitStep DEF Close
<1>2. CASE ReadPending(w)
  <2>1. pc[w] = "pending" /\ (Local(w, "close", tx[w]) \/ Rollback(w))
    BY <1>2 DEF ReadPending
  <2>2. PICK t : t = tx[w]
    OBVIOUS
  <2>3. LocalsOK("pending", t)
    BY <2>1, <2>2 DEF IInv
  <2>4. LocalsOK("close", t)
    BY <2>3 DEF LocalsOK
  <2> QED
    BY <2>1, <2>2, <2>4, LocalStep, RollbackStep DEF Control
<1> QED
  BY <1>1, <1>2

LEMMA IInvStep == IInv /\ [Next]_vars => IInv'
<1> SUFFICES ASSUME IInv, [Next]_vars PROVE IInv'
  OBVIOUS
<1>1. CASE UNCHANGED vars
  <2>1. received' = received /\ present' = present /\ pc' = pc /\ tx' = tx
    BY <1>1 DEF vars, rows
  <2> QED
    BY <2>1 DEF IInv, WithinTolerance, LocalsOK, Working, Cap
<1>2. ASSUME NEW w \in Workers, Statement(w) \/ Fail(w) PROVE IInv'
  BY <1>2, InsertLineStep, ReadLinesStep, RefuseStep, UpdateLineStep, FindStockStep,
     StoreStockStep, JudgeStep, CommitStep, CloseStep DEF Statement
<1>3. ASSUME NEW w \in Workers,
             \/ \E ln \in Lines : ReadForLine(w, ln)
             \/ \E r \in Receipts : CompleteReceipt(w, r)
             \/ \E r \in Receipts, loc \in Locs, asked \in Asks :
                  Confirm(w, r, loc, asked) \/ ReceiveLine(w, r, loc, asked)
      PROVE  IInv'
  BY <1>3, ReadForLineStep, CompleteReceiptStep, ConfirmStep
<1> QED
  BY <1>1, <1>2, <1>3, CreateReceiptStep DEF Next

\* However confirmations of both generations overlap, fail or are repeated, no line is
\* recorded as received beyond what its policy tolerates.
THEOREM NeverOverReceived == Spec => []WithinTolerance
<1>1. Init => IInv
  BY InitIInv
<1>2. IInv /\ [Next]_vars => IInv'
  BY IInvStep
<1>3. IInv => WithinTolerance
  BY DEF IInv
<1> QED
  BY <1>1, <1>2, <1>3, PTL DEF Spec

-----------------------------------------------------------------------------
(***************************************************************************)
(* The types, and that a request works on lines of its own receipt.        *)
(***************************************************************************)
Fits(c, t) ==
  /\ c # "idle" => t.receipt \in Receipts
  /\ c \in {"find", "store"} => t.items[t.k].qty > 0
  /\ \A ln \in Lines : t.got[ln] > 0 \/ t.read[ln] > 0 => ReceiptOf[ln] = t.receipt
  /\ c \in {"update", "find", "store"} =>
       \A k \in 1..Len(t.items) : ReceiptOf[t.items[k].line] = t.receipt

TInv == TypeOK /\ \A w \in Workers : Fits(pc[w], tx[w])

\* What the three kinds of requests have in common when they begin.
Started(w, r, next, t) ==
  /\ pc[w] = "idle" /\ r \in Receipts /\ next \in {"insert", "lines", "pending"} /\ t \in Tx
  /\ Goto(w, next, t) /\ UNCHANGED rows
  /\ met' = met \cup {{r, tx[o].receipt} : o \in {x \in Workers : pc[x] # "idle"}}
  /\ t.receipt = r /\ t.got = NoQty /\ t.read = NoQty /\ t.put = NoStock /\ t.move = NoMove
  /\ next = "insert" =>
       status[r] = "DRAFT" /\ \A ln \in t.seen : ln \notin present /\ ReceiptOf[ln] = r

LEMMA NoTxType ==
  ASSUME NEW w \in Workers
  PROVE  /\ NoTx(w) \in Tx /\ NoTx(w).receipt = NoReceipt /\ NoTx(w).got = NoQty
         /\ NoTx(w).read = NoQty /\ NoTx(w).put = NoStock /\ NoTx(w).move = NoMove
<1>1. (CHOOSE x \in Locs : TRUE) \in Locs
  BY ReceivingAssumption
<1>2. NoQty \in [Lines -> Nat] /\ NoStock \in [Cells -> [Workers -> Nat]] /\ NoMove \in [Cells -> Nat]
  BY DEF NoQty, NoStock, NoMove
<1>3. <<>> \in Seq(Item) /\ {} \subseteq Lines /\ {} \in Asks \cup {{}}
  OBVIOUS
<1> QED
  BY <1>1, <1>2, <1>3 DEF NoTx, Tx, Status

LEMMA TxTypes ==
  ASSUME TypeOK, NEW w \in Workers
  PROVE  /\ tx[w] \in Tx /\ pc[w] \in Control
         /\ tx[w].receipt \in Receipts \cup {NoReceipt} /\ tx[w].loc \in Locs
         /\ tx[w].status \in Status /\ tx[w].legacy \in BOOLEAN
         /\ tx[w].items \in Seq(Item) /\ tx[w].k \in Nat /\ tx[w].seen \subseteq Lines
         /\ tx[w].read \in [Lines -> Nat] /\ tx[w].slot \in Workers /\ tx[w].qty \in Nat
         /\ tx[w].got \in [Lines -> Nat] /\ tx[w].put \in [Cells -> [Workers -> Nat]]
         /\ tx[w].move \in [Cells -> Nat] /\ tx[w].next \in Status
  BY DEF TypeOK, Tx

LEMMA BeginEffect ==
  ASSUME TypeOK, NEW w \in Workers, NEW r \in Receipts, NEW next \in {"insert", "lines", "pending"},
         NEW t \in Tx, Begin(w, r, next, t),
         t.got = NoQty, t.read = NoQty, t.put = NoStock, t.move = NoMove,
         next = "insert" =>
           status[r] = "DRAFT" /\ \A ln \in t.seen : ln \notin present /\ ReceiptOf[ln] = r
  PROVE  \E x : Started(w, r, next, x)
<1>1. PICK x : x = [t EXCEPT !.receipt = r, !.status = status[r]]
  OBVIOUS
<1>2. status[r] \in Status
  BY DEF TypeOK
<1>3. /\ x \in Tx /\ x.receipt = r /\ x.got = t.got /\ x.read = t.read /\ x.put = t.put
      /\ x.move = t.move /\ x.seen = t.seen
  BY <1>1, <1>2 DEF Tx
<1>4. /\ pc[w] = "idle" /\ Goto(w, next, x) /\ UNCHANGED rows
      /\ met' = met \cup {{r, tx[o].receipt} : o \in {y \in Workers : pc[y] # "idle"}}
  BY <1>1 DEF Begin
<1> QED
  BY <1>3, <1>4 DEF Started

LEMMA StartEffect ==
  ASSUME TypeOK, NEW w \in Workers,
         \/ \E ln \in Lines : ReadForLine(w, ln)
         \/ \E r \in Receipts : CompleteReceipt(w, r)
         \/ \E r \in Receipts, loc \in Locs, asked \in Asks :
              Confirm(w, r, loc, asked) \/ ReceiveLine(w, r, loc, asked)
  PROVE  \E r, next, t : Started(w, r, next, t)
<1>0. PICK n : /\ n = NoTx(w) /\ n \in Tx /\ n.got = NoQty /\ n.read = NoQty
               /\ n.put = NoStock /\ n.move = NoMove
  BY NoTxType
<1>1. ASSUME NEW ln \in Lines, ReadForLine(w, ln) PROVE \E r, next, t : Started(w, r, next, t)
  <2>1. PICK t : t = [n EXCEPT !.seen = {ln}]
    OBVIOUS
  <2>2. /\ t \in Tx /\ t.got = NoQty /\ t.read = NoQty /\ t.put = NoStock /\ t.move = NoMove
        /\ t.seen = {ln}
    BY <1>0, <2>1 DEF Tx
  <2>3. PICK r \in Receipts : r = ReceiptOf[ln]
    BY ReceivingAssumption
  <2>4. Begin(w, r, "insert", t) /\ status[r] = "DRAFT" /\ ln \notin present
    BY <1>0, <1>1, <2>1, <2>3 DEF ReadForLine
  <2> QED
    BY <2>2, <2>3, <2>4, BeginEffect
<1>2. ASSUME NEW r \in Receipts, CompleteReceipt(w, r)
      PROVE  \E x, next, t : Started(w, x, next, t)
  <2>1. Begin(w, r, "pending", n)
    BY <1>0, <1>2 DEF CompleteReceipt
  <2> QED
    BY <1>0, <2>1, BeginEffect
<1>3. ASSUME NEW r \in Receipts, NEW loc \in Locs, NEW asked \in Asks,
             Confirm(w, r, loc, asked) \/ ReceiveLine(w, r, loc, asked)
      PROVE  \E x, next, t : Started(w, x, next, t)
  <2>1. PICK t : /\ Begin(w, r, "lines", t)
                 /\ \/ t = [n EXCEPT !.loc = loc, !.asked = asked]
                    \/ t = [n EXCEPT !.loc = loc, !.asked = asked, !.legacy = TRUE]
    BY <1>0, <1>3 DEF Confirm, ReceiveLine
  <2>2. t \in Tx /\ t.got = NoQty /\ t.read = NoQty /\ t.put = NoStock /\ t.move = NoMove
    BY <1>0, <2>1 DEF Tx
  <2> QED
    BY <2>1, <2>2, BeginEffect
<1> QED
  BY <1>1, <1>2, <1>3

\* A request that ends, keeping or dropping what it wrote.
LEMMA QuitEffect ==
  ASSUME TypeOK, NEW w \in Workers, RefuseReceipt(w) \/ RefuseLine(w) \/ Fail(w)
  PROVE  Goto(w, "idle", NoTx(w)) /\ UNCHANGED <<rows, met>>
BY DEF RefuseReceipt, RefuseLine, Fail, Rollback, Local

LEMMA ReadPendingEffect ==
  ASSUME TypeOK, NEW w \in Workers, ReadPending(w)
  PROVE  /\ UNCHANGED <<rows, met>> /\ pc[w] = "pending"
         /\ \/ Goto(w, "idle", NoTx(w))
            \/ Goto(w, "close", tx[w]) /\ Pending(tx[w].receipt) = {}
BY DEF ReadPending, Rollback, Local

\* ReadLines remembers the receipt's lines, what is received of each, and the
\* quantities asked for.
LEMMA ReadLinesEffect ==
  ASSUME IInv, TypeOK, NEW w \in Workers, ReadLines(w)
  PROVE  \E t \in Tx :
           /\ pc[w] = "lines" /\ Goto(w, "update", t) /\ UNCHANGED <<rows, met>>
           /\ t.receipt = tx[w].receipt /\ t.legacy = tx[w].legacy /\ t.loc = tx[w].loc
           /\ t.got = tx[w].got /\ t.put = tx[w].put /\ t.move = tx[w].move
           /\ t.seen = LinesOf(t.receipt) /\ t.k = 1 /\ t.qty = tx[w].qty
           /\ t.read = [ln \in Lines |-> IF ln \in LinesOf(t.receipt) THEN received[ln] ELSE 0]
           /\ t.items \in SetToSeqs(Payload(w)) /\ Len(t.items) >= 1
           /\ IsFiniteSet(Payload(w))
           /\ \A k \in 1..Len(t.items) : /\ t.items[k] \in Payload(w)
                                         /\ t.items[k].line \in LinesOf(t.receipt)
<1>1. /\ pc[w] = "lines" /\ LinesOf(tx[w].receipt) # {}
      /\ \A p \in tx[w].asked : p[1] \in LinesOf(tx[w].receipt)
  BY DEF ReadLines
<1>2. PICK mine, read :
        /\ mine = LinesOf(tx[w].receipt)
        /\ read = [ln \in Lines |-> IF ln \in mine THEN received[ln] ELSE 0]
  OBVIOUS
<1>3. PICK items \in SetToSeqs(Payload(w)) :
        Local(w, "update", [tx[w] EXCEPT !.items = items, !.k = 1, !.asked = {},
                              !.status = "NONE", !.seen = mine, !.read = read])
  BY <1>2 DEF ReadLines
<1>4. PICK t : t = [tx[w] EXCEPT !.items = items, !.k = 1, !.asked = {},
                                 !.status = "NONE", !.seen = mine, !.read = read]
  OBVIOUS
<1>5. mine \subseteq Lines /\ read \in [Lines -> Nat]
  BY <1>2 DEF LinesOf, TypeOK
<1>6. /\ IsFiniteSet(Payload(w)) /\ Payload(w) # {}
      /\ \A e \in Payload(w) : e \in Item /\ e.line \in mine
  BY <1>1, <1>2, PayloadOK
<1>7. PICK n \in Nat : n >= 1 /\ items \in [1..n -> Payload(w)]
  <2>1. Cardinality(Payload(w)) \in Nat /\ Cardinality(Payload(w)) # 0
    BY <1>6, FS_CardinalityType, FS_EmptySet
  <2>2. items \in [1..Cardinality(Payload(w)) -> Payload(w)]
    BY <1>3 DEF SetToSeqs
  <2> QED
    BY <2>1, <2>2
<1>8. items \in Seq(Item) /\ Len(items) = n /\ \A k \in 1..n : items[k] \in Payload(w)
  <2>1. items \in [1..n -> Item]
    BY <1>6, <1>7
  <2> QED
    BY <1>7, <2>1
<1>9. tx[w] \in Tx
  BY TxTypes
<1>10. /\ t \in Tx /\ t.receipt = tx[w].receipt /\ t.legacy = tx[w].legacy /\ t.loc = tx[w].loc
       /\ t.got = tx[w].got /\ t.put = tx[w].put /\ t.move = tx[w].move /\ t.qty = tx[w].qty
       /\ t.seen = mine /\ t.k = 1 /\ t.read = read /\ t.items = items
  BY <1>4, <1>5, <1>8, <1>9 DEF Tx, Status
<1>11. Goto(w, "update", t) /\ UNCHANGED <<rows, met>>
  BY <1>3, <1>4 DEF Local
<1>12. \A k \in 1..Len(items) : items[k] \in Payload(w) /\ items[k].line \in mine
  BY <1>6, <1>8
<1>13. mine = LinesOf(t.receipt)
  BY <1>2, <1>10
<1>14. /\ t.read = [ln \in Lines |-> IF ln \in LinesOf(t.receipt) THEN received[ln] ELSE 0]
       /\ t.seen = LinesOf(t.receipt) /\ Len(t.items) >= 1
       /\ \A k \in 1..Len(t.items) : /\ t.items[k] \in Payload(w)
                                     /\ t.items[k].line \in LinesOf(t.receipt)
  BY <1>2, <1>7, <1>8, <1>10, <1>12, <1>13
<1>15. t.items \in SetToSeqs(Payload(w))
  BY <1>3, <1>10
<1>16. t \in Tx
  BY <1>10
<1> USE <1>16
<1> WITNESS t \in Tx
<1> QED
  BY <1>1, <1>6, <1>10, <1>11, <1>14, <1>15

\* The item a request is working on.
LEMMA ItemType ==
  ASSUME IInv, TInv, NEW w \in Workers, pc[w] \in {"update", "find", "store"}
  PROVE  /\ tx[w].k \in 1..Len(tx[w].items)
         /\ Current(w) = tx[w].items[tx[w].k]
         /\ Current(w).line \in Lines /\ ReceiptOf[Current(w).line] = tx[w].receipt
         /\ Current(w).qty \in Int /\ (pc[w] # "update" => Current(w).qty \in Nat \ {0})
         /\ Cell(w) \in Cells /\ Cell(w) = <<ProductOf[Current(w).line], tx[w].loc>>
<1>1. Current(w).line \in Lines /\ Current(w).qty \in Int /\ tx[w].k \in 1..Len(tx[w].items)
  BY CurrentOK DEF Working
<1>2. Fits(pc[w], tx[w]) /\ tx[w].loc \in Locs
  BY TxTypes DEF TInv
<1>3. ProductOf[Current(w).line] \in Products
  BY <1>1, ReceivingAssumption
<1> QED
  BY <1>1, <1>2, <1>3 DEF Fits, Current, Cell, Cells

LEMMA UpdateLineEffect ==
  ASSUME IInv, TInv, NEW w \in Workers, UpdateLine(w)
  PROVE  \E t \in Tx, ln \in Lines, n \in Nat \ {0} :
           /\ pc[w] = "update" /\ Goto(w, "find", t) /\ UNCHANGED <<rows, met>>
           /\ ln = Current(w).line /\ n = Current(w).qty
           /\ t.got = [tx[w].got EXCEPT ![ln] = tx[w].read[ln] + n]
           /\ t.receipt = tx[w].receipt /\ t.legacy = tx[w].legacy /\ t.loc = tx[w].loc
           /\ t.read = tx[w].read /\ t.seen = tx[w].seen /\ t.put = tx[w].put /\ t.move = tx[w].move
           /\ t.items = tx[w].items /\ t.k = tx[w].k /\ t.qty = tx[w].qty
<1>1. PICK ln, n : ln = Current(w).line /\ n = Current(w).qty
  OBVIOUS
<1>2. /\ pc[w] = "update" /\ Tolerated(tx[w], ln, n)
      /\ Local(w, "find", [tx[w] EXCEPT !.got[ln] = tx[w].read[ln] + n])
  BY <1>1 DEF UpdateLine
<1>3. ln \in Lines /\ n \in Int
  BY <1>1, <1>2, ItemType
<1>4. n \in Nat \ {0}
  BY <1>2, <1>3 DEF Tolerated
<1>5. tx[w] \in Tx /\ tx[w].read[ln] \in Nat /\ tx[w].got \in [Lines -> Nat]
  BY <1>3, TxTypes DEF TInv
<1>6. PICK sum \in Nat : sum = tx[w].read[ln] + n
  BY <1>4, <1>5
<1>7. PICK got \in [Lines -> Nat] : got = [tx[w].got EXCEPT ![ln] = sum]
  <2>1. [tx[w].got EXCEPT ![ln] = sum] \in [Lines -> Nat]
    BY <1>5
  <2> QED
    BY <2>1
<1>8. PICK t : t = [tx[w] EXCEPT !.got = got]
  OBVIOUS
<1>9. Local(w, "find", t)
  BY <1>2, <1>6, <1>7, <1>8
<1>10. /\ t \in Tx /\ t.got = got
       /\ t.receipt = tx[w].receipt /\ t.legacy = tx[w].legacy /\ t.loc = tx[w].loc
       /\ t.read = tx[w].read /\ t.seen = tx[w].seen /\ t.put = tx[w].put /\ t.move = tx[w].move
       /\ t.items = tx[w].items /\ t.k = tx[w].k /\ t.qty = tx[w].qty
  BY <1>5, <1>7, <1>8 DEF Tx
<1> QED
  BY <1>1, <1>2, <1>3, <1>4, <1>6, <1>7, <1>9, <1>10 DEF Local

LEMMA FindStockEffect ==
  ASSUME IInv, TInv, NEW w \in Workers, FindStock(w)
  PROVE  \E t \in Tx :
           /\ pc[w] = "find" /\ Goto(w, "store", t) /\ UNCHANGED <<rows, met>>
           /\ t.qty = StockIn(w, Cell(w), t.slot)
           /\ t.qty = 0 => \A s \in Workers : StockIn(w, Cell(w), s) = 0
           /\ t.receipt = tx[w].receipt /\ t.legacy = tx[w].legacy /\ t.loc = tx[w].loc
           /\ t.read = tx[w].read /\ t.seen = tx[w].seen /\ t.put = tx[w].put /\ t.move = tx[w].move
           /\ t.items = tx[w].items /\ t.k = tx[w].k /\ t.got = tx[w].got
<1>1. PICK c \in Cells : c = Cell(w)
  BY ItemType DEF FindStock
<1>2. \A s \in Workers : StockIn(w, c, s) \in Nat
  <2>1. tx[w].put \in [Cells -> [Workers -> Nat]] /\ stock \in [Cells -> [Workers -> Nat]]
    BY TxTypes DEF TInv, TypeOK
  <2> QED
    BY <2>1 DEF StockIn
<1>3. PICK s \in Workers, q \in Nat :
        /\ pc[w] = "find" /\ Local(w, "store", [tx[w] EXCEPT !.slot = s, !.qty = q])
        /\ q = StockIn(w, c, s)
        /\ q = 0 => \A u \in Workers : StockIn(w, c, u) = 0
  <2>1. CASE {u \in Workers : StockIn(w, c, u) > 0} = {}
    <3>1. \A u \in Workers : StockIn(w, c, u) = 0
      BY <1>2, <2>1
    <3>2. pc[w] = "find" /\ Local(w, "store", [tx[w] EXCEPT !.slot = w, !.qty = 0])
      BY <1>1, <2>1 DEF FindStock
    <3> QED
      BY <3>1, <3>2
  <2>2. CASE {u \in Workers : StockIn(w, c, u) > 0} # {}
    <3>1. pc[w] = "find" /\ \E u \in {x \in Workers : StockIn(w, c, x) > 0} :
             Local(w, "store", [tx[w] EXCEPT !.slot = u, !.qty = StockIn(w, c, u)])
      BY <1>1, <2>2 DEF FindStock
    <3>2. PICK u \in Workers : /\ StockIn(w, c, u) > 0
            /\ Local(w, "store", [tx[w] EXCEPT !.slot = u, !.qty = StockIn(w, c, u)])
      BY <3>1
    <3>3. PICK q \in Nat : q = StockIn(w, c, u)
      BY <1>2
    <3>4. q # 0 /\ pc[w] = "find" /\ Local(w, "store", [tx[w] EXCEPT !.slot = u, !.qty = q])
      BY <3>1, <3>2, <3>3
    <3> QED
      BY <3>3, <3>4
  <2> QED
    BY <2>1, <2>2
<1>4. PICK t : t = [tx[w] EXCEPT !.slot = s, !.qty = q]
  OBVIOUS
<1>5. tx[w] \in Tx
  BY TxTypes DEF TInv
<1>6. /\ t \in Tx /\ t.slot = s /\ t.qty = q
      /\ t.receipt = tx[w].receipt /\ t.legacy = tx[w].legacy /\ t.loc = tx[w].loc
      /\ t.read = tx[w].read /\ t.seen = tx[w].seen /\ t.put = tx[w].put /\ t.move = tx[w].move
      /\ t.items = tx[w].items /\ t.k = tx[w].k /\ t.got = tx[w].got
  BY <1>4, <1>5 DEF Tx
<1> QED
  BY <1>1, <1>3, <1>4, <1>6 DEF Local

Stored(w, next, t, c, s, n) ==
  /\ pc[w] = "store" /\ Goto(w, next, t) /\ UNCHANGED <<rows, met>>
  /\ next = IF tx[w].k < Len(tx[w].items) THEN "update" ELSE "judge"
  /\ c = Cell(w) /\ s = tx[w].slot /\ n = Current(w).qty
  /\ t.put = [tx[w].put EXCEPT ![c][s] = tx[w].qty + n]
  /\ t.move = [tx[w].move EXCEPT ![c] = @ + n]
  /\ t.receipt = tx[w].receipt /\ t.legacy = tx[w].legacy /\ t.loc = tx[w].loc
  /\ t.read = tx[w].read /\ t.seen = tx[w].seen /\ t.got = tx[w].got
  /\ t.items = tx[w].items /\ t.k = tx[w].k + 1 /\ t.qty = 0

LEMMA StoreStockEffect ==
  ASSUME IInv, TInv, NEW w \in Workers, StoreStock(w)
  PROVE  \E t \in Tx : \E next \in {"update", "judge"} : \E c \in Cells :
         \E s \in Workers : \E n \in Nat \ {0} : Stored(w, next, t, c, s, n)
<1>1. pc[w] = "store"
  BY DEF StoreStock
<1>2. PICK c \in Cells, n \in Nat \ {0}, s \in Workers, q \in Nat :
        c = Cell(w) /\ n = Current(w).qty /\ s = tx[w].slot /\ q = tx[w].qty
  BY <1>1, ItemType, TxTypes DEF TInv
<1>3. PICK next \in {"update", "judge"} :
        next = IF tx[w].k < Len(tx[w].items) THEN "update" ELSE "judge"
  OBVIOUS
<1>4. Local(w, next, [tx[w] EXCEPT !.put[c][s] = q + n, !.move[c] = @ + n,
                                   !.k = @ + 1, !.slot = w, !.qty = 0])
  BY <1>2, <1>3 DEF StoreStock
<1>5. /\ tx[w] \in Tx /\ tx[w].put \in [Cells -> [Workers -> Nat]]
      /\ tx[w].move \in [Cells -> Nat] /\ tx[w].k \in Nat
  BY TxTypes DEF TInv
<1>6. PICK row \in [Workers -> Nat] : row = [tx[w].put[c] EXCEPT ![s] = q + n]
  <2>1. tx[w].put[c] \in [Workers -> Nat] /\ q + n \in Nat
    BY <1>5
  <2>2. [tx[w].put[c] EXCEPT ![s] = q + n] \in [Workers -> Nat]
    BY <2>1
  <2> QED
    BY <2>2
<1>7. PICK put \in [Cells -> [Workers -> Nat]] : put = [tx[w].put EXCEPT ![c] = row]
  <2>1. [tx[w].put EXCEPT ![c] = row] \in [Cells -> [Workers -> Nat]]
    BY <1>5
  <2> QED
    BY <2>1
<1>8. PICK move \in [Cells -> Nat] : move = [tx[w].move EXCEPT ![c] = @ + n]
  <2>1. [tx[w].move EXCEPT ![c] = @ + n] \in [Cells -> Nat]
    BY <1>5
  <2> QED
    BY <2>1
<1>9. PICK k \in Nat : k = tx[w].k + 1
  BY <1>5
<1>10. PICK t : t = [tx[w] EXCEPT !.put = put, !.move = move, !.k = k, !.slot = w, !.qty = 0]
  OBVIOUS
<1>11. Local(w, next, t)
  BY <1>4, <1>5, <1>6, <1>7, <1>8, <1>9, <1>10 DEF Tx
<1>12. /\ t \in Tx /\ t.put = put /\ t.move = move /\ t.k = k /\ t.qty = 0
       /\ t.receipt = tx[w].receipt /\ t.legacy = tx[w].legacy /\ t.loc = tx[w].loc
       /\ t.read = tx[w].read /\ t.seen = tx[w].seen /\ t.got = tx[w].got
       /\ t.items = tx[w].items
  BY <1>5, <1>7, <1>8, <1>9, <1>10 DEF Tx
<1>13. put = [tx[w].put EXCEPT ![c][s] = q + n]
  BY <1>6, <1>7
<1>14. t \in Tx
  BY <1>12
<1>15. /\ pc[w] = "store" /\ Goto(w, next, t) /\ UNCHANGED <<rows, met>>
       /\ t.put = [tx[w].put EXCEPT ![c][s] = tx[w].qty + n]
       /\ t.k = tx[w].k + 1
  BY <1>1, <1>2, <1>9, <1>11, <1>12, <1>13 DEF Local
<1>16. t.move = [tx[w].move EXCEPT ![c] = @ + n]
  BY <1>8, <1>12
<1> USE <1>14
<1> WITNESS t \in Tx
<1> WITNESS next \in {"update", "judge"}
<1> WITNESS c \in Cells
<1> WITNESS s \in Workers
<1> WITNESS n \in Nat \ {0}
<1> QED
  BY <1>2, <1>3, <1>12, <1>15, <1>16 DEF Stored

LEMMA JudgeEffect ==
  ASSUME TypeOK, NEW w \in Workers, Judge(w)
  PROVE  \E t \in Tx :
           /\ pc[w] = "judge" /\ Goto(w, "commit", t) /\ UNCHANGED <<rows, met>>
           /\ t.next = IF Complete(w) THEN "RECEIVED" ELSE "PARTIALLY_RECEIVED"
           /\ t.receipt = tx[w].receipt /\ t.read = NoQty /\ t.got = tx[w].got
           /\ t.put = tx[w].put /\ t.move = tx[w].move
<1>1. PICK new \in Status : new = IF Complete(w) THEN "RECEIVED" ELSE "PARTIALLY_RECEIVED"
  BY DEF Status
<1>2. PICK t : t = [tx[w] EXCEPT !.next = new, !.items = <<>>, !.seen = {}, !.read = NoQty]
  OBVIOUS
<1>3. pc[w] = "judge" /\ Local(w, "commit", t)
  BY <1>1, <1>2 DEF Judge
<1>4. tx[w] \in Tx
  BY TxTypes
<1>5. <<>> \in Seq(Item) /\ NoQty \in [Lines -> Nat] /\ {} \subseteq Lines
  BY DEF NoQty
<1>6. /\ t \in Tx /\ t.next = new /\ t.receipt = tx[w].receipt /\ t.read = NoQty
      /\ t.got = tx[w].got /\ t.put = tx[w].put /\ t.move = tx[w].move
  BY <1>2, <1>4, <1>5 DEF Tx
<1> QED
  BY <1>1, <1>3, <1>6 DEF Local

-----------------------------------------------------------------------------
(* The types are kept.                                                     *)

RowTypes ==
  /\ status \in [Receipts -> Status] /\ present \subseteq Lines /\ received \in [Lines -> Nat]
  /\ stock \in [Cells -> [Workers -> Nat]] /\ moved \in [Receipts -> [Cells -> Nat]]

LEMMA GotoAt ==
  ASSUME TypeOK, NEW w \in Workers, NEW next, NEW t, Goto(w, next, t)
  PROVE  /\ pc'[w] = next /\ tx'[w] = t /\ DOMAIN tx' = Workers
         /\ \A v \in Workers \ {w} : pc'[v] = pc[v] /\ tx'[v] = tx[v]
BY DEF TypeOK, Goto

LEMMA GotoFits ==
  ASSUME TInv, NEW w \in Workers, NEW next \in Control, NEW t \in Tx, Goto(w, next, t),
         Fits(next, t), RowTypes', met' \subseteq SUBSET Receipts
  PROVE  TInv'
<1>1. /\ pc'[w] = next /\ tx'[w] = t /\ DOMAIN tx' = Workers
      /\ \A v \in Workers \ {w} : pc'[v] = pc[v] /\ tx'[v] = tx[v]
  BY GotoAt DEF TInv
<1>2. \A v \in Workers : tx'[v] \in Tx
  BY <1>1 DEF TInv, TypeOK
<1>3. pc' \in [Workers -> Control]
  BY DEF TInv, TypeOK, Goto
<1>4. \A v \in Workers : Fits(pc'[v], tx'[v])
  BY <1>1 DEF TInv
<1>5. TypeOK'
  BY <1>1, <1>2, <1>3 DEF TypeOK, RowTypes
<1>6. \A v \in Workers : Fits(pc[v], tx[v])'
  BY <1>4 DEF Fits
<1> QED
  BY <1>5, <1>6 DEF TInv

LEMMA SameRows == ASSUME TypeOK, UNCHANGED rows PROVE RowTypes'
BY DEF TypeOK, RowTypes, rows

\* A statement that changes no row.
LEMMA LocalFits ==
  ASSUME TInv, NEW w \in Workers, NEW next \in Control, NEW t \in Tx, Goto(w, next, t),
         Fits(next, t), UNCHANGED <<rows, met>>
  PROVE  TInv'
<1>1. RowTypes'
  BY SameRows DEF TInv
<1>2. met' \subseteq SUBSET Receipts
  BY DEF TInv, TypeOK
<1> QED
  BY <1>1, <1>2, GotoFits

LEMMA IdleFits == ASSUME NEW w \in Workers PROVE Fits("idle", NoTx(w))
BY NoTxType DEF Fits, NoQty

LEMMA QuitFits ==
  ASSUME TInv, NEW w \in Workers, Goto(w, "idle", NoTx(w)),
         RowTypes', met' \subseteq SUBSET Receipts
  PROVE  TInv'
<1>1. PICK t : t = NoTx(w) /\ t \in Tx /\ Fits("idle", t)
  BY NoTxType, IdleFits
<1> QED
  BY <1>1, GotoFits DEF Control

LEMMA StartFits ==
  ASSUME TInv, NEW w \in Workers, NEW r, NEW next, NEW t, Started(w, r, next, t)
  PROVE  TInv'
<1>1. t \in Tx /\ Goto(w, next, t) /\ UNCHANGED rows /\ next \in Control /\ r \in Receipts
  BY DEF Started, Control
<1>2. Fits(next, t)
  BY DEF Started, Fits, NoQty
<1>3. \A o \in Workers : pc[o] # "idle" => tx[o].receipt \in Receipts
  BY DEF TInv, Fits
<1>4. met' \subseteq SUBSET Receipts
  BY <1>1, <1>3 DEF Started, TInv, TypeOK
<1> QED
  BY <1>1, <1>2, <1>4, SameRows, GotoFits DEF TInv

LEMMA ReadLinesFits == ASSUME IInv, TInv, NEW w \in Workers, ReadLines(w) PROVE TInv'
<1>1. PICK t \in Tx :
        /\ pc[w] = "lines" /\ Goto(w, "update", t) /\ UNCHANGED <<rows, met>>
        /\ t.receipt = tx[w].receipt /\ t.got = tx[w].got
        /\ t.read = [ln \in Lines |-> IF ln \in LinesOf(t.receipt) THEN received[ln] ELSE 0]
        /\ \A k \in 1..Len(t.items) : t.items[k].line \in LinesOf(t.receipt)
  BY ReadLinesEffect DEF TInv
<1>2. Fits("lines", tx[w])
  BY <1>1 DEF TInv
<1>3. \A ln \in LinesOf(t.receipt) : ReceiptOf[ln] = t.receipt
  BY DEF LinesOf
<1>4. Fits("update", t)
  BY <1>1, <1>2, <1>3 DEF Fits
<1> QED
  BY <1>1, <1>4, LocalFits DEF Control

LEMMA UpdateLineFits == ASSUME IInv, TInv, NEW w \in Workers, UpdateLine(w) PROVE TInv'
<1>1. PICK t \in Tx, ln \in Lines, n \in Nat \ {0} :
        /\ pc[w] = "update" /\ Goto(w, "find", t) /\ UNCHANGED <<rows, met>>
        /\ ln = Current(w).line /\ n = Current(w).qty
        /\ t.got = [tx[w].got EXCEPT ![ln] = tx[w].read[ln] + n]
        /\ t.receipt = tx[w].receipt /\ t.read = tx[w].read
        /\ t.items = tx[w].items /\ t.k = tx[w].k
  BY UpdateLineEffect
<1>2. Fits("update", tx[w]) /\ tx[w].got \in [Lines -> Nat]
  BY <1>1, TxTypes DEF TInv
<1>3. ReceiptOf[ln] = t.receipt /\ n = t.items[t.k].qty
  BY <1>1, ItemType DEF Current
<1>4. Fits("find", t)
  BY <1>1, <1>2, <1>3 DEF Fits
<1> QED
  BY <1>1, <1>4, LocalFits DEF Control

LEMMA FindStockFits == ASSUME IInv, TInv, NEW w \in Workers, FindStock(w) PROVE TInv'
<1>1. PICK t \in Tx :
        /\ pc[w] = "find" /\ Goto(w, "store", t) /\ UNCHANGED <<rows, met>>
        /\ t.receipt = tx[w].receipt /\ t.read = tx[w].read
        /\ t.items = tx[w].items /\ t.k = tx[w].k /\ t.got = tx[w].got
  BY FindStockEffect
<1>2. Fits("find", tx[w])
  BY <1>1 DEF TInv
<1>3. Fits("store", t)
  BY <1>1, <1>2 DEF Fits
<1> QED
  BY <1>1, <1>3, LocalFits DEF Control

LEMMA StoreStockFits == ASSUME IInv, TInv, NEW w \in Workers, StoreStock(w) PROVE TInv'
<1>0. PICK t \in Tx, next \in {"update", "judge"}, c \in Cells, s \in Workers, n \in Nat \ {0} :
        Stored(w, next, t, c, s, n)
  BY StoreStockEffect
<1>1. /\ pc[w] = "store" /\ Goto(w, next, t) /\ UNCHANGED <<rows, met>>
      /\ t.receipt = tx[w].receipt /\ t.read = tx[w].read /\ t.got = tx[w].got
      /\ t.items = tx[w].items
  BY <1>0 DEF Stored
<1>2. Fits("store", tx[w])
  BY <1>1 DEF TInv
<1>3. Fits(next, t)
  BY <1>1, <1>2 DEF Fits
<1> QED
  BY <1>1, <1>3, LocalFits DEF Control

LEMMA JudgeFits == ASSUME TInv, NEW w \in Workers, Judge(w) PROVE TInv'
<1>1. PICK t \in Tx :
        /\ pc[w] = "judge" /\ Goto(w, "commit", t) /\ UNCHANGED <<rows, met>>
        /\ t.receipt = tx[w].receipt /\ t.read = NoQty /\ t.got = tx[w].got
  BY JudgeEffect DEF TInv
<1>2. Fits("judge", tx[w])
  BY <1>1 DEF TInv
<1>3. Fits("commit", t)
  BY <1>1, <1>2 DEF Fits, NoQty
<1> QED
  BY <1>1, <1>3, LocalFits DEF Control

\* What a commit makes of the rows.
LEMMA CommitEffect ==
  ASSUME TInv, NEW w \in Workers, Commit(w)
  PROVE  \E r \in Receipts :
           /\ pc[w] = "commit" /\ r = tx[w].receipt /\ Goto(w, "idle", NoTx(w))
           /\ UNCHANGED <<present, met>> /\ RowTypes'
           /\ status' = [status EXCEPT ![r] = tx[w].next]
           /\ \A ln \in Lines : received'[ln] = ReceivedIn(w, ln)
           /\ \A c \in Cells : \A s \in Workers : stock'[c][s] = StockIn(w, c, s)
           /\ \A c \in Cells : moved'[r][c] = moved[r][c] + tx[w].move[c]
           /\ \A q \in Receipts \ {r} : moved'[q] = moved[q]
<1>1. PICK r \in Receipts : r = tx[w].receipt
  BY DEF Commit, TInv, Fits
<1>2. /\ pc[w] = "commit" /\ Goto(w, "idle", NoTx(w)) /\ UNCHANGED <<present, met>>
      /\ received' = [ln \in Lines |-> ReceivedIn(w, ln)]
      /\ stock' = [c \in Cells |-> [s \in Workers |-> StockIn(w, c, s)]]
      /\ moved' = [moved EXCEPT ![r] = [c \in Cells |-> @[c] + tx[w].move[c]]]
      /\ status' = [status EXCEPT ![r] = tx[w].next]
  BY <1>1 DEF Commit
<1>3. TypeOK
  BY DEF TInv
<1>4. \A ln \in Lines : ReceivedIn(w, ln) \in Nat
  BY <1>3, TxTypes DEF TypeOK, ReceivedIn
<1>5. \A c \in Cells : \A s \in Workers : StockIn(w, c, s) \in Nat
  BY <1>3, TxTypes DEF TypeOK, StockIn
<1>6. PICK new : new = [c \in Cells |-> moved[r][c] + tx[w].move[c]]
  OBVIOUS
<1>7. new \in [Cells -> Nat] /\ moved' = [moved EXCEPT ![r] = new]
  BY <1>2, <1>3, <1>6, TxTypes DEF TypeOK
<1>8. tx[w].next \in Status
  BY <1>3, TxTypes
<1>9. RowTypes'
  BY <1>2, <1>3, <1>4, <1>5, <1>7, <1>8 DEF TypeOK, RowTypes
<1>10. /\ \A c \in Cells : moved'[r][c] = moved[r][c] + tx[w].move[c]
       /\ \A q \in Receipts \ {r} : moved'[q] = moved[q]
  BY <1>3, <1>6, <1>7 DEF TypeOK
<1>11. /\ \A ln \in Lines : received'[ln] = ReceivedIn(w, ln)
       /\ \A c \in Cells : \A s \in Workers : stock'[c][s] = StockIn(w, c, s)
  BY <1>2
<1> QED
  BY <1>1, <1>2, <1>9, <1>10, <1>11

LEMMA EndFits ==
  ASSUME IInv, TInv, NEW w \in Workers,
         \/ InsertLine(w) \/ RefuseReceipt(w) \/ RefuseLine(w) \/ Fail(w)
         \/ Commit(w) \/ ReadPending(w) \/ Close(w)
  PROVE  TInv'
<1>1. TypeOK /\ met \subseteq SUBSET Receipts
  BY DEF TInv, TypeOK
<1>2. CASE InsertLine(w)
  <2>1. tx[w].seen \subseteq Lines
    BY <1>1, TxTypes
  <2>2. RowTypes' /\ met' \subseteq SUBSET Receipts /\ Goto(w, "idle", NoTx(w))
    BY <1>1, <1>2, <2>1 DEF InsertLine, RowTypes, TypeOK
  <2> QED
    BY <2>2, QuitFits
<1>3. CASE RefuseReceipt(w) \/ RefuseLine(w) \/ Fail(w)
  <2>1. Goto(w, "idle", NoTx(w)) /\ UNCHANGED <<rows, met>>
    BY <1>1, <1>3, QuitEffect
  <2>2. RowTypes' /\ met' \subseteq SUBSET Receipts
    BY <1>1, <2>1, SameRows
  <2> QED
    BY <2>1, <2>2, QuitFits
<1>4. CASE Commit(w)
  <2>1. RowTypes' /\ met' \subseteq SUBSET Receipts /\ Goto(w, "idle", NoTx(w))
    BY <1>1, <1>4, CommitEffect
  <2> QED
    BY <2>1, QuitFits
<1>5. CASE ReadPending(w)
  <2>1. /\ UNCHANGED <<rows, met>> /\ pc[w] = "pending"
        /\ Goto(w, "idle", NoTx(w)) \/ Goto(w, "close", tx[w])
    BY <1>1, <1>5, ReadPendingEffect
  <2>2. RowTypes' /\ met' \subseteq SUBSET Receipts
    BY <1>1, <2>1, SameRows
  <2>3. PICK t \in Tx : t = tx[w]
    BY <1>1, TxTypes
  <2>4. Fits("close", t)
    BY <2>1, <2>3 DEF TInv, Fits
  <2> QED
    BY <2>1, <2>2, <2>3, <2>4, QuitFits, GotoFits DEF Control
<1>6. CASE Close(w)
  <2>1. RowTypes' /\ met' \subseteq SUBSET Receipts /\ Goto(w, "idle", NoTx(w))
    BY <1>1, <1>6 DEF Close, RowTypes, TypeOK, Status
  <2> QED
    BY <2>1, QuitFits
<1> QED
  BY <1>2, <1>3, <1>4, <1>5, <1>6

LEMMA NextTypes == IInv /\ TInv /\ [Next]_vars => TInv'
<1> SUFFICES ASSUME IInv, TInv, [Next]_vars PROVE TInv'
  OBVIOUS
<1>1. CASE UNCHANGED vars
  BY <1>1 DEF vars, rows, TInv, TypeOK, Fits
<1>2. ASSUME NEW w \in Workers, Statement(w) \/ Fail(w) PROVE TInv'
  BY <1>2, ReadLinesFits, UpdateLineFits, FindStockFits, StoreStockFits, JudgeFits, EndFits
     DEF Statement
<1>3. ASSUME NEW w \in Workers,
             \/ \E ln \in Lines : ReadForLine(w, ln)
             \/ \E r \in Receipts : CompleteReceipt(w, r)
             \/ \E r \in Receipts, loc \in Locs, asked \in Asks :
                  Confirm(w, r, loc, asked) \/ ReceiveLine(w, r, loc, asked)
      PROVE  TInv'
  <2>1. PICK r, next, t : Started(w, r, next, t)
    BY <1>3, StartEffect DEF TInv
  <2> QED
    BY <2>1, StartFits
<1>4. ASSUME NEW r \in Receipts, CreateReceipt(r) PROVE TInv'
  BY <1>4 DEF CreateReceipt, TInv, TypeOK, Fits, Status
<1> QED
  BY <1>1, <1>2, <1>3, <1>4 DEF Next

LEMMA InitTypes == Init => TInv
<1> SUFFICES ASSUME Init PROVE TInv
  OBVIOUS
<1>1. ASSUME NEW w \in Workers PROVE tx[w] \in Tx /\ Fits(pc[w], tx[w])
  BY NoTxType, IdleFits DEF Init
<1>2. TypeOK
  BY <1>1 DEF Init, TypeOK, Status, Control, NoQty, NoStock, NoMove
<1> QED
  BY <1>1, <1>2 DEF TInv

LEMMA AlwaysTyped == Spec => [](IInv /\ TInv)
<1>1. Init => IInv /\ TInv
  BY InitIInv, InitTypes
<1>2. (IInv /\ TInv) /\ [Next]_vars => (IInv /\ TInv)'
  BY IInvStep, NextTypes
<1> QED
  BY <1>1, <1>2, PTL DEF Spec

\* However requests overlap, every quantity stays a natural number, every status one of
\* the four and every row in its table.
THEOREM TypeCorrect == Spec => []TypeOK
<1>1. IInv /\ TInv => TypeOK
  BY DEF TInv
<1> QED
  BY <1>1, AlwaysTyped, PTL

-----------------------------------------------------------------------------
(***************************************************************************)
(* Tables that requests overwrite from what they read.  base[k] is what    *)
(* the row k of K holds, val[w][k] the largest quantity that the request w *)
(* has read or written there, bring[w] what w has added, and total what    *)
(* was added and committed.  Whichever requests W still get their values   *)
(* stored, in whatever order, the rows add up to no more than was brought. *)
(***************************************************************************)
Claim(h, K, base, val, W) ==
  /\ h \in [K -> Nat]
  /\ \A k \in K : h[k] <= base[k] \/ \E w \in W : h[k] <= val[w][k]

Quantities(K, base, val, bring, total) ==
  /\ IsFiniteSet(K) /\ (\A k \in K : base[k] \in Nat)
  /\ (\A w \in Workers : \A k \in K : val[w][k] \in Nat)
  /\ (\A w \in Workers : bring[w] \in Nat) /\ total \in Nat

Backed(K, base, val, bring, total) ==
  \A W \in SUBSET Workers : \A h :
    Claim(h, K, base, val, W) =>
      SumFunctionOnSet(h, K) <= total + SumFunctionOnSet(bring, W)

\* Only the request w changes what it knows and adds.
Alone(K, val, bring, val2, bring2, w) ==
  \A v \in Workers \ {w} : bring2[v] = bring[v] /\ \A j \in K : val2[v][j] = val[v][j]

\* It knows no more than a row holds or it knew, but for n more of the row k.
Learns(K, base, val, val2, w, k, n) ==
  /\ \A j \in K \ {k} : val2[w][j] <= base[j] \/ val2[w][j] <= val[w][j]
  /\ k \in K => val2[w][k] <= base[k] + n \/ val2[w][k] <= val[w][k] + n

LEMMA WorkersFinite == \A W \in SUBSET Workers : IsFiniteSet(W)
BY ReceivingAssumption, FS_Subset

\* A request adds n to what it knows of the row k; with n = 0, it only reads.
LEMMA BackedAdd ==
  ASSUME NEW K, NEW base, NEW val, NEW bring, NEW total,
         Quantities(K, base, val, bring, total), Backed(K, base, val, bring, total),
         NEW val2, NEW bring2, Quantities(K, base, val2, bring2, total),
         NEW w \in Workers, NEW k, NEW n \in Nat, Alone(K, val, bring, val2, bring2, w),
         Learns(K, base, val, val2, w, k, n), bring2[w] = bring[w] + n
  PROVE  Backed(K, base, val2, bring2, total)
<1> USE DEF Alone, Learns
<1> SUFFICES ASSUME NEW W \in SUBSET Workers, NEW h, Claim(h, K, base, val2, W)
             PROVE  SumFunctionOnSet(h, K) <= total + SumFunctionOnSet(bring2, W)
  BY DEF Backed
<1>1. /\ IsFiniteSet(K) /\ IsFiniteSet(W) /\ h \in [K -> Nat] /\ total \in Nat
      /\ \A j \in K : base[j] \in Nat
      /\ \A v \in Workers : /\ bring[v] \in Nat /\ bring2[v] \in Nat
                            /\ \A j \in K : val[v][j] \in Nat /\ val2[v][j] \in Nat
  BY WorkersFinite DEF Claim, Quantities
<1>2. PICK a \in Int, b \in Int, c \in Int :
        /\ a = SumFunctionOnSet(h, K) /\ b = SumFunctionOnSet(bring, W)
        /\ c = SumFunctionOnSet(bring2, W)
  BY <1>1, SumInt
<1>3. CASE w \notin W
  <2>1. Claim(h, K, base, val, W)
    <3> SUFFICES ASSUME NEW j \in K PROVE h[j] <= base[j] \/ \E v \in W : h[j] <= val[v][j]
      BY DEF Claim
    <3> QED
      BY <1>3 DEF Claim
  <2>2. a <= total + b
    BY <1>2, <2>1 DEF Backed
  <2>3. b = c
    BY <1>1, <1>2, <1>3, SumAgree
  <2> QED
    BY <1>2, <2>2, <2>3
<1>4. CASE w \in W
  <2>1. c = b + n
    <3>1. \A v \in W : bring[v] \in Int /\ bring2[v] \in Int
      BY <1>1
    <3>2. c = b - bring[w] + bring2[w]
      BY <1>1, <1>2, <1>4, <3>1, SumUpdate
    <3> QED
      BY <1>1, <1>2, <3>2
  <2>2. PICK g : g = [j \in K |-> IF j # k THEN h[j] ELSE IF h[j] >= n THEN h[j] - n ELSE 0]
    OBVIOUS
  <2>3. Claim(g, K, base, val, W)
    <3>1. g \in [K -> Nat]
      BY <1>1, <2>2
    <3> SUFFICES ASSUME NEW j \in K PROVE g[j] <= base[j] \/ \E v \in W : g[j] <= val[v][j]
      BY <3>1 DEF Claim
    <3>2. PICK x \in Nat, y \in Nat : x = h[j] /\ y = g[j]
      BY <1>1, <3>1
    <3>3. y = IF j # k THEN x ELSE IF x >= n THEN x - n ELSE 0
      BY <2>2, <3>2
    <3>4. y <= x
      BY <3>3
    <3>5. CASE x <= base[j]
      BY <1>1, <3>2, <3>4, <3>5
    <3>6. ASSUME NEW v \in W \ {w}, x <= val2[v][j] PROVE y <= val[v][j]
      <4>1. val2[v][j] = val[v][j] /\ val[v][j] \in Nat
        BY <1>1
      <4> QED
        BY <3>4, <3>6, <4>1
    <3>7. CASE x <= val2[w][j]
      <4>1. PICK m \in Nat, e \in Nat, d \in Nat : m = val2[w][j] /\ e = val[w][j] /\ d = base[j]
        BY <1>1
      <4>2. IF j = k THEN m <= d + n \/ m <= e + n ELSE m <= d \/ m <= e
        BY <4>1
      <4>3. y <= d \/ y <= e
        BY <3>3, <3>7, <4>1, <4>2
      <4> QED
        BY <1>4, <3>2, <4>1, <4>3
    <3> QED
      BY <3>2, <3>5, <3>6, <3>7 DEF Claim
  <2>4. g \in [K -> Nat]
    BY <2>3 DEF Claim
  <2>5. PICK d \in Int : d = SumFunctionOnSet(g, K)
    BY <1>1, <2>4, SumInt
  <2>6. d <= total + b
    BY <1>2, <2>3, <2>5 DEF Backed
  <2>7. a <= d + n
    <3>1. CASE k \in K
      <4>1. \A j \in K : g[j] \in Int /\ h[j] \in Int
        BY <1>1, <2>4
      <4>2. \A j \in K \ {k} : g[j] = h[j]
        BY <2>2
      <4>3. a = d - g[k] + h[k]
        BY <1>1, <1>2, <2>5, <3>1, <4>1, <4>2, SumUpdate
      <4>4. PICK x \in Nat, y \in Nat : x = h[k] /\ y = g[k]
        BY <1>1, <2>4, <3>1
      <4>5. y = IF x >= n THEN x - n ELSE 0
        BY <2>2, <3>1, <4>4
      <4> QED
        BY <4>3, <4>4, <4>5
    <3>2. CASE k \notin K
      <4>1. \A j \in K : g[j] = h[j]
        BY <2>2, <3>2
      <4>2. a = d
        BY <1>1, <1>2, <2>5, <4>1, SumAgree
      <4> QED
        BY <4>2
    <3> QED
      BY <3>1, <3>2
  <2> QED
    BY <1>1, <1>2, <2>1, <2>5, <2>6, <2>7
<1> QED
  BY <1>3, <1>4

\* A request forgets what it knows and added.
LEMMA BackedDrop ==
  ASSUME NEW K, NEW base, NEW val, NEW bring, NEW total,
         Quantities(K, base, val, bring, total), Backed(K, base, val, bring, total),
         NEW val2, NEW bring2, Quantities(K, base, val2, bring2, total),
         NEW w \in Workers,
         Alone(K, val, bring, val2, bring2, w),
         \A j \in K : val2[w][j] <= base[j]
  PROVE  Backed(K, base, val2, bring2, total)
<1> USE DEF Alone
<1> SUFFICES ASSUME NEW W \in SUBSET Workers, NEW h, Claim(h, K, base, val2, W)
             PROVE  SumFunctionOnSet(h, K) <= total + SumFunctionOnSet(bring2, W)
  BY DEF Backed
<1>1. PICK V : V = W \ {w}
  OBVIOUS
<1>2. /\ V \in SUBSET Workers /\ IsFiniteSet(V) /\ IsFiniteSet(W) /\ IsFiniteSet(K)
      /\ h \in [K -> Nat] /\ total \in Nat
      /\ \A v \in Workers : bring2[v] \in Nat /\ bring[v] \in Nat
  BY <1>1, WorkersFinite DEF Claim, Quantities
<1>3. Claim(h, K, base, val, V)
  <2> SUFFICES ASSUME NEW j \in K PROVE h[j] <= base[j] \/ \E v \in V : h[j] <= val[v][j]
    BY <1>2 DEF Claim
  <2>1. h[j] \in Nat /\ base[j] \in Nat /\ val2[w][j] \in Nat /\ val2[w][j] <= base[j]
    BY <1>2 DEF Quantities
  <2>2. h[j] <= val2[w][j] => h[j] <= base[j]
    BY <2>1
  <2> QED
    BY <1>1, <2>2 DEF Claim
<1>4. PICK a \in Int, b \in Int, c \in Int, d \in Int :
        /\ a = SumFunctionOnSet(h, K) /\ b = SumFunctionOnSet(bring, V)
        /\ c = SumFunctionOnSet(bring2, W) /\ d = SumFunctionOnSet(bring2, V)
  BY <1>2, SumInt
<1>5. a <= total + b
  BY <1>2, <1>3, <1>4 DEF Backed
<1>6. b = d
  BY <1>1, <1>2, <1>4, SumAgree
<1>7. d <= c
  <2>1. CASE w \in W
    <3>1. c = bring2[w] + d
      BY <1>1, <1>2, <1>4, <2>1, SumRemove
    <3> QED
      BY <1>2, <1>4, <3>1
  <2>2. CASE w \notin W
    <3>1. V = W
      BY <1>1, <2>2
    <3> QED
      BY <1>4, <3>1
  <2> QED
    BY <2>1, <2>2
<1> QED
  BY <1>2, <1>4, <1>5, <1>6, <1>7

\* A request commits what it wrote and what it added.
LEMMA BackedCommit ==
  ASSUME NEW K, NEW base, NEW val, NEW bring, NEW total,
         Quantities(K, base, val, bring, total), Backed(K, base, val, bring, total),
         NEW base2, NEW val2, NEW bring2, NEW total2, Quantities(K, base2, val2, bring2, total2),
         NEW w \in Workers,
         Alone(K, val, bring, val2, bring2, w),
         \A j \in K : base2[j] <= base[j] \/ base2[j] <= val[w][j],
         \A j \in K : val2[w][j] = 0,
         total2 = total + bring[w]
  PROVE  Backed(K, base2, val2, bring2, total2)
<1> USE DEF Alone
<1> SUFFICES ASSUME NEW W \in SUBSET Workers, NEW h, Claim(h, K, base2, val2, W)
             PROVE  SumFunctionOnSet(h, K) <= total2 + SumFunctionOnSet(bring2, W)
  BY DEF Backed
<1>1. PICK V, U : V = W \cup {w} /\ U = W \ {w}
  OBVIOUS
<1>2. /\ V \in SUBSET Workers /\ U \in SUBSET Workers /\ IsFiniteSet(V) /\ IsFiniteSet(U)
      /\ IsFiniteSet(W) /\ IsFiniteSet(K) /\ h \in [K -> Nat] /\ total \in Nat
      /\ \A v \in Workers : bring2[v] \in Nat /\ bring[v] \in Nat
  BY <1>1, WorkersFinite DEF Claim, Quantities
<1>3. Claim(h, K, base, val, V)
  <2> SUFFICES ASSUME NEW j \in K PROVE h[j] <= base[j] \/ \E v \in V : h[j] <= val[v][j]
    BY <1>2 DEF Claim
  <2>1. /\ h[j] \in Nat /\ base[j] \in Nat /\ base2[j] \in Nat /\ val[w][j] \in Nat
        /\ val2[w][j] = 0 /\ (base2[j] <= base[j] \/ base2[j] <= val[w][j])
    BY <1>2 DEF Quantities
  <2>2. h[j] <= val2[w][j] => h[j] <= base[j]
    BY <2>1
  <2>3. w \in V /\ \A v \in W \ {w} : v \in V /\ val2[v][j] = val[v][j]
    BY <1>1
  <2>4. h[j] <= base2[j] => h[j] <= base[j] \/ h[j] <= val[w][j]
    BY <2>1
  <2> QED
    BY <2>2, <2>3, <2>4 DEF Claim
<1>4. PICK a \in Int, b \in Int, c \in Int, d \in Int, e \in Int :
        /\ a = SumFunctionOnSet(h, K) /\ b = SumFunctionOnSet(bring, V)
        /\ c = SumFunctionOnSet(bring2, W) /\ d = SumFunctionOnSet(bring2, U)
        /\ e = SumFunctionOnSet(bring, U)
  <2>1. /\ \A k \in K : h[k] \in Int
        /\ \A v \in V : bring[v] \in Int
        /\ \A v \in W : bring2[v] \in Int
        /\ \A v \in U : bring[v] \in Int /\ bring2[v] \in Int
    BY <1>1, <1>2
  <2>2. SumFunctionOnSet(h, K) \in Int /\ SumFunctionOnSet(bring, V) \in Int
    BY <1>2, <2>1, SumInt
  <2>3. SumFunctionOnSet(bring2, W) \in Int /\ SumFunctionOnSet(bring2, U) \in Int
    BY <1>2, <2>1, SumInt
  <2>4. SumFunctionOnSet(bring, U) \in Int
    BY <1>2, <2>1, SumInt
  <2> QED
    BY <2>2, <2>3, <2>4
<1>5. a <= total + b
  BY <1>2, <1>3, <1>4 DEF Backed
<1>6. b = bring[w] + e
  <2>1. w \in V /\ U = V \ {w} /\ \A v \in V : bring[v] \in Int
    BY <1>1, <1>2
  <2>2. SumFunctionOnSet(bring, V) = bring[w] + SumFunctionOnSet(bring, V \ {w})
    BY <1>2, <2>1, SumRemove
  <2> QED
    BY <1>4, <2>1, <2>2
<1>7. d = e
  BY <1>1, <1>2, <1>4, SumAgree
<1>8. d <= c
  <2>1. CASE w \in W
    <3>1. c = bring2[w] + d
      BY <1>1, <1>2, <1>4, <2>1, SumRemove
    <3> QED
      BY <1>2, <1>4, <3>1
  <2>2. CASE w \notin W
    <3>1. U = W
      BY <1>1, <2>2
    <3> QED
      BY <1>4, <3>1
  <2> QED
    BY <2>1, <2>2
<1> QED
  BY <1>2, <1>4, <1>5, <1>6, <1>7, <1>8

-----------------------------------------------------------------------------
(***************************************************************************)
(* The stock rows of a cell as such a table, with the movements into it.   *)
(***************************************************************************)
\* What the locals t of a request at statement c know of the row s of cell x.
Holds(c, t, x, s) ==
  IF /\ c = "store" /\ <<ProductOf[t.items[t.k].line], t.loc>> = x
     /\ t.slot = s /\ t.qty > t.put[x][s]
  THEN t.qty ELSE t.put[x][s]

StockView(x) == [w \in Workers |-> [s \in Workers |-> Holds(pc[w], tx[w], x, s)]]
Moves(x)     == [w \in Workers |-> tx[w].move[x]]

StockQuantities ==
  \A x \in Cells : Quantities(Workers, stock[x], StockView(x), Moves(x), MovedInto(x))
StockLedger ==
  \A x \in Cells : Backed(Workers, stock[x], StockView(x), Moves(x), MovedInto(x))

LEMMA StockTyped == TInv => StockQuantities
<1> SUFFICES ASSUME TInv, NEW x \in Cells
    PROVE  Quantities(Workers, stock[x], StockView(x), Moves(x), MovedInto(x))
  BY DEF StockQuantities
<1>1. TypeOK
  BY DEF TInv
<1>2. IsFiniteSet(Workers) /\ \A s \in Workers : stock[x][s] \in Nat
  BY <1>1, ReceivingAssumption DEF TypeOK
<1>3. ASSUME NEW w \in Workers PROVE Moves(x)[w] \in Nat /\ \A s \in Workers : StockView(x)[w][s] \in Nat
  BY <1>1, TxTypes DEF Moves, StockView, Holds
<1>4. MovedInto(x) \in Nat
  <2>1. PICK f : f = [r \in Receipts |-> moved[r][x]]
    OBVIOUS
  <2>2. IsFiniteSet(Receipts) /\ \A r \in Receipts : f[r] \in Nat
    BY <1>1, <2>1, ReceivingAssumption DEF TypeOK
  <2>3. MovedInto(x) = SumFunctionOnSet(f, Receipts)
    BY <2>1 DEF MovedInto
  <2> QED
    BY <2>2, <2>3, SumNat
<1> QED
  BY <1>2, <1>3, <1>4 DEF Quantities

\* With the locals t, w learns rows that are there and adds n to the row k of cell c.
Puts(w, next, t, c, k, n) ==
  /\ \A x \in Cells : \A s \in Workers :
       LET m == IF x = c /\ s = k THEN n ELSE 0
       IN  \/ Holds(next, t, x, s) <= stock[x][s] + m
           \/ Holds(next, t, x, s) <= Holds(pc[w], tx[w], x, s) + m
  /\ \A x \in Cells : t.move[x] = tx[w].move[x] + IF x = c THEN n ELSE 0

LEMMA StockAdd ==
  ASSUME TInv, TInv', StockLedger, NEW w \in Workers, NEW next, NEW t, Goto(w, next, t),
         stock' = stock, moved' = moved, NEW c, NEW k, NEW n \in Nat,
         Puts(w, next, t, c, k, n)
  PROVE  StockLedger'
<1> USE DEF Puts
<1> SUFFICES ASSUME NEW x \in Cells
    PROVE  Backed(Workers, stock[x], StockView(x)', Moves(x)', MovedInto(x))
  BY DEF StockLedger, MovedInto
<1>1. /\ pc'[w] = next /\ tx'[w] = t
      /\ \A v \in Workers \ {w} : pc'[v] = pc[v] /\ tx'[v] = tx[v]
  BY GotoAt DEF TInv
<1>2. StockQuantities /\ StockQuantities'
  BY StockTyped, PTL
<1>3. Quantities(Workers, stock[x], StockView(x), Moves(x), MovedInto(x))
  BY <1>2 DEF StockQuantities
<1>4. Quantities(Workers, stock[x], StockView(x)', Moves(x)', MovedInto(x))
  BY <1>2 DEF StockQuantities, MovedInto
<1>5. Backed(Workers, stock[x], StockView(x), Moves(x), MovedInto(x))
  BY DEF StockLedger
<1>6. ASSUME NEW v \in Workers \ {w}
      PROVE  Moves(x)'[v] = Moves(x)[v] /\ \A s \in Workers : StockView(x)'[v][s] = StockView(x)[v][s]
  BY <1>1 DEF Moves, StockView, Holds
<1>7. PICK m \in Nat : m = IF x = c THEN n ELSE 0
  OBVIOUS
<1>8. /\ \A s \in Workers : /\ StockView(x)[w][s] = Holds(pc[w], tx[w], x, s)
                            /\ StockView(x)'[w][s] = Holds(next, t, x, s)
      /\ Moves(x)[w] = tx[w].move[x] /\ Moves(x)'[w] = t.move[x]
  BY <1>1 DEF Moves, StockView, Holds
<1>9. Moves(x)'[w] = Moves(x)[w] + m
  BY <1>7, <1>8
<1>10. ASSUME NEW s \in Workers
       PROVE  LET d == IF s = k THEN m ELSE 0
              IN  \/ StockView(x)'[w][s] <= stock[x][s] + d
                  \/ StockView(x)'[w][s] <= StockView(x)[w][s] + d
  <2>1. CASE s = k
    BY <1>7, <1>8, <2>1
  <2>2. CASE s # k
    BY <1>8, <2>2
  <2> QED
    BY <2>1, <2>2
<1>11. \A s \in Workers : stock[x][s] \in Nat /\ StockView(x)[w][s] \in Nat
  BY <1>3 DEF Quantities
<1>12. \A s \in Workers \ {k} : \/ StockView(x)'[w][s] <= stock[x][s]
                                \/ StockView(x)'[w][s] <= StockView(x)[w][s]
  BY <1>10, <1>11
<1>13. k \in Workers => \/ StockView(x)'[w][k] <= stock[x][k] + m
                        \/ StockView(x)'[w][k] <= StockView(x)[w][k] + m
  BY <1>10
<1>14. PICK val, val2, bring, bring2 :
         /\ val = StockView(x) /\ val2 = StockView(x)'
         /\ bring = Moves(x) /\ bring2 = Moves(x)'
  OBVIOUS
<1>15. Alone(Workers, val, bring, val2, bring2, w) /\ bring2[w] = bring[w] + m
  BY <1>6, <1>9, <1>14 DEF Alone
<1>16. Learns(Workers, stock[x], val, val2, w, k, m)
  BY <1>12, <1>13, <1>14 DEF Learns
<1>17. Backed(Workers, stock[x], val2, bring2, MovedInto(x))
  BY <1>3, <1>4, <1>5, <1>14, <1>15, <1>16, BackedAdd
<1> QED
  BY <1>14, <1>17

\* A request begins, or ends without a commit of stock.
LEMMA StockDrop ==
  ASSUME TInv, TInv', StockLedger, NEW w \in Workers, NEW next, NEW t, Goto(w, next, t),
         stock' = stock, moved' = moved, next # "store", t.put = NoStock
  PROVE  StockLedger'
<1> SUFFICES ASSUME NEW x \in Cells
    PROVE  Backed(Workers, stock[x], StockView(x)', Moves(x)', MovedInto(x))
  BY DEF StockLedger, MovedInto
<1>1. /\ pc'[w] = next /\ tx'[w] = t
      /\ \A v \in Workers \ {w} : pc'[v] = pc[v] /\ tx'[v] = tx[v]
  BY GotoAt DEF TInv
<1>2. StockQuantities /\ StockQuantities'
  BY StockTyped, PTL
<1>3. PICK val, val2, bring, bring2 :
         /\ val = StockView(x) /\ val2 = StockView(x)'
         /\ bring = Moves(x) /\ bring2 = Moves(x)'
  OBVIOUS
<1>4. /\ Quantities(Workers, stock[x], val, bring, MovedInto(x))
      /\ Quantities(Workers, stock[x], val2, bring2, MovedInto(x))
  BY <1>2, <1>3 DEF StockQuantities, MovedInto
<1>5. Backed(Workers, stock[x], val, bring, MovedInto(x))
  BY <1>3 DEF StockLedger
<1>6. Alone(Workers, val, bring, val2, bring2, w)
  BY <1>1, <1>3 DEF Alone, Moves, StockView, Holds
<1>7. \A s \in Workers : val2[w][s] = 0
  BY <1>1, <1>3 DEF StockView, Holds, NoStock
<1>8. \A s \in Workers : val2[w][s] <= stock[x][s]
  BY <1>4, <1>7 DEF Quantities
<1>9. Backed(Workers, stock[x], val2, bring2, MovedInto(x))
  BY <1>4, <1>5, <1>6, <1>8, BackedDrop
<1> QED
  BY <1>3, <1>9

LEMMA StockCommit == ASSUME TInv, TInv', StockLedger, NEW w \in Workers, Commit(w) PROVE StockLedger'
<1>0. PICK r \in Receipts :
        /\ pc[w] = "commit" /\ r = tx[w].receipt /\ Goto(w, "idle", NoTx(w))
        /\ UNCHANGED <<present, met>> /\ RowTypes'
        /\ status' = [status EXCEPT ![r] = tx[w].next]
        /\ \A ln \in Lines : received'[ln] = ReceivedIn(w, ln)
        /\ \A c \in Cells : \A s \in Workers : stock'[c][s] = StockIn(w, c, s)
        /\ \A c \in Cells : moved'[r][c] = moved[r][c] + tx[w].move[c]
        /\ \A q \in Receipts \ {r} : moved'[q] = moved[q]
  BY CommitEffect
<1> SUFFICES ASSUME NEW x \in Cells
    PROVE  Backed(Workers, stock'[x], StockView(x)', Moves(x)', MovedInto(x)')
  BY DEF StockLedger
<1>1. /\ pc'[w] = "idle" /\ tx'[w] = NoTx(w)
      /\ \A v \in Workers \ {w} : pc'[v] = pc[v] /\ tx'[v] = tx[v]
  BY <1>0, GotoAt DEF TInv
<1>2. StockQuantities /\ StockQuantities'
  BY StockTyped, PTL
<1>3. PICK val, val2, bring, bring2, total, total2 :
         /\ val = StockView(x) /\ val2 = StockView(x)'
         /\ bring = Moves(x) /\ bring2 = Moves(x)'
         /\ total = MovedInto(x) /\ total2 = MovedInto(x)'
  OBVIOUS
<1>4. /\ Quantities(Workers, stock[x], val, bring, total)
      /\ Quantities(Workers, stock'[x], val2, bring2, total2)
  BY <1>2, <1>3 DEF StockQuantities
<1>5. Backed(Workers, stock[x], val, bring, total)
  BY <1>3 DEF StockLedger
<1>6. Alone(Workers, val, bring, val2, bring2, w)
  BY <1>1, <1>3 DEF Alone, Moves, StockView, Holds
<1>7. \A s \in Workers : val2[w][s] = 0
  BY <1>1, <1>3, NoTxType DEF StockView, Holds, NoStock
<1>8. \A s \in Workers : stock'[x][s] <= stock[x][s] \/ stock'[x][s] <= val[w][s]
  <2> SUFFICES ASSUME NEW s \in Workers
      PROVE  stock'[x][s] <= stock[x][s] \/ stock'[x][s] <= val[w][s]
    OBVIOUS
  <2>1. val[w][s] = tx[w].put[x][s]
    BY <1>0, <1>3 DEF StockView, Holds
  <2>2. stock[x][s] \in Nat /\ val[w][s] \in Nat
    BY <1>4 DEF Quantities
  <2>3. stock'[x][s] = IF tx[w].put[x][s] > 0 THEN tx[w].put[x][s] ELSE stock[x][s]
    BY <1>0 DEF StockIn
  <2> QED
    BY <2>1, <2>2, <2>3
<1>9. total2 = total + bring[w]
  <2>1. PICK f, g : f = [q \in Receipts |-> moved[q][x]] /\ g = [q \in Receipts |-> moved'[q][x]]
    OBVIOUS
  <2>2. \A q \in Receipts : f[q] \in Int /\ g[q] \in Int
    BY <1>0, <2>1 DEF TInv, TypeOK, RowTypes
  <2>3. \A q \in Receipts \ {r} : f[q] = g[q]
    BY <1>0, <2>1
  <2>4. total = SumFunctionOnSet(f, Receipts) /\ total2 = SumFunctionOnSet(g, Receipts)
    BY <1>3, <2>1 DEF MovedInto
  <2>5. IsFiniteSet(Receipts)
    BY ReceivingAssumption
  <2>6. SumFunctionOnSet(g, Receipts) = SumFunctionOnSet(f, Receipts) - f[r] + g[r]
    BY <2>2, <2>3, <2>5, SumUpdate
  <2>7. g[r] = f[r] + bring[w] /\ bring[w] \in Nat
    BY <1>0, <1>3, <1>4, <2>1 DEF Moves, Quantities
  <2>8. f[r] \in Int /\ total \in Nat
    BY <1>4, <2>2 DEF Quantities
  <2> QED
    BY <2>4, <2>6, <2>7, <2>8
<1>10. Backed(Workers, stock'[x], val2, bring2, total2)
  BY <1>4, <1>5, <1>6, <1>7, <1>8, <1>9, BackedCommit
<1> QED
  BY <1>3, <1>10

\* A statement that neither reads nor writes a stock row.
LEMMA StockSame ==
  ASSUME TInv, TInv', StockLedger, NEW w \in Workers, NEW next, NEW t, Goto(w, next, t),
         UNCHANGED <<rows, met>>, next # "store", t.put = tx[w].put, t.move = tx[w].move
  PROVE  StockLedger'
<1>1. stock' = stock /\ moved' = moved
  BY DEF rows
<1>2. TypeOK
  BY DEF TInv
<1>3. ASSUME NEW x \in Cells, NEW s \in Workers
      PROVE  /\ Holds(next, t, x, s) <= Holds(pc[w], tx[w], x, s)
             /\ Holds(next, t, x, s) \in Nat /\ Holds(pc[w], tx[w], x, s) \in Nat
             /\ stock[x][s] \in Nat /\ tx[w].move[x] \in Nat
  <2>1. /\ tx[w].put[x][s] \in Nat /\ tx[w].qty \in Nat
        /\ stock[x][s] \in Nat /\ tx[w].move[x] \in Nat
    BY <1>2, TxTypes DEF TypeOK
  <2>2. Holds(next, t, x, s) = tx[w].put[x][s]
    BY DEF Holds
  <2> QED
    BY <2>1, <2>2 DEF Holds
<1>4. \A x \in Cells : \A s \in Workers :
         LET m == IF x = w /\ s = w THEN 0 ELSE 0
         IN  \/ Holds(next, t, x, s) <= stock[x][s] + m
             \/ Holds(next, t, x, s) <= Holds(pc[w], tx[w], x, s) + m
  BY <1>3
<1>5. \A x \in Cells : t.move[x] = tx[w].move[x] + IF x = w THEN 0 ELSE 0
  BY <1>2, TxTypes
<1>6. Puts(w, next, t, w, w, 0)
  BY <1>4, <1>5 DEF Puts
<1> QED
  BY <1>1, <1>6, StockAdd

\* What FindStock reads of a row is what w wrote there or what the row holds.
LEMMA FindStockLedger ==
  ASSUME IInv, TInv, TInv', StockLedger, NEW w \in Workers, FindStock(w) PROVE StockLedger'
<1>1. PICK t \in Tx :
        /\ pc[w] = "find" /\ Goto(w, "store", t) /\ UNCHANGED <<rows, met>>
        /\ t.qty = StockIn(w, Cell(w), t.slot)
        /\ t.loc = tx[w].loc /\ t.put = tx[w].put /\ t.move = tx[w].move
        /\ t.items = tx[w].items /\ t.k = tx[w].k
  BY FindStockEffect
<1>2. stock' = stock /\ moved' = moved /\ TypeOK
  BY <1>1 DEF rows, TInv
<1>3. ASSUME NEW x \in Cells, NEW s \in Workers
      PROVE  \/ Holds("store", t, x, s) <= stock[x][s] + 0
             \/ Holds("store", t, x, s) <= Holds(pc[w], tx[w], x, s) + 0
  <2>1. tx[w].put[x][s] \in Nat /\ stock[x][s] \in Nat
    BY <1>2, TxTypes DEF TypeOK
  <2>2. Holds(pc[w], tx[w], x, s) = tx[w].put[x][s]
    BY <1>1 DEF Holds
  <2>3. <<ProductOf[t.items[t.k].line], t.loc>> = Cell(w)
    BY <1>1 DEF Cell, Current
  <2>4. \/ Holds("store", t, x, s) = tx[w].put[x][s]
        \/ t.slot = s /\ x = Cell(w) /\ Holds("store", t, x, s) = t.qty
    BY <1>1, <2>3 DEF Holds
  <2>5. \/ Holds("store", t, x, s) = tx[w].put[x][s]
        \/ Holds("store", t, x, s) = stock[x][s]
    BY <1>1, <2>4 DEF StockIn
  <2> QED
    BY <2>1, <2>2, <2>5
<1>4. \A x \in Cells : \A s \in Workers :
         LET m == IF x = w /\ s = w THEN 0 ELSE 0
         IN  \/ Holds("store", t, x, s) <= stock[x][s] + m
             \/ Holds("store", t, x, s) <= Holds(pc[w], tx[w], x, s) + m
  BY <1>3
<1>5. \A x \in Cells : t.move[x] = tx[w].move[x] + IF x = w THEN 0 ELSE 0
  BY <1>1, <1>2, TxTypes
<1>6. Puts(w, "store", t, w, w, 0)
  BY <1>4, <1>5 DEF Puts
<1> QED
  BY <1>1, <1>2, <1>6, StockAdd

\* StoreStock adds to a row it knows the very quantity it adds to the movements.
LEMMA StoreStockLedger ==
  ASSUME IInv, TInv, TInv', StockLedger, NEW w \in Workers, StoreStock(w) PROVE StockLedger'
<1>0. PICK t \in Tx, next \in {"update", "judge"}, c \in Cells, k \in Workers, n \in Nat \ {0} :
        Stored(w, next, t, c, k, n)
  BY StoreStockEffect
<1>1. /\ pc[w] = "store" /\ Goto(w, next, t) /\ UNCHANGED <<rows, met>> /\ next # "store"
      /\ c = Cell(w) /\ k = tx[w].slot
      /\ t.put = [tx[w].put EXCEPT ![c][k] = tx[w].qty + n]
      /\ t.move = [tx[w].move EXCEPT ![c] = @ + n]
  BY <1>0 DEF Stored
<1>2. stock' = stock /\ moved' = moved /\ TypeOK
  BY <1>1 DEF rows, TInv
<1>3. /\ tx[w].put \in [Cells -> [Workers -> Nat]] /\ tx[w].move \in [Cells -> Nat]
      /\ tx[w].qty \in Nat /\ stock \in [Cells -> [Workers -> Nat]]
  BY <1>2, TxTypes DEF TypeOK
<1>4. ASSUME NEW x \in Cells, NEW s \in Workers
      PROVE  Holds(next, t, x, s) <= Holds(pc[w], tx[w], x, s) + IF x = c /\ s = k THEN n ELSE 0
  <2>1. Holds(next, t, x, s) = t.put[x][s]
    BY <1>1 DEF Holds
  <2>2. CASE x = c /\ s = k
    <3>1. t.put[x][s] = tx[w].qty + n
      BY <1>1, <1>3, <2>2
    <3>2. <<ProductOf[tx[w].items[tx[w].k].line], tx[w].loc>> = x
      BY <1>1, <2>2 DEF Cell, Current
    <3>3. Holds(pc[w], tx[w], x, s) = IF tx[w].qty > tx[w].put[x][s] THEN tx[w].qty ELSE tx[w].put[x][s]
      BY <1>1, <2>2, <3>2 DEF Holds
    <3>4. tx[w].put[x][s] \in Nat
      BY <1>3
    <3>5. tx[w].qty <= Holds(pc[w], tx[w], x, s) /\ Holds(pc[w], tx[w], x, s) \in Nat
      BY <1>3, <3>3, <3>4
    <3> QED
      BY <1>3, <2>1, <2>2, <3>1, <3>5
  <2>3. CASE ~ (x = c /\ s = k)
    <3>1. t.put[x][s] = tx[w].put[x][s] /\ tx[w].put[x][s] \in Nat
      BY <1>1, <1>3, <2>3
    <3>2. Holds(pc[w], tx[w], x, s) = tx[w].put[x][s]
      BY <1>1, <2>3 DEF Holds, Cell, Current
    <3> QED
      BY <2>1, <2>3, <3>1, <3>2
  <2> QED
    BY <2>2, <2>3
<1>5. \A x \in Cells : \A s \in Workers :
         LET m == IF x = c /\ s = k THEN n ELSE 0
         IN  \/ Holds(next, t, x, s) <= stock[x][s] + m
             \/ Holds(next, t, x, s) <= Holds(pc[w], tx[w], x, s) + m
  BY <1>4
<1>6. \A x \in Cells : t.move[x] = tx[w].move[x] + IF x = c THEN n ELSE 0
  BY <1>1, <1>3
<1>7. n \in Nat
  OBVIOUS
<1>8. Puts(w, next, t, c, k, n)
  BY <1>5, <1>6 DEF Puts
<1> QED
  BY <1>1, <1>2, <1>7, <1>8, StockAdd

LEMMA SameStockLedger ==
  ASSUME TInv, TInv', StockLedger, stock' = stock, moved' = moved, pc' = pc, tx' = tx
  PROVE  StockLedger'
<1>1. \A x \in Cells : /\ StockView(x)' = StockView(x) /\ Moves(x)' = Moves(x)
                       /\ MovedInto(x)' = MovedInto(x)
  BY DEF StockView, Moves, MovedInto, Holds
<1> QED
  BY <1>1 DEF StockLedger

LEMMA NextStockLedger == IInv /\ TInv /\ StockLedger /\ [Next]_vars => StockLedger'
<1> SUFFICES ASSUME IInv, TInv, StockLedger, [Next]_vars PROVE StockLedger'
  OBVIOUS
<1>0. TInv' /\ TypeOK
  BY NextTypes DEF TInv
<1>1. CASE UNCHANGED vars \/ \E r \in Receipts : CreateReceipt(r)
  BY <1>0, <1>1, SameStockLedger DEF vars, rows, CreateReceipt
<1>2. ASSUME NEW w \in Workers,
             \/ InsertLine(w) \/ RefuseReceipt(w) \/ RefuseLine(w) \/ Fail(w) \/ Close(w)
      PROVE  StockLedger'
  <2>1. Goto(w, "idle", NoTx(w)) /\ stock' = stock /\ moved' = moved
    BY <1>0, <1>2, QuitEffect DEF InsertLine, Close, rows
  <2> QED
    BY <1>0, <2>1, NoTxType, StockDrop
<1>3. ASSUME NEW w \in Workers, ReadLines(w) PROVE StockLedger'
  <2>1. PICK t \in Tx : /\ Goto(w, "update", t) /\ UNCHANGED <<rows, met>>
                        /\ t.put = tx[w].put /\ t.move = tx[w].move
    BY <1>0, <1>3, ReadLinesEffect
  <2> QED
    BY <1>0, <2>1, StockSame
<1>4. ASSUME NEW w \in Workers, UpdateLine(w) PROVE StockLedger'
  <2>1. PICK t \in Tx : /\ Goto(w, "find", t) /\ UNCHANGED <<rows, met>>
                        /\ t.put = tx[w].put /\ t.move = tx[w].move
    BY <1>4, UpdateLineEffect
  <2> QED
    BY <1>0, <2>1, StockSame
<1>5. ASSUME NEW w \in Workers, Judge(w) PROVE StockLedger'
  <2>1. PICK t \in Tx : /\ Goto(w, "commit", t) /\ UNCHANGED <<rows, met>>
                        /\ t.put = tx[w].put /\ t.move = tx[w].move
    BY <1>0, <1>5, JudgeEffect
  <2> QED
    BY <1>0, <2>1, StockSame
<1>6. ASSUME NEW w \in Workers, ReadPending(w) PROVE StockLedger'
  <2>1. /\ UNCHANGED <<rows, met>> /\ stock' = stock /\ moved' = moved
        /\ Goto(w, "idle", NoTx(w)) \/ Goto(w, "close", tx[w])
    BY <1>0, <1>6, ReadPendingEffect DEF rows
  <2>2. CASE Goto(w, "idle", NoTx(w))
    BY <1>0, <2>1, <2>2, NoTxType, StockDrop
  <2>3. CASE Goto(w, "close", tx[w])
    <3>1. PICK t : t = tx[w]
      OBVIOUS
    <3> QED
      BY <1>0, <2>1, <2>3, <3>1, StockSame
  <2> QED
    BY <2>1, <2>2, <2>3
<1>7. ASSUME NEW w \in Workers, Statement(w) \/ Fail(w) PROVE StockLedger'
  BY <1>0, <1>2, <1>3, <1>4, <1>5, <1>6, <1>7, FindStockLedger, StoreStockLedger, StockCommit
     DEF Statement
<1>8. ASSUME NEW w \in Workers,
             \/ \E ln \in Lines : ReadForLine(w, ln)
             \/ \E r \in Receipts : CompleteReceipt(w, r)
             \/ \E r \in Receipts, loc \in Locs, asked \in Asks :
                  Confirm(w, r, loc, asked) \/ ReceiveLine(w, r, loc, asked)
      PROVE  StockLedger'
  <2>1. PICK r, next, t : Started(w, r, next, t)
    BY <1>0, <1>8, StartEffect
  <2>2. /\ Goto(w, next, t) /\ stock' = stock /\ moved' = moved /\ next # "store"
        /\ t.put = NoStock
    BY <2>1 DEF Started, rows
  <2> QED
    BY <1>0, <2>2, StockDrop
<1> QED
  BY <1>1, <1>7, <1>8 DEF Next

LEMMA InitStockLedger == Init => StockLedger
<1> SUFFICES ASSUME Init, NEW x \in Cells, NEW W \in SUBSET Workers, NEW h,
                    Claim(h, Workers, stock[x], StockView(x), W)
    PROVE  SumFunctionOnSet(h, Workers) <= MovedInto(x) + SumFunctionOnSet(Moves(x), W)
  BY DEF StockLedger, Backed
<1>1. TInv
  BY InitTypes
<1>2. Quantities(Workers, stock[x], StockView(x), Moves(x), MovedInto(x))
  BY <1>1, StockTyped DEF StockQuantities
<1>3. \A s \in Workers : stock[x][s] = 0 /\ \A w \in Workers : StockView(x)[w][s] = 0
  BY NoTxType DEF Init, NoStock, StockView, Holds
<1>4. \A s \in Workers : h[s] = 0
  BY <1>3 DEF Claim
<1>5. SumFunctionOnSet(h, Workers) = 0
  BY <1>2, <1>4, SumZero DEF Quantities
<1>6. SumFunctionOnSet(Moves(x), W) \in Nat
  BY <1>2, WorkersFinite, SumNat DEF Quantities
<1> QED
  BY <1>2, <1>5, <1>6 DEF Quantities

-----------------------------------------------------------------------------
(***************************************************************************)
(* The lines of a receipt that have a product as such a table, with the    *)
(* movements of that product for the receipt.                              *)
(***************************************************************************)
LinesFor(r, p) == {ln \in Lines : ReceiptOf[ln] = r /\ ProductOf[ln] = p}
At(p)          == {p} \X Locs

\* What the locals t of a request know of a line, as read or as it will be written.
Known(t, ln) == IF t.got[ln] > t.read[ln] THEN t.got[ln] ELSE t.read[ln]

\* What is written to a line and has no movement line yet.
Unmoved(c, t, p) ==
  IF c \in {"find", "store"} /\ ProductOf[t.items[t.k].line] = p THEN t.items[t.k].qty ELSE 0

Brings(c, t, r, p) ==
  IF t.receipt = r THEN SumFunctionOnSet(t.move, At(p)) + Unmoved(c, t, p) ELSE 0

KnownLines    == [w \in Workers |-> [ln \in Lines |-> Known(tx[w], ln)]]
Brought(r, p) == [w \in Workers |-> Brings(pc[w], tx[w], r, p)]

LineQuantities ==
  \A r \in Receipts : \A p \in Products :
    Quantities(LinesFor(r, p), received, KnownLines, Brought(r, p), MovedOf(r, p))
LineLedger ==
  \A r \in Receipts : \A p \in Products :
    Backed(LinesFor(r, p), received, KnownLines, Brought(r, p), MovedOf(r, p))

LEMMA AtFinite == \A p \in Products : IsFiniteSet(At(p)) /\ At(p) \subseteq Cells
<1> TAKE p \in Products
<1>1. IsFiniteSet(Products \X Locs)
  BY ReceivingAssumption, FS_Product
<1>2. At(p) \subseteq Cells
  BY DEF At, Cells
<1> QED
  BY <1>1, <1>2, FS_Subset DEF Cells

LEMMA BringsType ==
  ASSUME IInv, TInv, NEW w \in Workers, NEW p \in Products
  PROVE  /\ SumFunctionOnSet(tx[w].move, At(p)) \in Nat /\ Unmoved(pc[w], tx[w], p) \in Nat
         /\ \A r : Brings(pc[w], tx[w], r, p) \in Nat
<1>1. tx[w].move \in [Cells -> Nat]
  BY TxTypes DEF TInv
<1>2. \A c \in At(p) : tx[w].move[c] \in Nat
  BY <1>1, AtFinite
<1>3. SumFunctionOnSet(tx[w].move, At(p)) \in Nat
  BY <1>2, AtFinite, SumNat
<1>4. Unmoved(pc[w], tx[w], p) \in Nat
  BY ItemType DEF Unmoved, Current
<1> QED
  BY <1>3, <1>4 DEF Brings

LEMMA LinesTyped == IInv /\ TInv => LineQuantities
<1> SUFFICES ASSUME IInv, TInv, NEW r \in Receipts, NEW p \in Products
    PROVE  Quantities(LinesFor(r, p), received, KnownLines, Brought(r, p), MovedOf(r, p))
  BY DEF LineQuantities
<1>1. TypeOK
  BY DEF TInv
<1>2. IsFiniteSet(LinesFor(r, p)) /\ LinesFor(r, p) \subseteq Lines
  BY ReceivingAssumption, FS_Subset DEF LinesFor
<1>3. \A ln \in Lines : received[ln] \in Nat /\ \A w \in Workers : KnownLines[w][ln] \in Nat
  BY <1>1, TxTypes DEF TypeOK, KnownLines, Known
<1>4. \A w \in Workers : Brought(r, p)[w] \in Nat
  BY BringsType DEF Brought
<1>5. MovedOf(r, p) \in Nat
  <2>1. \A c \in At(p) : moved[r][c] \in Nat
    BY <1>1, AtFinite DEF TypeOK
  <2>2. MovedOf(r, p) = SumFunctionOnSet(moved[r], At(p))
    BY DEF MovedOf, At
  <2> QED
    BY <2>1, <2>2, AtFinite, SumNat
<1> QED
  BY <1>2, <1>3, <1>4, <1>5 DEF Quantities

\* With the locals t at next, w knows what the lines hold and n more of the line k.
Takes(w, next, t, k, n) ==
  /\ \A ln \in Lines :
       LET m == IF ln = k THEN n ELSE 0
       IN  Known(t, ln) <= received[ln] + m \/ Known(t, ln) <= Known(tx[w], ln) + m
  /\ \A r \in Receipts : \A p \in Products :
       Brings(next, t, r, p) =
         Brings(pc[w], tx[w], r, p) + IF k \in LinesFor(r, p) THEN n ELSE 0

LEMMA LineAdd ==
  ASSUME IInv, IInv', TInv, TInv', LineLedger, NEW w \in Workers, NEW next, NEW t,
         Goto(w, next, t), received' = received, moved' = moved,
         NEW k, NEW n \in Nat, Takes(w, next, t, k, n)
  PROVE  LineLedger'
<1> SUFFICES ASSUME NEW r \in Receipts, NEW p \in Products
    PROVE  Backed(LinesFor(r, p), received, KnownLines', Brought(r, p)', MovedOf(r, p))
  BY DEF LineLedger, MovedOf, LinesFor
<1>1. /\ pc'[w] = next /\ tx'[w] = t
      /\ \A v \in Workers \ {w} : pc'[v] = pc[v] /\ tx'[v] = tx[v]
  BY GotoAt DEF TInv
<1>2. LineQuantities /\ LineQuantities'
  BY LinesTyped, PTL
<1>3. PICK val, val2, bring, bring2 :
         /\ val = KnownLines /\ val2 = KnownLines'
         /\ bring = Brought(r, p) /\ bring2 = Brought(r, p)'
  OBVIOUS
<1>4. /\ Quantities(LinesFor(r, p), received, val, bring, MovedOf(r, p))
      /\ Quantities(LinesFor(r, p), received, val2, bring2, MovedOf(r, p))
  BY <1>2, <1>3 DEF LineQuantities, MovedOf, LinesFor
<1>5. Backed(LinesFor(r, p), received, val, bring, MovedOf(r, p))
  BY <1>3 DEF LineLedger
<1>6. \A v \in Workers \ {w} : \A ln \in Lines : val2[v][ln] = val[v][ln]
  BY <1>1, <1>3 DEF KnownLines, Known
<1>7. \A v \in Workers \ {w} : bring2[v] = bring[v]
  BY <1>1, <1>3 DEF Brought, Brings, Unmoved, At
<1>8. Alone(LinesFor(r, p), val, bring, val2, bring2, w)
  BY <1>6, <1>7 DEF Alone, LinesFor
<1>9. PICK m \in Nat : m = IF k \in LinesFor(r, p) THEN n ELSE 0
  OBVIOUS
<1>10. bring2[w] = bring[w] + m
  <2>1. bring2[w] = Brings(next, t, r, p)
    BY <1>1, <1>3 DEF Brought, Brings, Unmoved, At
  <2> QED
    BY <1>3, <1>9, <2>1 DEF Brought, Takes
<1>11. Learns(LinesFor(r, p), received, val, val2, w, k, m)
  <2>1. \A ln \in Lines : val[w][ln] = Known(tx[w], ln) /\ val2[w][ln] = Known(t, ln)
    BY <1>1, <1>3 DEF KnownLines, Known
  <2>2. \A ln \in LinesFor(r, p) :
           ln \in Lines /\ received[ln] \in Nat /\ val[w][ln] \in Nat
    BY <1>4 DEF Quantities, LinesFor
  <2>3. ASSUME NEW ln \in LinesFor(r, p) \ {k}
        PROVE  val2[w][ln] <= received[ln] \/ val2[w][ln] <= val[w][ln]
    BY <2>1, <2>2 DEF Takes
  <2>4. ASSUME k \in LinesFor(r, p)
        PROVE  val2[w][k] <= received[k] + m \/ val2[w][k] <= val[w][k] + m
    BY <1>9, <2>1, <2>2, <2>4 DEF Takes
  <2> QED
    BY <2>3, <2>4 DEF Learns
<1>12. Backed(LinesFor(r, p), received, val2, bring2, MovedOf(r, p))
  BY <1>4, <1>5, <1>8, <1>10, <1>11, BackedAdd
<1> QED
  BY <1>3, <1>12

LEMMA LineDrop ==
  ASSUME IInv, IInv', TInv, TInv', LineLedger, NEW w \in Workers, NEW next, NEW t,
         Goto(w, next, t), received' = received, moved' = moved,
         t.got = NoQty, t.read = NoQty
  PROVE  LineLedger'
<1> SUFFICES ASSUME NEW r \in Receipts, NEW p \in Products
    PROVE  Backed(LinesFor(r, p), received, KnownLines', Brought(r, p)', MovedOf(r, p))
  BY DEF LineLedger, MovedOf, LinesFor
<1>1. /\ pc'[w] = next /\ tx'[w] = t
      /\ \A v \in Workers \ {w} : pc'[v] = pc[v] /\ tx'[v] = tx[v]
  BY GotoAt DEF TInv
<1>2. LineQuantities /\ LineQuantities'
  BY LinesTyped, PTL
<1>3. PICK val, val2, bring, bring2 :
         /\ val = KnownLines /\ val2 = KnownLines'
         /\ bring = Brought(r, p) /\ bring2 = Brought(r, p)'
  OBVIOUS
<1>4. /\ Quantities(LinesFor(r, p), received, val, bring, MovedOf(r, p))
      /\ Quantities(LinesFor(r, p), received, val2, bring2, MovedOf(r, p))
  BY <1>2, <1>3 DEF LineQuantities, MovedOf, LinesFor
<1>5. Backed(LinesFor(r, p), received, val, bring, MovedOf(r, p))
  BY <1>3 DEF LineLedger
<1>6. \A v \in Workers \ {w} : \A ln \in Lines : val2[v][ln] = val[v][ln]
  BY <1>1, <1>3 DEF KnownLines, Known
<1>7. \A v \in Workers \ {w} : bring2[v] = bring[v]
  BY <1>1, <1>3 DEF Brought, Brings, Unmoved, At
<1>8. Alone(LinesFor(r, p), val, bring, val2, bring2, w)
  BY <1>6, <1>7 DEF Alone, LinesFor
<1>9. \A ln \in Lines : val2[w][ln] = 0
  BY <1>1, <1>3 DEF KnownLines, Known, NoQty
<1>10. \A ln \in LinesFor(r, p) : val2[w][ln] <= received[ln]
  BY <1>4, <1>9 DEF Quantities, LinesFor
<1>11. Backed(LinesFor(r, p), received, val2, bring2, MovedOf(r, p))
  BY <1>4, <1>5, <1>8, <1>10, BackedDrop
<1> QED
  BY <1>3, <1>11

LEMMA LineCommit ==
  ASSUME IInv, IInv', TInv, TInv', LineLedger, NEW w \in Workers, Commit(w) PROVE LineLedger'
<1>0. PICK q \in Receipts :
        /\ pc[w] = "commit" /\ q = tx[w].receipt /\ Goto(w, "idle", NoTx(w))
        /\ UNCHANGED <<present, met>> /\ RowTypes'
        /\ status' = [status EXCEPT ![q] = tx[w].next]
        /\ \A ln \in Lines : received'[ln] = ReceivedIn(w, ln)
        /\ \A c \in Cells : \A s \in Workers : stock'[c][s] = StockIn(w, c, s)
        /\ \A c \in Cells : moved'[q][c] = moved[q][c] + tx[w].move[c]
        /\ \A r \in Receipts \ {q} : moved'[r] = moved[r]
  BY CommitEffect
<1> SUFFICES ASSUME NEW r \in Receipts, NEW p \in Products
    PROVE  Backed(LinesFor(r, p), received', KnownLines', Brought(r, p)', MovedOf(r, p)')
  BY DEF LineLedger, LinesFor
<1>1. /\ pc'[w] = "idle" /\ tx'[w] = NoTx(w)
      /\ \A v \in Workers \ {w} : pc'[v] = pc[v] /\ tx'[v] = tx[v]
  BY <1>0, GotoAt DEF TInv
<1>2. LineQuantities /\ LineQuantities'
  BY LinesTyped, PTL
<1>3. PICK val, val2, bring, bring2, total, total2 :
         /\ val = KnownLines /\ val2 = KnownLines'
         /\ bring = Brought(r, p) /\ bring2 = Brought(r, p)'
         /\ total = MovedOf(r, p) /\ total2 = MovedOf(r, p)'
  OBVIOUS
<1>4. /\ Quantities(LinesFor(r, p), received, val, bring, total)
      /\ Quantities(LinesFor(r, p), received', val2, bring2, total2)
  BY <1>2, <1>3 DEF LineQuantities, LinesFor
<1>5. Backed(LinesFor(r, p), received, val, bring, total)
  BY <1>3 DEF LineLedger
<1>6. \A v \in Workers \ {w} : \A ln \in Lines : val2[v][ln] = val[v][ln]
  BY <1>1, <1>3 DEF KnownLines, Known
<1>7. \A v \in Workers \ {w} : bring2[v] = bring[v]
  BY <1>1, <1>3 DEF Brought, Brings, Unmoved, At
<1>8. Alone(LinesFor(r, p), val, bring, val2, bring2, w)
  BY <1>6, <1>7 DEF Alone, LinesFor
<1>9. \A ln \in LinesFor(r, p) : val2[w][ln] = 0
  BY <1>1, <1>3, NoTxType DEF KnownLines, Known, NoQty, LinesFor
<1>10. \A ln \in LinesFor(r, p) : received'[ln] <= received[ln] \/ received'[ln] <= val[w][ln]
  <2> SUFFICES ASSUME NEW ln \in LinesFor(r, p)
      PROVE  received'[ln] <= received[ln] \/ received'[ln] <= val[w][ln]
    OBVIOUS
  <2>1. ln \in Lines
    BY DEF LinesFor
  <2>2. /\ received[ln] \in Nat /\ val[w][ln] \in Nat
        /\ tx[w].got[ln] \in Nat /\ tx[w].read[ln] \in Nat
    BY <1>4, <2>1, TxTypes DEF Quantities, TInv
  <2>3. val[w][ln] = IF tx[w].got[ln] > tx[w].read[ln] THEN tx[w].got[ln] ELSE tx[w].read[ln]
    BY <1>3, <2>1 DEF KnownLines, Known
  <2>4. received'[ln] = IF tx[w].got[ln] > 0 THEN tx[w].got[ln] ELSE received[ln]
    BY <1>0, <2>1 DEF ReceivedIn
  <2> QED
    BY <2>2, <2>3, <2>4
<1>11. total2 = total + bring[w]
  <2>1. /\ total = SumFunctionOnSet(moved[r], At(p)) /\ total2 = SumFunctionOnSet(moved'[r], At(p))
    BY <1>3 DEF MovedOf, At
  <2>2. total \in Nat
    BY <1>4 DEF Quantities
  <2>3. CASE r # q
    <3>1. bring[w] = 0
      BY <1>0, <1>3, <2>3 DEF Brought, Brings
    <3>2. moved'[r] = moved[r]
      BY <1>0, <2>3
    <3> QED
      BY <2>1, <2>2, <3>1, <3>2
  <2>4. CASE r = q
    <3>1. \A c \in At(p) : /\ moved[r][c] \in Int /\ tx[w].move[c] \in Int
                           /\ moved'[r][c] = moved[r][c] + tx[w].move[c]
      BY <1>0, <2>4, AtFinite, TxTypes DEF TInv, TypeOK
    <3>2. total2 = total + SumFunctionOnSet(tx[w].move, At(p))
      BY <2>1, <3>1, AtFinite, SumPlus
    <3>3. Unmoved(pc[w], tx[w], p) = 0
      BY <1>0 DEF Unmoved
    <3>4. SumFunctionOnSet(tx[w].move, At(p)) \in Nat
      BY BringsType
    <3>5. bring[w] = SumFunctionOnSet(tx[w].move, At(p))
      BY <1>0, <1>3, <2>4, <3>3, <3>4 DEF Brought, Brings
    <3> QED
      BY <3>2, <3>5
  <2> QED
    BY <2>3, <2>4
<1>12. Backed(LinesFor(r, p), received', val2, bring2, total2)
  BY <1>4, <1>5, <1>8, <1>9, <1>10, <1>11, BackedCommit
<1> QED
  BY <1>3, <1>12

\* A statement after which w knows nothing but what it knew or the lines hold.
LEMMA LineSame ==
  ASSUME IInv, IInv', TInv, TInv', LineLedger, NEW w \in Workers, NEW next, NEW t \in Tx,
         Goto(w, next, t), UNCHANGED <<rows, met>>,
         t.got = tx[w].got, t.receipt = tx[w].receipt,
         \A ln \in Lines : t.read[ln] <= tx[w].read[ln] \/ t.read[ln] <= received[ln],
         \A p \in Products :
           SumFunctionOnSet(t.move, At(p)) + Unmoved(next, t, p)
             = SumFunctionOnSet(tx[w].move, At(p)) + Unmoved(pc[w], tx[w], p)
  PROVE  LineLedger'
<1>1. received' = received /\ moved' = moved
  BY DEF rows
<1>2. ASSUME NEW ln \in Lines
      PROVE  Known(t, ln) <= received[ln] + 0 \/ Known(t, ln) <= Known(tx[w], ln) + 0
  <2>1. PICK a \in Nat, b \in Nat, c \in Nat, d \in Nat :
          a = t.read[ln] /\ b = tx[w].read[ln] /\ c = received[ln] /\ d = tx[w].got[ln]
    BY TxTypes DEF TInv, TypeOK, Tx
  <2>2. /\ Known(t, ln) = IF d > a THEN d ELSE a
        /\ Known(tx[w], ln) = IF d > b THEN d ELSE b
    BY <2>1 DEF Known
  <2> QED
    BY <2>1, <2>2
<1>3. ASSUME NEW r \in Receipts, NEW p \in Products
      PROVE  Brings(next, t, r, p) = Brings(pc[w], tx[w], r, p) + 0
  <2>1. Brings(next, t, r, p) = Brings(pc[w], tx[w], r, p)
    BY DEF Brings
  <2>2. Brings(pc[w], tx[w], r, p) \in Nat
    BY BringsType
  <2> QED
    BY <2>1, <2>2
<1>4. Takes(w, next, t, w, 0)
  BY <1>2, <1>3 DEF Takes
<1> QED
  BY <1>1, <1>4, LineAdd

LEMMA ReadLinesLedger ==
  ASSUME IInv, IInv', TInv, TInv', LineLedger, NEW w \in Workers, ReadLines(w) PROVE LineLedger'
<1>1. PICK t \in Tx :
        /\ pc[w] = "lines" /\ Goto(w, "update", t) /\ UNCHANGED <<rows, met>>
        /\ t.receipt = tx[w].receipt /\ t.got = tx[w].got /\ t.move = tx[w].move
        /\ t.read = [ln \in Lines |-> IF ln \in LinesOf(t.receipt) THEN received[ln] ELSE 0]
  BY ReadLinesEffect DEF TInv
<1>2. \A ln \in Lines : t.read[ln] <= received[ln]
  BY <1>1 DEF TInv, TypeOK
<1>3. \A p : Unmoved("update", t, p) = 0 /\ Unmoved(pc[w], tx[w], p) = 0
  BY <1>1 DEF Unmoved
<1> QED
  BY <1>1, <1>2, <1>3, LineSame

LEMMA FindStockLines ==
  ASSUME IInv, IInv', TInv, TInv', LineLedger, NEW w \in Workers, FindStock(w) PROVE LineLedger'
<1>1. PICK t \in Tx :
        /\ pc[w] = "find" /\ Goto(w, "store", t) /\ UNCHANGED <<rows, met>>
        /\ t.receipt = tx[w].receipt /\ t.read = tx[w].read /\ t.move = tx[w].move
        /\ t.items = tx[w].items /\ t.k = tx[w].k /\ t.got = tx[w].got
  BY FindStockEffect
<1>2. \A ln \in Lines : tx[w].read[ln] \in Nat
  BY TxTypes DEF TInv
<1>3. \A ln \in Lines : t.read[ln] <= tx[w].read[ln]
  BY <1>1, <1>2
<1>4. \A p : Unmoved("store", t, p) = Unmoved(pc[w], tx[w], p)
  BY <1>1 DEF Unmoved
<1> QED
  BY <1>1, <1>3, <1>4, LineSame

LEMMA JudgeLines ==
  ASSUME IInv, IInv', TInv, TInv', LineLedger, NEW w \in Workers, Judge(w) PROVE LineLedger'
<1>1. PICK t \in Tx :
        /\ pc[w] = "judge" /\ Goto(w, "commit", t) /\ UNCHANGED <<rows, met>>
        /\ t.receipt = tx[w].receipt /\ t.read = NoQty /\ t.got = tx[w].got
        /\ t.move = tx[w].move
  BY JudgeEffect DEF TInv
<1>2. \A ln \in Lines : t.read[ln] <= received[ln]
  BY <1>1 DEF NoQty, TInv, TypeOK
<1>3. \A p : Unmoved("commit", t, p) = 0 /\ Unmoved(pc[w], tx[w], p) = 0
  BY <1>1 DEF Unmoved
<1> QED
  BY <1>1, <1>2, <1>3, LineSame

\* The quantity of the item is in the movements now.
LEMMA StoreStockMoves ==
  ASSUME IInv, TInv, NEW w \in Workers, NEW t \in Tx, NEW next, NEW c \in Cells,
         NEW k \in Workers, NEW n \in Nat \ {0}, Stored(w, next, t, c, k, n), NEW p \in Products
  PROVE  SumFunctionOnSet(t.move, At(p))
           = SumFunctionOnSet(tx[w].move, At(p)) + Unmoved(pc[w], tx[w], p)
<1>1. /\ pc[w] = "store" /\ c = Cell(w) /\ n = Current(w).qty
      /\ t.move = [tx[w].move EXCEPT ![c] = @ + n]
  BY DEF Stored
<1>2. c = <<ProductOf[Current(w).line], tx[w].loc>> /\ tx[w].loc \in Locs
  BY <1>1, ItemType, TxTypes DEF TInv
<1>3. tx[w].move \in [Cells -> Nat]
  BY TxTypes DEF TInv
<1>4. \A x \in At(p) : x \in Cells /\ tx[w].move[x] \in Int /\ t.move[x] \in Int
  BY <1>1, <1>3, AtFinite
<1>5. SumFunctionOnSet(tx[w].move, At(p)) \in Nat
  BY BringsType
<1>6. CASE ProductOf[Current(w).line] = p
  <2>1. c \in At(p)
    BY <1>2, <1>6 DEF At
  <2>2. \A x \in At(p) \ {c} : tx[w].move[x] = t.move[x]
    BY <1>1, <1>3, <1>4
  <2>3. SumFunctionOnSet(t.move, At(p))
          = SumFunctionOnSet(tx[w].move, At(p)) - tx[w].move[c] + t.move[c]
    BY <1>4, <2>1, <2>2, AtFinite, SumUpdate
  <2>4. t.move[c] = tx[w].move[c] + n /\ tx[w].move[c] \in Nat
    BY <1>1, <1>3
  <2>5. Unmoved(pc[w], tx[w], p) = n
    BY <1>1, <1>6 DEF Unmoved, Current
  <2> QED
    BY <1>5, <2>3, <2>4, <2>5
<1>7. CASE ProductOf[Current(w).line] # p
  <2>1. c \notin At(p)
    BY <1>2, <1>7 DEF At
  <2>2. \A x \in At(p) : tx[w].move[x] = t.move[x]
    BY <1>1, <1>3, <1>4, <2>1
  <2>3. SumFunctionOnSet(t.move, At(p)) = SumFunctionOnSet(tx[w].move, At(p))
    BY <2>2, AtFinite, SumAgree
  <2>4. Unmoved(pc[w], tx[w], p) = 0
    BY <1>7 DEF Unmoved, Current
  <2> QED
    BY <1>5, <2>3, <2>4
<1> QED
  BY <1>6, <1>7

LEMMA StoreStockLines ==
  ASSUME IInv, IInv', TInv, TInv', LineLedger, NEW w \in Workers, StoreStock(w) PROVE LineLedger'
<1>0. PICK t \in Tx, next \in {"update", "judge"}, c \in Cells, k \in Workers, n \in Nat \ {0} :
        Stored(w, next, t, c, k, n)
  BY StoreStockEffect
<1>1. /\ Goto(w, next, t) /\ UNCHANGED <<rows, met>>
      /\ t.receipt = tx[w].receipt /\ t.read = tx[w].read /\ t.got = tx[w].got
  BY <1>0 DEF Stored
<1>2. \A ln \in Lines : t.read[ln] <= tx[w].read[ln]
  BY <1>1, TxTypes DEF TInv
<1>3. ASSUME NEW p \in Products
      PROVE  SumFunctionOnSet(t.move, At(p)) + Unmoved(next, t, p)
               = SumFunctionOnSet(tx[w].move, At(p)) + Unmoved(pc[w], tx[w], p)
  <2>1. SumFunctionOnSet(t.move, At(p))
          = SumFunctionOnSet(tx[w].move, At(p)) + Unmoved(pc[w], tx[w], p)
    BY <1>0, StoreStockMoves
  <2>2. Unmoved(next, t, p) = 0
    BY DEF Unmoved
  <2>3. SumFunctionOnSet(tx[w].move, At(p)) \in Nat /\ Unmoved(pc[w], tx[w], p) \in Nat
    BY BringsType
  <2> QED
    BY <2>1, <2>2, <2>3
<1> QED
  BY <1>1, <1>2, <1>3, LineSame

\* The quantity written to the line waits for its movement.
LEMMA UpdateLineBrings ==
  ASSUME IInv, TInv, NEW w \in Workers, pc[w] = "update", NEW t, NEW ln, NEW n \in Nat,
         ln = Current(w).line, n = Current(w).qty, t.receipt = tx[w].receipt,
         t.move = tx[w].move, t.items = tx[w].items, t.k = tx[w].k,
         NEW r, NEW p \in Products
  PROVE  Brings("find", t, r, p)
           = Brings(pc[w], tx[w], r, p) + IF ln \in LinesFor(r, p) THEN n ELSE 0
<1>1. ReceiptOf[ln] = tx[w].receipt /\ ln \in Lines
  BY ItemType
<1>2. Unmoved(pc[w], tx[w], p) = 0
  BY DEF Unmoved
<1>3. Unmoved("find", t, p) = IF ProductOf[ln] = p THEN n ELSE 0
  BY DEF Unmoved, Current
<1>4. SumFunctionOnSet(tx[w].move, At(p)) \in Nat
  BY BringsType
<1>5. ln \in LinesFor(r, p) <=> tx[w].receipt = r /\ ProductOf[ln] = p
  BY <1>1 DEF LinesFor
<1>6. CASE tx[w].receipt = r
  <2>1. Brings("find", t, r, p) = SumFunctionOnSet(tx[w].move, At(p)) + Unmoved("find", t, p)
    BY <1>6 DEF Brings
  <2>2. Brings(pc[w], tx[w], r, p) = SumFunctionOnSet(tx[w].move, At(p)) + 0
    BY <1>2, <1>6 DEF Brings
  <2> QED
    BY <1>3, <1>4, <1>5, <1>6, <2>1, <2>2
<1>7. CASE tx[w].receipt # r
  BY <1>5, <1>7 DEF Brings
<1> QED
  BY <1>6, <1>7

LEMMA UpdateLineLines ==
  ASSUME IInv, IInv', TInv, TInv', LineLedger, NEW w \in Workers, UpdateLine(w) PROVE LineLedger'
<1>1. PICK t \in Tx, ln \in Lines, n \in Nat \ {0} :
        /\ pc[w] = "update" /\ Goto(w, "find", t) /\ UNCHANGED <<rows, met>>
        /\ ln = Current(w).line /\ n = Current(w).qty
        /\ t.got = [tx[w].got EXCEPT ![ln] = tx[w].read[ln] + n]
        /\ t.receipt = tx[w].receipt /\ t.legacy = tx[w].legacy /\ t.loc = tx[w].loc
        /\ t.read = tx[w].read /\ t.seen = tx[w].seen /\ t.put = tx[w].put /\ t.move = tx[w].move
        /\ t.items = tx[w].items /\ t.k = tx[w].k /\ t.qty = tx[w].qty
  BY UpdateLineEffect
<1>2. received' = received /\ moved' = moved /\ n \in Nat
  BY <1>1 DEF rows
<1>3. tx[w].got \in [Lines -> Nat] /\ tx[w].read \in [Lines -> Nat] /\ received \in [Lines -> Nat]
  BY TxTypes DEF TInv, TypeOK
<1>4. \A j \in Lines : LET m == IF j = ln THEN n ELSE 0
                       IN  \/ Known(t, j) <= received[j] + m
                           \/ Known(t, j) <= Known(tx[w], j) + m
  <2> SUFFICES ASSUME NEW j \in Lines
      PROVE  Known(t, j) <= Known(tx[w], j) + IF j = ln THEN n ELSE 0
    OBVIOUS
  <2>1. PICK a \in Nat, b \in Nat : a = tx[w].got[j] /\ b = tx[w].read[j]
    BY <1>3
  <2>2. Known(tx[w], j) = IF a > b THEN a ELSE b
    BY <2>1 DEF Known
  <2>3. Known(t, j) = IF j = ln THEN (IF b + n > b THEN b + n ELSE b)
                      ELSE IF a > b THEN a ELSE b
    BY <1>1, <1>3, <2>1 DEF Known
  <2> QED
    BY <1>2, <2>2, <2>3
<1>5. \A r \in Receipts : \A p \in Products :
        Brings("find", t, r, p)
          = Brings(pc[w], tx[w], r, p) + IF ln \in LinesFor(r, p) THEN n ELSE 0
  BY <1>1, <1>2, UpdateLineBrings
<1>6. Takes(w, "find", t, ln, n)
  BY <1>4, <1>5 DEF Takes
<1> QED
  BY <1>1, <1>2, <1>6, LineAdd

LEMMA NextLineLedger == IInv /\ TInv /\ LineLedger /\ [Next]_vars => LineLedger'
<1> SUFFICES ASSUME IInv, TInv, LineLedger, [Next]_vars PROVE LineLedger'
  OBVIOUS
<1>0. IInv' /\ TInv' /\ TypeOK
  BY IInvStep, NextTypes DEF TInv
<1>1. CASE UNCHANGED vars \/ \E r \in Receipts : CreateReceipt(r)
  <2>1. received' = received /\ moved' = moved /\ pc' = pc /\ tx' = tx
    BY <1>1 DEF vars, rows, CreateReceipt
  <2>2. /\ KnownLines' = KnownLines
        /\ \A r, p : Brought(r, p)' = Brought(r, p) /\ MovedOf(r, p)' = MovedOf(r, p)
    BY <2>1 DEF KnownLines, Known, Brought, Brings, Unmoved, At, MovedOf
  <2> QED
    BY <2>1, <2>2 DEF LineLedger, LinesFor
<1>2. ASSUME NEW w \in Workers,
             \/ InsertLine(w) \/ RefuseReceipt(w) \/ RefuseLine(w) \/ Fail(w) \/ Close(w)
      PROVE  LineLedger'
  <2>1. Goto(w, "idle", NoTx(w)) /\ received' = received /\ moved' = moved
    BY <1>0, <1>2, QuitEffect DEF InsertLine, Close, rows
  <2> QED
    BY <1>0, <2>1, NoTxType, LineDrop
<1>3. ASSUME NEW w \in Workers, ReadPending(w) PROVE LineLedger'
  <2>1. /\ UNCHANGED <<rows, met>> /\ received' = received /\ moved' = moved /\ pc[w] = "pending"
        /\ Goto(w, "idle", NoTx(w)) \/ Goto(w, "close", tx[w])
    BY <1>0, <1>3, ReadPendingEffect DEF rows
  <2>2. CASE Goto(w, "idle", NoTx(w))
    BY <1>0, <2>1, <2>2, NoTxType, LineDrop
  <2>3. CASE Goto(w, "close", tx[w])
    <3>1. PICK t \in Tx : t = tx[w]
      BY <1>0, TxTypes
    <3>2. \A p : Unmoved("close", t, p) = 0 /\ Unmoved(pc[w], tx[w], p) = 0
      BY <2>1 DEF Unmoved
    <3>3. \A ln \in Lines : t.read[ln] <= tx[w].read[ln]
      BY <1>0, <3>1, TxTypes
    <3> QED
      BY <1>0, <2>1, <2>3, <3>1, <3>2, <3>3, LineSame
  <2> QED
    BY <2>1, <2>2, <2>3
<1>4. ASSUME NEW w \in Workers, Statement(w) \/ Fail(w) PROVE LineLedger'
  BY <1>0, <1>2, <1>3, <1>4, ReadLinesLedger, UpdateLineLines, FindStockLines, StoreStockLines,
     JudgeLines, LineCommit DEF Statement
<1>5. ASSUME NEW w \in Workers,
             \/ \E ln \in Lines : ReadForLine(w, ln)
             \/ \E r \in Receipts : CompleteReceipt(w, r)
             \/ \E r \in Receipts, loc \in Locs, asked \in Asks :
                  Confirm(w, r, loc, asked) \/ ReceiveLine(w, r, loc, asked)
      PROVE  LineLedger'
  <2>1. PICK r, next, t : Started(w, r, next, t)
    BY <1>0, <1>5, StartEffect
  <2>2. /\ Goto(w, next, t) /\ received' = received /\ moved' = moved
        /\ t.got = NoQty /\ t.read = NoQty
    BY <2>1 DEF Started, rows
  <2> QED
    BY <1>0, <2>2, LineDrop
<1> QED
  BY <1>1, <1>4, <1>5 DEF Next

LEMMA InitLineLedger == Init => LineLedger
<1> SUFFICES ASSUME Init, NEW r \in Receipts, NEW p \in Products, NEW W \in SUBSET Workers, NEW h,
                    Claim(h, LinesFor(r, p), received, KnownLines, W)
    PROVE  SumFunctionOnSet(h, LinesFor(r, p)) <= MovedOf(r, p) + SumFunctionOnSet(Brought(r, p), W)
  BY DEF LineLedger, Backed
<1>1. IInv /\ TInv
  BY InitIInv, InitTypes
<1>2. Quantities(LinesFor(r, p), received, KnownLines, Brought(r, p), MovedOf(r, p))
  BY <1>1, LinesTyped DEF LineQuantities
<1>3. \A ln \in LinesFor(r, p) : received[ln] = 0 /\ \A w \in Workers : KnownLines[w][ln] = 0
  BY NoTxType DEF Init, NoQty, KnownLines, Known, LinesFor
<1>4. \A ln \in LinesFor(r, p) : h[ln] = 0
  BY <1>3 DEF Claim
<1>5. SumFunctionOnSet(h, LinesFor(r, p)) = 0
  BY <1>2, <1>4, SumZero DEF Quantities
<1>6. SumFunctionOnSet(Brought(r, p), W) \in Nat
  BY <1>2, WorkersFinite, SumNat DEF Quantities
<1> QED
  BY <1>2, <1>5, <1>6 DEF Quantities

-----------------------------------------------------------------------------
\* Without pending requests, what the rows hold is covered.
LEMMA LedgerBacks == ASSUME IInv, TInv, StockLedger, LineLedger PROVE StockIsBacked
<1>1. ASSUME NEW K, NEW base, NEW val, NEW bring, NEW total,
             Quantities(K, base, val, bring, total), Backed(K, base, val, bring, total)
      PROVE  SumFunctionOnSet(base, K) <= total
  <2>1. PICK h : h = [k \in K |-> base[k]]
    OBVIOUS
  <2>2. Claim(h, K, base, val, {})
    BY <1>1, <2>1 DEF Claim, Quantities
  <2>3. {} \in SUBSET Workers
    OBVIOUS
  <2>4. SumFunctionOnSet(h, K) <= total + SumFunctionOnSet(bring, {})
    BY <1>1, <2>2, <2>3 DEF Backed
  <2>5. SumFunctionOnSet(h, K) = SumFunctionOnSet(base, K)
    BY <1>1, <2>1, SumAgree DEF Quantities
  <2>6. SumFunctionOnSet(bring, {}) = 0
    BY SumEmpty
  <2>7. total \in Nat
    BY <1>1 DEF Quantities
  <2> QED
    BY <2>4, <2>5, <2>6, <2>7
<1>2. ASSUME NEW x \in Cells PROVE StockOf(x) <= MovedInto(x)
  <2>1. Quantities(Workers, stock[x], StockView(x), Moves(x), MovedInto(x))
    BY StockTyped DEF StockQuantities
  <2>2. Backed(Workers, stock[x], StockView(x), Moves(x), MovedInto(x))
    BY DEF StockLedger
  <2> QED
    BY <1>1, <2>1, <2>2 DEF StockOf
<1>3. ASSUME NEW r \in Receipts, NEW p \in Products PROVE ReceivedOf(r, p) <= MovedOf(r, p)
  <2>1. Quantities(LinesFor(r, p), received, KnownLines, Brought(r, p), MovedOf(r, p))
    BY LinesTyped DEF LineQuantities
  <2>2. Backed(LinesFor(r, p), received, KnownLines, Brought(r, p), MovedOf(r, p))
    BY DEF LineLedger
  <2>3. SumFunctionOnSet(received, LinesFor(r, p)) <= MovedOf(r, p)
    BY <1>1, <2>1, <2>2
  <2>4. PICK S : S = {ln \in LinesOf(r) : ProductOf[ln] = p}
    OBVIOUS
  <2>5. S \subseteq LinesFor(r, p)
    BY <2>4 DEF LinesFor, LinesOf, TInv, TypeOK
  <2>6. IsFiniteSet(LinesFor(r, p)) /\ \A ln \in LinesFor(r, p) : received[ln] \in Nat
    BY <2>1 DEF Quantities
  <2>7. SumFunctionOnSet(received, S) <= SumFunctionOnSet(received, LinesFor(r, p))
    BY <2>5, <2>6, SumSubset
  <2>8. ReceivedOf(r, p) = SumFunctionOnSet(received, S)
    BY <2>4 DEF ReceivedOf
  <2>9. /\ SumFunctionOnSet(received, S) \in Int /\ MovedOf(r, p) \in Int
        /\ SumFunctionOnSet(received, LinesFor(r, p)) \in Int
    <3>1. MovedOf(r, p) \in Int
      BY <2>1 DEF Quantities
    <3>2. IsFiniteSet(S) /\ \A ln \in S : received[ln] \in Int
      BY <2>5, <2>6, FS_Subset
    <3>3. \A ln \in LinesFor(r, p) : received[ln] \in Int
      BY <2>6
    <3> QED
      BY <2>6, <3>1, <3>2, <3>3, SumInt
  <2> QED
    BY <2>3, <2>7, <2>8, <2>9
<1> QED
  BY <1>2, <1>3 DEF StockIsBacked

\* However requests overlap and overwrite each other's rows, no unit of stock exists
\* without a movement that brought it, and no more is recorded as received than moved.
THEOREM StockHasMovements == Spec => []StockIsBacked
<1>1. Init => StockLedger /\ LineLedger
  BY InitStockLedger, InitLineLedger
<1>2. IInv /\ TInv /\ StockLedger /\ LineLedger /\ [Next]_vars => (StockLedger /\ LineLedger)'
  BY NextStockLedger, NextLineLedger
<1>3. IInv /\ TInv /\ StockLedger /\ LineLedger => StockIsBacked
  BY LedgerBacks
<1> QED
  BY <1>1, <1>2, <1>3, AlwaysTyped, PTL DEF Spec

-----------------------------------------------------------------------------
(***************************************************************************)
(* Requests that do not meet.  Two that are under way at once have met, by *)
(* the receipts they serve; a request that has ended has left nothing in   *)
(* its locals.                                                             *)
(***************************************************************************)
Overlaps ==
  \A v, w \in Workers : v # w /\ pc[v] # "idle" /\ pc[w] # "idle" =>
    {tx[v].receipt, tx[w].receipt} \in met

Ended == \A w \in Workers : pc[w] = "idle" => tx[w] = NoTx(w)

MInv == Overlaps /\ Ended

\* A request w ends, or it has met those that are under way.
LEMMA MeetStep ==
  ASSUME TypeOK, MInv, NEW w \in Workers, NEW next, NEW t, Goto(w, next, t), met \subseteq met',
         \/ next = "idle" /\ t = NoTx(w)
         \/ /\ next # "idle"
            /\ \A v \in Workers \ {w} : pc[v] # "idle" => {t.receipt, tx[v].receipt} \in met'
  PROVE  MInv'
<1>1. /\ pc'[w] = next /\ tx'[w] = t
      /\ \A v \in Workers \ {w} : pc'[v] = pc[v] /\ tx'[v] = tx[v]
  BY GotoAt
<1>2. Overlaps'
  <2> SUFFICES ASSUME NEW u \in Workers, NEW v \in Workers, u # v, pc'[u] # "idle", pc'[v] # "idle"
      PROVE  {tx'[u].receipt, tx'[v].receipt} \in met'
    BY DEF Overlaps
  <2>1. CASE u # w /\ v # w
    BY <1>1, <2>1 DEF MInv, Overlaps
  <2>2. CASE u = w
    BY <1>1, <2>2
  <2>3. CASE v = w
    <3>1. {t.receipt, tx[u].receipt} \in met'
      BY <1>1, <2>3
    <3>2. {t.receipt, tx[u].receipt} = {tx[u].receipt, t.receipt}
      OBVIOUS
    <3> QED
      BY <1>1, <2>3, <3>1, <3>2
  <2> QED
    BY <2>1, <2>2, <2>3
<1>3. Ended'
  BY <1>1 DEF MInv, Ended, NoTx
<1> QED
  BY <1>2, <1>3 DEF MInv

LEMMA MeetOn ==
  ASSUME TypeOK, MInv, NEW w \in Workers, NEW next, NEW t, Goto(w, next, t), met' = met,
         pc[w] # "idle", next # "idle", t.receipt = tx[w].receipt
  PROVE  MInv'
<1>1. \A v \in Workers \ {w} : pc[v] # "idle" => {t.receipt, tx[v].receipt} \in met'
  BY DEF MInv, Overlaps
<1> QED
  BY <1>1, MeetStep

\* The statements by which a request goes on.
Inner(w) ==
  ReadLines(w) \/ UpdateLine(w) \/ FindStock(w) \/ StoreStock(w) \/ Judge(w)

LEMMA InnerMeets ==
  ASSUME IInv, TInv, MInv, NEW w \in Workers, Inner(w)
  PROVE  MInv'
<1>0. TypeOK
  BY DEF TInv
<1>1. CASE ReadLines(w)
  <2>1. PICK t : /\ pc[w] = "lines" /\ Goto(w, "update", t) /\ UNCHANGED <<rows, met>>
                 /\ t.receipt = tx[w].receipt
    BY <1>0, <1>1, ReadLinesEffect
  <2> QED
    BY <1>0, <2>1, MeetOn
<1>2. CASE UpdateLine(w)
  <2>1. PICK t : /\ pc[w] = "update" /\ Goto(w, "find", t) /\ UNCHANGED <<rows, met>>
                 /\ t.receipt = tx[w].receipt
    BY <1>2, UpdateLineEffect
  <2> QED
    BY <1>0, <2>1, MeetOn
<1>3. CASE FindStock(w)
  <2>1. PICK t : /\ pc[w] = "find" /\ Goto(w, "store", t) /\ UNCHANGED <<rows, met>>
                 /\ t.receipt = tx[w].receipt
    BY <1>3, FindStockEffect
  <2> QED
    BY <1>0, <2>1, MeetOn
<1>4. CASE StoreStock(w)
  <2>1. PICK next, t, c, s, n : next \in {"update", "judge"} /\ Stored(w, next, t, c, s, n)
    BY <1>4, StoreStockEffect
  <2>2. /\ pc[w] = "store" /\ Goto(w, next, t) /\ UNCHANGED <<rows, met>>
        /\ t.receipt = tx[w].receipt
    BY <2>1 DEF Stored
  <2> QED
    BY <1>0, <2>1, <2>2, MeetOn
<1>5. CASE Judge(w)
  <2>1. PICK t : /\ pc[w] = "judge" /\ Goto(w, "commit", t) /\ UNCHANGED <<rows, met>>
                 /\ t.receipt = tx[w].receipt
    BY <1>0, <1>5, JudgeEffect
  <2> QED
    BY <1>0, <2>1, MeetOn
<1> QED
  BY <1>1, <1>2, <1>3, <1>4, <1>5 DEF Inner

\* A request begins, answers with an error, or goes on to close a receipt.
Quits(w)  == Goto(w, "idle", NoTx(w)) /\ UNCHANGED <<rows, met>>
Begins(w) == \E r, next, t : Started(w, r, next, t)
Closes(w) ==
  /\ pc[w] = "pending" /\ Goto(w, "close", tx[w]) /\ UNCHANGED <<rows, met>>
  /\ Pending(tx[w].receipt) = {}

LEMMA StepKinds ==
  ASSUME TInv, [Next]_vars
  PROVE  \/ UNCHANGED vars
         \/ \E r \in Receipts : CreateReceipt(r)
         \/ \E w \in Workers : \/ Begins(w) \/ Quits(w) \/ Inner(w) \/ Closes(w)
                               \/ InsertLine(w) \/ Close(w) \/ Commit(w)
<1>0. TypeOK
  BY DEF TInv
<1>1. ASSUME NEW w \in Workers, Statement(w) \/ Fail(w)
      PROVE  \/ Quits(w) \/ Inner(w) \/ Closes(w) \/ InsertLine(w) \/ Close(w) \/ Commit(w)
  <2>1. CASE RefuseReceipt(w) \/ RefuseLine(w) \/ Fail(w)
    BY <1>0, <2>1, QuitEffect DEF Quits
  <2>2. CASE ReadPending(w)
    BY <1>0, <2>2, ReadPendingEffect DEF Quits, Closes
  <2> QED
    BY <1>1, <2>1, <2>2 DEF Statement, Inner
<1>2. ASSUME NEW w \in Workers,
             \/ \E ln \in Lines : ReadForLine(w, ln)
             \/ \E r \in Receipts : CompleteReceipt(w, r)
             \/ \E r \in Receipts, loc \in Locs, asked \in Asks :
                  Confirm(w, r, loc, asked) \/ ReceiveLine(w, r, loc, asked)
      PROVE  Begins(w)
  BY <1>0, <1>2, StartEffect DEF Begins
<1> QED
  BY <1>1, <1>2 DEF Next

LEMMA NextMeets == IInv /\ TInv /\ MInv /\ [Next]_vars => MInv'
<1> SUFFICES ASSUME IInv, TInv, MInv, [Next]_vars PROVE MInv'
  OBVIOUS
<1>0. TypeOK
  BY DEF TInv
<1>1. CASE UNCHANGED vars \/ \E r \in Receipts : CreateReceipt(r)
  BY <1>1 DEF vars, CreateReceipt, MInv, Overlaps, Ended, NoTx
<1>2. ASSUME NEW w \in Workers, Begins(w) PROVE MInv'
  <2>1. PICK r, next, t : Started(w, r, next, t)
    BY <1>2 DEF Begins
  <2>2. /\ Goto(w, next, t) /\ next # "idle" /\ t.receipt = r /\ met \subseteq met'
        /\ \A v \in Workers \ {w} : pc[v] # "idle" => {t.receipt, tx[v].receipt} \in met'
    BY <2>1 DEF Started
  <2> QED
    BY <1>0, <2>2, MeetStep
<1>3. ASSUME NEW w \in Workers, Quits(w) \/ InsertLine(w) \/ Close(w) \/ Commit(w) PROVE MInv'
  <2>1. Goto(w, "idle", NoTx(w)) /\ met \subseteq met'
    BY <1>3 DEF Quits, InsertLine, Close, Commit
  <2> QED
    BY <1>0, <2>1, MeetStep
<1>4. ASSUME NEW w \in Workers, Closes(w) PROVE MInv'
  <2>1. PICK t : t = tx[w]
    OBVIOUS
  <2> QED
    BY <1>0, <1>4, <2>1, MeetOn DEF Closes
<1> QED
  BY <1>1, <1>2, <1>3, <1>4, InnerMeets, StepKinds

LEMMA InitMeets == Init => MInv
BY DEF Init, MInv, Overlaps, Ended

LEMMA AlwaysMeets == Spec => []MInv
<1>1. IInv /\ TInv /\ MInv /\ [Next]_vars => MInv'
  BY NextMeets
<1> QED
  BY <1>1, InitMeets, AlwaysTyped, PTL DEF Spec

-----------------------------------------------------------------------------
(***************************************************************************)
(* As long as no two requests meet, every cell has one row, and so it has  *)
(* for the request under way, which sees its own writes: what it finds     *)
(* there is all there is, and what it adds goes to that row.               *)
(***************************************************************************)
OneRow(f, n) ==
  \/ n = 0 /\ \A s \in Workers : f[s] = 0
  \/ n > 0 /\ \E s \in Workers : f[s] = n /\ \A u \in Workers \ {s} : f[u] = 0

\* Cell x as the request with the locals t sees it.
See(t, x) == [s \in Workers |-> IF t.put[x][s] > 0 THEN t.put[x][s] ELSE stock[x][s]]
Sees(t) == \A x \in Cells : OneRow(See(t, x), MovedInto(x) + t.move[x])

Found(c, t) ==
  c = "store" =>
    LET x == <<ProductOf[t.items[t.k].line], t.loc>>
    IN  t.qty = See(t, x)[t.slot] /\ (t.qty = 0 => \A s \in Workers : See(t, x)[s] = 0)

Solo ==
  met = {} => /\ \A x \in Cells : OneRow(stock[x], MovedInto(x))
              /\ \A w \in Workers : Sees(tx[w]) /\ Found(pc[w], tx[w])

LEMMA SoloGoto ==
  ASSUME TInv, Solo, NEW w \in Workers, NEW next, NEW t, Goto(w, next, t), UNCHANGED rows,
         met' = {} => met = {} /\ Sees(t) /\ Found(next, t)
  PROVE  Solo'
<1> SUFFICES ASSUME met' = {}
    PROVE  /\ \A x \in Cells : OneRow(stock'[x], MovedInto(x)')
           /\ \A v \in Workers : Sees(tx[v])' /\ Found(pc[v], tx[v])'
  BY DEF Solo
<1>1. /\ pc'[w] = next /\ tx'[w] = t
      /\ \A v \in Workers \ {w} : pc'[v] = pc[v] /\ tx'[v] = tx[v]
  BY GotoAt DEF TInv
<1>2. stock' = stock /\ moved' = moved
  BY DEF rows
<1>3. \A x \in Cells : MovedInto(x)' = MovedInto(x)
  BY <1>2 DEF MovedInto
<1>4. \A x \in Cells : OneRow(stock'[x], MovedInto(x)')
  BY <1>2, <1>3 DEF Solo
<1>5. ASSUME NEW v \in Workers PROVE Sees(tx[v])' /\ Found(pc[v], tx[v])'
  <2>1. PICK c, u : c = pc'[v] /\ u = tx'[v]
    OBVIOUS
  <2>2. Sees(u) /\ Found(c, u)
    BY <1>1, <2>1 DEF Solo
  <2>3. \A x \in Cells : OneRow(See(u, x), MovedInto(x)' + u.move[x])
    BY <1>3, <2>2 DEF Sees
  <2>4. Sees(tx[v])'
    BY <1>2, <2>1, <2>3 DEF Sees, See
  <2>5. Found(pc[v], tx[v])'
    BY <1>2, <2>1, <2>2 DEF Found, See
  <2> QED
    BY <2>4, <2>5
<1> QED
  BY <1>4, <1>5

\* Without writes, a request sees the rows as they are.
LEMMA SeeNothing ==
  ASSUME TInv, NEW t, t.put = NoStock, t.move = NoMove,
         \A x \in Cells : OneRow(stock[x], MovedInto(x))
  PROVE  Sees(t)
<1>1. StockQuantities /\ stock \in [Cells -> [Workers -> Nat]]
  BY StockTyped DEF TInv, TypeOK
<1> SUFFICES ASSUME NEW x \in Cells PROVE OneRow(See(t, x), MovedInto(x) + t.move[x])
  BY DEF Sees
<1>2. t.move[x] = 0 /\ MovedInto(x) \in Nat
  BY <1>1 DEF NoMove, StockQuantities, Quantities
<1>3. \A s \in Workers : See(t, x)[s] = stock[x][s]
  BY DEF See, NoStock
<1>4. OneRow(stock[x], MovedInto(x))
  OBVIOUS
<1> QED
  BY <1>2, <1>3, <1>4 DEF OneRow

\* The request is the only one.
LEMMA Apart ==
  ASSUME MInv, NEW w \in Workers, pc[w] # "idle", met = {}
  PROVE  \A v \in Workers \ {w} : pc[v] = "idle" /\ tx[v] = NoTx(v)
BY DEF MInv, Overlaps, Ended

LEMMA SoloSame ==
  ASSUME TInv, Solo, NEW w \in Workers, NEW next, NEW t, Goto(w, next, t),
         UNCHANGED <<rows, met>>, next # "store", t.put = tx[w].put, t.move = tx[w].move
  PROVE  Solo'
<1>1. met = {} => Sees(t)
  BY DEF Solo, Sees, See
<1>2. Found(next, t)
  BY DEF Found
<1> QED
  BY <1>1, <1>2, SoloGoto

LEMMA SoloFind ==
  ASSUME IInv, TInv, Solo, NEW w \in Workers, FindStock(w) PROVE Solo'
<1>1. PICK t \in Tx :
        /\ pc[w] = "find" /\ Goto(w, "store", t) /\ UNCHANGED <<rows, met>>
        /\ t.qty = StockIn(w, Cell(w), t.slot)
        /\ t.qty = 0 => \A s \in Workers : StockIn(w, Cell(w), s) = 0
        /\ t.loc = tx[w].loc /\ t.put = tx[w].put /\ t.move = tx[w].move
        /\ t.items = tx[w].items /\ t.k = tx[w].k
  BY FindStockEffect
<1>2. met = {} => Sees(t)
  BY <1>1 DEF Solo, Sees, See
<1>3. t.slot \in Workers
  BY DEF Tx
<1>4. \A x \in Cells : \A s \in Workers : StockIn(w, x, s) = See(t, x)[s]
  BY <1>1 DEF See, StockIn
<1>5. Cell(w) \in Cells /\ <<ProductOf[t.items[t.k].line], t.loc>> = Cell(w)
  BY <1>1, ItemType DEF Current, Cell
<1>6. Found("store", t)
  BY <1>1, <1>3, <1>4, <1>5 DEF Found
<1> QED
  BY <1>1, <1>2, <1>6, SoloGoto

LEMMA SoloStore ==
  ASSUME IInv, TInv, Solo, NEW w \in Workers, StoreStock(w) PROVE Solo'
<1>0. PICK t \in Tx, next \in {"update", "judge"}, c \in Cells, k \in Workers, n \in Nat \ {0} :
        Stored(w, next, t, c, k, n)
  BY StoreStockEffect
<1>1. /\ pc[w] = "store" /\ Goto(w, next, t) /\ UNCHANGED <<rows, met>> /\ next # "store"
      /\ c = Cell(w) /\ k = tx[w].slot
      /\ t.put = [tx[w].put EXCEPT ![c][k] = tx[w].qty + n]
      /\ t.move = [tx[w].move EXCEPT ![c] = @ + n]
  BY <1>0 DEF Stored
<1>2. /\ tx[w].put \in [Cells -> [Workers -> Nat]] /\ tx[w].move \in [Cells -> Nat]
      /\ tx[w].qty \in Nat /\ stock \in [Cells -> [Workers -> Nat]]
  BY TxTypes DEF TInv, TypeOK
<1>3. \A x \in Cells : MovedInto(x) \in Nat
  BY StockTyped DEF StockQuantities, Quantities
<1>4. ASSUME met = {} PROVE Sees(t)
  <2>1. Sees(tx[w]) /\ Found(pc[w], tx[w])
    BY <1>4 DEF Solo
  <2>2. ASSUME NEW x \in Cells, x # c PROVE OneRow(See(t, x), MovedInto(x) + t.move[x])
    <3>1. t.put[x] = tx[w].put[x] /\ t.move[x] = tx[w].move[x]
      BY <1>1, <1>2, <2>2
    <3>2. See(t, x) = See(tx[w], x)
      BY <3>1 DEF See
    <3> QED
      BY <2>1, <3>1, <3>2 DEF Sees
  <2>3. OneRow(See(t, c), MovedInto(c) + t.move[c])
    <3>1. PICK f, g : f = See(tx[w], c) /\ g = See(t, c)
      OBVIOUS
    <3>2. PICK m \in Nat, q \in Nat : m = MovedInto(c) + tx[w].move[c] /\ q = tx[w].qty
      BY <1>2, <1>3
    <3>3. t.move[c] = tx[w].move[c] + n /\ tx[w].move[c] \in Nat
      BY <1>1, <1>2
    <3>4. MovedInto(c) + t.move[c] = m + n
      BY <1>3, <3>2, <3>3
    <3>5. OneRow(f, m)
      BY <2>1, <3>1, <3>2 DEF Sees
    <3>6. <<ProductOf[tx[w].items[tx[w].k].line], tx[w].loc>> = c
      BY <1>1 DEF Cell, Current
    <3>7. q = f[k] /\ (q = 0 => \A s \in Workers : f[s] = 0)
      BY <1>1, <2>1, <3>1, <3>2, <3>6 DEF Found
    <3>8. t.put[c][k] = q + n /\ \A s \in Workers \ {k} : t.put[c][s] = tx[w].put[c][s]
      BY <1>1, <1>2, <3>2
    <3>9. g[k] = q + n /\ \A s \in Workers \ {k} : g[s] = f[s]
      <4>1. q + n > 0
        OBVIOUS
      <4> QED
        BY <3>1, <3>8, <4>1 DEF See
    <3>10. CASE q = 0
      <4>1. m = 0
        BY <3>5, <3>7, <3>10 DEF OneRow
      <4> QED
        BY <3>1, <3>4, <3>7, <3>9, <3>10, <4>1 DEF OneRow
    <3>11. CASE q > 0
      <4>1. m > 0 /\ q = m /\ \A u \in Workers \ {k} : f[u] = 0
        BY <3>5, <3>7, <3>11 DEF OneRow
      <4> QED
        BY <3>1, <3>4, <3>9, <4>1 DEF OneRow
    <3> QED
      BY <3>2, <3>10, <3>11
  <2> QED
    BY <2>2, <2>3 DEF Sees
<1>5. Found(next, t)
  BY <1>1 DEF Found
<1> QED
  BY <1>1, <1>4, <1>5, SoloGoto

\* What w moved is booked: its own view becomes the table.
LEMMA MovedGrows ==
  ASSUME TInv, TInv', NEW w \in Workers, NEW r \in Receipts, NEW x \in Cells,
         moved'[r][x] = moved[r][x] + tx[w].move[x],
         \A q \in Receipts \ {r} : moved'[q] = moved[q]
  PROVE  MovedInto(x)' = MovedInto(x) + tx[w].move[x]
<1>1. PICK f, g : f = [q \in Receipts |-> moved[q][x]] /\ g = [q \in Receipts |-> moved'[q][x]]
  OBVIOUS
<1>2. \A q \in Receipts : f[q] \in Int /\ g[q] \in Int
  BY <1>1 DEF TInv, TypeOK
<1>3. \A q \in Receipts \ {r} : f[q] = g[q]
  BY <1>1
<1>4. PICK a, b : a = MovedInto(x) /\ b = MovedInto(x)'
  OBVIOUS
<1>5. a = SumFunctionOnSet(f, Receipts) /\ b = SumFunctionOnSet(g, Receipts)
  BY <1>1, <1>4 DEF MovedInto
<1>6. IsFiniteSet(Receipts)
  BY ReceivingAssumption
<1>7. b = a - f[r] + g[r] /\ a \in Int
  BY <1>2, <1>3, <1>5, <1>6, SumUpdate, SumInt
<1>8. g[r] = f[r] + tx[w].move[x] /\ tx[w].move[x] \in Nat /\ f[r] \in Int
  BY <1>1, <1>2, TxTypes DEF TInv
<1> QED
  BY <1>4, <1>7, <1>8

LEMMA SoloCommit ==
  ASSUME TInv, TInv', MInv, Solo, NEW w \in Workers, Commit(w) PROVE Solo'
<1>0. PICK r \in Receipts :
        /\ pc[w] = "commit" /\ r = tx[w].receipt /\ Goto(w, "idle", NoTx(w))
        /\ UNCHANGED <<present, met>>
        /\ \A c \in Cells : \A s \in Workers : stock'[c][s] = StockIn(w, c, s)
        /\ \A c \in Cells : moved'[r][c] = moved[r][c] + tx[w].move[c]
        /\ \A q \in Receipts \ {r} : moved'[q] = moved[q]
  BY CommitEffect
<1> SUFFICES ASSUME met = {}
    PROVE  /\ \A x \in Cells : OneRow(stock'[x], MovedInto(x)')
           /\ \A v \in Workers : Sees(tx[v])' /\ Found(pc[v], tx[v])'
  BY <1>0 DEF Solo
<1>1. \A v \in Workers : pc'[v] = "idle" /\ tx'[v] = NoTx(v)
  BY <1>0, Apart, GotoAt DEF TInv
<1>2. ASSUME NEW x \in Cells PROVE OneRow(stock'[x], MovedInto(x)')
  <2>1. OneRow(See(tx[w], x), MovedInto(x) + tx[w].move[x])
    BY DEF Solo, Sees
  <2>2. \A s \in Workers : stock'[x][s] = See(tx[w], x)[s]
    BY <1>0 DEF See, StockIn
  <2>3. MovedInto(x)' = MovedInto(x) + tx[w].move[x]
    BY <1>0, MovedGrows
  <2> QED
    BY <2>1, <2>2, <2>3 DEF OneRow
<1>3. ASSUME NEW v \in Workers PROVE Sees(tx[v])' /\ Found(pc[v], tx[v])'
  <2>1. tx'[v].put = NoStock /\ tx'[v].move = NoMove
    BY <1>1, NoTxType
  <2>2. ASSUME NEW x \in Cells PROVE OneRow(See(tx[v], x)', MovedInto(x)' + tx'[v].move[x])
    <3>1. \A s \in Workers : See(tx[v], x)'[s] = stock'[x][s]
      BY <2>1 DEF See, NoStock
    <3>2. StockQuantities'
      BY StockTyped, PTL
    <3>3. MovedInto(x)' \in Nat /\ tx'[v].move[x] = 0
      BY <2>1, <3>2 DEF NoMove, StockQuantities, Quantities
    <3>4. OneRow(stock'[x], MovedInto(x)')
      BY <1>2
    <3>5. MovedInto(x)' + tx'[v].move[x] = MovedInto(x)'
      BY <3>3
    <3> QED
      BY <3>1, <3>4, <3>5 DEF OneRow
  <2>3. Sees(tx[v])'
    BY <2>2 DEF Sees
  <2>4. Found(pc[v], tx[v])'
    BY <1>1 DEF Found
  <2> QED
    BY <2>3, <2>4
<1> QED
  BY <1>2, <1>3

\* A request begins or ends without having moved anything.
LEMMA SoloEnd ==
  ASSUME TInv, Solo, NEW w \in Workers, NEW next, NEW t, Goto(w, next, t), next # "store",
         stock' = stock, moved' = moved, t.put = NoStock, t.move = NoMove, met' = {} => met = {}
  PROVE  Solo'
<1> SUFFICES ASSUME met' = {}
    PROVE  /\ \A x \in Cells : OneRow(stock'[x], MovedInto(x)')
           /\ \A v \in Workers : Sees(tx[v])' /\ Found(pc[v], tx[v])'
  BY DEF Solo
<1>1. /\ pc'[w] = next /\ tx'[w] = t
      /\ \A v \in Workers \ {w} : pc'[v] = pc[v] /\ tx'[v] = tx[v]
  BY GotoAt DEF TInv
<1>2. \A x \in Cells : OneRow(stock[x], MovedInto(x)) /\ MovedInto(x)' = MovedInto(x)
  BY DEF Solo, MovedInto
<1>3. Sees(t) /\ Found(next, t)
  BY <1>2, SeeNothing DEF Found
<1>4. ASSUME NEW v \in Workers PROVE Sees(tx[v])' /\ Found(pc[v], tx[v])'
  <2>1. PICK c, u : c = pc'[v] /\ u = tx'[v]
    OBVIOUS
  <2>2. Sees(u) /\ Found(c, u)
    BY <1>1, <1>3, <2>1 DEF Solo
  <2>3. \A x \in Cells : OneRow(See(u, x), MovedInto(x)' + u.move[x])
    BY <1>2, <2>2 DEF Sees
  <2>4. Sees(tx[v])'
    BY <2>1, <2>3 DEF Sees, See
  <2>5. Found(pc[v], tx[v])'
    BY <2>1, <2>2 DEF Found, See
  <2> QED
    BY <2>4, <2>5
<1> QED
  BY <1>2, <1>4

LEMMA SoloStep == IInv /\ TInv /\ MInv /\ Solo /\ [Next]_vars => Solo'
<1> SUFFICES ASSUME IInv, TInv, MInv, Solo, [Next]_vars PROVE Solo'
  OBVIOUS
<1>0. TypeOK /\ TInv'
  BY NextTypes DEF TInv
<1>1. CASE UNCHANGED vars \/ \E r \in Receipts : CreateReceipt(r)
  <2>1. stock' = stock /\ moved' = moved /\ pc' = pc /\ tx' = tx /\ met' = met
    BY <1>1 DEF vars, rows, CreateReceipt
  <2> QED
    BY <2>1 DEF Solo, Sees, See, Found, MovedInto
<1>2. ASSUME NEW w \in Workers, Begins(w) PROVE Solo'
  <2>1. PICK r, next, t : Started(w, r, next, t)
    BY <1>2 DEF Begins
  <2> QED
    BY <2>1, SoloEnd DEF Started, rows
<1>3. ASSUME NEW w \in Workers, Quits(w) \/ InsertLine(w) \/ Close(w) PROVE Solo'
  <2>1. Goto(w, "idle", NoTx(w)) /\ met' = met /\ stock' = stock /\ moved' = moved
    BY <1>3 DEF Quits, InsertLine, Close, rows
  <2>2. PICK t : t = NoTx(w)
    OBVIOUS
  <2> QED
    BY <2>1, <2>2, NoTxType, SoloEnd
<1>4. ASSUME NEW w \in Workers, Closes(w) PROVE Solo'
  <2>1. PICK t : t = tx[w]
    OBVIOUS
  <2> QED
    BY <1>4, <2>1, SoloSame DEF Closes
<1>5. ASSUME NEW w \in Workers, Inner(w) PROVE Solo'
  <2>1. CASE ReadLines(w)
    BY <1>0, <2>1, ReadLinesEffect, SoloSame
  <2>2. CASE UpdateLine(w)
    <3>1. PICK t : /\ Goto(w, "find", t) /\ UNCHANGED <<rows, met>>
                   /\ t.put = tx[w].put /\ t.move = tx[w].move
      BY <2>2, UpdateLineEffect
    <3> QED
      BY <3>1, SoloSame
  <2>3. CASE Judge(w)
    BY <1>0, <2>3, JudgeEffect, SoloSame
  <2> QED
    BY <1>5, <2>1, <2>2, <2>3, SoloFind, SoloStore DEF Inner
<1> QED
  BY <1>0, <1>1, <1>2, <1>3, <1>4, <1>5, SoloCommit, StepKinds

LEMMA SoloInit == Init => Solo
<1> SUFFICES ASSUME Init PROVE Solo
  OBVIOUS
<1>0. TInv
  BY InitTypes
<1>1. ASSUME NEW x \in Cells PROVE OneRow(stock[x], MovedInto(x))
  <2>1. PICK f : f = [r \in Receipts |-> moved[r][x]]
    OBVIOUS
  <2>2. IsFiniteSet(Receipts) /\ \A r \in Receipts : f[r] = 0
    BY <2>1, ReceivingAssumption DEF Init, NoMove
  <2>3. MovedInto(x) = 0
    BY <2>1, <2>2, SumZero DEF MovedInto
  <2> QED
    BY <2>3 DEF Init, OneRow, NoStock
<1>2. ASSUME NEW w \in Workers PROVE Sees(tx[w]) /\ Found(pc[w], tx[w])
  <2>1. PICK t : t = tx[w] /\ t.put = NoStock /\ t.move = NoMove
    BY NoTxType DEF Init
  <2>2. Sees(t)
    BY <1>0, <1>1, <2>1, SeeNothing
  <2>3. pc[w] = "idle"
    BY DEF Init
  <2> QED
    BY <2>1, <2>2, <2>3 DEF Found
<1> QED
  BY <1>1, <1>2 DEF Solo

LEMMA OneRowSums ==
  ASSUME NEW f, NEW n \in Nat, OneRow(f, n)
  PROVE  SumFunctionOnSet(f, Workers) = n
<1>0. IsFiniteSet(Workers)
  BY ReceivingAssumption
<1>1. CASE n = 0 /\ \A s \in Workers : f[s] = 0
  BY <1>0, <1>1, SumZero
<1>2. CASE n > 0 /\ \E s \in Workers : f[s] = n /\ \A u \in Workers \ {s} : f[u] = 0
  <2>1. PICK s \in Workers : f[s] = n /\ \A u \in Workers \ {s} : f[u] = 0
    BY <1>2
  <2>2. \A u \in Workers : f[u] \in Int
    BY <2>1
  <2>3. SumFunctionOnSet(f, Workers) = f[s] + SumFunctionOnSet(f, Workers \ {s})
    BY <1>0, <2>2, SumRemove
  <2>4. SumFunctionOnSet(f, Workers \ {s}) = 0
    <3>1. IsFiniteSet(Workers \ {s})
      BY <1>0, FS_Subset
    <3> QED
      BY <2>1, <3>1, SumZero
  <2> QED
    BY <2>1, <2>3, <2>4
<1> QED
  BY <1>1, <1>2 DEF OneRow

\* As long as no two requests overlap, each cell has one row, and it holds exactly what
\* the movements brought there.
THEOREM LoneRequestsKeepTheStock == Spec => []StockIsMovements
<1>1. Init => Solo
  BY SoloInit
<1>2. IInv /\ TInv /\ MInv /\ Solo /\ [Next]_vars => Solo'
  BY SoloStep
<1>3. TInv /\ Solo => StockIsMovements
  <2> SUFFICES ASSUME TInv, Solo, met = {}, NEW c \in Cells
      PROVE  /\ StockOf(c) = MovedInto(c)
             /\ \A s, u \in Workers : stock[c][s] > 0 /\ stock[c][u] > 0 => s = u
    BY DEF StockIsMovements
  <2>1. OneRow(stock[c], MovedInto(c)) /\ MovedInto(c) \in Nat
    BY StockTyped DEF Solo, StockQuantities, Quantities
  <2>2. StockOf(c) = MovedInto(c)
    BY <2>1, OneRowSums DEF StockOf
  <2>3. \A s, u \in Workers : stock[c][s] > 0 /\ stock[c][u] > 0 => s = u
    BY <2>1 DEF OneRow
  <2> QED
    BY <2>2, <2>3
<1> QED
  BY <1>1, <1>2, <1>3, AlwaysTyped, AlwaysMeets, PTL DEF Spec

-----------------------------------------------------------------------------
(***************************************************************************)
(* What a request knows to be so by itself: its items are of different     *)
(* lines that exist, none beyond the one it is at is written yet, and it   *)
(* has moved something when it has gone through them.                      *)
(***************************************************************************)
Own(c, t) ==
  /\ c = "lines" => t.got = NoQty
  /\ c = "insert" => \A ln \in t.seen : ReceiptOf[ln] = t.receipt
  /\ c = "commit" => t.next \in {"RECEIVED", "PARTIALLY_RECEIVED"}
  /\ c \in {"judge", "commit"} => \E x \in Cells : t.move[x] > 0
  /\ c \in {"update", "find", "store"} =>
       /\ \A i, j \in 1..Len(t.items) : t.items[i].line = t.items[j].line => i = j
       /\ \A j \in 1..Len(t.items) :
            /\ t.items[j].line \in present
            /\ j > t.k \/ (j = t.k /\ c = "update") => t.got[t.items[j].line] = 0
  /\ \A ln \in Lines \ present : t.got[ln] = 0

Unused ==
  /\ \A ln \in Lines \ present : received[ln] = 0
  /\ \A r \in Receipts : status[r] \in {"NONE", "DRAFT"} => \A x \in Cells : moved[r][x] = 0

OInv == Unused /\ \A w \in Workers : Own(pc[w], tx[w])

\* The statement of one request; no line goes away.
LEMMA OwnGoto ==
  ASSUME TypeOK, OInv, NEW w \in Workers, NEW next, NEW t, Goto(w, next, t),
         present \subseteq present', Own(next, t), Unused'
  PROVE  OInv'
<1>1. /\ pc'[w] = next /\ tx'[w] = t
      /\ \A v \in Workers \ {w} : pc'[v] = pc[v] /\ tx'[v] = tx[v]
  BY GotoAt
<1>2. ASSUME NEW v \in Workers PROVE Own(pc[v], tx[v])'
  <2>1. PICK c, u : c = pc'[v] /\ u = tx'[v]
    OBVIOUS
  <2>2. Own(c, u)
    BY <1>1, <2>1 DEF OInv
  <2> QED
    BY <2>1, <2>2 DEF Own
<1> QED
  BY <1>2 DEF OInv

LEMMA OwnRows == ASSUME OInv, UNCHANGED rows PROVE Unused' /\ present \subseteq present'
BY DEF OInv, Unused, rows

LEMMA OwnIdle == \A w : Own("idle", NoTx(w))
BY DEF Own, NoTx, NoQty

\* An item is determined by its line.
LEMMA PayloadByLine ==
  ASSUME TypeOK, NEW w \in Workers, NEW e \in Payload(w), NEW f \in Payload(w), e.line = f.line
  PROVE  e = f
<1> DEFINE pending == {<<ln, Expected[ln] - received[ln]>> : ln \in LinesOf(tx[w].receipt)}
           wanted  == IF tx[w].asked = {} THEN pending ELSE tx[w].asked
           item(p) == [line |-> p[1], qty |-> QtyOf(tx[w].legacy, p[1], p[2])]
<1>1. Payload(w) = {item(p) : p \in wanted}
  BY DEF Payload
<1>2. tx[w].asked \in Asks \cup {{}}
  BY DEF TypeOK, Tx
<1>3. \A a, b \in wanted : a[1] = b[1] => a = b
  <2>1. CASE tx[w].asked = {}
    BY <2>1
  <2>2. CASE tx[w].asked # {}
    BY <1>2, <2>2, ReceivingAssumption
  <2> QED
    BY <2>1, <2>2
<1> HIDE DEF wanted
<1>4. PICK a \in wanted, b \in wanted : e = item(a) /\ f = item(b)
  BY <1>1
<1>5. a[1] = b[1]
  BY <1>4
<1> QED
  BY <1>3, <1>4, <1>5

LEMMA ReadLinesOwn ==
  ASSUME IInv, TInv, OInv, NEW w \in Workers, ReadLines(w) PROVE OInv'
<1>0. TypeOK
  BY DEF TInv
<1>1. PICK t \in Tx :
        /\ pc[w] = "lines" /\ Goto(w, "update", t) /\ UNCHANGED <<rows, met>>
        /\ t.got = tx[w].got /\ t.k = 1
        /\ t.items \in SetToSeqs(Payload(w)) /\ Len(t.items) >= 1
        /\ \A k \in 1..Len(t.items) : /\ t.items[k] \in Payload(w)
                                      /\ t.items[k].line \in LinesOf(t.receipt)
  BY <1>0, ReadLinesEffect
<1>2. t.got = NoQty
  BY <1>1 DEF OInv, Own
<1>3. t.items \in Seq(Item)
  BY DEF Tx
<1>4. \A i, j \in 1..Len(t.items) : t.items[i] = t.items[j] => i = j
  <2>1. PICK n : /\ t.items \in [1..n -> Payload(w)]
                 /\ \A i, j \in 1..n : i # j => t.items[i] # t.items[j]
    BY <1>1 DEF SetToSeqs
  <2>2. DOMAIN t.items = 1..n /\ DOMAIN t.items = 1..Len(t.items)
    BY <1>3, <2>1
  <2> QED
    BY <2>1, <2>2
<1>5. ASSUME NEW i \in 1..Len(t.items), NEW j \in 1..Len(t.items), t.items[i].line = t.items[j].line
      PROVE  i = j
  <2>1. t.items[i] = t.items[j]
    BY <1>0, <1>1, <1>5, PayloadByLine
  <2> QED
    BY <1>4, <2>1
<1>6. \A j \in 1..Len(t.items) : t.items[j].line \in present /\ t.items[j].line \in Lines
  BY <1>0, <1>1 DEF LinesOf, TypeOK
<1>7. Own("update", t)
  BY <1>2, <1>5, <1>6 DEF Own, NoQty
<1> QED
  BY <1>0, <1>1, <1>7, OwnGoto, OwnRows

LEMMA UpdateLineOwn ==
  ASSUME IInv, TInv, OInv, NEW w \in Workers, UpdateLine(w) PROVE OInv'
<1>0. TypeOK
  BY DEF TInv
<1>1. PICK t \in Tx, ln \in Lines, n \in Nat \ {0} :
        /\ pc[w] = "update" /\ Goto(w, "find", t) /\ UNCHANGED <<rows, met>>
        /\ ln = Current(w).line /\ n = Current(w).qty
        /\ t.got = [tx[w].got EXCEPT ![ln] = tx[w].read[ln] + n]
        /\ t.items = tx[w].items /\ t.k = tx[w].k
  BY UpdateLineEffect
<1>2. /\ tx[w].k \in 1..Len(tx[w].items) /\ ln = tx[w].items[tx[w].k].line
      /\ Len(tx[w].items) \in Nat
  BY <1>0, <1>1, ItemType, TxTypes
<1>3. /\ \A i, j \in 1..Len(t.items) : t.items[i].line = t.items[j].line => i = j
      /\ \A j \in 1..Len(t.items) :
           /\ t.items[j].line \in present
           /\ j > t.k \/ j = t.k => tx[w].got[t.items[j].line] = 0
      /\ \A l \in Lines \ present : tx[w].got[l] = 0
  BY <1>1 DEF OInv, Own
<1>4. ASSUME NEW j \in 1..Len(t.items), j > t.k PROVE t.got[t.items[j].line] = 0
  <2>1. t.items[j].line # ln /\ t.items[j].line \in Lines
    BY <1>0, <1>1, <1>2, <1>3, <1>4 DEF TypeOK
  <2>2. tx[w].got \in [Lines -> Nat] /\ tx[w].got[t.items[j].line] = 0
    BY <1>0, <1>3, <1>4, TxTypes
  <2> QED
    BY <1>1, <2>1, <2>2
<1>5. \A l \in Lines \ present : t.got[l] = 0
  <2>1. ln \in present
    <3>1. t.k \in 1..Len(t.items) /\ ln = t.items[t.k].line
      BY <1>1, <1>2
    <3>2. \A j \in 1..Len(t.items) : t.items[j].line \in present
      BY <1>3
    <3> QED
      BY <3>1, <3>2
  <2>2. tx[w].got \in [Lines -> Nat]
    BY <1>0, TxTypes
  <2> QED
    BY <1>1, <1>3, <2>1, <2>2
<1>6. Own("find", t)
  BY <1>3, <1>4, <1>5 DEF Own
<1> QED
  BY <1>0, <1>1, <1>6, OwnGoto, OwnRows

LEMMA StoreStockOwn ==
  ASSUME IInv, TInv, OInv, NEW w \in Workers, StoreStock(w) PROVE OInv'
<1>0. TypeOK
  BY DEF TInv
<1>1. PICK t \in Tx, next \in {"update", "judge"}, c \in Cells, k \in Workers, n \in Nat \ {0} :
        Stored(w, next, t, c, k, n)
  BY StoreStockEffect
<1>2. /\ pc[w] = "store" /\ Goto(w, next, t) /\ UNCHANGED <<rows, met>>
      /\ t.move = [tx[w].move EXCEPT ![c] = @ + n]
      /\ t.got = tx[w].got /\ t.items = tx[w].items /\ t.k = tx[w].k + 1
  BY <1>1 DEF Stored
<1>3. tx[w].move \in [Cells -> Nat] /\ tx[w].k \in Nat /\ Len(tx[w].items) \in Nat
  BY <1>0, TxTypes
<1>4. t.move[c] > 0
  BY <1>2, <1>3
<1>5. /\ \A i, j \in 1..Len(t.items) : t.items[i].line = t.items[j].line => i = j
      /\ \A j \in 1..Len(t.items) :
           /\ t.items[j].line \in present
           /\ j > tx[w].k => t.got[t.items[j].line] = 0
      /\ \A l \in Lines \ present : t.got[l] = 0
  BY <1>2 DEF OInv, Own
<1>6. \A j \in 1..Len(t.items) : j > t.k \/ j = t.k => j > tx[w].k
  BY <1>2, <1>3
<1>7. Own(next, t)
  BY <1>4, <1>5, <1>6 DEF Own
<1> QED
  BY <1>0, <1>2, <1>7, OwnGoto, OwnRows

LEMMA InnerOwn ==
  ASSUME IInv, TInv, OInv, NEW w \in Workers, Inner(w) PROVE OInv'
<1>0. TypeOK
  BY DEF TInv
<1>1. CASE FindStock(w)
  <2>1. PICK t : /\ pc[w] = "find" /\ Goto(w, "store", t) /\ UNCHANGED <<rows, met>>
                 /\ t.items = tx[w].items /\ t.k = tx[w].k /\ t.got = tx[w].got
    BY <1>1, FindStockEffect
  <2>2. Own("store", t)
    BY <2>1 DEF OInv, Own
  <2> QED
    BY <1>0, <2>1, <2>2, OwnGoto, OwnRows
<1>2. CASE Judge(w)
  <2>1. PICK t : /\ pc[w] = "judge" /\ Goto(w, "commit", t) /\ UNCHANGED <<rows, met>>
                 /\ t.next = IF Complete(w) THEN "RECEIVED" ELSE "PARTIALLY_RECEIVED"
                 /\ t.got = tx[w].got /\ t.move = tx[w].move
    BY <1>0, <1>2, JudgeEffect
  <2>2. Own("commit", t)
    BY <2>1 DEF OInv, Own
  <2> QED
    BY <1>0, <2>1, <2>2, OwnGoto, OwnRows
<1> QED
  BY <1>1, <1>2, ReadLinesOwn, UpdateLineOwn, StoreStockOwn DEF Inner

\* Only lines that exist are written, and a receipt with movements is no draft.
LEMMA CommitOwn ==
  ASSUME TInv, OInv, NEW w \in Workers, Commit(w) PROVE OInv'
<1>0. TypeOK
  BY DEF TInv
<1>1. PICK r \in Receipts :
        /\ pc[w] = "commit" /\ Goto(w, "idle", NoTx(w)) /\ present' = present
        /\ status' = [status EXCEPT ![r] = tx[w].next]
        /\ \A ln \in Lines : received'[ln] = ReceivedIn(w, ln)
        /\ \A q \in Receipts \ {r} : moved'[q] = moved[q]
  BY CommitEffect
<1>2. Own("commit", tx[w]) /\ Unused
  BY <1>1 DEF OInv
<1>3. tx[w].next \notin {"NONE", "DRAFT"}
  BY <1>2 DEF Own
<1>4. \A ln \in Lines \ present' : received'[ln] = 0
  BY <1>1, <1>2 DEF Own, Unused, ReceivedIn
<1>5. \A q \in Receipts : status'[q] \in {"NONE", "DRAFT"} => \A x \in Cells : moved'[q][x] = 0
  BY <1>0, <1>1, <1>2, <1>3 DEF Unused, TypeOK
<1>6. Unused'
  BY <1>4, <1>5 DEF Unused
<1>7. PICK t : t = NoTx(w)
  OBVIOUS
<1> QED
  BY <1>0, <1>1, <1>6, <1>7, OwnIdle, OwnGoto

LEMMA OwnStep == IInv /\ TInv /\ OInv /\ [Next]_vars => OInv'
<1> SUFFICES ASSUME IInv, TInv, OInv, [Next]_vars PROVE OInv'
  OBVIOUS
<1>0. TypeOK
  BY DEF TInv
<1>1. CASE UNCHANGED vars \/ \E r \in Receipts : CreateReceipt(r)
  <2>1. pc' = pc /\ tx' = tx /\ present' = present /\ received' = received /\ moved' = moved
    BY <1>1 DEF vars, rows, CreateReceipt
  <2>2. \A r \in Receipts : status'[r] \in {"NONE", "DRAFT"} => status[r] \in {"NONE", "DRAFT"}
    BY <1>0, <1>1 DEF vars, rows, CreateReceipt, TypeOK
  <2>3. Unused'
    BY <2>1, <2>2 DEF OInv, Unused
  <2> QED
    BY <2>1, <2>3 DEF OInv, Own
<1>2. ASSUME NEW w \in Workers, Begins(w) PROVE OInv'
  <2>1. PICK r, next, t : Started(w, r, next, t)
    BY <1>2 DEF Begins
  <2>2. Own(next, t)
    BY <2>1 DEF Started, Own, NoQty
  <2> QED
    BY <1>0, <2>1, <2>2, OwnGoto, OwnRows DEF Started
<1>3. ASSUME NEW w \in Workers, Quits(w) PROVE OInv'
  <2>1. PICK t : t = NoTx(w)
    OBVIOUS
  <2> QED
    BY <1>0, <1>3, <2>1, OwnIdle, OwnGoto, OwnRows DEF Quits
<1>4. ASSUME NEW w \in Workers, InsertLine(w) \/ Close(w) PROVE OInv'
  <2>1. /\ Goto(w, "idle", NoTx(w)) /\ present \subseteq present'
        /\ received' = received /\ moved' = moved
    BY <1>4 DEF InsertLine, Close
  <2>2. \A r \in Receipts : status'[r] \in {"NONE", "DRAFT"} => status[r] \in {"NONE", "DRAFT"}
    BY <1>0, <1>4 DEF InsertLine, Close, TypeOK
  <2>3. Unused'
    BY <2>1, <2>2 DEF OInv, Unused
  <2>4. PICK t : t = NoTx(w)
    OBVIOUS
  <2> QED
    BY <1>0, <2>1, <2>3, <2>4, OwnIdle, OwnGoto
<1>5. ASSUME NEW w \in Workers, Closes(w) PROVE OInv'
  <2>1. PICK t : t = tx[w]
    OBVIOUS
  <2>2. Own("close", t)
    BY <1>5, <2>1 DEF Closes, OInv, Own
  <2> QED
    BY <1>0, <1>5, <2>1, <2>2, OwnGoto, OwnRows DEF Closes
<1> QED
  BY <1>1, <1>2, <1>3, <1>4, <1>5, InnerOwn, CommitOwn, StepKinds

LEMMA OwnInit == Init => OInv
BY OwnIdle DEF Init, OInv, Unused, NoQty, NoMove

-----------------------------------------------------------------------------
(***************************************************************************)
(* As long as no two requests for r meet, the one under way has read what  *)
(* is there, and what it wrote and what it moved are the same quantities.  *)
(***************************************************************************)
Row(t, ln) == IF t.got[ln] > 0 THEN t.got[ln] ELSE received[ln]
Total(t, r, p) == SumFunctionOnSet([ln \in Lines |-> Row(t, ln)], LinesFor(r, p))

Even(r) ==
  /\ \A p \in Products : SumFunctionOnSet(received, LinesFor(r, p)) = MovedOf(r, p)
  /\ status[r] = "PARTIALLY_RECEIVED" => Pending(r) # {} /\ \E x \in Cells : moved[r][x] > 0
  /\ status[r] = "RECEIVED" => Pending(r) = {}

InStep(c, t, r) ==
  /\ c = "insert" => status[r] = "DRAFT"
  /\ c = "close" => Pending(r) = {}
  /\ c \in {"update", "find", "store", "judge"} =>
       /\ t.seen = LinesOf(r)
       /\ \A ln \in Lines : ReceiptOf[ln] = r => t.read[ln] = received[ln]
  /\ \A p \in Products : Total(t, r, p) = MovedOf(r, p) + Brings(c, t, r, p)
  /\ c = "commit" =>
       (t.next = "RECEIVED" <=> \A ln \in LinesOf(r) : Row(t, ln) >= Expected[ln])

BInv ==
  \A r \in Receipts : Quiet(r) =>
    Even(r) /\ \A w \in Workers : tx[w].receipt = r => InStep(pc[w], tx[w], r)

LEMMA LinesForFinite ==
  \A r : \A p : IsFiniteSet(LinesFor(r, p)) /\ LinesFor(r, p) \subseteq Lines
BY ReceivingAssumption, FS_Subset DEF LinesFor

\* Totals depend on what is written and received of the receipt's lines.
LEMMA TotalSame ==
  ASSUME NEW t, NEW u, NEW r, NEW p, t.got = u.got
  PROVE  Total(t, r, p) = Total(u, r, p)
BY DEF Total, Row

LEMMA TotalNothing ==
  ASSUME TypeOK, NEW t, NEW r, NEW p, t.got = NoQty
  PROVE  Total(t, r, p) = SumFunctionOnSet(received, LinesFor(r, p))
<1>1. PICK f : f = [ln \in Lines |-> Row(t, ln)]
  OBVIOUS
<1>2. \A ln \in LinesFor(r, p) : f[ln] = received[ln]
  BY <1>1, LinesForFinite DEF Row, NoQty
<1>3. SumFunctionOnSet(f, LinesFor(r, p)) = SumFunctionOnSet(received, LinesFor(r, p))
  BY <1>2, LinesForFinite, SumAgree
<1> QED
  BY <1>1, <1>3 DEF Total

\* Neither r nor what it has is touched.
Untouched(r) ==
  /\ status'[r] = status[r] /\ moved'[r] = moved[r]
  /\ \A ln \in Lines : ReceiptOf[ln] = r =>
       received'[ln] = received[ln] /\ (ln \in present' <=> ln \in present)

LEMMA UntouchedRows ==
  ASSUME TInv, TInv', NEW r, Untouched(r)
  PROVE  /\ LinesOf(r)' = LinesOf(r) /\ Pending(r)' = Pending(r)
         /\ \A p \in Products :
              /\ MovedOf(r, p)' = MovedOf(r, p)
              /\ SumFunctionOnSet(received', LinesFor(r, p))
                   = SumFunctionOnSet(received, LinesFor(r, p))
<1>1. LinesOf(r)' = LinesOf(r)
  BY DEF Untouched, LinesOf, TInv, TypeOK
<1>2. Pending(r)' = Pending(r)
  BY <1>1 DEF Pending, Untouched, LinesOf, TInv, TypeOK
<1>3. ASSUME NEW p \in Products
      PROVE  SumFunctionOnSet(received', LinesFor(r, p)) = SumFunctionOnSet(received, LinesFor(r, p))
  <2>1. PICK f, g : f = received' /\ g = received
    OBVIOUS
  <2>2. \A ln \in LinesFor(r, p) : f[ln] = g[ln]
    BY <2>1 DEF Untouched, LinesFor
  <2>3. SumFunctionOnSet(f, LinesFor(r, p)) = SumFunctionOnSet(g, LinesFor(r, p))
    BY <2>2, LinesForFinite, SumAgree
  <2> QED
    BY <2>1, <2>3
<1>4. \A p \in Products : MovedOf(r, p)' = MovedOf(r, p)
  BY DEF Untouched, MovedOf
<1> QED
  BY <1>1, <1>2, <1>3, <1>4

LEMMA EvenSame ==
  ASSUME TInv, TInv', NEW r, Untouched(r), Even(r)
  PROVE  Even(r)'
<1>1. Pending(r)' = Pending(r)
  BY UntouchedRows
<1>2. \A p \in Products : SumFunctionOnSet(received', LinesFor(r, p)) = MovedOf(r, p)'
  BY UntouchedRows DEF Even
<1> QED
  BY <1>1, <1>2 DEF Even, Untouched, LinesFor

LEMMA InStepSame ==
  ASSUME TInv, TInv', NEW r, Untouched(r), NEW c, NEW t, InStep(c, t, r)
  PROVE  InStep(c, t, r)'
<1>1. /\ LinesOf(r)' = LinesOf(r) /\ Pending(r)' = Pending(r)
      /\ \A p \in Products : MovedOf(r, p)' = MovedOf(r, p)
  BY UntouchedRows
<1>2. ASSUME NEW p \in Products PROVE Total(t, r, p)' = Total(t, r, p)
  <2>1. PICK f, g : f = [ln \in Lines |-> Row(t, ln)'] /\ g = [ln \in Lines |-> Row(t, ln)]
    OBVIOUS
  <2>2. \A ln \in LinesFor(r, p) : f[ln] = g[ln]
    BY <2>1 DEF Untouched, LinesFor, Row
  <2>3. SumFunctionOnSet(f, LinesFor(r, p)) = SumFunctionOnSet(g, LinesFor(r, p))
    BY <2>2, LinesForFinite, SumAgree
  <2> QED
    BY <2>1, <2>3 DEF Total, LinesFor
<1>3. \A p \in Products : Total(t, r, p)' = MovedOf(r, p)' + Brings(c, t, r, p)
  BY <1>1, <1>2 DEF InStep
<1>4. \A ln \in LinesOf(r) : Row(t, ln)' = Row(t, ln)
  BY DEF Untouched, LinesOf, Row, TInv, TypeOK
<1>5. c = "commit" => (t.next = "RECEIVED" <=> \A ln \in LinesOf(r)' : Row(t, ln)' >= Expected[ln])
  BY <1>1, <1>4 DEF InStep
<1>6. /\ c = "insert" => status'[r] = "DRAFT"
      /\ c = "close" => Pending(r)' = {}
      /\ c \in {"update", "find", "store", "judge"} =>
           /\ t.seen = LinesOf(r)'
           /\ \A ln \in Lines : ReceiptOf[ln] = r => t.read[ln] = received'[ln]
  BY <1>1 DEF InStep, Untouched
<1> QED
  BY <1>3, <1>5, <1>6 DEF InStep, Brings, Unmoved, At

\* A statement of one request that changes no row.
LEMMA BalanceKeep ==
  ASSUME TInv, TInv', BInv, NEW w \in Workers, NEW next, NEW t, Goto(w, next, t), UNCHANGED rows,
         met \subseteq met', \A r \in Receipts : t.receipt = r /\ {r} \notin met' => InStep(next, t, r)
  PROVE  BInv'
<1> SUFFICES ASSUME NEW r \in Receipts, {r} \notin met'
    PROVE  Even(r)' /\ \A v \in Workers : tx'[v].receipt = r => InStep(pc[v], tx[v], r)'
  BY DEF BInv, Quiet
<1>1. /\ pc'[w] = next /\ tx'[w] = t
      /\ \A v \in Workers \ {w} : pc'[v] = pc[v] /\ tx'[v] = tx[v]
  BY GotoAt DEF TInv
<1>2. Untouched(r)
  BY DEF Untouched, rows
<1>3. Even(r)'
  BY <1>2, EvenSame DEF BInv, Quiet
<1>4. ASSUME NEW v \in Workers, tx'[v].receipt = r PROVE InStep(pc[v], tx[v], r)'
  <2>1. PICK c, u : c = pc'[v] /\ u = tx'[v]
    OBVIOUS
  <2>2. InStep(c, u, r)
    BY <1>1, <1>4, <2>1 DEF BInv, Quiet
  <2>3. InStep(c, u, r)'
    BY <1>2, <2>2, InStepSame
  <2> QED
    BY <2>1, <2>3, SMTT(60) DEF InStep, Total, Row, Brings, Unmoved, At, LinesFor
<1> QED
  BY <1>3, <1>4

\* A request ends and changes rows of its receipt, which no other request serves.
LEMMA BalanceEnd ==
  ASSUME TInv, TInv', MInv, BInv, NEW w \in Workers, pc[w] # "idle", Goto(w, "idle", NoTx(w)),
         met' = met, NEW q \in Receipts, q = tx[w].receipt,
         \A r \in Receipts \ {q} : Untouched(r), {q} \notin met => Even(q)'
  PROVE  BInv'
<1> SUFFICES ASSUME NEW r \in Receipts, {r} \notin met
    PROVE  Even(r)' /\ \A v \in Workers : tx'[v].receipt = r => InStep(pc[v], tx[v], r)'
  BY DEF BInv, Quiet
<1>1. /\ pc'[w] = "idle" /\ tx'[w] = NoTx(w)
      /\ \A v \in Workers \ {w} : pc'[v] = pc[v] /\ tx'[v] = tx[v]
  BY GotoAt DEF TInv
<1>2. NoTx(w).receipt \notin Receipts
  BY NoTxType, ReceivingAssumption
<1>3. CASE r = q
  <2>1. ASSUME NEW v \in Workers \ {w} PROVE tx[v].receipt # q
    <3>1. CASE pc[v] = "idle"
      BY <3>1, NoTxType, ReceivingAssumption DEF MInv, Ended
    <3>2. CASE pc[v] # "idle"
      <4>1. {tx[v].receipt, tx[w].receipt} \in met
        BY <3>2 DEF MInv, Overlaps
      <4>2. tx[v].receipt = q => {tx[v].receipt, tx[w].receipt} = {r}
        BY <1>3
      <4> QED
        BY <4>1, <4>2
    <3> QED
      BY <3>1, <3>2
  <2> QED
    BY <1>1, <1>2, <1>3, <2>1
<1>4. CASE r # q
  <2>1. Untouched(r)
    BY <1>4
  <2>2. Even(r)'
    BY <2>1, EvenSame DEF BInv, Quiet
  <2>3. ASSUME NEW v \in Workers, tx'[v].receipt = r PROVE InStep(pc[v], tx[v], r)'
    <3>1. v # w
      BY <1>1, <1>2, <2>3
    <3>2. PICK c, u : c = pc'[v] /\ u = tx'[v]
      OBVIOUS
    <3>3. InStep(c, u, r)
      BY <1>1, <2>3, <3>1, <3>2 DEF BInv, Quiet
    <3>4. InStep(c, u, r)'
      BY <2>1, <3>3, InStepSame
    <3> QED
      BY <3>2, <3>4 DEF InStep, Total, Row, Brings, Unmoved, At, LinesFor
  <2> QED
    BY <2>2, <2>3
<1> QED
  BY <1>3, <1>4

LEMMA StartBalance ==
  ASSUME TInv, TInv', BInv, NEW w \in Workers, NEW r, NEW next, NEW t, Started(w, r, next, t)
  PROVE  BInv'
<1>1. /\ r \in Receipts /\ next \in {"insert", "lines", "pending"}
      /\ Goto(w, next, t) /\ UNCHANGED rows /\ met \subseteq met'
      /\ t.receipt = r /\ t.got = NoQty /\ t.move = NoMove
      /\ next = "insert" => status[r] = "DRAFT"
  BY DEF Started
<1>2. ASSUME {r} \notin met' PROVE InStep(next, t, r)
  <2>1. Even(r)
    BY <1>1, <1>2 DEF BInv, Quiet
  <2>2. ASSUME NEW p \in Products PROVE Total(t, r, p) = MovedOf(r, p) + Brings(next, t, r, p)
    <3>1. \A x \in At(p) : t.move[x] = 0
      BY <1>1, AtFinite DEF NoMove
    <3>2. SumFunctionOnSet(t.move, At(p)) = 0
      BY <3>1, AtFinite, SumZero
    <3>3. Brings(next, t, r, p) = 0
      BY <1>1, <3>2 DEF Brings, Unmoved
    <3>4. Total(t, r, p) = MovedOf(r, p)
      BY <1>1, <2>1, TotalNothing DEF Even, TInv
    <3>5. MovedOf(r, p) \in Int
      <4>1. MovedOf(r, p) = SumFunctionOnSet(moved[r], At(p))
        BY DEF MovedOf, At
      <4>2. \A x \in At(p) : moved[r][x] \in Int
        BY <1>1, AtFinite DEF TInv, TypeOK
      <4> QED
        BY <4>1, <4>2, AtFinite, SumInt
    <3> QED
      BY <3>3, <3>4, <3>5
  <2> QED
    BY <1>1, <2>2 DEF InStep
<1> QED
  BY <1>1, <1>2, BalanceKeep

LEMMA ReadLinesBalance ==
  ASSUME IInv, TInv, TInv', OInv, BInv, NEW w \in Workers, ReadLines(w) PROVE BInv'
<1>1. PICK t \in Tx :
        /\ pc[w] = "lines" /\ Goto(w, "update", t) /\ UNCHANGED <<rows, met>>
        /\ t.receipt = tx[w].receipt /\ t.got = tx[w].got /\ t.move = tx[w].move
        /\ t.seen = LinesOf(t.receipt)
        /\ t.read = [ln \in Lines |-> IF ln \in LinesOf(t.receipt) THEN received[ln] ELSE 0]
  BY ReadLinesEffect DEF TInv
<1>2. ASSUME NEW r \in Receipts, t.receipt = r, {r} \notin met PROVE InStep("update", t, r)
  <2>1. InStep(pc[w], tx[w], r)
    BY <1>1, <1>2 DEF BInv, Quiet
  <2>2. \A ln \in Lines : ReceiptOf[ln] = r => t.read[ln] = received[ln]
    BY <1>1, <1>2 DEF LinesOf, OInv, Unused
  <2>3. ASSUME NEW p \in Products
        PROVE  Total(t, r, p) = MovedOf(r, p) + Brings("update", t, r, p)
    <3>1. Total(t, r, p) = Total(tx[w], r, p)
      BY <1>1, TotalSame
    <3>2. Brings("update", t, r, p) = Brings(pc[w], tx[w], r, p)
      BY <1>1 DEF Brings, Unmoved
    <3> QED
      BY <2>1, <3>1, <3>2 DEF InStep
  <2> QED
    BY <1>1, <1>2, <2>2, <2>3 DEF InStep
<1> QED
  BY <1>1, <1>2, BalanceKeep

LEMMA FindStockBalance ==
  ASSUME IInv, TInv, TInv', BInv, NEW w \in Workers, FindStock(w) PROVE BInv'
<1>1. PICK t \in Tx :
        /\ pc[w] = "find" /\ Goto(w, "store", t) /\ UNCHANGED <<rows, met>>
        /\ t.receipt = tx[w].receipt /\ t.read = tx[w].read /\ t.seen = tx[w].seen
        /\ t.move = tx[w].move /\ t.items = tx[w].items /\ t.k = tx[w].k /\ t.got = tx[w].got
  BY FindStockEffect
<1>2. ASSUME NEW r \in Receipts, t.receipt = r, {r} \notin met PROVE InStep("store", t, r)
  <2>1. InStep(pc[w], tx[w], r)
    BY <1>1, <1>2 DEF BInv, Quiet
  <2>2. ASSUME NEW p \in Products
        PROVE  Total(t, r, p) = MovedOf(r, p) + Brings("store", t, r, p)
    <3>1. Total(t, r, p) = Total(tx[w], r, p)
      BY <1>1, TotalSame
    <3>2. Brings("store", t, r, p) = Brings(pc[w], tx[w], r, p)
      BY <1>1 DEF Brings, Unmoved
    <3> QED
      BY <2>1, <3>1, <3>2 DEF InStep
  <2> QED
    BY <1>1, <2>1, <2>2 DEF InStep
<1> QED
  BY <1>1, <1>2, BalanceKeep

LEMMA StoreStockBalance ==
  ASSUME IInv, TInv, TInv', BInv, NEW w \in Workers, StoreStock(w) PROVE BInv'
<1>0. PICK t \in Tx, next \in {"update", "judge"}, c \in Cells, k \in Workers, n \in Nat \ {0} :
        Stored(w, next, t, c, k, n)
  BY StoreStockEffect
<1>1. /\ pc[w] = "store" /\ Goto(w, next, t) /\ UNCHANGED <<rows, met>>
      /\ t.receipt = tx[w].receipt /\ t.read = tx[w].read /\ t.seen = tx[w].seen
      /\ t.got = tx[w].got
  BY <1>0 DEF Stored
<1>2. ASSUME NEW r \in Receipts, t.receipt = r, {r} \notin met PROVE InStep(next, t, r)
  <2>1. InStep(pc[w], tx[w], r)
    BY <1>1, <1>2 DEF BInv, Quiet
  <2>2. ASSUME NEW p \in Products PROVE Total(t, r, p) = MovedOf(r, p) + Brings(next, t, r, p)
    <3>1. Total(t, r, p) = Total(tx[w], r, p)
      BY <1>1, TotalSame
    <3>2. SumFunctionOnSet(t.move, At(p))
            = SumFunctionOnSet(tx[w].move, At(p)) + Unmoved(pc[w], tx[w], p)
      BY <1>0, StoreStockMoves
    <3>3. Unmoved(next, t, p) = 0
      BY DEF Unmoved
    <3>4. SumFunctionOnSet(tx[w].move, At(p)) \in Nat /\ Unmoved(pc[w], tx[w], p) \in Nat
      BY BringsType
    <3>5. Brings(next, t, r, p) = Brings(pc[w], tx[w], r, p)
      BY <1>1, <1>2, <3>2, <3>3, <3>4 DEF Brings
    <3> QED
      BY <2>1, <3>1, <3>5 DEF InStep
  <2> QED
    BY <1>1, <2>1, <2>2 DEF InStep
<1> QED
  BY <1>1, <1>2, BalanceKeep

\* The line holds what was read, so it grows by the quantity of the item.
LEMMA UpdateLineBalance ==
  ASSUME IInv, TInv, TInv', OInv, BInv, NEW w \in Workers, UpdateLine(w) PROVE BInv'
<1>1. PICK t \in Tx, ln \in Lines, n \in Nat \ {0} :
        /\ pc[w] = "update" /\ Goto(w, "find", t) /\ UNCHANGED <<rows, met>>
        /\ ln = Current(w).line /\ n = Current(w).qty
        /\ t.got = [tx[w].got EXCEPT ![ln] = tx[w].read[ln] + n]
        /\ t.receipt = tx[w].receipt /\ t.read = tx[w].read /\ t.seen = tx[w].seen
        /\ t.move = tx[w].move /\ t.items = tx[w].items /\ t.k = tx[w].k
  BY UpdateLineEffect
<1>2. TypeOK /\ n \in Nat
  BY DEF TInv
<1>3. /\ tx[w].got \in [Lines -> Nat] /\ tx[w].read \in [Lines -> Nat]
      /\ received \in [Lines -> Nat]
  BY <1>2, TxTypes DEF TypeOK
<1>4. ReceiptOf[ln] = tx[w].receipt /\ tx[w].got[ln] = 0
  <2>1. tx[w].k \in 1..Len(tx[w].items) /\ ln = tx[w].items[tx[w].k].line
    BY <1>1, ItemType
  <2>2. \A j \in 1..Len(tx[w].items) : j = tx[w].k => tx[w].got[tx[w].items[j].line] = 0
    BY <1>1 DEF OInv, Own
  <2>3. ReceiptOf[ln] = tx[w].receipt
    BY <1>1, ItemType
  <2> QED
    BY <2>1, <2>2, <2>3
<1>5. ASSUME NEW r \in Receipts, t.receipt = r, {r} \notin met PROVE InStep("find", t, r)
  <2>1. InStep(pc[w], tx[w], r)
    BY <1>1, <1>5 DEF BInv, Quiet
  <2>2. tx[w].read[ln] = received[ln]
    BY <1>1, <1>4, <1>5, <2>1 DEF InStep
  <2>3. ASSUME NEW p \in Products
        PROVE  Total(t, r, p) = MovedOf(r, p) + Brings("find", t, r, p)
    <3>1. PICK f, g : /\ f = [j \in Lines |-> Row(tx[w], j)]
                      /\ g = [j \in Lines |-> Row(t, j)]
      OBVIOUS
    <3>2. \A j \in Lines : f[j] \in Nat /\ g[j] \in Nat
      BY <1>1, <1>3, <3>1 DEF Row
    <3>3. \A j \in Lines \ {ln} : f[j] = g[j]
      BY <1>1, <1>3, <3>1 DEF Row
    <3>4. f[ln] = received[ln] /\ g[ln] = received[ln] + n
      BY <1>1, <1>2, <1>3, <1>4, <2>2, <3>1 DEF Row
    <3>5. PICK a, b : /\ a = SumFunctionOnSet(f, LinesFor(r, p))
                      /\ b = SumFunctionOnSet(g, LinesFor(r, p))
      OBVIOUS
    <3>6. a \in Int
      BY <3>2, <3>5, LinesForFinite, SumInt
    <3>7. b = a + IF ln \in LinesFor(r, p) THEN n ELSE 0
      <4>1. CASE ln \in LinesFor(r, p)
        <5>1. /\ \A j \in LinesFor(r, p) : f[j] \in Int /\ g[j] \in Int
              /\ \A j \in LinesFor(r, p) \ {ln} : f[j] = g[j]
          BY <3>2, <3>3, LinesForFinite
        <5>2. b = a - f[ln] + g[ln]
          BY <3>5, <4>1, <5>1, LinesForFinite, SumUpdate
        <5>3. received[ln] \in Int
          BY <1>3
        <5> QED
          BY <1>2, <3>4, <3>6, <4>1, <5>2, <5>3
      <4>2. CASE ln \notin LinesFor(r, p)
        <5>1. \A j \in LinesFor(r, p) : f[j] = g[j]
          BY <3>3, <4>2, LinesForFinite
        <5>2. a = b
          BY <3>5, <5>1, LinesForFinite, SumAgree
        <5> QED
          BY <3>6, <4>2, <5>2
      <4> QED
        BY <4>1, <4>2
    <3>8. Brings("find", t, r, p)
            = Brings(pc[w], tx[w], r, p) + IF ln \in LinesFor(r, p) THEN n ELSE 0
      BY <1>1, <1>2, UpdateLineBrings
    <3>9. Total(tx[w], r, p) = a /\ Total(t, r, p) = b
      BY <3>1, <3>5 DEF Total
    <3>10. a = MovedOf(r, p) + Brings(pc[w], tx[w], r, p)
      BY <2>1, <3>9 DEF InStep
    <3>11. Brings(pc[w], tx[w], r, p) \in Nat /\ MovedOf(r, p) \in Nat
      BY BringsType, LinesTyped DEF LineQuantities, Quantities
    <3> QED
      BY <1>2, <3>7, <3>8, <3>9, <3>10, <3>11
  <2> QED
    BY <1>1, <2>1, <2>3 DEF InStep
<1> QED
  BY <1>1, <1>5, BalanceKeep

\* Both ways to look at the lines see what will be stored.
LEMMA JudgeBalance ==
  ASSUME IInv, TInv, TInv', BInv, NEW w \in Workers, Judge(w) PROVE BInv'
<1>1. PICK t \in Tx :
        /\ pc[w] = "judge" /\ Goto(w, "commit", t) /\ UNCHANGED <<rows, met>>
        /\ t.next = IF Complete(w) THEN "RECEIVED" ELSE "PARTIALLY_RECEIVED"
        /\ t.receipt = tx[w].receipt /\ t.got = tx[w].got /\ t.move = tx[w].move
  BY JudgeEffect DEF TInv
<1>2. ASSUME NEW r \in Receipts, t.receipt = r, {r} \notin met PROVE InStep("commit", t, r)
  <2>1. InStep(pc[w], tx[w], r)
    BY <1>1, <1>2 DEF BInv, Quiet
  <2>2. ASSUME NEW p \in Products
        PROVE  Total(t, r, p) = MovedOf(r, p) + Brings("commit", t, r, p)
    <3>1. Total(t, r, p) = Total(tx[w], r, p)
      BY <1>1, TotalSame
    <3>2. Brings("commit", t, r, p) = Brings(pc[w], tx[w], r, p)
      BY <1>1 DEF Brings, Unmoved
    <3> QED
      BY <2>1, <3>1, <3>2 DEF InStep
  <2>3. Complete(w) <=> \A ln \in LinesOf(r) : Row(t, ln) >= Expected[ln]
    <3>1. /\ tx[w].seen = LinesOf(r) /\ tx[w].receipt = r
          /\ \A ln \in LinesOf(r) : tx[w].read[ln] = received[ln]
      BY <1>1, <1>2, <2>1 DEF InStep, LinesOf, TInv, TypeOK
    <3> QED
      BY <1>1, <3>1 DEF Complete, ReceivedIn, Row
  <2>4. t.next = "RECEIVED" <=> \A ln \in LinesOf(r) : Row(t, ln) >= Expected[ln]
    BY <1>1, <2>3
  <2> QED
    BY <2>2, <2>4 DEF InStep
<1> QED
  BY <1>1, <1>2, BalanceKeep

LEMMA CloseBalance ==
  ASSUME TInv, TInv', MInv, OInv, BInv, NEW w \in Workers,
         Closes(w) \/ InsertLine(w) \/ Close(w)
  PROVE  BInv'
<1>1. CASE Closes(w)
  <2>1. PICK t : /\ t = tx[w] /\ pc[w] = "pending" /\ Goto(w, "close", t)
                 /\ UNCHANGED <<rows, met>> /\ Pending(t.receipt) = {}
    BY <1>1 DEF Closes
  <2>2. ASSUME NEW r \in Receipts, t.receipt = r, {r} \notin met PROVE InStep("close", t, r)
    <3>1. InStep(pc[w], tx[w], r)
      BY <2>1, <2>2 DEF BInv, Quiet
    <3>2. \A p \in Products : Brings("close", t, r, p) = Brings(pc[w], tx[w], r, p)
      BY <2>1 DEF Brings, Unmoved
    <3> QED
      BY <2>1, <2>2, <3>1, <3>2 DEF InStep
  <2> QED
    BY <2>1, <2>2, BalanceKeep
<1>2. CASE InsertLine(w)
  <2>1. /\ pc[w] = "insert" /\ present' = present \cup tx[w].seen /\ Goto(w, "idle", NoTx(w))
        /\ UNCHANGED <<status, received, stock, moved, met>>
    BY <1>2 DEF InsertLine
  <2>2. PICK q \in Receipts : q = tx[w].receipt
    BY <2>1 DEF TInv, Fits
  <2>3. \A ln \in tx[w].seen : ReceiptOf[ln] = q
    BY <2>1, <2>2 DEF OInv, Own
  <2>4. \A r \in Receipts \ {q} : Untouched(r)
    BY <2>1, <2>3 DEF Untouched
  <2>5. ASSUME {q} \notin met PROVE Even(q)'
    <3>1. Even(q) /\ status[q] = "DRAFT"
      BY <2>1, <2>2, <2>5 DEF BInv, Quiet, InStep
    <3>2. \A p \in Products : SumFunctionOnSet(received', LinesFor(q, p)) = MovedOf(q, p)'
      BY <2>1, <3>1 DEF Even, MovedOf
    <3> QED
      BY <2>1, <3>1, <3>2 DEF Even, LinesFor
  <2> QED
    BY <2>1, <2>2, <2>4, <2>5, BalanceEnd
<1>3. CASE Close(w)
  <2>1. /\ pc[w] = "close" /\ status' = [status EXCEPT ![tx[w].receipt] = "RECEIVED"]
        /\ Goto(w, "idle", NoTx(w)) /\ UNCHANGED <<present, received, stock, moved, met>>
    BY <1>3 DEF Close
  <2>2. PICK q \in Receipts : q = tx[w].receipt
    BY <2>1 DEF TInv, Fits
  <2>3. \A r \in Receipts \ {q} : Untouched(r)
    BY <2>1, <2>2 DEF Untouched, TInv, TypeOK
  <2>4. status'[q] = "RECEIVED"
    BY <2>1, <2>2 DEF TInv, TypeOK
  <2>5. ASSUME {q} \notin met PROVE Even(q)'
    <3>1. Even(q) /\ Pending(q) = {}
      BY <2>1, <2>2, <2>5 DEF BInv, Quiet, InStep
    <3>2. \A p \in Products : SumFunctionOnSet(received', LinesFor(q, p)) = MovedOf(q, p)'
      BY <2>1, <3>1 DEF Even, MovedOf
    <3>3. Pending(q)' = {}
      BY <2>1, <3>1 DEF Pending, LinesOf
    <3> QED
      BY <2>4, <3>2, <3>3 DEF Even, LinesFor
  <2> QED
    BY <2>1, <2>2, <2>3, <2>5, BalanceEnd
<1> QED
  BY <1>1, <1>2, <1>3

LEMMA CommitBalance ==
  ASSUME IInv, TInv, TInv', MInv, OInv, BInv, NEW w \in Workers, Commit(w) PROVE BInv'
<1>1. PICK q \in Receipts :
        /\ pc[w] = "commit" /\ q = tx[w].receipt /\ Goto(w, "idle", NoTx(w))
        /\ UNCHANGED <<present, met>>
        /\ status' = [status EXCEPT ![q] = tx[w].next]
        /\ \A ln \in Lines : received'[ln] = ReceivedIn(w, ln)
        /\ \A c \in Cells : moved'[q][c] = moved[q][c] + tx[w].move[c]
        /\ \A r \in Receipts \ {q} : moved'[r] = moved[r]
  BY CommitEffect
<1>2. \A ln \in Lines : tx[w].got[ln] > 0 => ReceiptOf[ln] = q
  BY <1>1 DEF TInv, Fits
<1>3. \A r \in Receipts \ {q} : Untouched(r)
  BY <1>1, <1>2 DEF Untouched, ReceivedIn, TInv, TypeOK
<1>4. ASSUME {q} \notin met PROVE Even(q)'
  <2>1. InStep("commit", tx[w], q)
    BY <1>1, <1>4 DEF BInv, Quiet
  <2>2. \A ln \in Lines : received'[ln] = Row(tx[w], ln)
    BY <1>1 DEF ReceivedIn, Row
  <2>3. ASSUME NEW p \in Products
        PROVE  SumFunctionOnSet(received', LinesFor(q, p)) = MovedOf(q, p)'
    <3>1. PICK f, g : f = received' /\ g = [ln \in Lines |-> Row(tx[w], ln)]
      OBVIOUS
    <3>2. \A ln \in LinesFor(q, p) : f[ln] = g[ln]
      BY <2>2, <3>1, LinesForFinite
    <3>3. SumFunctionOnSet(f, LinesFor(q, p)) = Total(tx[w], q, p)
      BY <3>1, <3>2, LinesForFinite, SumAgree DEF Total
    <3>4. Total(tx[w], q, p) = MovedOf(q, p) + SumFunctionOnSet(tx[w].move, At(p))
      <4>1. Unmoved("commit", tx[w], p) = 0 /\ SumFunctionOnSet(tx[w].move, At(p)) \in Nat
        BY BringsType DEF Unmoved
      <4>2. Brings("commit", tx[w], q, p) = SumFunctionOnSet(tx[w].move, At(p))
        BY <1>1, <4>1 DEF Brings
      <4> QED
        BY <2>1, <4>2 DEF InStep
    <3>5. PICK a, b, h : a = moved[q] /\ b = tx[w].move /\ h = moved'[q]
      OBVIOUS
    <3>6. \A x \in At(p) : a[x] \in Int /\ b[x] \in Int /\ h[x] = a[x] + b[x]
      BY <1>1, <3>5, AtFinite, TxTypes DEF TInv, TypeOK
    <3>7. SumFunctionOnSet(h, At(p)) = SumFunctionOnSet(a, At(p)) + SumFunctionOnSet(b, At(p))
      BY <3>6, AtFinite, SumPlus
    <3>8. MovedOf(q, p) = SumFunctionOnSet(a, At(p)) /\ MovedOf(q, p)' = SumFunctionOnSet(h, At(p))
      BY <3>5 DEF MovedOf, At
    <3> QED
      BY <3>1, <3>3, <3>4, <3>5, <3>7, <3>8
  <2>4. status'[q] = tx[w].next /\ tx[w].next \in {"RECEIVED", "PARTIALLY_RECEIVED"}
    BY <1>1 DEF OInv, Own, TInv, TypeOK
  <2>5. \E x \in Cells : moved'[q][x] > 0
    <3>1. PICK x \in Cells : tx[w].move[x] > 0
      BY <1>1 DEF OInv, Own
    <3>2. moved[q][x] \in Nat /\ tx[w].move[x] \in Nat
      BY TxTypes DEF TInv, TypeOK
    <3> QED
      BY <1>1, <3>1, <3>2
  <2>6. tx[w].next = "RECEIVED" <=> Pending(q)' = {}
    <3>1. LinesOf(q)' = LinesOf(q) /\ LinesOf(q) \subseteq Lines
      BY <1>1 DEF LinesOf, TInv, TypeOK
    <3>2. \A ln \in Lines : received'[ln] \in Nat /\ Expected[ln] \in Nat
      BY CapNat DEF TInv, TypeOK
    <3>3. tx[w].next = "RECEIVED" <=> \A ln \in LinesOf(q) : received'[ln] >= Expected[ln]
      BY <2>1, <2>2, <3>1 DEF InStep
    <3>4. Pending(q)' = {ln \in LinesOf(q) : received'[ln] < Expected[ln]}
      BY <3>1 DEF Pending
    <3> QED
      BY <3>1, <3>2, <3>3, <3>4
  <2> QED
    BY <2>3, <2>4, <2>5, <2>6 DEF Even, LinesFor
<1> QED
  BY <1>1, <1>3, <1>4, BalanceEnd

\* A new receipt is a draft, whoever may already refer to it.
LEMMA CreateBalance ==
  ASSUME TInv, TInv', BInv, NEW q \in Receipts, CreateReceipt(q) PROVE BInv'
<1>1. /\ status[q] = "NONE" /\ status' = [status EXCEPT ![q] = "DRAFT"]
      /\ UNCHANGED <<present, received, stock, moved, pc, tx, met>>
  BY DEF CreateReceipt
<1>2. status'[q] = "DRAFT" /\ \A r \in Receipts \ {q} : status'[r] = status[r]
  BY <1>1 DEF TInv, TypeOK
<1> SUFFICES ASSUME NEW r \in Receipts, {r} \notin met
    PROVE  Even(r)' /\ \A v \in Workers : tx[v].receipt = r => InStep(pc[v], tx[v], r)'
  BY <1>1 DEF BInv, Quiet
<1>3. Pending(r)' = Pending(r) /\ LinesOf(r)' = LinesOf(r)
  BY <1>1 DEF Pending, LinesOf
<1>4. \A p \in Products : MovedOf(r, p)' = MovedOf(r, p)
  BY <1>1 DEF MovedOf
<1>5. Even(r)'
  BY <1>1, <1>2, <1>3, <1>4 DEF BInv, Quiet, Even, LinesFor
<1>6. ASSUME NEW v \in Workers, tx[v].receipt = r PROVE InStep(pc[v], tx[v], r)'
  <2>1. PICK c, u : c = pc[v] /\ u = tx[v] /\ c = pc'[v] /\ u = tx'[v]
    BY <1>1
  <2>2. InStep(c, u, r)
    BY <1>6, <2>1 DEF BInv, Quiet
  <2>3. c = "insert" => status'[r] = "DRAFT"
    BY <1>1, <1>2, <2>2 DEF InStep
  <2>4. \A p \in Products : Total(u, r, p)' = Total(u, r, p)
    BY <1>1 DEF Total, Row, LinesFor
  <2>5. \A p \in Products : Total(u, r, p)' = MovedOf(r, p)' + Brings(c, u, r, p)
    BY <1>4, <2>2, <2>4 DEF InStep
  <2>6. InStep(c, u, r)'
    BY <1>1, <1>3, <2>2, <2>3, <2>5 DEF InStep, Row, Brings, Unmoved, At
  <2> QED
    BY <2>1, <2>6, SMTT(60) DEF InStep, Total, Row, Brings, Unmoved, At, LinesFor
<1> QED
  BY <1>5, <1>6

LEMMA BalanceStep == IInv /\ TInv /\ MInv /\ OInv /\ BInv /\ [Next]_vars => BInv'
<1> SUFFICES ASSUME IInv, TInv, MInv, OInv, BInv, [Next]_vars PROVE BInv'
  OBVIOUS
<1>0. TypeOK /\ TInv'
  BY NextTypes DEF TInv
<1>1. CASE UNCHANGED vars
  <2> SUFFICES ASSUME NEW r \in Receipts, {r} \notin met
      PROVE  Even(r)' /\ \A v \in Workers : tx[v].receipt = r => InStep(pc[v], tx[v], r)'
    BY <1>1 DEF vars, BInv, Quiet
  <2>1. Untouched(r) /\ Even(r)
    BY <1>1 DEF vars, rows, Untouched, BInv, Quiet
  <2>2. ASSUME NEW v \in Workers, tx[v].receipt = r PROVE InStep(pc[v], tx[v], r)'
    <3>1. PICK c, u : c = pc[v] /\ u = tx[v] /\ c = pc'[v] /\ u = tx'[v]
      BY <1>1 DEF vars
    <3>2. InStep(c, u, r)'
      BY <1>0, <2>1, <2>2, <3>1, InStepSame DEF BInv, Quiet
    <3> QED
      BY <3>1, <3>2, SMTT(60) DEF InStep, Total, Row, Brings, Unmoved, At, LinesFor
  <2> QED
    BY <1>0, <2>1, <2>2, EvenSame
<1>2. ASSUME NEW r \in Receipts, CreateReceipt(r) PROVE BInv'
  BY <1>0, <1>2, CreateBalance
<1>3. ASSUME NEW w \in Workers, Begins(w) PROVE BInv'
  BY <1>0, <1>3, StartBalance DEF Begins
<1>4. ASSUME NEW w \in Workers, Quits(w) PROVE BInv'
  <2>1. PICK t : t = NoTx(w) /\ t.receipt \notin Receipts
    BY NoTxType, ReceivingAssumption
  <2>2. \A r \in Receipts : t.receipt = r /\ {r} \notin met' => InStep("idle", t, r)
    BY <2>1
  <2> QED
    BY <1>0, <1>4, <2>1, <2>2, BalanceKeep DEF Quits
<1>5. ASSUME NEW w \in Workers, Inner(w) PROVE BInv'
  BY <1>0, <1>5, ReadLinesBalance, UpdateLineBalance, FindStockBalance, StoreStockBalance,
     JudgeBalance DEF Inner
<1> QED
  BY <1>0, <1>1, <1>2, <1>3, <1>4, <1>5, CloseBalance, CommitBalance, StepKinds

LEMMA BalanceInit == Init => BInv
<1> SUFFICES ASSUME Init, NEW r \in Receipts
    PROVE  Even(r) /\ \A w \in Workers : tx[w].receipt # r
  BY DEF BInv
<1>1. ASSUME NEW p \in Products PROVE SumFunctionOnSet(received, LinesFor(r, p)) = MovedOf(r, p)
  <2>1. \A ln \in LinesFor(r, p) : received[ln] = 0
    BY LinesForFinite DEF Init, NoQty
  <2>2. SumFunctionOnSet(received, LinesFor(r, p)) = 0
    BY <2>1, LinesForFinite, SumZero
  <2>3. PICK m : m = moved[r]
    OBVIOUS
  <2>4. \A x \in At(p) : m[x] = 0
    BY <2>3, AtFinite DEF Init, NoMove
  <2>5. SumFunctionOnSet(m, At(p)) = 0
    BY <2>4, AtFinite, SumZero
  <2> QED
    BY <2>2, <2>3, <2>5 DEF MovedOf, At
<1>2. status[r] = "NONE"
  BY DEF Init
<1>3. \A w \in Workers : tx[w].receipt \notin Receipts
  BY NoTxType, ReceivingAssumption DEF Init
<1> QED
  BY <1>1, <1>2, <1>3 DEF Even

LEMMA BalanceHolds == ASSUME TInv, OInv, BInv PROVE QuietReceiptsBalance
<1> SUFFICES ASSUME NEW r \in Receipts, Quiet(r)
    PROVE  /\ \A p \in Products : ReceivedOf(r, p) = MovedOf(r, p)
           /\ status[r] = "PARTIALLY_RECEIVED" => Pending(r) # {} /\ MovedBy(r) > 0
           /\ status[r] = "RECEIVED" => Pending(r) = {}
           /\ status[r] = "DRAFT" => MovedBy(r) = 0
  BY DEF QuietReceiptsBalance
<1>1. Even(r)
  BY DEF BInv
<1>2. ASSUME NEW p \in Products PROVE ReceivedOf(r, p) = MovedOf(r, p)
  <2>1. PICK S, f : S = {ln \in LinesOf(r) : ProductOf[ln] = p} /\ f = received
    OBVIOUS
  <2>2. S \subseteq LinesFor(r, p)
    BY <2>1 DEF LinesFor, LinesOf, TInv, TypeOK
  <2>3. \A ln \in LinesFor(r, p) : f[ln] \in Int
    BY <2>1, LinesForFinite DEF TInv, TypeOK
  <2>4. \A ln \in LinesFor(r, p) : f[ln] = IF ln \in S THEN f[ln] ELSE 0
    BY <2>1 DEF LinesFor, LinesOf, OInv, Unused
  <2>5. SumFunctionOnSet(f, LinesFor(r, p)) = SumFunctionOnSet(f, S)
    BY <2>2, <2>3, <2>4, LinesForFinite, SumPart
  <2> QED
    BY <1>1, <2>1, <2>5 DEF ReceivedOf, Even
<1>3. IsFiniteSet(Cells)
  BY ReceivingAssumption, FS_Product DEF Cells
<1>4. PICK m : m = moved[r] /\ m \in [Cells -> Nat]
  BY DEF TInv, TypeOK
<1>5. (\E x \in Cells : m[x] > 0) => SumFunctionOnSet(m, Cells) > 0
  <2> SUFFICES ASSUME NEW x \in Cells, m[x] > 0 PROVE SumFunctionOnSet(m, Cells) > 0
    OBVIOUS
  <2>1. \A y \in Cells : m[y] \in Nat
    BY <1>4
  <2>2. m[x] <= SumFunctionOnSet(m, Cells) /\ SumFunctionOnSet(m, Cells) \in Nat
    BY <1>3, <2>1, SumElement, SumNat
  <2> QED
    BY <2>1, <2>2
<1>6. (\A x \in Cells : m[x] = 0) => SumFunctionOnSet(m, Cells) = 0
  BY <1>3, SumZero
<1>7. MovedBy(r) = SumFunctionOnSet(m, Cells)
  BY <1>4 DEF MovedBy
<1> QED
  BY <1>1, <1>2, <1>4, <1>5, <1>6, <1>7 DEF Even, OInv, Unused

\* As long as no two requests for one receipt overlap, whatever happens to other
\* receipts: its lines record what its movements carried, and its status says whether
\* something and whether everything has been received.
THEOREM QuietReceiptsAreExact == Spec => []QuietReceiptsBalance
<1>1. Init => OInv /\ BInv
  BY OwnInit, BalanceInit
<1>2. IInv /\ TInv /\ MInv /\ OInv /\ BInv /\ [Next]_vars => (OInv /\ BInv)'
  BY OwnStep, BalanceStep
<1>3. TInv /\ OInv /\ BInv => QuietReceiptsBalance
  BY BalanceHolds
<1> QED
  BY <1>1, <1>2, <1>3, AlwaysTyped, AlwaysMeets, PTL DEF Spec
=============================================================================
