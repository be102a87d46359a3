---------------------------- MODULE AtomicRelease ----------------------------
(***************************************************************************)
(* What releasing an order promises (docs/sprint4.md: a released order     *)
(* reserves inventory following FEFO): in one indivisible step every line  *)
(* draws what it requests, as far as there is stock, from the AVAILABLE    *)
(* rows in order of expiry; what is drawn becomes RESERVED stock of the    *)
(* row's lot; the status tells how much was allocated. OrderRelease        *)
(* refines it when requests do not overlap.                                *)
(***************************************************************************)
EXTENDS Integers, Sequences, FiniteSetsExt

CONSTANTS Orders, Lines, Lots, Rows, LotOf, OrderLines, Candidates, Requested, Initial

VARIABLES status, allocated, available, reserved, fullOnly

OrderLineSet(o) == {OrderLines[o][k] : k \in 1..Len(OrderLines[o])}
RowSet(ln)      == {Candidates[ln][j] : j \in 1..Len(Candidates[ln])}
RowsOfLot(l)    == {x \in Rows : LotOf[x] = l}
Amount          == {0} \cup UNION {0..Initial[x] : x \in Rows}

Init ==
  /\ status = [o \in Orders |-> "DRAFT"]
  /\ allocated = [ln \in Lines |-> 0]
  /\ available = Initial
  /\ reserved = [l \in Lots |-> 0]
  /\ fullOnly \in BOOLEAN

\* What the lines before the k-th leave of row x; draw[ln][x] is what ln takes.
Left(o, draw, k, x) ==
  available[x] - SumFunctionOnSet([j \in 1..(k - 1) |-> draw[OrderLines[o][j]][x]], 1..(k - 1))

FollowsFefo(o, draw) ==
  /\ \A ln \in OrderLineSet(o) : \A x \in Rows \ RowSet(ln) : draw[ln][x] = 0
  /\ \A k \in 1..Len(OrderLines[o]) :
       LET ln == OrderLines[o][k]
           c  == Candidates[ln]
           stock == SumFunctionOnSet([x \in Rows |-> Left(o, draw, k, x)], RowSet(ln))
       IN /\ \A x \in Rows : draw[ln][x] <= Left(o, draw, k, x)
          /\ \A j \in 1..Len(c) : \A i \in 1..(j - 1) :
               draw[ln][c[j]] > 0 => draw[ln][c[i]] = Left(o, draw, k, c[i])
          /\ SumFunctionOnSet(draw[ln], Rows) = Min({Requested[ln], stock})

Release(o) ==
  /\ status[o] = "DRAFT" /\ status'[o] # "DRAFT"
  /\ \E draw \in [OrderLineSet(o) -> [Rows -> Amount]] :
       LET drawn(x) == SumFunctionOnSet([ln \in OrderLineSet(o) |-> draw[ln][x]], OrderLineSet(o))
           got(ln)  == SumFunctionOnSet(draw[ln], Rows)
           full     == \A ln \in OrderLineSet(o) : got(ln) = Requested[ln]
       IN /\ FollowsFefo(o, draw)
          /\ fullOnly => full
          /\ available' = [x \in Rows |-> available[x] - drawn(x)]
          /\ reserved' = [l \in Lots |->
               reserved[l] + SumFunctionOnSet([x \in RowsOfLot(l) |-> drawn(x)], RowsOfLot(l))]
          /\ allocated' = [ln \in Lines |->
               IF ln \in OrderLineSet(o) THEN got(ln) ELSE allocated[ln]]
          /\ status' = [status EXCEPT ![o] =
               IF full THEN "FULLY_ALLOCATED"
               ELSE IF \E ln \in OrderLineSet(o) : got(ln) > 0
                    THEN "PARTIALLY_ALLOCATED" ELSE "RELEASED"]
  /\ UNCHANGED fullOnly

Next == \E o \in Orders : Release(o)

Spec == Init /\ [][Next]_<<status, allocated, available, reserved, fullOnly>>
=============================================================================
