------------------------------ MODULE MCPicking ------------------------------
(***************************************************************************)
(* Order o1 has a line A on lot a and a line C on lot b1; order o2 has a   *)
(* line B of C's product, reserved in two lots, b1 and b2.  Requests that  *)
(* do not overlap (serial) work on a task of each order; two that do work  *)
(* on two tasks of o1, whose confirms list one line, two lines in either   *)
(* order, or one line twice.                                               *)
(***************************************************************************)
EXTENDS Picking, TLC

CONSTANTS o1, o2, t1, t2, t3, a, b1, b2, A, B, C

VARIABLE serial   \* whether requests do not overlap

MCTaskOrder == (t1 :> o1) @@ (t2 :> o1) @@ (t3 :> o2)
MCLinesOf   == (o1 :> {A, C}) @@ (o2 :> {B})
MCLotsOf    == (A :> {a}) @@ (B :> {b1, b2}) @@ (C :> {b1})
MCRequested == (A :> 2) @@ (B :> 2) @@ (C :> 1)
MCStock     == (a :> 2) @@ (b1 :> 1) @@ (b2 :> 2)

One(ln, l, q) == [slot |-> <<ln, l>>, qty |-> q]
PairConfirms == {<<One(A, a, 2)>>, <<One(A, a, 1), One(C, b1, 1)>>,
                 <<One(C, b1, 1), One(A, a, 1)>>, <<One(A, a, 1), One(A, a, 1)>>}
SerialConfirms ==
  {<<One(A, a, 1)>>, <<One(A, a, 2)>>, <<One(B, b1, 1)>>, <<One(B, b2, 1)>>, <<One(C, b1, 1)>>,
   <<One(B, b1, 1), One(B, b2, 2)>>, <<One(A, a, 1), One(C, b1, 1)>>,
   <<One(A, a, 1), One(A, a, 1)>>}
MCConfirms == PairConfirms \cup SerialConfirms

MCInit == Init /\ serial \in BOOLEAN
MCNext ==
  /\ Next
  /\ UNCHANGED serial
  /\ serial => \A w \in Workers \ {CHOOSE v \in Workers : TRUE} : pc'[w] = "idle"
  /\ \A w \in Workers :
       /\ tx'[w].task # IF serial THEN t2 ELSE t3
       /\ tx'[w].dto = <<>> \/ tx'[w].dto \in IF serial THEN SerialConfirms ELSE PairConfirms
MCSpec == MCInit /\ [][MCNext]_<<vars, serial>> /\ Fairness
=============================================================================
