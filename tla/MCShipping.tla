----------------------------- MODULE MCShipping -----------------------------
(***************************************************************************)
(* Order o1 has the lines A and B, order o2 the line C; two units may go   *)
(* into two shipments.  Requests that do not overlap (serial) may use all  *)
(* of it; two that do, one unit of A, C and the shipment s1.               *)
(***************************************************************************)
EXTENDS Shipping, TLC

CONSTANTS o1, o2, A, B, C, u1, u2, s1, s2

VARIABLE serial   \* whether requests do not overlap

MCOrderOf   == (A :> o1) @@ (B :> o1) @@ (C :> o2)
MCRequested == (A :> 2) @@ (B :> 1) @@ (C :> 1)

One(ln, q) == [line |-> ln, qty |-> q]
PairPacks == {<<One(A, 1)>>, <<One(C, 1)>>}
MCPacks   == PairPacks \cup {<<One(A, 1), One(B, 1)>>, <<One(A, 1), One(A, 1)>>}
MCLoads   == {{u1}, {u1, u2}}

MCInit == Init /\ serial \in BOOLEAN
MCNext ==
  /\ Next
  /\ UNCHANGED serial
  /\ IF serial
     THEN \A w \in Workers \ {CHOOSE v \in Workers : TRUE} : pc'[w] = "idle"
     ELSE /\ pickedQty'[A] <= 1 /\ pickedQty'[B] = 0 /\ shipStatus'[s2] = "NONE"
          /\ \A w \in Workers : tx'[w].items = <<>> \/ tx'[w].items \in PairPacks
MCSpec == MCInit /\ [][MCNext]_<<vars, serial>>
=============================================================================
