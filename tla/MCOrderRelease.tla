--------------------------- MODULE MCOrderRelease ---------------------------
(***************************************************************************)
(* Orders o1 and o2 want the same two products and name them in opposite   *)
(* order; o3 comes for what they leave.  Product A is one lot in one row;  *)
(* product B has two lots, b1 expiring before b2, and b1 lies in two rows, *)
(* as two receipts of one cell leave it.                                   *)
(***************************************************************************)
EXTENDS OrderRelease, TLC

CONSTANTS o1, o2, o3, a, b1, b2, ra, rb, rc, rd, A1, B1, A2, B2, B3

MCOrderLines == (o1 :> <<A1, B1>>) @@ (o2 :> <<B2, A2>>) @@ (o3 :> <<B3>>)
MCLotOf      == (ra :> a) @@ (rb :> b1) @@ (rc :> b1) @@ (rd :> b2)
MCCandidates == (A1 :> <<ra>>) @@ (A2 :> <<ra>>) @@ (B1 :> <<rb, rc, rd>>)
                @@ (B2 :> <<rb, rc, rd>>) @@ (B3 :> <<rb, rc, rd>>)
MCRequested  == (A1 :> 2) @@ (B1 :> 4) @@ (A2 :> 1) @@ (B2 :> 1) @@ (B3 :> 2)
MCInitial    == (ra :> 2) @@ (rb :> 1) @@ (rc :> 1) @@ (rd :> 2)
=============================================================================
