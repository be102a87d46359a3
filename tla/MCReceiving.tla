----------------------------- MODULE MCReceiving -----------------------------
(***************************************************************************)
(* Receipt r1 has two lines of one product, r2 one more line of it: all    *)
(* three go through the same stock rows.  Line A may be over-received, B   *)
(* may arrive in two parts, C must arrive whole.                           *)
(***************************************************************************)
EXTENDS Receiving, TLC

CONSTANTS r1, r2, A, B, C, p

MCReceiptOf == (A :> r1) @@ (B :> r1) @@ (C :> r2)
MCProductOf == [ln \in Lines |-> p]
MCExpected  == (A :> 1) @@ (B :> 2) @@ (C :> 1)
MCOver      == (A :> 1) @@ (B :> 0) @@ (C :> 0)
MCUnder     == (A :> 0) @@ (B :> 1) @@ (C :> 0)
MCAsks      == {{}, {<<A, 1>>}, {<<A, 1>>, <<B, 1>>}}

MCSymmetry == Permutations(Workers)
=============================================================================
