----------------------------- MODULE MCCounting -----------------------------
(***************************************************************************)
(* Cell a has AVAILABLE and RESERVED stock, one unit of which is missing   *)
(* on the shelf; cell b has AVAILABLE stock only, and one unit too many.   *)
(***************************************************************************)
EXTENDS Counting, TLC

CONSTANTS a, b

MCRows      == {<<a, "AVAILABLE">>, <<a, "RESERVED">>, <<b, "AVAILABLE">>}
MCInitStock == (<<a, "AVAILABLE">> :> 1) @@ (<<a, "RESERVED">> :> 1) @@ (<<b, "AVAILABLE">> :> 0)
MCShelf     == (a :> 1) @@ (b :> 1)
MCBatches   == {{a}, {b}}
MCTargets   == {<<a, 0>>, <<b, 0>>}
MCChanges   == {<<b, 1>>}

FewDisturbed == Cardinality(disturbed) <= 1

MCSymmetry == Permutations(Workers) \cup Permutations(LineIds)
=============================================================================
