---------------------------- MODULE MCRelocation ----------------------------
(***************************************************************************)
(* Product pa has two units on row i1 in location l1; pb has one AVAILABLE   *)
(* there on row i2 and none yet RESERVED on row i3; two ids are free.      *)
(***************************************************************************)
EXTENDS Relocation, TLC

CONSTANTS pa, pb, l1, l2, i1, i2, i3, i4, i5

At(prod, loc, st, n) == [product |-> prod, loc |-> loc, status |-> st, qty |-> n]
MCInitRows == (i1 :> At(pa, l1, "AVAILABLE", 2)) @@ (i2 :> At(pb, l1, "AVAILABLE", 1))
              @@ (i3 :> At(pb, l1, "RESERVED", 0)) @@ (i4 :> At(pa, NoLoc, "AVAILABLE", 0))
              @@ (i5 :> At(pa, NoLoc, "AVAILABLE", 0))
MCAsks   == {<<[product |-> pb, qty |-> 1], [product |-> pa, qty |-> 1]>>}
MCMinQty == (pa :> 0) @@ (pb :> 2)
MCMaxQty == (pa :> 0) @@ (pb :> 2)

\* One document besides the transfers, or three transfers; only a suggestion may be
\* rejected, and nothing approved, as no status is looked at; no move within l2; and one disturbed product.
Others == {s \in Sugs : sugs[s].status # "NONE"} \cup {r \in Recs : recs[r].status # "NONE"}
Taken  == {o \in Orders : orders[o] # "NONE" \/ \E w \in Workers : tx[w].order = o}
Few == /\ Cardinality(Others) + Cardinality(Taken) <= IF Others = {} THEN 3 ELSE 2
       /\ \A s \in Sugs : sugs[s].status # "APPROVED"
       /\ \A r \in Recs : recs[r].status \notin {"APPROVED", "REJECTED"}
       /\ \A o \in Orders : orders[o] # "APPROVED"
       /\ \A w \in Workers : <<tx[w].from, tx[w].to>> # <<l2, l2>>
       /\ Cardinality(met \cup irregular) <= 1
MCSymmetry == Permutations(Workers)
=============================================================================
