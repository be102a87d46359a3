--------------------------- MODULE MCTraceability ---------------------------
(***************************************************************************)
(* A receipt line, two orders of different customers, a handling unit and  *)
(* a shipment; two trace requests, for a page of three rows, which a batch *)
(* that is received, picked and shipped may fill or overflow.  Keys are    *)
(* independent of each other, so a behaviour has requests about one batch, *)
(* about one order, or about the two customers; only these need goods of   *)
(* both orders.                                                            *)
(***************************************************************************)
EXTENDS Traceability, TLC

CONSTANTS r, o1, o2, c1, c2, b1,
  MaxPicks, MaxPacked   \* bounds on the picks of an order and on the lines packed

VARIABLE subject   \* the questions asked

MCRLines     == {<<1, r>>}
MCOLines     == {<<1, o1>>, <<2, o2>>}
MCCustomerOf == (o1 :> c1) @@ (o2 :> c2)

\* The goods are received before they are planned, and before anybody asks; packers name
\* the batch unless customers are asked about, whose traces do not look at it.
MCInit == Init /\ subject \in {{b1}, {o1}, {c1, c2}}
MCNext ==
  /\ Next
  /\ UNCHANGED subject
  /\ \A w \in Workers : tx'[w].ask \in subject \cup {NoAsk}
  /\ IF \E m \in moved : m[2] = r /\ m[3] = b1
     THEN named' = named /\ MovesUnder(r)' = MovesUnder(r) ELSE <<planned, tx>>' = <<planned, tx>>
  /\ \A o \in Orders : Cardinality(MovesUnder(o)') <= MaxPicks
  /\ Cardinality(packed') <= (IF subject = {o1} THEN 1 ELSE MaxPacked)
  /\ subject = {c1, c2} => \A l \in packed' : l[4] = NoBatch
  /\ subject = {b1} => \A l \in packed' : l[4] # NoBatch
  /\ subject # {c1, c2} => planned' \subseteq {<<1, o1>>} \X Batches
MCSpec == MCInit /\ [][MCNext]_<<vars, subject>> /\ Fairness
=============================================================================
