---------------------------- MODULE Traceability ----------------------------
(***************************************************************************)
(* What the trace queries tell of a batch, a customer and an order         *)
(* (TraceabilityService), while receipts, picking, packing and shipping    *)
(* write the rows they read.  A writer is one step, its COMMIT: how        *)
(* writers meet each other is the subject of the other modules.  A query   *)
(* is no transaction: it looks its answer up in Redis, reads table after   *)
(* table, and stores the answer for TRACE_CACHE_TTL seconds.               *)
(*                                                                         *)
(* Rows are kept as what queries select and order them by; quantities and  *)
(* products are left out.  A row that is paged begins with its place in    *)
(* the order of the page: that of its createdAt, for which the order of    *)
(* the commits stands, or its actualDeparture.  Skip and Take are the page *)
(* that is asked for; an answer about another page has a key of its own,   *)
(* which only questions about that page look at.                           *)
(***************************************************************************)
EXTENDS Naturals, FiniteSets

CONSTANTS
  Receipts, RLines,                \* receipt lines: <<place, receipt>>
  Orders, OLines,                  \* outbound order lines: <<place, order>>
  Customers, CustomerOf,           \* the customers of the orders
  Units, Ships, Batches, NoBatch,
  Dates,                           \* the times at which a shipment may leave
  Workers, NoAsk,                  \* trace requests; their question when idle
  TTL,                             \* TRACE_CACHE_TTL, in seconds
  Skip, Take                       \* (page - 1) * limit and limit

VARIABLES
  named,    \* [RLines -> Batches \cup {NoBatch}], InboundReceiptLine.batchCode and batchId
  moved,    \* movement lines: <<place, the reference of the header, batch>>
  planned,  \* picking task lines: <<order line, batch>>
  packed,   \* handling unit lines: <<place, unit, order, batch>>
  links,    \* ShipmentHandlingUnit rows: <<shipment, unit, order>>
  left,     \* DISPATCHED shipments: <<actualDeparture, shipment>>
  cache,    \* [Keys -> Entry], Redis
  pc, tx    \* [Workers -> Control], [Workers -> Tx]

db   == <<named, moved, planned, packed, links, left>>
vars == <<db, cache, pc, tx>>

Docs      == Receipts \cup Orders \cup Ships
Cached    == Batches \cup Customers
Questions == Cached \cup Orders
Moves     == Nat \X Docs \X Batches
Answer    == [receipts : SUBSET Receipts, moves : SUBSET Moves,
              orders : SUBSET Orders, shipments : SUBSET Ships]
Entry     == [age : {"none", "fresh", "old"}, answer : Answer, since : Answer]
Control   == {"idle", "receipts", "moves", "orders", "lines", "links", "departed", "carried",
              "shipped", "store", "told"}
Tx        == [ask : Questions \cup {NoAsk}, answer : Answer,
              units : SUBSET Units,   \* the units whose lines were read
              since : Answer]         \* history: what was recorded when the reads began

ASSUME TraceabilityAssumption ==
  /\ RLines \subseteq Nat \X Receipts /\ OLines \subseteq Nat \X Orders /\ IsFiniteSet(OLines)
  /\ CustomerOf \in [Orders -> Customers] /\ Dates \subseteq Nat
  /\ NoBatch \notin Batches /\ NoAsk \notin Questions
  /\ TTL \in Nat /\ Skip \in Nat /\ Take \in Nat \ {0}
  /\ Batches \cap Customers = {} /\ Batches \cap Orders = {} /\ Customers \cap Orders = {}
  /\ Receipts \cap Orders = {} /\ Receipts \cap Ships = {} /\ Orders \cap Ships = {}

Nothing == [receipts |-> {}, moves |-> {}, orders |-> {}, shipments |-> {}]
NoEntry == [age |-> "none", answer |-> Nothing, since |-> Nothing]
NoTx    == [ask |-> NoAsk, answer |-> Nothing, units |-> {}, since |-> Nothing]

TypeOK ==
  /\ named \in [RLines -> Batches \cup {NoBatch}]
  /\ moved \subseteq Moves
  /\ planned \subseteq OLines \X Batches
  /\ packed \subseteq Nat \X Units \X Orders \X (Batches \cup {NoBatch})
  /\ links \subseteq Ships \X Units \X Orders
  /\ left \subseteq Dates \X Ships
  /\ cache \in [Cached -> Entry]
  /\ pc \in [Workers -> Control]
  /\ tx \in [Workers -> Tx]

Init ==
  /\ named = [rl \in RLines |-> NoBatch]
  /\ moved = {} /\ planned = {} /\ packed = {} /\ links = {} /\ left = {}
  /\ cache = [k \in Cached |-> NoEntry]
  /\ pc = [w \in Workers |-> "idle"]
  /\ tx = [w \in Workers |-> NoTx]

-----------------------------------------------------------------------------
(* What the tables say.                                                    *)

LinesNaming(b)    == {l \in RLines : named[l] = b}
MovesOf(b)        == {m \in moved : m[3] = b}
MovesUnder(d)     == {m \in moved : m[2] = d}
LinesPlanning(b)  == {l \in OLines : <<l, b>> \in planned}
LinesHolding(b)   == {l \in packed : l[4] = b}
ShipsLoading(us)  == {s \in Ships : \E u \in us, o \in Orders : <<s, u, o>> \in links}
OrdersAboard(ss)  == {o \in Orders : \E s \in ss, u \in Units : <<s, u, o>> \in links}
ShipsCarrying(o)  == {s \in Ships : \E u \in Units : <<s, u, o>> \in links}
DeparturesFor(c)  == {d \in left : \E o \in OrdersAboard({d[2]}) : CustomerOf[o] = c}

\* What rows are about: the receipt or order of a line, its unit, the shipment that left.
About(rows) == {x[2] : x \in rows}

\* All that a question could be told now, on all its pages, but for its receipts.
Recorded(k) ==
  CASE k \in Batches   -> [receipts |-> {}, moves |-> MovesOf(k),
                           orders |-> About(LinesPlanning(k)),
                           shipments |-> ShipsLoading(About(LinesHolding(k)))]
    [] k \in Customers -> [receipts |-> {}, moves |-> {},
                           orders |-> OrdersAboard(About(DeparturesFor(k))),
                           shipments |-> About(DeparturesFor(k))]
    [] OTHER           -> [receipts |-> {}, moves |-> MovesUnder(k), orders |-> {},
                           shipments |-> ShipsCarrying(k)]

\* buildPaginationParams: the rows that n others come before. Oldest is orderBy asc, Newest desc.
OnPage(n)    == Skip <= n /\ n < Skip + Take
Oldest(rows) == {x \in rows : OnPage(Cardinality({y \in rows : y[1] < x[1]}))}
Newest(rows) == {x \in rows : OnPage(Cardinality({y \in rows : y[1] > x[1]}))}

\* A page has all of them.
AllOnPage(rows) == Skip = 0 /\ Cardinality(rows) <= Take
Fits(k) ==
  /\ k \in Batches   => /\ AllOnPage(MovesOf(k)) /\ AllOnPage(LinesPlanning(k))
                        /\ AllOnPage(LinesHolding(k))
  /\ k \in Customers => AllOnPage(DeparturesFor(k))

-----------------------------------------------------------------------------
(* The writers.                                                            *)

Log(lines)   == moved' = moved \cup lines
LogOne(d, b) == Log({<<Cardinality(moved) + 1, d, b>>})

\* addLine and createLegacyReceipt: a line that names the batch expected.
AddLine(rl, b) ==
  /\ named[rl] = NoBatch /\ \A l \in RLines : l[1] > rl[1] => named[l] = NoBatch
  /\ named' = [named EXCEPT ![rl] = b]
  /\ UNCHANGED <<moved, planned, packed, links, left, cache, pc, tx>>

\* A partial confirmation: the payload's batch replaces the one the line names.
Receive(rl, b) ==
  /\ named' = [named EXCEPT ![rl] = b]
  /\ LogOne(rl[2], b)
  /\ UNCHANGED <<planned, packed, links, left, cache, pc, tx>>

\* createPickingTask, once for an order: for its lines the batches of the RESERVED rows.
Planned(o, b) == \E l \in OLines : l[2] = o /\ <<l, b>> \in planned
Plan(o, ps) ==
  /\ ps # {} /\ \A p \in ps : p[1][2] = o
  /\ \A b \in Batches : ~Planned(o, b)
  /\ planned' = planned \cup ps
  /\ UNCHANGED <<named, moved, packed, links, left, cache, pc, tx>>

ConfirmPick(o, b) ==
  /\ Planned(o, b)
  /\ LogOne(o, b)
  /\ UNCHANGED <<named, planned, packed, links, left, cache, pc, tx>>

\* Something of the order was picked; the batch is the packer's word, or left out.
Pack(u, o, b) ==
  /\ MovesUnder(o) # {}
  /\ packed' = packed \cup {<<Cardinality(packed) + 1, u, o, b>>}
  /\ UNCHANGED <<named, moved, planned, links, left, cache, pc, tx>>

OrdersIn(u) == {o \in Orders : \E l \in packed : l[2] = u /\ l[3] = o}

Assign(s, u) ==
  /\ s \notin About(left) /\ OrdersIn(u) # {}
  /\ links' = links \cup ({s} \X {u} \X OrdersIn(u))
  /\ UNCHANGED <<named, moved, planned, packed, left, cache, pc, tx>>

\* Variant: the movement line of an item without a batch kept as if it had one.
LinesAboard_Null(s) == {l \in packed : s \in ShipsLoading({l[2]})}
\* A line without a batch makes a movement line that no batch trace selects.
LinesAboard(s) == {l \in packed : l[4] # NoBatch /\ s \in ShipsLoading({l[2]})}

\* One movement line for each line aboard, in their order. The client may give the date;
\* two departures of one instant are left out.
Dispatch(s, d) ==
  /\ s \notin About(left) /\ \E u \in Units : s \in ShipsLoading({u})
  /\ \A x \in left : x[1] # d
  /\ left' = left \cup {<<d, s>>}
  /\ LET rank(l) == Cardinality({x \in LinesAboard(s) : x[1] <= l[1]})
     IN Log({<<Cardinality(moved) + rank(l), s, l[4]>> : l \in LinesAboard(s)})
  /\ UNCHANGED <<named, planned, packed, links, cache, pc, tx>>

-----------------------------------------------------------------------------
(* The queries.                                                            *)

\* The read each question begins with.
FirstRead(k) == CASE k \in Batches -> "receipts" [] k \in Customers -> "departed" [] OTHER -> "shipped"
\* Variant: a batch's movements are read last.
AfterRead_MovesLast(k, read) ==
  CASE read = "receipts" -> "orders"
    [] read = "orders"   -> "lines"
    [] read = "lines"    -> "links"
    [] read = "links"    -> "moves"
    [] read = "moves"    -> IF k \in Batches THEN "store" ELSE "told"
    [] read = "departed" -> "carried"
    [] read = "carried"  -> "store"
    [] read = "shipped"  -> "moves"
\* The one that comes after another.
AfterRead(k, read) ==
  CASE read = "receipts" -> "moves"
    [] read = "moves"    -> IF k \in Batches THEN "orders" ELSE "told"
    [] read = "orders"   -> "lines"
    [] read = "lines"    -> "links"
    [] read = "links"    -> "store"
    [] read = "departed" -> "carried"
    [] read = "carried"  -> "store"
    [] read = "shipped"  -> "moves"

Goto(w, next, t) == pc' = [pc EXCEPT ![w] = next] /\ tx' = [tx EXCEPT ![w] = t]

\* Variant: the argument is left out of a customer's key.
Key_Kind(k) == IF k \in Customers THEN CHOOSE c \in Customers : TRUE ELSE k
\* The key under which an answer is stored: the kind of the question and its argument.
Key(k) == k

\* Variant: an answer that is asked for is kept longer.
Hit_Renew(w, k) ==
  /\ pc[w] = "idle" /\ k \in Cached /\ cache[Key(k)].age # "none"
  /\ Goto(w, "told", [NoTx EXCEPT !.ask = k, !.answer = cache[Key(k)].answer,
                                  !.since = cache[Key(k)].since])
  /\ cache' = [cache EXCEPT ![Key(k)].age = "fresh"]
  /\ UNCHANGED db
Hit(w, k) ==
  /\ pc[w] = "idle" /\ k \in Cached /\ cache[Key(k)].age # "none"
  /\ Goto(w, "told", [NoTx EXCEPT !.ask = k, !.answer = cache[Key(k)].answer,
                                  !.since = cache[Key(k)].since])
  /\ UNCHANGED <<db, cache>>

Miss(w, k) ==
  /\ pc[w] = "idle" /\ (k \in Cached => cache[Key(k)].age = "none")
  /\ Goto(w, FirstRead(k), [NoTx EXCEPT !.ask = k, !.since = Recorded(k)])
  /\ UNCHANGED <<db, cache>>

\* One SELECT: t is the request with what it returned.
Read(w, read, t) ==
  /\ pc[w] = read
  /\ Goto(w, AfterRead(tx[w].ask, read), t)
  /\ UNCHANGED <<db, cache>>

\* The rows that belong to those of a page are read without one, and so is all of an order.
ReadReceipts(w) == Read(w, "receipts",
                        [tx[w] EXCEPT !.answer.receipts = About(Oldest(LinesNaming(tx[w].ask)))])
ReadMoves(w)    == Read(w, "moves", [tx[w] EXCEPT !.answer.moves =
                     IF tx[w].ask \in Batches THEN Oldest(MovesOf(tx[w].ask)) ELSE MovesUnder(tx[w].ask)])
ReadOrders(w)   == Read(w, "orders",
                        [tx[w] EXCEPT !.answer.orders = About(Newest(LinesPlanning(tx[w].ask)))])
ReadLines(w)    == Read(w, "lines", [tx[w] EXCEPT !.units = About(Newest(LinesHolding(tx[w].ask)))])
ReadLinks(w)    == Read(w, "links", [tx[w] EXCEPT !.answer.shipments = ShipsLoading(tx[w].units)])
ReadDeparted(w) == Read(w, "departed",
                        [tx[w] EXCEPT !.answer.shipments = About(Newest(DeparturesFor(tx[w].ask)))])
ReadCarried(w)  == Read(w, "carried", [tx[w] EXCEPT !.answer.orders = OrdersAboard(tx[w].answer.shipments)])
ReadShipped(w)  == Read(w, "shipped", [tx[w] EXCEPT !.answer.shipments = ShipsCarrying(tx[w].ask)])

Store(w) ==
  /\ pc[w] = "store"
  /\ cache' = [cache EXCEPT ![Key(tx[w].ask)] =
                 [age |-> "fresh", answer |-> tx[w].answer, since |-> tx[w].since]]
  /\ Goto(w, "told", tx[w])
  /\ UNCHANGED db

\* The client has its answer.
Heard(w) ==
  /\ pc[w] = "told"
  /\ Goto(w, "idle", NoTx)
  /\ UNCHANGED <<db, cache>>

\* The query is given up: the database or Redis cannot be reached, or a crash.
Fail(w) ==
  /\ pc[w] \notin {"idle", "told"}
  /\ Goto(w, "idle", NoTx)
  /\ UNCHANGED <<db, cache>>

\* Time passes for a key; without a TTL Redis keeps it.
Elapse(k) ==
  /\ TTL # 0 /\ cache[k].age # "none"
  /\ cache' = [cache EXCEPT ![k] = IF @.age = "fresh" THEN [@ EXCEPT !.age = "old"] ELSE NoEntry]
  /\ UNCHANGED <<db, pc, tx>>

-----------------------------------------------------------------------------
Statement(w) ==
  \/ ReadReceipts(w) \/ ReadMoves(w) \/ ReadOrders(w) \/ ReadLines(w) \/ ReadLinks(w)
  \/ ReadDeparted(w) \/ ReadCarried(w) \/ ReadShipped(w) \/ Store(w) \/ Heard(w)

Write ==
  \/ \E rl \in RLines, b \in Batches : AddLine(rl, b) \/ Receive(rl, b)
  \/ \E o \in Orders : \E ps \in SUBSET (OLines \X Batches) : Plan(o, ps)
  \/ \E o \in Orders, b \in Batches : ConfirmPick(o, b)
  \/ \E u \in Units, o \in Orders, b \in Batches \cup {NoBatch} : Pack(u, o, b)
  \/ \E s \in Ships : (\E d \in Dates : Dispatch(s, d)) \/ (\E u \in Units : Assign(s, u))

Next ==
  \/ Write
  \/ \E w \in Workers : Statement(w) \/ Fail(w) \/ \E k \in Questions : Hit(w, k) \/ Miss(w, k)
  \/ \E k \in Cached : Elapse(k)

Spec == Init /\ [][Next]_vars

\* A query runs to its end, and Redis drops keys whose time is over; nobody has to
\* write or ask.
Fairness == (\A w \in Workers : WF_vars(Statement(w))) /\ (\A k \in Cached : WF_vars(Elapse(k)))
FairSpec == Spec /\ Fairness

-----------------------------------------------------------------------------
(* Properties.                                                             *)

Within(x, y) == x.moves \subseteq y.moves /\ x.orders \subseteq y.orders /\ x.shipments \subseteq y.shipments

\* Every answer, from the tables or from Redis, is about the question asked, although its
\* tables are read one after the other and it may be an old one. No movement, order or
\* shipment is told that is not recorded; and when the trace fits in the page asked for, the
\* answer has all of them that were recorded when its reads began. Receipts are left out:
\* a line changes its batch (BatchTraceFindsReceipts).
AnswersAreRecent ==
  \A w \in Workers : pc[w] = "told" =>
    /\ Within(tx[w].answer, Recorded(tx[w].ask))
    /\ Fits(tx[w].ask) => Within(tx[w].since, tx[w].answer)

\* In the answer about a batch whose trace fits in the page, the order or shipment of every
\* movement is named as well; in the one about a customer, on any page, each shipment comes
\* with an order of that customer. This rests on the order of the reads, as the writers go on
\* between them. A batch that needs more pages is told of its oldest movements and its newest
\* orders, which need not belong together.
AnswersCrossReference ==
  \A w \in Workers : pc[w] = "told" =>
    LET a == tx[w].answer
    IN /\ tx[w].ask \in Batches /\ Fits(tx[w].ask) =>
            \A m \in a.moves : m[2] \notin Receipts => m[2] \in a.orders \cup a.shipments
       /\ tx[w].ask \in Customers => \A s \in a.shipments : \E o \in a.orders :
                                      s \in ShipsCarrying(o) /\ CustomerOf[o] = tx[w].ask

\* Stale answers die out: once nothing more is recorded, Redis holds, from some point
\* on, only answers that have all there is (but for receipts) about whatever fits in the
\* page, however many were in the making meanwhile.
CacheIsCurrent ==
  \A k \in Cached : cache[k].age # "none" /\ Fits(k) => Within(Recorded(k), cache[k].answer)
StaleAnswersDieOut == <>[]CacheIsCurrent

\* The search by batch returns the receipts: whenever goods of a batch were received,
\* the receipt is found by the batch, on one of its pages.
BatchTraceFindsReceipts == \A m \in moved : m[2] \in Receipts => m[2] \in About(LinesNaming(m[3]))
=============================================================================
