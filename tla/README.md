# Formal models of awmsom

awmsom is a warehouse management backend: NestJS services over PostgreSQL
(through Prisma), Redis and BullMQ, with a Next.js front end. This directory
holds TLA+ models of the parts of the backend where several requests meet over
the same rows, the TLC configurations that check them on small instances, and
TLAPS proofs of the properties that matter most for every instance.

Contents: [the system](#the-system), [how the database is modelled](#how-the-database-is-modelled),
[modules](#modules), [runs](#runs), [proofs](#proofs),
[what the models found](#what-the-models-found), [not modelled](#not-modelled), [plan](#plan).

## The system

Every component is a NestJS service whose state is rows of the database; HTTP
requests of many users run its methods at the same time, in one or several
processes. The components that share the stock, with their state and what makes
them correct:

| component (`src/src/modules/`) | state | operations | hard behaviour | correct when |
|---|---|---|---|---|
| order release (`outbound/outbound.service.ts`) | `OutboundOrder.status`, `OutboundOrderLine.allocatedQty`, `Inventory` rows AVAILABLE and RESERVED | create, release | unlocked reads followed by absolute writes, check before the transaction, lock order chosen by the customer, rollback after partial work | stock conserved, reservations back allocations, FEFO, one RESERVED row per lot (as long as releases hold the same AVAILABLE row of it), status agrees with the lines, released once |
| picking (same file, `picking-tasks.controller.ts`) | `PickingTask`, `PickingTaskLine`, `pickedQty`, RESERVED rows, movements | create task, start, confirm, complete (start + confirm) | the task is read before the transaction and used inside it, write skew on "all picked", refusal of a later line | every unit that leaves a reservation has a movement, picks stay within the task and the request, COMPLETED is final |
| packing and shipping (same file) | `HandlingUnitLine`, `Shipment`, `ShipmentHandlingUnit`, movements | create unit, add items, create shipment, assign units, dispatch | sum-then-insert, no unique keys, status written from an earlier read | packed within picked, units linked once, dispatched once |
| inbound (`inbound/inbound.service.ts`) | `InboundReceipt` and lines, AVAILABLE rows, movements | create, add line, confirm (partial), legacy receive and complete | tolerances over several partial confirmations, find-or-create of stock rows, two generations of endpoints on one table | no line received beyond its tolerance, received = movements = stock increase, RECEIVED means all received |
| inventory (`inventory/inventory.service.ts`, its controllers) | `CycleCountTask` and lines, `InventoryAdjustment`, `Inventory`, movements | create, add lines, start, submit, review; adjust; increase | expected quantity is a snapshot, stock moves while people count; adjustments outside a transaction | a line is counted once, a submitted count leaves what was counted, ledger = stock |
| replenishment (`replenishment/`) | `ReplenishmentSuggestion`, `TransferOrder`, `Inventory` | evaluate, approve, create transfer order | absolute quantities from earlier reads, several rows of a product in one place | stock = movements, nothing lost |
| slotting (`slotting/`) | `SlottingRecommendation`, `Inventory` | calculate, approve, execute | a recommendation is executed whatever its status and whatever is left at the source | stock = movements, nothing lost |
| waves (`waves/`, `scheduler/`, `infrastructure/queues`) | `Wave`, `WaveOrder`, picking tasks, `WavePickingPath`, BullMQ jobs | enqueue, generate, mark, assign, create tasks, generate path | jobs delivered twice or dropped, transitions without guards, reads before the transaction | each generation partitions its orders, every order gets a wave, tasks ask for what is reserved |
| usage limits (`usage/`) | `UsageMetric` | check, increment | check-then-act on counters | the transfers made pass the limit by a bounded number, besides those that are never counted |
| traceability (`traceability/`, `common/cache`) | Redis entries | traces of a batch, a customer, an order | many SELECTs without a transaction, answers told again while they are in Redis | an answer that fits in its page is complete as of its first read, and its parts name each other |
| rate limit (`common/rate-limit.service.ts`) | a Redis counter | count | - | a window always ends |
| integrations (`integrations/`) | `IntegrationSyncJob` | trigger, process | nothing enqueues its jobs | - |
| auth (`auth/`) | refresh tokens, MFA challenges, users | login, refresh, verify, logout, reset | not a subject of this project | - |
| tenant configuration (`config/`) | `TenantConfig`, `OutboundRule`... | read, find-or-create, update | two first reads create two rows | one row per tenant |
| RBAC, API keys, tenants, users, onboarding, catalogues | rows of their own | CRUD; sets replaced by delete and insert | two requests that replace one set | the set is one of those asked for |
| KPIs, reports, snapshots, monitoring, audit, compliance, webhooks | none, or append-only | queries, logs, HTTP delivery | - | - |

Interaction: a release turns AVAILABLE stock into RESERVED; a picking task is
planned from the RESERVED rows, and confirming it takes from them, writes
`pickedQty` and movement lines; packing compares with `pickedQty`; dispatch logs
movements for what the linked handling units hold. Inbound, counts, adjustments,
replenishment and slotting change the same `Inventory` rows. Waves create picking
tasks of their own. The components call each other only through these rows;
there is no lock and no version column anywhere.

## How the database is modelled

All models of transactional code follow one scheme.

* A *worker* is one request being served. Its `pc` names the statement it runs
  next and `tx` holds the method's local variables and the rows its transaction
  has written. A request is a worker from its first read to its answer; a worker
  serves any number of requests, one after the other.
* Prisma's `$transaction` runs at PostgreSQL's default, READ COMMITTED: each
  SELECT sees what is committed when it runs plus the transaction's own writes
  (the operators named `...In`). An UPDATE waits until no other transaction has
  written the row (`...Holders`) and then stores the value the code computed from
  its earlier read: the services always write absolute quantities. COMMIT
  publishes the write set in one step.
* A `findFirst` with an `include` is two or more SELECTs. They are separate steps.
* `Fail` aborts a request at any statement: lost connection, Prisma's 5 s
  transaction timeout, a crash of the process. The locals live in `tx`, so a crash
  is a rollback of every worker it served.
* `DeadlockVictim` is PostgreSQL's detector: it aborts one of the transactions
  that wait for each other.
* Two statements are one step only if no other request can tell: an INSERT into a
  table without a unique key, for instance, is seen by nobody before COMMIT, and
  the UPDATE just before COMMIT holds its lock for no step.
* Quantities are naturals (in the code: `Decimal(20,4)`, never rounded by the
  operations modelled). Identifiers are model values. Tenants are left out: every
  query has the same `tenantId` filter and no row changes its tenant.

## Modules

**`OrderRelease`** (`releaseOutboundOrder`). `status`, `allocated`, `available`,
`reserved` are the committed rows. A lot is one combination of product, batch,
location and uom. `increaseStock` (`inventory.service.ts:416`) finds or creates its AVAILABLE row and the
table has no unique key, so two receipts may leave a lot two rows: `available` is per row, `LotOf` names the lot. Nothing
limits the number of RESERVED rows either, so `reserved[l]` has a slot per order that may have inserted one. Actions, in
the order of the code: `Check` and `ReadLines` (before the transaction), `Begin`
(status RELEASED, locks the order row), per line `SkipLine` or `SelectStock`, per
row found `SkipRow` or `TakeRow`, `FindReserved`, `Reserve`, then `WriteLine`; at the end
`Commit` or `Reject`. `Candidates` is what `orderBy` yields: the rows of the line's
product, first expiring first. `fullOnly` is the outbound rule, either in
each behaviour; `overlapped`, `crossed` (lots of which two releases held different rows at once) and `drawn` are history.

**`AtomicRelease`** is the promise: one indivisible step that draws from the rows
in order of expiry. `OrderRelease` refines it when releases do not overlap
(`SerialReleaseIsAtomic`, with the RESERVED rows of a lot summed).

**`Picking`** (`createPickingTask`, `startPickingTask`, `confirmPickingTask`). A task
line is identified by its order line and its lot (a *slot*). `CheckOrder`, `PlanLine`
(any order of lines, for each the RESERVED rows of its lots, whoever they were reserved for)
and `CreateTask`; `CheckStart` and `Start`; `ReadTask`, `ReadLines`, then per line
`FindReservation` or `Refuse`, `TakeReservation`, `WriteTaskLine`, `WriteOrderLine`
(with the movement line); `JudgeTask`, `WriteTask`, `JudgeOrder`, `Commit`. ASSIGNED is
CREATED with a picker and both allocated statuses let a task be created, so
the model has one value for each pair. A request line list may be any member of
`Confirms`; quantities are positive. `overlapped` and `repeated` are history.

**`Shipping`** (`addItemsToHandlingUnit`, `createShipment`,
`assignHandlingUnitsToShipment`, `dispatchShipment`). `packed[u][ln]` is the sum of
the lines of unit `u` for one order line, `links[s][<<u, o>>]` the number of rows that
link the unit and the order to the shipment (the table has no unique key, so it is a
count), `shipped` the movement lines that refer to a shipment. `ReadOrder`, per item
`PackItem` or `RefuseItem`, `CommitItems`; `ReadShipment`, `ReadUnits`, `ReadLinks` or
`RefuseUnits`, `Assign`; `ReadDispatch`, `CheckLinks` or `RefuseDispatch`, `ReadCargo`,
`ReadContents`, `Dispatch`. The only UPDATE of these methods is the shipment's, right
before COMMIT, so no request waits and the module has no lock operators. `ConfirmPick`
stands for the pick of a line reserved in one lot, the case in which `pickedQty` is
what was picked (see `picking_qty` for the other). Two bounds keep the model finite where
requests may repeat for ever: `MaxLinks` (rows of one link) and `MaxShipped` (logged
quantity of one line). They are guards of the first read of an assignment and of a
dispatch; both exceed what is needed to link a unit twice and to log an exit twice.

**`Receiving`** (`InboundService`, `InventoryService.increaseStock`). `status`, `present`,
`received` are the receipts and their lines, `stock[c][w]` the AVAILABLE rows of a cell (product and location), told apart by
the worker that inserted them, as the table lets two requests insert one each;
`moved` the movement lines. `CreateReceipt`; `ReadForLine`, `InsertLine`; `Confirm` (both the payload
and the receipt without one), `ReceiveLine` and `CompleteReceipt` (legacy) start a request, which goes through `ReadLines` or
`RefuseReceipt`, per item `UpdateLine` or `RefuseLine`, `FindStock`, `StoreStock`, then `Judge` and
`Commit`; `ReadPending` and `Close` end a legacy receipt. `createLegacyReceipt` is `CreateReceipt` and `InsertLine`s. `met` is
history: which receipts two requests worked on at once.

**`Counting`** (cycle counts and adjustments). `lines` has the snapshot `expected` and `counted`,
`stock` the rows of a cell by status, `logged` the movement balance, `adjusted` the adjustment records, and `shelf` what is
physically there (it changes with picks and is what an operator counts or is asked to correct).
Creation with lines (`CreateTask`, `ReadRows`, `Insert`, `InsertTask`), `AddLine` with `ReadExpected` and `InsertLine`, `ReadStart` and
`Start`, `Cancel` (a review that rejects), the submission (`ReadTask`, `ReadPending`, `FindLine`, `CountLine`, `ReadForLine`, `StoreCounted`, `ReadRemaining`,
`Commit`), the adjustment by target or by change (`Adjust`, `AdjustBy`, `ReadTotal`, `ReadForCell`, `StoreRow`, `LogMovement`, `RecordAdjustment`), each of
whose statements commits by itself; `Reserve` and `Pick` are the outbound side, atomic. `disturbed` is history.

**`Relocation`** (transfer orders, replenishment suggestions, slotting recommendations, the plan limit). Inventory rows have
ids, because a product may have several rows in one place. `Evaluate`, `MarkSuggestion`, `Recommend`, `MarkRecommendation`, `MarkOrder`, `Reserve`;
`Transfer` (limit checked, order inserted) and `Execute` (a recommendation) share `ReadSource`, `ReadDest`, `Take`, `Put`, `Commit`; `Increment`
counts the transfer afterwards. The validation pipe of the application drops `TransferOrderLineDto.quantity`, which has no
decorator, so the model is of the service as its unit test calls it. A transfer order without lines is made and counted like any other. `met`, `irregular` and `lost` are history:
products two requests worked on, products moved without a source row, within one place, or out of several rows, and the transfer orders whose request died
between COMMIT and `Increment`, which no counter ever has.

**`Waves`** (`WavesService`, the wave jobs of the scheduler). `Enqueue`, `GenerateByJob`, `GenerateByRequest`, `CreateWaves`,
`Report`; `MarkWave`, `AssignWave`; `ReadWave`, `Consolidate` per order line, `CreateTask`; `ReadTasks`, `StorePath` with
`NearestNeighbor` as a recursive function. The transaction of a generation reads nothing, so it is one step. `Release`,
`PickRow`, `FinishOrder` are the outbound side. No code of the repository sets `Inventory.warehouseId` on a RESERVED row, by which tasks are
looked up, so which rows have one is the parameter `Tagged`. The module has names of its own for what every module has (`WaveTypeOK`,
`WaveSpec`, `Handlers`, `step`, `work`), so that one module can extend it together with `Traceability`.

**`Traceability`** (`getBatchTrace`, `getCustomerShipmentsTrace`, `getOrderTrace`, `CacheService`). The writers are one step
each; the queries are not: `Hit` or `Miss`, one `Read...` per SELECT in the order of `AfterRead`, `Store`, `Heard`. `Elapse` is
the time to live. `since` is history: what was recorded when a query's reads began. The rows that are paged carry their place in the order of the page: receipt lines and the
movements of a batch come oldest first (`Oldest`), order lines, unit lines and departures newest first (`Newest`). The order of the commits stands for that of `createdAt`.
`Skip` and `Take` are the page asked for; the page is part of the key, so answers about other pages have entries of their own and a behaviour has one page.
`Fits` says that the page asked for holds the whole trace.

Each `MC...` module gives the constants their values for TLC. In the component
modules, definitions named `X_...` just above `X` and commented "Variant" are plausible mistakes in
`X`; no specification uses them. They exist to show that each property notices one.

## Runs

All passing runs set `CHECK_DEADLOCK FALSE`: when every order is released, picked and
shipped, and no client sends a request, the system is idle, which is no error. That no set of *requests* stays
stuck is what the liveness properties state.

| run | instance | checks |
|---|---|---|
| `release` | 3 orders, 5 lines, 4 AVAILABLE rows of 3 lots (one lot has two), 2 workers; both outbound rules | `TypeOK`, `OneReservedRow`, `StockNeverLost`, `StatusAgreesWithLines`, `AllocationWithinRule`, `SerialReleaseIsAtomic`, `EveryReleaseReturns` |
| `release_overreserved` | same | `NeverOverReserved` is violated |
| `picking` | 2 tasks of 1 order, 2 workers, crossing confirms; or 2 orders that share lots, one worker, all confirms | `TypeOK`, `NothingVanishes`, `PicksAreTraced`, `PicksWithinTask`, `EveryRequestReturns`, `SerialPicks` |
| `picking_qty` | one worker | `PickedQtyIsWhatWasPicked` is violated |
| `shipping` | 2 orders, 2 units, 2 workers; `serial` with 2 shipments | `TypeOK`, `LoadedHasUnits`, `LinksAreBacked`, `ShippedIsTraceable`, `SerialShipping` |
| `shipping_overpacked` | same | `PackedWithinPicked` is violated |
| `receiving` | 2 receipts, 3 lines of one product, 2 workers | `TypeOK`, `WithinTolerance`, `StockIsBacked`, `QuietReceiptsBalance`, `StockIsMovements` |
| `counting` | 1 task, 2 cells, 2 lines, 2 workers | `TypeOK`, `StockIsExplained`, `CountIsFinal`, `CountSettles` |
| `relocation` | 2 products, 2 places, 5 row ids, limit 1, 2 workers | `TypeOK`, `StockIsMovements`, `OverrunIsBounded`, `NothingIsLost` |
| `waves` | 3 orders of 2 keys, 4 reserved rows, 2 workers | `WaveTypeOK`, `GenerationsPartition`, `TasksAskForReservations`, `PathsAreGreedyTours`, `EveryOrderGetsAWave` |
| `traceability` | 1 receipt line, 2 orders and customers, 1 unit, 1 shipment, 1 batch, 2 queries | `TypeOK`, `AnswersAreRecent`, `AnswersCrossReference`, `StaleAnswersDieOut` |
| `traceability_receipts` | 2 batches | `BatchTraceFindsReceipts` is violated |

**Two kinds of properties.** Some hold however requests overlap. Others hold only if the requests on the
same rows do not. In `OrderRelease`, `Picking` and `Shipping` the history variable `overlapped` says whether two requests were ever under way
at once, and the properties that begin with `Serial` speak of the states before that (in which a request still may
fail at any statement). `MCPicking` and `MCShipping` explore, besides the behaviours in which requests overlap over few rows, behaviours marked
`serial` in which one worker serves all requests over more. In `Receiving`, `Counting` and
`Relocation` requests always overlap, and history variables name what two requests met at; the
properties exempt those receipts, tasks, cells and products and no others. `OneReservedRow` and `StockNeverLost` are about any overlap, but exempt the lots in
`crossed`, of which two releases held different AVAILABLE rows at once; in this instance the second is violated there. These properties are what the code means to guarantee, and they rule out the
mistakes that need several requests in a row: partial failure, retries, several lots, several lines of one product.

**Why the bounds suffice.** `release`: two orders that lock two products in opposite
order (deadlock), a lot that is smaller than what is wanted of it, two lots of one product with different
expiry (FEFO), a lot in two rows, which two releases may hold at once, a third order that comes for the rest; what is proved covers more requests than two. `picking`: a line reserved in two lots, two orders
that share them, two tasks that plan the same reservation, confirms of less than the
whole quantity, and two confirms that name the same lines in opposite order. `shipping`: a request with two
items of one line, a unit with two orders, one unit in two shipments, an empty unit.
`receiving`: a line that may be over-received, one that may arrive in parts, one that must arrive whole, all into one stock row;
`MaxMoved` (3) stops requests for a receipt that can take no more. `counting`: a cell with reserved stock and a unit missing on the shelf, one with a unit too many;
`MaxQty` and `MaxLog` stop increases and adjustments that could repeat for ever, and `FewDisturbed` keeps one task or cell at most that requests met at.
`relocation`: two lines in one transfer, a product with two statuses in one place, two free ids for what a move inserts; `MaxMoved`
bounds moves back and forth, `Few` the number of documents. `waves`: a product twice in one order, a product in two places, a row without a warehouse, a key of two
orders; `MaxWaves`, `MaxTasks`, `MaxMarked`, `MaxQueue` count what could grow for ever, and `walking` separates behaviours about jobs from those about paths. `traceability`: a
behaviour asks about the batch, one order, or both customers (`subject`), because answers are kept under keys of
their own; a page has three rows, which the movements of the batch (a receipt, a pick, a dispatch of one or two lines) fill or overflow; goods are received before they are planned and before anyone asks, and packers name the batch
unless customers are asked, whose trace does not look at it.
Quantities go up to 4, enough for a row to be used in part, exactly and by two lines.

**Fairness.** Safety needs none. In `OrderRelease` and `Picking`, `SF` on each
worker's `Statement` and `WF` on `DeadlockVictim`. Strong fairness, because a statement that
waits for a row may find it taken again and again by later requests: PostgreSQL grants
a row lock in the order of arrival, so a request is not overtaken for ever. Weak
fairness for the detector, which runs after `deadlock_timeout` in any wait that lasts.
In `Waves`, `WF` on `Enqueue` (cron), `WF` on the steps that end what a worker has begun (`GiveUp` among them: a worker may
crash every time but one), and `SF` on `GenerateByJob` and `CreateWaves`: a job that is there again and again
is once taken up and not interrupted. In `Traceability`, `WF` on each query's `Statement` and on
`Elapse` of each key (`SET ... EX 120`).
Clients are not fair: no request need ever arrive, and `Fail` (`GiveUp` in `Waves`) need never happen.

## Proofs

TLAPS checks the following theorems for all orders, lines, lots, tasks, request lists
and numbers of workers. They assume the `ASSUME` of the component's module (types of the constants, distinct
null values, finiteness of what is summed over, some cell or location) and nothing else.

**`SumLemmas`** holds what is needed of sums: that the community operator
`SumFunctionOnSet`, which takes the elements of a set one after the other, does not depend on their order, and what follows
(`SumStep`, `SumUpdate`, `SumMonotone`, `SumPlus`, `SumPart`...). No induction over data is needed: a finite set for which a fact fails has
a smallest such subset (`SmallestSubset`).

**`OrderReleaseProofs`**: `TypeCorrect`, `ReservedRowsUnique`, `NoStockLost`,
`StatusJustified`, `RuleEnforced`, `ReleaseIsAtomic`. None of the invariants is inductive, because a request acts on values it
read some statements ago. The argument: before a request touches a RESERVED row of a lot it
has stored a new quantity in an AVAILABLE row of the same lot, and holds that row's lock until it
commits (`LocksOK`). If all requests under way hold the same row of the lot, at most one is between the two statements, so what it
read of the RESERVED row is still true when it writes, although no lock protects that read (`FoundOK`). A lot that never had two requests hold different
rows of it (`crossed`) therefore has one RESERVED row, with exactly what was drawn from the lot's rows (`TotalOK`). What a request read of an
AVAILABLE row may be stale, but it falls short of the initial stock by no more than was drawn from that row by the time it is stored (`SeenOK`, `DrawnOK`); of this
a crossed lot is no exception. So stock may be counted twice but not lost. Of the RESERVED rows of a crossed lot nothing is claimed, and nothing could be: two
requests that hold its two AVAILABLE rows find no RESERVED row and insert two, or overwrite each other's increase. That no two requests hold different rows
is no guarantee of the code, and nothing in it prevents the second AVAILABLE row (`inventory.service.ts:416-444`); `crossed` says which lots are exempt.
The order row, written first, plays the part of a lock for `StatusAgreesWithLines`: the
lines a transaction judges are its own.
`Invariance` proves the conjunction `IInv`: the types, the properties of the run, the locks, and for each worker a clause that says what its locals are
worth at its control point.
`ReleaseIsAtomic` (`SerialReleaseIsAtomic`) is the refinement: while releases have not overlapped, a commit is a step of `AtomicRelease` and
everything else, rollbacks included, a stutter. The atomic step quantifies over what each line draws from each row, and no variable holds that. The layer
`SerialOK` says that for the request under way there is such a function (`Draws`): the lines before the current one have drawn in order of
expiry all they could (`LineFilled`), the current one has used up the candidates before the one at hand (`LineBegun`), and the rows
the request sees are the committed ones less what is drawn, and the RESERVED sum of each lot is more by as much (`RowsMoved`). Each statement either keeps the function or, when it
writes a RESERVED row, enlarges it by one amount (`DrawMore`); at the commit it is the witness. Sums over it are why
orders, lines and rows are assumed finite, and order lines and candidates to list each row once (`RowsAssumption`).

**`PickingProofs`**: `TypeCorrect`, `NothingLost`, `TaskNeverOverpicked`, `PicksHaveMovements`, `LonePicksAreExact`. Here no lock
helps: the task line is read before the transaction and the reservation before it is written. The strengthening
says what every worker *would* write: each uncommitted reservation is at least the initial
stock minus the movements that are committed or its own (`CoverOK`), each planned pick is bounded by
`quantityToPick` of the task it read, which is fixed once the task exists (`BoundOK`), and the
reservation it found covers what it takes (`FoundOK`). An overwrite then
replaces a covered value by a covered value.
`PicksHaveMovements` (`PicksAreTraced`) needs more, because a confirm stores what it first read plus its own quantity: an
old value may come back, enlarged, after others have committed. `ClaimsCovered` says that the movements of a lot
cover *any* choice, for each task line, of what it holds or what some request has read of it; `Logs` that a request moves what it
adds. A choice of what the lines hold after a commit, less what that confirm added, is a choice of what they held before.
`LonePicksAreExact` (`SerialPicks`) has equations where the others have bounds. What a request that meets no other sees, committed rows
and its own writes, is what its commit publishes: `SoloLedger` balances each lot as the request sees it, `SoloPicks` compares what it has added to
the task lines with what it has moved (a line written twice is one its confirm lists twice), and `SoloVerdicts` says that the two statuses it has
judged are those of what it sees. That a verdict agrees with the lines when none
has a quantity rests on every written quantity being positive and on the order requesting something (otherwise it would be full at once); that a confirm
changes the lines of its own order only, on tasks planning lines of their order (`PlansOfOrder`) and on a line belonging to one order.

**`ShippingProofs`**: `TypeCorrect`, `LoadedShipmentsHaveUnits`, `LinksLeadToLines`, `DepartedGoodsAreTraceable`,
`LoneRequestsShipExactly`. Units, links and
lines are read before or early in a transaction and relied on at its end. No lock protects them, but none
is ever removed: `OnlyAdds` says so of every step, and `StepOK` says of each control
point what a request has read by then, all of it of a kind that `OnlyAdds` keeps. A dispatch reads
links and lines in two statements and logs a third time; `CargoOK` says that what it is about to log is still
in a unit of the shipment. `LoneRequestsShipExactly` (`SerialShipping`): what a request that meets no other has read is what is
there when it commits; `Solo` says for each control point what it knows. Picks and new shipments may come in between: they
only raise what may be packed, and touch no shipment that is there.

**`ReceivingProofs`**: all five invariants of the run. For `NeverOverReceived`: `confirmReceipt` compares with the tolerance the very sum it stores, so a stale read
makes the sum smaller than the truth but never larger than the tolerance; `receiveLegacyLine` compares nothing, but asks
for no more than was pending when it read the line, and that read is what it adds to (`Working`).
`StockHasMovements` is about any overlap. Rows and lines are overwritten from stale reads, so `Backed` is stated of a table in general and used twice, for the
rows of a cell and for the lines of a receipt: whichever requests `W` still get what they read or wrote stored, in whatever order, the rows add up to no more than was
committed and what `W` bring. A commit moves one request from `W` to what was committed.
Requests that do not meet (`MInv`: two under way at once have met) keep more. `LoneRequestsKeepTheStock`: each cell has one row, for the committed state and for the request
under way, which finds there all there is (`Solo`). `QuietReceiptsAreExact` is about one receipt whatever happens to
others: what a request has read of its lines is still so, what it wrote and what it moved are the same quantities
(`BInv`), its items are of different lines and it has moved something before it commits (`OInv`).

**`CountingProofs`**: `TypeCorrect`, `CountedOnce`, `ChangesAreExplained`, `CountsDecideTheStock`. The status of the task is read before the transaction. `Fresh` says that what was read
is still so, unless the task is `disturbed`; `Apart` that two requests at work on one task have disturbed it; `Scoped` what a request is about.
`ChangesAreExplained`: in an undisturbed cell only one request is at work, so what it saw is still there; a submission
will commit the stock it sees and the movements it holds (`Held`), an adjustment on its own owes its
movement after the row and its record after the movement (`ToLog`, `ToRecord`). `CountsDecideTheStock` is the action property `CountSettles`:
until a line is dealt with, nothing is stored in its cell (`Open`); if one row has stock, that is the row chosen (`AtHand`);
once it is dealt with, what the submission sees in the cell is the count (`Settling`).

**`RelocationProofs`**: `TypeCorrect`, `LimitOverrun`, `StockFollowsMovements`, `NoUnitIsLost`. `OverrunIsBounded` is about the transfer orders that exist, less the `lost` ones. Transfers between check and count are `InFlight`;
`used` plus their number never exceeds the limit by more than the number of workers less one, and each order that is made and not lost is counted in `used` or is in flight. A request
that dies between COMMIT and `Increment` leaves its order in `lost`: there is no bound on these, so the theorem has none either.
The other two rest on three layers. `Steady`: rows are never removed nor moved, and two transactions never change one
row at once, so a row that was read is still a row of its product in its place; only its quantity may be stale. `Scoped`: requests at work on
one product have met. `Ledger`: for a product whose moves have not met, the quantities read are those of the rows, the rows as
the transaction sees them never fall behind the committed ones by more than the line at hand (`Lossless`), and, unless a move
of it was irregular, they add up to the movements at each location (`Explained`). `NoUnitIsLost` is the action property `NothingIsLost`, which also holds
of the irregular moves.

**`AppendOnlyProofs`** is about the two components that read without a lock or a transaction and are right all the same, because what
they read is only ever added to.

Its first part, on `Traceability`: `TypeCorrect`, `TracesAreRecent`, `TracesCrossReference`, for any page. Rows that queries select by are only added to
(`Grows`), so what a read returned stays true; `Progress` says for each control point which parts of the answer are
complete by then, if the trace fits in the page. A trace that fits now fitted at every earlier read, as rows are not removed (`FitsStays`), and a read of a trace
that fits returns all its rows, in whichever order (`PageAll`, `FittingIsWhole`). Rows come to refer to each other in the order pick plan, pick, unit, link, departure (`MovesAreBacked`),
and a batch's movements are read before what they refer to, so the later reads find it. A stored answer keeps what it had when it was stored (`Good`). That each shipment in a
customer trace comes with an order of the customer holds on any page, as those orders are read without one. Of a batch trace that does not fit nothing of the kind is true (see [below](#what-the-models-found)).

Its second part, on `Waves`: `WavesTypeCorrect`, `GenerationsDivide`, `TasksAskForReserved`, `PathsAreTours`. Half of it is about what the algorithms
of the service compute, for every input. They are recursive functions over a prefix or over what is left; `RunExists` proves that such a function exists
and `Upwards`, from a least counterexample, that what holds at 0 and is kept by each step holds to the end, so no induction theorem is needed.
`GroupIs`: the group of a key has exactly the orders of that key, each once. `ChunksDivide`: the ranges of the chunks cover a sequence, are disjoint, and
none is longer than asked for; the case that matters is the last chunk (`ChunkRanges`). `AllChunksDivide` and `BatchesMade` put the two together.
`NearestIs` shows that the choice of the nearest is never of nothing. `WalkIs` carries `Walked` from step to step: the route so far repeats no node, what it has visited and what
remains are all the locations and have none in common, and each leg was no longer than any other to what came later; at the end nothing remains (`NearestNeighborIs`).
The other half is the invariant. `Base` holds the types, that every wave has a path and every task a wave (`RowsOK`), and that what a handler read is of a
wave that is there, with each order and location once (`ReadsOK`). Each action has a lemma that it keeps `Base` and takes back nothing (`WavesStay`, `TasksStay`).
`GenerationsPartition` also needs that a generation's number is new (`GenOfWave`), so that no wave gets a peer later. For `TasksAskForReservations`, `LinesOK` says that a
handler has consolidated the first n of the lines its wave asks for, and for each row has at most m times what was reserved, where m of these n lines name its product; the stock it adds at each step
may be picked at any time but only falls. For `PathsAreGreedyTours`, `WalksOK` says that the locations read are still among those of the wave's tasks. TLC checked these
parts on the instance of `waves` before they were proved.

**Only model-checked.** Liveness (fairness and ENABLED are beyond the prover): `EveryReleaseReturns`, `EveryRequestReturns`,
`EveryOrderGetsAWave`, `StaleAnswersDieOut`. Every other property of a passing run has a theorem. The four counterexamples, which are violations.

## What the models found

Four runs end in a counterexample to something the repository says.

* `release_overreserved`: two releases read one AVAILABLE row before either commits
  (`outbound.service.ts:176`), each stores what it computed (`:200`) and both reserve the same
  stock. `docs/wms-saas-docs.md:122` promises to validate the available inventory and
  create reservations.
* `picking_qty`: `confirmPickingTask` stores the quantity of one *task* line as
  `pickedQty` of the *order* line (`:442`). With two lots the second confirm overwrites the
  first; the order never becomes PICKED and packing refuses stock that was picked. No overlap is needed.
* `shipping_overpacked`: two requests sum what is packed of a line (`:604`) before either
  inserts, and pack the same picked unit. `docs/sprint5.md:11` forbids it.
* `traceability_receipts`: a partial confirmation replaces the batch of its receipt line (`inbound.service.ts:276`); of a
  line delivered in two batches, the trace of the first no longer names the receipt, though stock and movement
  are there. `docs/sprints.md:46` says a search by batch returns the receipts.

Properties that overlapping requests break, for which no document promises
concurrency, are stated for requests that do not overlap: order of expiry and conservation of stock (`SerialReleaseIsAtomic`), the statuses of
tasks (two confirms of the two lines of a task do not see each other's pick, `outbound.service.ts:464`, and the task stays IN_PROGRESS), links
inserted twice and shipments set back from DISPATCHED to LOADING (`SerialShipping`), receipts that stay PARTIALLY_RECEIVED (`QuietReceiptsBalance`), stock
overwritten by an adjustment (`StockIsExplained`). In each case a status or a set of rows is read
before the transaction and not read again inside it.

Seen while modelling, without a run of its own: two receipts may each insert an AVAILABLE row of one lot (`inventory.service.ts:416-444`), and then two releases that
hold one row each insert two RESERVED rows or overwrite each other's increase of one (`outbound.service.ts:205`, `:217`); a batch trace longer than a page tells the oldest movements (`traceability.service.ts:91`) with the newest
orders and unit lines (`:113`, `:145`), so its parts do not name each other although nothing overlaps; a transfer whose request dies before `increment`
is never counted, as often as it happens (`replenishment.service.ts:222`); an order that
found no stock stays RELEASED and no operation releases it again; `createPickingTask` plans every RESERVED row of the product, whoever reserved it (`outbound.service.ts:302`); a
review that rejects cancels a cycle count whose adjustments are applied (`cycle-count.controller.ts:188`); a confirmation without a payload of a receipt that has a complete
line is always refused; a confirm that lists a task line twice moves both quantities and records the second (`outbound.service.ts:439`; `repeated` is the history of such lots); two lines of one product in a wave double the quantity to pick; waves of orders that are in waves already are
made again (`waves.service.ts:57`); items packed into a unit after its assignment get no link (`outbound.service.ts:737`), so the order and customer traces
miss that shipment; a customer trace names the batch of the first task line only; a batch trace misses units packed without `batchId`;
`createOutboundOrder` never sets `customerId`, so the customer trace is empty for orders made by the API.

## Not modelled

* Values that no caller of these methods is prevented from sending but whose
  meaning nothing documents: a negative or zero `quantityPicked` or packed quantity.
* `Receiving`: creation of a batch (`batch.create` at `inbound.service.ts:264` and `:506` leaves out the required `code`) and the
  movement of `confirmReceipt` mix scalar and `connect` fields, which Prisma refuses; batches exist beforehand, and the movement is modelled as written. No code sets CANCELLED.
* `Counting`: rows of a cell exist from the start; creating the row an adjustment does not find.
* `Relocation`: average consumption, the `force` flag and the CRUD of policies, ABC and XYZ scores, units of measure and batches; the usage row
  exists from the start.
* `Waves`: the cache of distances and the coordinates (the constant `Dist`).
* `Traceability`: quantities, products, date ranges, two rows of one `createdAt` or departures of one instant (the database may return these in either order). The product,
  overview and movement traces. How writers meet each other is the subject of the other modules.
* Listing and `get` methods, DTO shapes, logging, permissions, tenants; `recommendWarehouseBalancing`, which is read-only arithmetic.
* The integration jobs, because nothing enqueues one; the use cases under `inventory/application`, because nothing calls them; authentication, whose
  properties would be about security; CRUD, read-only and pure I/O components, which have no behaviour of several steps.
* About half of the repository's lines are screens, scripts and DTOs. The map covers the methods above and cannot cover
  a third of all lines while it names only what a definition stands for.

## Plan

Done: `OrderRelease` with its abstract specification, `Picking`, `Shipping`, `Receiving`, `Counting`, `Relocation`,
`Waves` and `Traceability`, all with proofs. In order of importance, what is left:

1. **`Access`** (RBAC, users, onboarding): `setRolePermissions` deletes and inserts, so two that overlap at READ COMMITTED
   leave the union; `updateUser` does the same without a transaction; `deleteRole` looks at `isSystem` before; two first
   registrations of a tenant may both become OWNER.
2. **`OutboundFlow`**: release, picking and packing composed over one set of rows, statement by statement. It
   can show what the parts cannot, such as a later confirm that lowers `pickedQty`
   below what is packed already.
3. **`TenantSettings`**: find-or-create of configuration rows.
4. **`Monitoring`**: the windows of the service level objectives; an interceptor that records thrown exceptions with the status of a success.

Theorems wanted next: an abstract specification for `Picking`, which a confirm that meets no other implements as `OrderRelease` implements `AtomicRelease`; and the
theorems of what is added.
