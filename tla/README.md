# Verification of the warehouse API

This directory holds TLA+ models of the warehouse backend (`src/`, a NestJS service over
PostgreSQL through Prisma), the TLC configurations that check them on small instances, and
proofs checked by TLAPS. Every definition is translated from the source; the comment above it
names the method it stands for.

1. [The system](#1-the-system) – components, state, operations, how they interact, what is hard
2. [The modules](#2-the-modules) – which module models what, and how it corresponds to the code
3. [The runs](#3-the-runs) – what each configuration checks and what it shows
4. [What the runs found](#4-what-the-runs-found)
5. [Bounds and fairness](#5-bounds-and-fairness)
6. [Proofs](#6-proofs)
7. [Not modelled, and the plan](#7-not-modelled-and-the-plan)

## 1. The system

One Node process (several may run side by side) serves HTTP requests. Each request is an
independent sequence of awaited database statements; nothing in memory coordinates two requests.
All coordination is in PostgreSQL under READ COMMITTED: row locks taken by `SELECT ... FOR UPDATE`
(`common/operations/row-lock.ts`) or by an `UPDATE`, guarded `updateMany` statements whose count
is looked at, unique indexes, and transactions. So "an action" in these models is one awaited
statement, or a run of statements between which no other request can observe or change what the
properties talk about (a transaction that holds the locks it needs, or a group of writes that
commits at once).

| component | state | operations | what is hard |
|---|---|---|---|
| Write operations (`common/operations`) | `WriteOperation` rows: key, fingerprint, status, lease | claim, take over, run, flip, replay, release | crash between claim and flip, retries, late attempts, leases |
| Reservations of consumables (`reservations`) | `ResourceReservation`: status, quantity, acceptedQuantity | approve, accept, reclaim, cancel, uncancel, reject | status read before the lock, measured remainder used after it |
| Allocations (`allocations`, `reservations`) | `ReservationAllocation`: quantity, releasedAt, pool | release, hand back, remove | rows cut in two from an unlocked read |
| Returns (`resource-returns`) | `ResourceReturn`: status, quantity | file, receive, call off | two receipts, a receipt against a call-off |
| Shelves and ledger | `Item.quantity`, `WarehouseStock`, `InventoryMovement` | increments and guarded decrements | overdraft, a unit without a movement |
| Reservation creation, availability (`reservations`, `availability`) | promises per item, pool and day | create, requests of objects and of the catalog, project copy, the measurement under the item lock | check before the transaction, the order of locks |
| Task editing (`reservations`) | a task's reservations, some already served | preview, update: raise, lower, move, add and drop rows | what is out stays out, a measure taken before the transaction |
| Stock transfers (`stock-transfers`) | shelves, `Asset.warehouseId`, `StockTransfer` | to a project, back from it | guarded moves, the project's row created by two at once |
| Stock requests (`stock-requests`) | `StockRequest`: status, lines, transferId | file, edit, approve, reject, withdraw | goods move in one transaction, the request is marked in another |
| Procurement (`procurement`) | `ProcurementOrder`, lines, payments | approve, send to finance, callbacks, deliveries, cancel, close short, amend | a remote call between local writes, instalments, callbacks |
| Purchase requisitions (`purchase-requisitions`) | requisition, its order | two approvals, rejection awaiting confirmation | statuses read and written by id |
| Catalog submissions (`catalog`) | submission, its lines | checkout, decide, issue, cancel, remind | many lines, several handlers |
| Asset custody (`asset-custody`) | custody rows, object rows, asset status | request, decide, issue, hand over, accept, release | the check that an asset is free is outside the transaction |
| Asset bookings (`reservations`, `allocations`, `resource-returns`) | live allocations of units and their windows | allocate, reallocate, release, hand back, file and receive | which booking a custody belongs to, five ways back |
| Maintenance (`maintenance`) | maintenance order, deposit and balance | finalize, callback, complete | two remote calls before one write |
| Project copies (`project-copies`) | one row per job, the rows and files it made | copy, repeat, roll back | eleven kinds of rows that point at each other, files outside the transaction |
| Low-stock alerts (`common/notifications`) | a latch per item and shelf | evaluate after every movement | stale reads against moving stock |
| Daily reminders (`reminders`) | one marker per record and day | claim, send | several processes at the same hour |
| Categories (`categories`) | a tree: `parentId` | create with children, move, delete | the check for a circle walks up a tree that others change |
| Items (`items`) | cards with variants, codes, pictures and documents | create, update, assign a code, variants, covers, delete | what the write follows from was read before it; files outside the transaction |
| Remembered lists (`objects`, `common/crm`, `common/cache`, `users-prisma`) | one list per process and the read under way | find, read past the cache, ask who is deactivated | one read answers many callers, who asked at different times |
| Everything else | warehouses, suppliers, responsibilities, entities, files, notifications | record keeping | unique columns, no protocol |

**How they interact.** A catalog checkout or a project task creates reservations; an approval
issues goods from a shelf into allocation rows; the requester accepts them, files returns, and a
keeper receives them back onto the shelf. Stock transfers move goods between the main shelf and a
project's shelf; a stock request is a transfer that somebody else has to approve. A shortage makes
a purchase requisition, which becomes a procurement order; finance (another service, called over
HTTP and calling back) pays it; deliveries put goods on a shelf, and the requisition is fulfilled.
Two create routes and a few others go through an `Idempotency-Key` (write operations). All of them
share rows of `Item`, `WarehouseStock` and `Asset`, and so each other's locks.

**What makes each component correct**
 - keys: the work of a key commits at most once, its row tells whether it did, and every answer is
   true;
 - procurement: a transfer is raised once and recorded once; what finance pays is what was invoiced;
   an order is complete only when nothing is outstanding, and final orders stay so;
 - stock: no shelf below zero; every unit on a shelf explained by a movement; goods neither made nor
   lost but where they are written off; accepted ≤ issued ≤ requested; closed reservations hold nothing; terminal statuses stay;
 - promises: on every day no more is promised than is on hand;
 - requests: goods are sent once, as asked for, for an approved request;
 - locks: nobody waits in a circle, and everybody who waits gets an end;
 - task edits: what was delivered is never taken back by an edit, and what is written is what the
   preview showed;
 - requisitions and catalog: procurement sees nothing the organization has not let through, an order
   carries what was approved, a failed checkout leaves nothing behind, "ready" means the goods are
   there, a cancelled submission holds nothing;
 - assets: at most one holder named for a unit and the last who took it has it; no two live bookings
   of a unit meet; no more issued than was requested;
 - maintenance: the transfers a sent job names add up to its cost, and its deposit and its balance are judged alike;
 - alerts, reminders: one while a shelf stays low, one a day for at most a week;
 - project copies: whole or not at all, once per job, and pointing at copies where there are copies;
 - categories: every one hangs off a root; cards: codes apart, variants like their parent, one cover,
   every row with its file;
 - remembered lists: no answer older than its caller was promised.

## 2. The modules


The families of handlers follow the same shape: what a handler has read is carried in `job` from one step
to the next, and every step of another handler may fall in between. A step that only reads is
kept as a step exactly when something acts on the reading later.

| module | models | state ↔ code | actions ↔ code |
|---|---|---|---|
| `OnceOnly` | what an idempotency key promises, abstractly | `effects`, `answer` | carrying a write out, answering |
| `WriteOperations` | `OperationsService.runOnce` and `claim` | `row` = `WriteOperation` by its unique key; `mine` = `claim.id`; `seen` = `existing`; `expired` = stamps older than `LEASE_MS`; `effects` = committed business writes | `Insert`, `InsertRefused`, `LookupFindsNothing`, `TakeOver`, `CommitWork`, `Release`, …; `Crash` between any two |
| `ConsumableTables` | the tables, `quantitiesOf`, row locks, `ReleaseNewest` | `shelf` = `Item.quantity` / `WarehouseStock.quantity`; `moved` = summed `InventoryMovement`; `res`, `alloc`, `ret` = the three tables; `locks` = rows under `FOR UPDATE` | – |
| `ConsumableIssue` | approve, accept, reclaim (to the shelf or as scrap), cancel, reject, uncancel, releaseAllocation | `job.pre` = the reservation as read outside the transaction, `job.rows` = live rows as read inside | `…Check` = read and validate; `…Measure`/`…Read` = lock and read again; `…Commit` = write |
| `ConsumableReturns` | return create, receive, cancel; returnAllocations, remove | same | same |
| `ConsumableLifecycle` | the two composed, and their properties | – | `Next`: any handler, any step, or `Abort` |
| `PromiseTables` | the rows that promise goods for days, and the two measures of what is free | `rows` = reservations as committed, `live` = what is out on each; `job.made` = rows the transaction inserted; `locks` = items under `lockItem`; `duty` = the case | `Commit`, `Refuse` |
| `TaskEditing` | `previewUpdate`, `updateTaskReservations`, and what else becomes of a task's row in between | `Shown` = the preview, `job` = the edit with the shortages it measured beforehand | `ReceiveEdit`, `EditRow`, `AddRow`, `EditLine`; `Issue`, `Accept`, `Withdraw` |
| `ReservationPromises` | `create`, `createForObject`, `createForCatalog` and its task branch, the rows of a project copy, the availability check, `stillReservable`; composed with the edits. Locks that only make others wait (foreign keys) are left out: `RowLocking` has them | same | `Receive` (one per route), `AddSlots`, `CountOpenEnded`, `Measure`, `Commit`, `Refuse` |
| `StockTransfers` | `StockTransfersService.create`, and asset allocation as far as it meets a transfer | `stock`, `moved`, `home` = `Asset.warehouseId`, `holder` = live allocation, `docs` = `StockTransfer` | `Order`, `PickUnits`, `Transfer`, `AllocateRead`, `AllocateInsert`, `Deallocate` |
| `StockRequests` | `StockRequestsService` over it | `asked` = `StockRequest` | `File`, `EditRead/Recheck/Write`, `ApproveRead`, `ApproveMark`, `Decide`, `Abandon` |
| `RowLocking` | which rows twelve operations lock, in which order, by `FOR UPDATE`, by writing or by referring to them, and PostgreSQL's conflict rules | `todo`, `held` | `Begin`, `Acquire`, `Commit`, `RollBack`, `Kill` |
| `FinanceTransfers` | the finance service as `src/` uses it (external) | `transfers` = finance's rows; an operation key is the pair kind, attempt | `Raise`, `Correct`, `VoidAll`, `Decide`, `Book` |
| `ProcurementTables` | the tables behind one order, what is summed from them | `order` = `ProcurementOrder` and its lines, `edition` counts rewritings of the lines; `payments` = `ProcurementPayment`; `wanted` = the requisition; `locks` = line rows an open delivery has updated; `duty` = who may do what in this behaviour, fixed at the start | `Check`, `SetStatus`, `Abort` |
| `ProcurementMoney` | approve and `sendToFinance`, `financeCallback`, `reconcileWithFinance` | `job.paid` = payments as read, `job.value` = `invoicedValue` as read | `Raise…`, `RecordRaised`, `Callback…`, `SettleRead`, `CorrectBalance`, `RaiseDifference`, `Record…` |
| `Procurement` | the rest of the order's life, composed with its money and with finance | `job.status`, `job.edition` = the order as `findOne` read it | `…Check` = read and validate; `Deliver…`, `Edit…`, `Reprice`, `CloseShort`, `VoidMoney`, `Cancel`, `RemoveRow`, `Resubmit`, `MoveOn` = write |
| `PurchaseRequisitions` | `PurchaseRequisitionsService`: file, submit, two approvals, rejection and its confirmation, review, resolve, convert, fulfil | `req` = `PurchaseRequisition` and its lines, `orders` = orders raised from it; `job.pre` = the row as read, `job.undo` = the catch block | `Look` = read and check; one action per call that writes |
| `CatalogSubmissions` | `catalog.rules.ts`: stages of lines, the status derived from them, who may decide; `CatalogService`: checkout with its compensation, edit, cancel, reply, approve, issue, reject, ask, remind, raise the shortage | `sub` = the submission and its questions, `res` = its reservations, `job.todo` = the calls the handler still has to make | `Checkout`, `Edit`, `CancelSubmission`, `Approve`, …, and the step of each call |
| `AssetTables` | assets, custodies, bookings, requests and one maintenance job | `custody`, `alloc`, `row`, `back`, `request`, `work` = the tables; `asset.holder` = the mirror `responsibleUserId` | `Begin`, `Finished`, `Abort` |
| `AssetCustody` | `AssetCustodyService` and `AssetsService.update` | `job.units` = the units still to hand over, `job.free` = what the check said of the first | `…Read` = check, `…Write` = write; `AssertFree`, `HandOver` one unit after the other |
| `AssetAllocation` | allocate, reallocate, release, cancel, reject and accept of asset rows; the ways back of `ResourceReturnsService` and `AllocationsService`; `updateTaskReservations` on a row with units | same; `row.from`, `row.until` = the window, which a save of the task rewrites | same |
| `MaintenanceMoney` | `MaintenanceService` and its finance callback, over `FinanceTransfers` | `work` = `MaintenanceRecord` | `FinalizeRead`, `RaiseNext`, `RecordSent`, `CallbackRead`, `CallbackWrite`, `CreateRecord`, `UpdateRecord`, `Complete`, `RemoveRecord` |
| `AssetRegister` | the three composed, and their properties | – | `Next` |
| `StockAlerts` | `StockAlertService` beside everything that writes stock | `latch` = `lowStockNotifiedAt` is set; `checks` = evaluations nobody waits for | `Evaluate`, `Latch`, `Rearm`, `Send`; `TakeStock`, `BringStock`, the manual movement, `UpdateItem`; `StopChecks` |
| `Reminders` | `WarehouseRemindersService` in several replicas | `markers` = `WarehouseReminderMarker`, `runs` = where each replica's run is | `FindDue`, `Claim`, `Tell`, `Restart`, `NextDay` |
| `ProjectCopies` | `ProjectCopiesService` | `copies` = committed rows tagged with their job, `jobRow` = `WarehouseProjectCopy`, `disk` = files | `Look`, `ClaimJob`, one per family of rows copied, `CommitCopy` (its answer heard or not), `FailCopy`; `StartUndo`, `DeleteNext` for each statement, `DeleteJobRow`, `CommitUndo`, `RemoveFiles`, `FailUndo`; `StopCopies` |
| `ItemRegistry` | `CategoriesService`; `ItemsService` with variants, codes, pictures and documents | `tree` = `ItemCategory.parentId`; `card` = `Item`; `pics` = its image and document rows, `uploads` = the files; `moving`, `editing` = what a handler has read | `StartMove` = checks, `Walk` = one read of the loop, `SetParent`, `InsertUnder`, `WriteDelete`; `Read…` = read and check, `Write…` = write; `Unlink` |
| `SharedLists` | `TtlCache`, `crmProjects`, `ObjectsService`'s list and the row it remembers as gone, `UsersPrismaService`'s deactivated people | `cache`, `load` = the promise callers share, `missing`; `fact`, `last` = the other service | `AskList`, `AskFresh`, `LookUp`, `LookAgain`, `AskPeople`, `LoadReads/Ends/Fails`, `AllRead`, `OneRead`; `Flip` = the other service changes |
| `Upkeep` | the last five side by side | `part` = which of them this behaviour is about | – |
| `MC…` | small instances of each for TLC | – | – |
| `…Proofs` | proofs (section 6) | – | – |
| `Totals` | what the proofs need of sums over finite sets | – | – |

Some points of the correspondence that are easy to miss:

 - *Atomic groups.* A transaction's writes are one action, placed at its commit. Where its reads
   can go stale before the commit (it holds no lock that would prevent it) they are a separate
   action. Where it holds the lock, splitting would add no behaviour, and the module says so.
 - *Foreign keys.* Inserting a movement, a history row or an allocation takes a shared lock on the
   row it refers to, so it waits for a `FOR UPDATE` of that row. Several races that the code's own
   text suggests cannot occur because of that, and others can only occur around it; `Free` in the
   writing steps is this wait.
 - *Quantities* are integers. The code rounds to three decimals after every operation, so an
   integer stands for thousandths; nothing the properties say depends on the unit.
 - *Abort.* A handler may fail after any read: a refusal by a check inside the transaction, a
   timeout or a crash all roll it back, and look the same to the tables.
 - *Calls to finance* are steps of their own. `Abort` after one stands for a refusal, a timeout and an
   answer that never arrived alike: what finance did stays done, what was to be written is not.
 - *Prices and quantities of an order* are whole numbers; the tolerances in the code (0.005, 1e-9)
   are below one unit.
 - *Cases.* Where a component has more operations than can overlap in one instance, `Instance` is a
   set of cases, each saying what every handler may do; a behaviour is of one case (`duty`), and the
   run checks all of them.
 - *Faulty variants.* Operators marked "Faulty" are not part of any specification. Each is a
   plausible mistake in the operator next to it, kept to show that a property notices it.

## 3. The runs

All runs are finite and exhaustive. "States" are distinct states.

| run | asks | states |
|---|---|---|
| `keys` | three attempts (some perhaps another person's or another body's) under one key, one route working inside the flipping transaction and one outside: inside work at most once, its row is proof, answers true, implements `OnceOnly` | 238 k |
| `consumable_shelves` | two reservations on two shelves, two handlers, nine operations: every shelf is its opening stock plus its movements and never below zero; goods are lost or invented only by a request that acts without a lock on rows changed since it read them | 0.8 M |
| `consumable_races` | three handlers issuing, accepting, filing returns on one reservation: returns backed, acceptance within what is out, `ALLOCATED` true and the request not exceeded (`IssuedAsStated`), completed stays completed | 1.3 M |
| `consumable_serial` | any sequence of twelve operations one at a time: each keeps the goods but for what it writes off and for a row released a second time; closed holds nothing | 2.3 M |
| `requests_races` | two handlers over transfers both ways, approvals, edits, decisions, allocations, crashes: no overdraft, ledger and conservation (`StoresAddUp`), an approved request names its own document | 516 k |
| `promises` | two of up to three requests at once, by five routes, from two pools, bounded, open-ended and per day, and withdrawals; and up to three edits of a task while the warehouse serves it and others claim the same: promises covered on every day, delivered is kept, edits do what the preview showed | 482 k |
| `locks` | any two of the twelve operations on the same items and reservations: circles only where the code keeps no order, and between two copies; with the detector everyone ends | 53 k |
| `procurement` | one order: a desk doing thirteen operations one at a time, with finance at its own pace and any request cut off anywhere, with and without a deposit; and a desk and a store receiving at once while the desk edits: payments recorded once, nobody waits for a verdict that cannot come, settlements square, final stays, `RECEIVED` is complete, lines count the stock | 1.9 M |
| `catalog` | a submission and its requisitions, one request at a time and cut off anywhere; then two at a time: requester and organization against procurement, requester against desk, desk against itself. Nothing passes unapproved, orders carry what was approved, failed checkouts leave nothing, ready means there, ends are final, reminders keep their hour | 576 k |
| `assets` | two units in seven cases: requests and hand-overs, bookings of two tasks and an object, bookings called off, returned in each way there is, taken back one by one, moved by a save of their task, maintenance among bookings, and a job's money: one holder named, the last taker holds, bookings apart but for what a save moved, issued within the request, the money adds up and is judged alike | 1.2 M |
| `upkeep` | low-stock checks on two shelves, three at once; reminders of two replicas over ten days; copies of two trees, repeated, failing, unheard, rolled back; categories, cards and pictures under two editors; a remembered list: one alert while a shelf stays low but for checks under way when it fell, a week of reminders at most, copies whole, single and self-contained but for two cases (section 4), a tree, cards in order, answers as recent as promised | 1.2 M |
| `consumable_received_twice` | one statement of the repository which the code does not keep: section 4 | small |

Each passing run names for each of its properties a faulty variant of one modelled operator
(`PROJECT.json`, "mutants") under which TLC finds that property violated with the same bounds.

## 4. What the runs found

One statement the repository makes is a run that TLC refutes, `consumable_received_twice`: `receive`
checks the return's status before its transaction. Two receipts of one return wait for each other on
the reservation's row, and both go through: the goods are credited twice against one `RECEIVED` row.

While the modules were written more such traces were seen, by TLC when a case was drawn wider or in
the steps of a module. They are not runs; each is why a case leaves an overlap out or a
property has the condition it has. To see one of the first table, take the `.cfg` named, set `Ops` and
`Handler` as given and check the property alone.

**Consumables, promises, keys**

| property | cfg, with | what happens |
|---|---|---|
| `TerminalStays` | `Consumable_races`, `{"approve", "reject"}` | an approval under way writes `ALLOCATED` over `REJECTED` (line 1844) |
| a received return stays received | `Consumable_races`, `{"approve", "file", "receive", "callOff"}` | calling a return off overwrites its receipt |
| `StockIsKept` without `OutOfDate` | `Consumable_serial`, `{"approve", "release"}` | a released allocation can be released again, and is credited again |
| `NeverOverIssued` | `Consumable_serial`, `{"approve", "file", "receive"}` | a receipt shrinks the request, yet what came back still counts as issued |
| `ClosedHoldsNothing` | `Consumable_races`, `{"approve", "cancel"}` | cancel reads the live rows without the lock an approval holds |
| `StockIsKept` without `OutOfDate` | `Consumable_shelves`, `{"approve", "reclaim"}` | two reclaims cut the same rows, and the shelf gets the goods twice |
| `AcceptedWithinIssued` | `Consumable_races`, `{"approve", "accept", "reclaim"}` | an acceptance between reclaim's read and its write is ignored |
| `AcceptedWithinIssued` | `Consumable_serial`, `{"approve", "accept", "cancel", "uncancel"}` | cancel releases the rows and keeps acceptedQuantity |
| one open-ended reservation per item is approved | `ReservationPromises`, creates of one open-ended line only | the count of open-ended reservations precedes the item lock: two of an item are both approved |
| `JoinedAtMostOnce` | `WriteOperations`, `Outlives = TRUE` | an attempt still working when its lease is up commits beside its successor (the transaction's timeout makes this unlikely, section 5) |
| `PromisesCovered` | `ReservationPromises`, `OnHand <- ` one of item 3 | rows of an item in hours keep the verdict measured before the transaction |
| no two requests wait for each other | `RowLocking`, creates over `<<1, 2>>` and `<<2, 1>>` | `create` locks items in the client's order, `createForCatalog` in the cart's |
| no two copies wait for each other (`row-lock.ts:27-28`, "so two callers cannot each hold what the other is waiting for") | `RowLocking`, `{"copy"}`, without its disjunct of `CirclesHaveACause` | a copy locks items for update in the order of their ids, but its estimate lines refer to items before (`project-copies.service.ts:148-158`), its requisition lines and asset requests after (340-352, 378), and a foreign key locks what it refers to: each of two copies shares the item the other wants for update |
| the work of a key is done once | `WriteOperations`, the route that works outside the transaction | `POST /reservations` and `POST /resource-returns` (`reservations.controller.ts:75`) hand `runOnce` work that ignores the transaction it is given; a crash between its commit and the flip, and the retry after the lease does it again |
| a request's goods are sent once | `StockRequests_races`, approvals only | `approve` commits the transfer (`stock-requests.service.ts:353`) before it asks again whether the request is pending (364) |

**Procurement**, with `Procurement.cfg` and the instance given in place of `MCInstances`

| property | instance | what happens |
|---|---|---|
| received ≤ quantity on every line | desk and store both receiving | both measure what is outstanding before either commits |
| `FinalStays` without `Serial` | desk with `cancel`, store with `receive` | a delivery under way writes its status over `CANCELLED` |
| one row per transfer, without `Serial` | two handlers with `approve` | finance hands both the same transfer, and both record it |
| every pending transfer's callback can be answered | desk, order with a deposit | the deposit's approval lets the order be placed; the balance's verdict then marks its row and is refused for ever |
| a resubmitted order is approved on its own money | desk, `MaxTransfers = 4` | an old attempt's transfer, still pending, is approved and approves the new one |
| a cancelled order has no live transfer | desk cut off between deposit and balance | the order is still `PENDING_APPROVAL`, a status in which `cancel` voids nothing (`procurement.service.ts:1109-1118`) |
| `SettlementSquares` without `job[h].agreed` | desk, order with a deposit | a settlement whose record was lost is computed from the old rows the next time, and bills twice |

**Catalog and requisitions**

 - Two calls on one requisition overwrite each other, for each looks and then writes by id: an edit
   racing `orgApprove` changes what was approved (`purchase-requisitions.service.ts:67-68` says what
   procurement receives is what was approved), two conversions raise two orders, a cancellation and an
   approval undo each other, a stale `declineRejection` reopens what was confirmed, and the
   catalog's `requestInfo` writes `DRAFT` over a requisition already ordered.
 - A withdrawn submission's requisition can come back without any overlap: `cancel`
   (`catalog.service.ts:1905-1911`) withdraws those in a cancellable status and skips one in
   `REJECTION_PENDING`; its rejection is declined afterwards and procurement has it again. A submission
   whose cancellation was cut off half-way cannot be cancelled again by its owner.
 - `approve` issues the stock lines before it finds out that the purchase part is refused, and the
   submitter is not told what was issued. A rejection of the stock part alone closes the open
   question while the requisition stays `DRAFT`; an approval of it alone leaves the question open.
 - The catch of a failed checkout passes over a delete that fails in its turn (`catalog.service.ts:714-716`,
   `.catch(() => undefined)`), and its rows stay. In the model no delete fails:
   `FailedCheckoutLeavesNothing` is about checkouts whose compensation runs, or is cut off, without that.
 - The compensation of a failed checkout deletes reservations with the allocations a keeper has issued
   on them meanwhile.
 - An edit racing an issue leaves more issued than is asked for, or `ALLOCATED` with less.
 - `findAll` shows procurement `CANCELLED` and `REJECTED` requisitions that were never let through
   (hence the exception in `NothingPassesUnapproved`).
 - The lines of a split are built from reservations whose status is not looked at.

**Assets and maintenance**

 - `assertFree` runs outside the transaction (`asset-custody.service.ts:553,587`): two hand-overs leave
   two open custodies, two issues exceed a request; two allocations double-book a unit; an
   allocation and the holder's return at once leave a booking nobody answers for; `decide` and
   `cancel` overwrite each other.
 - Without any overlap: an open-ended reservation is laid over a live bounded booking
   (`reservations.service.ts:1535-1544`, which is why `BookedApart` speaks of bookings with an end). A
   job without an end blocks no bounded booking, and no open-ended one that began before it
   (1552–1554); a `COMPLETED` job still blocks; creating a job ignores bookings.
 - An object's booking takes a unit from the person it is out with on a task, or from another
   object, although "the responsible person cannot walk away while the asset is out on a task".
 - Without any overlap too: saving a task writes its new dates on rows that keep their units
   (`reservations.service.ts:4036-4048, 4152-4162`). Whether there is room is asked of the item, not of the
   unit: with another unit free the save passes, and lays the window of a booked unit over another
   booking of the same unit. `BookedApart` excepts a pair of bookings of which one was moved by a save
   since both were there; everything else keeps bookings apart.
 - `reallocate` looks neither at whether the old allocation lives nor at the row's status or quantity.
   Releasing or removing what was already released reopens a `CANCELLED` row as `APPROVED`,
   and can close the custody of a newer booking.
 - Five ways back, and only some close the object's custody: receiving a return,
   `returnAllocations`, `AllocationsService.remove`, and reassigning before releasing leave it open
   though the release (`reservations.service.ts:213`) says it closes with the allocation.
 - An issue cut off before the request is marked leaves it `APPROVED`, and every unit of it out: it
   cannot be issued again. `AssetsService.update` sets any status under a holder.
 - A job finance refused can be edited but never sent again; a retry with another split leaves the
   first split's transfers alive; removing or completing a job while it is `PENDING_FINANCE` leaves a
   transfer whose verdict is never accepted; a different verdict for the second transfer is refused for
   ever; two callbacks at once can split the verdicts; a callback under way overwrites `COMPLETED`.

**Editing a task's reservations**

 - Two edits, or an edit and anything else: availability is measured before the transaction with no
   item lock and never again, rows are written as read. An approval in between is overwritten, two
   edits make two rows of one item, and more is promised than there is.
 - An edit revives a `REJECTED` row.
 - Dropping an item of the task releases what was issued on it and puts nothing back, although the
   comment near line 3996 says that this "would lose the units" (hence `CANCELLED` in `DeliveredIsKept`).
 - Of two rows of an item (the catalog makes them) only the first is edited while all of them are left
   out of the measure, so more is promised than there is; the preview adds them up.
 - For an item in hours the preview adds and rounds over days, what the task has is not credited,
   and a `COMPLETED` day is treated as any other.
 - `stillReservable` counts what is out of a `PARTIALLY_ALLOCATED` row and forgets the rest;
   a consumable claimed for windows that do not meet is promised twice. `over` in the model is what
   keepers issue to rows that were never promised anything.
 - `supplyObject` takes back by id what it made before it failed, also what a keeper has issued since.

**Alerts, reminders, project copies**

 - A movement by hand writes a quantity it computed from what it had read
   (`inventory.service.ts:76-130`), and loses one of two; an edit of an item writes its quantity with
   no movement.
 - `stock-alert.service.ts:17-18` says the alert is "correct no matter which path did the write". A
   stale check can set the latch after the stock recovered, so that the next breach goes untold. Nor does
   everybody "stay quiet until stock recovers" (line 78): a check that read the shelf above its minimum
   and clears the latch after the shelf has fallen and been told makes the next check tell it again, and
   a check that latched before a recovery may send its alert in the next breach. Restocking by cancel, reject or reclaim, and whatever comes to a project's shelf, starts
   no check at all, so the latch stays set. A crash between the latch and the message loses the alert.
   `OncePerBreach` is therefore the promise that nobody is told too often, not that he is told: once
   while the shelf stays low, and once more at most for each check that was about to re-arm or to send at
   the moment it fell. Where no such check was, the comment holds as it stands.
 - A crash after a reminder's claim leaves its record without that day's reminder. The window of
   unconfirmed receipts is closed at both ends: a hand-over at nine sharp, or a run repeated at another
   hour, gives eight.
 - Each statement of a rollback deletes what is committed when it runs (`project-copies.service.ts:417-439`).
   A copy of the same job that commits between two of them keeps the rows of the kinds already passed
   and may lose the job's row: nothing finds those rows again but another rollback, and a repeat
   of the job makes a second copy beside them. Its files stay on the disk, as the list of files was read
   before. `CopiesStandAlone` excepts such copies (`torn`) from being single and counted; what is left
   of one still names no row that is gone.
 - A commit whose acknowledgement is lost is an error to `copy`, and its catch (71-72) removes the files
   that the committed rows name; they are excepted too (`unheard`). Its repeat answers from the
   stored row, as if all were well.
 - A crash leaves files without rows (`cutOff`), before a commit or after a rollback's. A rollback also
   removes allocations a keeper has issued on copied reservations.

**Categories, items, remembered lists**

 - Two moves at once can close a circle: each walk up ends before the other's write
   (`categories.service.ts:190-208`). `getTree` no longer shows those categories, and from then on
   `getDescendantIds` and the walk of the next move through them never end.
 - Two first pictures added at once are both the cover; two covers chosen at once stay two.
 - A variant made while its parent changes keeps the parent's old name, type, unit and category.
 - A code typed by hand can be the one another item would be given: that item is then created without
   its card (the insert is rolled back), or refused when its code is assigned.
 - `crmObjectFresh`, "read past the cache — for decisions" (`objects.service.ts:114`), joins a read that is
   already under way, so a decision may rest on what was so a read's length ago (5 s);
   `ListsAreRecent` says so much and no more.
 - `ttl-cache.ts:12-13` says that the owner accepted "the staleness each caller picks (≤ its TTL)". The
   TTL counts from when a read came back; what it saw may be as old as the read took (at most its
   timeout). The bound in `ListsAreRecent` is therefore the TTL plus that timeout.

This is why `consumable_races`, `consumable_shelves` and `consumable_serial` run different sets of
operations: each property is checked over the largest set on which the code keeps it, and
the table says what is outside. `CirclesHaveACause` does the same for locks: it says precisely
which pairs of operations can wait in a circle. In `catalog`, `assets` and the edits of `promises` the
properties that need it are checked one request at a time, cut off anywhere.

## 5. Bounds and fairness

**Bounds.** `MaxQty`, `MaxAlloc`, `MaxCustody`, `MaxReturn`, `MaxShelf`, `MaxDocs`, `MaxAsks`,
`MaxDay`, `MaxLines`, `MaxAttempt`, `MaxEdition`, `MaxTransfers`, `MaxPayment`, `MaxOrders`, `MaxHour`, `MaxStock`,
`MaxWrites`, `MaxToday`, `MaxRestarts`, `MaxTries` cap rows and numbers; a step that would exceed one is disabled, and the handler can only abort.
They are chosen from what a violation needs:

 - three attempts per key: a holder, one who takes the lease over, one who arrives late;
 - two handlers for races of two reads and two writes; three for `consumable_races`, where an
   approval, an acceptance and a return interlock;
 - quantity 3 in the races and in the serial run, so that a row can be cut, partly accepted and
   partly returned; quantity 1 and two allocation rows where two shelves are modelled, since the
   question there is which shelf is credited and not how much;
 - two days, of which an open-ended claim covers both and a bounded one either;
 - one order with one line of two units, priced 1 and reinvoiced at 2, with deposit 0 or 1, two
   submissions and three transfers: a deposit, a rest and a correction, or two submissions and a
   correction. The overlap of deliveries needs two lines of one unit, so that each handler can
   complete its own and see the other's missing;
 - two items per document: two is what opposite orders need;
 - creates and copies on one unit of each item, so that any two of them compete; edits on two, so that a
   row can be lowered, served in part and raised again, with three requests after one another;
 - for assets saved with their task, two windows: one that meets another booking and one that meets none;
 - one item in the cart and one the catalog does not have, for the rules look at the kinds of lines and
   not at their number; quantity 2 where lines are issued in parts; each row's lines rewritten
   once, two orders (a second would be the mistake), three hours for reminders kept an hour apart;
 - two units of one item, two people, an object and three rows whose windows meet in part; four
   custodies and three bookings, so that one unit can be taken, moved, given back and taken again; four
   transfers, which are two tries of a deposit and a balance;
 - shelves of at most two, four writes and three checks: a breach needs one write and a re-arming
   another, and a third check is the stale one; one clerk, for two lose each other's movement (section 4);
 - ten days for seven reminders with one day before and one after; two replicas, of which one may
   stop and start again; a run is over by midnight, and no record is dated exactly at nine;
 - two trees that share tasks, two requests at once and three in all, to copy or to take back (a copy, a
   rollback and a repeat), one row written late that another names, and one file
   missing from the disk;
 - three categories (a circle needs two, and one to hang it on), two editors; three items, of which one is
   a parent at a time, so that it has two variants; at most one item older than the numbering; two
   shapes and labels, three files, two pictures of one item;
 - lists good for one hour, read in one, four hours and two changes of the row: enough for an answer
   as old as it may get, and for a row that comes and goes again.

`CHECK_DEADLOCK FALSE` is given where bounds end every behaviour: all rows used, all attempts over,
all requests sent. `RowLocking` leaves the check of standoffs to `EveryoneEnds`. In
`ReservationPromises` two creates can wait for each other, as in the code; one of them is then refused
(`Refuse` stands for the detector's choice too).

**Symmetry** of handlers, units, people, checks, clerks, replicas, categories, items, editors and the like is used
only in runs without liveness properties, and only of values no case tells apart. The parts of `Upkeep` share
their values (one set is checks, categories, items and files, one replicas, attempts, editors and
callers), since a behaviour is of one part.

**Fairness.** `WriteOperations`, the consumable modules, `StockRequests` and `Procurement` make no liveness
claim and have no fairness: requests may be abandoned anywhere. So do `ReservationPromises`, the catalog,
the asset register and `Upkeep`, where nothing retries what was cut off.
`RowLocking!FairSpec` has strong fairness of `Acquire`, for PostgreSQL queues lock requests, so that a lock
that is free again and again is granted; weak fairness of
`Commit`, and strong fairness of `Kill`: the deadlock detector runs after `deadlock_timeout` for
every waiter. With three handlers strong fairness is weaker than a queue (two sharers of a row can
take turns while a third wants it for update), so `EveryoneEnds` is checked with two;
`CirclesHaveACause` is proved for any number.

**One request at a time.** Three of `Procurement`'s properties (`WaitingCanEnd`, `SettlementSquares`, `FinalStays`)
and a part of `PaymentsAreSound` say `Serial`: the service writes an
order by its id with no condition, so they are false of two requests at once (section 4). Within one
request at a time finance still decides and books whenever it likes, and every request may be cut off
after any step and sent again; that is what they are about. The other three hold of any overlap. A
desk that edits never has a deposit and one that overrides settled prices does: each of the two
instances leaves out the one operation that would only multiply its states.

**The lease.** `Outlives = FALSE` says an attempt is no longer working when its 60 s lease is up.
A transaction of the code lives at most 7 s (Prisma's defaults: 2 s to get a connection, 5 s to
run), so this holds unless the clock of the database or of the process jumps.

## 6. Proofs

TLC's runs are small; these theorems hold for any numbers of handlers, rows, keys, places and
callers, and any bounds. Each starts from an invariant that is stronger than the property, and was
checked by TLC on the run's instance before it was proved. In short:

| theorem | of | under |
|---|---|---|
| `WorkedAtMostOnce`, `StatusIsProof`, `Implements` | `JoinedAtMostOnce`, `RowTellsTheTruth`, `ImplementsOnceOnly` | `~Outlives` (section 5) |
| `ToldTheTruth` | `AnswersAreTrue` | – |
| `ShelvesAlwaysAddUp` | `ShelvesAddUp` | – |
| `ClaimsAlwaysOut`, `IssuedAlwaysAsStated`, `CompletedForGood` | `ClaimsAreOut`, `IssuedAsStated`, `TerminalStays` | `Forward` |
| `StoresAlwaysAddUp`, `ApprovedAlwaysNamed` | `StoresAddUp`, `ApprovedNamesItsTransfer` | – |
| `ShelfAlwaysCounted`, `CompleteWhenReceived`, `FinalForGood`, `SomethingToWaitFor` | `LinesCountTheStock`, `ReceivedWhenComplete`, `FinalStays`, `WaitingCanEnd` | – (the last two say `Serial` themselves) |
| `AlertedOncePerBreach` | `OncePerBreach` | – |
| `RemindedNoMoreThanAWeek` | `RemindedForAWeek` | `NotAtNine` |
| `CategoriesAlwaysATree`, `CardsAlwaysInOrder`, `ListsAlwaysRecent` | `CategoriesFormATree`, `CardsInOrder`, `ListsAreRecent` | – |
| `SomebodyAlwaysAnswers` | `HoldersAnswer` | `OneActs` |
| `RequestsAreNotOverrun` | `IssuedWithinRequest` | `OneIssues` |
| `BookingsNeverOverlap` | `BookedApart` | `OneBooks` |
| `CirclesHaveCauses` | `LocksAreSound` | – |

**The assumptions** on constants are the `ASSUME`s of the modules, and TLC evaluates them on every
run: numbers that the code takes from columns or constants are natural (`MaxQty`, `OpeningStock`,
`TTL`, `MAX_IMAGES`, …); what is counted is finite (`HandlersAreFinite`, `ChecksAreFinite`,
`ReplicasAreFinite`, `PlacesAndUnitsFinite`: processes, warehouses and units of goods); a value that
stands for "no row" is not a row (`NoneIsNoRow`, `NamesApart`, `AbsentIsNoCard`, `NothingIsNoAnswer`); rows have the
columns of their kind (`RecordsAreDated`, `DraftsGiven`, `CasesGiven`). For `RowLocking`, an allocation row is of one
reservation (`RowsApart`: its foreign key), items are finitely many and have numbers (`ItemsNumbered`), and `OpsNamed`
chooses among its twelve operations. `OneActs`, `OneIssues` and `OneBooks`
are no assumptions but hypotheses of the three theorems of `AssetProofs`; that the checked cases
satisfy them is `CasesApart` of `MCAssetRegister`.

**`Totals`**. Half of the claims are about sums over rows, which the models take with the folds of
the community modules: recursive functions on the subsets of their index set. No induction theorem
can be used for them, so `Totals` argues by the smallest counterexample: of the subsets on which a
statement fails one has no smaller one (`Smallest`, from the well-foundedness of the library), and
taking an element out of it contradicts that. What the proofs use is how a sum changes with one value
(`SumChanged`), without one index (`SumWithout`), or with two values that change against each other (`SumMoved`).

**`WriteOperationsProofs`**
 - `WorkedAtMostOnce`, `StatusIsProof`, `Implements`: without `~Outlives` TLC shows them
   false. `JoinedAtMostOnce` is not inductive: a second commit is excluded because the row an attempt would flip
   is stamped by somebody else or gone. The invariant adds who inserted each row and who may still
   know it (`RowInv`, `MineInv`), that a worker's stamp has not expired (`LeaseInv`) and its row, if
   still there, is in flight with its own stamp (`WorkInv`), that a committed write is what its row
   says and the other way round (`EffectInv`, `DoneInv`), and that whoever holds or finds a row asks
   for just what the row says (`IntentInv`). The refinement maps every step to a `Perform`, a
   `Reply` or a stutter (`StepRefines`).
 - `ToldTheTruth` needs none of that: an answer is given from the write the attempt has just committed
   or from a row that says so, and both name their request, whatever the leases do.

**`ConsumableProofs`**
 - `ShelvesAlwaysAddUp`: over all thirteen operations, any number at a time. That no shelf goes below
   zero is not inductive: an approval subtracts what it measured earlier. `ApprovalHolds` says that an
   open approval holds its shelf's row and that the shelf still covers it; `LocksApart` that no two
   handlers hold one row; `RemainderInv` that what a receipt or a hand-back carries is a number; the rest
   is that every other step only adds to a shelf or waits. The ledger needs no assumption about locks
   at all: no step moves a shelf without its movement.
 - `ClaimsAlwaysOut`, `IssuedAlwaysAsStated`, `CompletedForGood`: under `Forward`, which says that the operations
   are among approve, accept, file and call off. With any one of the others beside approve, accept and file
   (but `uncancel`, which needs something cancelled), two handlers are enough for TLC to refute each of the three
   (`TerminalStays` alone survives `handBack`): nothing more is true of this code, and `consumable_races`
   chooses its operations for the same reason (section 4). `ForwardInv` relates
   the sums of three tables: what is filed and what is accepted is out, what is out was asked for,
   and `ALLOCATED` or `COMPLETED` say that all of it is out; and that what a handler has measured
   still bounds what it is about to write (`Measured`): an acceptance, because what is out only
   grows; the remainder an approval works with, because what is outstanding only falls; an issue
   and a filing, because they hold the rows they measured.

**`StockRequestsProofs`**
 - `StoresAlwaysAddUp`: a transfer moves a line at a time between two places, so the
   proof is about two sums that change against each other (goods) and about sets of units that
   leave one place for another. `TransfersMove` adds that the two places differ and that the units picked
   are as many as the line says; `PickUnits` takes the newest by number, and that so many exist is
   `Newest`, once more a smallest set.
 - `ApprovedAlwaysNamed`: by `ServesItsRequest`, which follows the request from the approval that read it,
   through the transfer made for it, to the document the mark will name.

**`ProcurementProofs`**
 - `ShelfAlwaysCounted` needs types alone: a delivery adds the same to line and shelf in one commit.
 - `CompleteWhenReceived`: what a delivery measured before its transaction may be stale, but before it
   says `RECEIVED` it has updated its lines, and holds their locks until it commits; what it then finds
   complete stays complete (`LandingInv`), since only a handler that holds none of those rows can
   write the lines anew.
 - `FinalForGood`: with one desk the status a handler has read is the order's until it has written
   (`HeadInv`), so none of the writes that name no condition can undo an end. Finance's verdicts are
   another party's, and pass only while the order waits for them.
 - `SomethingToWaitFor`: as long as the order is unsent or waits, its attempt's transfers are undecided
   or voided (`OpenInv`), and while it waits there is one (`AskInv`). The difficulty is the
   moment before: an approval has raised its money but not yet written the status
   (`RaisedInv`), and a verdict may be under way (`AnswerInv`).

**`UpkeepProofs`**
 - `AlertedOncePerBreach`: while a shelf is low nobody new sees it above, so what may still clear the latch
   are the checks carried over its fall. What was told, what those and the checks about to send may still
   cause, and a latch that is open, add up to no more than one and the number carried (`AlertsPaidFor`).
 - `RemindedNoMoreThanAWeek`: every reminder is paid for by a day of its own with a marker, and of the
   days on which a record's dates are found overdue there are seven. `NotAtNine` excludes a hand-over at nine
   sharp, for which the window, closed at both ends, has eight (section 4).
 - `CategoriesAlwaysATree`: "no circle" is stated as "every set of categories has one whose parent is not
   of the set" (`Rooted`), which is what `getTree = Present` says without a path. While somebody walks,
   the walk still leads from the new parent to where it has come (`Leads`), whatever the others move
   to the top, create or delete; when it has come to a root, the new parent is not below the
   category that moves.
 - `ListsAlwaysRecent`: a held list is no older than its last answer was true, plus what a read may take
   and what it is good for (`HeldIsRecent`, `ReadIsRecent`), and every caller's answer is one that was so since they
   asked where the code looks a second time (`SeenSince`, `QueriedSince`).
 - `CardsAlwaysInOrder`: two of its three parts hold of any overlap. A row has its file because a file that is
   being added is nobody else's, and what a deletion has read is of the item it deletes, so its rows are gone
   before its files (`FilesInv`). A variant has its parent and a code one item because the writes
   themselves look again, by unique index and foreign key; and an item that got its code has it (`RowsInv`).
   The third is about one change at a time: what a handler has read (the shape, the free label, that there
   is no picture yet) is still so when it writes (`StillSo`, in `LoneInv`). A new item may come in
   between, but only to an empty table, of which nothing has been read that can still be written.

**`AssetProofs`**
Two requests that meet between a check and its write refute each of the three (section 4), so each says
what must not meet; in the first two all other operations overlap as they like.
 - `RequestsAreNotOverrun`: a request is served one transaction per unit, and may be cut off or lose units
   meanwhile. `IssueInv`: what is out on it and what its handler still carries are together no more than it
   asked for. A booking may move an issued unit on to an object and a release send it back to whom
   it came from; neither row names a request (`AllocationIssuesNothing`).
 - `BookingsNeverOverlap`: `BookInv` says that what a handler is about to book meets no live booking of its
   unit. The others may release and close bookings and reopen rows meanwhile, which takes bookings away and leaves windows
   alone (`BookingsStay`, `WindowsStay`); `reallocate` gives the new booking the old one's row, and
   `BookInv` compares it with that row. A save of a task changes a window under bookings already there: it
   marks the row as moved at a moment later than all of them (`TaskMoved`), so that later bookings, which
   are checked against the window they find, are still apart from them.
 - `SomebodyAlwaysAnswers`: `Units` adds where each holder came from: who an object's custody is of, and that
   the open custody of a unit booked for an object is on just the row of that booking, unless the
   object has handed it on. Only with the row can a release that closes "the object's custody of this
   row" be told from one of an older booking, which must leave the newer alone (`FreedIsNotIts`).
   `Doers`: what was checked still holds at the write.

**`RowLockingProofs`**
 - `CirclesHaveCauses`: the invariant is that everybody has taken just the first part of a script of his operation
   (`Types`) and that no two hold conflicting locks on one row (`Apart`). The rest is about one
   state. In a circle without a cause those that others wait for hold something and want more. None of
   them approves (`NobodyMeasures`): who holds the reservation or the shelf an approval wants is giving back,
   which is a cause, or would hold its item too. None of those that give back waits for its request
   (`NobodyWantsTheRequest`). Two copies are a cause; one alone is not in it (`NobodyCopies`), for nobody
   else who waits keeps an item from it. What is left is give-backs; `HoldsAndWants` lists what each may hold and
   want, and everyone waited for wants a lock of a lower rank than the one that waits (`RankFalls`): rows of a
   reservation rank by age above the shelves, shelves above the items. A
   lowest rank exists, and who wants that waits for nobody.

Type invariants that these proofs establish are not run again; those of the other parts are conjuncts
of a property of their runs or follow from the tables' construction.

**Checked by TLC only**
 - liveness (`EveryoneEnds`), which is out of the prover's reach;
 - `ClosedHoldsNothing`, `PaymentsAreSound`, `SettlementSquares`, which hold of one request at a
   time, and `StockIsKept`: the last three compare sums of what several rows gained and lost in one commit;
 - `MoneyOfAJob`, whose sum is over a set of transfers that earlier tries may have left behind;
 - `CopiesStandAlone`, and so far all of `ReservationPromises` and `CatalogSubmissions`.

## 7. Not modelled, and the plan

Not modelled because nothing moves in them that several requests could get wrong: warehouses, suppliers,
responsibilities, users, entities, files, notifications and the application shell; of assets
only the edits that write a status (`AssetCustody!UpdateAsset`).
Left out of the modelled parts:

 - access control and the two-party table (who may decide what): an operation's caller is taken to be
   allowed to perform it;
 - the connection pool under `runOnce` (`reservations.controller.ts:75`: a transaction that holds one
   connection while the work it waits for asks for another);
 - `supplyObject`, which sends calls modelled elsewhere one after the other, and takes them back by hand;
 - maintenance windows in the measure of `AvailabilityService` (`AssetAllocation` has them where units
   are booked);
 - an order's organization (`setEntity`), cost averages and the costs written on movements;
 - names, dates and comments of copies; who is told of an alert or a reminder, and in which words;
 - that an alert or a reminder does arrive: a crash loses it (section 4);
 - items' prices, attributes, barcodes and visibility; which category an item is filed under but for its deletion.

What is left to prove, in this order:
 1. `NothingPassesUnapproved` and `FailedCheckoutLeavesNothing` of `CatalogSubmissions`.
 2. `ClosedHoldsNothing` with one handler: what is live of a reservation only grows by an issue, and a
    closing reads all of it.
