# Verification of the Discern platform

TLA+ models of the Discern platform (`src/`), a Django application that runs a
contractor's business from the lead to the final invoice.  The models are
checked with TLC on small instances, and the results that matter most are
proved with TLAPS for every value of the constants.

Paths below are relative to the repository; `apps/` is the Django code.

## 1. The system

One PostgreSQL database (READ COMMITTED, no `ATOMIC_REQUESTS`), one Django web
process group, one optional Celery worker.  Every state change is a service
function decorated `@transaction.atomic` (or one that insists on its caller's
transaction).  A view reads a row, calls a service with the object it read, and
usually ends with `events.drain()`.  Nothing but the ceiling takes a row lock,
so everywhere else a service decides on the copy the view read.

| component | state it keeps | operations | interacts with |
|---|---|---|---|
| BOQ ceiling (`platform_core/services/ceiling.py`) | `CommitmentEntry` ledger (append-only) | `reserve_headroom`, `release_headroom` | called by purchase, service and fabrication orders, receipts and returns |
| Outbox (`platform_core/services/events.py`) | `OutboxEvent` rows, handler registry | `emit`, `dispatch`, `drain`, `replay` | every service emits; handlers belong to engineering, procurement, inventory, projects |
| BOQ revisions (`engineering/services.py`, `importers.py`) | `BoqRevision`, `BoqSection`, `BoqLine` | open, sign off, mark not applicable, send back, release, add line, import | release emits `BoqRevisionReleased` |
| Reconciliation (`engineering/reconciliation.py`) | `ReconciliationOutcome` | `reconcile`, `persist` | reads both ledgers, writes procurement's instructions |
| Approvals and locks (`platform_core/services/approvals.py`, `models/approval.py`) | `ApprovalRequest`, `locked_at` on documents | request, act, finalize, `save` under a lock | base class of orders, revisions, change orders |
| Procurement (`procurement/services.py`) | requests, RFQs, quotes, awards, purchase orders | request, RFQ, award, order, submit, approve, amend | reserves and releases headroom; emits `PurchaseOrderConfirmed` |
| Goods receipt and returns (`inventory/services.py`) | expected receipts, receipts, verifications, returns | record, verify, return | stock moves, cost entries, headroom |
| Excess stock and transfers (`inventory/services_stock.py`) | flags, transfers | flag, redeploy, accept, decline | stock moves, cost entries |
| Stock and cost ledgers (`platform_core/services/stock.py`, `costing.py`) | `StockMove`, `CostEntry` (append-only) | `post_move`, `post_cost`, `reverse_cost` | sums are never stored |
| Service orders (`subcontracts/services.py`) | `ServiceOrder`, certifications, bills | create, issue, approve, progress, certify | headroom, cost |
| Fabrication (`fabrication/services.py`) | `FabricationOrder`, consumption | create, request shortfall, start, complete | headroom, stock, cost |
| Sales (`sales/services.py`) | `Order`, lots, change orders, invoices | confirm, hold, approve for kickoff, change, invoice | emits `OrderApprovedForKickoff` |
| Projects and schedule (`projects/services.py`) | `Project`, phases, extensions | initiate, plan, reschedule, extend | created by the kickoff event |
| Finance (`finance/services.py`) | `SiteExpense` | submit, approve | cost ledger |
| CRM (`crm/services.py`) | leads, opportunities | assign, won, lost | |
| Reporting, dashboards, UI, access control, importer parsing, management commands | none of their own | queries, forms, seeds | |

Two facts about this code base shape every model below.

* **A request is several steps.**  Under READ COMMITTED, and with no row locks
  outside the ceiling, a service's checks and its writes are separate moments;
  any other request may commit in between.  So a request is modelled as a *begin*
  step, which makes the checks on what it reads and remembers what it is about to
  write, and a *write* step, which meets only what the database itself enforces
  (unique columns, the record lock looked at by `save`, the ceiling).  Where the
  code reads once more while saving, there is a third step in between.
* **Delivery is at least once, by whoever happens to drain.**  Handlers run in the
  request that emitted the event, in any other request that drains, in the worker
  or in a command, possibly twice and possibly at the same time.

The hard behaviours, each with its line, are in `PROJECT.json` under `hazards`:
races between check and write, stale in-memory rows saved later, unsynchronised
drainers, process death between commit and bookkeeping, retries at the head of a
bounded queue, deadlock on row locks, and long sequences of legal calls (reject
and redeliver, return twice, revise after ordering) that end in a state no test
visits.

## 2. What makes each component correct

| component | the properties that matter |
|---|---|
| Ceiling | committed quantity never passes the ceiling except by logged overrides; no document holds a negative quantity; a decision is made on a sum nobody can change; every transaction ends |
| Outbox | a processed event took effect; status and attempts agree; unique handlers act once; while somebody drains, every event is settled for good; good events are delivered behind failing ones |
| BOQ revisions | one working revision while openings do not overlap, and never more than overlapped; one release event per revision; each revision built on a released one, or none |
| Reconciliation | each earlier line compared once; instructions leave what the new line needs of what was found; net changes add up over revisions; the latest revision bounds what is ordered |
| Orders, receipts, returns | an order accounts for all its headroom; announced once; posted once; no more returned than received; the ceiling's contract kept |
| Transfers, service orders, fabrication | bills are numbered without gap or repetition; what is posted comes once per request that overlapped; stock, cost and commitment ledgers say what the documents say; the ceiling's contract kept |
| Sales, projects | an order leaves the gate by one announced approval and has one project; dates come from a confirmation or a change order; phases end by the committed date, unless one extension has been written over another |
| Finance | a claim or invoice is in the ledger exactly when it reads as settled, once per overlapping request |
| Sourcing | an award rests on a request that was announced as approved, or that the works made, and on enough answers, or a recorded reason, whatever happens to them later |
| Approvals, accounts | a locked record rests on approvals and keeps its terms unless an override is on record or a save that looked before the lock wrote over it; administrators are not lost to a request of one who still is one |

## 3. The models

| module | models | read it with |
|---|---|---|
| `CeilingContract` | what the ceiling promises: one atomic step per committed transaction | the docstrings of `ceiling.py` |
| `CeilingTxn` | `reserve_headroom`, `release_headroom`, statement by statement | `ceiling.py`, `models/ledger.py` |
| `Outbox` | `emit`, `drain`, `dispatch`, `replay` | `events.py`, `models/outbox.py` |
| `BoqRevision` | open, sign off, not applicable, send back, release, add line | `engineering/services.py`, `ui/views.py`, `models/approval.py` |
| `BoqLineage` | rows from revision to revision, `reconcile`, orders meanwhile | `engineering/reconciliation.py` |
| `BoqPromises` | sums over all revisions of an item (properties only) | |
| `PurchaseOrders` | orders, receipts and returns as racing requests | `procurement/services.py`, `inventory/services.py` |
| `Requests` | a request as a begin and a write, with a rollback in between | (the pattern of every service) |
| `Ledgers` | stock moves, cost entries, commitments, as sums | `stock.py`, `costing.py`, `models/ledger.py` |
| `ServiceOrders` | create, issue, approve, certify | `subcontracts/services.py`, `ui/views_works.py` |
| `Fabrication` | create, shortfall, start, complete | `fabrication/services.py`, `ui/views_works.py` |
| `StockTransfers` | flag, redeploy, accept, decline | `inventory/services_stock.py` |
| `SiteWorks` | the three above on one set of ledgers | |
| `SalesOrders` | lots, confirmation, kickoff gate, hold, change orders | `sales/services.py`, `ui/views.py` |
| `ProjectSchedule` | the kickoff handler, phases, extensions | `projects/services.py` |
| `Finance` | expenses, invoices, the expense sheet | `finance/services.py`, `sales/services.py`, `reporting/services.py` |
| `Sourcing` | needs, RFQs, quotes, awards, orders raised from them | `procurement/services.py`, `ui/views_proc.py` |
| `Approvals` | rules, decisions, the record lock; accounts, roles, capabilities | `approvals.py`, `models/approval.py`, `accounts/models.py`, `ui/views_admin.py` |
| `Office` | the five above, side by side | |
| `SumLemmas` | what sums over finite sets do when an element or a value changes (proofs only) | |
| `*Proofs` | the theorems about the module of that name | |
| `MC*` | constants and symmetry of the small instances | the `.cfg` files |

How they compose: `CeilingTxn` implements `CeilingContract`
(`ContractSpec`, checked and proved).  `PurchaseOrders` uses the ceiling as one
step and is shown to stay within the same contract (`KeepsContract`, checked and
proved), so what it assumes of the ceiling is what the ceiling delivers.
`BoqRevision` shows that a revision stands on released ones as long as openings do
not overlap (`BuiltOnReleased`); `BoqLineage` assumes that they do not, and prepares
a revision when the one below is released.  `Outbox` justifies that the handlers in
`BoqLineage` (`BeginReconcile` to `Persist`) and `PurchaseOrders` (`Expect`) run at
any later time, stop in between and run again.  It does *not* justify that they
run only once when two drains overlap: see the first finding.

`SiteWorks` composes service orders, fabrication and transfers on the ledgers of
`Ledgers`: a transfer is how material bought for the site reaches the works, and
service and fabrication orders reserve on BOQ lines as purchase orders do, within
the same `CeilingContract`.  `ProjectSchedule` extends `SalesOrders` and `Finance`
extends `ProjectSchedule`: an order becomes a project through the outbox (so
`BeginInitiate` may come at any later time, twice, and from two drainers), and
expenses and invoices are of a project.  `Office` puts them next to `Sourcing` and
`Approvals`; those meet the rest only in the sessions, which do anything.

### 3.1 CeilingTxn

State: for every session where it is in its transaction (`pc`, `req`, `seen`,
`ops`), the owner of each row lock, and the ledger as the three sums the code
takes of it: a line's total, a document's holding, and what overrides authorized,
each once committed and once pending per session.  Actions: `Begin`, `Call`,
`LockLine` (`select_for_update`), `ReadLedger` (the aggregate), `InsertEntry` or
`Refuse`, `Commit`, `Rollback`, `DeadlockVictim`.  A release locks the same row
and compares with the document's holding.  The blank override reason refuses as
in the code; a tolerance is the percentage of the line's quantity.

### 3.2 Outbox

State: status and attempts of each event, how often its effect was committed, and
each drainer's batch with the attempts it copied.  `Fetch` takes the oldest
`Limit` deliverable rows; `StartHandlers` looks; `CommitHandlers` or
`HandlersRaise` ends the handlers' transaction; `MarkProcessed` or `MarkFailed`
saves columns computed from the copy; `Crash` loses what is in memory; `Replay`
resets any event that exists: it is meant for dead letters but looks at no status.
Handlers are of three kinds by the code's own protection: none (`_fan_out`), a look-up
(`_expect_receipts`, `_reconcile_on_release`, `_request_deltas_on_release`), a look-up
with a unique column behind it (`initiate_project`).

### 3.3 BoqRevision

State: status, lock and predecessor of each revision, line counts, signatures and
the not-applicable flags of its two sections, and how often its event was
emitted.  Every service call is begin, re-read (the sections for a signature, the
stored lock for a send-back or a release), write.  An opening makes its three queries
apart, as READ COMMITTED does: is one open (`OpenRevision`), which is the latest
(`ReadLatest`), which was released last (`ReadReleased`); then it writes.  The history
variable `overlap` is the most openings that were ever in progress at once.  A write of
`status` alone passes the record lock (`post_lock_writable`); the unique `(project,
revision_number)` and the unique idempotency key roll a request back. The starting
states include a revision made by `import_revision`.

### 3.4 BoqLineage and BoqPromises

State: for each revision its rows (what `match_key` reads of them, quantity,
whether `previous_line` is set); for each row what is on order against it, what has
arrived and what was sent back; the reconciliation under way with what its queries
have returned so far; and the outcomes once persisted.  `Prepare` covers copying with
edits, additions and imports.  `Order`, `ReleaseHeadroom`, `Receive` and `Return` move
the ledgers at any time on any row of any revision, before the event is delivered and
between the queries too, each under the guard the code has: an order under the row's
ceiling, a release under what is on order, a return under all that ever arrived and
what is on order, and a receipt under none that holds, since `record_receipt` counts
verified receipts only.  The handler is `BeginReconcile` (the previous revision and
both sets of rows, with the collapse of rows that share a key left to choice in
`Indexes`, as the query has no order), `ReadLedger` three times per comparison
(`committed_for`, then the two sums of `received_for`), and `Persist`; `Interrupted`
is a handler that fails or a drainer that dies.

Simplifications: the previous revision and the rows are read together (released
revisions and their rows do not change, as far as this module goes); one drainer
handles the events and revisions are opened one after the other, as said above, and
stay released (section 7 on *not applicable* says how one may not); orders have no
overrides, so the ceiling of a row is its quantity; quantities of copied rows are
edited while the revision is a draft, inside `Prepare`.  What arrives against a row is
bounded by `MaxArrived` alone; `MaxSentBack` caps what returns already limit.

### 3.5 PurchaseOrders

State: each order's status, events, line quantity and holding, what was accepted,
rejected and returned, the receipts, and each session's pending write.  Actions:
`Create`, `Submit`, `Approve`, `Amend`, `Record`, `Verify`, `Return` (checks),
`WriteParked`, `WriteConfirmed`, `WriteAmended`, `WriteRecorded`,
`WriteVerified`, `WriteReturned` (writes), `Expect` (the event's handler) and
`Rollback`.  Simplifications: one line per order, all orders on one BOQ line; the
rate of a line is constant, so the stock and cost postings of a receipt are the
same count; the quantities of a verification are not negative (`verify_receipt`
itself does not ask, it bounds their sum only); `ExpectedReceipt.status` and the
locations of a receipt are left out. `record_receipt` falls back on the expected
receipt's location, which the pages rely on, hence `Record` needs one.

### 3.6 Requests and Ledgers

`Requests` is the pattern of all that follows: `Begin` remembers what the checks
have read and what is to be written, `Finish` comes with the write, `Rollback` is an
exception or the end of the process.  What is copied in `Begin` is exactly what the
code saves from its copy: a service that saves `update_fields` names only those
columns; one that calls `save()` carries the whole row.

`Ledgers` keeps each append-only ledger by the sums the code takes of it.  A unit is
worth one, so a cost is a number of units; `outside` stands for a move without a
location on one side.

### 3.7 ServiceOrders, Fabrication, StockTransfers, SiteWorks

`ServiceOrders`: the page creates an order (headroom is reserved) and issues it in a
second transaction, so a process that ends between them leaves a draft.  A
certification is three steps: what is outstanding is read (`CertifyServiceOrder`),
the bills are counted (`NumberBill`), the bill is written under its unique number
(`BillService`).  Left out: progress reports, which nothing reads.

`Fabrication`: creation, `request_shortfall`, `start` (a job-work order moves the
components to the vendor), `complete` (consumes the plan, produces at the site, posts
the charge).  Only completion has a status guard.  Steps of a run are left out.  The
procurement request that `request_shortfall` makes is in `Sourcing`
(`RequestShortfall`).

`StockTransfers`: a flag looks at what is on hand and reserves nothing; a transfer
moves the whole flag; accepting looks at the transfer's status, declining at nothing.

`SiteWorks` adds `Supply`, a verified receipt of `PurchaseOrders`, so that there is
material.  A location may go negative, because no posting looks at what is on hand:
that is the code, and `LedgersAgree` is about sums that stay right regardless.

### 3.8 SalesOrders, ProjectSchedule, Finance

State: an order's status, date, lots, the price of a lot, the date it was confirmed
for and its kickoff events; a project's dates, phases, claims, invoices, and the sums
of the cost ledger.  Confirm, kick off and hold save the whole copy they were given;
change orders add to the price they read.  `BeginInitiate` / `WriteProject` is the
handler of `OrderApprovedForKickoff`, protected by a look-up and the unique project
code.  Plans and extensions read the project's committed date and write later;
`overtaken` records that an extension was written over a date other than the one it
extends.  Change orders exist when they are applied (they are drafted outside these
services); tax, GST and document numbers are left out.

### 3.9 Sourcing

From a released revision, a site requisition or a shortfall of the works to an award
and the orders raised from it.  A shortfall request is approved as it is made, by
nobody and without the event, and names no BOQ line, so its orders draw no headroom
(`DrawsHeadroom`).  An RFQ asks for the lines of one need; a quote is the set of lines
a vendor has answered; rates and quantities, which only the buyer compares, are left
out, and every other order of a line takes one unit of its headroom.

### 3.10 Approvals

`Approvable` rows with terms, the rules that apply to them by value, the requests of
each round and the decisions on them, `finalize` and the lock, and edits by whole-row
`save`, with an override or without: the caller reads the copy, locked or not
(`BeginEdit`), `save` looks at the stored row (`LookEdit`) and writes the copy over it
(`WriteEdit`).  `raced` records that this happened over a lock that came after the
look.  Left out: saves of lifecycle columns alone, which the lock lets pass, and
`QuerySet.update`, by which no code changes terms.  Further the accounts, roles and
capabilities that `requires` and `user_holds_role` ask, with the administration pages,
each write of which stands alone: a user's roles are dropped in one and added one by one.

## 4. Runs

`pass` runs end with no error; `violation` runs show a disagreement of code and
documentation (section 7).

| run | question | bounds | why they are enough |
|---|---|---|---|
| `ceiling_txn` | do two sessions keep the ceiling, the holdings and the contract? | 2 sessions of 2 calls, 1 line of 2 (+1 tolerance), 2 documents, quantities 1 and 2, overrides until 2 | both sums are taken and overtaken, calls of one transaction see each other's entries, over- and exact fits occur, releases race |
| `ceiling_live` | does every transaction end? | 2 sessions, 2 lines in either order | the shortest cycle of waits |
| `outbox_race` | what do racing drainers leave, and in the end? | 2 events (one failing at times), 2 drainers, batch 2, 3 attempts, 1 crash, 1 replay | every stale copy of 0, 1 or 2 attempts meets every newer row, and may reopen a settled one |
| `outbox_serial` | what does one drainer guarantee? | 3 events, the first two failing, batch 2, 2 crashes, 1 replay | the failing events fill the batch in front of the good one |
| `outbox_duplicate` | is a look-up enough? | 1 event, 2 drainers | |
| `boq_race` | what do two requests leave of the order of revisions? | 2 sessions, revisions 0 and 1, 1 line per section; `LinesFromFirst` | both may be opened at once, by the same number or by two (two working revisions do occur), and the second stands on the first or not |
| `lineage` | is each line compared once, settled, and do changes add up? | 2 items, 2 rows, quantities to 2, 2 revisions, 2 arrived and 1 sent back at most per row, orders on one row, an item once per revision | rows copied, swapped, dropped, added; all six verdicts; more arrived than on order; every ledger moves between any two queries; a second row beside the ordered one |
| `lineage_ceiling` | does the latest revision bound what is ordered? | 1 item, 1 row | |
| `orders` | do racing requests keep the books? | 2 sessions, 2 orders, 1 receipt, quantities 1 and 2 on a ceiling of 2 | amendments, verifications and confirmations race in pairs; freed headroom is taken by the other order |
| `orders_returned` | can more go back than came? | 1 session, 1 order, 1 receipt | |
| `works` | do service orders, fabrication and transfers keep the ledgers, the numbering and the contract? | 2 sessions, 2 service orders (of 1 or 4, certified by 1 or 3, on a line of 4), 1 fabrication order, 1 flag, 2 transfers, 1 unit of material, 1 start and 1 request for material per order; `Apart` | two bills race for a number, the second of three is final and short; an order is completed twice; one flag goes to two sites; a job-work order consumes what a transfer brought |
| `office` | do orders, projects, money, sourcing, approvals and accounts keep what they promise when requests race? | 2 sessions, 1 order with 1 change, dates to 3, 1 phase, 1 claim, 1 invoice; 1 need of 2 lines, 1 RFQ, 2 vendors; 1 document, 1 rule, 2 rounds; 2 users, 2 roles; `Apart` | two of each operation race on the same row, which is where all of these services are exposed; a third session adds repetitions only |

`LinesFromFirst`, in `MCBoqRevision`, cuts the products of two revisions that are both
being filled in: once two openings have overlapped, lines are added to the first only.
A line makes its section signable and is copied forward; it touches no number, no
predecessor and no release, and until then both revisions get lines.

`Apart`, in `MCSiteWorks` and `MCOffice`, keeps an instance to one group of tables at
a time.  The full product has no further behaviour to show: an action of one group
reads and writes only that group's tables and its session, so a state of two groups
is a pair of states already visited (money also reads whether a project exists and has
lots, which neither changes nor extensions touch).  In `works` the groups are service
orders, and fabrication with transfers (they share the cost ledger, which refuses
nothing; their BOQ lines differ); fabrication orders and transfers together are at most
two.  In `office` they are: orders with projects; the money of a project, without
changes and extensions; sourcing; approvals, by the first administrator; administration,
of the role no rule requires.  The actions themselves are unconstrained, so the
specification is the whole one.

Deadlock is checked in the ceiling runs.  In the others the system really may
stop: nothing is left to drain, every bound is used up, no request arrives.

Each property of a passing run has a mutant: an operator `Mut...` next to the
definition it replaces, a plausible bug with which TLC finds the property violated
under the same configuration.

## 5. Fairness

* `CeilingTxn!Fairness`: a service that has started runs on (`WF` of its
  statements), PostgreSQL queues those who wait for a row (`SF` of `LockLine`) and
  cancels one session of a cycle (`WF` of `DeadlockVictim`, `deadlock_timeout`).
  Nobody is obliged to begin or to fail.
* `Outbox!WorkingSpec`: a drainer that has fetched works through its batch (`WF` of
  `Work`), unless it dies.  Nobody is obliged to start a drain: `config/celery.py`
  declares no schedule, although `drain_outbox.py` says the worker drains on one, and
  without further requests an event waits.  So `outbox_race` assumes no more, and
  `EventuallySettled` has it as a hypothesis that somebody goes on draining
  (`DrainsGoOn`), as people do who use the system: nearly every web action ends with
  `events.drain()`.  What it then says is that an event is settled for good, not for
  the moment: a drainer with an old copy may reopen it.
* `Outbox!FairSpec` adds that drains keep being started (`WF` of `Fetch`), for the single
  drainer of `outbox_serial`, under the same proviso.

## 6. Proofs

All theorems are for every number of sessions, lines, documents, events, revisions,
orders, receipts, accounts and so on, and every quantity.  The only assumptions are the
named `ASSUME`s on the constants (`CeilingAssumption`, `OutboxAssumption`,
`RevisionAssumption`, `LineageAssumption`, `OrdersAssumption`, `SiteWorksAssumption`,
`OfficeAssumption`), which say that quantities are numbers, that the sets the code sums or
counts over are finite, and that no id is the word for "no row", and the hypotheses that
three theorems state: `~Duplicates` and `[]Apart`, explained below, and a single drainer.
The inductive invariants in the table are the proofs' own; the runs check what follows
from them.

| module | invariant | argument |
|---|---|---|
| `CeilingTxnProofs` | `LockProtocol` | a session owns the row it has read, has pending entries only on rows it owns, and what it would publish respects the ceiling and the holdings.  `WithinCeiling` alone is not inductive: a commit publishes what was decided earlier, so the invariant says of every pending sum what the property says of the committed one.  `ImplementsContract` then maps a commit to one contract step and everything else to a stutter |
| `OutboxProofs` | `Delivery` | a drainer about to record a success has seen the effect committed, a successful look-up is true, and every copy has an attempt left, so whatever is saved from it is consistent |
| | `Serial`, under `[]Apart` | as long as no two drainers hold one event, an event in hand is still open and a look-up is exact until the handlers commit; so a handler that only looks acts once (`LookingFirstSuffices`) and nothing processed is delivered again (`DeliveredOnce`).  This is precisely what the code does not ensure, and what `outbox_duplicate` violates; one drainer alone ensures it (`OneDrainerSuffices`) |
| `BoqRevisionProofs` | `Lifecycle` | what an opening saw may be over before it writes, so nothing is said of the present: *room*, the revisions in the works together with the openings in progress never exceed the openings that ever overlapped (an opening that starts has seen no working revision; one that writes turns into one); *read true*, the revisions below the number it read exist and the predecessor it read was released and stays so, since locks are never taken away |
| `BoqLineageProofs` | `Lineage` | types, outcomes only of released revisions that stand on released ones, instructions that settle, and of the reconciliation under way (`WorkUnderWay`) that it compares a released revision with the one below and has read no more as inbound than has arrived by now.  Nothing relates what was received to what is on order: `Classify` settles any figures.  Under `~Duplicates`, that an item is listed once makes the match injective, which gives `EveryLineComparedOnce` |
| | `EachItemOnce`, under `~Duplicates` | a reconciled revision has at most one verdict on an item, and it leads from the quantity below to its own (or the item is on neither).  `NetChangesAddUp` follows by induction on the revision: the sum over all of them telescopes, in whatever order they were reconciled |
| `PurchaseOrdersProofs` | `BooksBalance` | what an order holds, had rejected and sent back together never grows after it is created: a rejection or a return moves quantity out of the holding, an amendment takes `was - new` from it.  So the quantity an amendment read, however stale, still covers that sum, and the new one does after the release |
| `SiteWorksProofs` | `Inv` = `TypeOK`, `ServiceInv`, `FabInv`, `StockInv`, `LedgersAgree` | *Numbering*: a bill about to be written carries a number of at most the count plus one, so with the unique column it is the next or refused.  *Once per overlap*: what has been posted plus what the requests in progress may still post is at most N times the document; a document that is still open keeps room for every session, one that is not for those that had begun (`ScopeShared`, `RunsShared`, `MovesShared`).  *Ledgers*: each posting changes one summand, so `LedgersAgree` is preserved by the lemmas about sums.  `WorksKeepContract` reads each reservation and release as one step of the contract |
| `OfficeProofs` | `Inv` = `TypeOK`, `TradeInv`, `MoneyInv`, `SourcingInv`, `ApprovalsInv`, `AccountsInv` | what a request carries was true of the rows when it read them, and stays true as far as the rows only grow.  *Orders and projects*: the dates in copies were given by somebody; until an extension is overtaken the committed date only rises, so a plan that was below it stays below; and the price a change starts from is within what was applied, since applied changes are never undone.  *Money*: what the ledger has of settled documents plus what sessions may still post on them is at most N times each (`SheetShared`; the settled sums alone are not inductive).  *Sourcing*, *approvals*: announcements, answers, reasons and decisions are never taken away, and a need made by the works stays one, so a check made earlier still holds at the write; a copy that was read locked puts the lock back only on a document that was locked before and so rests on approvals.  *Administration*: the request that takes away a right is never about its author |

Two things needed for these proofs say something about the model itself.  Sums
(`SumFunctionOnSet`) are folds over a choice of elements; `SumLemmas` proves that the
function iterated exists and is unique on every finite set and derives from it how a sum
changes with one element or one value.  The library's induction theorems take a
predicate as a parameter, which the installed provers cannot instantiate, so the
induction is over families of subsets (`SubsetInduction`, from the well-foundedness of the
strict subset relation) and over sets of numbers (`CountingInduction`).  Second, the
steps of a desk leave the other desks' rows and requests alone (`Within`), so that
`Office` is proved desk by desk.

Model-checked only: liveness (`TransactionsEnd`, `EventuallySettled`,
`GoodEventsDelivered`), for which there is no rule for fairness here.  Every invariant
and action property of the passing runs is the subject of a theorem; those of the
violation runs are false.

## 7. Where code and documents disagree

Shown by a run:

1. `outbox_duplicate`: two overlapping drains both run `_expect_receipts`; both
   find no `ExpectedReceipt`, both create one per line.  The same holds of
   the other handlers protected by a look-up only.
2. `lineage_ceiling`: the ceiling is per row, so after a new revision the quantity
   already ordered on the old row can be ordered again on the new one, or still on
   the old one.
3. `orders_returned`: one accepted unit can be returned twice, as `received_qty`
   is never lowered and the document still holds headroom for what is to come.

Met while modelling, with no run of their own:

* `open_revision` refuses while a revision is open, but asks before it asks for the
  number.  When another opening commits in between, the second takes the next number
  and two revisions are in the works; the unique number stops nothing.  Either may be
  released first, and the one above it may supersede an older revision than the latest
  released, or none, for the predecessor is a third query.
* `replay` is for dead letters (`events.py:130`) but looks at no status: an event that
  was processed is delivered again.  So may any event be reopened by a drainer that
  still holds an older copy.
* A send-back that commits between the section check and the write of a release
  leaves a released revision whose signatures are gone.
* `mark_section_not_applicable` does not look at the revision's status: on a
  released revision with an empty section it writes `SECTIONS_SIGNED` back.  An opening
  that has already found nothing open then gets an older predecessor.  The revision is
  then not released, cannot be sent back or released again (it is locked), and
  `open_revision` refuses to open another next to it.
* `send_back` leaves `is_not_applicable`; lines added to that section afterwards
  are released with nobody's signature.
* A request that was being submitted while another confirmed it writes
  `AWAITING_APPROVAL` over `CONFIRMED`; the next approval fails on the event's
  unique key.
* Two receipts recorded before either is verified can together exceed the order;
  rejected quantity frees headroom but the order may still be delivered in full.
* Two racing amendments release headroom twice and keep one of the two quantities:
  headroom is never invented (`HeadroomAccounted`), but the line may claim more
  than it holds, and further releases are then refused.
* Rows with the same description and unit, in two lots say, collapse in
  `_index_lines`: `ComparedOnce` is false when `Duplicates` is `TRUE`.
* The ledgers are read of the previous row only, so orders placed two revisions
  back are invisible to a comparison.
* `hold_for_review` looks at no status.  A draft that is held can be kicked off
  without a confirmation, a lot or a date; the project then has no committed date, and
  planning and extending refuse for ever.  A kicked-off order held before its project
  exists is stuck: the handler finds it not kicked off, and a second approval meets the
  event's key.  A hold that races a confirmation wipes the date out.
* `apply_change_order` can be applied twice, loses one of two racing price updates, and
  never moves the committed date of a project that exists.
* A quotation's lots can be copied twice; lots copied after the kickoff belong to no
  project, and their invoice is refused.
* `docs/03-data-model.md` (line 60) says that no phase ends after the committed date,
  and `plan_phase` that every write path enforces it (`projects/services.py:106`).  Two
  extensions of one date that race may leave the earlier of the two, below phases
  planned under the later one while it stood.  `PhasesBelowCommitment` shows that this
  is the only way.
* A request for what the works are short of is created `APPROVED`, by nobody and
  without `ProcurementRequestApproved`, and `create_rfq`, which sources what is
  approved, accepts it: no rule of approval sees it.
* A claim approved twice at once is in the ledger twice and in the breakdown once, so
  two figures of one sheet differ, although `reporting/services.py` is written so that
  no two screens can disagree.
* `Approvable.save` looks at the stored lock, then writes the whole copy: an edit that
  began before a finalization unlocks the row again.
* A copy that was read while the record was locked, and is saved after such an edit
  unlocked it, meets no refusal and writes `locked_at` back with terms nobody approved.
* A user's roles are set one by one with no transaction: a crash loses the roles that
  were still to be added.  Two administrators may remove each other.
* A process that ends between creating and issuing a service order leaves a draft that
  holds headroom, and no page issues it.  A service order closed final can be certified
  again for what was outstanding, after the headroom for it has been released; a
  second final certification releases more, or is refused when the order no longer
  holds enough.
* Components bought for fabrication arrive at the site, while the shortfall is computed
  at the works.  A completed fabrication order can be started and completed again.

## 8. Not modelled

* CRM: single-row status writes that no rule relates.
* Pages and forms as such, the assignment of people to projects, passwords and login.
  Where a page supplies a guard or splits a service into two transactions, the models
  say so.  In the models of documents any session may act: which capability an action
  asks for is a static table.
* Notifications, the audit log, and reports other than the expense sheet: they are
  written or read and decide nothing.
* The parsing of spreadsheets (an import is the rows it results in), migrations, seeds
  and demonstration data.
* `reverse_cost`, the cost slice of a lot, the deletion of approvables and the ban on
  `QuerySet.update`: no caller in the services.
* Money where the rate of a line is constant; rates and quantities of quotes; orders
  of several lines, or drawn from several RFQs.

## 9. Plan

Done: all modules of section 3, model-checked, and the proofs of section 6.  Next:

1. An abstract specification of delivery (an event is absent, queued, or settled after its
   effect), with `Outbox` shown to implement it; then `GuardedEffectOnce` for a drain that
   locks the rows it takes, as the repair of finding 1.
2. What does bound returns (finding 3): that nothing is sent back beyond what the order
   once held, as a theorem next to `BooksBalance`.
3. For `Duplicates`, what reconciliation still guarantees: every verdict is on a row that
   exists, and no row of the new revision is without one.
4. Several lines per order.
