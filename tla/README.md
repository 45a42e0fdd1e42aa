# A verification project for the ABS ERP

ABS (`src/`) is a multi-tenant ERP in Django and the Django REST framework:
stock in several warehouses, purchasing, quotations, invoices, payments and
subscriptions.  Every row belongs to an organization.  A request runs through
the layers of `docs/07_service_layer.md` and `docs/13_coding_standards.md`:
view, serializer, service, selector, model.  What makes the code hard is not in
any one layer.  It is that

- **a handler reads before its transaction.**  `get_object()` (or
  `get_object_or_404`) loads a row in autocommit; the service that follows opens
  `transaction.atomic`, tests the status *of the copy in memory* and writes.
  There is no `ATOMIC_REQUESTS` in `settings.py`, no `select_for_update` on a
  document, no version column.
- **the only rows that are locked are `InventoryItem`s**, one statement at a
  time, inside `StockService`.
- **several routes change the same rows**: two families of goods issue handlers,
  REST and web views, generic `ModelViewSet` PATCH and DELETE next to services
  with rules of their own.

The models take the database to be PostgreSQL at READ COMMITTED, which README.md
of the repository names for production (on SQLite, the development database,
`select_for_update` is a no-op and writers exclude each other).

## 1. Inventory

| Component | State | Operations | Interacts with | What is hard | What makes it correct |
|---|---|---|---|---|---|
| **Stock service** `inventory/services.py` | `InventoryItem.quantity` per product, warehouse and location; `StockMovement` history | `receive`, `issue`, `adjust`, `transfer`, `get_balance` | called by REST stock views, documents, returns, invoice completion; ends each call with `StockAlertService.evaluate` | row locks that only exist once a row does, the insert race, `F()` updates against read values, multi-call transactions, opposite transfers | cache = sum of movements; never below zero; all or nothing; serial effect; no endless wait |
| **Inventory documents** `inventory/document_services.py` 1–416, `api/inventory/views.py` | GRN, GIN, transfer, adjustment: status, warehouses, lines | create, submit, approve, complete, cancel, PATCH, DELETE | posts through the stock service, reads a GRN's purchase order | status tests on stale copies, PATCH that writes every column back, DELETE of a completed document | posted as a whole or not at all, COMPLETED means posted, posted once |
| **Goods issue against invoices** `document_services.py` 418–891, `inventory/api_views.py` | the same GINs, their invoice, author and approver | create from invoice, submit, approve, complete; `get_invoice_fulfillment`, `Invoice.fulfillment_status` | invoice lines, other notes of the invoice, the `/gin/` route | what remains is computed without a lock, dictionary by product, second route without checks | no issue beyond the invoice, FULFILLED is true, author never approves |
| **Purchasing** `purchases/services.py`, `complete_grn` 112–142 | order status, `received_quantity` per line | create, submit, approve, cancel, close; receive | GRNs, stock service | unlocked read-modify-write of `received_quantity`, per-line check with duplicate lines, status overwritten from copies | received = what completed GRNs say, no over-receipt, terminal statuses stay |
| **Purchase returns** `purchase_return_services.py` | return status, its lines | create, add item, submit, approve, complete, cancel | what orders received, stock service | validated before anything is locked, balance over all shelves against the one shelf that is issued | returned once and in full, never more than was received |
| **Invoice completion** `invoices/services/completion.py`, `invoice_service.py` | invoice status, `inventory_updated`, default warehouse | complete, cancel, update | stock service, payments (`update_status` writes the same column), goods issues | stale copies, one status column for two lifecycles, duplicate test by movements that a cancel leaves behind | goods leave once, come back once, edits only before completion |
| **Payments and notes** `sales/payments/services.py`, `api/payments/services.py`, `credit_note_service.py`, `debit_note_service.py`, `Invoice.update_status` | payments, allocations, credit and debit notes, derived status and balance | receive, allocate over invoices, reverse, refund, issue and cancel notes, mark paid | invoices | check-then-insert without a lock, direct and allocated sums, guards that ignore notes, REST and web variants that differ | no overpayment, status agrees with the balance, reversal undoes exactly one payment |
| **Quotations** `sales/services/quotation_service.py`, `quotation_finalization_service.py`, `api/quotations/services.py` | quotation status, total, lines, its invoices | create, update, PATCH, issue, send, approve, reject, convert, delete | creates invoices | transitions without a guard, conversion and save on a stale copy, totals counted before lines are saved | one invoice per quotation, what was issued is frozen, the invoice bills it |
| **Subscriptions** `sales/subscriptions/services.py`, `generate_recurring_invoices`, `selectors.py` | status, `is_active`, `next_invoice_date` | create, generate, pause, resume, cancel, PATCH, DELETE; the forecast | creates invoices | month arithmetic, command and user at once, a run that dies, numbers by count | one invoice per period, what is due is billed in the end, the forecast comes true |
| **Document numbers** `sales/services/numbering.py`, `document_services.py` 28–46 | the numbers in the tables | next number | every creation | max + 1 and count + 1 without a lock, deletion, string order | numbers of live documents differ, creation eventually succeeds |
| **Stock levels and alerts** `inventory/intelligence_services.py` 12–97 | `StockAlert` rows, levels of a product | `get_status`, `evaluate`, alerts and levels by REST | called inside every stock transaction | four reads and a write without a lock, next to clients that write the same rows | the alert tells the status the stock has |
| **Ledger, reconciliation, recommendations** `ledger_services.py`, `reconciliation_services.py`, `selectors.py`, `intelligence_services.py` 100–296 | none | sums | reads stock tables | movements written before their row is locked | ledger, stock, dashboard and recommendation agree |
| **Roles and organizations** `invoices/permissions.py`, `core/permissions/` | a static table | `has_permission` | all views | – | – |
| **Statements, aging, dashboards, reports** `statement_service.py`, `aging_service.py`, five dashboards | none | sums over invoices, payments and notes | reads everything | two payment tables, four row kinds, a status that may lag; each report adds up in its own way | they tell one story, but for what each leaves out |
| **PDF, templates, e-mail** | none | formatting | – | – | – |
| **Master data and web forms** `invoices/views.py`, `forms.py` | customers, products, settings | CRUD | invoice views call the services above | – | – |

`PROJECT.json` lists the same components with their modules, and under "hazards"
each line of code where one of these difficulties bites, with the property that
watches it.

## 2. Plan

Written, in this order: the stock service, the documents that post through it, the
invoice that issues goods, purchase orders, and then everything that moves money.

1. `StockCalls`, `StockTransactions` – the stock service, statement by statement.
   Abstract specification: `SerialStock` (every block of calls alone).
2. `DocumentLifecycle`, `InventoryDocuments` – documents over `SerialStock`.
3. `GoodsIssues` – the second GIN service and the invoice's remaining quantity.
4. `InvoiceStock` – completion, cancellation, edits and `update_status` on one
   status column, over `SerialStock`.
5. `PurchaseReceipts` – purchase orders and the receipts against them, the completion
   statement by statement, over `SerialStock`.
6. `InvoicePayments` – payments, allocations, notes, the derived status; over its tables
   the reports, `Receivables` and `PaymentDashboards`.
7. `Quotations` – from the draft to the invoice.
8. `BillingCalendar`, `Subscriptions`, `RevenueForecast` – recurring billing.
9. `PurchaseReturns` – returns against orders and receipts, over `SerialStock`.
10. `StockAlerts`, `StockReports` – the evaluation inside stock transactions, and the reports.
11. `InventoryDocuments_proofs`, `GoodsIssues_proofs`, `InvoiceStock_proofs`,
    `PurchaseReceipts_proofs`, `ReturnsAndAlerts_proofs` (purchase returns, alerts and stock reports),
    `Payments_proofs` (payments and the reports over them), `StockAndSales_proofs` (stock service,
    quotations, subscriptions and their forecast), `SumTheorems`.

Left, in the order of what it would add: goods issue notes and invoice completion over one
stock, where the code issues twice (section 7); the max + 1 numbers of stock documents.

## 3. Modules and code

| Module | Extends / composes | Models |
|---|---|---|
| `StockCalls` | – | arguments of `StockService`, its refusals, transfers as two calls |
| `StockTransactions` | `StockCalls`; instances `SerialStock` | one action per SQL statement of `receive`, `issue`, `adjust` and of the surrounding transaction |
| `SerialStock` | `StockCalls` | the effect of a whole block run alone; what other modules use as one step |
| `DocumentLifecycle` | – | the statuses each document operation accepts |
| `InventoryDocuments` | `SerialStock`, `DocumentLifecycle` | the four documents behind their REST handlers |
| `GoodsIssues` | `SerialStock`, `DocumentLifecycle` | `GoodsIssueService` behind `inventory/api_views.py`, the `/gin/` handlers on the same notes, edits of the invoice they are for |
| `InvoiceStock` | `SerialStock` | `InvoiceCompletionService`, `update_invoice` and the other writers of the invoice row |
| `PurchaseReceipts` | `SerialStock` | `PurchaseService` and the GRNs of an order, `complete_grn` line by line |
| `InvoicePayments` | – | `receive_payment`, allocation, reverse, refund, edit and delete of both payment tables, credit and debit notes, `update_status` |
| `Receivables` | `InvoicePayments` | customer statement, aging report, payment center totals, timeline of an invoice, receivables of the dashboard |
| `PaymentDashboards` | `Receivables`, `BillingCalendar` | the figures and trends of the API, payments, sales and organization dashboards |
| `RowCopies` | – | the copies of rows that handlers of quotations and subscriptions work on |
| `Quotations` | `RowCopies` | web form and REST routes of quotations, finalization, conversion |
| `BillingCalendar` | – | dates and `next_billing_date` |
| `Subscriptions` | `RowCopies`, `BillingCalendar` | the billing command, the handlers of subscriptions, the numbers of invoices, given or chosen |
| `RevenueForecast` | `Subscriptions` | `get_revenue_forecast` |
| `PurchaseReturns` | `SerialStock` | `PurchaseReturnService` next to receipts and other stock movements |
| `StockAlerts` | – | `StockAlertService.evaluate` statement by statement in two sessions, alerts and levels by REST |
| `StockReports` | `StockAlerts` | ledger, running balance, reconciliation, dashboard summary, recommendations |
| `MC…` | the module of that name, or the reports over it | constants for TLC |
| `SumTheorems` | `TLAPS` | lemmas about sums over finite sets and folds over sequences |
| `Payments_proofs` | `PaymentDashboards`, `SumTheorems` | theorems about payments, notes, reports and dashboards |
| `StockAndSales_proofs` | `StockTransactions`, `Quotations`, `RevenueForecast`, `SumTheorems` | theorems about the stock service, and about what becomes an invoice |
| `ReturnsAndAlerts_proofs` | `PurchaseReturns`, `StockReports`, `SumTheorems` | theorems about returns, and about the ledger and the alerts of sites |
| other `…_proofs` | the module of that name, `TLAPS`, `SumTheorems` where it adds up | theorems |

**StockTransactions.**  A worker is a database connection.  Its program counter
`pc` is the next statement of the call `block[w][at[w]]`: the argument checks
(`check`), the locking SELECT (`lock`), the INSERT of the movement (`move`), the
UPDATE or INSERT of the item (`write`), the alert evaluation (`alert`) and
`commit`.  `receive` inserts its movement first and locks later (services.py 68,
81); `issue` and `adjust` lock first (122, 190).  Uncommitted writes are `wrote`,
`draft` and `moved`; readers see committed rows and their own.  A locking SELECT
waits for the lock of a row it sees; a row it does not see it cannot lock, so two
workers may both go on to INSERT.  The second one waits for the unique index and
then either selects again (`receive` uses `get_or_create`) or raises (`issue` and
`adjust` use `create`).  `receive` and `issue` write `F("quantity") ± n`, so they add to the
value as it is when the row is locked; `adjust` writes the counted quantity.
`Fail` is every exception of the service, `Crash` the death of process or
connection, `DeadlockVictim` PostgreSQL's deadlock detector.

**SerialStock.**  One exception to "as if alone" is in the code and therefore in
`Outcomes`: an adjust to zero that finds no item returns without locking
anything, so that a receipt committed before the adjust's own commit survives it.
In the abstract `Run` such an adjust may leave the balance it found.

**InventoryDocuments.**  `request[r]` is the copy a handler holds between
`get_object()` and the end of the service; everything the service does to the
database is one action, because nothing it reads there can change in between
except through row locks that `SerialStock` already accounts for (lines are
never edited by any handler).  `Complete` uses the warehouses and the lines
of the copy: the selectors prefetch the items.  `Patch` writes the whole copy and re-inserts a deleted row without
lines (Django's `save()` falls back to INSERT); `SaveStatus` fails on a deleted
row (`save(update_fields=…)` does not).  `posted` and `contended` are history
variables: how often a document's lines reached the ledger, and which documents
two requests ever held copies of at once.

**GoodsIssues.**  `GoodsIssueService.complete` is two actions, `Validate` (reads
what other notes issued, no lock) and `Complete` (locks items, issues, writes
COMPLETED), since READ COMMITTED lets another completion commit in between.
Its methods ask for the items again (`NoteOf`), `complete_gin` behind `/gin/` uses
those loaded with the row.
`Remaining` is `get_invoice_fulfillment` with its dictionary by product.
`items` are the lines of the invoices, and `EditInvoice` is `update_invoice`
(`invoice_service.py` 95–139): it refuses an invoice that is COMPLETED or has `inventory_updated`,
and goods issue notes set neither, so an invoice is edited after its goods left.  `cut` are the
invoices whose last edit left less of a product than was issued.  `contended` collects invoices two requests
worked for at once, and those edited between a `validate` and its commit; `bypassed` are the
notes a `/gin/` handler changed; `posted` is as above.

**InvoiceStock.**  One row, many writers: `complete`, `cancel`, `update_invoice`,
mark-paid, PATCH, DELETE and, after every payment, reversal or note,
`update_status`.  `complete` is two actions: `Prepare` tests the copy, looks for SALE
movements and sums balances without a lock; `Issue` posts, and writes status, flag
and warehouse.  Everything between its first lock and its commit is one step for
`SerialStock`.  `cancel` decides on the copy alone.  `UpdateStatus` may write any
status a payment can lead to: what was paid is the subject of the payments
component.  It tests only DRAFT and CANCELLED, and only for OVERDUE, so it replaces
COMPLETED and CANCELLED too.  `save()` writes all columns and inserts a row that is
gone, `save(update_fields=…)` raises then (the guard `Exists`).  `Edit` takes the
items of Django's formset: those the client changed or added.  `moves` is the ledger
read from the invoice's side: the postings whose movements refer to it, in order;
`contended` are the invoices two requests worked on at once, `patched` those
whose status, flag or warehouse a client wrote through the serializer, which protects
none of them.  The goods issue notes of the same invoice are not here: `complete` does
not look at them, which the hazard list says.

**PurchaseReceipts.**  `complete_grn` locks nothing when it checks, so a completion for an order is a
transaction in steps: `Check` compares each item with what remains; for each item in turn
`Read` fetches the first line of that product and `Write` saves the sum, waiting
for a row another transaction updated and holding it from then on (`PassOver` when the order has no such
line); `Settle` reads all lines for the status; `Complete` posts the stock and commits.
The copy in `request[r]` carries what the transaction has `seen` of each line, what it
has `taken` and the rows it has `locked`; other transactions see nothing of it before the commit (`Written`
is what it sees itself).  `Fail` is any exception, a deadlock victim or the death of the
process, and leaves nothing.  The service's other operations are a load and one
save.  `arrived` is history: what completed receipts brought into stock, per order line.
`contended` are the orders two requests worked for at once.  The status of a receipt is reduced to OPEN,
COMPLETED and CANCELLED, because `complete_grn` and `cancel_grn` treat DRAFT, PENDING and
APPROVED alike.  PATCH of an order takes no items (DRF refuses nested writes), so `ordered`
is written once.

**InvoicePayments.**  The four tables are one function `entry` from ids to rows: a
`payment` (`sales`), a `legacy` one (`invoices.Payment`), a `credit` or a `debit` note; `share` are
a payment's allocations.  A request holds a `Copy` and goes through stages.  `loaded`:
the handler has the row, or the client's data.  `checked`: a service's guards have passed, on tables read
without a lock (`CheckPayment`, `CheckCreditNote`, `CheckDebitNote`).  `open`: the row is
written in an open transaction (`InsertPayment`, `ReversePayment`, `CancelCreditNote`, …),
visible to the transaction alone (`View`) and locked against others.  Then `Recompute` and `Store`
are `update_status` on the next invoice: read the sums, and save the status on a copy
that was loaded before.  An invoice's `Total` is a constant, although `update_invoice` changes
`total_due`: such an edit saves whatever status it computed or was sent, so it is an `Overwrite`, after which
nothing is said of the invoice's status until a request has recomputed it.  Handlers of the web that save first and recompute afterwards go
through `saved` instead, so that a crash in between leaves the old status.  Which
invoices a handler recomputes is in `todo`: the REST reverse knows the primary invoice only, a
REST PATCH none.  `unsettled` are the invoices whose status nothing has recomputed alone since
their money changed; `Overwrite` are the handlers of `InvoiceStock`.

**Receivables, PaymentDashboards.**  Operators over those tables and a day, not actions: each
figure as its code adds it up, with the rows it knows and the statuses it filters by.
They make explicit where the code's figures part: dashboard receivables add totals,
not balances, and count drafts in the API; `outstanding` of the sales dashboard knows
`invoices.Payment` only, that of the REST dashboard the newer payments only, refunds
included, and no notes; an overdue draft is recomputed to UNPAID, which the payment center's
overdue total does not look at; a statement counts the payments of cancelled
invoices; and the payment center counts its six months backwards in steps of 30 days from the first, so that
a month can appear twice or not at all (`CenterMonth`).
A payment of less than nothing is refused by no handler (`update_payment`, `PATCH`): with one, a period can show less than
a part of it.  What compares with "no more than" is said for `NoneNegative` tables only, the sums for all.

**Quotations.**  `request[r]` is the quotation a handler loaded, with its items for
REST.  Create and update count a total before the lines are final: the REST create stores
lines without their discount and product, the form deletes the items the
client left as they were.  A conversion copies lines without discounts, and `InvoiceItem.save`
gives a product that was free its selling price, after it counted the line (`InvoiceLines`).  `Finalize` puts the total right, and with it the properties start
(`finalized`).  `Answer` (approve, reject) and `SendAgain` test no status; a quotation
they find converted is in `reopened`.

**BillingCalendar, Subscriptions, RevenueForecast.**  Dates are records of year, month and
day; `NextBillingDate` cuts the day to the length of the month, as the code does,
and it stays cut.  `RunCommand` reads what is due in one query, `CommandBills` bills one copy
(which may be old by then), `CommandDies` is a crash, after which the next run
finds the rest.  Billing inserts an invoice numbered with the organization's count plus one: `numbered`
are the invoices with such numbers, `others` how many an organization made by the web form, which
counts differently.  The REST serializers leave `invoice_no` writable: `InvoiceWithNumber` inserts and `ChangeNumber`
writes one a client chose (`Chosen`, out of `ClientNumbers`).  `irregular` are the organizations
that deleted an invoice or whose client chose or changed a number.  A number that exists fails the
insert (`IsTaken`).  Pause leaves `next_invoice_date`, so that the paused periods are billed
after a resume; resume after a cancel leaves `is_active` False.  A PATCH may write `start_date`, while
`next_invoice_date` is read-only and stays where it was; `began` is the start date a subscription was created
with, from which its periods are counted.
The dates clients and days give are days of the calendar (`SubscriptionsAssumption`), as date columns are.

**PurchaseReturns.**  `complete` is `Validate` and `Complete`, as in `GoodsIssues`: what
is returnable (`Returnable`: received less completed returns) is read before the rows are locked.
The balance that `approve` compares with is over all shelves of the warehouse
(`InStock`), the one `complete` locks is that without a location (`OnShelf`).  `left` is history:
the lines completions of a return took out of stock.  Two returns of one order are `Rival`s, and callers
that hold rivals at once make them `contended`.

**StockAlerts, StockReports.**  A session executes `receive`, `issue` or `adjust` on an existing row
(`Begin`, `Lock`) and then `evaluate`: `Judge` (get_status), `Measure`
(the quantity again), `ReadAlerts`, and one write per alert, each its own statement, then
`Commit`.  `evaluate` follows the first item of a site whatever shelf was changed, uses the levels of
the product as its handler loaded it, refreshes only the newest of several active
alerts, and an alert deleted under it rolls the stock call back (`FailSession`).  A client's PATCH saves
a copy of the row with any of its columns changed (`PatchedAlert`), product and warehouse too, so that an alert
may move to another site or to no warehouse (`Place`) between two statements of an evaluation that
read it; the evaluation then writes this site's status into an alert of another one, and `Stray` are the places
where a session has written such alerts.  `disturbed` are sessions that
read what somebody then changed, `unsure` the sites no undisturbed evaluation has
committed for since; a commit adds its `Stray` places to them and disturbs those who read there.  A session's
row in `wrote` hides the committed one from it (`Table`), and `order` is the
order of `created_at`, in which the newest alert of a set is its last (`Newest`).  The reports are operators
over committed rows: `Movements` are the places of a shelf's movements in the ledger, and every figure
is a `SumOver` some of them.  `units` and `Article` are `InventoryItem.quantity` and products (other modules have
those names).

## 4. Runs

| Run | Checks | Shows |
|---|---|---|
| `stock_transactions` | `TypeOK`, `Reconciled`, `NonNegative`, `SerialCommits`, `EveryBlockEnds` | with two workers and any interleaving of statements, crashes, lost insert races and deadlock victims, committed stock equals committed movements, is never oversold, each commit is the block run alone, and no block waits forever, opposite transfers included |
| `inventory_documents` | `CompletedIsPosted`, `PostedOnceUncontended`, `DocumentsExplainStock` | stock is what the completed receipts brought less what the completed issues took, each with all its lines, as long as every document that was posted still tells so; COMPLETED is never written without posting, even by a PATCH of an old copy; a document no two requests held at once is posted once |
| `goods_issues` | `IssuedWithinInvoice`, `FulfilledIsComplete`, `FourEyes`, `ReportedHasLeft` | what leaves is within what the invoice bills at that moment, over partial issues and edits; FULFILLED is true of every product unless the last edit took back what had left; both for invoices nobody worked on concurrently and no `/gin/` handler touched.  Authors never approve; the report counts what left, by whichever route, and forgets only notes the `/gin/` handler deleted |
| `invoice_stock` | `TypeOK`, `GoodsOutAsFlagged`, `CancelledHoldsNothing` | for an invoice requests work on one at a time, `inventory_updated` tells exactly whether its present items left its present warehouse once, through completions, payments, edits and cancellations in any order; cancelled means nothing is out |
| `purchase_receipts` | `NeverAhead`, `ReceivedHasArrived`, `WithinOrder`, `StatusTells`, `ClosedForGood` | `received_quantity` never claims more than arrived, under any overlap; for an order requests work for one at a time it is exactly what arrived, within the order as long as no receipt names a product twice, the status tells how far it is received, and closed or cancelled orders receive nothing |
| `payment_allocations` | `StatusFits`, `OldestFirst`, `UndoneStaysUndone` | an invoice's status tells how much of it is paid once one undisturbed request has recomputed it; an allocation gives all of the payment, to the oldest first; what was reversed, refunded or cancelled never counts again |
| `payment_notes` | `NeverBeyond`, `ReportsAgree`, `DashboardsAgree` | no undisturbed service accepts more than the total or what is due after notes; statement, aging, payment center and timeline agree; the dashboards differ only by what each leaves out |
| `quotations` | `ConvertedOnce`, `InvoicedAsIssued`, `IssuedIsFrozen` | what was issued stays as issued, its total is that of its lines and what its invoices bill; it is converted once, unless somebody answers or sends it after its conversion |
| `subscriptions` | `EveryPeriodOnce`, `NumbersAreNew`, `EveryDueIsBilled`, `ForecastIsBilled` | each period is billed once and none left out, through pauses, dying runs and moved start dates; a number is new, or taken by somebody else, to an organization that deleted none and chose none; what is due is billed in the end unless its number is taken; each bill was in the forecast |
| `subscriptions_stuck` | `NothingStaysDue` – **violated** | the number of a deleted invoice's successor exists, and the subscription stays due for ever (finding 1) |
| `purchase_returns` | `TypeOK`, `LeftAsCompleted`, `ReturnedWasReceived` | what left for a return is what the completed return says, once; all returns of an order take no more than it brought in |
| `stock_alerts` | `AlertTells`, `LedgerTells`, `ReorderEndsShortage` | an evaluation nothing disturbed leaves alerts that tell the status, next to clients that move alerts between two sites; the ledger explains the stock at every commit and was never below zero; what is recommended ends the shortage |

Where a property speaks of documents "not contended", the code does break it when two
requests overlap: TLC finds two overlapping completions that post a document twice,
issue more than the invoice has, or return more than was received, two overlapping payments that are both
accepted, and a period that the command and a user both bill.  Nothing in the repository promises otherwise for these, so they are
known behaviour, in the models as in the code, and hazards of `PROJECT.json`, not findings.

### Bounds, and why they are enough

- *Two workers, requests, documents or notes.*  All the races are between
  two actors on one row or two rows in opposite order; a third adds no new pair.
- *Quantities up to `MaxQuantity` = 2.*  `MaxQuantity` stands for the 15 digits of
  the column, so that the refusal of a value too large to store is reached; 1 and
  2 distinguish "enough", "not enough" and "enough for one of two".
- *Blocks of two calls.*  A failure between two calls, and two locks held, need no
  third.  The blocks include both transfers, a foreign warehouse and refused arguments.
- *Two warehouses of one organization and one of another.*  Covers the mismatch
  checks and PATCH to another warehouse, which makes a transfer's two sides equal.
- *Kinds.*  `inventory_documents` creates receipts, issues and transfers, which are the
  calls `receive` and `issue` alone and in one block; `adjust` has its races in
  `stock_transactions`, and `DocumentsExplainStock` speaks of no adjustment, which counts anew.
- *Lines.*  Documents have two lines of one product, so that the second can be
  short after the first.  The goods issue invoice has two units of `p`, one of `q`
  and a service line; notes issue one `p`, one of each, `p` for no invoice, or `p` twice.  An edit
  leaves one `p` and one `q`: it takes back a `p` that may have left, and drops a line.
- *`PlainGin` = one of two notes*, so that notes of both histories meet; PATCH in
  `goods_issues` writes its copy back but changes no author, approver or
  warehouse, for every property that reads these columns leaves bypassed notes
  out (`PatchedUser` and `PatchedWarehouse` are constants, and other values can
  be given).
- *One invoice* in `invoice_stock`: no property relates two, and other stock
  movements are `Restock`.  One item of quantity 1, of a product or of a service,
  and a branch that a PATCH can write.
  `FormStatus` has an open status and CANCELLED: the code tells no others apart
  when a form writes them.  `MaxQuantity` 1 there: a second restocking of a full balance
  is refused.
- *One order, two receipts* in `purchase_receipts`: no property relates two orders.  The order has
  two units of `p` and one of `q`, or `p` on two lines; a receipt brings a part, all, a product
  that is not on the order, or `p` twice and too much.  `MaxQuantity` 4 there holds two full
  receipts, and a third is refused by the column.
- *Two entries, amounts 1 and 2* in the payment runs: a full and a part payment, each next to a
  second payment or a note, on an invoice over 2.  `payment_allocations` has a second invoice over 1,
  due later, and amounts clients write over a payment; `payment_notes` one invoice and all four
  kinds.  A third row would only repeat the pairs; it is out of TLC's reach in five minutes.
- *One quotation* with up to two lines: discounted, free of charge, or without a price.
  `MaxConversions` 2 lets a second conversion happen.
- *One subscription of `orgA`, one request next to the command*, on the last days of December
  and January, quarterly, or weekly without items, or patched to monthly with another start date.  A client may
  choose the second number of 2023, which is the one `orgA` comes to after its first.  `MaxBilled` 2 and
  `MaxInvoices` 1 stop users, not the command.  That the command goes on with the next subscription when one
  fails (its `try` per subscription) needs two: model and theorems have any number, the run does not show it.
- *One unit ordered, two returns, up to two lines.*  The second return, or the second
  line, is the one too many.
- *Two sites, one with two shelves, two movements, two edits by hand* in `stock_alerts`: an
  evaluation can be disturbed by the other session, on the other shelf of its site, or by a client, and an
  alert can move to the other site while it is held.  The product has its levels from the start, so that the
  first movement can raise an alert; one edit can move that alert, another change the levels or the alert again, and the
  second evaluation meets what both left, or repairs it.  Moves to no warehouse are in the model and the
  theorems only.
- *`posted` counts 0, 1, "more".*  Capped at 2.
- *A document id is used once*, as database keys are.
- *Deadlock* is checked wherever the system can always go on: stock transactions, payments, subscriptions,
  returns, alerts.  `InventoryDocuments`, `GoodsIssues`, `InvoiceStock`, `PurchaseReceipts`
  and `Quotations` may end with every id deleted, completed or at its bound, so `CHECK_DEADLOCK FALSE` there.

### Fairness

`FairSpec` of `StockTransactions` assumes for each worker strong fairness of
`Advance` – a lock waiter is queued by PostgreSQL and woken, so a statement that
is enabled again and again is executed – and weak fairness of `DeadlockVictim` – the detector
runs after `deadlock_timeout`.  Nothing is assumed of `Begin` (requests may stop)
or `Crash`.

`FairSubscriptions` assumes weak fairness of `RunCommand`: that somebody runs the command again and again.  This
is the operator's promise and not the code's, which has no scheduler; without it nothing is ever
billed.  It also assumes strong fairness of `CommandBills` for each
subscription: runs may die, but not every one before it comes to a subscription.  Nothing is assumed of
users, nor of `Tick`.  All other properties are safety and need no fairness.

## 5. Proofs

All theorems hold for any products, warehouses, locations, workers, documents and
blocks, under the named assumptions in the modules (constants are disjoint,
blocks are sequences of calls, and so on); TLC evaluates those on each run.

**Stock.**  `Reconciled` and `NonNegative` are about committed tables and not inductive: they
rest on what each worker has in flight.  `IInv` adds, for each worker: its session is clean
between transactions (`Session`); arguments were checked before the first statement
(`ArgumentsChecked`); an uncommitted item is locked by its writer (`OwnsItsDrafts`) and not
negative (`DraftsNonNegative`); what the locking SELECT returned is still so when it is used
(`SeenIsTrue`), and covers the issue (`IssueCovered`); and its movements are its drafted change plus the
call that is half posted (`DraftsBalance`).  Two drafts of one cell are impossible because
both owners would hold its lock.  From `Invariance` follow `TypeCorrect`, `AlwaysReconciled`
and `NeverOversold`.

`BlocksAreSerial` says more: a commit is the whole block as `SerialStock` runs it alone *at that moment*.
A worker has locked some cells and not others, so between its statements the balances of the others change under it.
The invariant therefore speaks of all balances those may still get (`SerialSoFar`): take any that fit their columns and agree
with the committed ones on the cells the worker has locked, lay its drafts over them (`Overlay`), and the result is an outcome of
the calls it has executed, in order.  Other workers commit only cells it has not locked, so that this stays so
(`OtherSerialWorker`); more locks only make the claim weaker (`SerialWithin`); and a call that writes its item adds
its own outcome, for the item it read is locked or does not exist (`WriteDraftSerial`, by `SeenIsTrue`).  The one call that ends
with neither a lock nor a write is an `adjust` to zero that finds no item (`NothingToAdjustSerial`): the item may appear before
the commit, which is why `Outcomes` lets such a call leave the balance it found.  At the commit the balances are the committed ones.  What a block makes of balances is
`FoldLeft` over its calls; `BlockFold` solves its recursive definition and `OneCallMore` unfolds it by one call.

**Documents.**  `CompletedWasPosted` needs `CopiesArePosted`: a copy that says COMPLETED was
read from a document already posted, so that writing it back is harmless.
`PostedOnceTheorem` needs `CopiesAreCurrent`: the only request that works on an uncontended document
holds its row as it still is.

**Goods issues.**  Every handler ends by writing its note's row at most, so the cases of both
proofs go through one lemma about the end of a request (`EndedTypeOK`, `EndedFourEyes`,
`EndedReport`).  `FourEyesTheorem` needs `CopiesAreApproved`: for a note no `/gin/` handler
changed, the copy's author is the row's, and a copy that says APPROVED or COMPLETED was read
after another user's approval; so neither a stale submit nor a stale completion can
leave the row without one.  No assumption on concurrency is needed.  `ReportTheorem`
needs `CopiesAreCurrent`: the only request that works for an invoice knows its note's status.

**Sums.**  What is invoiced and issued, received and returned, paid, credited and due are sums, over the lines
of a document or over documents.  The prover has no induction over sets, so `SumTheorems` gets
along without: a statement about sums that were wrong for some subset of a finite set would be
wrong for a smallest one (`LeastSubset`), and one summand less gives the contradiction.  In this way it
shows that the recursive definition of the community modules has a solution (`SumsExist`),
whatever its CHOOSE picks (`SumsAgree`), and what one summand more, a changed, a larger or no
summand makes of a sum (`SumOneMore`, `SumChanged`, `SumMonotone`, `SumOfParts`).  Folds over sequences are treated in the
same way (`ChainsExist`, `ChainsAgree`).

`IssuedWithinInvoiceTheorem` is about steps, since an edit may leave an invoice with less than was issued
before.  It needs `Fulfilment`: of an invoice that one request at a time works for and no
`/gin/` handler touched, what a request has validated still fits in what remains – since the only other
writers, a second request and an edit in between, would have made the invoice contended – and unless the
last edit cut it, what completed notes issued of each product is within its line.
`FulfilledIsCompleteTheorem` follows from the latter: `fulfillment_status` compares the sum over products with the sum invoiced, and if no product is over, equal
sums mean that each is equal (`SumMonotone`, one summand at a time).

**Invoices.**  `GoodsOutTheorem` and `CancelledTheorem` follow from `OrderInv`: of every
invoice in order, flag, status and movements agree, and goods that are out came from a
warehouse (`GoodState`; otherwise `cancel`, which returns nothing without a warehouse,
would leave them out); and the only request that works on an invoice has its row as it
still is, with no SALE movement and no flag while it is between the checks of
`complete` and the issue (`CopiesAreCurrent`).  The key step is `NeverSold`: nothing out and no
SALE movement means no movement at all, so the issue is the first.  Handlers that save
their copy go through one lemma (`SavedOrder`), and all through the end of a request
(`EndedOrder`).  `InvoiceStockTyped` needs no order among requests.  It opens the two folds of the model: the goods of an invoice
are items of it (`GoodsTyped`), and a block that has an outcome names only cells that may have a balance (`BlockTyped`),
whatever warehouse a client wrote into the invoice.

**Purchases.**  `NeverAheadTheorem` assumes nothing of concurrency.  It needs `SeenHasArrived`: what a
completion has read or written of a line is at most what had arrived and what it brings itself;
`arrived` only grows, so a stale write can lose a receipt and not invent one.  The other four
are about orders that one request at a time works for, and rest on `OrderlyInv`: the request has
order and receipt as they are (`CopiesAreCurrent`), and in the middle of a completion each line it has
read or written is what was received and what it counted (`CountsAreCurrent`).  So
the commit adds what it counted (`CommitAdds`), from which `ArrivedTheorem`, `StatusTheorem` and
`ClosedTheorem` follow.  `WithinTheorem` adds `CountsFit`: the items a completion has not reached
still fit in what remains, since no two of them are for one line.  The steps of a completion are
first brought into one form (`Counts`, `CountDetails`), so that each proof treats them once.

**Returns.**  `ReturnsTypeOK` and `ReturnsLeaveAsCompleted` rest on `ReturnsInv`: the types,
`LeftAsCompleted` itself, and `CopiesAreCurrent`, that a caller alone with a return holds the status it has, and has
validated nothing but an approved one.  It is needed because `complete` decides on the copy: alone,
the copy's APPROVED means that nothing has left yet, so the issue is the first; and no line can be
added afterwards, for `add_item` asks the copy for DRAFT.  `ReturnedWasReceivedTheorem` adds `OrdersInv`:
completed returns of an order without contended ones are within what it received
(`ReturnedFits`), and a return somebody has validated still fits on top (`ValidatedFits`), because two callers with
rivals at once would have made both contended (`RivalsApart`).  `TotalIsSum` turns the fold over the lines of a
return into a sum, and `ReturnedIsWhatLeft` the sum of what returns say into that of what left.

**Payments.**  `Base` is what every step keeps (`AnyStep`): types; a request that met no other holds its
row as it still is and has loaded the statuses there are (`Held`); two requests that met none have
nothing to do with the same invoice (`Apart`), and two open transactions never with the same row
(`OpenApart`).  `StepBase` reduces this to two questions for each of the twenty handlers: what the request itself
holds after the step, and which invoices the step had to do with.
`UndoneStaysUndoneTheorem` follows: a copy that would revive a row is older than the reversal, so its request met the
one that reversed.  `StatusFitsTheorem` adds `StatusInv`: what such a request has read and decided for
an invoice fits the money it sees, and an invoice its transaction changes the money of is one it has told, or has
still to tell.  `NeverBeyondTheorem` and `OldestFirstTheorem` add `PaysInv`: from the checks
of a service to its commit, payments with the new one stay within the total or within what is due
(or credit notes within total and debit notes), and what an allocation left owed is owed
to invoices due after those it paid.  That the code's loop over invoices by due date amounts to this is
`SharesOfEarliest` (the invoices due up to some date together get what they are owed, or the whole
payment if that is less) and `ShortShare` (whoever got less than is owed was the last to get any).

**Reports and dashboards.**  `ReportsAgreeTheorem` and `DashboardsAgreeTheorem` are about settled tables: what
has been proved of payments says that the status of every invoice then fits its money (`SettledIs`), and one more
invariant that every row stays in its table, with the columns and statuses of it, and so does every copy
(`KindsInv`, a step lemma for each handler), unless a request met another.  Everything else is about one state.
A statement is a loop over events sorted by their day, and `Chronological` may be any such list: it exists
(`ListsAll`), the loop has values (`StatementFold`), and they are the sums of the events before, within and after the
dates asked for (`StatementOfList`), whichever list was taken.  So two statements that meet on a day show the same
balance there (`StatementsJoin`), and the last one is the sum over all events.  That sum is then taken in both orders,
by the rows that counted and by the invoices they say something of (`SumInBothOrders`, `ChargedInTotal`), to become the
balances of the invoices, less what was never applied and what was paid beyond (`OwedInTotal`).  Aging
splits a set of invoices by days overdue, bucket by bucket (`AgedSplit`).  The dashboards are sums over sets of
rows by table, status and date (`NewerAndOlder`, `ChargedByKind`); the trend adds up because
six months, counted from the year 0, are six different months and each day is in one
(`MonthNumber`, `TrendAddsUp`), and a week before a date does not begin after it (`DaysBeforeIs`).

**Quotations.**  All three properties follow from `QuotationsInOrder`.  Its invariant has the shapes
of the rows; `QuotationsAreCurrent`, needed because every handler decides on its copy and saves all
of it; and for each quotation no two requests worked on at once `GoodQuotation`: no invoice and no
issue while it is a draft, one invoice unless it was reopened, and once finalized the total of its
lines, which its invoices bill.  That a draft has no invoice is what lets `Finalize`
establish the last part.  Each handler ends by writing one quotation (`Written`), and `QuotationHandledInv` treats
all eight alike; `IssuedIsFrozen` is proved with it.  Totals are sums over the
items and are never opened: the proofs only use that equal lines have equal totals.

**Subscriptions.**  `EveryPeriodTheorem` rests on `BilledInv`: types, for which `NextDate` shows that
`next_billing_date` returns a date; `CopiesAreCurrent`, for requests and for the copies of the command; and for each
subscription never in two hands `Series`, that its bills follow each other from the date it began with, whatever a
PATCH made of `start_date`, and `next_invoice_date` comes after the last.  `SeriesGoesOn` is the step that counts: a bill for the date of a
current copy continues the series.  All handlers, of users and of the command, end by writing one subscription
(`Handled`).  `NumbersTheorem` needs more than `NumbersAreNew` says: no number of an organization that
is not irregular is beyond its count (`NumbersInv`), and each new invoice raises the count by one; deletions and chosen
numbers make it irregular (`IrregularInv`).
`ForecastTheorem` first shows that the recursion over dates has a solution: the date `next_billing_date` returns is later
than the one it gets (`NextIsLater`, cycle by cycle, with month lengths), so the dates up to the end of a month
are exhausted after finitely many (`ExpectedSoon`, by the least number of days for which they were not), and whatever
CHOOSE picks contains later dates only (`ExpectedLater`).  Taking the first period away therefore removes this date and no
other (`RenewalsGoOn`, `ForecastGoesOn`), and a date between the first and the last day forecast is in one of the months
(`DateForecast`).  Both need that dates are in the calendar (`CalendarInv`): every `next_invoice_date`, in the table and in
copies, comes from a client or from `next_billing_date`, which cuts the day to the month (`GenerateIs`).

**Ledger and reports.**  `LedgerTellsTheorem` and `ReorderEndsShortageTheorem` follow from `LedgerInvariant`.
A session that holds its shelf has the one movement of its call, which accounts for the quantity it computed
under the lock (`Booked`); no two hold one shelf (`Apart`); and the committed movements of a shelf add up to
its quantity, and up to any place to no less than zero (`Explained`).  The last part is what receipts make hard:
theirs is written before the lock and may be committed behind later ones.  A receipt
added anywhere only raises the balances after it; a movement that takes something out is written under the lock
and comes after all that is committed for the shelf then (`Booked` again), so that its balance is
the quantity the session checked (`CommitExplained`).  A rollback moves later places up, but what is summed up to
any of them is summed up to some place before (`FailExplained`).  That ledger, dashboard and top products
agree is a sum over shelves or products of sums over their movements (`SumOfGroups`).

**Alerts.**  `AlertTellsTheorem` follows `evaluate` through its statements: what a session that nobody disturbed knows
after each of them (`SessionTells`) is still so for the row, the levels and the alerts it will commit to, and in
the end is what the property says of its site.  Alerts move, so an evaluation may write one that is no longer of its
site.  That other sessions and clients leave an undisturbed one alone rests on two things: an alert an open session has
written is locked and stays in its place until the session ends (`InPlace`), so that what its commit makes of other
sites' alerts is at its `Stray` places, whose readers it disturbs; and rows created, moved or
deleted elsewhere do not change which alert of this site is the newest (`NewestAppended`, `NewestWithout`).  `RestTells` then reduces
each step to what it touches (`Touches`) and whom it disturbs.

**Only model-checked.**  Liveness: `EveryBlockEnds` and `EveryDueIsBilled` rest on fairness and
ENABLED, which are out of the prover's reach.  `DocumentsExplainStock` is an equation between a fold over calls and
sums over the lines of all documents, and has no proof yet.  Every other property of the passing runs is stated by a theorem.

## 6. Findings

1. `generate_invoice` numbers an invoice with the count of the organization's invoices plus one
   (`sales/subscriptions/services.py:138`), but `invoice_no` is unique in the whole table.  After an invoice
   was deleted, or next to an organization that numbers in the same way, the number exists, the
   insert fails, and it fails again on every later run: the subscription is never billed,
   although the command's help says that it "Generates recurring invoices for subscriptions due today
   or past due".

What else the models showed of the code, none of it against a promise of the
repository: an edit of an invoice or a quotation deletes the items the client left as they were
(`invoice_service.py:130`, `quotation_service.py:107`); a receipt with a product on two items
receives more than was ordered; a payment is compared with the total and not with what is due after a credit note;
a converted quotation can be approved and converted again; reversing an older payment by its id fails and rolls
back; `get_date_range("year")` uses a name its module does not import.  The purchase
return service, and a GRN's order, are reached by no handler.

## 7. Not modelled

- `GoodsIssueService.create`, `add_item` and `cancel` are called by no handler.  The
  purchase order of a GRN is set by no handler, only by tests and callers of the
  service: `PurchaseReceipts` and `PurchaseReturns` model it as the service allows it.
- Goods issue notes and invoice completion are each modelled alone.  `complete` of an
  invoice does not look at the notes' movements, so that over one stock the code issues goods twice; no property
  of the two would hold of a composition.
- Max + 1 numbers (`document_services.py` 28–46, receipts, notes): documents have an identity in the models
  and no number.  Two creations with one number are a failure of the second, which every model has.
- The generic REST routes that edit `InventoryItem` and `StockMovement` rows directly are left out of
  `StockTransactions`, whose promise is that of the service.
- `StockAlerts` leaves out sites whose items do not exist yet, and the deadlocks of blocks
  with several calls, which `StockTransactions` has.
- Subscription templates, MRR figures, top lists, sales trends, counts of documents and search
  read tables and relate nothing the reports above do not.
- Permissions: a static table; its effect is the set `Approver` of `GoodsIssues`.
- PDF, templates, e-mail and notifications: formatting and output.
- Master data and settings: row-by-row CRUD whose rows no other property relates.
