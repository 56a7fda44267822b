# Plutus in TLA+

Plutus is a multi-tenant HR, payroll and accounting system for Nigerian
organisations: a FastAPI application over SQLAlchemy and PostgreSQL. Every
request opens one database session, runs one service function and commits; a
refused request rolls back. This directory holds TLA+ models of the parts whose
correctness depends on the *order* of requests, or on how their transactions
overlap, TLC configurations that check them on small instances, and TLAPS proofs
of what they promise for instances of any size: every property the passing runs
check is also a theorem, but for the one liveness property.

Paths below are relative to `src/app/` unless they start with `src/`.

- [1. The system](#1-the-system)
- [2. Modules](#2-modules)
- [3. The payroll core: PayRun](#3-the-payroll-core-payrun)
- [4. The stock documents: StockLedger](#4-the-stock-documents-stockledger)
- [5. Approvals](#5-approvals)
- [6. Purchasing and bills](#6-purchasing-and-bills)
- [7. The daily job: Recurring](#7-the-daily-job-recurring)
- [8. Invoices, assets and the bank: Books](#8-invoices-assets-and-the-bank-books)
- [9. Runs](#9-runs)
- [10. Proofs](#10-proofs)
- [11. Where code and documentation disagree](#11-where-code-and-documentation-disagree)
- [12. What is not modelled](#12-what-is-not-modelled)
- [13. What comes next](#13-what-comes-next)

## 1. The system

Services (`services/`) hold the behaviour, `models/` the tables, `domain/` pure
arithmetic, `api/v1/` the requests. Nothing is concurrent inside a request;
concurrency is between requests, that is between database transactions at
PostgreSQL's default isolation (READ COMMITTED), and with the daily job of
`workers/scheduler.py`. Parts interact through shared tables and direct calls:
payroll calls into loans, claims, liabilities and the ledger; inventory calls
into the ledger and its approvals; bills clear goods receipts.

| Component | State | Operations | What makes it correct | Hard behaviour |
|---|---|---|---|---|
| Pay-run lifecycle (`services/pay_run_lifecycle.py`) | run status, pinned employees, variance flags | draft, validate, lock, mark paid, discard, reverse | a run pays exactly the people it was drafted for; nothing unreviewed is locked; a reversal undoes everything the lock did and nothing else | order of locks and reversals of several runs; state pinned at draft and used at lock; overlapping requests |
| Payslip processing (`services/payroll.py`, `services/engine_payroll.py`) | payslips, statutory lines | process one employee; sweep claims; deduct loans | each claim paid once, loans never over-collected, journals balance | called by lock and by final settlement; skips what does not fit |
| Employee loans (`services/loans.py`, `domain/payroll/loans.py`) | loan status; append-only repayments | request, cancel; deduct; reopen | status agrees with the balance the repayments add up to | reversal after a loan was closed, cancelled or replaced |
| Overtime, leave encashment | status, `pay_run_id` | submit, decide, sweep, restore | paid once, by a run that stands | swept by two runs |
| Statutory liabilities | pending, filed, remitted | accrue, file, remit, withdraw | acted-on obligations are never undone | filed while its run is being reversed |
| Final settlement | a run of its own; lifecycle state | settle | as a lock, plus the loan is closed | settles an employee other drafts still pin |
| General ledger (`services/posting.py`) | journals, lines, reversal links | post, reverse | balanced, each source posted and reversed once, closed periods sealed | reversals dated today; two sources of one idempotency key |
| Accounting settings and periods | lock date, switches | update | nothing posted on or before the lock date | lock date moved between a draft and its lock |
| Payroll arithmetic (`domain/payroll/`) | none | PAYE, pension, proration, installments | amounts add up to the unit | rounding, remainders, year-to-date sums |
| Compliance engine (`compliance/`) | rule packs by date | resolve, evaluate | the version in force is used | none: pure |
| Approval workflows (`services/approvals.py`) | steps; instances; decisions | configure, decide | every step in force was approved, in order, once | steps edited while a request is in flight; two approvers at once |
| Leave, attendance, expenses | requests, balances | submit, decide | never more leave than the balance | balance read at submission, used at approval |
| Stock ledger (`services/inventory_posting.py`) | movements, balances, cost pools, lots | post a batch | balances, pools and movements agree; never negative | row locks, weighted average rounding |
| Stock documents (issues, adjustments, transfers, stocktakes) | document status and lines | draft, submit, decide, post, reverse, count | posted exactly once; a transfer never creates or loses stock; a count keeps what moved after its cutoff | approvals stale at posting; several documents on one item; lock order |
| Purchasing, goods receipts | orders, receipts | approve, issue, receive, reverse, close | received quantities are those of the posted receipts | receipts against an order being closed |
| Inventory accounting | journals, accruals | start, post, reverse | stock value equals the inventory account | the switch flipped while documents post |
| Bills, invoices, credit notes, vendors | status, paid amount | register, approve, pay, void, credit | paid and credited at most once and never beyond the total | links to receipts; payments in parts |
| Scheduler, recurring documents | next run date | generate due | one document per due date | the daily job and the on-demand endpoint together |
| Fixed assets | value, depreciation | depreciate, revalue, dispose | book value never below zero, gain or loss at disposal | catch-up of several periods |
| Bank reconciliation, disbursement | matches, outcomes | match, record | a line is matched once | little |
| Reports, documents, recruitment, training, tenancy | records | read, create, update | ordinary | little |

`PROJECT.json` lists every component with its source files, and the hazards,
each at its line.

## 2. Modules

| Module | What it is |
|---|---|
| `PayRun` | The payroll core as a state machine, one action per request |
| `LoanAccounts` | What a loan promises its borrower: the abstract specification `PayRun` implements |
| `PayRunProofs` | Theorems about `PayRun` and their proofs |
| `MCPayRun` | Owners, amounts and symmetry of the instances TLC checks |
| `LoanSchedule` | The installment arithmetic of one loan |
| `LoanScheduleProofs` | Theorems about it for any amount, rate and term |
| `StockLedger` | Stock, its cost and its journals under adjustments, issues, transfers and stocktakes, one action per request |
| `StockLedgerProofs` | Theorems about `StockLedger` and their proofs |
| `MCStockLedger` | Default costs, approval settings and symmetry of the instances TLC checks |
| `Approvals` | The approval engine under overlapping deciders, one action per statement of a deciding transaction |
| `ApprovalChain` | What the engine promises the owner of a request: the abstract specification `Approvals` implements |
| `Purchasing` | Purchase orders, goods receipts and the bills that invoice them; receiving and bills split between read and write |
| `Recurring` | Recurring bills and invoices, the daily job, the endpoint beside it, restarts |
| `Books` | Customer invoices and credit notes, fixed assets and their custody, the bank statement |
| `ApprovalsProofs`, `PurchasingProofs`, `RecurringProofs`, `BooksProofs` | Theorems about these four and their proofs |
| `SumTheorems` | What a sum over a finite set is: the lemmas every balance rests on |
| `MCApprovals`, `MCPurchasing`, `MCRecurring`, `MCBooks` | Amounts, calendars and symmetry of their instances |

The modules are not one composed machine: what one leaves out another has.
`StockLedger` and `Purchasing` treat the decision on a document as one step, and
`Approvals` is that step in detail; `Purchasing` takes from `StockLedger` that
stock and its cost are right; `Books` and `PayRun` post to different accounts of
one ledger under one lock date. The two refinements (`LoanAccounts`,
`ApprovalChain`) state the interfaces.

Operators named `...Forgotten`, `...Swapped` and so on, marked "Mutant" in a
comment, are wrong versions of the definition below them. They are used nowhere
in the models: each is the plausible slip that the property named beside it in
`PROJECT.json` (under `mutants`) would catch, and substituting it makes TLC
report that property.

## 3. The payroll core: PayRun

One organisation, one pay frequency, the employees it starts with. A step is a
request whose transaction commits. A request that is refused changes nothing and
is therefore no step at all; the one exception is a validation that fails on
variance flags, which commits its flags (`services/pay_run_lifecycle.py:179`) and
is a step.

| Variables | Table or column |
|---|---|
| `employed`, `tin` | `Employee.lifecycle_state`, `Employee.tin` |
| `status`, `period`, `pinned`, `disbursed` | `PayRun.status`, `period_end`, `employee_ids`, `disbursed_at` |
| `flags`, `acknowledged` | `PayRunVarianceFlag` rows and their acknowledgement |
| `payslips` | `Payslip` rows, by run and employee |
| `loan`, `repaid` | `Loan.status`; `LoanRepayment` rows, by loan and run |
| `claim`, `paidBy` | status and `pay_run_id` of `Overtime` and `LeaveEncashment` |
| `liability` | `StatutoryLiability.status`, by run and scheme |
| `journals`, `reversed` | `JournalEntry` rows, named by their unique source; the ones a `reversal_of_id` points at |
| `postRemittances`, `lockDate` | `AccountingSettings` |

| Action | Request | Code |
|---|---|---|
| `CreateDraft` | POST /pay-runs | `api/v1/pay_runs.py:67` |
| `Validate` | POST /pay-runs/{id}/validate | `services/pay_run_lifecycle.py:137` |
| `LockRun` | POST /pay-runs/{id}/lock | `services/pay_run_lifecycle.py:199`, `services/payroll.py:759` |
| `MarkPaid`, `Discard` | mark-paid, discard | `services/pay_run_lifecycle.py:215`, `:227` |
| `Reverse` | POST /pay-runs/{id}/reverse | `services/pay_run_lifecycle.py:239` |
| `FinalSettlement` | POST /final-settlements/{employee} | `services/final_settlement.py:16` |
| `RequestLoan`, `CancelLoan` | loans | `services/loans.py` |
| `SubmitClaim`, `DecideClaim` | overtime, encashment | `services/overtime.py`, `services/leave_encashment.py` |
| `MarkFiled`, `MarkRemitted` | liabilities | `services/statutory_liability.py:197`, `:240` |
| `UpdateTin`, `UpdateSettings` | employees, accounting settings | `api/v1/employees.py:245`, `services/accounting_settings.py:30` |

`ProcessPayslips` is what a lock and a settlement have in common: payslips,
loan deductions and closings, swept claims, liabilities and journals, in one
step, as they are in one transaction. A reversal reads the loan balances after
the new status of the run is flushed, so `Reverse` reads `Outstanding(l)'`, in
which the run's own repayments no longer count.

Abstractions, each of which only adds behaviour:

- The amounts on a payslip are not computed. Whether an installment fits the net
  pay is a free choice (`deducted`), and so are the schemes that end up with an
  amount to owe (`due`) and the employees whose gross has swung enough to be
  flagged (`PossibleFlags`). Loan amounts are exact, because the properties are
  about them.
- A loan may be requested whenever its owner has no active loan; the rules on
  service length and salary multiple only forbid some requests. None forbids a
  loan of nothing (`schemas/loans.py:10`, `domain/payroll/loans.py:42`, `:53` refuse
  negative amounts only): it is granted active, no payslip has anything to deduct
  (`services/payroll.py:162`), and it stays active until it is cancelled, keeping its
  owner from any other loan.
- `active_loan` returns an arbitrary one of several active loans: `Deductible`
  allows each.
- Pay frequencies are one; there are no hires: a new employee is in none of the
  runs drafted before, so this loses none of what the properties speak of.

Not an addition but a restriction: two requests do not overlap. Overlapping
requests are listed as hazards and are the next payroll module of the plan.

`LoanAccounts` states the promise one loan makes: granted once, an amount owed
between zero and what was lent, closed by the collection that leaves nothing
owed and open again once that is undone, cancelled for good. It has one step for a payroll that collects from several loans at once
and one for undoing it. `PayRun` implements it with `account <- loan` and
`balance <- ` the balance derived from repayment rows of runs that are not
reversed.

`LoanSchedule` is separate because it is about amounts only: flat interest,
division into equal installments, and what the sequence of payslips really
deducts (`services/loans.py:49` keeps the first installment of the plan, and
`domain/payroll/loans.py:64` caps each deduction at the balance). Each payslip's
net pay covers its installment there.

## 4. The stock documents: StockLedger

One organisation with its items, its warehouses and the in-transit location. As
in `PayRun`, a step is a request whose transaction commits.

| Variables | Table or column |
|---|---|
| `status`, `site`, `dest`, `dated`, `lines` | header and lines of `InventoryAdjustment`, `InventoryStockIssue`, `InventoryStockTransfer`, `InventoryStocktake` |
| `received` | `InventoryStockTransferLine.received_quantity_base` |
| `sheet`, `cutoff` | `InventoryStocktakeLine` rows; `cutoff_at`, as the movements committed by then |
| `signedOff` | the documents whose approval instance ended in approval |
| `balance`, `pool` | `InventoryStockBalance`, `InventoryItemCost` |
| `movements` | `InventoryStockMovement` rows, never changed or deleted |
| `journals` | inventory's `JournalEntry` rows, each as the net amount it moves the inventory account by |
| `postToGl`, `policy` | `InventorySettings` |
| `lockDate` | `AccountingSettings.lock_date` |

| Action | Code |
|---|---|
| `WriteDraft`, `Delete`, `Submit`, `Decide`, `Cancel` | the draft and approval functions of `services/inventory_adjustments.py`, `inventory_issues.py`, `inventory_transfers.py` and `inventory_stocktakes.py`; the guards say which document allows what |
| `PostAdjustment`, `PostIssue` | `inventory_adjustments.py:349`, `inventory_issues.py:291` |
| `Reverse` | `inventory_adjustments.py:432`, `inventory_issues.py:356` |
| `Dispatch`, `Receive` | `inventory_transfers.py:233`, `:297` |
| `StartCount`, `RecordCount`, `AddLine`, `RemoveLine`, `PostStocktake` | `inventory_stocktakes.py:203`, `:247`, `:293`, `:350`, `:520` |
| `StartGl` | `inventory_accounting.py:404` |
| `UpdateInventorySettings`, `UpdateLockDate` | `inventory.py:105`, `accounting_settings.py:30` |

Every posting goes through `Moved`, which is one call of `post_movements`: a
quantity per item at one place, decreases valued at the item's average and
increases at the value given. A transfer takes two such calls, the second at the
values the first one found (`MovePairs`); a short receipt takes one more before
them (`LossesOf`). `Book` holds what refuses a batch: a locked period, or a place
without the stock. A pool has no place of its own, so that refusal is per
warehouse and the value is per item.

Abstractions:

- Quantities are whole base units; unit conversions are left out, and so are
  lots, first-expiry-first-out allocation and expired stock.
- A journal is its effect on the inventory account. Which account stands on the
  other side does not matter to what is checked.
- Archived items and warehouses, categories of a count and who may do what only
  refuse requests, and are left out; so are the steps of an approval before its
  last decision.
- A document has at most one line per item. `movements` is a set: a row is named
  by its document, type, place and item, which is what the unique source-line key
  of the table makes of it.
- `RequiresApproval` is evaluated with the settings and prices of the moment, as
  in the code: at submission, and again when a draft is posted directly.

## 5. Approvals

One organisation, one employee, one leave year. Here requests *do* overlap: a
decision is a transaction at READ COMMITTED, and each of its statements is an
action. What a transaction has read stays in its session and is not read again;
an UPDATE waits for the transaction that updated the row before it and then
overwrites the columns it changed. `Load`, `ReadInstance`, `ReadSteps`, `Decide`,
`CheckBalance` and `CommitDecision` follow `services/approvals.py:145-218` and the
callers in `services/leave.py`, `services/expenses.py` and the inventory services;
`Abort` is a refusal, a lost connection or a crash.

| Variables | Table or column |
|---|---|
| `doc` | status of `LeaveRequest`, `LeaveEncashment`, `Expense` and of a stock document |
| `instance` | `ApprovalInstance.status`, `current_step` |
| `trail` | `ApprovalInstanceDecision` rows, in the order they commit |
| `steps` | how many `ApprovalWorkflowStep` rows each kind of request has |
| `txn` | what each open transaction has read |
| `required` | a history variable: the steps in force when the last decision was judged |

The callers differ in what they lock. A stock document is read FOR UPDATE before
anything else (`services/inventory_issues.py:253`), leave and expenses are not
(`DocumentLocked`). Two deciders of a leave request can therefore take one step at
once, approve and refuse it, and both decisions are recorded. The properties say
what survives that: the request and its instance agree in the end, and no step
is skipped. What does not survive is the leave balance (section 11).

Left out: who may decide a step (anybody may try), notifications, and the other
kinds of request, which call the same two functions.

## 6. Purchasing and bills

| Variables | Table or column |
|---|---|
| `order` | `InventoryPurchaseOrder.status`, `received_quantity` by line |
| `receipt` | `InventoryGoodsReceipt`: status, order, accepted quantities, the accrual its journal posted |
| `bill` | `Bill`: status, linked receipt, amount, tax withheld |
| `txn` | what an open transaction has read: the drafting of a receipt, or the registration, approval, payment or voiding of a bill |
| `settings` | `over_receipt_tolerance_bp`, `post_to_gl` |
| `grni` | balance of the goods-received-not-invoiced account |
| `booked` | what the ledger lines of each bill cleared from GRNI and left on accounts payable |
| `overtaken` | a history variable: the bills decided on by a transaction after another one had changed their status |

Orders are changed under their row lock, and posting and reversing a receipt
locks the receipt and then its order: these are single steps. Drafting a receipt
reads the order without a lock (`services/inventory_purchasing.py:489`), and bills are
read without one everywhere (`services/bills.py`): these are two steps, with
anything in between. What the database itself enforces is in the second step: the
unique index that allows a receipt one bill that is not void, and the foreign-key
share lock a bill being inserted holds on its receipt, which a reversal waits for.

Nothing keeps two transactions off one bill. Each checks the status it has read,
posts a journal that names no source (`services/general_ledger.py:100`) and writes the
next status without looking at the row again (`Decide`). So two approvals clear one
accrual twice, two payments take one bill off payables twice, and an approval that
overtakes a void, and the reversal of the receipt the void allowed, leaves an approved
bill on a reversed receipt. The model has all of these. `BillApprovedTwice` shows the
first, against what the documentation says (section 11); the properties that hold say
how far the damage goes. A bill that no transaction decided on too late is
posted once and rests on a receipt that stands, whatever happened to other bills, and
GRNI is off by exactly what the overtaken bills cleared.

Left out: the steps of the approval (`Approvals`), stock and cost of the goods
(`StockLedger`), unit conversions and taxes of a line other than what is withheld.
Goods received can always be given back; in the code a reversal is also refused
when the stock is gone.

## 7. The daily job: Recurring

Recurring bills and recurring invoices are the same code twice
(`services/recurring_bills.py`, `recurring_invoices.py`), and one model. The state is
the templates with their next date, the numbers in use, the job's remaining
organisations, what each open batch has read, and the history `made` of dates
generated. `StartJob`, `JobReads` and `JobWrites` are the scheduler's thread
(`workers/scheduler.py:46-101`): one organisation at a time, each its own
transaction, an exception logged and passed over. `RequestReads` and
`RequestWrites` are the endpoint, with any date, overlapping the job. A batch
reads the templates without a lock, so it may write what another batch has just
written; the unique index on the document's number then fails it as a whole
(`Taken`), and so does an account that is not in the chart. `Crash` ends the
process, the job with it; nothing remembers what was left.

A date is the number of its day in a small calendar with months of two days and
of one, so that `AddMonths` meets a month too short for the day
(`domain/recurrence.py:19`).

## 8. Invoices, assets and the bank: Books

The three share a ledger and little else, and what they are checked for is that
the ledger says what the tables say.

| Variables | Table or column |
|---|---|
| `invoice` | `Invoice.status` and the sum of its credit notes |
| `asset`, `custody`, `history` | `FixedAsset`; `FixedAssetAssignment` rows not returned; depreciation journals and revaluations linked to the asset, in time |
| `statement` | `BankStatementLine` and the entry it matches |
| `gl`, `cash` | balances of the receivable and the two asset accounts; entries on the cash account |
| `locked` | whether today is on or before the lock date |

The actions are the functions of `services/invoices.py`, `credit_notes.py`,
`fixed_assets.py` and `bank_reconciliation.py`, one each. The properties mix
them freely: credits before and after payment, a revaluation between two months of
depreciation, a disposal of an asset somebody holds, a cash entry of a
disposal matched with a line of the statement. Each request is one step: these
services lock nothing, and two overlapping requests on one document are a hazard
listed, not modelled. A credit note reduces the receivable and what the ageing
report shows, but a payment still posts the full price
(`services/invoices.py:80`), so `ReceivablesReconcile` has a term for credits on
paid invoices: the customer's credit.

## 9. Runs

Deadlock is checked in every configuration but `LoanSchedule`'s, where a loan
that is repaid stops. Elsewhere some request is always possible, so it says little.

Fairness is assumed in one module. People make requests when they like, and no
property assumes that they do. `Recurring` assumes weak fairness of `StartJob`,
`JobReads`, `JobWrites` and `NewDay`: the scheduler is a cron trigger with
`max_instances=1` and `coalesce` (`workers/scheduler.py`), so a job that is due starts
once the one before it has ended, goes on through its organisations, and ends its
transactions; the clock goes on. The endpoint, registrations and crashes have no
fairness, crashes are bounded (`MaxCrashes`): a process that dies every night
promises nothing. Each batch's transaction ends because nothing in it waits for a
person.

| Run | Properties | Instance and why it is enough |
|---|---|---|
| `PayRunLoans` | `TypeOK`, `LoanStatusMatchesBalance`, `ImplementsLoanAccounts` | One employee, three loans (3 in installments of 2; 2 in installments that round to 0; a loan of nothing), three runs of one date. Three runs let a loan be partly paid, closed, reopened by an earlier run's reversal and paid again, with a settlement in between; 360 thousand states |
| `PayRunRecords` | `ClaimsPaidByLockedRuns`, `PayslipsMatchPinned`, `FlagsReviewed`, `LiabilitiesBelongToRuns`, `LedgerMatchesRuns`, `ActedOnStands`, `SealedPeriodsStand` | Two employees, a claim, two runs, one scheme that accrues per run, two dates, no lock date or one between them: a claim is restored and swept again, an employee terminated between draft and lock, a flag raised against the run before, liabilities filed and remitted around a reversal, entries on and after the lock date |
| `LoanSchedule` | `PlanSumsToTotal`, `DeductionsFollowPlan`, `RepaidWithinTwiceTheTerm` | Every combination of 7 principals, 3 rates and 5 terms: exact divisions, remainders, fewer units than installments, interest rounded down, a term of zero that is refused |
| `StockCosting` | `StockMatchesMovements`, `GlMatchesStock`, `RemovalsApproved` | Two items, one of them with a default cost, two adjustments and an issue in one warehouse, unit costs 1 and 2: an average of 3/2 that rounds, a pool emptied and refilled, a document reversed at another average than it was posted at, or older than inventory accounting; approval settings changed at any point |
| `StockCounts` | `TypeOK`, `StockFollowsDocuments`, `CountsKeepLaterMovements` | One item, two warehouses, an adjustment, a transfer and a stocktake, quantities 1 and 2, lock dates before and on the documents' date: stock enough in one warehouse and not in the other, short receipts, a transfer in or out of the warehouse between a count's cutoff and its posting |
| `Approvals` | `TypeOK`, `StatusesAgree`, `StepsSigned`, `LockedTrailInOrder`, `ImplementsApprovalChain` | One leave request, one encashment, one expense and one stock document, two of them submitted; two deciding transactions; workflows of up to two steps that change at any moment. Two transactions is what a race takes, two steps what skipping one takes; 1.9 million states |
| `Recurring` | `TypeOK`, `NextFollowsLast`, `OneDocumentPerPeriod`, `CaughtUp` | Two organisations, three templates, one of them of two months, two whose numbers can collide, one document entered by hand, one crash, three days: a template more than a period behind, a day the next month lacks, job and endpoint on one template, one organisation failing before the other |
| `Purchasing` | `TypeOK`, `OrdersMatchReceipts`, `GrniExplained`, `BillsPostOnce`, `BilledReceiptsStand`, `EndedOrdersStand` | One order of two lines, two receipts, two bills, two open transactions, a tolerance of 0 or 50 %: partial receipts, two that together exceed the order within its tolerance, two drafts that fit one by one and not together, drafts that outlive their order, two bills racing for a receipt, a receipt reversed while it is billed, one bill approved, paid or voided by two transactions at once, a value that rounds, a line worth nothing; 850 thousand states |
| `Books` | `TypeOK`, `ReceivablesReconcile`, `AssetsReconcile`, `HistoryExplains`, `CustodyMatches`, `DifferenceExplained` | One invoice, two assets (one bought, whose life does not divide its cost; one owned before, whose month's part is nought until it is revalued), two people, two statement lines that fit a payment and a purchase; 2.3 million states |
| `LeaveRace` | `LeaveWithinEntitlement` (violated) | Two leave requests of a day each, one day of entitlement, two transactions |
| `PayRunTwoLoans` | `AtMostOneActiveLoan` (violated) | One employee, two loans, two runs |
| `BillApprovedTwice` | `GrniReconciles` (violated) | As `Purchasing`, with one receipt and one bill |

Bounds: run, loan and claim ids are used once each, which bounds every
behaviour; amounts are bounded by `Repayable`, dates by `Days`, `Today` and
`LockDates`. In `StockLedger` document ids are used once each too; what a line can
say is bounded by `Quantities` and `Costs`, the approval settings by `Policies`.
Run ids are a symmetry set in the payroll instances, adjustments or warehouses in
the stock instances, transactions in `Approvals`; transactions, receipts and bills in
`Purchasing`; assets, people and statement lines in `Books`. No constant tells two
of them apart. `Recurring` has a liveness property and uses no symmetry. A receipt
or an order of `Purchasing` that is deleted may be created again; `MaxRequests`
bounds `Approvals`, `Horizon`, `MaxByHand` and `MaxCrashes` bound `Recurring`, and
`MaxRevaluations` bounds the one thing in `Books` that could go on forever.

What they say about the code:

- `LoanStatusMatchesBalance`: however locks, settlements, cancellations and
  reversals follow each other, no loan is over-collected, a closed loan was lent
  and owes nothing, and an open one owes something unless nothing was lent.
- `PlanSumsToTotal`, `DeductionsFollowPlan`, `RepaidWithinTwiceTheTerm`: the plan
  adds up and is followed up to its last installment; the remainder of the division
  is what is still owed then, and is taken within as many payslips again.
- `ClaimsPaidByLockedRuns`: a claim reads paid exactly while it names a run, and
  that run is locked and paid its owner.
- `PayslipsMatchPinned`: who a run pays is settled when it is drafted.
- `FlagsReviewed`: nothing past validation has a flag nobody acknowledged.
- `LiabilitiesBelongToRuns`, `ActedOnStands`: a reversal withdraws what is
  pending and never what was filed or paid.
- `LedgerMatchesRuns`: the books hold exactly the payslips that were issued,
  each reversed once its run is; a remittance is never mirrored back.
- `SealedPeriodsStand`: on or before the lock date nothing is added to the books.
- `StockMatchesMovements`: balances and cost pools are the sums of the movements,
  and an item without stock has no value left over from rounding.
- `GlMatchesStock`: once inventory accounting is on, the inventory account holds
  the value of the stock, whenever it was switched on and whatever is reversed.
- `RemovalsApproved`: an adjustment or a count that takes stock away was approved,
  however the settings changed meanwhile.
- `StockFollowsDocuments`: what is at a place, in transit included, is what the
  documents in their present status put there. A document is posted once, a
  reversal leaves nothing behind, a short transfer leaves nothing in transit.
- `CountsKeepLaterMovements`: after a count is posted a warehouse holds what was
  counted plus what moved there since the cutoff.
- `StatusesAgree`, `StepsSigned`: whatever deciders and the administrator who
  replaces the workflow do at once, a request and its instance end up saying the
  same, and every step in force when the last decision was judged was approved.
- `LockedTrailInOrder`, `ImplementsApprovalChain`: where the document is locked
  first, the trail has one decision per step in order, and the engine is the
  chain of signatures it looks like. Neither holds of leave and expenses.
- `OrdersMatchReceipts`: an order has received what its posted receipts say, and
  its status follows, however many were drafted and reversed.
- `EndedOrdersStand`: nothing arrives on a closed or cancelled order, though a
  receipt may be drafted against one that is being cancelled.
- `GrniExplained`, `BillsPostOnce`, `BilledReceiptsStand`: but for the bills that two
  transactions decided on at once, the accrual of a receipt is cleared by one bill at
  most and never after it was reversed, a bill's net is on payables while it is
  approved, and the difference the reconciliation screen reports is zero. A transaction
  that decides too late spoils the bill it decides on and none beside it.
- `NextFollowsLast`: no occurrence is lost or made twice, with no lock on the
  templates: the number's unique index does it.
- `OneDocumentPerPeriod`: no month is skipped or doubled because of its length.
- `CaughtUp`: an organisation whose own templates are sound is eventually up to
  date, whatever other organisations' data do to the job and after a restart.
- `ReceivablesReconcile`, `AssetsReconcile`, `DifferenceExplained`: the reports are
  explained by the ledger, to the unit.
- `HistoryExplains`: the depreciation history accounts for the accumulated
  depreciation: its `unexplained_minor` is zero.
- `CustodyMatches`: row and assignments agree on who holds an asset.

## 10. Proofs

`PayRunProofs` proves, for any employees, runs, loans, claims, schemes, dates
and amounts that satisfy the assumptions of `PayRun`, and the other proof modules
for any constants that satisfy those of theirs:

| Theorem | States |
|---|---|
| in `PayRunProofs` | |
| `TypeCorrect` | `Spec => []TypeOK` |
| `LoansSound` | `Spec => []LoanStatusMatchesBalance` |
| `ClaimsPaidOnce` | `Spec => []ClaimsPaidByLockedRuns` |
| `PinnedArePaid` | `Spec => []PayslipsMatchPinned` |
| `FlagsAreReviewed` | `Spec => []FlagsReviewed` |
| `LiabilitiesHaveRuns` | `Spec => []LiabilitiesBelongToRuns` |
| `LedgerFollowsRuns` | `Spec => []LedgerMatchesRuns` |
| `ActedOnNeverUndone` | `Spec => ActedOnStands` |
| `SealedPeriodsKept` | `Spec => SealedPeriodsStand` |
| `PayrollImplementsLoanAccounts` | `Spec => ImplementsLoanAccounts` |
| in `LoanScheduleProofs` | |
| `PlanCoversLoan` | `Spec => []PlanSumsToTotal` |
| `PlanFollowed` | `Spec => []DeductionsFollowPlan` |
| `RepaidInTime` | `Spec => []RepaidWithinTwiceTheTerm` |
| in `StockLedgerProofs` | |
| `RemovalsAreApproved` | `Spec => []RemovalsApproved` |
| `StockTypes` | `Spec => []TypeOK` |
| `StockIsItsMovements` | `Spec => []StockMatchesMovements` |
| `GlIsTheStock` | `Spec => []GlMatchesStock` |
| `StockIsItsDocuments` | `Spec => []StockFollowsDocuments` |
| `CountsKeepWhatCameSince` | `Spec => CountsKeepLaterMovements` |
| in `ApprovalsProofs` | |
| `TypeCorrect` | `Spec => []TypeOK` |
| `NoStepSkipped` | `Spec => []StepsSigned` |
| `RequestAndInstanceAgree` | `Spec => []StatusesAgree` |
| `TrailInOrder` | `Spec => []LockedTrailInOrder` |
| `ChainImplemented` | `Spec => ImplementsApprovalChain` |
| in `PurchasingProofs` | |
| `BilledReceiptsKept` | `Spec => []BilledReceiptsStand` |
| `EndedOrdersKept` | `Spec => EndedOrdersStand` |
| `PurchasingTypes` | `Spec => []TypeOK` |
| `OrdersKeepCount` | `Spec => []OrdersMatchReceipts` |
| `GrniKept` | `Spec => []GrniExplained` |
| `BillsBookedOnce` | `Spec => []BillsPostOnce` |
| in `RecurringProofs` | |
| `OccurrencesInOrder` | `Spec => []NextFollowsLast` |
| `RecurringTypes` | `Spec => []TypeOK` |
| `EachPeriodOnce` | `Spec => []OneDocumentPerPeriod` |
| in `BooksProofs` | |
| `CustodyFollowsAssignments` | `Spec => []CustodyMatches` |
| `BooksTypes` | `Spec => []TypeOK` |
| `ReceivablesKept` | `Spec => []ReceivablesReconcile` |
| `AssetsKept` | `Spec => []AssetsReconcile` |
| `HistoryKept` | `Spec => []HistoryExplains` |
| `DifferenceKept` | `Spec => []DifferenceExplained` |

Assumptions are stated in the modules and evaluated by TLC on every run. In `PayRun`:
`OwnerAssumption` (each loan and claim has one owner), `AmountAssumption` (a
loan repays a whole amount in installments of a whole amount, zero allowed for
both), `DateAssumption` (dates are positive numbers, 0 is no lock date) and
`IdAssumption` (finitely many runs; per-run schemes are schemes).

In `LoanSchedule`: amounts, rates and terms are whole numbers (`TermsAssumption`). In
`StockLedger`: there are finitely many items, warehouses and documents and a
document is of one kind (`TableAssumption`), transit is no warehouse
(`PlaceAssumption`), quantities are positive and costs whole (`LineAssumption`), days are
numbers (`DayAssumption`); `RemovalsAreApproved` uses none of them. In `Approvals`:
the kinds of request are disjoint (`KindAssumption`), days are positive numbers
(`DaysAssumption`). In `Purchasing`: `LineAssumption`, `BillAssumption`, quantities and
amounts are numbers, tolerances are at most 100 % as the settings have it, lines,
receipts and bills are finitely many. In `Recurring`: `TemplateAssumption`,
`CalendarAssumption` and `CalendarGoesOn`, that the calendar reaches beyond the last day
modelled by the longest period, without which a date after it would mean nothing. In
`Books`: `BooksAssumption`, figures are numbers, a salvage value is below the cost (the
service refuses others), and the tables are finite.

**Payroll.** The argument is in three inductive invariants.

- `LoanInv`: types, `LoanStatusMatchesBalance`, and three facts it is not
  inductive without. A run that was not locked has no repayments
  (`FreshRunsRepayNothing`: otherwise a lock would overwrite rows and the balance
  would rise), a loan not granted has none (`UngrantedLoansUnpaid`: otherwise it
  could be granted already repaid), and no row exceeds its loan
  (`RepaymentsFit`: the balance is the cardinality of a set of units, and only
  then does it lose exactly the amount deducted). `OutstandingCounts` and the
  four `Units...` lemmas turn the balance into arithmetic.
- `RunInv`: types, claims, liabilities, payslips and flags together. Claims need
  `PayslipsMatchPinned`-style facts only at their own run, but a lock must know
  that its run has no payslips and no liabilities yet.
- `LedgerInv`: types, liabilities and ledger. A remittance journal must never
  belong to a pending liability, which is the second conjunct of
  `LedgerMatchesRuns`.

Each has one step per action of `Next`. The refinement theorem maps a lock and a
settlement to `Collect` of the loans really deducted from (or a stutter when
there are none), a reversal to `Restore`, and every other action to a stutter or
to `Grant` and `Cancel`.

`SealedPeriodsKept` is about single steps. The date of an entry is the period of
its run, so a step could also touch a sealed period by dating a run that has
journals anew; `LedgerInv` says that such a run is locked or reversed, and only
runs without journals are ever dated (`DatesKept`). What a step does add passed
`OpenPeriod`.

**One loan.** `LoanInv` says that after k payslips the deductions
are k installments, or all that is owed if that is less (`Upto`). The three
properties follow from that closed form and from the remainder of a division: after as
many payslips as the term, the plan's remainder is left and nothing else.

**Sums.** A balance is a sum over the rows of a table, and the sum is a fold that takes the
rows in an order nobody knows (`SumFunctionOnSet`, by `CHOOSE`). `SumTheorems` shows that
the order does not matter and what follows: the sum over one row more (`SumAdd`), with one
row changed (`SumChange`), of a part and of the rest (`SumUnder`, `SumRest`), with the rows
renamed (`SumRenamed`). The theorems of induction that the library offers take the
proposition as a parameter and are of no use to these provers; instead, each lemma takes
the subsets for which it would be false and, by the well-foundedness of strict inclusion
among finite sets, one of them that contains no smaller one (`MinimalSet`): it is not
empty, and without one of its elements the claim holds. `LeastNatural` does the same
for numbers.

**Stock.** `RemovalsAreApproved` strengthens the property from the documents posted to those
that are approved (`ApprovalInv`). A document leaves draft or counting either for
a decision or straight for approval, and the second only if it needs none;
whether it removes stock depends on its lines and its count alone
(`RemovesDepends`), never on the settings or the prices, and neither changes past
that point. That is why no change of settings can matter.

The other five theorems come from one invariant, `StockInv`. Its parts, and what each is
there for:

- `Whole`: balances and pools are the sums of the movements, and the value of a
  movement has the sign of its quantity. The second half is not in any property,
  yet the first is not inductive alone: a reversal puts stock back at the value it
  left at, and a pool could end below zero if something had left at a negative one.
  The rounded value of a part of a pool lies between zero and the pool's
  (`RoundedPart`), and a pool that is emptied gives all it has.
- `Traced`: a movement belongs to a document that went ahead, and to a step its status
  says it has taken. Movements are a set here; this is why a step never writes a row
  that is there already, and so why the sums move by exactly what was posted.
- `Reversible`: what a reversal would find of a posted document is what the document
  said, item by item. With it a reversal undoes exactly the document's lines.
- `Counted`, `Snapshots`: until a count is posted, what it expects is what its cutoff has
  seen, the cutoff's movements are still there, and from submission on every line is
  counted. `CountsKeepWhatCameSince` is the difference of two sums over movements.
- `Journaled`: a document has at most one journal for each event, and only for events that
  have happened: so a new journal adds to the account's sum, and a reversal mirrors
  one journal or none.
- `Shapes`, `Written`: the types, and that a document that is not a blank names its places.

`MovedWhole` and `MovedChanges` say what one batch of postings does to books that are
whole; every document's step is one or several of those (`Posted`, `Shifted`, `Arrived`),
and the invariant's parts follow case by case (`StepKinds`, `MovingDocs`).

**Approvals.** Every action is one of four kinds (submission, a statement that only
reads, a decision that commits, everything else), and each invariant has one
lemma per kind.

- `StepsInv` (for `StepsSigned`) adds that what a transaction has read is still
  true of the past: the steps before the one it read were signed, though the
  instance may have moved on. A commit that writes an older step back is harmless
  for that reason.
- `AgreeInv` (for `StatusesAgree`) adds that a request that was never submitted has no
  instance: a submission would otherwise meet one that was decided before. The rest
  is in the step: the commit that closes the instance closes the request.
- `StockInv` (for the other two) adds that the one transaction holding a stock
  document has read it as it is: the step is one more than the trail is long. The
  refinement maps a decision to `Sign` or `Refuse` of `ApprovalChain`, a submission
  to `Open`, and every other action to a stutter.

**Purchasing.** `BillInv` has three parts. `OneLiveBill`: a receipt has at most one bill
that is neither absent nor void, which the unique index keeps at every write, those
that revive a void bill included. `ReadsHold`: what an approval has read of its bill's
receipt stays so. The accrual never changes once posted; and while the bill is still a
draft the receipt is still posted, because a reversal asks for no bill that is not void,
drafts included. No transaction can rely on its bill's *status*, so `ClearedPosted`, that
an approved bill rests on a posted receipt, is for the bills not overtaken: there the
write finds the draft it has read, and `ReadsHold` gives the receipt. `PurchasingInv`
adds the types, that a receipt refers to an order that exists (`RefsHold`), and the
balances. Each step changes one receipt or one bill, so a sum moves by one share; a
decision that comes too late adds its bill to `overtaken`, and both sides of
`GrniExplained` move by what it cleared (`ExtraMoves`, `GrniMoves`). That what an order
has received is never below zero after a reversal is itself part of the types, and true
only because it is that sum; so types and balances are one invariant.

**Recurring.** `OrderInv` says of every open batch that an occurrence it has read is
either the template's next one still or has a document with its number, so that a
stale batch always fails as a whole; the numbers of the dates made are all in use.
`DateInv` adds that no template stands further than a period after the last day: a batch
only reads templates due today or before, so that the clock alone moves a template on. `EachPeriodOnce` is about the
calendar: the days before a month grow with the month, every day is in one month,
and `AddMonths` lands in the month it says, clamped or not.

**Books.** `CustodyInv` is `CustodyMatches` asset by asset (`Settled`) plus that an asset
not registered yet is untracked: otherwise it could be handed out, and registering it
would hand it out again. `BooksInv` has a part for each of the three books. `InvoiceInv`:
an invoice is never credited beyond its price, and not at all before it is sent.
`AssetInv`: an asset is not depreciated beyond what can be, and its history is empty
before it is bought; the batch, which changes all assets at once, moves the two
accounts by one total. `StatementInv`: a matched line names an entry that is there, of
its amount, and no two lines the same one; so the matched lines and the matched
entries have one sum (`SumRenamed`).

Only model-checked: `CaughtUp`, which is liveness under fairness and outside what the
prover does. The three violated properties are
counterexamples, for which a run is the evidence.

## 11. Where code and documentation disagree

- **Two active loans** (`PayRunTwoLoans`). `services/payroll.py:77` states "At
  most one active loan per employee — a service-level rule". A run pays loan 1
  off, the employee is granted loan 2, the run is reversed:
  `services/pay_run_lifecycle.py:352` sets loan 1 back to active without asking
  for others. From then on `active_loan` returns either, and the other is not
  collected until that one is paid.
- **Leave past the balance** (`LeaveRace`). `services/leave.py:62` says of a request
  that exceeds the balance that "it can't be" "approved past what's actually left".
  `approve_leave_request` (`:69`) adds up the approved leave with a plain SELECT and
  writes the status afterwards. Two requests have two instances and nothing in
  common that is locked: both are approved on the balance either had found alone.
- **A bill approved twice** (`BillApprovedTwice`). The architecture document lists "bill
  approval: clears `grni`" among the journals of inventory
  (`src/docs/architecture/inventory-integration.md:1129`) and says of them "Each journal
  is keyed by its source, so it posts exactly once." (`:1131`). The docstring of
  `reconciliation()` (`services/inventory_accounting.py:527`) says of the differences
  for stock and GRNI "Both differences are zero while every stock change has posted its
  journal". A bill's journal is not keyed: `approve_bill` (`services/bills.py:70`) posts
  lines without a source, for a bill read without a lock. Two approvals that both read
  the draft clear the receipt's accrual twice, and GRNI is left with a debit balance.

Two more disagreements have no run of their own, because each is about one
calculation or one call and not about an order of events.

- The remainder of a plan. `domain/payroll/loans.py:50` says of the installments that
  "the last one absorbs whatever remainder integer division leaves". Only the first
  installment is stored (`services/loans.py:49`) and each payslip deducts at most that,
  so of 5 in two installments 2 and 2 are deducted, and 1 is left for a third payslip.
  `DeductionsFollowPlan` states it: after the installments asked for, exactly the
  remainder is owed. `RepaidWithinTwiceTheTerm` bounds how many payslips it takes; a
  loan of fewer units than installments has an installment of zero, and only a final
  settlement can repay it.
- Generating again. The docstring of `services/recurring_bills.py` says that generating
  again with the same date "generates nothing further for a template that just ran". A
  call makes one document per template and moves it on by one period, so a template two
  periods behind makes another at the second call. `CaughtUp` is stated accordingly: a
  period a day.

## 12. What is not modelled

The map covers an eighth of the repository's implementation lines, and a much larger part
of it would not be a model. Over half of the rest is request and response
schemas, routes that call one function, list and report queries, renderers,
imports and migrations: reads that change nothing, or records that are created
and edited with no state behind them that another request depends on. Translating
those would give actions with no property to break. In particular:

- Amounts other than those of loans: PAYE, pension, reliefs, gross-up, the
  compliance engine and its rule packs. They are pure functions with their own
  tests. Order enters only through the year-to-date totals of cumulative PAYE,
  which is item 3 of section 13.
- Who may call an operation: role and permission checks are independent of the
  state modelled here, except that a decider may be anybody in `Approvals`.
- Several organisations: every query is filtered by organisation, and no
  operation crosses it. Only the daily job does, and `Recurring` has two.
- Reports other than the ageing, the reconciliation and the depreciation history;
  inventory queries, documents, rendering, mail and files.
- Recruitment, training, performance, shifts, attendance: records with a status and
  no shared state.
- The other two nightly jobs: the reminders, which add notifications and mark a
  contract's alert as sent, and the purge of photographs. Nothing modelled reads
  what they write.
- Disbursement files: output of a locked run.
- Overlapping requests in payroll, on stock rows, and in `Books`; they are in the list
  of hazards and in section 13.
- Journals entered by hand (`services/general_ledger.py:100`). They may name any account
  of the chart, and so move inventory, GRNI, payables, the receivable and the asset
  accounts without a document. `GlMatchesStock`, `GrniExplained`, `BillsPostOnce`,
  `ReceivablesReconcile` and `AssetsReconcile` speak of what documents post: with
  entries by hand on those accounts, each would be off by what they add up to.
- Lots and expiry of stock; unit conversions.

## 13. What comes next

Built so far, in the order of the plan: the payroll core and its proofs, the stock
documents, approvals, purchasing and bills, the daily job, the small books; every
safety and action property a passing run checks is also a theorem (section 10). What
is left, in order of what it would add:

1. **PayRunRaces** — the payroll transactions split between their reads and their
   commit: the same run locked twice, two runs sweeping one claim, a liability
   filed during a reversal.
2. **StockLocks** — postings split at their row locks: lock order over cost pools and
   balances, `receive_transfer`'s two lock rounds
   (`services/inventory_transfers.py:363`), and the switch read without a lock
   (`services/inventory_accounting.py:343`).
3. **Payroll arithmetic** — cumulative PAYE over months in and out of order,
   checked against a reference definition.
