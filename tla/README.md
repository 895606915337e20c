# NOORIX: a formal model of the accounting core

NOORIX is a multi-tenant accounting and operations system for restaurants and
shops: a NestJS/Prisma server over PostgreSQL (`src/backend`), a React client
(`src/src`) and two shared packages (`src/packages`). This directory holds TLA+
modules of the parts of the server that move money, the TLC configurations that
check them, and TLAPS proofs about all of them. Comments and messages of the
code are in Arabic; where a comment is quoted, a translation is given.

## 1. The system

Every operation of the server is an HTTP request served by a service method.
What makes the system hard is common to all of them:

* **Transactions.** `TenantPrismaService.withTenant` opens one PostgreSQL
  transaction at READ COMMITTED with a 30 s timeout. Each statement sees what
  is committed when it starts. Nothing is locked by a read, so a condition read
  by one statement may be false when a later one writes. What is decided at the
  write is a unique index, or the condition of an `updateMany`.
* **Retries.** `withRetry` runs a transaction again after P2034 (deadlock or
  serialization failure) at most `RETRY_MAX` = 3 times in all. P2002 (a unique
  index) is never retried; some services look the winner up instead.
* **Repeated requests.** Clients repeat a request with an idempotency key after
  a timeout. Transfers and loans keep the key in their own rows under a unique
  index; sales and outflow invoices go through `IdempotencyService`, which keeps
  results in a table and operations in flight in a map of the process.
* **Processes stop** between any two statements; what was not committed is gone.

### Components

| component (source under `src/backend/src`) | state | operations | hard behaviour | what makes it correct | module |
|---|---|---|---|---|---|
| fiscal periods (`fiscal-period`) | rows with dates and a status | create, create default, close, reopen; the check of every posting | overlap check and insert are two statements | one period decides about a day; closing a period shuts its days | `FiscalPeriods` |
| vaults (`vaults`) | rows: account code, active, archived | open, archive/restore, remove | next code computed from a read; flags written from a read | codes distinct; a removed vault holds nothing | `Vaults` |
| ledger, balances (`vault-balance`, `financial-core`) | append-only double entries, active or cancelled | post, cancel by document, balance | written by every other part | balances follow the documents | `Ledger` |
| vault transfers (`financial-core/financial-transfer.service.ts`) | vouchers, their ledger entries | post, reverse, replay | retries, two reversals at once, collisions on two indexes | a key posts once; reversals pair; the book of balances | `VaultTransfer`, `TransferBook` |
| idempotency (`idempotency`) | table of results, map in flight | run once, expire, clean up | an awaited lookup, several processes, crashes | one execution at a time; true answers | `Idempotency` |
| loans (`loans`) | loans, payments, linked legacy invoices | open, pay, reverse, link, convert | payments that fit alone but not together; two conversions at once | debt = opening less paid = ledger; conversion moves no money | `Loans` |
| daily sales (`sales`, `financial-core/financial-inflow*`) | summary, channels, sale invoice, entries | create, batch, update, change shift, cancel | update against cancel and update; count-based numbers | no sale missing, numbers distinct, invoice mirrors summary | `SalesSummary` |
| outflow invoices (`financial-core/financial-outflow*`, `invoice`) | invoices, vault splits, serial numbers, entries | post, batch, edit, rebuild entries, cancel | batch keys stored without the map; edits decided from a row read before; numbers that are counts | entries follow the invoice through every edit; serial numbers have no gap; a supplier's number is on one active invoice | `OutflowInvoices`, `PurchaseDebts` |
| purchase debts (`purchase-debts`) | records pending, promoted, cancelled | create, amend, cancel, restore, promote | rows locked one by one; promotion against amendment and cancellation; retries that lose a race | a debt is promoted while its invoice stands, and only then | `PurchaseDebts` |
| cancellation (`financial-core/financial-cancel.service.ts`) | the status of documents and entries | cancel an invoice, a sale, a salary, an advance | races with updates, conversions, settlements | a cancelled document leaves nothing | in `SalesSummary`, `Loans`, `PurchaseDebts`, `Payroll` |
| payroll and advances (`hr`) | runs, advances, settlements, salary invoices, entries | draft, edit, approve, pay, pay a supplement, delete, cancel a salary or an advance | everything but approval writes what an earlier read decided; deletion takes several transactions | one accrual, one payment, one settlement; books say what the tables say | `Payroll` |
| orders V4 (`orders-v4`) | inventory and custody ledgers with running balances, documents, price history, replies | prepare, receive, correct, reverse, restore, register, amend, count stock | advisory locks, reversals of reversals after later postings, retries after corrections | the chain of balances; each document's effect once or not at all | `StockLedger`, `OrdersDocuments` |
| backup (`backup`) | jobs, archives | scheduled export, import, restore | a job against the next minute | mostly I/O | not modelled |

The other parts (HR records, bank statements, chart of accounts, tax planning,
reports and dashboards, audit, users and roles, companies, assets, suppliers and
categories, chat, the web client, deployment) are listed in `PROJECT.json` with
the reason each is left out: they only read, hold rows no second actor depends
on, or parse text.

### How the components interact

A posting reads the period of its date (`assertPeriodOpenForDate`) and the vaults
it uses, then writes its document and the ledger entries in one transaction. No
call goes back: periods and vaults never look at the documents, except that
removing a vault counts its ledger entries. So each finance module
(`VaultTransfer`, `Loans`, `SalesSummary`, `PurchaseDebts` through `OutflowInvoices`,
`Payroll`) EXTENDS `FiscalPeriods` and `Vaults` (which EXTENDS `Ledger`). In the first
two `Next` interleaves the requests with the administrators of periods and the
clerks of vaults, in `SalesSummary` with the administrators only; in the last two
periods and vaults are chosen freely at the start and stay, so that the runs can
afford more requests.

Orders V4 keeps books of its own, in quantities and custody money, and posts
nothing to the money ledger; `OrdersDocuments` EXTENDS `StockLedger` only. What it
takes from the rest, the cash sales of the shop, is a constant.

## 2. The modules

**How a request is written.** A request is a record in a function of `Attempts`
with a program counter `pc`. Each statement whose answer is used later is one
action: it reads the shared tables and records what the code keeps in local
variables. All writes of a transaction are one action, the commit, guarded by
what the database decides then: unique indexes and conditions of the writes. The
error paths are actions of their own (`Collide`, `LoseNumber`, `Conflict`,
`Crash`). A retry starts from the first read again. The position of a row in a
sequence stands for its id; a day is a number, in order.

* **`FiscalPeriods`** (`fiscal-period.service.ts`). `CreateCheck`/`CreateWrite` are
  `assertNoOverlap` and the insert, `CloseRead`/`ReopenRead`/`StatusWrite` the read and
  the update by id, `OpenOn` is `assertPeriodOpenForDate` (a day without a period is
  open; otherwise the row with the latest start decides). The
  number of rows is bounded by `PeriodIds`. Locked rows, which no operation of
  the service produces, may exist from the start.
* **`Ledger`** (`vault-balance.service.ts`, the entry table). Posting, cancelling by
  document, balances of active entries.
* **`Vaults`** (`vaults.service.ts`). Two steps per operation: the code or flag read,
  then the write. Names, ordering and sales-channel switches are left out:
  `showAsPaymentMethod` and `isSalesChannel` are folded into `Usable`.
* **`VaultTransfer`** (`financial-transfer.service.ts`). `FindByKey`, `ReadOriginal`,
  `CheckPeriod`, `CheckEndpoints`, then `Commit`, or `Collide` and `Resolve` (P2002 and the
  lookup of the winner), `Conflict` (`withRetry`) and `Crash`.
* **`TransferBook`** is its abstract specification: per key what took effect (`moved`,
  `undone`, `undoing`) and a balance per vault. A movement happens once per key and
  is undone at most once. `VaultTransfer` refines it with `movement` and `balance`
  computed from vouchers and ledger (`Book`, `ImplementsBook`).
* **`Idempotency`** (`idempotency.service.ts`). `Lookup` is the awaited query, which
  leaves a call in `resume`; `ReturnStored`, `Join` and `Run` are the synchronous rest;
  `Execute`, `Store`, `Finish`, `Reject` and `Settle` the operation, the upsert, the
  `finally` and the shared promise. `Crash` empties the map of one process;
  `MaxLosses` bounds failures, crashes and expiries together.
* **`Loans`** (`loans.service.ts`, `financial-loan-ledger.util.ts`). `CommitPayment` carries
  the condition of the conditional decrement (`Covers`), `CommitReversal` and
  `CommitConversion` the unique indexes on `reversalOfId` and `sourceLedgerEntryId`. A
  legacy invoice that becomes a payment has a key made of the loan and the entry
  (`LegacyKey`). `ReadRows` merges the three reads of rows, invoices and entries into
  one, and a legacy invoice has one entry; accounts are constants. Loans have no
  `withRetry`.
* **`SalesSummary`** (`financial-inflow.service.ts`, `sales.service.ts`). A summary carries
  its channels (an amount per vault) and its sale invoice. `DrawNumber` counts the
  numbers of the day; `FindEntries` is the statement of an update that cancels the
  old entries: it fixes which entries those are, before anything another
  transaction commits later. `CommitUpdate` writes the row by its id without a
  condition. `CommitCancel` is one step: it takes the row of the summary before it
  looks for entries, and every update takes the same row before it can commit. The
  VAT switch of the company is a free choice per transaction; `VatRate` is a constant in
  percent and amounts are in halalas. The idempotency wrapper around creation is
  the subject of `Idempotency`.

* **`OutflowInvoices`** (`invoice-serial.ts`, `financial-outflow*.ts`, the update of an
  invoice). The table of purchase and expense invoices and the writes on it:
  `Serial` counts the numbers of a prefix and day (`PREFIX_BY_KIND`: expenses and
  fixed expenses share one, and so one series), `Insert` is refused by the two
  unique indexes, `Replaced` deletes the active entries of a changed invoice and
  posts them anew (a deleted entry keeps its position, which is the id of the
  others), `Redated` only moves them, `Scaled` distributes a new total over the old
  splits with the rounding of the code, which may leave the last of many splits
  below zero. `DedupKey` is the column the supplier's number is guarded by, kept
  beside the number because the code computes it apart.
* **`PurchaseDebts`** (`purchase-debts.service.ts`, `invoice.service.ts`) has the
  requests that call those writes. A batch that promotes debts reserves their rows
  one by one (`Reserve`), which locks them until it ends; requests that write a
  locked row wait for it, and a cycle of waiting batches (`Circle`) is broken by the
  database (`BreakDeadlock`); which positions of its items a batch holds so far is in `held`.
  `WriteEdit` decides from the row `ReadOld` saw. Cancelling an invoice gives its debt
  back (`Reopened`). An edit can set a cancelled invoice active again, which gives it
  neither its entries nor its debt: the history variable `revived` names those
  invoices, and the properties about entries and promotions leave them out.
* **`StockLedger`** (`orders-v4-calculation.kernel.ts`, `orders-v4-funds.kernel.ts`, the
  posting services). A posting is a fold of movements over the balances read under
  the locks; each row keeps the balance after it. Quantities and money are
  integers, a unit cost counts `Parts`-ths of a unit of money, and divisions round
  half away from zero. A negative balance is revalued by the next receipt.
* **`OrdersDocuments`** (`orders-v4-documents.service.ts` and the services it calls).
  A transaction takes its advisory locks one by one (`Acquire`), reads the balances
  under them (`ReadBalances`) and writes everything in one step. Reversing a document
  reverses its rows; restoring it reverses the reversal. Every request has a date,
  which a receipt or a correction chooses freely, so documents may be recorded
  out of the order of their dates: `DateOf` is the date of a document, and the
  price history, the cash available on a day (`CashAvailable`), the last five
  prices and the lock of a section depend on it. A receipt writes its prices as the
  last ones whatever its date; corrections and reversals look for the newest by date,
  then by the order of writing (`Refreshed`, `Latest`). Answers are kept under
  the key of an operation and expire. An item without a price has `NoPrice`. What a
  request may ask (`OrdersConstants`) and which orders exist before (`OldOrdersPrepared`)
  are assumptions: positive quantities bought, prices and quantities never negative,
  as the validation of the requests has it.
* **`Payroll`** (`hr-payroll-run-lifecycle`, `-run-issue`, `-advance-settlement`,
  `-individual-payment`). The items of a run are summed up in its content: the net
  pay and what is taken of each advance. Deleting a paid run is `ListSalaries`,
  `CancelOfRun` and `ReadSettlements`/`FinishDelete`, which are transactions of their own with an
  interruption possible between them.

`MC*.tla` instantiate the service modules with small sets; `FiscalPeriods` and
`Idempotency` need only the constants of a configuration. An operator marked as a mutant in a
comment is a wrong version of the definition after it, such as a bug in that
code could produce; replacing the one by the other must make the property
listed with it in `PROJECT.json` fail. It is part of no specification.

**Conditions on overlap.** Where the code checks in one statement and writes in
another, the promise it makes holds only while nobody else runs into the window
between the two. Such a property is stated with that condition, and the
condition is as narrow as the code allows: `[]P => []Q` with `P` on the requests
under way (`SequentialNoOverlap`, `SequentialClosingShuts`, `RemovalAloneIsSafe`), or `apart => Q`
where `apart` is a history variable that turns false once two requests on the *same*
summary, shift, invoice, run or advance were both between their read and their
write (`LedgerMatchesSales`, `OneSummaryPerShift`, `ApartEditsKeepBooks`,
`ApartRunsKeepBooks`). Requests on different things overlap freely in all of them.

## 3. Runs

| run (cfg) | bounds | shows |
|---|---|---|
| `periods` (FiscalPeriods) | 4 days, 3 rows, 2 administrators | `OneGovernor` under every interleaving; `SequentialNoOverlap`, `SequentialClosingShuts` |
| `transfer_requests` (MCVaultTransfer) | 3 requests of 8 payloads, 2 vaults, 2 days, 2 runs each, 1 period, 1 administrator | a key is applied once, replies are the request's own, reversals pair, balances match vouchers, refinement of `TransferBook` |
| `transfer_vaults` (MCVaults) | 2 requests, 2 vaults to open, 2 clerks | every accepted request is answered; a removal that no request runs into is safe |
| `idempotent_calls` (Idempotency) | 2 processes, 3 calls, 2 keys, 2 losses | one execution per key and process at a time, shared only while it runs, true answers, no repetition while nothing is lost; every call returns |
| `loan_requests` (MCLoans) | 3 requests of 10 payloads, perhaps a loan from before, 2 legacy invoices of which one may be cancelled, 1 clerk, 1 administrator | debt, payments and ledger agree, one opening entry, conversion moves no money |
| `sales` (MCSales) | 3 requests of 8 payloads, 2 days, 3 shifts, 2 channels, VAT 50 %, 1 administrator | no sale missing, invoice mirrors summary, numbers distinct; apart: the ledger carries every sale exactly, one summary per shift |
| `purchase_debts` (MCPurchaseDebts) | 3 requests of 15 payloads, 2 debts, 1 invoice from before, 3 vaults, 3 kinds of which 2 share a prefix | serials without gaps, a promoted debt has its invoice, retried promotions find their answer, promotion is final, deadlocks only of batches in different orders; apart: books follow the invoices |
| `purchase_batch_retry` (MCPurchaseRetry) | 2 requests, the same batch | refutes: a batch with a key is recorded once |
| `orders` (MCOrders) | 4 requests of 11 payloads, 2 orders, one of them back-dated, 2 items, 2 days, costs in tenths | ledgers chain, effects match statuses, each last price is that of a purchase still received, deadlocks only by amendments, retries are not refused |
| `orders_cash` (MCOrdersCash) | 4 requests, 2 orders, cash for one | refutes: cash orders stay within the cash sales |
| `payroll` (MCPayroll) | 2 requests at a time and any number after one another, 2 rows of runs, 2 months, 1 advance of 3 | one accrual, one payment, one settlement; advances not settled beyond their amount; apart: books match |
| `payroll_reissue` (MCPayrollReissue) | the same | refutes: a run that is completed and not paid can be paid |

The type invariants of the other modules are theorems and are not run again;
`orders` checks its own, where the type holds the interesting fact that stock may
be negative but its unit cost may not.

**Why the bounds are enough.** The interesting cases are races of two requests
about one row, and a third that observes or repeats; with three or four
attempts, two keys per kind of request and payloads that agree in the key and
differ elsewhere, every collision path fires. Three periods suffice to overlap
in all ways. Two vaults are the smallest number between which money moves; two
channels with amounts that round differently alone and together (at a rate of
50 % the tax of 4 and of 1 is 1 and 0, of their sum 2) test the split. `RetryMax`
is 2 instead of 3: one repetition reaches everything a second does. Two debts
promoted in both orders are the smallest deadlock; two items, locked upwards and
downwards, the same for stock. Four requests on one order are a receipt, its
reversal, its restoration and a retry of any of them. An advance of 3 of which a
run takes 2 or 1 can be taken twice or only once. Payroll needs no bound on the number of
requests, because a finished one leaves nothing but its rows, so that its runs
reach reissues after cancellations and interrupted deletions. Symmetry is used
for the requests only, which the specifications never order, and never in a run
of a liveness property.

`CHECK_DEADLOCK FALSE` is set in the runs because a behaviour really ends: every
request has been answered and the bounded set of requests is used up. The
`orders` run does check deadlock: there `Finished` stands for rest, so a state in
which a request waits for a lock nobody will release would be found.

**Fairness.** `VaultTransfer` and `Idempotency` assume weak fairness of each request's
own next step, as the event loop and the database give it: an awaited statement
is answered or fails (30 s timeout). No fairness is assumed of clients, administrators,
crashes or conflicts; a request is answered although it may conflict, because
its runs are counted. In `Idempotency` a call whose process crashed is lost
with its connection and counts as ended. In the modules with locks waiting is
looked at as safety: which transactions can wait for each other in a circle
(`DeadlocksNeedDisorder`, `DeadlocksOnlyByAmend`). That a circle ends is the
database's doing and no property of the code.

## 4. What the runs found

Three runs refute what a comment or a document of the repository says;
`PROJECT.json` ("findings") quotes each.

1. A batch of invoices sent again with its key is posted again: the hash of the
   key covers an identifier drawn for each request
   (`financial-outflow.service.ts:123`). Batches of debts are safe, because they look for
   their own promotions (`PromotionFoundAgain`).
2. Restoring a reversed cash order asks nothing of the cash
   (`orders-v4-document-reversal.service.ts:164`), against
   `docs/ORDERS_V4_IMPLEMENTATION.md:92`.
3. Once the salary invoice of a run is cancelled, the run cannot be paid again:
   the cancelled invoice keeps the number (`hr-payroll-run-issue.service.ts:152`),
   against `docs/NOORIX_COMPREHENSIVE_REPAIR_PLAN.md:23`.

Three more disagreements can be read off the code. The models contain them, and
the properties are stated so as to say what holds in spite of them.

* Expenses and fixed expenses draw their numbers from one series, because both
  have the prefix `EXP` (`invoice-serial.ts:13`), although the comment at line 9 has
  a series for each kind: the numbers of neither kind are 1, 2, 3. What holds is
  that the series of a prefix and day has no gap (`SerialsGapless`; the run has
  an expense and a rent of one day).
* A receipt as of an earlier day becomes the last price of its items
  (`orders-v4-documents.service.ts:835`), while corrections and reversals look for
  the latest price by date (`orders-v4-document-reversal.service.ts:262`): "the last
  received price" (`docs/ORDERS_V4_IMPLEMENTATION.md:27`) may be the last one recorded
  for one item and the latest by date for another. What holds is that it is one of
  them for each, and of a purchase that is still received (`LastPriceFollows`; one of
  the two orders of the run is back-dated).
* A cash receipt is checked against the cash orders up to its own day only
  (`orders-v4-documents.service.ts:759`), so one as of an earlier day does not see the
  cash that was spent later, against `docs/ORDERS_V4_IMPLEMENTATION.md:92` too.

The conditions in the other properties have one cause, a check and a write in
two statements. Without the conditions TLC shows: two creations at once store
overlapping periods (`fiscal-period.service.ts:143`); a posting that found its period
open commits after the closing (`financial-transfer.service.ts:181`); a vault counted
empty is deactivated after a transfer reached it (`vaults.service.ts:428`); two calls
with one key both execute if the lookup of the second straddles the end of the
first (`idempotency.service.ts:63`); a legacy invoice cancelled during its conversion
takes its money out again (`loans.service.ts:112`); two clients save a shift twice
(`financial-inflow-summary.util.ts:20`) or leave the entries of two updates both active
(`financial-inflow.service.ts:309`); an edit that repeats the old total overwrites a
concurrent one and leaves the ledger (`invoice-update-in-transaction.util.ts:122`); two
payroll runs that share an advance lose one of the two deductions
(`hr-payroll-advance-settlement.util.ts:141`).

The properties that hold next to them say how far the damage goes: however
administrators interleave, one row decides about a day; numbers stay distinct
even when a shift is saved twice; no interleaving loses a sale of an active
summary; an advance is never settled beyond its amount; a loan's debt and the
ledger never part.

## 5. Proofs

The runs show a property on a small instance; the theorems below show it for
every number of requests, rows, vaults, days and keys, from the assumptions that
the modules name (`DaysAssumption`, `VaultsAssumption`, `PayrollConstants`, ...), which
TLC evaluates in the runs. Each proof follows one pattern: a strengthening `Inv` of the
property with `Init => Inv`, one lemma per action for `Inv /\ Next => Inv'`, and a
last temporal step.

* **`VaultTransferProofs`**, which covers the fiscal periods too. Periods: types and
  `OneGovernor` are inductive together, since an insertion is refused by the index when
  a period starts on the same day; the `Sequential...` theorems carry along what the one
  pending administrator has read (`PendingFits`). Transfers: `TransferInv` is what requests, vaults and periods know
  and that an original stays the one that was read (`OriginalsKept`). With
  `BalancesMatchVouchers` it makes `BookInv`, under which each step maps to a
  movement, an undoing or a stutter of `TransferBook` (`ImplementsBookHolds`).
  `RemovalAloneIsSafe` needs to know that a voucher's vaults have entries
  (`RemovalsSafe`): a reversal does not ask whether they are still in use.
* **`LedgerProofs`.** Sums over finite sets: a sum does not depend on the order
  (`SumRemove`), splits over disjoint sets (`SumOfUnion`), follows a renaming
  (`SumRenamed`), and what a posting does to a balance (`PostMovesBalance`). A balance
  is a fold, and induction over it is done by a smallest counterexample among the
  subsets of a finite set (`SmallestSet`).
* **`IdempotencyProofs`.** Every execution under way is in the map of its process;
  every answer, promise and stored row stands for an execution of its key. The map
  holds a call exactly while it executes (`MapHoldsExecuting`), so nobody is told of a
  failure that was over before they asked.
* **`SalesSummaryProofs`.** Three layers. In the first the numbers a request has drawn
  increase, so a batch cannot collide with itself, and a summary and its invoice are
  written together. `Booked` adds, whatever overlaps, what each request knows (`Knows`)
  and that no sale of an active summary is missing. `Told` holds as long as requests on
  one summary are apart: what a running request read still is so (`Trusts`), there is
  one summary per shift (`OneEach`) and every summary is settled exactly (`AllSettled`).
  A step writes entries of its own summaries only (`Touches`), so the others' knowledge
  stays (`TrustsStays`). The sums rest on two facts: the lines of a sale are a set
  posted in some order (`SaleIsBooked`), and what a table keeps when entries are
  appended or cancelled (`JoinedCarries`, `CancelledLoses`). Assumed of the constants:
  the accounts of revenue and VAT differ, there are finitely many vaults, no day is 0
  (which stands for a day left out of an update).
* **`PurchaseDebtsProofs`.** `Courses` says where each request stands and what it holds: a
  row reserved by one batch is reserved by no other. In a circle of waiting batches
  the one that waits for the debt ranked first would be waited for by one that has
  passed it (`NoCircleInOrder`), so some batch lists its debts against any ranking. Every step has one of a few
  shapes (`Shape`: it is quiet, writes debts, inserts invoices, changes one, or
  cancels one with its debt), and each invariant is shown once per shape. `Numbering`:
  the numbers of a prefix counted so far and drawn by a batch have no gap. `Promotion`: the
  debt of a position is reserved until its invoice is inserted with it. `Answered`: an
  answer stays what `Promotions` finds while its invoices stand. `Books`, as long as
  edits are apart: the entries of each invoice are its splits, which the proof follows
  through rebuilds, scaling and dates. Amounts need nothing but that scaled splits
  add up, which the last split ensures.
* **`LoansProofs`.** `Sound` says how tables agree and, for a request in progress,
  how what it read can have become outdated: another conversion may have replaced the
  opening entry it saw, but then the unique index on the source entry refuses it
  (`SightHolds`, `Current`, `Overtaken`, `Nested`). `Left` and `LedgerCarriesDebt` are sums
  over it. For `ConversionMovesNoMoney`, the entries of an invoice that stands are still
  the active ones the conversion read (`StandingPosted`), so what it cancels and what it
  posts take the same amounts out of the same vaults (`SumSwapped`).
* **`PayrollProofs`.** `Certain` holds however requests overlap: which document an
  active entry is about (`EntriesTold`) and that no two are about the same
  (`EntriesSingle`), whence one accrual per run, because the claim of an approval finds a
  draft and a draft has no entry. What a request settles or gives back never exceeds the
  advance it read, and that bound survives any overlap, although the amount read
  need not. `Told` is what holds besides as long as requests are apart: what a request
  read is still so (`Sees`), each run has the accrual, payment and deductions its status
  says (`RunTold`), and what is settled is what was deducted (`AdvancesTold`). A write
  changes its own run and advances only (`Changes`), so the others' `Sees` stays, and the
  two balances follow by counting entries against rows (`TotalOfList`).

* **`OrdersDocumentsProofs`.** `TypeInv` adds to the types what each request holds at
  each of its steps (`AttemptOK`, `ReadOK`) and, for the locks, that they are the ones of
  the model. The folds of a posting are followed row by row (`Runs`), by a smallest
  counterexample among the prefixes. Every step is of one of a few kinds (`StepKind`: it
  submits, takes a lock, takes locks to wait for, reads balances, gives up, writes
  documents only, or commits). `LocksInv`: the locks a request still waits for come, in
  one fixed order, after all those it holds, unless it amends a registration; in a cycle
  the request waiting for the first lock of the order would wait for one that is held
  by a request which waits for an earlier one (`NoCycle`). With the same invariant a request
  that writes holds the locks of all items it touches (`Guards`), hence no other one
  is about to write them (`Apart`), what it saw is the last balance (`SeenInv`), and its rows
  continue the ledger (`ChainsInv`). A request about a document holds the window lock from
  its reads to its writes (`WindowInv`), and only such requests change a document that
  exists, so what it found out is still true when it writes (`InformedInv`): a receipt
  finds its order still prepared, without prices of its own (`HistoryInv`), and the last
  prices follow by one lemma over what a step does to documents and prices (`Repriced`).

  That each document's effect is in the books once or not at all needs more than the
  sum of its rows, because the next reversal takes back rows and not a sum. `BooksGood`
  says which rows those are: a reversal of a reversal makes a chain, the head of a
  document's chain is its latest link (`EffectHead`), and the rows at the head carry the
  document's effect while it is received, the opposite once it is reversed, and nothing
  before. No chain forks (`Unforked`), so only the document's own reversals and
  restorations move its head; that the head exists is induction over a finite chain,
  again by a smallest counterexample. `SureInv`: what a request read of head and rows stays
  so until it writes, as whoever could move the head waits for the same window lock.
  What a posting adds to each document's rows is followed through the fold (`Added`,
  `Traced`, `Posting`), and one lemma serves all operations (`BooksStep`).

  That a repeated request is not refused rests on what remains of a request once it was
  carried out (`CarriedOut`): the document it filed, found by its key, or the order that
  keeps which receipt it was received with. `RetryInv` says that every request that is
  done, and every one whose answer is kept, was carried out (`DoneInv`, `RepliesInv`) and
  that no two documents have one key (`KeysInv`). No later step takes that away (`Remains`), and one that refuses
  a request finds it not carried out, or has the excuse the property names (`Treats`,
  proved action by action). `RetriesNotRefused` assumes `KeysOfOneRequest`: one answer is
  kept per key, so a client that sent two different receipts or corrections under one key
  could have the answer of one kept, and the other, though carried out earlier, refused as
  a different request. The client draws a fresh UUID whenever one is submitted
  (`OrdersV4DocumentsTab.tsx:601`), and `MCOrders` checks the assumption of its requests
  (`RequestsHaveTheirKeys`).

  The definitions of these invariants are in `OrdersInvariants`, which adds no state and
  no action to the model.

| theorem | states |
|---|---|
| `PeriodTypesHold`, `OneGovernorHolds`, `LockedAndDatesHold`, `SequentialNoOverlapHolds`, `SequentialClosingShutsHolds` | one period decides about a day; locked periods and dates stay; one request at a time keeps periods apart and closed ones shut |
| `TransferTypesHold`, `KeyAppliedOnceHolds`, `ReplyIsOwnHolds`, `ReversalsPairedHolds`, `CodesDistinctHolds`, `VouchersImmutableHolds`, `BalancesMatchVouchersHolds`, `ImplementsBookHolds`, `RemovalAloneIsSafeHolds` | transfers and reversals happen once; balances are what the vouchers say; refinement of the book; removed vaults are empty unless a request overlaps the removal |
| `IInvHolds`, `OneInFlightHolds`, `SharedWhileRunningHolds`, `AnswersAreRealHolds`, `RepeatNotExecutedHolds` | one execution at a time, shared only while it runs, true answers, no repetition without a loss |
| `SalesTypesHold`, `NumbersDistinctHolds`, `InvoiceMirrorsSummaryHolds`, `SalesNeverMissingHolds` | numbers of sales and their invoices; no interleaving loses a sale |
| `LedgerMatchesSalesHolds`, `OneSummaryPerShiftHolds` | while requests are apart the ledger carries every sale exactly, and a shift has one summary |
| `TypeCorrect`, `NumbersWithoutGap`, `OrderedBatchesNeverDeadlock`, `PromotedHaveInvoices`, `PromotionStandsAlone`, `PromotionsFoundAgain` | serial numbers of a prefix without gaps; batches in one order never deadlock; a debt is promoted while its invoice stands, and found again by retries |
| `BooksOfApartEdits` | while edits are apart, entries follow the invoices and a supplier's number is on one active invoice |
| `LoanTypesHold`, `PaymentsRecordedOnceHolds`, `OneOpeningEntryHolds`, `OutstandingHolds`, `LedgerCarriesDebtHolds`, `ConversionMovesNoMoneyHolds` | debt, payments and ledger of all loans agree; a conversion moves no money |
| `PayrollTypesHold`, `AccruedOnceHolds`, `SettledWithinAdvanceHolds`, `ApartRunsKeepBooksHolds` | one accrual and payment per run; advances not settled beyond their amount; runs, advances and ledger agree while requests are apart |
| `OrdersTypeCorrect`, `DeadlocksNeedAnAmend`, `LedgersAlwaysChain`, `LastPriceAlwaysFollows` | types of the tables of orders; no deadlock without an amendment; both ledgers chain; each last price is that of a purchase still received, the latest by date or the last recorded |
| `EffectAlwaysMatchesStatus` | however often a document is received, corrected, reversed and restored, the two ledgers hold what it moves and pays exactly while it is received |
| `RetriesNotRefused` | a request that was carried out is not refused when it is sent again, under keys that belong to one request each |

**Only model-checked:** liveness (`EveryRequestAnswered`, `EveryCallReturns`), which is
out of the prover's reach, as is what a recursive definition computes for every
input. The other 38 of the 40 properties that the passing runs check are stated
by a theorem.

## 6. Not modelled

* **Data.** Texts, names, notes, audit rows, list queries and permissions. There
  is one company: every query of the code filters by company, and row level
  security repeats it. Sales are in halalas; further decimals are not modelled.
* **Transactions.** A timeout or a lost connection is `Crash`, `Conflict` or `Abort`;
  other isolation levels than READ COMMITTED do not occur in the modelled services.
* **Daily sales.** Cash on hand, customer counts, the day context.
* **Loans.** The expense line that migrating archives.
* **Outflow invoices.** Tax and notes of an invoice; a single creation is a batch of
  one; edits of salary and advance invoices.
* **Payroll.** The cancellation of an advance through its invoice (reference type
  `invoice`), which skips the check that nothing of it was settled; deferral and dates of advances, deductions without explicit
  selections, splits of a payment over vaults, the salaries paid
  individually before runs existed.
* **Orders V4.** The dates of the ledger rows, which no balance depends on: balances
  chain in the order of writing. Two prices of one date are taken in the order of
  writing, as rows are written under the window lock; the code compares
  `createdAt`. Which dates staff and cashiers may choose: any. Catalog, units and conversions, cutover and unit rebasing,
  reopening a document for an edit, reports.
* **Left without a property.** A linked invoice that is cancelled before it is converted
  blocks the conversion of its loan for good (`loans.service.ts:109`): the code
  refuses by design. `vaults.service.ts:228` (two vaults drawing one code) is decided by
  a unique index and is proved as `CodesDistinctHolds`.
* **Components.** Backup and restore (jobs over archives, mostly I/O), HR records
  and leave (rows of one actor each), bank statements (text heuristics),
  accounts (a fixed chart), tax planning, reports and audit (read only), users
  and roles, companies, assets, suppliers and categories (master data), chat, the web
  client and deployment. `PROJECT.json` lists each with its sources.

The implementation has some 180 000 lines, most of them the client, reports,
translations and scripts; the modules translate the part of it that moves money
and stock between several actors.

## 7. Plan

In this order: the scheduled jobs of backup as state (a job that overlaps the
next one, a restart between marking and running); leave balances of
employees, where they meet payroll.
