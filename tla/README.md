# Money Jungle: a TLA+ model

Money Jungle is a personal finance application: an Express server over MySQL
(through Prisma), a React client, one Node process. It takes bank statements,
card reports and expense sheets as files or by signing in to a bank's website,
decides what every row means, and shows what is owed and what is left to spend.
This directory holds TLA+ modules of the server, of the files it reads and of
the pages that show it, the configurations TLC checks them with, and theorems
about them that TLAPS checks. Paths below are relative to `backend/src/` unless
they begin otherwise.

The modules model *control*: every change of stored or in-memory state, its
guards and early returns, and the order of the awaits between them. Names,
amounts, wording and layout are constants with few values; a word in a file is
the role it plays for the code that looks for it.

## 1. The system

### Components and the state they keep

| Part | Code | State | Modelled by |
|---|---|---|---|
| Financial transactions | `config/database.ts`, `utils/asyncHandler.ts` | the row lock on `users`, the `AsyncLocalStorage` context, deferred effects, the held response, `FinancialProfile.revision` | `FinancialTransaction` |
| Import sessions | `modules/imports/` | `ImportSession` (status, version, answers, preview, result), `ImportRow`, the file's bytes | `ImportSession`; what is read of the file: `SheetFile` |
| Documents | `modules/documents/` | `Document` (status, import it belongs to), bytes shared with sessions | `DocumentStore` |
| Bank statements | `bankParser.service.ts` | none, a function of the file | `StatementFile` |
| Bank reconciliation | `modules/bank/` | `BankTransaction` (kind, resolution, links), `BankStatementImport`, incomes and expenses made from rows | `BankLines`, `Reconciliation` |
| Account balance | `accountBalance.service.ts` | anchors, the stored balance | `AccountBalance` |
| Card reports and wallet | `modules/credit/` | `CreditImport`, `CreditTransaction`, `CreditCard` | `SheetFile` (reading), `Books` (rows, wallet), `Reconciliation` (what a bill is) |
| Loans | `modules/loans/` | `Loan`, `LoanScheduleEntry` | `LoanLifecycle` (closing), `LoanSchedule` (figures), `Commitments` (tracks) |
| Statement commitments | `modules/bank/statementCommitments*` | loans and recurring payments by `detectedKey`, `DismissedCommitment` | `Commitments` |
| Connections | `modules/connections/` | `FinancialConnection`, `ConnectionSync`, the in-memory set `active` | `ConnectionSync`, `SyncOffers` |
| Books and figures | `modules/expenses`, `incomes`, `budgets`, `dashboard`, `reports` | one table each; sums | `Books` |
| Plans | `modules/recurring`, `subscriptions`, `savings`, `categories`, `expenses/quickAdd` | one table each | `Plans` |
| Journey | `modules/journey/` | `FinancialProfile`, `CommitmentDecision`, `FundingAssignment`, `MoneyCheckIn` | `Obligations`, `DailyPlan`, `CheckIn`, `Picture`, `Explanation` |
| Household assistant | `modules/householdAssistant/` | `DuplicateReview` | `DuplicateReview`; a question's side effect: `Obligations` |
| Alerts and attention | `modules/alerts`, `dashboard/attention.service.ts` | `Alert` | `Attention` |
| Gate, users, activity | `modules/gate`, `crm`, `activity`, `middlewares/` | `GateSession`, users, `ActivityEvent`, rate limiter buckets | `Access`, `Throttle` |
| Web client | `frontend/src/` | what each page has loaded, opened, asked | `Explanation`, `Screen`, `Operations`, `Pages*`, `Site` |

### How they interact

* A financial route runs inside `withFinancialTransaction`: one database
  transaction that first takes `SELECT ... FOR UPDATE` on the owner's row. All
  requests of one owner are therefore serial. Nested calls join the
  transaction; what must happen outside the database is deferred until after
  the commit; the response is held until then.
* Not inside it: routes that only upload a file, `GET` of a document's bytes,
  and everything under `/api/connections`, settings, categories, family,
  assets, alerts, the assistant, users and the gate. `importSessions.create`
  makes two transactions of its own. The background run of a sync is in no
  request at all and calls `importSessions.cancel`, which is then a single
  statement without the lock.
* An import session ends in calls of `bank.importStatement`,
  `credit.createImport` and `confirmImport`, `imports.importExpenses` or
  `loanSchedule`, and of `documents.record`. Undoing goes through
  `documents.rollback` or `credit.removeImport`, which tell the session through
  `importLifecycle.service.ts`.
* Each change of bank rows or of confirmed reports runs
  `reconciliation.resolveAll`, which creates and removes incomes and expenses
  so that they follow the rows' meaning, and computes the account's balance
  anew. Listing the loans runs `syncFromStatement`, which closes a loan that a
  row paid off.
* `financialStatus` reads everything: it fingerprints the data the owner
  confirms, verifies card bills by the statement, and feeds the allowance, the
  picture with its actions, the check-in and the assistant's answers.
* Reading the alerts raises and withdraws them. A page of the client reads,
  offers operations on what it shows, and reloads after a write of its own tab.

### What is hard here

Requests that share an owner's books; a background run that is outside the lock
and reads before it waits minutes for a website; a process that can stop
between any two awaits; imports that overlap, come twice, wait for approval and
are undone out of order; rows the owner decided by hand among rows a file
made; meanings that change when another file arrives; one sum added up in a
dozen places; a confirmation that must end with the data it was given for;
files whose columns moved or whose digits are wrong; screens that show what was
true a moment ago. `PROJECT.json` lists these hazards at their lines with the
properties aimed at each.

### What makes each part correct

* Transactions: a change is all there or not at all, there before its success
  is told, never lost to another request; every request ends.
* Imports: nothing is booked that was not approved as shown; no row twice; none
  missing; undoing leaves nothing and spares what was decided by hand.
* Files: a file is what it was printed as or the owner is asked; what is read is
  what is printed; a misprint is noticed where it is.
* Documents: what the log lists can be opened, shows its own import's rows, and
  its bytes go only when nobody needs them.
* Syncs: one run a connection; a status that ended stays; none looks alive
  without a run; nothing offered twice and nothing lost between syncs.
* Reconciliation: every income and expense is its row's; card purchases are
  counted as purchases or as a bill, not both; a second pass changes nothing.
* Loans and commitments: one payment closes one loan, its undoing opens it
  again; a payment is on record once, as the statements show it.
* Debts: a payment leaves the plan only by evidence or a decision, and one
  evidence settles one payment.
* Figures: every screen tells the same month; a balance is the bank's; who
  lives by the allowance never overdraws an account.
* The owner: each decision counts once; what needs her attention is told once
  and until it is settled; who does what she is asked ends with the picture
  ready.
* The door: only an active account with an open session gets in, and only as
  far as its role; no caller gets more than the limiter allows.
* Pages: a page at rest shows what it was asked for, and an offer on a row that
  is still as shown is taken by the server.

## 2. Modules

| Module | Models | Uses |
|---|---|---|
| `AtomicLedger` | the promise of a transaction: changes appear at once or never, success is told afterwards | |
| `FinancialTransaction` | `database.ts` and `asyncHandler.ts`, step by step | (implements `AtomicLedger`) |
| `SessionLifecycle` | the promise of an import: offered, then withdrawn or booked as a whole, then undone for good | |
| `ImportSession` | sessions, staged rows, commit and rollback, with the rows of the books | (implements `SessionLifecycle`) |
| `ConnectionSync` | start requests, the claim, the run, credentials, restart | |
| `SyncOffers` | which rows the syncs of a connection offer, cancel and carry over | |
| `BankLines` | what a bank line means: transfer pairs, card coverage, `decideTarget` | |
| `LoanLifecycle` | the loans and their closing by rows | `BankLines` |
| `Reconciliation` | the rows, records, files and reports of an account | `LoanLifecycle` |
| `DuplicateReview` | likely duplicates, decisions under request ids, undo | |
| `DocumentStore` | documents, sessions and the bytes they share | |
| `Commitments` | fixed debits a statement proves, loans and payments made of them, tracks of a schedule file | |
| `Obligations` | the calendar of payments, card bills, decisions and automatic verification | |
| `Books` | the tables of expenses, incomes and card rows and every sum told of them | |
| `Explanation` | a figure explained page by page while the books change, with the client's shared reads | `Books` |
| `CheckIn` | the weekly check-in and its comparison with the last | |
| `DailyPlan` | allowance, payers, transfers and the confirmation they rest on | |
| `AccountBalance` | the balance of an account from anchors and rows | |
| `Attention` | alerts and the list of what needs attention | |
| `LoanSchedule` | a bank's schedule file, the stored loan, simulations and quotes | |
| `StatementFile` | reading a bank statement, workbook or PDF, and its validation | |
| `SheetFile` | the kind of a dropped file, card reports and expense sheets, the questions before approval | |
| `Picture` | what the owner is asked for until the picture is ready | |
| `Access`, `Throttle` | logins, sessions, roles, the activity log; the limiter | |
| `Plans` | recurring payments, subscriptions, goals, quick add, rules | |
| `Operations`, `Screen` | a page of the client as a machine: reads, offers, requests, answers, reloads | |
| `PagesMoney`, `PagesHome`, `Site` | what each page reads, lists and offers, and what the server makes of it | `Operations`; `Site` instantiates `Screen` |
| `MC*` | constants of the instances | the modules they name |
| `FinancialTransactionProofs`, `ImportSessionProofs`, `ReconciliationProofs` | theorems | the module each is named after |
| `BackgroundProofs` | theorems | `ConnectionSync` and `Attention` |
| `OutsideProofs` | theorems | `SyncOffers`, `Access`, `Throttle`, `Plans` and the pages of `Site` |
| `HouseholdProofs` | theorems | `DuplicateReview`, `DocumentStore` and `Obligations` |
| `FiguresProofs` | theorems | `Explanation` with `Books`, `CheckIn`, `DailyPlan` and `AccountBalance` |
| `Sums` | lemmas on sums over finite sets, least and greatest elements, quotients | |

`FinancialTransaction` shows that the requests of an owner take effect one
after the other and atomically. The other modules use this: a request is one
step there, except where the code lets something in between: the background
sync, routes outside the lock, deferred effects, the browser.

The modules `MCHousehold`, `MCFigures`, `MCUpkeep` and `MCSyncOffers` hold
several components that share no state in the model: `MCHousehold` extends
`DuplicateReview`, `DocumentStore` and `Obligations`, `MCFigures` extends
`Explanation`, `CheckIn`, `DailyPlan` and `AccountBalance`, `MCSyncOffers`
extends `SyncOffers`, `Access`, `Throttle`, `Plans` and `Site`, `MCUpkeep`
extends `Attention`, and the rest are instances. A variable
`focus`, set in the initial state, says which of them a behaviour exercises;
the others stay as they began. A run of such a module is the disjoint union of
the components' state spaces.

### FinancialTransaction

A request goes `new`, `queued` (waiting for the lock), `open`, `committed`,
`done`; or `failed`, `lost` (the server died in it) or `unanswered` (it died
after the commit). `Arrive`, `Lock`, `Change`, `Defer`, `Respond`, `Commit`,
`RunEffect` and `Flush` are the lines of `withFinancialTransaction` and
`asyncHandler` in order; `Abort` is a throw, a timeout (`timeout: 60000`,
`maxWait: 15000`) or a refused commit; `BreakEffect` an effect that rejects
after the commit; `Crash` ends the process. A change is a pair of its request
and a number, and `view` is the transaction's snapshot: MySQL's REPEATABLE READ
with the owner's lock taken first is assumed.

### ImportSession, SheetFile, StatementFile, DocumentStore

In `ImportSession`, `status`, `version`, `staged`, `basis` and `link` are
columns of the session and its rows, `money` the rows of the books, `imports`
the statement and report rows, `docs` the document of a commit. `tx` is the one
transaction that has read a session and not yet written it: processing and
committing are two steps, because the sync cancels without the lock
(`SyncCancel`). `screen` is what the owner's browser last loaded. `TypeIn`,
`Delete`, `Hold` and `RemoveAccount` are what she does to the books meanwhile.

`SheetFile` is `detectStatement`, `prepare` and `processSession` over files that
are sequences of sheets of rows of cells. A cell is a text, a number, money, a
date, a day as text, or an instalment; its words are the header words the code
finds in it. `Detected` scores words; `ParseCreditFile` and `ParseExpensesFile`
read; `Previewed` asks. A date cell may be an instant `early`, before the day it
shows: `CardDay` rounds it, `SheetDay`, the copy in `importsParser`, does not.
`StatementFile` reads the rows of a workbook by its
columns, of a PDF by where tokens stand, or line by line without columns; then
`Resync`, the replay of the balance and `Spent` follow. A file there carries the
moves it was printed from, so that what is read can be compared with them.

`DocumentStore` has `disk` (a path is there, cut short or not), sessions,
documents and `unlinking`, the deferred second transaction that deletes bytes
after counting who still uses them. `Crash` loses it.

### ConnectionSync, SyncOffers

A step of `ConnectionSync` is what happens between two awaits. `request` follows
a start request from reading the connection to inserting the row; `active` is
the in-memory set; `worker` is the point a run has reached; `progress` the
chained progress writes; `stored` the connection with a number for its
credentials; `server` says whether `failInterrupted` has been through since the
start.

In `SyncOffers`, `site` is what the website shows of a row: nothing yet,
pending, settled, gone. `Start` reads the watermarks and the pending rows of the
last success, `Scrape` the website; each target then has its older sessions
cancelled (`CancelUnapproved`) and its own made (`Offer`), two steps with the
owner's approvals between them; `Succeed` or `Fail` ends the run.

### BankLines, LoanLifecycle, Reconciliation, AccountBalance

A *line* is what the bank printed, a *row* its record. `Meaning` and `RecordOf`
are `decideTarget`; `Transfers` is the greedy pairing of
`findInternalTransferIds`; `Resolved` is one pass (`backfillClassification`,
then every row). `Follow` says what becomes of the incomes and expenses when
rows change: each action that links, resets, excludes or re-reads a row takes
the record along. In `LoanLifecycle`, `SyncFromStatement` may match any loan to
any near row of its number that is not spent, as the order of the rows decides
it; `Reopened` is `findClosedBy` with `reopen`.

`AccountBalance` takes the account's real moves as a constant. `Anchor` is
`findAnchor`; `Derived` the balance; every action that the code follows with
`recompute` has it as a conjunct. A row may be missing or there twice, in the
bank's words and the owner's: the balance must not care about what lies before
its anchor.

### Commitments, Obligations, LoanSchedule

`Commitments` stages a statement, previews the debits `detect` proves on it
(`preview`), lets the owner choose, and commits; `Refresh` and `Dismiss` follow
later statements (a line the statement has twice is merged twice, `Copies`); a
schedule file (`Tracks`) takes its part out of the loan the
statement made. `Obligations` has the plans, the bills, the bank's debits and
`decisions`. `Read` is the automatic verification of the card bills; a question
to the assistant (`AskAssistant`, then `RecordOne` for one bill at a time) does
the same outside the lock while others act. Its calendar is checked against the dates' plain definition.
`LoanSchedule` reads a schedule file into rows, stores the loan and computes what
the pages tell of it: the stored schedule, the counters, a simulation, the cost
of paying early. As in the code, two loops simulate a loan, `ComputeLoan` and
`AmortizationSchedule`; each carries the balance on unrounded (here in hundredths
of an agora, for the code's floating point) and rounds what it returns, so that
their sums differ by the rounding of each row. A file comes with the bank's table
it was printed from (`printed`) and what is wrong with it (`fault`), and `source`
keeps both for the properties.

### Books, Explanation, CheckIn, DailyPlan, Picture

`Books` has `rows` of three tables in one function, the reports, the budgets and
the categories; each operator named for a service adds up as that service does.
`Explanation` adds the panel that explains a figure: `shared` is the client's
store of recent reads, `calls` the requests under way, and answers are late,
overtaken or lost.

`CheckIn` keeps a snapshot of a window of months, at most `Cap` rows, and the
comparison. A row is named by its place in the order the three tables are read
in; a place may be taken again after its row was removed, which an id may not,
and only adds behaviours. `DailyPlan` lives the days of a month by the figure: `Confirm` binds
it to the data shown, `Evening` charges what is due, makes the transfers and
spends some of the allowance.

`Picture` is `buildPicture` with the routes that answer it. The books are a
record of what each part may hold and `Change` replaces any one part by any
other value it can have. `Actions` is the list with its priorities, `Reviewed`
what the server wants before the onboarding ends. `household.has` is what the
owner really has, which the books need not hold; she can answer what that
allows (`CanAnswer`): a card report is brought by who has a card, a loan that is
paid off is not brought again. `Answered` does the first thing asked that she
can, and `Led` follows her.

### Attention, DuplicateReview

A reading of the alerts is a transaction of several awaits in `Attention`
(`Look`, `Withdraw`, `Compare`, `Raise`, `Answer`), and two of them interleave;
the dashboard's reading is under the owner's lock. `Candidates` and `Said` are
the merged list. A finding has the title its alert will have, by which the scan
compares, and what it is about: two high charges of one shop are two findings of
one title, and both are raised. `DuplicateReview` keeps the records by kind and version;
`asked` holds decisions that are on their way and may arrive again.

### Access, Throttle, Plans

Each await of a login, a request and an update of an account is a step in
`Access`. `Throttle` is one step a request. `Plans` is serial. A typed text there is
a sequence of words, and its numbers and currency words have the places they
lie between, as `parseQuickAdd` looks a few characters before and behind a number.

### The pages: Operations, Screen, Pages*, Site

`Screen` is the machine every page shares (`useAsync`, `useConfirm`,
`AsyncSection`, `Modal`, `api`): load, answer, failure, an overtaken answer, a
press, a confirmation, a request, its outcome, the reload after it, and a write
of another tab. A page is data for it: which reads reload for which change, what
a row may be, which operations are offered on it and what blocks them, and what
the server makes of each. 28 pages and panels are described in the two `Pages*`
modules from their sources and those of the services they call.


## 3. What each run checks

Every configuration sets its constants in its `.cfg` or in the MC module it
names; files, rows, requests and words are model values. `CHECK_DEADLOCK FALSE`
stands where the model really stops: the bounded numbers of syncs, sessions,
changes or days are used up.

| Run | Instance | What it shows |
|---|---|---|
| `FinancialTransaction` | two requests of one owner (one of them no mutation) and one of another, a change each, one crash | the books are exactly the committed requests (`BooksAreCommittedRequests`); effects come after their commit and before the answer (`EffectsFollowCommit`); the whole is atomic (`TakesEffectAtomically`, the refinement of `AtomicLedger`); every request ends (`EveryRequestEnds`) |
| `ImportOverlap` | two bank statements, one with the row once, one with it twice, or a card report whose bytes may be unreadable and an expense sheet with the same purchase twice; a row typed in, held or deleted by hand; the account removable | no row is taken twice (`NoDoubleImport`) and none of a file is missing (`CommitCoversFile`); the owner approves what she saw (`SameVersionSameRows`); undoing leaves nothing (`NothingLeftBehind`) and spares hand work (`HandWorkSurvivesRollback`); one session a file (`OneSessionPerFile`); refinement of `SessionLifecycle` (`FollowsLifecycle`) |
| `SyncLifecycle` | one connection, two racing start requests, two syncs, one change of credentials, one crash, one rejected write | one run a connection (`OneRunPerConnection`); an ended status stays (`EndedStaysEnded`); every sync ends and gives its claim back (`SyncsAndClaimsEnd`) |
| `SyncOffers` | *offers*: two cards, three rows of which one came from a file, three syncs, one file | no row is on offer twice (`OneOpenOffer`), none that a file stored (`NoFileRowOffered`), a pending row is offered once it settles (`CarriedUntilOffered`) |
| | *door*: two administrators, three tabs of two browsers, three logins | an administrator is left, a browser has one session, use keeps it open, a walk through the log shows each event once (`AccessHolds`) |
| | *limit*, *repeat*, *keep*, *save*: the limiter's table; recurring payments and rules; subscriptions; goals | no window lets through more than its share and nobody is refused for nothing (`ThrottleHolds`); a payment is generated once for its month unless its expense was changed, what is typed is recorded at a price it names, a goal is its deposits (`PlansHold`) |
| | *web*: each of 28 pages with one row, a step or two of the owner, another tab, answers that fail, are lost or overtaken | a page at rest shows what it asked for, offers what the server takes, and asks before it takes back (`SiteHolds`) |
| `BankMoney` | a card bill, both legs of a transfer and a payoff, in four files that overlap two by two; the legs and the payoff may be typed in; one card report; two loans of one number; five row ids; a behaviour has bank money or loans | records follow rows (`NoStrayRecord`); a bill is left out exactly while a report itemizes it (`CardMoneyOnce`); a second pass is silent (`SecondPassSilent`); one row closes one loan (`PayoffOnce`); rows that go take their money and reopen what they paid, what was set aside stays aside (`UndoneCleanly`) |
| `Household` | *review*: three records, two requests that may repeat, a bank row. *store*: one content under two names, three sessions, four documents, a crash | a decision counts once, takes one of a double and can be taken back (`DuplicatesSettled`); what the log lists can be opened and is its own import's (`DocumentsReadable`) |
| | *fixed*: a loan of two tracks and a raised rent on three statements. *owed*: plans by the week, month, year and date, two bills, two debits | a fixed payment is on record as the statements show it (`CommitmentsFollowStatements`); a debt leaves the calendar by evidence or decision, an evidence settles one, and no claim read earlier replaces a decision (`DebtsSettled`) |
| `Figures` | *books*: an income, two expenses and two card reports with refund, financing and a row without charge day. *panel*: a figure of two rows, a page each, three calls | every screen tells one month (`BooksAgree`); pages shown together are of one version and add up (`PagesOfOneVersion`); after an own write the panel is new (`OwnWritesShown`) |
| | *week*: three rows, a cap of two, two months. *day*: a month of three days, two accounts, three payments. *balance*: three moves, three statements that overlap, print balances or not | the check-in tells what changed (`ChangesNoticed`); who lives by the allowance never overdraws and is told as much the next morning (`FigureHolds`); the balance is the bank's (`BalanceHolds`) |
| `Upkeep` | *alerts*: five states of the books, two readers. *schedules*: tables of three rows in four column orders, with a row lost or a cell blank, unreadable or misprinted by a little or by much; loans typed in. *statements*: five histories in eight layouts with one misprint | a scan settles the alerts (`AlertsSettle`); what is accepted is the printed table as far as its check can see, and the schedule, the counters, the simulation and the quote agree up to rounding (`LoanFiguresAgree`); in a statement a misprint is noticed where it is, and each sum is complete (`DocumentsRead`) |
| | *sheets*: card reports, expense sheets, statements and schedules, whole and broken, their dates as texts, as days and as instants before the day. *picture*: five households to begin with (of an account, two cards and a loan: nothing recorded, all of it, all waiting for a decision, the loan paid off; of an account alone: a bill and a repayment on its statement), each with one change of the books, two days and three things she may say she has | a file is read as printed, or an expense sheet's early date cell a day early, or the owner is asked (`DocumentsRead`); who does what she is asked and can ends with the picture ready, unless she declared more than she has, and then once she corrects it (`PictureLeadsOn`) |
| `CancelledSession`, `ClosedLoanDeleted`, `DroppedTrack`, `FeeAsSpending` | the smallest that reaches it | the disagreements of section 6 |

### Why the bounds are enough

* Two requests contend for a lock as any number do; the third, another
  owner's, shows that books and locks do not mix. One crash reaches every
  phase, as the crash may come anywhere.
* Two sessions and two files are the least with an overlap, an upload again,
  and a session that goes stale because of another. A file with a row twice is
  the least in which a one-to-one linking can go wrong.
* Two start requests are the least that race; a second sync is the least that
  can be confused with the first. Three syncs are needed in `SyncOffers`: one
  offers, one carries over, one has moved on. A row pending for longer than the
  overlap is the case the pending list exists for; `DayOf` and `Overlap` are
  chosen so that it happens.
* Five row ids let both statements be imported, or one be imported, undone and
  imported again with rows that were kept by hand in between. Two loans are the
  least that can claim one row.
* Two readers, requests or tabs are the least that interleave; a third tab of
  the second browser lets a login be overtaken by another browser's.
* Where a file is read, what matters is which column, which word and which
  misprint; a second misprint could hide the first, which the code does not
  promise to notice.
* A cap of two under three rows is the least in which a snapshot is truncated;
  a page of one row under two is the least with a next page.

All bounds (`Max*`, `LastDay`, `LastMonth`) are constants used in guards only;
`OneFamily` and `OneFamilySpec` keep families of files that never meet apart.
`SYMMETRY` is used once, in `Household`, for two requests that no property tells
apart. `Tolerance` is 0 and `PairDays` 7 days, as far as the chosen amounts and
days can tell.

## 4. Fairness

Only two runs state fairness. In `FinancialTransaction` it is weak fairness of
each request's own progress: a handler runs on when its awaits answer, and the
database grants a free row lock to a waiting request (a wait ends after
`innodb_lock_wait_timeout` or `maxWait` at the latest, by `Abort`). No fairness
is put on failing, timing out or crashing. In `ConnectionSync` it is weak
fairness of each request's and each run's next step, of the chained progress
writes, of the browser's answer (the scraper gets a `defaultTimeout`), of
starting the server again (`Restart=on-failure` in
`deploy/systemd/moneyjungle.service`; after a clean stop the operator starts it)
and of the `failInterrupted` that follows. Nothing makes the owner act, and no
write has to be rejected or accepted: `SyncsAndClaimsEnd` allows for the
rejected ones.

## 5. What is proved

The proofs hold for all constants that satisfy the named assumptions, which say
only that the constants have their types, that bounds are naturals, that sets
the code reads as lists are finite and that special values are not among
ordinary ones. TLC evaluates them in every run whose module extends the one that
states them. The inductive invariants were checked by TLC on small instances
before they were proved.

| Module | Theorems | The argument |
|---|---|---|
| `FinancialTransactionProofs` | `TypeCorrect`, `BooksCorrect`, `AcknowledgedDurable`, `EffectsOrdered`, `ImplementsAtomicLedger` | `Inv`: an open transaction is the holder of its owner's lock and the only one; therefore what it read is still what the books hold, with its own changes (`ViewIsCurrent`), and writing that back loses nothing. The refinement maps `Commit` to the abstract step and everything else to stutters |
| `ImportSessionProofs` | `TypeCorrect`, `NothingLeft`, `OneSession`, `ImplementsLifecycle` | `BookInv`: every row of an import names one that exists, every import belongs to the booked session that made it, every card report in the books is there, two live sessions have different files. `TxAlone` carries the last across the two halves of a transaction in which the session may be cancelled: nobody else can have made a session of its file |
| | `SameVersion`, `HandWorkSurvives`, `CommitsCover`, `NothingTwice` | `RowInv`: ids of money are fresh, what is staged comes from the session's file, each row of the books is claimed by one staged row at most, a session's kind is its file's, and a screen is never ahead of the version it shows. `CommitsCover` and `NothingTwice` compare rows one to one: the claims are an injection between what was staged and what the books hold, and a cardinality bounds the other |
| `BackgroundProofs`, on `ConnectionSync` | `TypeCorrect`, `OneRun`, `EndedKept`, `NoSyncLooksAliveForever` | `IInv`: a run and a request whose insert is under way hold their connection's claim, each alone, in a server that is up; and what a row can hold at each point of its run. `AliveHasRun` needs `RowsTracked` as well |
| `OutsideProofs`, on `SyncOffers` | `OneOffer` | While no run failed, the outcomes of the syncs, with the one being built, name every open session, so that `cancelUnapproved` closes it before the next is made. What failed stays failed (`FailuresStay`) |
| | `TypeCorrect`, `FilesAreBehind`, `PendingIsCarried` | `CInv`, from the window a run opens to what it lists: the marks are days of stored rows (`Marked`), what was listed is done with (`ListedIsDone`), a session not made yet has no row (`Unmade`), the window reaches back to every row still pending (`Reaches`), the website shows it (`Shows`), and the outcome being built carries it (`Carries`). The last day of a finite set of rows exists by well-foundedness |
| `OutsideProofs`, on `Access` | `DoorHolds` | `AInv`: tokens are apart; while updates do not overlap, the account that acts is an active administrator until it has written (`UpdatesKnown`); while logins of a browser do not, its cookie is the session they came with (`LoginsKnown`); a use is never further from being noted than `Touch` (`UsesNoted`); what a walk has shown is all from its cursor on (`WalkKnown`, with the lemma that a page and what follows it make one list) |
| `OutsideProofs`, on `Throttle` | `LimiterHolds` | `LimitInv`: a bucket counts the requests of a window that began with one of them, and all let through since are among the counted (`Windows`). A stretch of a window's length meets two windows at most, and each let through `Maximum` (`Stretches`). A full table names callers who asked within a window and a cleaning, each its own (`Table`, `Refusals`) |
| `OutsideProofs`, on `Plans` | `PlansAreKept` | `PlansInv`: ids of payments are fresh, an expense made of a payment and not edited since is the only one of its name and amount in its month, whichever run made it, and what the last run or the last text left is still so. The month's total is rounded once, so twelve of it are off the year's by six cents at most. A loan that is paid, repaid, closed or removed leaves a goal's progress between nought and its target |
| `OutsideProofs`, on the pages | `PagesKeepUp` | `ScreenInv`, for every page and any number of steps: what a page waits for is what its filters ask for, and what it shows is no older than the last change it was told of, unless a reload is due; what is sent or put to the owner was offered for the row as it is shown; an import is under way one step at a time. About the pages themselves it needs two facts, shown page by page: each operation that changes something reloads a read that shows it (`OpsHeard`), and what is offered of a row is what the server takes of it (`OffersMet`, `CustomersMet`) |
| `ReconciliationProofs` | `TypeCorrect`, `RecordsBacked`, `OnePayoff` | `IInv`: ids are unique and below the counter, records' ids too, so that a new row finds no old record; `FollowKeeps` shows once for all actions that records which follow their rows stay backed. For the loans, claims of rows stay apart through every listing and reopening |
| | `BillsOnce`, `UndoingIsClean`, `PassesSettle` | `ReadInv`: the kinds on record are those the bank's words give (`KindsRead`) and what a loan says it was paid by is a row that says so (`ProofsRead`). For the second pass: the pairing of transfers exists, is unique, and depends only on what the resolver does not write; hence what one pass writes the next one reads as it is |
| `HouseholdProofs` | `DuplicatesAreSettled`, `LogIsReadable` | `RInv` ties each missing record to one removal by hand or by the decision in force that removed it. `DInv`: a file has one live session, bytes are there for whoever refers to them, and a deferred removal has seen that nobody does |
| `HouseholdProofs`, on `Obligations` | `DebtsAreSettled` | `OwedInv`: plans keep a form that has dates, none has the name of a card, and an acknowledged debt has the date it was due. Hence a row has one key (`NamesApart`) and a date (`RowsDated`), whatever the calendar of months. A debit that two rows claim counts for neither; the parts that count against a row are exactly those whose sum was compared with it, as a key names one row. What was acknowledged and is overdue is listed by its decision, not by its plan, and therefore stays when the plan goes. A claim is recorded only where there is no decision (`DecidedStays`) |
| `FiguresProofs`, on `Books` | `ScreensAgree`, `FiguresExplained` | `BooksInv`: rows are typed and numbered in their tables, a card row belongs to a report that is there and whose total is that of its rows, and a category that a row or a budget names is there. From it every sum follows: a fold over a finite set may take any element first (`SumOff` in `Sums`), so it may be taken in parts (`SumParts`) and under other names (`SumRenamed`). For pages, the place of a row in a strict order is its own and none is left out (`Ranks`); `StepWalks` carries a page across the end of a source |
| `FiguresProofs`, on the screens | `WritesAreShown`, `PagesAreOne`, `WeekIsTold` | `RecentInv`: an answer shared by two readers was asked after the last own write; `NetInv`: a call under way holds the version it left with; `WalkInv`: the pages beside each other are a prefix of one version's. `WeekInv`: a snapshot is what the window held when it was taken, so two of them differ by what changed |
| `FiguresProofs`, on `DailyPlan` | `LivingByTheFigure` | `DayInv`: a figure that was given is the one its data still gives. Each evening is then arithmetic over the days left: what is due splits into what is due today and later, the transfers sent today repair exactly the deficits found up to today, and what may be spent from tomorrow on bounds what today's figure allowed from below. The share of the essentials is rounded anew each morning; with today's share, the new share of any later day is a cent more than the old one at most (`SharesMeet`), which is why the promise is to a cent |
| `FiguresProofs`, on `AccountBalance` | `BalanceIsTheBanks` | `BalanceInv`: a balance that was computed today is the one that is derived now. With each move after the anchor's day on record once, the rows that count are those moves renamed, and the moves up to today are those up to the anchor's day and those since; they come in the order of their days, so the moves up to a day are the first so many |
| `BackgroundProofs`, on `Attention` | `AlertsAreSettled` | `LoneInv`: a scan nobody disturbed still knows what the books say and, once it has compared, holds exactly the findings that no alert shows. `OnceInv`: until two scans meet, the findings one holds are told apart by title and subject, and no alert is of any of them. For the list: among the lines of any topic one comes before all others, and on an alert's topic it is an unread alert if there is one, unless the budgets' counter of several overruns precedes them all |

Hypotheses of single theorems, beside the assumptions of the modules:

* `BillsOnce`, `UndoingIsClean` and `PassesSettle`: a line of the kind "card bill"
  is a debit (`BillsAreDebits`, which `bankParser.service.ts:414-417` makes so),
  and `None` is not a number.
* `TypeCorrect`, `FilesAreBehind` and `PendingIsCarried` on `SyncOffers`: the rows
  are finitely many.
* `DuplicatesAreSettled`: `ReviewAssumption`, and that no decision is the value
  that stands for none. `LogIsReadable`: `Assumption` and `Sizes`.
* `DebtsAreSettled`: `OwedAssumption` (plans, cards' days and months have their
  types, and no card has a payment's name). `PagesKeepUp` needs none.
* `ScreensAgree` and `PagesAreOne`: `BooksAssumption`, the types of what is typed
  and imported; `PagesAreOne` also that `None` is no version. `Figures` evaluates
  the assumption for both of its instances.
* `DoorHolds`: `AccessAssumption`, that there is an administrator at first.
* `LivingByTheFigure`: `DayAssumption` (a month has a day, amounts due are not
  negative) and `PlansAreKept`: `PlansAssumption` (a goal's target is positive and
  a loan's balance not negative, which `savings.validation.ts` and the loan's
  figures make so) are the modules' own; neither needs more.
* `AlertsAreSettled`: two findings of one state of the books differ in their title
  or in the budget, the loan or the charge they are about (`ThingsApart`), which
  the keys of those tables make so.
* `ImplementsLifecycle`: `SyncFiles = {}`. With the sync's unlocked cancel a
  withdrawn session does come back, which is the first finding below.

### What is only model-checked

* Liveness, `EveryRequestEnds` and `SyncsAndClaimsEnd`, and everything that needs
  `ENABLED`: out of the prover's reach.
* What a function over a sequence computes. The library's induction theorems take
  an operator as a parameter, which no installed prover instantiates, so an
  induction has to be set up over a set instead: `Sums` does it over the
  subsets of a finite set, and every sum is within reach. For sequences it is not
  done: the readers of files, `DocumentsRead` and `LoanFiguresAgree`, stay with
  TLC. They say what a recursion over the rows of a sheet returns, for sheets laid
  out one by one.
* `BooksAgree` is `FiguresAgree` of the instance in `MCFigures`; `ScreensAgree`
  states the same formula in `Books`.
* `CommitmentsFollowStatements` is not proved.
* `PictureLeadsOn` says of each household of a finite family that a walk ends, by
  a recursive definition of the walk: the instance is the statement.

## 6. Where the code and its own words differ

Each of these has a run that reaches it and an entry in `PROJECT.json`.

1. **A cancelled import comes back** (`CancelledSession`,
   `CancelledStaysCancelled`). The sync's `cancel` is one statement outside the
   lock; processing and committing end with an update that sets the status
   whatever it is by then (`importSession.service.ts:115`).
2. **A finished loan is deleted** (`ClosedLoanDeleted`, `ClosedLoanKept`). Reset
   of its last row deletes the loan (`reconciliation.service.ts:853`), although
   the schema says a finished loan never is.
3. **A track is dropped** (`DroppedTrack`, `NoTrackDropped`). A newer statement
   subtracts the payments of every track of a number from each of its loans,
   whichever day they are paid on (`statementCommitments.service.ts:104`).
4. **A fee counted as spending** (`FeeAsSpending`, `OrdinarySpending`). A loan's
   fee is added to the current spending (`bankParser.service.ts:650`), which the
   comments at 22-23 and 106-108 exclude.

Known from the models, without a run of their own, because the words they
contradict are weaker or there are none; the properties are stated so as to
leave them out.

Transactions:

* A deferred effect that fails after the commit fails the request
  (`database.ts:38`): the caller is told of an error although its changes are in
  the books. `EffectsFollowCommit` orders commit, effects and answer and does not
  rule this out.

Connections and imports:

* `connectionSync.service.ts:239` claims the connection before the insert; a
  refused insert leaves the claim, and every start answers 409 until a restart.
* `:131` finds older sessions through succeeded outcomes only; the session of a
  run that failed later stays open beside the next one. `:135` cancels a session
  never approved although the window has moved past its rows.
* `:123` carries pending rows by the target's key; a card the website does not
  list in one sync loses its pending rows.
* `:186` reads the watermarks before the website; a file imported in between is
  offered again. `:207` stamps `verifiedAt` on credentials newer than the login.
* After its account was removed, a booked import cannot be undone
  (`documents.service.ts:173`), nor its file uploaded again. A document of which
  any session exists is never removable (404-405), though the page offers it;
  `canRollback` (356) does not ask whether the statement is still there
  (115-117, 163-173); the rows shown for an undone document are a later upload's
  (422-430).
* `importsParser` has a `parseCellDate` of its own (56-80), which takes a workbook's
  instant as it is, although `sheetDates.ts:6-7` calls its one shared by every
  parser because a second copy once put dates a day early: an expense sheet's
  date cell that SheetJS gives as an instant before its day is read a day early
  (`ReadAsPrinted` says exactly which). There a numeric 0 is kept and negatives become positive
  (85-87); only the first sheet is read; an unknown file with columns of name and
  amount is taken for an expense sheet.

Bank and loans:

* `reconciliation.service.ts:343` asks for `resolution <> 'manual_excluded'`,
  which SQL does not find true of `NULL`: a bill typed in by hand gets its kind
  on the second pass (`TypeIn` and `Backfilled` model this).
* `linkIncome` on a loan's interest refund leaves two links. `removeTransaction`
  and `removeAccount` leave the incomes and expenses of their rows.
  `applyTarget` sets a linked expense back to its row's amount (1093).
* A closed loan whose number was corrected is not found when its proof is undone
  (`loanLifecycle.service.ts:231`); a loan reopened by hand is closed again by
  the same row at the next listing.
* A dismissed loan of a statement may return under another key
  (`statementCommitments.service.ts:114`); a schedule file that arrives before
  any statement keeps the rest of the number's debit from being offered.
* A schedule's blank cell is read as 0. Its check compares the sum of the principal
  column with the first balance plus the first principal
  (`loanSchedule.parser.ts:209-217`): the first row's principal is on both sides,
  and numbers, interest, totals and the other balances are not looked at, so that
  a misprint there is stored. "One rate satisfies every row" is called an enforced
  property (7-8); its spread is computed (226-227) and nothing refuses a file for it.
* The last row of a computed schedule tells more principal than is left, and the
  interest of its rows differs from the simulation's total by their rounding. A text PDF takes a row's amount from the balances
  always, though the comment says only when they agree (about 1094-1097).
* Of two statements of the same last day the later import anchors the balance;
  rows of the anchor's own day that are posted after a cut within the day are
  left out; the stored balance is not refreshed by reading it.

Journey and attention:

* A question to the assistant, "read-only" in `householdAssistant.routes.ts`,
  records decisions outside the lock (`answers.service.ts:75, 88, 124`).
* Two likely bills are one by the comment at `commitments.service.ts:14-15` and
  none by lines 22-38.
* Two scans at once raise an alert twice (`alertsScanner.service.ts:246`). Two
  findings of one title (two high charges of one shop, two loans of one name) have
  two alerts only if one scan finds both: what is found later is not raised, as
  its title shows already (64-68, 254). A dismissed budget alert comes back while
  several budgets overrun or another month is looked at.
* A confirmation stamps its day when it is written, not when the data was shown.
  The card's data is asked for before the scope it cannot be confirmed without;
  answering a clue does not settle it while its row stays; an import in review
  is listed twice.
* Loans are counted while they are active (`coverage.service.ts:83`): once a loan
  that was declared is paid off, the owner is asked for it until she corrects what
  she declared. A card bill or a repayment on the statement of an owner who has no
  card or loan is asked about for ever; neither keeps the picture from being ready.

Users and plans:

* Two administrators who update each other at once can leave none active; two
  overlapping logins leave a session open; sessions outlive a change of password.
* Quick add takes the first number with a currency word from five characters before
  to seven behind it (`quickAdd.service.ts:54-58`): of "2 ... 18" with the sign after
  the 18 and near both, it takes the 2, though its comment (46) prefers a number
  "sitting next to a currency word".
* A generated payment that was edited is generated again; a default category or
  rule can be renamed or removed for every household.

Pages:

* A write whose answer is lost, or another tab's, leaves a screen as it was; a
  poll that overtakes a removal shows the connection again
  (`ConnectionsPage.tsx:143-151`).
* An edit form writes back what it was opened with, over what changed meanwhile;
  saving a loan marks its amount as from the contract.
* A modal closed by hand while its request is under way is closed for another
  item by the first answer; a second press may create twice; a wizard finished
  again adds its member twice; several pages say nothing when a request fails.
* `BankPage` keeps the file of a modal that was closed, and a later account
  imports it. `BankReconcilePage` frees its buttons before the rows are read
  again.

## 7. What the modules leave out

* Import sessions: loan schedules, and the commitments a commit may add; one
  card; answers other than the account or card.
* Sync offers: a card's second window by charge date, instalments, foreign and
  zero amounts, cards the owner has not registered; approving takes all rows of
  a session.
* Reconciliation: one account, one live import of a file; categories, notes,
  amounts of records. Which rows of a file are new is any choice among lines the
  account does not hold (`ImportSession` models the choosing).
* Loans: instalment counts, fees, saved interest; a loan that is overdue is owed
  like an active one. Schedules: the questions asked back, the target chosen by
  hand.
* Books: text search, the dashboard's loan figures. Coverage: the list of
  sources, blockers that are one condition, saved reserves, suggested payers.
* Statements: the parsing of single cells and dates, wording, the lines of card
  issuers.
* Picture: several accounts, cash buffers, blockers of dates and financing, the
  stages. Assistant: wording and plans.
* Quick add: prefixes and fillers of the language. Administration: the lists.
* Pages: figures and layout; pages that change nothing.
* MySQL's REPEATABLE READ with the lock taken first is assumed, not modelled; so
  are unique keys and cascades of the schema where an action relies on them.

Not modelled at all: AI insights and chat, search, the other middleware, the
cipher and the browser, schema and scripts, fixtures, deployment, previews,
charts. `PROJECT.json` gives a reason for each.

## 8. Plan

Done: all components above, and theorems for 33 of the properties the runs
check. Next:

1. `Commitments`: that a payment on record is backed by a statement, apart from
   its amount.
2. `Picture`: that an action which is not asked for is not needed.
