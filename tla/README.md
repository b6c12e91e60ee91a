# Racio: specifications and proofs

TLA+ modules of Racio's own logic, the TLC configurations that check them on
small instances, and proofs of their main guarantees for every instance. Paths
below are those of the repository; module names are files of this directory.

Contents: the system and its hard parts; what is modelled, part by part; the
runs and their bounds; fairness; what is proved and along which argument; where
the code and its documents differ; what is not modelled; the plan.

## 1. The system

Racio is a personal-finance application of one web server (`apps/web`, Next.js),
one background worker (`apps/worker`, pg-boss handlers), one stateless parser
service (`apps/parser`, Python), PostgreSQL and a private object store (a
directory). The packages under `packages/` hold the logic and are called by both
processes.

Every `await` in the two Node processes is a point where another request or job
may run, so a request is a sequence of steps and only a database transaction is
one step. There are no locks beyond those of single SQL statements, and no
in-memory state shared between requests except the advisor's rate limiter. So
what can go wrong is an interleaving of requests and jobs over the tables and the
store, a process that dies between two steps, pg-boss, which delivers a job again
when its handler dies, throws or takes too long, and the arithmetic of money and
dates, which several packages do on their own and must do alike.

| component | state | operations | hard behaviours | what makes it correct |
|---|---|---|---|---|
| statement imports (`packages/imports`) | statements, jobs, raw rows, transactions; originals in storage | upload, choose sheet or mapping, inspect, parse, edit a row, confirm, clean up | redelivered and concurrent jobs, late parses, edits against confirmation, crashes between database and storage | a row enters the ledger once and keeps its evidence; originals are kept or deleted as asked; an import does not get stuck |
| exports (`packages/export`) | exports; artifacts in storage | request, generate, download, delete, expire, reconcile | overlapping attempts, deletion and cleanup against generation | a ready export has the bytes its checksum names, is published once, and nothing private stays behind; it holds what the list shows |
| transactions and rules (`packages/transactions/src/index.ts`) | categories, tags, rules, labels, events, suppressions | edit, apply, revert, maintain | events inserted long after they were decided on; reverts after later edits | what a rule gave is recorded, given once, and alone taken back |
| splits, merchants, transfers (`packages/transactions/src/phase6.ts`) | splits, merchants, aliases, assignments, merge events, links | replace splits, merge, unmerge, apply aliases, suggest, link, confirm, reject, unlink | snapshots and decisions made before the transaction that uses them; replacements without a lock on the parent | a set of splits is stored whole or not at all and adds up, a merge can be undone exactly, a transaction is a side of one transfer |
| planning (`packages/planning`) | budgets, goals, alert rules and events | edit, evaluate, sweep | edits that write over each other; overlapping, failing and repeated evaluations, which insert what earlier reads called for | alerts have a cause, stay as they are, and come in the end |
| reads that compute (`transactions`, `planning`, `export`, `domain`) | none | dashboard, spending, budgets, lists, exports | the same sum made in several places; pages, limits, periods | they agree with each other |
| advisor (`packages/advisor`) | threads, messages, proposals | ask, archive, restore, delete; propose, confirm, expire | nothing runs in a transaction; double confirmation; a crash before the mark | answers rest on computed facts and stay in order; an executed proposal had its effect, in time |
| storage (`packages/storage`) | objects by key | put, put chunked, get, delete, list | a put is not atomic, a delete of a missing object throws | modelled with its users |
| parser, AI adapter, auth, contracts, config, i18n, pages | none of their own, or a library's | | | answers within their documented shapes |

The hazards of each part, at their lines, are in `PROJECT.json`.

## 2. What is modelled

A module holds the state and the operations of one part; a module above it
composes them into a specification with its properties; `MC*` gives the instances
of its runs; `*Proofs` extends the specification with its theorems, and `SumProofs`
holds the lemmas on sums, orders and lists that three of them share.

### Statement imports

`ImportState` (tables, store, queue, and what each actor in flight has read),
`ImportRequests` (uploads, `selectXlsxSheet`, `saveImportMapping`, the send of a
committed job), `ImportJobs` (the five handlers of the worker: a delivery is
taken, job and statement are claimed in two updates, the parser is called, its
answer is stored or the attempt fails), `ImportReview` (`updateRawTransaction` as
its read and three writes, `confirmImport` as two reads, one transaction and the
delete of the original), `ImportPipeline` (the hourly cleanup, and all of it,
interleaved, with the properties), and `ImportPromise`, the abstract
specification: the ledger only gains entries, each with evidence that stays; a
row is entered once; an original the user asked to keep is not discarded.

`stmt`, `job`, `row`, `ledger` are the tables statements, import_jobs,
raw_transactions and the number of transactions carrying a raw row; `files` is
private storage; `outbox` holds jobs committed but not sent; `waiting` is
pg-boss; `handler`, `editor`, `confirmer`, `cleaner` are the program counters and
locals of the code that is running.

A candidate is a review status; amounts, dates, descriptions and fingerprints are
left out, so which rows are duplicates is the parser's choice, and the parser
answers anything its contract allows. `StoreFails` stands for every way the
storing transaction may fail, the foreign key from transactions to raw rows among
them, and `ConfirmRollback` for the same of a confirmation. pg-boss is a set of
jobs with the retries they have left; `singletonKey` does not restrain it, since
jobs of one key are told apart by their row.

### Exports

`ExportState` (the table, the artifacts with their bytes and age, the queue and
every attempt, request and cleanup in flight), `ExportGeneration` (count, insert,
send or undo; read, draw a random key, open, write, finalize by a guarded update
or discard; the failures, and `Overrun`: pg-boss gives a delivery up and retries
it, while the handler goes on), `ExportLifecycle` (time, `cleanupExpiredExports`,
`reconcileOrphanExports`, downloads, deletions and crashes, all of it interleaved,
with the properties), and `ExportPromise`, the abstract specification: an export
offers one file until it is withdrawn for good, and a download gives what was
offered when it began, or nothing. What is offered is mapped to the bytes under the
key of a ready row that has not expired.

The content of an artifact is one of `Contents`, known by its checksum: a snapshot
taken by that attempt. Three conditions on time are flags that may come true. One
is an assumption that the code also makes: an attempt finalizes within two hours
of the last byte it wrote. Keys are random UUIDs, never reused, so `Keys` bounds
the attempts. What an artifact contains is computed in `ExportContents` (below).

### The ledger

`LedgerRequests` has the requests in flight that the modules of the ledger share.
`CategoryTree` has categories, tags, rules and the requests that maintain them;
`ClassificationRules` the patches by hand, the rules applied to imported and past
transactions, the events with the labels they added, suppressions and reversals.
A request holds what it read (`Hold`) and writes in a later step; the unique
indexes make that step fail. The text matching of conditions is the constant
`Fits`.

`Merchants` has merchants, aliases, assignments and their requests;
`MerchantMerge` merges with their snapshots, their undo and the application of
aliases. Which patterns match which transaction is the constant `Fits`. A merge reads
the clock once, when it takes its snapshot, and its event bears that time (`at`). An
undo takes the event with the latest time (`Newest`), which need not be the one that
was committed last: `IsNow` lets time pass or stand still between two stamps.

`SplitSets` has the replacement of a transaction's splits, `InternalTransfers` the
suggestion, manual linking, confirmation, rejection and unlinking of transfers.
What makes a pair a candidate is computed from amounts, currencies, accounts and
days; its score is not modelled. A replacement archives in one statement and
inserts in another: in between, READ COMMITTED lets another one commit. The positions
of a set are any that the request may send (`Numberings`), not only those of the form.

### Planning and alerts

`PlanningState` has budgets, goals and alert rules as records of the columns that
matter, and the edits: an UPDATE sets the columns it was sent on the row as it now
is (`With`), after checks on the row as it was read. `AlertEvaluation` has the
jobs, their phases, failures and retries, the sweep, and alert events by key. An
evaluation runs in no transaction: the row with the day, what was spent in each period
a budget looks at, the balance a goal follows, and each INSERT are steps of their own,
and edits, imports and midnight come between them. `PlanningReports` computes the
status of a budget with its rollover, from one ledger or from one for each read
(`StatusFound`), `CalendarPeriods` the calendar of periods and phrases.

### Reads that compute

`DecimalMoney` (decimal texts, with their limit of whole and of other digits, and
percentages), `LedgerReports` (spending, known
balances, the dashboard), `TransactionFilters` (filters, order and pages of lists),
`ExportContents` (pages, rows, sheets and archive of an export) are operators;
`ReportReads` asks one question of one ledger and compares answers of different
packages. The loop over the pages of an export is a recursive function: a turn is
`NextPage`, and `Turns` of them read to the end or past the limit, since a page that
is not the last is full. What is read twice stands twice in a file and counts twice
in the manifest of an archive, as in the code. An amount is its scaled integer, a
date its day number, and a text, where one is compared, its sign, whole part and
digits.

### Advisor

`AdvisorTools` has the plan of a question, the tools with their limits, the facts
made of their results and the validation of an explanation;
`AdvisorConversations` the requests, step by step, against edits of the data and
against archiving, restoring and deleting a conversation; `AdvisorProposals` the
proposals; `Advisor` both. A question is what the patterns of the planner find in
its text, and the provider answers with any of a set of responses. `MCReads` checks the
reports and the advisor in one instance, in which one of the two moves at a time.

## 3. Runs

Each cfg opens with what it is about. `CHECK_DEADLOCK FALSE` wherever the system
may stop: once every id is used up, no user need act.

| run | what it asks | instance | distinct states |
|---|---|---|---|
| import_review | no double entry, evidence kept, `ImportPromise` implemented, with an edit before, between and after confirmations | 1 CSV statement, 2 jobs, 2 rows, 1 candidate, 1 handler, 1 editor, 2 confirmers | 1.0 M |
| import_lifecycle | references, deletions, cleared keys and sheets through inspections, choices, retries, crashes and the cleanup | 1 workbook or PDF, 2 jobs, 1 row, 2 handlers, 2 confirmers, 1 retry, a crash of each process | 2.6 M |
| import_settles | every import leaves the machine's hands | all formats, 2 jobs, 2 handlers, 1 retry, no candidates, no crashes | 0.5 M |
| export_files | files, checksums, downloads, publication, key discipline; `ExportPromise` implemented | 1 export, 3 keys, 2 contents, 2 handlers, 1 overrun, a crash of each process, 1 user | 0.2 M |
| export_settles | every export settles, orphans go, and without late attempts files go too | 1 export, 2 keys, crashes of both processes | 0.1 M |
| ledger | sets of splits whole, one transfer per transaction, answers remembered; merged merchants can be undone, exactly; manual choices stay | either 2 debits and 2 credits, with splits at position 0, 1 or both, or 3 merchants, 2 transactions, 2 aliases of one priority; 4 requests, 2 at a time | 3.3 M |
| ledger_splits (violation) | "active split amounts must sum exactly to the parent's absolute amount" | as ledger | |
| ledger_rules | effects recorded, given once, taken back alone | 2 categories, a tag, 2 rules, 1 transaction; 4 requests, 2 at a time | 3.2 M |
| alerts | rows keep to their checks; alerts are justified, kept, and come | 1 budget (in one start of three with rollover), goal and rule, 2 jobs, 1 failure; 2 changes between their steps, of which one may be the end of a week | 0.7 M |
| reads | sums, periods, pages, texts, exports and archives agree; conversations, answers, facts and proposals | 64 ledgers of 3 accounts, one of them archived, and 2 currencies, leap day and turn of the year; 2 questions, one in a shared conversation, 1 edit; 1 proposal confirmed twice, a crash | 1.3 M |
| export_pages (violation) | "concurrent writes can neither duplicate nor skip rows" | the reports of reads | |
| rollover (violation) | "never before the budget's creation date" | the reports of reads | |

Why the bounds are enough. What goes wrong here goes wrong between two actors, or
between one and a crash, over one row: every run has two actors of each kind that
can meet, and enough rows for the one property that needs two (a partial entry, an
exchange of two splits, the second side of a transfer, a merge of a merged
merchant, which needs three). Four requests let two overlap after two others have
prepared the ground, which is what the known races need (a merge, its undo and a
second undo; an application, a reversal and two applications). Two jobs are what a
repeated mapping sends; one export with three keys has three attempts, of which
two overlap and one comes after a crash. Two changes between the steps of two
evaluations are what it takes to make a read stale for one of them and not for the
other. In `reads` the limits are small and the ledgers large enough to pass them: more
groups than `TopN` and `FetchLimit`, more rows than a page, more transactions than an
archive takes, amounts on both sides of `WholeLimit`. The two halves of `ledger`, and of
`reads`, share no table, so a behaviour moves one of them.

What the bounds leave out rests on the proofs, which know none: two candidates of
one statement together with two concurrent editors, several statements, exports and
proposals at once.

## 4. Fairness

Only what the code schedules is fair, and weakly: pg-boss hands out what waits and a
handler always ends (the parser is called with a timeout), `boss.send` follows the
commit, the cleanups are scheduled every hour and the sweep of alerts every 15
minutes, and time passes. The alert jobs are fair together: the worker goes on with
some job while there is one, and no job is promised its turn. Users owe nothing: no
request, choice, edit, download or deletion is fair, nor is `SendExport`. Crashes and
failures are bounded by a constant, which says that they stop at some point, not that
there are none. `ImportsSettle` is checked without crashes, because with them it is
false (section 6); the liveness of exports and alerts is checked with them.

## 5. Theorems

All hold for any number of statements, jobs, rows, exports, keys, merchants,
transactions, rules, budgets, conversations, proposals and requests. In each module
the inductive invariant says what the property alone does not: what the actors in
flight have read, and what of it is still so. `TypeOK` of a specification is a part
of its invariant.

| module | inductive invariant | theorems |
|---|---|---|
| `ImportProofs` | `Integrity`: whatever a row, delivery or request refers to exists, and whoever is about to delete an original may. Without it not even the types are inductive: a handler writes the statement of its job | `ImportIntegrity`, `NeverEnteredTwice`, `EvidenceNeverDeleted`, `RetainedNeverDeleted`, `NoKeyNoFile`, and `PipelineKeepsPromise`: each step of the pipeline is a step of `ImportPromise` or leaves its state alone |
| `ImportProofs` | `SheetInv`: an inspection is one job with one delivery that is in one place (outbox, queue or handler), so nothing examines a workbook again once a parse was sent for it | `OneInspectionEach`, `WorkbooksParsedWithSheet` |
| `ExportProofs` | `KeyDiscipline`: an attempt has a key exactly while it writes, no two the same; the key of a row, a download or a deletion is released and no other row's; what the cleanup is about to remove belongs to no row or to expired ones | `ExportKeyDiscipline`, `ReadyAlwaysMatches`, `DownloadAlwaysMatches`, `ExportPublishedOnce`, and `LifecycleImplementsPromise`: each step of the life cycle, mapped to what is offered and given, is a step of `ExportPromise` or leaves it alone |
| `RuleProofs` | `RulesInv`: a request about to record what a rule gave names all that the rule holds; a reversal in flight has an event, and what it found to be another's does not become the rule's | `RulesInvariant`, `RuleEffectsRecorded`, `RuleAppliedOnce`, `RuleRevertKeepsOthers` |
| `LedgerProofs` | `TransferInv`: links join a debit and a credit, what a request will write is such a link, the indexes hold | `TransferInvariant`, `TransferConfirmedOnce`, `TransferAnswersKept` |
| `LedgerProofs` | `SplitInv`: what a replacement in flight will store adds up, and of every other request's splits it has archived all or none; its id is on no row yet | `SplitsAreWhole`, for any sets of positions |
| `LedgerProofs` | `MergeInv`: the open merge of a merged merchant that was committed last leads where the merchant says, a snapshot names a transaction once, an undo in flight holds the merge as it was recorded | `MergeInvariant`, `MergedMerchantsCanBeUndone`, `ManualAssignmentsKept`, `UnmergesAreExact` |
| `PlanningProofs` | `AlertInv`: every row has its columns and satisfies its checks, an edit in flight writes only columns of its table, an evaluation goes through rows and configurations that were stored, and holds the row, the day and the ledgers it read, and the configuration of its phase | `AlertTypes`, `AlertsStay`, `AlertsAreJustified` |
| `AdvisorProofs` | `ProposalsInv`: what a confirmation at each step still owes | `AdvisorProposalsInvariant`, `AdvisorExecutedHasEffect`, `AdvisorConfirmedInTime` |
| `AdvisorProofs` | `ConversationsInv`: a message comes from a request that sent it there, the question before the answer, once each, unless the conversation is being deleted; `GroundedInv`: an answer that passed the validation refers to the facts the request still holds | `AdvisorConversationsInvariant`, `AdvisorConversationsKept`, `AdvisorAnswersAreGrounded` |
| `AdvisorProofs` | `FactsInv`: while a question about sums runs its tools, those left are of its topic, and what the others found is right for the data, unless they were edited since it was asked; the facts it then keeps agree with them | `AdvisorFactsAgree`, for every ledger, range, scope and limit of the lists, the facts and the tool calls |
| `ReportProofs` | `PeriodsInv`: today is a day, and the periods computed from it are right. Its lemmas are the calendar's: the year and month that the formulas give for a day number are those whose first and last day enclose it | `PeriodsAlwaysAgree`, for every day of the calendar and not only those of the run |
| `ReportProofs` | `ExportsInv`: the ledger is one of `Ledgers`, and what was answered to the last question about a file is right | `ExportsAlwaysAgree`, `ArchivesAreClosed`, for every ledger, filter, page size, limit of a file and of an archive, and precision of the cursor |
| `ReportProofs` | `ReportsInv`: the ledger is one of `Ledgers`, and the last dashboard, list of transfers or answer about spending is right | `ReportsAlwaysAgree`, for every ledger, scope and limit of the lists |
| `ReportProofs` | `TextIsExact` itself, since a text depends on its amount alone | `TextsAreExact`, for every integer and any limits of digits on the two sides of the point |
| `ReportProofs` | `BudgetsInv`: the ledger is one of `Ledgers`, today is a day, and what was answered to the last question about a budget is right | `BudgetsAddUp`, for every ledger, day, calendar period, amount, threshold and number of periods carried over; the rollover of a budget that was created before the period it is asked for |

Each proof says first what one step may do to each table or request, then derives
each conjunct of the invariant from that, one step per action, and the theorem
from the invariant.

`MergedMerchantsCanBeUndone` says what is so although events bear the time of their
snapshot: whatever overtakes what, an open event leads where the merchant says, and if
the times of a merchant's open events follow their commits (`InOrder`) it is the one
an undo takes. `SplitsAreWhole` is the promise that the code can keep without a lock:
each replacement stays whole or goes whole, and sets that have a split at position 0,
as those of the web form do (`transactions-workspace.tsx:500-502`), never stay together.

`AlertsAreJustified` is the one that computes. An alert is justified by what its
evaluation held when it inserted: the row, the day and, for a budget, the ledger that
its read of the current period found, each of which may have changed since. The model,
as the code, sums what a budget spent by category and then in total, and adds what
earlier periods left; the property sums the rows of that ledger itself. That the two
agree in whatever order a fold takes the elements is proved by an induction on finite
sets that needs no operator as a parameter: of the subsets for which a claim fails one
would be least, because strict inclusion is well-founded on a finite set (`LeastSet`).
The same argument shows that what is carried over is never negative, so that a share
of the limit is a share of the amount. The lemmas on sums are in `SumProofs`, with
those on sorted and flattened lists.

That an export misses nothing (`ExportComplete`) is an argument about sorting and
about the loop. The rows of a ledger are a finite set that `ExportOrder` orders
strictly, so each row has a rank, one more than the rows before it, and a sorted
sequence has each row at its rank. A page holds the first `PageSize` rows of those
behind the cursor; every row it leaves comes after its last row, so it is behind the
next cursor, also when that has lost its microseconds: losing them moves the cursor
back, never forward. Hence at every turn what was read and what is still behind the
cursor are together all the rows that pass the filters, and no row comes from
elsewhere. A turn that goes on has read a full page, so after `Turns` turns nothing
is left or the limit is exceeded and the file refused. An archive is not refused but
cut: when its manifest counts as many transactions as the limit, `ArchiveIsClosed` lets
rows name transactions beyond it. The same ranks show that the
list shows what it counts, and from the rows the rest of `ExportAgrees` and
`ArchiveIsClosed` follows file by file. That no row is read twice is not proved,
because it is false (section 6).

`BudgetsAddUp` compares a loop with a set. The code goes back from period to period,
taking each from the start of the one after it, until the budget's creation or the
limit; the property speaks of the latest of all completed periods since the creation,
which the loop visits if there is one, that is, if the budget was created before the
current period began; otherwise it carries over a period that the property does not
know (section 6). By the
calendar's lemmas each start is that of the period of the day before, so the starts
fall (`ChainFalls`), no day lies between two periods (`ChainCovers`), and the rounds
of the loop visit just that set (`LatestStarts`); what they add is its sum
(`LoopAddsUp`). The status is computed from the amounts and the percentage is rounded
down: `PercentReaches` says that the percentage reaches a whole number exactly when
the amount does.

`ReportsAlwaysAgree` compares sums that different queries take over different groups
of the same rows. Two lemmas carry it: a sum over a finite set is the sum over its
groups of the sums of the groups (`SumByGroup`), and rows that stand one for each
element of a set add up to the sum over the set (`RowsAddUp`). Since splits add up to
their transaction (`LedgerWhole`), the spending by category is the outflow
(`OutflowSpent`). The categories shown are the largest of those that
`DASHBOARD_GROUP_FETCH_LIMIT` left, so they are part of the spending, and they are all
of it when none was cut off (`CategoriesShown`). What moved is summed by account on one
side and by currency on the other; over all accounts both are the sum of the signed
amounts, where the two sides of a confirmed link cancel, link by link (`SidesCancel`,
`TransfersNet`). The invariant says this of every answer, and an answer is computed in
one step, so it is the operators that are proved about. Accounts that are not active
are not shown: the property speaks of scopes in which they had no part.

`TextsAreExact` says that an amount reads back as itself when it has no more whole
digits than the code reads, and is refused when it has more. It rests on a loop too:
the digits of a fraction, read from the left, are after `n` of them its quotient by
the power of ten of the digits left (`DigitsOfPadded`); and digits trimmed of their
last zeros are what they were once as many zeros are put back (`TrimmedDigits`). A
recursive function of the model, whose meaning is that of an equation, is shown to
have a solution before anything is said of it (`RunExists`, `LoopExists`,
`CarriesExists`). Powers of ten are such a function, because the prover knows nothing
of `^`.

`AdvisorFactsAgree` is about the arithmetic of three tools and about lists that are cut.
A fact is right (`RightFact`) if it is what moved, straight from the transactions, in
its range and currency, or the difference to the days just before; that a summary and a
comparison tell such facts alone (`PeriodToolsRight`) needs a row for every currency
that moved, and that the comparison takes a currency it does not find in one of the
periods for one in which nothing moved (`RowInSays`). Right facts stay right when others
are left out, so it does not matter which the limits cut. A breakdown is different: its
amounts agree as a whole only. Its lists are sorted by amount and flattened, so the
lemmas say what such a list contains and that it repeats nothing (`FlattenedRows`), and
a list shorter than its limit has every category (`ShownAddUp`), whose sum is by
`SumByGroup` the outflow (`BreakdownAgrees`). The facts about a currency may be cut by
either limit, which is why the property speaks of lists shorter than both.

Assumptions. Each `ASSUME` is evaluated by TLC on the instances:

- bounds are naturals and `None` is no other value (`ImportAssumption`,
  `ExportAssumption`, `TreeAssumption`, `SplitAssumption`, `MerchantAssumption`,
  `LedgersAssumption` of `ClassificationRules`, `ConversationsAssumption`,
  `ProposalsAssumption`, `LimitsAssumption`, `ListsAssumption`, `CursorsAssumption`,
  `FlagsAssumption`);
  amounts are scaled integers with at least one digit after the point
  (`AmountsAssumption`, `PlacesAssumption`), dates day numbers, phrases and ranges those
  of the planner (`DatesAssumption`, `PhrasesAssumption`, `RangesAssumption`), and at
  least one period is looked at for a rollover (`RolloverAssumption`);
- what the zod schemas of a request let through
  (`packages/contracts/src/index.ts:1044-1222`) and what the tables check
  (`PlanningAssumption`, `AlertAssumption`, `BudgetsAssumption`: an amount is positive,
  a threshold absent or from 1 to 100), and that a ledger is finite and its amounts
  are scaled integers (`PlanningLedgersAssumption`);
- what the keys of `database/src/schema.ts` say of the tables an export reads: ids are
  keys and what is compared is a number (`LedgersAssumption` and `AccountsAssumption` of
  `ReportReads`), what a foreign key holds exists (`TablesAssumption`; what an alert
  names is held by none, but budgets and goals are never deleted, and of statements
  nothing is assumed), and a transaction has the status of its confirmed link, of which
  the unique indexes allow one (`LinksAssumption`). `ArchivesAreClosed` therefore says
  of the archive what the schema says of the tables, except for the statements that
  alerts name;
- what other modules prove of the tables the reports read: a confirmed link joins a
  debit and a credit (`TransferInv`) that had the same amount and currency when it was
  made (`evaluateTransferPair`, and no code writes those columns again);
- that the splits of a transaction add up to it (`SplitsAssumption`; amounts are
  absolute), and for the advisor the same of the data its tools read
  (`DatabasesAssumption`). This is not so of every ledger: it is so of those in which no
  two replacements at different positions raced, as `ledger_splits` shows (section 6)
  and `SplitsAreWhole` bounds. Where they did, the sums of different reports disagree,
  and the theorems about reports and facts say nothing.

Only model-checked: liveness (`ImportsSettle`, `PreparingSettles`, `OrphansRemoved`,
`FilesExpire`, `AlertsCatchUp`), which the prover does not reach. Every safety property
of every run that passes is a theorem, of the specification of its part where the run
puts two parts side by side (`ledger`, `reads`).

## 6. Where the code and its documents differ

Found by a run that TLC ends with a counterexample (`findings`):

- `ledger_splits`: two replacements at a time whose positions differ both stay, so the
  active splits add up to twice the amount (`phase6.ts:217-224`, no lock on the parent,
  against `docs/splits-merchants-and-transfers.md:11-14`);
- `rollover`: the loop adds what a period left before it asks whether the budget
  existed, so a budget created in the current period carries over the whole of the one
  before (`budgets.ts:279-286` against `docs/budgets-goals-alerts.md:66-69`);
- `export_pages`: the cursor between two pages of an export loses the microseconds
  of `created_at`, so rows of one confirmation at a page's end are exported twice
  (`export/src/queries.ts:151` against `docs/export.md:179-182`).

Seen while modelling, in imports:

- a job whose worker died stays `running` (`imports/src/index.ts:1219` against
  `docs/operations.md:114-116`); an edit takes an imported statement back to review
  (`:649` against `docs/import-pipeline.md:14-31`); a confirmation enters a row that
  was excluded after it was read (`:773` against `docs/import-pipeline.md:157-158`);
- a web process that dies after a confirmation or during an upload leaves an object
  that no cleanup looks for (`:834`, `:143`); a PDF may come to need a mapping
  (`:1443`), though `docs/pdf-import.md` says it never does.

In exports:

- concurrent requests exceed the limit of preparing exports, counted before the insert
  (`export/src/service.ts:168` against `docs/export.md:247-251`); a late attempt that
  grows too large fails an export already published, whose file then stays (`:530`); a
  crash of the cleanup leaves an expired row with a key and no file (`:654` against
  `docs/export.md:194-196`); a retry draws a new key (`:472`), though a comment in
  `storage/src/index.ts` says it rewrites one;
- `render.ts:98-105` writes the note of a workbook row under
  `amount_numeric_non_authoritative` and the number under `note` (columns `:41-46`);
  `row_count` is counted before the generation; an archive is cut at 250 000
  transactions without a word (`queries.ts:302-315`), and `EXPORT_MAX_ARCHIVE_RECORDS`
  is compared with nothing (`docs/export.md:245-250`); alerts of an archive name
  statements, for which it has no file (`planning/src/alerts.ts:323-327`); a saved
  view merged into a request is not validated again.

In the ledger:

- two undos of one merge may both commit, and the second brings alias assignments
  back over choices made by hand since (`phase6.ts:672-730`);
- of two merges of one merchant at a time, the one that took its time first may commit
  last; an undo then takes the other (`phase6.ts:607`, `:679`), makes the merchant
  active again and leaves the merge that had the last word open;
- a suppression may be lost to a concurrent patch (`index.ts:640`);
  `contracts/src/index.ts:1373` compares the bounds of an amount as strings; a change
  of an account's currency leaves its rows in the old one; the uncategorized list
  ignores its range; the latest balance of a day is an arbitrary one of those
  confirmed together (`balance.ts`); `DASHBOARD_GROUP_FETCH_LIMIT` is applied before
  currencies are told apart; the dashboard's today is UTC's, the budgets' the user's.

In planning:

- an alert tells of what an evaluation read, which may be over when it is inserted: the
  row, the day and the ledger may change between the reads and the INSERT
  (`alerts.ts:287-299`, `:356-401`), and the reads of one status may see different
  ledgers; it uses the threshold it listed (`:298`) with the row it read later;
- a patch of the currency alone is not checked against the account; a saved amount is
  lost to a concurrent edit (`goals.ts:125`); the sweep takes the first 500 users only.

In the advisor:

- `money.ts:61` computes a percentage ten times too large (its comment, `:60`, has
  it right), and writes a negative one "-12.-5"; `service.ts:203` gives the tools the
  context's account and currency, not the plan's (`docs/ai-advisor.md:198-199`);
- a proposal confirmed twice is executed twice (`proposals.ts:203` against
  `docs/ai-advisor.md:226`), and an expiry and an execution overwrite each other's
  status; a deletion may leave an answer whose question is gone, an archiving a
  message in an archived conversation.

The properties are stated so as to hold of the code as it is: `ConversationsKept`
speaks of conversations that nobody deletes, `ManualKept` excepts the undo of a
merge, `ConfirmedInTime` does not say "once", `MergedCanBeUndone` names the event of an
undo only when no merge overtook another, `SplitsWhole` speaks of one request's set,
`AlertsJustified` of what the evaluation read, `BudgetAddsUp` of budgets created before
the period, and `ArchiveIsClosed` excepts the statements of alerts and what is cut.

## 7. Not modelled

The lookup of uploads by idempotency key and checksum, fingerprints and duplicate
detection, and the reconciliation of a statement's balances; the text matching of
conditions, aliases, topics and dates; the scores of transfer candidates; the bytes
of CSV, XLSX and ZIP; previews that write nothing; users, sessions and saved views;
the parser, pages, forms, translations and the AI adapter, which keep no state of
their own or are libraries.

## 8. Plan

What is left is outside these modules: the text matching that `Fits` and the advisor's
questions stand for, the duplicate detection of imports, and the web pages that number
splits and name periods.
