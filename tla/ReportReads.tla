------------------------------ MODULE ReportReads ------------------------------
(***************************************************************************)
(* The reads that compute: a request names its question, the answer is     *)
(* what the packages calculate for it.  Nothing is written, so a behaviour *)
(* is any sequence of questions, and the properties compare the answers of *)
(* different packages with each other and with what was asked.             *)
(***************************************************************************)
EXTENDS PlanningReports, ExportContents

CONSTANTS
    Links,          \* transfer links: [id, outgoing, incoming, status]
    Tables,         \* the other tables, as ExportContents has them
    Requests,       \* exports that may be requested
    TransferQueries,\* filters of the list of transfers
    TransferLimit,  \* its page
    Amounts,        \* scaled integers to be written as text
    Dates,          \* the days that may be today
    Ledgers,        \* sets of transactions
    AccountTable,   \* [id, currency, status]
    CurrencyCodes,  
    Budgets,        \* budget rows
    Goals,          \* savings goals tracked by hand
    Phrases,        \* sets of phrases that a message may contain
    Window          \* DASHBOARD_DEFAULT_PERIOD_DAYS

\* An amount is its scaled integer, a date its day number, a message contains some of
\* the phrases that the planner knows, and null is neither a range of dates nor a flag.
ASSUME DatesAssumption == Dates \subseteq Int
ASSUME PhrasesAssumption == \A found \in Phrases : found \subseteq ToSet(PhraseKeys)
ASSUME RangesAssumption == None \notin [from : Int, to : Int]
ASSUME AmountsAssumption == Amounts \subseteq Int
ASSUME FlagsAssumption == None \notin {"true", "false", "confirmed"}

\* An id is a key, of a transaction, of a split and of a row of another table;
\* what is compared is a number, and what a row refers to exists.
Measured(t) == {t.id, t.date, t.created, t.amount, t.description} \subseteq Int

ASSUME LedgersAssumption ==
    \A l \in Ledgers :
       /\ IsFiniteSet(l) /\ Keyed(l)
       /\ \A t \in l : /\ Measured(t) /\ IsFiniteSet(t.splits) /\ Keyed(t.splits)
                       /\ \A s \in t.splits : s.amount \in Int

\* An amount is absolute, and the splits of a transaction add up to it: as they do in a
\* ledger in which no two replacements raced (InternalTransfers.SplitsSumToParent).
ASSUME SplitsAssumption ==
    \A l \in Ledgers : \A t \in l :
       /\ t.amount \in Nat /\ \A s \in t.splits : s.amount \in Nat
       /\ ActiveSplits(t) # {} => Total(ActiveSplits(t)) = t.amount

ASSUME AccountsAssumption == IsFiniteSet(AccountTable) /\ Keyed(AccountTable)
ASSUME ListsAssumption == {TopN, FetchLimit, TransferLimit} \subseteq Nat

\* An alert is about a budget or a goal, or a statement by its id alone: no foreign
\* key holds what it names.
OfStatement(f, ref) == f = "alerts" /\ ref[1] = "statements"

\* What else the tables that are exported whole, merchants and conversations refer to
\* exists: foreign keys hold it, and budgets and goals are never deleted.
Closed(f) ==
    \A r \in Tables[f] : \A ref \in {k \in r.refs : ~OfStatement(f, k)} :
       /\ ref[1] \in WholeTables \union {"merchants"}
       /\ ref[2] \in {s.id : s \in Tables[ref[1]]}

ASSUME TablesAssumption ==
    /\ \A f \in WholeTables \union {"merchants", "threads"} : Closed(f)
    /\ \A a \in Tables.aliases : a.owner \in {r.id : r \in Tables.merchants}
    /\ \A m \in Tables.messages : m.owner \in {r.id : r \in Tables.threads}

\* A link refers to transactions that exist.
LinksOf(l) ==
    LET ids == {t.id : t \in l} IN {k \in Links : {k.outgoing, k.incoming} \subseteq ids}

\* What was the same money on its way: as it must be for a link to be confirmed,
\* and no such column of a transaction is written again.
Opposite(t, u) ==
    /\ t.direction = "debit" /\ u.direction = "credit"
    /\ t.amount = u.amount /\ t.currency = u.currency

\* A transaction carries the status of its confirmed link, of which it has one at most.
ASSUME LinksAssumption ==
    /\ IsFiniteSet(Links) /\ Keyed(Links)
    /\ \A k \in Links :
          k.id \in Int /\ k.status \in {"confirmed", "suggested", "rejected", "unlinked"}
    /\ \A l \in Ledgers : \A k \in LinksOf(l) : k.status = "confirmed" =>
          /\ \A t, u \in l : t.id = k.outgoing /\ u.id = k.incoming => Opposite(t, u)
          /\ \A m \in LinksOf(l) \ {k} : m.status = "confirmed" =>
                {k.outgoing, k.incoming} \intersect {m.outgoing, m.incoming} = {}
    /\ \A l \in Ledgers : \A t \in l :
          t.transfer = "confirmed" <=>
             \E k \in LinksOf(l) : k.status = "confirmed" /\ t.id \in {k.outgoing, k.incoming}

Calendar == {"weekly", "monthly", "yearly"}

\* What the tables check of a budget.
ASSUME BudgetsAssumption ==
    \A b \in Budgets :
       /\ b.period \in Calendar \union {"custom"} /\ b.amount \in Nat \ {0}
       /\ b.threshold \in {None} \union 1..100 /\ b.created \in Int /\ b.rollover \in BOOLEAN

VARIABLES
    ledger,         \* the confirmed and archived transactions of one user
    today,
    asked, answer

reportVars == <<ledger, today, asked, answer>>

ReportInit == ledger \in Ledgers /\ today \in Dates /\ asked = [kind |-> "none"] /\ answer = None

\* A request asks one question; TLC need not put them in every order.
Ask(question, reply) ==
    /\ asked.kind = "none"
    /\ asked' = question /\ answer' = reply
    /\ UNCHANGED <<ledger, today>>

\* What reads no transaction is asked of the empty ledger only.
Ledgerless == ledger = {}

WriteAmount(value) ==
    Ledgerless /\ Ask([kind |-> "text", value |-> value], DecimalText(value))

AskPeriod(period) ==
    Ledgerless /\ Ask([kind |-> "period", period |-> period],
                      CurrentPeriodBounds(period, today, None))

AskPhrase(found) ==
    Ledgerless /\ Ask([kind |-> "phrase", found |-> found], ResolvePhraseDateRange(found, today))

AskChange(current, previous) ==
    Ledgerless /\ Ask([kind |-> "change", current |-> current, previous |-> previous],
                      CompareValues(current, previous))

Scope(account) ==
    LET bounds == DashboardBounds(None, None, today, Window)
    IN [from |-> bounds.from, to |-> bounds.to, account |-> account]

AskDashboard(account) ==
    LET scope == Scope(account)
    IN Ask([kind |-> "dashboard", scope |-> scope],
           [cashFlow |-> CashFlow(ledger, scope),
            categories |-> [c \in CurrencyCodes |-> DashboardCategories(ledger, scope, c)],
            merchants |-> [c \in CurrencyCodes |-> DashboardMerchants(ledger, scope, c)],
            accounts |-> {AccountActivity(ledger, scope, a) :
                            a \in {b \in AccountTable : b.status = "active"}},
            attention |-> Attention(ledger, {})])

AskSpending(currency, account) ==
    LET scope == Scope(account)
    IN Ask([kind |-> "spending", scope |-> scope, currency |-> currency],
           [spending |-> ExpenseSpending(ledger, currency, scope),
            uncategorized |-> UncategorizedAllocations(ledger)])

AskBudget(budget) ==
    /\ budget.created <= today
    /\ Ask([kind |-> "budget", budget |-> budget], BudgetStatus(ledger, budget, today))

AskOverview ==
    LET existing == {b \in Budgets : b.created <= today}
    IN Ask([kind |-> "overview"], PlanningSummary(ledger, existing, Goals, None, today))

\* The preview of a proposed budget.
AskPreview(budget) ==
    LET bounds == CurrentPeriodBounds(budget.period, today, budget.custom)
        spending == ExpenseSpending(ledger, budget.currency,
                                    [from |-> bounds.start, to |-> bounds.end,
                                     account |-> budget.account])
    IN Ask([kind |-> "preview", budget |-> budget],
           IF budget.category = None THEN spending.total
           ELSE ValuesSum(spending.byCategory,
                          {c \in DOMAIN spending.byCategory : c = budget.category}))

AskTransfers(query) ==
    Ask([kind |-> "transfers", query |-> query],
        ListInternalTransfers(ledger, LinksOf(ledger), query, TransferLimit))

\* The request is stored with the filters of its saved view, and counted and
\* read with those.
Stored(request) == [request EXCEPT !.query = ResolvedQuery(@, request.view)]

AskExport(request) ==
    /\ request.type # "account_archive"
    /\ Ask([kind |-> "export", request |-> Stored(request)],
           TransactionsFile(ledger, LinksOf(ledger), Stored(request)))

AskArchive(request) ==
    /\ request.type = "account_archive"
    /\ Ask([kind |-> "archive", request |-> request],
           Archive(ledger, LinksOf(ledger), Tables, request))

AccountScopes == {None} \union {a.id : a \in AccountTable}

ReportNext ==
    \/ \E v \in Amounts : WriteAmount(v)
    \/ \E p \in Calendar : AskPeriod(p)
    \/ \E f \in Phrases : AskPhrase(f)
    \/ \E v, w \in Amounts : AskChange(v, w)
    \/ \E a \in AccountScopes : AskDashboard(a)
    \/ \E c \in CurrencyCodes, a \in AccountScopes : AskSpending(c, a)
    \/ \E b \in Budgets : AskBudget(b)
    \/ \E b \in Budgets : AskPreview(b)
    \/ \E q \in TransferQueries : AskTransfers(q)
    \/ \E r \in Requests : AskExport(r)
    \/ \E r \in Requests : AskArchive(r)
    \/ AskOverview

ReportSpec == ReportInit /\ [][ReportNext]_reportVars

------------------------------------------------------------------------------
(* Properties.                                                             *)

\* An amount that the database's NUMERIC has the digits for is written as the
\* text that reads back as itself, and no other is read; the text has the one
\* canonical form: that of the NUMERIC, trimmed, is the same (scaledIntegerTo-
\* Decimal, decimalToScaledInteger and trimNumeric).
TextIsExact ==
    asked.kind = "text" =>
       /\ ScaledValue(answer) =
             IF Absolute(asked.value) < WholeLimit * Factor THEN asked.value ELSE None
       /\ TrimNumeric([answer EXCEPT !.fraction = @ \o Zeros(Places - Len(@))]) = answer

\* The days of a calendar period all have that period for theirs, the period
\* before it ends on the day before, and two periods share no key.
PeriodsTile(period, day, bounds) ==
    LET Same(d) == CurrentPeriodBounds(period, d, None) = bounds
    IN /\ bounds.start <= day /\ day <= bounds.end
       /\ \A d \in bounds.start..bounds.end : Same(d)
       /\ bounds.previousEnd + 1 = bounds.start
       /\ LET before == CurrentPeriodBounds(period, bounds.previousEnd, None)
          IN /\ before.start = bounds.previousStart /\ before.end = bounds.previousEnd
             /\ PeriodKey(period, before) # PeriodKey(period, bounds)
       /\ DaysRemaining(day, bounds.end) \in 1..(bounds.end - bounds.start + 1)

\* A phrase stands for the days a budget of that period would count, and the
\* range it is compared with is as long and ends on the day before.
PhraseAgrees(found, range) ==
    LET Previous(period) == LET b == CurrentPeriodBounds(period, today, None)
                          IN [from |-> b.previousStart, to |-> b.previousEnd]
    IN IF range = None THEN found = {}
       ELSE /\ range.from <= range.to /\ range.to <= today
            /\ found = {"lastMonth"} => range = Previous("monthly")
            /\ found = {"lastWeek"}  => range = Previous("weekly")
            /\ found = {"lastYear"}  => range = Previous("yearly")
            /\ \A option \in {"thisMonth", "lastMonth", "last30", "ytd"} :
                  found = {option} => ClarificationRange(option, today) = range
            /\ LET earlier == PreviousRangeOf(range)
               IN /\ earlier.to + 1 = range.from
                  /\ earlier.to - earlier.from = range.to - range.from

\* Budgets, the dashboard and the advisor mean the same days by a period
\* (currentPeriodBounds, resolvePhraseDateRange, previousRangeOf).
PeriodsAgree ==
    /\ asked.kind = "period" => PeriodsTile(asked.period, today, answer)
    /\ asked.kind = "phrase" => PhraseAgrees(asked.found, answer)

\* The debits of a scope, each counted once and whole.
Spent(scope, currency) ==
    Total({t \in Expenses(ledger, scope) : t.currency = currency})

\* Where no category falls off the list, its entries add up to the outflow;
\* never do they exceed it.
CategoriesAddUp(scope, currency, entries) ==
    LET shown == Total(ToSet(entries))
        groups == CategoryGroups(ledger, scope)
        own == {g \in groups : g.currency = currency /\ g.category # None}
    IN /\ shown <= Spent(scope, currency)
       /\ Cardinality(groups) <= FetchLimit /\ Cardinality(own) <= TopN
             => shown = Spent(scope, currency)

\* Over all accounts, what moved is the cash flow: both sides of a transfer
\* count for their accounts and cancel out.  That holds where no archived
\* account had a part in it and no transfer reaches out of the scope.
TransfersCancel(scope, activity, flows) ==
    LET shown == {e.account : e \in activity}
    IN scope.account = None
       /\ (\A t \in ledger : t.transfer = "confirmed" => Within(t, scope))
       /\ (\A t \in ledger : Within(t, scope) => t.account \in shown)
          => SumOver(activity, LAMBDA e : e.net) = SumOver(flows, LAMBDA f : f.net)

\* The list of the confirmed transfers of an account and some days shows both
\* sides of each, and shows every transaction that the reports leave out.
TransfersShown(query, listed) ==
    LET sides == UNION {{l.outgoing, l.incoming} : l \in ToSet(listed)}
    IN \A t \in ledger :
          /\ t.id \in sides => ~Counted(t)
          /\ t.transfer = "confirmed" /\ Matches(query.account, t.account)
               /\ Matches(query.currency, t.currency)
               /\ InRange(t.date, query.dateFrom, query.dateTo) => t.id \in sides

\* Spending of a budget, outflow and categories of the dashboard and the
\* uncategorized allocations are sums of the same transactions: splits stand
\* for their parent, confirmed transfers for nothing.
ReportsAgree ==
    /\ asked.kind = "dashboard" =>
          /\ \A c \in CurrencyCodes :
                CategoriesAddUp(asked.scope, c, answer.categories[c])
          /\ \A f \in answer.cashFlow : f.outflow = Spent(asked.scope, f.currency)
          /\ TransfersCancel(asked.scope, answer.accounts, answer.cashFlow)
    /\ asked.kind = "transfers" /\ asked.query.status = "confirmed"
         /\ Len(answer) < TransferLimit =>
          TransfersShown(asked.query, answer)
    /\ asked.kind = "spending" =>
          /\ answer.spending.total = Spent(asked.scope, asked.currency)
          /\ asked.scope.account = None /\ None \in DOMAIN answer.spending.byCategory =>
                \E u \in answer.uncategorized :
                   u.currency = asked.currency /\ u.amount >= answer.spending.byCategory[None]

\* "Bounded to the 12 most recent periods (and never before the budget's creation
\* date)": the starts of the completed periods that a budget may carry over from.
CarriedStarts(budget, bounds) ==
    LET since == {CurrentPeriodBounds(budget.period, d, None).start :
                    d \in budget.created..(bounds.start - 1)}
    IN {s \in since : Cardinality({r \in since : r > s}) < RolloverPeriods}

Unspent(l, budget, start) ==
    LET bounds == CurrentPeriodBounds(budget.period, start, None)
        left == budget.amount - SpentInBounds(l, budget, bounds.start, bounds.end)
    IN IF left > 0 THEN left ELSE 0

DocumentedCarry(l, budget, bounds) ==
    IF budget.rollover
    THEN SumOver(CarriedStarts(budget, bounds), LAMBDA s : Unspent(l, budget, s)) ELSE 0

\* A budget that was created before the current period carries over what each
\* completed period since its creation left and never a debt, its status says the
\* same as its percentage, which is rounded on its own, and the preview of a budget
\* shows what the budget will (getBudgetStatus, percentOf).
BudgetAddsUp ==
    /\ asked.kind = "preview" => answer = BudgetStatus(ledger, asked.budget, today).spent
    /\ asked.kind = "budget" /\ asked.budget.period # "custom" =>
       LET bounds == CurrentPeriodBounds(asked.budget.period, today, None)
           used == answer.percentageUsed
       IN /\ asked.budget.created < bounds.start
                => answer.carried = DocumentedCarry(ledger, asked.budget, bounds)
          /\ answer.status = "exceeded" <=> answer.limit > 0 /\ answer.remaining <= 0
          /\ answer.status = "exceeded" <=> used.whole >= 100
          /\ answer.status = "approaching" <=> used.whole \in WarningThreshold(asked.budget)..99

\* The same sum for every budget, as the documentation has it: one that was created
\* in the current period carries nothing over.
CarriedAsDocumented ==
    asked.kind = "budget" /\ asked.budget.period # "custom" =>
       LET bounds == CurrentPeriodBounds(asked.budget.period, today, None)
       IN answer.carried = DocumentedCarry(ledger, asked.budget, bounds)

\* An export that is not refused misses none of the transactions that the list
\* counts with the same filters and adds none, its rows say "confirmed transfer"
\* where the reports leave a transaction out, the splits of a workbook are those
\* its rows count, and cells stand under their columns, save in a workbook with
\* notes (ExportContents.Columns).
ExportAgrees ==
    asked.kind = "export" /\ answer # Refused =>
       LET request == asked.request
           rows == ToSet(answer[1].rows)
           shown == {row.id : row \in rows}
           listed == ListTransactions(ledger, request.query, Cardinality(ledger), 0)
       IN /\ shown = {t.id : t \in ToSet(listed.items)} /\ Cardinality(shown) = listed.total
          /\ \A t \in ledger, row \in rows :
                t.id = row.id => (row.transfer = "confirmed" <=> ~Counted(t))
          /\ Len(answer) = 3 => \A row \in rows :
                Cardinality({s \in answer[2].rows : s.transaction = row.id}) = row.splitCount
          /\ request.type = "transactions_csv" \/ ~request.includeNotes
                => answer[1].columns = answer[1].cells

\* Whatever a row of an archive refers to is in the archive, save the statement of an
\* alert, for which there is no file, and the transactions that are dropped beyond the
\* limit; no other transaction, and no alias or message, is left out (fetchArchive-
\* Transactions, the resources of the archive).
ArchiveIsClosed ==
    asked.kind = "archive" =>
       LET held == [f \in DOMAIN answer.files |-> {row.id : row \in answer.files[f]}]
           ids == {t.id : t \in ledger}
           full == answer.manifest["transactions"] = MaxArchiveRows
       IN /\ held["transactions"] \subseteq ids /\ (held["transactions"] = ids \/ full)
          /\ UNION {row.parts : row \in answer.files["merchants"]} = {a.id : a \in Tables.aliases}
          /\ asked.request.includeConversations =>
                UNION {row.parts : row \in answer.files["advisor"]}
                   = {m.id : m \in Tables.messages}
          /\ \A f \in DOMAIN answer.files : \A row \in answer.files[f] : \A ref \in row.refs :
                \/ ref[1] \in DOMAIN held /\ ref[2] \in held[ref[1]]
                \/ OfStatement(f, ref)
                \/ full /\ ref[1] = "transactions" /\ ref[2] \in ids

\* "Concurrent writes can neither duplicate nor skip rows": a transaction is in
\* one row of an export.
ExportedOnce ==
    asked.kind = "export" /\ answer # Refused =>
       LET rows == answer[1].rows
       IN \A i, j \in DOMAIN rows : rows[i].id = rows[j].id => i = j
=============================================================================
