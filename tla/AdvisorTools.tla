----------------------------- MODULE AdvisorTools -----------------------------
(***************************************************************************)
(* The advisor's planner, from what a question mentions to the tools that  *)
(* answer it and the range they report over; the tools, the facts made of  *)
(* what they return, and the check that an explanation refers to facts     *)
(* only.                                                                   *)
(* A question is what the planner's patterns find in its text:             *)
(*   phrases, topics      the date phrases and the topic words             *)
(*   spending, wh         spending words; what, why, when, where, which... *)
(*   compare, newBudget   words of comparison; "create a budget"           *)
(*   currency, account    the currency and the account it names            *)
(* and the context that the client sent with it: range, currency, account. *)
(* data is what the database holds for the user: ledger, statements,       *)
(* accounts, budgets, goals and the number of unread alerts.  A fact is a  *)
(* label, a value and a link.                                              *)
(***************************************************************************)
EXTENDS PlanningReports, TransactionFilters

CONSTANTS
    MaxBreakdown,       \* items of a category or merchant breakdown
    MaxRows,            \* budgets and goals
    MaxStatements,      \* rows of the reconciliation tool
    MaxSamples,         \* AI_MAX_TRANSACTION_SAMPLES
    MaxSearchFacts,     \* MAX_SEARCH_FACT_SAMPLES
    MaxFacts            \* MAX_FACTS

\* The order in which TOPIC_PATTERNS is searched.
TopicOrder ==
    <<"reconciliation_status", "budget_status", "goal_progress", "alert_summary",
      "uncategorized_allocations", "merchant_breakdown", "category_breakdown",
      "account_overview", "search_transactions">>

MentionedTopic(question) ==
    IF question.topics = {} THEN "period_summary"
    ELSE TopicOrder[CHOOSE i \in DOMAIN TopicOrder :
            /\ TopicOrder[i] \in question.topics
            /\ \A j \in 1..(i - 1) : TopicOrder[j] \notin question.topics]

\* A question about nothing known is refused; spending from an account is spending.
Topic(question) ==
    LET topic == MentionedTopic(question)
    IN CASE topic = "period_summary" /\ ~question.spending /\ question.wh -> "unsupported"
         [] topic = "account_overview" /\ question.spending -> "period_summary"
         [] OTHER -> topic

PeriodSensitive ==
    {"period_summary", "category_breakdown", "merchant_breakdown",
     "uncategorized_allocations", "search_transactions"}

ToolNamesFor(topic, compare) ==
    CASE topic = "unsupported" -> <<>>
      [] topic = "period_summary" /\ compare -> <<"period_summary", "compare_periods">>
      [] OTHER -> <<topic>>

\* Mutant: a question without a period gets the current month.
RangeOrThisMonth(question, today) ==
    IF question.context.range # None THEN question.context.range
    ELSE LET range == ResolvePhraseDateRange(question.phrases, today)
         IN IF range = None THEN PhraseRange("thisMonth", today) ELSE range

\* The range that the context states or a phrase stands for, never one made up.
RangeOf(question, today) ==
    IF question.context.range # None THEN question.context.range
    ELSE ResolvePhraseDateRange(question.phrases, today)

PlanAdvisorRequest(question, today, currencies) ==
    LET topic == Topic(question)
        range == RangeOf(question, today)
    IN [topic |-> topic,
        tools |-> ToolNamesFor(topic, question.compare),
        range |-> range,
        currency |-> IF question.context.currency # None THEN question.context.currency
                     ELSE IF question.currency \in currencies THEN question.currency ELSE None,
        account |-> IF question.context.account # None THEN question.context.account
                    ELSE question.account,
        proposes |-> question.newBudget /\ topic = "budget_status",
        needsClarification |-> topic \in PeriodSensitive /\ range = None]

\* What the tools are told: the plan's range, but the context's account and currency.
ScopeOf(question, plan) ==
    [range |-> plan.range, currency |-> question.context.currency,
     account |-> question.context.account]

FirstOf(seq, n) == [i \in (1..n) \intersect DOMAIN seq |-> seq[i]]

\* What a tool is told of the scope of the question.
ToolArguments(tool, scope) ==
    LET none == [range |-> None, previous |-> None, currency |-> None, account |-> None]
        whole == [none EXCEPT !.range = scope.range, !.currency = scope.currency,
                              !.account = scope.account]
    IN CASE tool \in {"period_summary", "category_breakdown", "merchant_breakdown",
                      "search_transactions"} -> whole
         [] tool = "compare_periods" -> [whole EXCEPT !.previous = PreviousRangeOf(scope.range)]
         [] tool = "account_overview" -> [whole EXCEPT !.currency = None]
         [] tool = "uncategorized_allocations" -> [none EXCEPT !.currency = scope.currency]
         [] OTHER -> none

ReportScope(scope, range) == [from |-> range.from, to |-> range.to, account |-> scope.account]

InCurrency(rows, currency) == {r \in rows : Matches(currency, r.currency)}

Nothing(currency) ==
    [currency |-> currency, inflow |-> 0, outflow |-> 0, net |-> 0, count |-> 0, unresolved |-> 0]

\* A currency that was asked for is reported even where nothing moved in it.
PeriodSummary(data, scope, range) ==
    LET rows == InCurrency(CashFlow(data.ledger, ReportScope(scope, range)), scope.currency)
    IN IF scope.currency # None /\ rows = {} THEN {Nothing(scope.currency)} ELSE rows

DistinctCurrencies(data, scope) ==
    LET of == ReportScope(scope, scope.range)
    IN {t.currency : t \in {u \in data.ledger : Within(u, of)}}
       \union {a.currency : a \in {b \in data.accounts : Matches(scope.account, b.id)}}

CategoryBreakdown(data, scope) ==
    LET currencies == IF scope.currency # None THEN {scope.currency}
                      ELSE DistinctCurrencies(data, scope)
        Spending(c) == ExpenseSpending(data.ledger, c, ReportScope(scope, scope.range))
        Items(c) == {[category |-> k, amount |-> Spending(c).byCategory[k],
                      share |-> AdvisorPercentOf(Spending(c).byCategory[k], Spending(c).total)] :
                        k \in DOMAIN Spending(c).byCategory}
    IN {[currency |-> c, total |-> Spending(c).total,
         items |-> Largest(Items(c), MaxBreakdown)] : c \in currencies}

MerchantBreakdown(data, scope) ==
    LET of == ReportScope(scope, scope.range)
        currencies == {g.currency : g \in InCurrency(MerchantGroups(data.ledger, of), scope.currency)}
    IN {[currency |-> c, items |-> FirstOf(DashboardMerchants(data.ledger, of, c), MaxBreakdown)] :
          c \in currencies}

\* Without a range every owned account counts, with one the active accounts.
AccountOverview(data, scope) ==
    LET named == {a \in data.accounts : Matches(scope.account, a.id)}
        Balance(a) == [account |-> a.id, currency |-> a.currency,
                       balance |-> KnownBalances(data.ledger, data.statements, a)]
    IN IF scope.range = None THEN {Balance(a) : a \in named}
       ELSE {Balance(a) @@ AccountActivity(data.ledger, ReportScope(scope, scope.range), a) :
                a \in {b \in named : b.status = "active"}}

\* Rows come in order of creation and are cut to the limit of the tool.
Oldest(S, n) == FirstOf(SetToSortSeq(S, LAMBDA x, y : x.order < y.order), n)

BudgetRows(data, today) ==
    LET rows == Oldest({b \in data.budgets : ~b.archived}, MaxRows)
    IN [i \in DOMAIN rows |-> [budget |-> rows[i].id, currency |-> rows[i].currency]
                                @@ BudgetStatus(data.ledger, rows[i], today)]

GoalRows(data, today) ==
    LET rows == Oldest({g \in data.goals : ~g.archived}, MaxRows)
    IN [i \in DOMAIN rows |-> [goal |-> rows[i].id, target |-> rows[i].target]
                                @@ GoalProgress(rows[i], None, today)]

UncategorizedRows(data, scope) == InCurrency(UncategorizedAllocations(data.ledger), scope.currency)

Reconciliation(data) ==
    FirstOf(SetToSortSeq({s \in data.statements : s.status = "imported"},
                         LAMBDA s, r : s.updatedAt > r.updatedAt), MaxStatements)

SearchQuery(scope) ==
    [NoFilter EXCEPT !.dateFrom = scope.range.from, !.dateTo = scope.range.to,
                     !.currency = scope.currency, !.account = scope.account]

ComparePeriods(data, scope) ==
    LET current == CashFlow(data.ledger, ReportScope(scope, scope.range))
        previous == CashFlow(data.ledger, ReportScope(scope, scope.previous))
        found == {r.currency : r \in InCurrency(current \union previous, scope.currency)}
        currencies == IF scope.currency # None /\ found = {} THEN {scope.currency} ELSE found
        Of(rows, c) == IF \E r \in rows : r.currency = c
                       THEN CHOOSE r \in rows : r.currency = c ELSE Nothing(c)
    IN {[currency |-> c,
         expense |-> CompareValues(Of(current, c).outflow, Of(previous, c).outflow),
         income |-> CompareValues(Of(current, c).inflow, Of(previous, c).inflow)] : c \in currencies}

------------------------------------------------------------------------------
(* Facts.                                                                  *)

Fact(label, value, link) == [label |-> label, value |-> value, link |-> link]

NoLink == None

Ledger(range, currency, category) == <<"transactions", range, currency, category>>

\* Several facts of each of a set of rows, the rows in any order.
FactsOfRows(rows, Of(_)) ==
    LET seq == SetToSeq(rows) IN FlattenSeq([i \in DOMAIN seq |-> Of(seq[i])])

FactsOfList(seq, Of(_)) == FlattenSeq([i \in DOMAIN seq |-> Of(seq[i])])

SummaryFacts(rows, range) ==
    FactsOfRows(rows, LAMBDA r :
        LET link == Ledger(range, r.currency, None)
        IN <<Fact(<<"income", r.currency>>, r.inflow, link),
             Fact(<<"expenses", r.currency>>, r.outflow, link),
             Fact(<<"net", r.currency>>, r.net, link),
             Fact(<<"count", r.currency>>, r.count, NoLink)>>)

CategoryFacts(groups, range) ==
    FactsOfRows(groups, LAMBDA g : [i \in DOMAIN g.items |->
        Fact(<<"category", g.items[i].category, g.currency>>, g.items[i].amount,
             Ledger(range, g.currency, g.items[i].category))])

MerchantFacts(groups, range) ==
    FactsOfRows(groups, LAMBDA g : [i \in DOMAIN g.items |->
        Fact(<<"merchant", g.items[i].merchant, g.currency>>, g.items[i].amount,
             Ledger(range, g.currency, None))])

AccountFacts(rows) ==
    FactsOfRows(rows, LAMBDA r : <<Fact(<<"balance", r.account>>, r.balance, NoLink)>>)

BudgetFacts(rows) ==
    FactsOfList(rows, LAMBDA b :
        <<Fact(<<"limit", b.budget>>, b.limit, "budgets"),
          Fact(<<"spent", b.budget>>, b.spent, "budgets"),
          Fact(<<"remaining", b.budget>>, b.remaining, "budgets"),
          Fact(<<"used", b.budget>>, b.percentageUsed, "budgets")>>)

\* A goal whose balance is not known has no amount to show.
GoalFacts(rows) ==
    FactsOfList(rows, LAMBDA g :
        <<Fact(<<"target", g.goal>>, g.target, "goals")>>
        \o (IF g.available
            THEN <<Fact(<<"saved", g.goal>>, g.current, "goals"),
                   Fact(<<"left", g.goal>>, g.remaining, "goals"),
                   Fact(<<"complete", g.goal>>, g.percentageComplete, "goals")>>
            ELSE <<Fact(<<"progress", g.goal>>, "unavailable", "goals")>>))

UncategorizedFacts(rows, range) ==
    FactsOfRows(rows, LAMBDA r :
        <<Fact(<<"uncategorized", r.currency>>, r.amount, Ledger(range, r.currency, None)),
          Fact(<<"uncategorized_count", r.currency>>, r.count, NoLink)>>)

ReconciliationFacts(rows) ==
    FactsOfList(rows, LAMBDA s :
        IF s.reconciliation = "mismatch"
        THEN <<Fact(<<"difference", s.id>>, s.difference, "imports")>>
        ELSE <<Fact(<<"reconciliation", s.id>>, s.reconciliation, "new_import")>>)

SearchFacts(found, range, currency) ==
    <<Fact(<<"matching">>, found.total, Ledger(range, currency, None))>>
    \o FactsOfList(FirstOf(found.items, MaxSearchFacts),
                   LAMBDA t : <<Fact(<<"transaction", t.id>>, t.amount, <<"search", t.id>>)>>)

ComparisonFacts(deltas) ==
    FactsOfRows(deltas, LAMBDA d :
        <<Fact(<<"expense_change", d.currency>>, d.expense.change, NoLink)>>
        \o (IF d.expense.percentage = None THEN <<>>
            ELSE <<Fact(<<"expense_percentage", d.currency>>, d.expense.percentage, NoLink)>>)
        \o <<Fact(<<"income_change", d.currency>>, d.income.change, NoLink)>>)

\* One tool, run on what the database holds, and the facts of its output.
ToolFacts(tool, data, scope, today) ==
    LET told == ToolArguments(tool, scope)
    IN CASE tool = "period_summary" ->
                 SummaryFacts(PeriodSummary(data, told, told.range), scope.range)
         [] tool = "category_breakdown" -> CategoryFacts(CategoryBreakdown(data, told), scope.range)
         [] tool = "merchant_breakdown" -> MerchantFacts(MerchantBreakdown(data, told), scope.range)
         [] tool = "account_overview" -> AccountFacts(AccountOverview(data, told))
         [] tool = "budget_status" -> BudgetFacts(BudgetRows(data, today))
         [] tool = "goal_progress" -> GoalFacts(GoalRows(data, today))
         [] tool = "alert_summary" -> <<Fact(<<"unread">>, data.unread, "alerts")>>
         [] tool = "uncategorized_allocations" ->
                 UncategorizedFacts(UncategorizedRows(data, told), scope.range)
         [] tool = "reconciliation_status" -> ReconciliationFacts(Reconciliation(data))
         [] tool = "search_transactions" ->
                 SearchFacts(ListTransactions(data.ledger, SearchQuery(told), MaxSamples, 0),
                             scope.range, scope.currency)
         [] tool = "compare_periods" -> ComparisonFacts(ComparePeriods(data, told))

\* Facts are numbered in order; what exceeds the limit is left out.
Numbered(facts) == FirstOf(facts, MaxFacts)

\* Mutant: only the cited facts are looked up, not the placeholders.
CitedAreFacts(response, facts) ==
    response.cited # {} /\ response.cited \subseteq DOMAIN facts

\* An explanation is accepted if it refers to facts, and to nothing else.
ValidExplanation(response, facts) ==
    LET referenced == response.placeholders \union response.cited
    IN referenced # {} /\ referenced \subseteq DOMAIN facts

\* The links of the cited facts, each once.
Drilldowns(cited, facts) == {facts[i].link : i \in cited} \ {NoLink}
=============================================================================
