---------------------------- MODULE LedgerReports ----------------------------
(***************************************************************************)
(* What the ledger is summed up to: the spending that budgets and alerts   *)
(* use, the known balance of an account and the dashboard.  Amounts are    *)
(* scaled integers, dates are day numbers.  A ledger is a set of           *)
(* transactions; a transaction carries its splits and the status of its    *)
(* transfer link.                                                          *)
(***************************************************************************)
EXTENDS DecimalMoney, FiniteSetsExt

CONSTANTS
    TopN,              \* DASHBOARD_TOP_N
    FetchLimit         \* DASHBOARD_GROUP_FETCH_LIMIT

SumOver(S, amount(_)) == MapThenSumSet(amount, S)

Total(S) == SumOver(S, LAMBDA r : r.amount)

ValuesSum(v, S) == SumOver(S, LAMBDA c : v[c])

\* The first n of a set in descending order of amount; ties fall as they may.
Falls(s) == \A i, j \in DOMAIN s : i < j => s[i].amount >= s[j].amount

Largest(S, n) ==
    LET ranked == CHOOSE s \in [1..Cardinality(S) -> S] : IsInjective(s) /\ Falls(s)
    IN SubSeq(ranked, 1, Min({n, Cardinality(S)}))

------------------------------------------------------------------------------
(* Allocations: active splits stand for their transaction.                 *)

ActiveSplits(t) == {s \in t.splits : ~s.archived}

\* Mutant: a join without the condition on archived splits.
AllocationsOfAllSplits(t) ==
    IF t.splits = {}
    THEN {[transaction |-> t.id, split |-> None, currency |-> t.currency,
           category |-> t.category, amount |-> t.amount]}
    ELSE {[transaction |-> t.id, split |-> s.id, currency |-> t.currency,
           category |-> s.category, amount |-> s.amount] : s \in t.splits}

Allocations(t) ==
    IF ActiveSplits(t) = {}
    THEN {[transaction |-> t.id, split |-> None, currency |-> t.currency,
           category |-> t.category, amount |-> t.amount]}
    ELSE {[transaction |-> t.id, split |-> s.id, currency |-> t.currency,
           category |-> s.category, amount |-> s.amount] : s \in ActiveSplits(t)}

\* An id is a key, among transactions and among splits.
Keyed(S) == \A r, s \in S : r.id = s.id => r = s

\* What the ledger's tables keep of transactions: keys, and splits that add up.
Whole(T) ==
    /\ IsFiniteSet(T) /\ Keyed(T)
    /\ \A t \in T : /\ t.amount \in Nat /\ IsFiniteSet(t.splits) /\ Keyed(t.splits)
                    /\ \A s \in t.splits : s.amount \in Nat
                    /\ ActiveSplits(t) # {} => Total(ActiveSplits(t)) = t.amount

Within(t, scope) ==
    /\ t.status = "confirmed"
    /\ scope.from <= t.date /\ t.date <= scope.to
    /\ scope.account # None => t.account = scope.account

Counted(t) == t.transfer # "confirmed"

ExpenseSpending(ledger, currency, scope) ==
    LET rows == UNION {Allocations(t) : t \in {u \in ledger :
                          Within(u, scope) /\ Counted(u)
                             /\ u.direction = "debit" /\ u.currency = currency}}
        categories == {r.category : r \in rows}
        byCategory == [c \in categories |-> Total({r \in rows : r.category = c})]
    IN [byCategory |-> byCategory, total |-> ValuesSum(byCategory, categories)]

UncategorizedAllocations(ledger) ==
    LET rows == {r \in UNION {Allocations(t) : t \in {u \in ledger :
                                  u.status = "confirmed" /\ u.direction = "debit" /\ Counted(u)}} :
                   r.category = None}
    IN {[currency |-> c, count |-> Cardinality({r \in rows : r.currency = c}),
         amount |-> Total({r \in rows : r.currency = c})] :
            c \in {r.currency : r \in rows}}

------------------------------------------------------------------------------
(* Known balances.                                                         *)

\* Rows of one confirmation share their creation time, and ids are random:
\* any of the latest of them may come first.
Latest(S, later(_, _)) == {x \in S : \A y \in S : ~later(y, x)}

KnownBalances(ledger, statements, account) ==
    LET transactions == {t \in ledger : /\ t.account = account.id /\ t.status = "confirmed"
                                        /\ t.currency = account.currency /\ t.balance # None}
        closed == {s \in statements : s.account = account.id /\ s.confirmedAt # None
                                         /\ s.closing # None}
        NewerTransaction(t, u) ==
            t.date > u.date \/ (t.date = u.date /\ t.created > u.created)
        NewerStatement(s, r) ==
            IF s.periodEnd = r.periodEnd THEN s.confirmedAt > r.confirmedAt
            ELSE IF None \in {s.periodEnd, r.periodEnd} THEN r.periodEnd = None
            ELSE s.periodEnd > r.periodEnd
    IN IF transactions # {}
       THEN {[amount |-> t.balance, asOf |-> t.date] : t \in Latest(transactions, NewerTransaction)}
       ELSE IF closed # {}
       THEN {[amount |-> s.closing,
              asOf |-> IF s.periodEnd = None THEN s.confirmedAt ELSE s.periodEnd] :
                s \in Latest(closed, NewerStatement)}
       ELSE {None}

------------------------------------------------------------------------------
(* The dashboard.                                                          *)

Flow(rows, direction) ==
    Total({t \in rows : t.direction = direction})

CashFlow(ledger, scope) ==
    LET rows == {t \in ledger : Within(t, scope) /\ Counted(t)}
        Of(c) == {t \in rows : t.currency = c}
    IN {[currency |-> c, inflow |-> Flow(Of(c), "credit"), outflow |-> Flow(Of(c), "debit"),
         net |-> Flow(Of(c), "credit") - Flow(Of(c), "debit"), count |-> Cardinality(Of(c)),
         unresolved |-> Cardinality({t \in Of(c) : t.direction = "unknown"})] :
            c \in {t.currency : t \in rows}}

Expenses(ledger, scope) ==
    {t \in ledger : Within(t, scope) /\ Counted(t) /\ t.direction = "debit"}

Outflow(ledger, scope, currency) ==
    Total({t \in Expenses(ledger, scope) : t.currency = currency})

CategoryGroups(ledger, scope) ==
    LET rows == UNION {Allocations(t) : t \in Expenses(ledger, scope)}
        Of(g) == {r \in rows : r.currency = g[1] /\ r.category = g[2]}
    IN {[currency |-> g[1], category |-> g[2], amount |-> Total(Of(g)),
         count |-> Cardinality({r.transaction : r \in Of(g)})] :
            g \in {<<r.currency, r.category>> : r \in rows}}

\* The categories shown for a currency, largest first.
DashboardCategories(ledger, scope, currency) ==
    LET fetched == ToSet(Largest(CategoryGroups(ledger, scope), FetchLimit))
        own == {g \in fetched : g.currency = currency}
        shown == ToSet(Largest({g \in own : g.category # None}, TopN))
                   \union {g \in own : g.category = None /\ g.amount # 0}
        Entry(g) == [currency |-> g.currency, category |-> g.category, amount |-> g.amount,
                     count |-> g.count,
                     share |-> SharePercentOf(g.amount, Outflow(ledger, scope, currency))]
    IN Largest({Entry(g) : g \in shown}, Cardinality(shown))

MerchantGroups(ledger, scope) ==
    LET rows == {t \in Expenses(ledger, scope) : t.merchant # None}
        Of(g) == {t \in rows : t.currency = g[1] /\ t.merchant = g[2]}
    IN {[currency |-> g[1], merchant |-> g[2], amount |-> Total(Of(g)),
         count |-> Cardinality(Of(g))] : g \in {<<t.currency, t.merchant>> : t \in rows}}

DashboardMerchants(ledger, scope, currency) ==
    LET own == {g \in ToSet(Largest(MerchantGroups(ledger, scope), FetchLimit)) :
                  g.currency = currency}
        Entry(g) == g @@ [share |-> SharePercentOf(g.amount, Outflow(ledger, scope, currency))]
    IN Largest({Entry(g) : g \in ToSet(Largest(own, TopN))}, TopN)

\* An account's activity counts transfers: they do move its balance.
AccountActivity(ledger, scope, account) ==
    LET rows == {t \in ledger : t.account = account.id /\ t.status = "confirmed"
                                  /\ scope.from <= t.date /\ t.date <= scope.to}
    IN [account |-> account.id, net |-> Flow(rows, "credit") - Flow(rows, "debit"),
        count |-> Cardinality(rows),
        hasData |-> \E t \in ledger : t.account = account.id /\ t.status = "confirmed"]

Actionable == {"needs_review", "needs_mapping", "needs_sheet_selection", "ready", "failed"}

Attention(ledger, statements) ==
    LET open == {s \in statements : s.status \in Actionable \/ s.reconciliation = "mismatch"}
    IN [unreviewed |-> Cardinality({t \in ledger : t.status = "confirmed" /\ ~t.reviewed}),
        mismatch |-> Cardinality({s \in open : s.reconciliation = "mismatch"}),
        needsAction |-> Cardinality({s \in open : s.reconciliation # "mismatch"})]
=============================================================================
