--------------------------- MODULE PlanningReports ---------------------------
(***************************************************************************)
(* The status of a budget, with the unused amounts it carries over, the    *)
(* progress of a savings goal, and the planning overview of the dashboard. *)
(***************************************************************************)
EXTENDS LedgerReports

INSTANCE CalendarPeriods

CONSTANT
    RolloverPeriods    \* MAX_ROLLOVER_PERIODS

ASSUME RolloverAssumption == RolloverPeriods \in Nat \ {0}

\* What a budget counts between two dates.
SpentInBounds(ledger, budget, from, to) ==
    LET spending == ExpenseSpending(ledger, budget.currency,
                                    [from |-> from, to |-> to, account |-> budget.account])
    IN IF budget.category = None THEN spending.total
       ELSE IF budget.category \in DOMAIN spending.byCategory
       THEN spending.byCategory[budget.category] ELSE 0

\* Mutant: a period that is over still has a status.
StatusOfEnded(limit, spent, threshold, ended) ==
    IF PercentReached(spent, limit, 100) THEN "exceeded"
    ELSE IF PercentReached(spent, limit, threshold) THEN "approaching" ELSE "healthy"

StatusOf(limit, spent, threshold, ended) ==
    IF ended THEN "complete"
    ELSE IF PercentReached(spent, limit, 100) THEN "exceeded"
    ELSE IF PercentReached(spent, limit, threshold) THEN "approaching"
    ELSE "healthy"

\* The periods before the one with these bounds: prior n is the n-th, backwards.
PriorPeriods(budget, bounds) ==
    LET Prior[n \in 1..RolloverPeriods] ==
            CurrentPeriodBounds(budget.period,
                IF n = 1 THEN bounds.previousStart ELSE Prior[n - 1].previousStart, None)
    IN Prior

Rolls(budget) == budget.rollover /\ budget.period # "custom"

\* The loop over them breaks once it has added one that begins by the creation.
LastPrior(budget, prior, n) == prior[n].start <= budget.created \/ n = RolloverPeriods

\* Mutant: an overspent period takes from what the others left.
RolloverWithDebt(found, budget, bounds) ==
    LET prior == PriorPeriods(budget, bounds)
        Unused(n) == budget.amount - SpentInBounds(found[n], budget, prior[n].start, prior[n].end)
        Carried[n \in 1..RolloverPeriods] ==
            Unused(n) + IF LastPrior(budget, prior, n) THEN 0 ELSE Carried[n + 1]
    IN IF Rolls(budget) THEN Carried[1] ELSE 0

\* What the periods before this one left, each a read of the ledger of its own:
\* found[n] is the ledger that the read of prior n has found.
RolloverCarried(found, budget, bounds) ==
    LET prior == PriorPeriods(budget, bounds)
        Unused(n) == budget.amount - SpentInBounds(found[n], budget, prior[n].start, prior[n].end)
        Carried[n \in 1..RolloverPeriods] ==
            (IF Unused(n) >= 0 THEN Unused(n) ELSE 0)
            + IF LastPrior(budget, prior, n) THEN 0 ELSE Carried[n + 1]
    IN IF Rolls(budget) THEN Carried[1] ELSE 0

PreviousSpent(ledger, budget, bounds) ==
    IF bounds.previousStart = None THEN None
    ELSE SpentInBounds(ledger, budget, bounds.previousStart, bounds.previousEnd)

DefaultWarningThreshold == 80

WarningThreshold(budget) ==
    IF budget.threshold = None THEN DefaultWarningThreshold ELSE budget.threshold

\* What a budget is told of itself once the ledger was read.
StatusIn(budget, today, bounds, spent, carried, previous) ==
    LET limit == budget.amount + carried
    IN [key |-> PeriodKey(budget.period, bounds), limit |-> limit, spent |-> spent,
        remaining |-> limit - spent, percentageUsed |-> PercentOf(spent, limit),
        daysRemaining |-> DaysRemaining(today, bounds.end),
        status |-> StatusOf(limit, spent, WarningThreshold(budget), IsPeriodEnded(today, bounds.end)),
        previousSpent |-> previous, carried |-> carried]

\* found[0] is the ledger that the read of the current period has found.
StatusFound(found, budget, today) ==
    LET bounds == CurrentPeriodBounds(budget.period, today, budget.custom)
    IN StatusIn(budget, today, bounds,
                SpentInBounds(found[0], budget, bounds.start, bounds.end),
                RolloverCarried(found, budget, bounds),
                PreviousSpent(found[1], budget, bounds))

\* While the ledger stays as it is.
BudgetStatus(ledger, budget, today) ==
    StatusFound([n \in 0..RolloverPeriods |-> ledger], budget, today)

\* balance is None, or one of KnownBalances for an account-balance goal.
GoalProgress(goal, balance, today) ==
    LET current == IF goal.mode = "manual" THEN IF goal.saved = None THEN 0 ELSE goal.saved
                   ELSE IF balance = None THEN None ELSE balance.amount
    IN [current |-> current,
        remaining |-> IF current = None THEN None ELSE goal.target - current,
        percentageComplete |-> IF current = None THEN None ELSE PercentOf(current, goal.target),
        daysRemaining |-> IF goal.targetDate = None THEN None
                          ELSE DaysRemaining(today, goal.targetDate),
        available |-> current # None]

NeedsAttention(goal, progress) ==
    \/ ~progress.available
    \/ /\ progress.daysRemaining # None
       /\ progress.daysRemaining <= 30
       /\ ~PercentReached(progress.current, goal.target, 100)

PlanningSummary(ledger, budgets, goals, balance, today) ==
    [budgets |-> {b \in budgets :
                    BudgetStatus(ledger, b, today).status \in {"approaching", "exceeded"}},
     goals |-> Cardinality({g \in goals : NeedsAttention(g, GoalProgress(g, balance, today))})]
=============================================================================
