\* One budget, goal and rule, two overlapping evaluations, the end of a week.
CONSTANTS
    Places = 2
    WholeLimit = 100
    TopN = 5
    FetchLimit = 10
    RolloverPeriods = 2
    None = None
    b1 = b1
    g1 = g1
    r1 = r1
    acc = acc
    food = food
    s1 = s1
    Euro = Euro
    Budgets = {b1}
    Goals = {g1}
    Rules = {r1}
    Accounts = {acc}
    AccountCurrency <- CurrencyOf
    Archived = {}
    NewBudgets <- Plans
    NewGoals <- Savings
    BudgetPatches <- PlanPatches
    GoalPatches <- SavingPatches
    Configs <- SomeConfigs
    Ledgers <- SomeLedgers
    Statements = {s1}
    Starts <- SomeStarts
    FirstDay = 3
    LastDay = 4
    Requests = {q1, q2}
    MaxEdits = 2
    Jobs = {j1, j2}
    RetryLimit = 3
    MaxFailures = 1
SPECIFICATION Spec
INVARIANT TypeOK
PROPERTY AlertsJustified
PROPERTY EventsKept
PROPERTY AlertsCatchUp
CHECK_DEADLOCK FALSE
