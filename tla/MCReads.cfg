\* Reports: three accounts, eight transactions, leap day and turn of the year.
\* Advisor: two questions, one in a conversation that both know; one edit of the data.
CONSTANTS
    Places = 2
    WholeLimit = 100
    TopN = 2
    FetchLimit = 3
    RolloverPeriods = 2
    None = None
    main = main
    side = side
    old = old
    food = food
    rent = rent
    Euro = Euro
    Lira = Lira
    Amounts <- SomeAmounts
    Dates <- SomeDates
    Ledgers <- SomeLedgers
    AccountTable <- SomeAccounts
    CurrencyCodes = {Euro, Lira}
    Budgets <- SomeBudgets
    Goals <- SomeGoals
    Phrases <- SomePhrases
    Window = 30
    Links <- SomeLinks
    Tables <- SomeTables
    Requests <- SomeRequests
    TransferQueries <- SomeTransferQueries
    TransferLimit = 4
    PageSize = 2
    MaxExportRows = 6
    MaxArchiveRows = 6
    Millisecond = 2
    MaxBreakdown = 3
    MaxRows = 2
    MaxStatements = 2
    MaxSamples = 3
    MaxSearchFacts = 2
    MaxFacts = 6
    MaxRetries = 1
    MaxToolCalls = 2
    RateMax = 1
    RateWindow = 1
    MaxTime = 1
    MaxEdits = 1
    first = first
    second = second
    known = known
    fresh = fresh
    t1 = t1
    t2 = t2
    BaseCurrency = Euro
    Asks = {first, second}
    Threads = {known, fresh}
    Existing = {known}
    Questions <- SomeQuestions
    Databases <- SomeDatabases
    Responses <- SomeResponses
    Today <- ThisWednesday
    Proposals = {p1}
    Confirms = {c1, c2}
    Transactions = {t1, t2}
    Categories = {food, rent}
    Accounts = {main}
    Currencies = {Euro, Lira}
    AccountsAtFirst <- OneAccount
    Payloads <- SomePayloads
    TTL = 1
    MaxClock = 2
    MaxChanges = 1
    MaxWebCrashes = 1
SPECIFICATION ReadsSpec
INVARIANT TextIsExact
INVARIANT PeriodsAgree
INVARIANT ReportsAgree
INVARIANT BudgetAddsUp
INVARIANT ExportAgrees
INVARIANT ArchiveIsClosed
INVARIANT ConversationsKept
INVARIANT AnswersAreGrounded
INVARIANT FactsAgree
INVARIANT ExecutedHasEffect
INVARIANT ConfirmedInTime
CHECK_DEADLOCK FALSE
