\* Budgets that were created in the current period carry over too.
CONSTANTS
    Places = 2
    WholeLimit = 100
    TopN = 2
    FetchLimit = 3
    RolloverPeriods = 2
    None = None
    main = main
    side = side
    old = old
    food = food
    rent = rent
    Euro = Euro
    Lira = Lira
    Amounts <- SomeAmounts
    Dates <- SomeDates
    Ledgers <- SomeLedgers
    AccountTable <- SomeAccounts
    CurrencyCodes = {Euro, Lira}
    Budgets <- SomeBudgets
    Goals <- SomeGoals
    Phrases <- SomePhrases
    Window = 30
    Links <- SomeLinks
    Tables <- SomeTables
    Requests <- SomeRequests
    TransferQueries <- SomeTransferQueries
    TransferLimit = 4
    PageSize = 2
    MaxExportRows = 6
    MaxArchiveRows = 6
    Millisecond = 2
SPECIFICATION ReportSpec
INVARIANT CarriedAsDocumented
CHECK_DEADLOCK FALSE
