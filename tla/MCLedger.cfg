\* Four transactions of two accounts, three merchants with two transactions and two
\* aliases; four requests, two at a time.
CONSTANTS
    out1 = out1
    out2 = out2
    in1 = in1
    in2 = in2
    Transactions = {out1, out2, in1, in2}
    Amount <- Amounts2
    Direction <- Directions
    Account <- Accounts
    Currency <- Currencies
    Day <- Days
    Numberings <- SomeNumberings
    MaxDays = 3
    m1 = m1
    m2 = m2
    m3 = m3
    n1 = n1
    n2 = n2
    n3 = n3
    t1 = t1
    t2 = t2
    p1 = p1
    p2 = p2
    Payments = {t1, t2}
    Merchants = {m1, m2, m3}
    Names = {n1, n2, n3}
    Patterns = {p1, p2}
    Fits <- SomeFits
    Aliases = {1, 2}
    Priorities = {1}
    MaxPreview = 1
    Ledgers <- SomeLedgers
    None = None
    Requests = {q1, q2}
    MaxRequests = 4
SPECIFICATION LedgerSpec
INVARIANT SplitsWhole
INVARIANT OneConfirmedTransfer
INVARIANT MergedCanBeUndone
PROPERTY AnswerIsRemembered
PROPERTY ManualKept
PROPERTY UnmergeIsExact
SYMMETRY Symmetric
CHECK_DEADLOCK FALSE
