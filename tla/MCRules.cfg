\* Two categories, a tag, two rules and a transaction; four requests, two at a time.
CONSTANTS
    c1 = c1
    c2 = c2
    n1 = n1
    n2 = n2
    g1 = g1
    t1 = t1
    Categories = {c1, c2}
    Names = {n1, n2}
    Tags = {g1}
    Rules = {1, 2}
    Transactions = {t1}
    Fits <- EveryRule
    Documents <- SomeDocuments
    Requests = {q1, q2}
    MaxRequests = 4
    MaxVersion = 2
    Ledgers <- SomeLedgers
    None = None
SPECIFICATION Spec
INVARIANT EffectsRecorded
PROPERTY AppliedOnce
PROPERTY RevertKeepsOthers
SYMMETRY Symmetric
CHECK_DEADLOCK FALSE
