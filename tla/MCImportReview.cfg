\* An edit against two confirmations of one statement, and a second parse that
\* a new mapping sends between, after or across them.
CONSTANTS
    Statements = {s1}
    MaxJobs = 2
    Rows = {r1, r2}
    MaxCandidates = 1
    SourceTypes <- Csv
    Columns = {m1}
    Sheets = {}
    Handlers = {h1}
    Editors = {e1}
    Confirmers = {c1, c2}
    RetryLimit = 0
    MaxWorkerCrashes = 0
    MaxWebCrashes = 0
    None = None
SPECIFICATION Spec
SYMMETRY Symmetric
INVARIANT NoDoubleEntry
INVARIANT EvidenceKept
PROPERTY ImplementsPromise
\* With the statement and both job ids used up, the user may have nothing to do.
CHECK_DEADLOCK FALSE
