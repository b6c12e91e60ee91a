\* Workbooks and PDFs through inspection, sheet and mapping choices, retries,
\* crashes of both processes, two confirmations and the hourly cleanup.
CONSTANTS
    Statements = {s1}
    MaxJobs = 2
    Rows = {r1}
    MaxCandidates = 1
    SourceTypes <- Inspected
    Columns = {m1}
    Sheets = {sh1}
    Handlers = {h1, h2}
    Editors = {}
    Confirmers = {c1, c2}
    RetryLimit = 1
    MaxWorkerCrashes = 1
    MaxWebCrashes = 1
    None = None
SPECIFICATION Spec
SYMMETRY Symmetric
INVARIANTS Integrity RetainedOriginalKept ClearedKeyHasNoFile WorkbookParseHasSheet
\* With the statement id used up and no user acting, the system may stop.
CHECK_DEADLOCK FALSE
