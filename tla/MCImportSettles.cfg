\* Progress of every format with two handlers and retries while both processes stay up.
CONSTANTS
    Statements = {s1}
    MaxJobs = 2
    Rows = {r1}
    MaxCandidates = 0
    SourceTypes <- AllFormats
    Columns = {m1}
    Sheets = {sh1}
    Handlers = {h1, h2}
    Editors = {}
    Confirmers = {}
    RetryLimit = 1
    MaxWorkerCrashes = 0
    MaxWebCrashes = 0
    None = None
SPECIFICATION FairSpec
PROPERTY ImportsSettle
\* With every id used up and no user acting, the system may stop.
CHECK_DEADLOCK FALSE
