\* One export under overlapping attempts, deletion, downloads and crashes.
CONSTANTS
    Exports = {e1}
    Keys = {k1, k2, k3}
    Contents = {c1, c2}
    MaxPreparing = 1
    Requesters = {q1}
    Handlers = {h1, h2}
    Users = {u1}
    RetryLimit = 1
    MaxWorkerCrashes = 1
    MaxWebCrashes = 1
    MaxOverruns = 1
    None = None
SPECIFICATION Spec
INVARIANT ReadyMatches
INVARIANT DownloadMatches
INVARIANT KeyDiscipline
PROPERTY PublishedOnce
PROPERTY LifecycleKeepsPromise
SYMMETRY Symmetric
\* With every id and key used up, the system may stop.
CHECK_DEADLOCK FALSE
