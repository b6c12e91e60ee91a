\* Every export settles and every orphan goes, whatever crashes or is lost.
CONSTANTS
    Exports = {e1}
    Keys = {k1, k2}
    Contents = {c1}
    MaxPreparing = 1
    Requesters = {q1}
    Handlers = {h1}
    Users = {u1}
    RetryLimit = 1
    MaxWorkerCrashes = 1
    MaxWebCrashes = 1
    MaxOverruns = 0
    None = None
SPECIFICATION FairSpec
PROPERTY PreparingSettles
PROPERTY OrphansRemoved
PROPERTY FilesExpire
\* With every id and key used up, the system may stop.
CHECK_DEADLOCK FALSE
