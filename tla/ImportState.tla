----------------------------- MODULE ImportState -----------------------------
(***************************************************************************)
(* The state the statement-import pipeline shares: the rows PostgreSQL     *)
(* keeps (statements, import_jobs, raw_transactions, transactions), the    *)
(* uploaded originals in private storage, the pg-boss queue, and what each *)
(* request or handler in flight has read and not yet acted upon.           *)
(*                                                                         *)
(* The web server and the worker are two processes; each await in them is  *)
(* a point where the other may run, so a handler is a sequence of actions  *)
(* and a database transaction is one action.                               *)
(***************************************************************************)
EXTENDS Naturals, FiniteSets

CONSTANTS
    Statements,        \* ids an upload may give its statement
    MaxJobs,           \* bound: import jobs ever created
    Rows,              \* ids (fresh UUIDs) of raw transactions; bounds the rows ever parsed
    MaxCandidates,     \* bound: candidates one parse returns
    SourceTypes,       \* formats uploaded in this instance, a subset of csv, xlsx, pdf
    Columns,           \* column mappings a user or the parser may propose
    Sheets,            \* worksheets of a workbook
    Handlers,          \* concurrent pg-boss handlers of the worker
    Editors,           \* row-edit requests in flight
    Confirmers,        \* confirmation requests in flight
    RetryLimit,        \* retryLimit given to pg-boss
    MaxWorkerCrashes,  \* bound: crashes of the worker process
    MaxWebCrashes,     \* bound: crashes of the web process or lost sends
    None               \* SQL null, or "nothing read yet"

ASSUME ImportAssumption ==
    /\ MaxJobs \in Nat /\ MaxCandidates \in Nat /\ RetryLimit \in Nat
    /\ MaxWorkerCrashes \in Nat /\ MaxWebCrashes \in Nat
    /\ SourceTypes \subseteq {"csv", "xlsx", "pdf"}
    /\ None \notin Statements /\ None \notin Columns /\ None \notin Sheets
    /\ None \notin Nat
    /\ None \notin [columns : Columns, sheet : Sheets \union {None}]

VARIABLES
    stmt,        \* statements
    job,         \* import_jobs, numbered by createdAt
    row,         \* raw_transactions
    ledger,      \* transactions: how many carry this source_raw_transaction_id
    files,       \* statements whose uploaded original is in private storage
    uploads,     \* uploads stored but whose statement is not inserted yet
    outbox,      \* jobs the web process has committed and not yet sent
    waiting,     \* pg-boss jobs not yet taken: <<import job, retries left>>
    handler,     \* pg-boss handlers in flight in the worker
    editor,      \* updateRawTransaction requests in flight
    confirmer,   \* confirmImport requests in flight
    cleaner,     \* the hourly cleanupAbandonedImports
    crashes      \* crashes so far, per process

vars == <<stmt, job, row, ledger, files, uploads, outbox, waiting,
          handler, editor, confirmer, cleaner, crashes>>
database == <<stmt, job, row, ledger>>
queue    == <<outbox, waiting>>
requests == <<editor, confirmer>>

Jobs == 1..MaxJobs

------------------------------------------------------------------------------
(* Types.                                                                  *)

ProcessingStatus ==
    {"absent", "uploaded", "inspecting", "needs_sheet_selection", "parsing",
     "needs_mapping", "needs_review", "ready", "imported", "failed"}

Mapping == [columns : Columns, sheet : Sheets \union {None}]

Statement ==
    [status  : ProcessingStatus,               \* "absent": no such row
     source  : SourceTypes \union {None},      \* sourceType
     retain  : BOOLEAN,                        \* retainOriginalFile
     key     : BOOLEAN,                        \* storageKey is not null
     sheet   : Sheets \union {None},           \* sourceMetadata.selectedSheet*
     mapping : Mapping \union {None},          \* mappingSnapshot
     old     : BOOLEAN]                        \* updatedAt is before the cutoff

NoStatement ==
    [status |-> "absent", source |-> None, retain |-> FALSE, key |-> FALSE,
     sheet |-> None, mapping |-> None, old |-> FALSE]

Job ==
    [stmt   : Statements \union {None},
     kind   : {"parse", "inspect"},            \* jobType, without the format
     status : {"absent", "queued", "running", "completed", "failed"}]

NoJob == [stmt |-> None, kind |-> "parse", status |-> "absent"]

\* "unused" ids have not been drawn yet; "deleted" ones never return.  The
\* source never stores the enum's "invalid".
Candidate == {"valid", "needs_review", "duplicate_candidate"}
Review    == Candidate \union {"excluded"}
RawRow ==
    [stmt : Statements \union {None}, review : Review \union {"unused", "deleted"}]

HandlerPc ==
    {"idle", "claimJob", "claimStatement", "call", "store", "completeJob",
     "failJob", "failStatement", "send"}

Handler ==
    [pc      : HandlerPc,
     job     : Jobs \union {None},             \* the delivery's jobId
     left    : 0..RetryLimit,                  \* its remaining retries
     key     : BOOLEAN,                        \* statement.storageKey as read
     sheet   : Sheets \union {None},           \* the selected sheet as read
     mapping : Mapping \union {None},          \* mappingSnapshot as read
     next    : Jobs \union {None}]             \* parse job id to send

IdleHandler ==
    [pc |-> "idle", job |-> None, left |-> 0, key |-> FALSE,
     sheet |-> None, mapping |-> None, next |-> None]

Editor ==
    [pc : {"idle", "write", "recount", "publish"}, row : Rows \union {None},
     stmt : Statements \union {None}, ready : BOOLEAN]

IdleEditor == [pc |-> "idle", row |-> None, stmt |-> None, ready |-> FALSE]

Confirmer ==
    [pc : {"idle", "rows", "commit", "delete"}, stmt : Statements \union {None},
     included : SUBSET Rows]

IdleConfirmer == [pc |-> "idle", stmt |-> None, included |-> {}]

Cleaner ==
    [pc : {"idle", "claim", "delete", "clear"}, todo : SUBSET Statements,
     current : Statements \union {None}]

IdleCleaner == [pc |-> "idle", todo |-> {}, current |-> None]

Crashes == [worker : 0..MaxWorkerCrashes, web : 0..MaxWebCrashes]

------------------------------------------------------------------------------
(* Reading the tables.                                                     *)

RowsOf(s) == {r \in Rows : row[r].stmt = s /\ row[r].review \in Review}

\* What updateRawTransaction calls ready, and confirmImport requires.
Resolved(s) == \A r \in RowsOf(s) : row[r].review \in {"valid", "excluded"}

JobsOf(s, kind) == {j \in Jobs : job[j].stmt = s /\ job[j].kind = kind}

\* ORDER BY created_at DESC LIMIT 1: the newest of these jobs, if there is any.
Newest(js) == {j \in js : \A i \in js : i <= j}

QueuedParses(s) == {j \in JobsOf(s, "parse") : job[j].status = "queued"}

\* Drizzle updates of one statement row; all but the cleaner's last touch
\* updated_at.
SetStatus(s, status) ==
    [stmt EXCEPT ![s].status = status, ![s].old = FALSE]

\* The id the next INSERT INTO import_jobs gets.
FreshJob(j) == /\ job[j].status = "absent"
               /\ \A i \in Jobs : i < j => job[i].status # "absent"

QueuedJob(s, kind) == [stmt |-> s, kind |-> kind, status |-> "queued"]

------------------------------------------------------------------------------

Init ==
    /\ stmt = [s \in Statements |-> NoStatement]
    /\ job = [j \in Jobs |-> NoJob]
    /\ row = [r \in Rows |-> [stmt |-> None, review |-> "unused"]]
    /\ ledger = [r \in Rows |-> 0]
    /\ files = {} /\ uploads = {} /\ outbox = {} /\ waiting = {}
    /\ handler = [h \in Handlers |-> IdleHandler]
    /\ editor = [e \in Editors |-> IdleEditor]
    /\ confirmer = [c \in Confirmers |-> IdleConfirmer]
    /\ cleaner = IdleCleaner
    /\ crashes = [worker |-> 0, web |-> 0]

\* The type of every variable.
TypeOK ==
    /\ stmt \in [Statements -> Statement]
    /\ job \in [Jobs -> Job]
    /\ row \in [Rows -> RawRow]
    /\ ledger \in [Rows -> Nat]
    /\ files \subseteq Statements /\ uploads \subseteq Statements
    /\ outbox \subseteq Jobs
    /\ waiting \subseteq Jobs \X (0..RetryLimit)
    /\ handler \in [Handlers -> Handler]
    /\ editor \in [Editors -> Editor]
    /\ confirmer \in [Confirmers -> Confirmer]
    /\ cleaner \in Cleaner
    /\ crashes \in Crashes
==============================================================================
