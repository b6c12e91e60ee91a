----------------------------- MODULE ExportState -----------------------------
(***************************************************************************)
(* The state behind the export of a user's data: the rows of the exports   *)
(* table, the artifacts under exports/ in private storage, the pg-boss     *)
(* queue export.generate, and what each request, generation attempt and    *)
(* cleanup in flight has read and not yet acted upon.                      *)
(***************************************************************************)
EXTENDS Naturals, FiniteSets

CONSTANTS
    Exports,           \* ids of export requests of one user
    Keys,              \* random storage keys; bounds the attempts to generate
    Contents,          \* what a snapshot of the user's data may render to
    MaxPreparing,      \* limits.maxConcurrentPerUser
    Requesters,        \* POST /api/exports in flight
    Handlers,          \* export.generate handlers of the worker
    Users,             \* downloads and deletions in flight
    RetryLimit,        \* retryLimit given to pg-boss
    MaxWorkerCrashes,  \* bound: crashes of the worker process
    MaxWebCrashes,     \* bound: crashes of the web process
    MaxOverruns,       \* bound: handlers that outlive their delivery
    None               \* SQL null, or "nothing read yet"

ASSUME ExportAssumption ==
    /\ MaxPreparing \in Nat /\ RetryLimit \in Nat /\ MaxOverruns \in Nat
    /\ MaxWorkerCrashes \in Nat /\ MaxWebCrashes \in Nat
    /\ Requesters \intersect Handlers = {}
    /\ None \notin Exports /\ None \notin Keys /\ None \notin Contents
    /\ None \notin Exports \X Keys

VARIABLES
    export,     \* exports
    object,     \* private storage below exports/
    waiting,    \* export.generate jobs not yet taken: <<export, retries left>>
    attempt,    \* requests and handlers that create or generate an export
    user,       \* downloadExport and deleteExport requests in flight
    cleaner,    \* the hourly export.cleanup
    faults      \* crashes and overruns so far

vars == <<export, object, waiting, attempt, user, cleaner, faults>>

\* generateExportFile runs in the web process for small exports, in the worker
\* for the others.
Attempters == Requesters \union Handlers

------------------------------------------------------------------------------
(* Types.                                                                  *)

Export ==
    [status   : {"absent", "preparing", "ready", "failed", "deleted"},
     key      : Keys \union {None},            \* storageKey
     checksum : Contents \union {None},
     expired  : BOOLEAN,                       \* expiresAt has passed
     stale    : BOOLEAN]                       \* updatedAt is two hours back

NoExport ==
    [status |-> "absent", key |-> None, checksum |-> None, expired |-> FALSE, stale |-> FALSE]

\* A key is drawn before anything is stored under it; half-written content is None.
Object ==
    [state   : {"unused", "drawn", "stored", "removed"},
     content : Contents \union {None},
     old     : BOOLEAN]                        \* modifiedAt is before the grace period

NoObject == [state |-> "unused", content |-> None, old |-> FALSE]

AttemptPc ==
    {"idle", "insert", "send", "drop", "read", "open", "write", "finalize", "discard",
     "failRow", "discardLarge"}

Attempt ==
    [pc      : AttemptPc,
     export  : Exports \union {None},
     left    : 0..RetryLimit,                  \* retries of the delivery
     key     : Keys \union {None},             \* attemptKey
     content : Contents \union {None}]         \* what was written, as hashed

IdleAttempt ==
    [pc |-> "idle", export |-> None, left |-> 0, key |-> None, content |-> None]

User ==
    [pc : {"idle", "get", "deleteRow", "deleteFile"}, export : Exports \union {None},
     key : Keys \union {None}, checksum : Contents \union {None}]

IdleUser == [pc |-> "idle", export |-> None, key |-> None, checksum |-> None]

Cleaner ==
    [pc      : {"idle", "expire", "clear", "stale", "list", "refs", "remove"},
     todo    : SUBSET (Exports \X Keys),       \* expired rows still to visit
     current : (Exports \X Keys) \union {None},
     objects : SUBSET Keys]                    \* objects listed, then to be removed

IdleCleaner == [pc |-> "idle", todo |-> {}, current |-> None, objects |-> {}]

Faults == [worker : 0..MaxWorkerCrashes, web : 0..MaxWebCrashes, overrun : 0..MaxOverruns]

------------------------------------------------------------------------------

Exists(e) == export[e].status \in {"preparing", "ready", "failed"}

Preparing == {e \in Exports : export[e].status = "preparing"}

\* Keys some row of the table refers to.
Referenced == {export[e].key : e \in {f \in Exports : Exists(f)}} \ {None}

\* Keys an attempt in flight writes, or is about to refer to or remove.
Held == {attempt[a].key : a \in Attempters} \ {None}

Stored == {k \in Keys : object[k].state = "stored"}

\* storage.delete; the caller ignores a missing object.
Removed(k) == [object EXCEPT ![k].state = IF @ = "stored" THEN "removed" ELSE @]

Init ==
    /\ export = [e \in Exports |-> NoExport]
    /\ object = [k \in Keys |-> NoObject]
    /\ waiting = {}
    /\ attempt = [a \in Attempters |-> IdleAttempt]
    /\ user = [u \in Users |-> IdleUser]
    /\ cleaner = IdleCleaner
    /\ faults = [worker |-> 0, web |-> 0, overrun |-> 0]

\* The type of every variable.
TypeOK ==
    /\ export \in [Exports -> Export]
    /\ object \in [Keys -> Object]
    /\ waiting \subseteq Exports \X (0..RetryLimit)
    /\ attempt \in [Attempters -> Attempt]
    /\ user \in [Users -> User]
    /\ cleaner \in Cleaner
    /\ faults \in Faults
==============================================================================
