--------------------------- MODULE ImportRequests ---------------------------
(***************************************************************************)
(* The requests that start and steer an import: the upload, the choice of  *)
(* a worksheet, the column mapping.  Each commits its job and only then    *)
(* sends it to pg-boss.                                                    *)
(***************************************************************************)
EXTENDS ImportState

workerState == <<handler, cleaner>>

\* storage.put of the original, before anything refers to it.
StoreUpload(s) ==
    /\ stmt[s].status = "absent" /\ s \notin uploads /\ s \notin files
    /\ files' = files \union {s}
    /\ uploads' = uploads \union {s}
    /\ UNCHANGED <<database, queue, workerState, requests, crashes>>

\* The statement and its first job are inserted in one transaction.
InsertUpload(s) ==
    /\ s \in uploads
    /\ \E source \in SourceTypes, retain \in BOOLEAN, j \in Jobs :
          /\ FreshJob(j)
          /\ stmt' = [stmt EXCEPT ![s] =
                [NoStatement EXCEPT !.status = "uploaded", !.source = source,
                                    !.retain = retain, !.key = TRUE]]
          /\ job' = [job EXCEPT ![j] =
                QueuedJob(s, IF source = "csv" THEN "parse" ELSE "inspect")]
          /\ outbox' = outbox \union {j}
    /\ uploads' = uploads \ {s}
    /\ UNCHANGED <<row, ledger, files, waiting, workerState, requests, crashes>>

\* The transaction fails: the stored original is deleted again.
AbandonUpload(s) ==
    /\ s \in uploads
    /\ uploads' = uploads \ {s}
    /\ files' = files \ {s}
    /\ UNCHANGED <<database, queue, workerState, requests, crashes>>

\* enqueueImportJob: sending a job that still waits adds nothing.
SendJob(j) ==
    /\ j \in outbox
    /\ outbox' = outbox \ {j}
    /\ waiting' = waiting \union {<<j, RetryLimit>>}
    /\ UNCHANGED <<database, files, uploads, workerState, requests, crashes>>

\* pg-boss refuses the send: the request fails, its transaction stays.
LoseSend(j) ==
    /\ j \in outbox
    /\ crashes.web < MaxWebCrashes
    /\ crashes' = [crashes EXCEPT !.web = @ + 1]
    /\ outbox' = outbox \ {j}
    /\ UNCHANGED <<database, files, uploads, waiting, workerState, requests>>

\* The web process dies with every request in flight.
WebCrash ==
    /\ crashes.web < MaxWebCrashes
    /\ crashes' = [crashes EXCEPT !.web = @ + 1]
    /\ uploads' = {} /\ outbox' = {}
    /\ editor' = [e \in Editors |-> IdleEditor]
    /\ confirmer' = [c \in Confirmers |-> IdleConfirmer]
    /\ UNCHANGED <<database, files, waiting, workerState>>

------------------------------------------------------------------------------

\* A repeated request finds its choice made; the newest parse job is sent again
\* if it is still queued.
Resend(s) ==
    /\ \E latest \in Newest(JobsOf(s, "parse")) :
          job[latest].status = "queued" /\ outbox' = outbox \union {latest}
    /\ UNCHANGED <<database, files, uploads, waiting, workerState, requests, crashes>>

\* Mutant: the job is sent though the transaction that inserts it rolled back.
QueueUncommitted(s, updated) ==
    /\ \E j \in Jobs : FreshJob(j) /\ outbox' = outbox \union {j}
    /\ UNCHANGED <<database, files, uploads, waiting, workerState, requests, crashes>>

\* The choice is stored and a new parse job queued, in one transaction.
QueueParse(s, updated) ==
    /\ \E j \in Jobs :
          /\ FreshJob(j)
          /\ stmt' = [stmt EXCEPT ![s] =
                         [updated EXCEPT !.status = "parsing", !.old = FALSE]]
          /\ job' = [job EXCEPT ![j] = QueuedJob(s, "parse")]
          /\ outbox' = outbox \union {j}
    /\ UNCHANGED <<row, ledger, files, uploads, waiting, workerState, requests, crashes>>

SaveMappingAgain(s) ==
    /\ stmt[s].mapping # None
    /\ stmt[s].status \in {"parsing", "needs_review", "ready", "imported"}
    /\ Resend(s)

\* Mutant: a workbook's mapping is accepted before its sheet is selected.
SaveMappingAnySheet(s) ==
    /\ stmt[s].status \in {"needs_mapping", "failed"}
    /\ \E columns \in Columns :
          QueueParse(s, [stmt[s] EXCEPT !.mapping =
                           [columns |-> columns, sheet |-> stmt[s].sheet]])

SaveMapping(s) ==
    /\ stmt[s].status \in {"needs_mapping", "failed"}
    /\ stmt[s].source = "xlsx" => stmt[s].sheet # None
    /\ \E columns \in Columns :
          QueueParse(s, [stmt[s] EXCEPT !.mapping =
                           [columns |-> columns, sheet |-> stmt[s].sheet]])

SelectSheetAgain(s) ==
    /\ stmt[s].source = "xlsx" /\ stmt[s].sheet # None
    /\ stmt[s].status \in {"parsing", "needs_mapping", "needs_review", "ready", "imported"}
    /\ Resend(s)

SelectSheet(s) ==
    /\ stmt[s].source = "xlsx"
    /\ stmt[s].status = "needs_sheet_selection"
    /\ \E sheet \in Sheets : QueueParse(s, [stmt[s] EXCEPT !.sheet = sheet])

RequestStep ==
    \/ \E s \in Statements :
          \/ StoreUpload(s) \/ InsertUpload(s) \/ AbandonUpload(s)
          \/ SaveMappingAgain(s) \/ SaveMapping(s)
          \/ SelectSheetAgain(s) \/ SelectSheet(s)
    \/ \E j \in Jobs : SendJob(j) \/ LoseSend(j)
==============================================================================
