--------------------------- MODULE ImportPipeline ---------------------------
(***************************************************************************)
(* The hourly statement.cleanup.orphans job, and the statement-import      *)
(* pipeline: uploads and choices (ImportRequests), the worker's handlers   *)
(* (ImportJobs), review and confirmation (ImportReview) and the cleanup,   *)
(* interleaved over one database, one private storage and one pg-boss      *)
(* queue.                                                                  *)
(***************************************************************************)
EXTENDS ImportRequests, ImportJobs, ImportReview

------------------------------------------------------------------------------
(* The cleanup lists the abandoned statements, then claims them one by one *)
(* (status failed), deletes each claimed original and clears its key.      *)

cleanupFrame == <<job, row, ledger, uploads, queue, handler, requests, crashes>>

\* What both the SELECT and the claiming UPDATE ask of a statement.
Abandoned(s) ==
    /\ stmt[s].status \notin {"absent", "imported"}
    /\ ~stmt[s].retain /\ stmt[s].key /\ stmt[s].old

\* Nobody is in the middle of a request or a parse of the statement.
Quiet(s) ==
    /\ \A h \in Handlers : handler[h].pc # "idle" => job[handler[h].job].stmt # s
    /\ \A e \in Editors : editor[e].stmt # s
    /\ \A c \in Confirmers : confirmer[c].stmt # s

\* retentionHours pass without an update of the statement: hours, while a request
\* or a parse ends in minutes.  Where no cleanup would look, age is not tracked.
GrowOld(s) ==
    /\ stmt[s].status \notin {"absent", "imported"}
    /\ ~stmt[s].retain /\ stmt[s].key /\ ~stmt[s].old
    /\ Quiet(s)
    /\ stmt' = [stmt EXCEPT ![s].old = TRUE]
    /\ UNCHANGED <<files, cleaner, cleanupFrame>>

CleanupList ==
    /\ cleaner.pc = "idle"
    /\ \E s \in Statements : Abandoned(s)
    /\ cleaner' = [pc |-> "claim", todo |-> {s \in Statements : Abandoned(s)},
                   current |-> None]
    /\ UNCHANGED <<stmt, files, cleanupFrame>>

\* The claim is guarded by everything the list was selected by.
CleanupClaim ==
    /\ cleaner.pc = "claim"
    /\ \E s \in cleaner.todo :
          IF Abandoned(s)
          THEN /\ stmt' = SetStatus(s, "failed")
               /\ cleaner' = [pc |-> "delete", todo |-> cleaner.todo \ {s}, current |-> s]
          ELSE /\ cleaner' = [cleaner EXCEPT !.todo = @ \ {s}]
               /\ UNCHANGED stmt
    /\ UNCHANGED <<files, cleanupFrame>>

\* Mutant: the key is cleared though the object could not be deleted.
CleanupDeleteIgnored ==
    /\ cleaner.pc = "delete"
    /\ cleaner' = [cleaner EXCEPT !.pc = "clear"]
    /\ UNCHANGED <<stmt, files, cleanupFrame>>

\* unlink: a missing file throws, and the statement keeps its key.
CleanupDelete ==
    /\ cleaner.pc = "delete"
    /\ files' = files \ {cleaner.current}
    /\ cleaner' = IF cleaner.current \in files
                  THEN [cleaner EXCEPT !.pc = "clear"]
                  ELSE [cleaner EXCEPT !.pc = "claim", !.current = None]
    /\ UNCHANGED <<stmt, cleanupFrame>>

CleanupClear ==
    /\ cleaner.pc = "clear"
    /\ stmt' = [stmt EXCEPT ![cleaner.current].key = FALSE]
    /\ cleaner' = [cleaner EXCEPT !.pc = "claim", !.current = None]
    /\ UNCHANGED <<files, cleanupFrame>>

CleanupDone ==
    /\ cleaner.pc = "claim" /\ cleaner.todo = {}
    /\ cleaner' = IdleCleaner
    /\ UNCHANGED <<stmt, files, cleanupFrame>>

CleanupStep ==
    CleanupList \/ CleanupClaim \/ CleanupDelete \/ CleanupClear \/ CleanupDone

------------------------------------------------------------------------------
(* The specification.                                                      *)

Next ==
    \/ RequestStep
    \/ \E h \in Handlers : HandlerStep(h)
    \/ \E e \in Editors : EditStep(e)
    \/ \E c \in Confirmers : ConfirmStep(c)
    \/ \E s \in Statements : GrowOld(s)
    \/ CleanupStep
    \/ WorkerCrash \/ WebCrash

Spec == Init /\ [][Next]_vars

(***************************************************************************)
(* A live process keeps running: a request that committed a job sends it,  *)
(* pg-boss hands out what waits and a handler always ends (the parser is   *)
(* called with a timeout), a confirmation deletes the original, and the    *)
(* cleanup is scheduled every hour.  Users need not do anything.           *)
(***************************************************************************)
Fairness ==
    /\ \A j \in Jobs : WF_vars(SendJob(j))
    /\ \A h \in Handlers : WF_vars(HandlerStep(h))
    /\ \A c \in Confirmers : WF_vars(ConfirmDelete(c))
    /\ \A s \in Statements : WF_vars(GrowOld(s))
    /\ WF_vars(CleanupStep)

FairSpec == Spec /\ Fairness

------------------------------------------------------------------------------
(* Safety.                                                                 *)

\* No raw row is ever behind two ledger entries, however confirmations, edits of
\* an imported statement and late parses interleave.
NoDoubleEntry == \A r \in Rows : ledger[r] <= 1

\* A raw row behind a ledger entry is never deleted, though every parse begins by
\* deleting the statement's rows and may start before the confirmation.
EvidenceKept == \A r \in Rows : ledger[r] > 0 => row[r].review \in Review

\* An original uploaded with "retain" stays in storage through confirmation,
\* failure, cleanup and crashes.
RetainedOriginalKept ==
    \A s \in Statements : stmt[s].status # "absent" /\ stmt[s].retain => s \in files

\* A storage key is cleared only when its object is gone: clearing it earlier
\* would leave a private file nothing refers to.
ClearedKeyHasNoFile ==
    \A s \in Statements : stmt[s].status # "absent" /\ ~stmt[s].key => s \notin files

\* A workbook with a parse job has a selected sheet, so that the branch of
\* processXlsxParseJob that fails with XLSX_STALE_SHEET_SELECTION is dead.
WorkbookParseHasSheet ==
    \A j \in Jobs : job[j].status # "absent" /\ job[j].kind = "parse"
                       /\ stmt[job[j].stmt].source = "xlsx"
                    => stmt[job[j].stmt].sheet # None

\* Whatever a table row, a delivery or a request in flight refers to exists, and
\* whoever is about to delete an original may: the inductive part of the above.
Present(s) == s \in Statements /\ stmt[s].status # "absent"
Known(j) == j \in Jobs /\ job[j].status # "absent"

References ==
    /\ \A j \in Jobs : Known(j) => Present(job[j].stmt)
    /\ \A r \in Rows : row[r].review \in Review => Present(row[r].stmt)
    /\ \A j \in outbox : Known(j)
    /\ \A d \in waiting : Known(d[1])
    /\ \A h \in Handlers : /\ handler[h].pc # "idle" => Known(handler[h].job)
                           /\ handler[h].pc = "send" => Known(handler[h].next)
    /\ \A e \in Editors : editor[e].pc # "idle" =>
                              editor[e].row \in Rows /\ Present(editor[e].stmt)
    /\ \A c \in Confirmers : confirmer[c].pc # "idle" => Present(confirmer[c].stmt)

Deletable(s) == Present(s) /\ ~stmt[s].retain

Deleters ==
    /\ \A s \in uploads : stmt[s].status = "absent" /\ s \in files
    /\ \A c \in Confirmers : confirmer[c].pc = "delete" => Deletable(confirmer[c].stmt)
    /\ cleaner.pc \in {"delete", "clear"} => Deletable(cleaner.current)
    /\ cleaner.pc = "clear" => cleaner.current \notin files

Integrity == References /\ Deleters

\* The pipeline implements what it promises the user.
Promised == INSTANCE ImportPromise WITH
    evidence  <- {r \in Rows : row[r].review \in Review},
    entries   <- ledger,
    originals <- files,
    kept      <- {s \in Statements : stmt[s].status # "absent" /\ stmt[s].retain}

ImplementsPromise == Promised!Promise

------------------------------------------------------------------------------
(* Liveness.                                                               *)

InProgress(s) == stmt[s].status \in {"uploaded", "inspecting", "parsing"}

\* An import never stays with the machine: it comes to wait for the user, or
\* fails, or is imported.
ImportsSettle == \A s \in Statements : InProgress(s) ~> ~InProgress(s)

==============================================================================
