-------------------------- MODULE ExportGeneration --------------------------
(***************************************************************************)
(* createExportRequest and generateExportFile: a row is inserted, an       *)
(* artifact is written under a fresh random key, and a guarded update from *)
(* preparing to ready makes the row refer to it.  Several attempts may be  *)
(* at work on one export: pg-boss delivers a job again when its handler    *)
(* takes longer than the delivery lives, and the handler goes on.          *)
(***************************************************************************)
EXTENDS ExportState

Goto(a, pc) == attempt' = [attempt EXCEPT ![a].pc = pc]

\* The attempt returns to its caller: the request answers, pg-boss is content.
Return(a) == attempt' = [attempt EXCEPT ![a] = IdleAttempt]

generationFrame == <<user, cleaner, faults>>

------------------------------------------------------------------------------
(* createExportRequest.                                                    *)

\* The number of preparing exports is read before the insert, without a lock.
CountPreparing(a) ==
    /\ a \in Requesters
    /\ attempt[a].pc = "idle"
    /\ Cardinality(Preparing) < MaxPreparing
    /\ Goto(a, "insert")
    /\ UNCHANGED <<export, object, waiting, generationFrame>>

\* A small export is generated at once, a large one is handed to the worker.
InsertExport(a) ==
    /\ attempt[a].pc = "insert"
    /\ \E e \in Exports, next \in {"read", "send"} :
          /\ export[e].status = "absent"
          /\ export' = [export EXCEPT ![e] = [NoExport EXCEPT !.status = "preparing"]]
          /\ attempt' = [attempt EXCEPT ![a].pc = next, ![a].export = e]
    /\ UNCHANGED <<object, waiting, generationFrame>>

SendExport(a) ==
    /\ attempt[a].pc = "send"
    /\ waiting' = waiting \union {<<attempt[a].export, RetryLimit>>}
    /\ Return(a)
    /\ UNCHANGED <<export, object, generationFrame>>

SendFails(a) ==
    /\ attempt[a].pc = "send"
    /\ Goto(a, "drop")
    /\ UNCHANGED <<export, object, waiting, generationFrame>>

\* The job could not be scheduled: the row is deleted and the request fails.
DropExport(a) ==
    /\ attempt[a].pc = "drop"
    /\ export' = [export EXCEPT ![attempt[a].export] = [NoExport EXCEPT !.status = "deleted"]]
    /\ Return(a)
    /\ UNCHANGED <<object, waiting, generationFrame>>

------------------------------------------------------------------------------
(* generateExportFile.                                                     *)

\* pg-boss gives the job of export e to handler a.
TakeDelivery(a) ==
    /\ a \in Handlers
    /\ attempt[a].pc = "idle"
    /\ \E e \in Exports, left \in 0..RetryLimit :
          /\ <<e, left>> \in waiting
          /\ waiting' = waiting \ {<<e, left>>}
          /\ attempt' = [attempt EXCEPT ![a] =
                [IdleAttempt EXCEPT !.pc = "read", !.export = e, !.left = left]]
    /\ UNCHANGED <<export, object, generationFrame>>

\* A row that is gone, ready or failed is returned as it is.
ReadSettled(a) ==
    /\ attempt[a].pc = "read"
    /\ export[attempt[a].export].status # "preparing"
    /\ Return(a)
    /\ UNCHANGED <<export, object, waiting, generationFrame>>

\* Mutant: keys are drawn as if storage keys could repeat.
AnyKey(k) == TRUE

\* randomUUID: a key no one has drawn before.
FreshKey(k) == object[k].state = "unused"

ReadPreparing(a) ==
    /\ attempt[a].pc = "read"
    /\ export[attempt[a].export].status = "preparing"
    /\ \E k \in Keys :
          /\ FreshKey(k)
          /\ object' = [object EXCEPT ![k].state = IF @ = "unused" THEN "drawn" ELSE @]
          /\ attempt' = [attempt EXCEPT ![a].pc = "open", ![a].key = k]
    /\ UNCHANGED <<export, waiting, generationFrame>>

\* The file is opened for writing, truncated if it exists.
OpenObject(a) ==
    /\ attempt[a].pc = "open"
    /\ object' = [object EXCEPT ![attempt[a].key] =
                     [state |-> "stored", content |-> None, old |-> FALSE]]
    /\ Goto(a, "write")
    /\ UNCHANGED <<export, waiting, generationFrame>>

\* The last byte: the artifact renders some snapshot of the user's data.
WriteObject(a) ==
    /\ attempt[a].pc = "write"
    /\ \E c \in Contents :
          /\ object' = [object EXCEPT ![attempt[a].key].content = c]
          /\ attempt' = [attempt EXCEPT ![a].pc = "finalize", ![a].content = c]
    /\ UNCHANGED <<export, waiting, generationFrame>>

\* Mutant: the update from preparing to ready has lost its guard.
FinalizableAlways(e) == Exists(e)

\* What the finalizing UPDATE asks of the row.
Finalizable(e) == export[e].status = "preparing"

Finalize(a) ==
    /\ attempt[a].pc = "finalize"
    /\ LET e == attempt[a].export
       IN IF Finalizable(e)
          THEN /\ export' = [export EXCEPT ![e] =
                     [status |-> "ready", key |-> attempt[a].key,
                      checksum |-> attempt[a].content, expired |-> FALSE, stale |-> FALSE]]
               /\ Return(a)
          ELSE Goto(a, "discard") /\ UNCHANGED export
    /\ UNCHANGED <<object, waiting, generationFrame>>

\* Another attempt finalized, or the row is gone or failed: this one's artifact
\* is removed, unless that fails, which is ignored.
Discard(a) ==
    /\ attempt[a].pc = "discard"
    /\ object' \in {Removed(attempt[a].key), object}
    /\ Return(a)
    /\ UNCHANGED <<export, waiting, generationFrame>>

------------------------------------------------------------------------------
(* Failures.                                                               *)

\* The same delivery with one retry fewer, if it has one.
Retry(d) == IF d.left > 0 THEN {<<d.export, d.left - 1>>} ELSE {}

\* The error is rethrown: pg-boss retries, a request answers with an error (its
\* left is 0).
Rethrow(a) ==
    /\ waiting' = waiting \union Retry(attempt[a])
    /\ Return(a)

\* A statement of the database, a read or a write fails: row and artifact stay as
\* they are.
GenerationFails(a) ==
    /\ attempt[a].pc \in {"insert", "drop", "read", "open", "write", "finalize", "failRow"}
    /\ Rethrow(a)
    /\ UNCHANGED <<export, object, generationFrame>>

\* EXPORT_TOO_LARGE, while streaming or before anything is stored.
TooLarge(a) ==
    /\ attempt[a].pc \in {"open", "write"}
    /\ Goto(a, "failRow")
    /\ UNCHANGED <<export, object, waiting, generationFrame>>

\* UPDATE by id, whatever the row has become.
FailRow(a) ==
    /\ attempt[a].pc = "failRow"
    /\ LET e == attempt[a].export
       IN export' = IF Exists(e) THEN [export EXCEPT ![e].status = "failed"] ELSE export
    /\ Goto(a, "discardLarge")
    /\ UNCHANGED <<object, waiting, generationFrame>>

DiscardLarge(a) ==
    /\ attempt[a].pc = "discardLarge"
    /\ object' \in {Removed(attempt[a].key), object}
    /\ Rethrow(a)
    /\ UNCHANGED <<export, generationFrame>>

\* The delivery's time is over and pg-boss retries it; the handler goes on, and
\* what it throws is not heard any more.
Overrun(a) ==
    /\ a \in Handlers
    /\ attempt[a].pc # "idle"
    /\ faults.overrun < MaxOverruns
    /\ faults' = [faults EXCEPT !.overrun = @ + 1]
    /\ waiting' = waiting \union Retry(attempt[a])
    /\ attempt' = [attempt EXCEPT ![a].left = 0]
    /\ UNCHANGED <<export, object, user, cleaner>>

CreationStep(a) ==
    CountPreparing(a) \/ InsertExport(a) \/ SendExport(a) \/ SendFails(a) \/ DropExport(a)

GenerationStep(a) ==
    \/ TakeDelivery(a) \/ ReadSettled(a) \/ ReadPreparing(a)
    \/ OpenObject(a) \/ WriteObject(a) \/ Finalize(a) \/ Discard(a)
    \/ GenerationFails(a) \/ TooLarge(a) \/ FailRow(a) \/ DiscardLarge(a)
==============================================================================
