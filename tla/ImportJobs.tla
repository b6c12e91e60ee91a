----------------------------- MODULE ImportJobs -----------------------------
(***************************************************************************)
(* The worker: pg-boss hands an import job to a handler, which inspects or *)
(* parses the original and stores the result.  No step of a handler locks  *)
(* anything: it reads the job and the statement once, and every later      *)
(* write is by primary key, whatever happened in between.                  *)
(*                                                                         *)
(* The two SELECTs that open a handler are one action; every write, the    *)
(* call of the parser and the send that follows are actions of their own.  *)
(* Two overlapping transactions that replace the candidates of one         *)
(* statement serialise, or the later one fails on                          *)
(* raw_transactions_statement_row_unique (StoreFails).                     *)
(***************************************************************************)
EXTENDS ImportState

\* localConcurrency of the queues: 2 for statement.parse.csv, 1 for the others.
Concurrency(source) == IF source = "csv" THEN 2 ELSE 1

Busy(source, kind) ==
    {h \in Handlers : /\ handler[h].pc # "idle"
                      /\ stmt[job[handler[h].job].stmt].source = source
                      /\ job[handler[h].job].kind = kind}

\* pg-boss gives job j to handler h.
Take(h, j, left) ==
    /\ handler[h].pc = "idle"
    /\ <<j, left>> \in waiting
    /\ LET source == stmt[job[j].stmt].source
       IN Cardinality(Busy(source, job[j].kind)) < Concurrency(source)
    /\ waiting' = waiting \ {<<j, left>>}

Goto(h, pc) == handler' = [handler EXCEPT ![h].pc = pc]

\* The handler returns: pg-boss marks the delivery completed.
Return(h) == handler' = [handler EXCEPT ![h] = IdleHandler]

\* A delivery with nothing left to do: another handler runs the job, the parse
\* is done, or the statement is imported.
TakeSettled(h) ==
    /\ \E j \in Jobs, left \in 0..RetryLimit :
          /\ Take(h, j, left)
          /\ \/ job[j].status = "running"
             \/ job[j].status = "completed" /\ job[j].kind = "parse"
             \/ job[j].status = "completed" /\ QueuedParses(job[j].stmt) = {}
             \/ /\ job[j].status \in {"queued", "failed"}
                /\ stmt[job[j].stmt].status = "imported"
    /\ UNCHANGED <<database, files, uploads, outbox, handler, requests, cleaner, crashes>>

\* A completed inspection is delivered again: its parse job may never have been
\* sent, so it is looked up and sent (again).
TakeInspected(h) ==
    /\ \E j \in Jobs, left \in 0..RetryLimit :
          /\ Take(h, j, left)
          /\ job[j].status = "completed" /\ job[j].kind = "inspect"
          /\ \E next \in Newest(QueuedParses(job[j].stmt)) :
                handler' = [handler EXCEPT ![h] =
                   [IdleHandler EXCEPT !.pc = "send", !.job = j, !.left = left,
                                       !.next = next]]
    /\ UNCHANGED <<database, files, uploads, outbox, requests, cleaner, crashes>>

\* A queued or failed job: remember what the statement said.
TakeWork(h) ==
    /\ \E j \in Jobs, left \in 0..RetryLimit :
          LET s == job[j].stmt
          IN /\ Take(h, j, left)
             /\ job[j].status \in {"queued", "failed"}
             /\ stmt[s].status # "imported"
             /\ handler' = [handler EXCEPT ![h] =
                   [pc |-> "claimJob", job |-> j, left |-> left, key |-> stmt[s].key,
                    sheet |-> stmt[s].sheet, mapping |-> stmt[s].mapping, next |-> None]]
    /\ UNCHANGED <<database, files, uploads, outbox, requests, cleaner, crashes>>

ClaimJob(h) ==
    /\ handler[h].pc = "claimJob"
    /\ job' = [job EXCEPT ![handler[h].job].status = "running"]
    /\ Goto(h, "claimStatement")
    /\ UNCHANGED <<stmt, row, ledger, files, uploads, queue, requests, cleaner, crashes>>

ClaimStatement(h) ==
    /\ handler[h].pc = "claimStatement"
    /\ LET j == handler[h].job
       IN stmt' = SetStatus(job[j].stmt,
                            IF job[j].kind = "inspect" THEN "inspecting" ELSE "parsing")
    /\ Goto(h, "call")
    /\ UNCHANGED <<job, row, ledger, files, uploads, queue, requests, cleaner, crashes>>

\* storage.get and the parser answer in time.
CallParser(h) ==
    /\ handler[h].pc = "call"
    /\ handler[h].key
    /\ job[handler[h].job].stmt \in files
    /\ Goto(h, "store")
    /\ UNCHANGED <<database, files, uploads, queue, requests, cleaner, crashes>>

\* No storage key, no such file, a rejected file, a timeout.
CallFails(h) ==
    /\ handler[h].pc = "call"
    /\ Goto(h, "failJob")
    /\ UNCHANGED <<database, files, uploads, queue, requests, cleaner, crashes>>

------------------------------------------------------------------------------
(* Storing what the parser returned.                                       *)

CompletedJob(h) == [job EXCEPT ![handler[h].job].status = "completed"]

\* The inspected statement goes on to a parse of this sheet.
QueueInspected(h, s, sheet) ==
    \E j \in Jobs :
       /\ FreshJob(j)
       /\ stmt' = [stmt EXCEPT ![s].status = "parsing", ![s].sheet = sheet, ![s].old = FALSE]
       /\ job' = [CompletedJob(h) EXCEPT ![j] = QueuedJob(s, "parse")]
       /\ handler' = [handler EXCEPT ![h].pc = "send", ![h].next = j]

\* The inspection transaction: an XLSX with one usable sheet and every PDF go on
\* to a parse job; another workbook waits for the user.
StoreInspection(h) ==
    /\ handler[h].pc = "store"
    /\ job[handler[h].job].kind = "inspect"
    /\ LET s == job[handler[h].job].stmt
       IN \/ stmt[s].source = "pdf" /\ QueueInspected(h, s, stmt[s].sheet)
          \/ stmt[s].source = "xlsx" /\ \E sheet \in Sheets : QueueInspected(h, s, sheet)
          \/ /\ stmt[s].source = "xlsx"
             /\ stmt' = [stmt EXCEPT ![s].status = "needs_sheet_selection",
                                     ![s].sheet = None, ![s].old = FALSE]
             /\ job' = CompletedJob(h)
             /\ Return(h)
    /\ UNCHANGED <<row, ledger, files, uploads, queue, requests, cleaner, crashes>>

\* Mutant: the handler returns without sending the parse job it has queued.
ForgetParse(h) ==
    /\ handler[h].pc = "send"
    /\ Return(h)
    /\ UNCHANGED <<database, files, uploads, queue, requests, cleaner, crashes>>

\* boss.send of the parse job, after the transaction.
SendParse(h) ==
    /\ handler[h].pc = "send"
    /\ waiting' = waiting \union {<<handler[h].next, RetryLimit>>}
    /\ Return(h)
    /\ UNCHANGED <<database, files, uploads, outbox, requests, cleaner, crashes>>

\* The mapping the parser answers with: the one it was given, or its own guess.
Answered(h) ==
    {m \in Mapping : /\ m.sheet = handler[h].sheet
                     /\ handler[h].mapping # None => m.columns = handler[h].mapping.columns}

\* The statement after a parse that was answered with mapping m.
Described(h, status, m) ==
    [stmt EXCEPT ![job[handler[h].job].stmt] =
        [@ EXCEPT !.status = status, !.mapping = m, !.sheet = handler[h].sheet,
                  !.old = FALSE]]

\* Ambiguous or invalid mapping, first of two updates.
StoreAmbiguous(h) ==
    /\ handler[h].pc = "store"
    /\ job[handler[h].job].kind = "parse"
    /\ \E m \in Answered(h) : stmt' = Described(h, "needs_mapping", m)
    /\ Goto(h, "completeJob")
    /\ UNCHANGED <<job, row, ledger, files, uploads, queue, requests, cleaner, crashes>>

CompleteJob(h) ==
    /\ handler[h].pc = "completeJob"
    /\ job' = CompletedJob(h)
    /\ Return(h)
    /\ UNCHANGED <<stmt, row, ledger, files, uploads, queue, requests, cleaner, crashes>>

\* The rows after the DELETE of s's and the INSERT of fresh candidates.
Replaced(s, fresh, review) ==
    [r \in Rows |-> IF r \in fresh THEN [stmt |-> s, review |-> review[r]]
                    ELSE IF r \in RowsOf(s) THEN [row[r] EXCEPT !.review = "deleted"]
                    ELSE row[r]]

\* Mutant: the foreign key cascades instead of refusing the delete.
CascadingDelete(rs) == TRUE

\* transactions_owner_raw_fk: a row some transaction refers to cannot be deleted.
Unreferenced(rs) == \A r \in rs : ledger[r] = 0

\* The status a parse leaves the statement in.
Outcome(fresh, review) ==
    IF fresh = {} THEN "failed"
    ELSE IF \A r \in fresh : review[r] = "valid" THEN "ready"
    ELSE "needs_review"

\* The transaction of persistParserResult.
StoreCandidates(h) ==
    /\ handler[h].pc = "store"
    /\ job[handler[h].job].kind = "parse"
    /\ LET s == job[handler[h].job].stmt
       IN /\ Unreferenced(RowsOf(s))
          /\ \E fresh \in SUBSET {r \in Rows : row[r].review = "unused"}, m \in Answered(h) :
                /\ Cardinality(fresh) <= MaxCandidates
                /\ \E review \in [fresh -> Candidate] :
                      /\ row' = Replaced(s, fresh, review)
                      /\ stmt' = Described(h, Outcome(fresh, review), m)
    /\ job' = CompletedJob(h)
    /\ Return(h)
    /\ UNCHANGED <<ledger, files, uploads, queue, requests, cleaner, crashes>>

\* A write is refused: a referenced row, a row number already taken, the database.
StoreFails(h) ==
    /\ handler[h].pc \in {"store", "completeJob"}
    /\ Goto(h, "failJob")
    /\ UNCHANGED <<database, files, uploads, queue, requests, cleaner, crashes>>

------------------------------------------------------------------------------
(* Failure: two unguarded updates, then the error is rethrown to pg-boss.  *)

FailJob(h) ==
    /\ handler[h].pc = "failJob"
    /\ job' = [job EXCEPT ![handler[h].job].status = "failed"]
    /\ Goto(h, "failStatement")
    /\ UNCHANGED <<stmt, row, ledger, files, uploads, queue, requests, cleaner, crashes>>

\* The same delivery with one retry fewer, if it has one.
Retry(d) == IF d.left > 0 THEN {<<d.job, d.left - 1>>} ELSE {}

FailStatement(h) ==
    /\ handler[h].pc = "failStatement"
    /\ stmt' = SetStatus(job[handler[h].job].stmt, "failed")
    /\ waiting' = waiting \union Retry(handler[h])
    /\ Return(h)
    /\ UNCHANGED <<job, row, ledger, files, uploads, outbox, requests, cleaner, crashes>>

\* The worker process dies: its handlers and its cleanup are gone, and pg-boss
\* expires their deliveries.
WorkerCrash ==
    /\ crashes.worker < MaxWorkerCrashes
    /\ crashes' = [crashes EXCEPT !.worker = @ + 1]
    /\ waiting' = waiting \union
          UNION {Retry(handler[h]) : h \in {g \in Handlers : handler[g].pc # "idle"}}
    /\ handler' = [h \in Handlers |-> IdleHandler]
    /\ cleaner' = IdleCleaner
    /\ UNCHANGED <<database, files, uploads, outbox, requests>>

HandlerStep(h) ==
    \/ TakeSettled(h) \/ TakeInspected(h) \/ TakeWork(h)
    \/ ClaimJob(h) \/ ClaimStatement(h) \/ CallParser(h) \/ CallFails(h)
    \/ StoreInspection(h) \/ SendParse(h) \/ StoreAmbiguous(h) \/ CompleteJob(h)
    \/ StoreCandidates(h) \/ StoreFails(h) \/ FailJob(h) \/ FailStatement(h)
==============================================================================
