---------------------------- MODULE ImportProofs ----------------------------
(***************************************************************************)
(* What the import pipeline guarantees for every number of statements,     *)
(* jobs, rows, handlers and requests.  Integrity is the inductive          *)
(* invariant: first what one step may do to each table is stated once      *)
(* (StatementStep, JobStep, FilesStep, RowStep, ...), then each conjunct   *)
(* of Integrity follows, then the promises that rest on it.                *)
(***************************************************************************)
EXTENDS ImportPipeline, TLAPS

------------------------------------------------------------------------------
(* Every step keeps the types of the variables.  Most steps need no more than *)
(* the types before them; the handlers and the editors write the statement    *)
(* their job or row refers to, and need Integrity to know that it exists.     *)

\* What a handler at work holds: a job of the table, of a statement of the table.
LEMMA Working ==
    ASSUME TypeOK, Integrity, NEW h \in Handlers, handler[h].pc # "idle"
    PROVE  /\ handler[h] \in Handler
           /\ handler[h].job \in Jobs
           /\ job[handler[h].job] \in Job
           /\ job[handler[h].job].status # "absent"
           /\ job[handler[h].job].stmt \in Statements
           /\ stmt[job[handler[h].job].stmt] \in Statement
           /\ stmt[job[handler[h].job].stmt].status # "absent"
  BY DEF TypeOK, Integrity, References, Known, Present

\* The same of a delivery that waits.
LEMMA Delivered ==
    ASSUME TypeOK, Integrity, NEW j \in Jobs, NEW left \in 0..RetryLimit,
           <<j, left>> \in waiting
    PROVE  /\ job[j] \in Job /\ job[j].status # "absent"
           /\ job[j].stmt \in Statements /\ stmt[job[j].stmt] \in Statement
           /\ stmt[job[j].stmt].status # "absent"
<1>1. Known(j)
  BY DEF Integrity, References
<1> QED
  BY <1>1 DEF TypeOK, Integrity, References, Known, Present

\* Drizzle's status update of one statement.
LEMMA SetStatusType ==
    ASSUME TypeOK, NEW s \in Statements, NEW status \in ProcessingStatus
    PROVE  SetStatus(s, status) \in [Statements -> Statement]
  BY ZenonT(30) DEF TypeOK, SetStatus, Statement

\* A handler that goes on to another step of its code keeps its type.
LEMMA GotoType ==
    ASSUME TypeOK, NEW h \in Handlers, NEW pc \in HandlerPc, Goto(h, pc)
    PROVE  handler' \in [Handlers -> Handler]
  BY DEF TypeOK, Goto, Handler

\* What requests, handlers and the cleanup are when they are not at work.
LEMMA IdleTypes ==
    /\ IdleHandler \in Handler /\ IdleEditor \in Editor
    /\ IdleConfirmer \in Confirmer /\ IdleCleaner \in Cleaner
<1>1. 0 \in 0..RetryLimit
  BY ImportAssumption
<1> QED
  BY <1>1 DEF IdleHandler, Handler, HandlerPc, IdleEditor, Editor, IdleConfirmer,
              Confirmer, IdleCleaner, Cleaner

\* A handler that returns to pg-boss is idle.
LEMMA ReturnType ==
    ASSUME TypeOK, NEW h \in Handlers, Return(h)
    PROVE  handler' \in [Handlers -> Handler]
  BY IdleTypes DEF TypeOK, Return

\* A job that is queued is a row of import_jobs.
LEMMA QueuedJobType ==
    ASSUME NEW s \in Statements, NEW kind \in {"parse", "inspect"}
    PROVE  QueuedJob(s, kind) \in Job
  BY DEF QueuedJob, Job

\* The status update of one job.
LEMMA JobStatusType ==
    ASSUME TypeOK, NEW j \in Jobs,
           NEW status \in {"queued", "running", "completed", "failed"}
    PROVE  [job EXCEPT ![j].status = status] \in [Jobs -> Job]
  BY DEF TypeOK, Job

\* The retry of a delivery is a delivery with retries left to count.
LEMMA RetryType ==
    ASSUME NEW d \in Handler, d.job \in Jobs
    PROVE  Retry(d) \subseteq Jobs \X (0..RetryLimit)
<1>1. d.left \in Nat /\ d.left <= RetryLimit
  BY ImportAssumption DEF Handler
<1>2. d.left > 0 => d.left - 1 \in 0..RetryLimit
  BY <1>1, ImportAssumption
<1> QED
  BY <1>2 DEF Retry

------------------------------------------------------------------------------

\* A repeated request sends a job of the table.
LEMMA ResendType ==
    ASSUME TypeOK, NEW s \in Statements, Resend(s)
    PROVE  TypeOK'
<1>1. Newest(JobsOf(s, "parse")) \subseteq Jobs
  BY DEF Newest, JobsOf
<1>2. outbox' \subseteq Jobs
  BY <1>1 DEF TypeOK, Resend
<1> QED
  BY <1>2 DEF TypeOK, Resend, database, workerState, requests

\* Storing a choice and queueing its parse keeps every type, whatever the choice.
LEMMA QueueParseType ==
    ASSUME TypeOK, NEW s \in Statements, NEW updated \in Statement,
           QueueParse(s, updated)
    PROVE  TypeOK'
<1>1. [updated EXCEPT !.status = "parsing", !.old = FALSE] \in Statement
  BY DEF Statement, ProcessingStatus
<1>2. PICK j \in Jobs :
         /\ stmt' = [stmt EXCEPT ![s] =
                        [updated EXCEPT !.status = "parsing", !.old = FALSE]]
         /\ job' = [job EXCEPT ![j] = QueuedJob(s, "parse")]
         /\ outbox' = outbox \union {j}
  BY DEF QueueParse
<1>3. stmt' \in [Statements -> Statement]
  BY <1>1, <1>2 DEF TypeOK
<1>4. job' \in [Jobs -> Job] /\ outbox' \subseteq Jobs
  BY <1>2, QueuedJobType DEF TypeOK
<1> QED
  BY <1>3, <1>4 DEF TypeOK, QueueParse, workerState, requests

\* Uploads, sheet and mapping choices and sends keep the types.
LEMMA RequestTypes ==
    ASSUME TypeOK, RequestStep
    PROVE  TypeOK'
<1> USE DEF workerState, requests, queue, database
<1>1. ASSUME NEW s \in Statements, StoreUpload(s)
      PROVE  TypeOK'
  BY <1>1 DEF TypeOK, StoreUpload
<1>2. ASSUME NEW s \in Statements, InsertUpload(s)
      PROVE  TypeOK'
  <2>1. PICK source \in SourceTypes, retain \in BOOLEAN, j \in Jobs :
           /\ stmt' = [stmt EXCEPT ![s] =
                 [NoStatement EXCEPT !.status = "uploaded", !.source = source,
                                     !.retain = retain, !.key = TRUE]]
           /\ job' = [job EXCEPT ![j] =
                 QueuedJob(s, IF source = "csv" THEN "parse" ELSE "inspect")]
           /\ outbox' = outbox \union {j}
    BY <1>2 DEF InsertUpload
  <2>2. [NoStatement EXCEPT !.status = "uploaded", !.source = source,
                            !.retain = retain, !.key = TRUE] \in Statement
    BY DEF NoStatement, Statement, ProcessingStatus
  <2>3. stmt' \in [Statements -> Statement]
    BY <2>1, <2>2 DEF TypeOK
  <2>4. job' \in [Jobs -> Job] /\ outbox' \subseteq Jobs
    BY <2>1, QueuedJobType DEF TypeOK
  <2> QED
    BY <1>2, <2>3, <2>4 DEF TypeOK, InsertUpload
<1>3. ASSUME NEW s \in Statements, AbandonUpload(s)
      PROVE  TypeOK'
  BY <1>3 DEF TypeOK, AbandonUpload
<1>4. ASSUME NEW s \in Statements, SaveMappingAgain(s)
      PROVE  TypeOK'
  BY <1>4, ResendType DEF SaveMappingAgain
<1>5. ASSUME NEW s \in Statements, SaveMapping(s)
      PROVE  TypeOK'
  <2>1. PICK columns \in Columns :
           QueueParse(s, [stmt[s] EXCEPT !.mapping =
                            [columns |-> columns, sheet |-> stmt[s].sheet]])
    BY <1>5 DEF SaveMapping
  <2>2. stmt[s] \in Statement
    BY DEF TypeOK
  <2>3. [columns |-> columns, sheet |-> stmt[s].sheet] \in Mapping
    BY <2>2 DEF Mapping, Statement
  <2>4. [stmt[s] EXCEPT !.mapping = [columns |-> columns, sheet |-> stmt[s].sheet]]
           \in Statement
    BY <2>2, <2>3 DEF Statement
  <2> QED
    BY <2>1, <2>4, QueueParseType
<1>6. ASSUME NEW s \in Statements, SelectSheetAgain(s)
      PROVE  TypeOK'
  BY <1>6, ResendType DEF SelectSheetAgain
<1>7. ASSUME NEW s \in Statements, SelectSheet(s)
      PROVE  TypeOK'
  <2>1. PICK sheet \in Sheets : QueueParse(s, [stmt[s] EXCEPT !.sheet = sheet])
    BY <1>7 DEF SelectSheet
  <2>2. [stmt[s] EXCEPT !.sheet = sheet] \in Statement
    BY DEF TypeOK, Statement
  <2> QED
    BY <2>1, <2>2, QueueParseType
<1>8. ASSUME NEW j \in Jobs, SendJob(j)
      PROVE  TypeOK'
  <2>1. waiting' \subseteq Jobs \X (0..RetryLimit)
    BY <1>8, ImportAssumption DEF TypeOK, SendJob
  <2> QED
    BY <1>8, <2>1 DEF TypeOK, SendJob
<1>9. ASSUME NEW j \in Jobs, LoseSend(j)
      PROVE  TypeOK'
  <2>1. crashes' \in Crashes
    BY <1>9, ImportAssumption DEF TypeOK, LoseSend, Crashes
  <2> QED
    BY <1>9, <2>1 DEF TypeOK, LoseSend
<1> QED
  BY <1>1, <1>2, <1>3, <1>4, <1>5, <1>6, <1>7, <1>8, <1>9 DEF RequestStep

------------------------------------------------------------------------------

\* A delivery is taken: what the handler remembers of it has its types.
LEMMA TakeTypes ==
    ASSUME TypeOK, Integrity, NEW h \in Handlers,
           TakeSettled(h) \/ TakeInspected(h) \/ TakeWork(h)
    PROVE  TypeOK'
<1> USE DEF database, requests
<1>1. CASE TakeSettled(h)
  <2>1. waiting' \subseteq waiting
    BY <1>1 DEF TakeSettled, Take
  <2> QED
    BY <1>1, <2>1 DEF TypeOK, TakeSettled
<1>2. CASE TakeInspected(h)
  <2>1. PICK j \in Jobs, left \in 0..RetryLimit :
           /\ waiting' = waiting \ {<<j, left>>}
           /\ \E next \in Newest(QueuedParses(job[j].stmt)) :
                 handler' = [handler EXCEPT ![h] =
                    [IdleHandler EXCEPT !.pc = "send", !.job = j, !.left = left,
                                        !.next = next]]
    BY <1>2 DEF TakeInspected, Take
  <2>2. PICK next \in Jobs :
           handler' = [handler EXCEPT ![h] =
              [IdleHandler EXCEPT !.pc = "send", !.job = j, !.left = left, !.next = next]]
    BY <2>1 DEF Newest, QueuedParses, JobsOf
  <2>3. [IdleHandler EXCEPT !.pc = "send", !.job = j, !.left = left, !.next = next]
           \in Handler
    BY DEF IdleHandler, Handler, HandlerPc
  <2>4. handler' \in [Handlers -> Handler]
    BY <2>2, <2>3 DEF TypeOK
  <2> QED
    BY <1>2, <2>1, <2>4 DEF TypeOK, TakeInspected
<1>3. CASE TakeWork(h)
  <2>1. PICK j \in Jobs, left \in 0..RetryLimit :
           /\ <<j, left>> \in waiting
           /\ waiting' = waiting \ {<<j, left>>}
           /\ handler' = [handler EXCEPT ![h] =
                 [pc |-> "claimJob", job |-> j, left |-> left,
                  key |-> stmt[job[j].stmt].key, sheet |-> stmt[job[j].stmt].sheet,
                  mapping |-> stmt[job[j].stmt].mapping, next |-> None]]
    BY <1>3 DEF TakeWork, Take
  <2>2. stmt[job[j].stmt] \in Statement
    BY <2>1, Delivered
  <2>3. handler' \in [Handlers -> Handler]
    BY <2>1, <2>2 DEF TypeOK, Handler, HandlerPc, Statement
  <2> QED
    BY <1>3, <2>1, <2>3 DEF TypeOK, TakeWork
<1> QED
  BY <1>1, <1>2, <1>3

\* What an inspection or a parse stores has its types.
LEMMA StoreTypes ==
    ASSUME TypeOK, Integrity, NEW h \in Handlers,
           StoreInspection(h) \/ StoreAmbiguous(h) \/ StoreCandidates(h)
    PROVE  TypeOK'
<1> DEFINE s == job[handler[h].job].stmt
<1> USE DEF queue, requests
<1>1. /\ handler[h] \in Handler /\ handler[h].job \in Jobs
      /\ s \in Statements /\ stmt[s] \in Statement
  <2>1. handler[h].pc # "idle"
    BY DEF StoreInspection, StoreAmbiguous, StoreCandidates
  <2> QED
    BY <2>1, Working
<1>2. CompletedJob(h) \in [Jobs -> Job]
  BY <1>1, JobStatusType DEF CompletedJob
<1>3. Answered(h) \subseteq Mapping
  BY DEF Answered
<1>4. ASSUME NEW status \in ProcessingStatus, NEW m \in Mapping
      PROVE  Described(h, status, m) \in [Statements -> Statement]
  <2>1. [stmt[s] EXCEPT !.status = status, !.mapping = m,
                        !.sheet = handler[h].sheet, !.old = FALSE] \in Statement
    BY <1>1 DEF Statement, Handler
  <2> QED
    BY <1>1, <2>1 DEF TypeOK, Described
<1>5. CASE StoreInspection(h)
  <2>1. ASSUME NEW sheet \in Sheets \union {None}, QueueInspected(h, s, sheet)
        PROVE  TypeOK'
    <3>1. PICK j \in Jobs :
             /\ stmt' = [stmt EXCEPT ![s].status = "parsing", ![s].sheet = sheet,
                                     ![s].old = FALSE]
             /\ job' = [CompletedJob(h) EXCEPT ![j] = QueuedJob(s, "parse")]
             /\ handler' = [handler EXCEPT ![h].pc = "send", ![h].next = j]
      BY <2>1 DEF QueueInspected
    <3>2. stmt' \in [Statements -> Statement]
      BY <1>1, <3>1 DEF TypeOK, Statement, ProcessingStatus
    <3>3. job' \in [Jobs -> Job]
      BY <1>1, <1>2, <3>1, QueuedJobType
    <3>4. handler' \in [Handlers -> Handler]
      BY <1>1, <3>1 DEF TypeOK, Handler, HandlerPc
    <3> QED
      BY <1>5, <3>2, <3>3, <3>4 DEF TypeOK, StoreInspection
  <2>2. CASE /\ stmt' = [stmt EXCEPT ![s].status = "needs_sheet_selection",
                                     ![s].sheet = None, ![s].old = FALSE]
             /\ job' = CompletedJob(h)
             /\ Return(h)
    <3>1. stmt' \in [Statements -> Statement]
      BY <1>1, <2>2 DEF TypeOK, Statement, ProcessingStatus
    <3> QED
      BY <1>2, <1>5, <2>2, <3>1, ReturnType DEF TypeOK, StoreInspection
  <2>3. stmt[s].sheet \in Sheets \union {None}
    BY <1>1 DEF Statement
  <2> QED
    BY <1>5, <2>1, <2>2, <2>3 DEF StoreInspection
<1>6. CASE StoreAmbiguous(h)
  <2>1. PICK m \in Mapping : stmt' = Described(h, "needs_mapping", m)
    BY <1>3, <1>6 DEF StoreAmbiguous
  <2>2. stmt' \in [Statements -> Statement]
    BY <1>4, <2>1 DEF ProcessingStatus
  <2>3. handler' \in [Handlers -> Handler]
    BY <1>6, GotoType DEF StoreAmbiguous, HandlerPc
  <2> QED
    BY <1>6, <2>2, <2>3 DEF TypeOK, StoreAmbiguous
<1>7. CASE StoreCandidates(h)
  <2>1. PICK fresh \in SUBSET Rows, m \in Mapping :
           \E review \in [fresh -> Candidate] :
              /\ row' = Replaced(s, fresh, review)
              /\ stmt' = Described(h, Outcome(fresh, review), m)
    BY <1>3, <1>7 DEF StoreCandidates
  <2>2. PICK review \in [fresh -> Candidate] :
           /\ row' = Replaced(s, fresh, review)
           /\ stmt' = Described(h, Outcome(fresh, review), m)
    BY <2>1
  <2>3. Outcome(fresh, review) \in ProcessingStatus
    BY DEF Outcome, ProcessingStatus
  <2>4. stmt' \in [Statements -> Statement]
    BY <1>4, <2>2, <2>3
  <2>5. row' \in [Rows -> RawRow]
    <3>1. \A r \in Rows : row[r] \in RawRow /\ [row[r] EXCEPT !.review = "deleted"] \in RawRow
      BY DEF TypeOK, RawRow
    <3>2. \A r \in fresh : [stmt |-> s, review |-> review[r]] \in RawRow
      BY <1>1 DEF RawRow, Review
    <3> QED
      BY <2>2, <3>1, <3>2 DEF Replaced
  <2>6. job' \in [Jobs -> Job]
    BY <1>2, <1>7 DEF StoreCandidates
  <2>7. handler' \in [Handlers -> Handler]
    BY <1>7, ReturnType DEF StoreCandidates
  <2> QED
    BY <1>7, <2>4, <2>5, <2>6, <2>7 DEF TypeOK, StoreCandidates
<1> QED
  BY <1>5, <1>6, <1>7

\* Every step of a handler keeps the types.
LEMMA HandlerTypes ==
    ASSUME TypeOK, Integrity, NEW h \in Handlers, HandlerStep(h)
    PROVE  TypeOK'
<1> DEFINE s == job[handler[h].job].stmt
<1> USE DEF database, queue, requests
<1>1. CASE TakeSettled(h) \/ TakeInspected(h) \/ TakeWork(h)
  BY <1>1, TakeTypes
<1>2. CASE StoreInspection(h) \/ StoreAmbiguous(h) \/ StoreCandidates(h)
  BY <1>2, StoreTypes
<1>3. CASE ClaimJob(h)
  <2>1. job' \in [Jobs -> Job]
    BY <1>3, Working, JobStatusType DEF ClaimJob
  <2>2. handler' \in [Handlers -> Handler]
    BY <1>3, GotoType DEF ClaimJob, HandlerPc
  <2> QED
    BY <1>3, <2>1, <2>2 DEF TypeOK, ClaimJob
<1>4. CASE ClaimStatement(h)
  <2>1. s \in Statements
    BY <1>4, Working DEF ClaimStatement
  <2>2. stmt' \in [Statements -> Statement]
    BY <1>4, <2>1, SetStatusType DEF ClaimStatement, ProcessingStatus
  <2>3. handler' \in [Handlers -> Handler]
    BY <1>4, GotoType DEF ClaimStatement, HandlerPc
  <2> QED
    BY <1>4, <2>2, <2>3 DEF TypeOK, ClaimStatement
<1>5. CASE CallParser(h) \/ CallFails(h) \/ StoreFails(h)
  <2>1. handler' \in [Handlers -> Handler]
    BY <1>5, GotoType DEF CallParser, CallFails, StoreFails, HandlerPc
  <2> QED
    BY <1>5, <2>1 DEF TypeOK, CallParser, CallFails, StoreFails
<1>6. CASE SendParse(h)
  <2>1. handler[h].next \in Jobs
    BY <1>6 DEF SendParse, Integrity, References, Known
  <2>2. waiting' \subseteq Jobs \X (0..RetryLimit)
    BY <1>6, <2>1, ImportAssumption DEF TypeOK, SendParse
  <2> QED
    BY <1>6, <2>2, ReturnType DEF TypeOK, SendParse
<1>7. CASE CompleteJob(h)
  <2>1. job' \in [Jobs -> Job]
    BY <1>7, Working, JobStatusType DEF CompleteJob, CompletedJob
  <2> QED
    BY <1>7, <2>1, ReturnType DEF TypeOK, CompleteJob
<1>8. CASE FailJob(h)
  <2>1. job' \in [Jobs -> Job]
    BY <1>8, Working, JobStatusType DEF FailJob
  <2>2. handler' \in [Handlers -> Handler]
    BY <1>8, GotoType DEF FailJob, HandlerPc
  <2> QED
    BY <1>8, <2>1, <2>2 DEF TypeOK, FailJob
<1>9. CASE FailStatement(h)
  <2>1. s \in Statements /\ handler[h] \in Handler /\ handler[h].job \in Jobs
    BY <1>9, Working DEF FailStatement
  <2>2. stmt' \in [Statements -> Statement]
    BY <1>9, <2>1, SetStatusType DEF FailStatement, ProcessingStatus
  <2>3. waiting' \subseteq Jobs \X (0..RetryLimit)
    BY <1>9, <2>1, RetryType DEF TypeOK, FailStatement
  <2> QED
    BY <1>9, <2>2, <2>3, ReturnType DEF TypeOK, FailStatement
<1> QED
  BY <1>1, <1>2, <1>3, <1>4, <1>5, <1>6, <1>7, <1>8, <1>9 DEF HandlerStep

------------------------------------------------------------------------------

\* Every step of updateRawTransaction keeps the types.
LEMMA EditTypes ==
    ASSUME TypeOK, Integrity, NEW e \in Editors, EditStep(e)
    PROVE  TypeOK'
<1> USE DEF reviewFrame, queue
<1>1. ASSUME NEW r \in Rows, EditRead(e, r)
      PROVE  TypeOK'
  <2>1. editor' \in [Editors -> Editor]
    BY <1>1 DEF TypeOK, EditRead, Editor, RawRow
  <2> QED
    BY <1>1, <2>1 DEF TypeOK, EditRead
<1>2. CASE EditWrite(e)
  <2>1. row' \in [Rows -> RawRow]
    BY <1>2 DEF TypeOK, EditWrite, RawRow, Review, Candidate
  <2>2. editor' \in [Editors -> Editor]
    BY <1>2 DEF TypeOK, EditWrite, Editor
  <2> QED
    BY <1>2, <2>1, <2>2 DEF TypeOK, EditWrite
<1>3. CASE EditRecount(e)
  <2>1. PICK ready \in BOOLEAN :
           editor' = [editor EXCEPT ![e].pc = "publish", ![e].ready = ready]
    <3>1. (RowsOf(editor[e].stmt) # {} /\ Resolved(editor[e].stmt)) \in BOOLEAN
      OBVIOUS
    <3> QED
      BY <1>3, <3>1, Zenon DEF EditRecount
  <2>2. editor' \in [Editors -> Editor]
    BY <2>1, ZenonT(30) DEF TypeOK, Editor
  <2> QED
    BY <1>3, <2>2 DEF TypeOK, EditRecount
<1>4. CASE EditPublish(e)
  <2>1. editor[e].stmt \in Statements
    BY <1>4 DEF EditPublish, Integrity, References, Present
  <2>2. stmt' \in [Statements -> Statement]
    BY <1>4, <2>1, SetStatusType DEF EditPublish, ProcessingStatus
  <2>3. editor' \in [Editors -> Editor]
    BY <1>4, IdleTypes DEF TypeOK, EditPublish
  <2> QED
    BY <1>4, <2>2, <2>3 DEF TypeOK, EditPublish
<1> QED
  BY <1>1, <1>2, <1>3, <1>4 DEF EditStep

\* Every step of confirmImport keeps the types.
LEMMA ConfirmTypes ==
    ASSUME TypeOK, Integrity, NEW c \in Confirmers, ConfirmStep(c)
    PROVE  TypeOK'
<1> USE DEF reviewFrame, queue
<1>1. ASSUME NEW s \in Statements, ConfirmRead(c, s)
      PROVE  TypeOK'
  <2>1. confirmer' \in [Confirmers -> Confirmer]
    BY <1>1 DEF TypeOK, ConfirmRead, Confirmer
  <2> QED
    BY <1>1, <2>1 DEF TypeOK, ConfirmRead
<1>2. CASE ConfirmRows(c)
  <2>1. {r \in RowsOf(confirmer[c].stmt) : row[r].review = "valid"} \in SUBSET Rows
    BY DEF RowsOf
  <2>2. confirmer' \in [Confirmers -> Confirmer]
    BY <1>2, <2>1, IdleTypes DEF TypeOK, ConfirmRows, Confirmer
  <2> QED
    BY <1>2, <2>2 DEF TypeOK, ConfirmRows
<1>3. CASE ConfirmCommit(c)
  <2>1. confirmer[c].stmt \in Statements
    BY <1>3 DEF ConfirmCommit, Integrity, References, Present
  <2>2. stmt' \in [Statements -> Statement]
    BY <1>3, <2>1, SetStatusType DEF ConfirmCommit, ProcessingStatus
  <2>3. ledger' \in [Rows -> Nat]
    BY <1>3 DEF TypeOK, ConfirmCommit, Posted
  <2>4. [pc |-> "delete", stmt |-> confirmer[c].stmt, included |-> {}] \in Confirmer
    BY <2>1 DEF Confirmer
  <2>5. confirmer' \in [Confirmers -> Confirmer]
    <3>1. \/ confirmer' = [confirmer EXCEPT ![c] =
                [pc |-> "delete", stmt |-> confirmer[c].stmt, included |-> {}]]
          \/ confirmer' = [confirmer EXCEPT ![c] = IdleConfirmer]
      BY <1>3 DEF ConfirmCommit, DeletesOriginal
    <3> QED
      BY <2>4, <3>1, IdleTypes DEF TypeOK
  <2> QED
    BY <1>3, <2>2, <2>3, <2>5 DEF TypeOK, ConfirmCommit
<1>4. CASE ConfirmRollback(c)
  BY <1>4, IdleTypes DEF TypeOK, ConfirmRollback
<1>5. CASE ConfirmDelete(c)
  BY <1>5, IdleTypes DEF TypeOK, ConfirmDelete, database
<1> QED
  BY <1>1, <1>2, <1>3, <1>4, <1>5 DEF ConfirmStep

\* Every step of the hourly cleanup keeps the types.
LEMMA CleanupTypes ==
    ASSUME TypeOK, Integrity, CleanupStep \/ \E s \in Statements : GrowOld(s)
    PROVE  TypeOK'
<1> USE DEF cleanupFrame, queue, requests
<1>1. ASSUME NEW s \in Statements, GrowOld(s)
      PROVE  TypeOK'
  <2>1. [stmt[s] EXCEPT !.old = TRUE] \in Statement
    BY DEF TypeOK, Statement
  <2>2. stmt' \in [Statements -> Statement]
    BY <1>1, <2>1 DEF TypeOK, GrowOld
  <2> QED
    BY <1>1, <2>2 DEF TypeOK, GrowOld
<1>2. CASE CleanupList
  BY <1>2 DEF TypeOK, CleanupList, Cleaner
<1>3. CASE CleanupClaim
  <2>1. PICK s \in cleaner.todo :
           IF Abandoned(s)
           THEN /\ stmt' = SetStatus(s, "failed")
                /\ cleaner' = [pc |-> "delete", todo |-> cleaner.todo \ {s}, current |-> s]
           ELSE /\ cleaner' = [cleaner EXCEPT !.todo = @ \ {s}]
                /\ UNCHANGED stmt
    BY <1>3 DEF CleanupClaim
  <2>2. s \in Statements
    BY DEF TypeOK, Cleaner
  <2>3. stmt' \in [Statements -> Statement]
    BY <2>1, <2>2, SetStatusType DEF TypeOK, ProcessingStatus
  <2>4. cleaner' \in Cleaner
    BY <2>1, <2>2 DEF TypeOK, Cleaner
  <2> QED
    BY <1>3, <2>3, <2>4 DEF TypeOK, CleanupClaim
<1>4. CASE CleanupDelete
  <2>1. cleaner' \in Cleaner
    BY <1>4 DEF TypeOK, CleanupDelete, Cleaner
  <2> QED
    BY <1>4, <2>1 DEF TypeOK, CleanupDelete
<1>5. CASE CleanupClear
  <2>1. cleaner.current \in Statements
    BY <1>5 DEF CleanupClear, Integrity, Deleters, Deletable, Present
  <2>2. stmt' \in [Statements -> Statement]
    BY <1>5, <2>1, ZenonT(30) DEF TypeOK, CleanupClear, Statement
  <2>3. cleaner' \in Cleaner
    BY <1>5 DEF TypeOK, CleanupClear, Cleaner
  <2> QED
    BY <1>5, <2>2, <2>3 DEF TypeOK, CleanupClear
<1>6. CASE CleanupDone
  BY <1>6, IdleTypes DEF TypeOK, CleanupDone
<1> QED
  BY <1>1, <1>2, <1>3, <1>4, <1>5, <1>6 DEF CleanupStep

\* A crash of either process keeps the types.
LEMMA CrashTypes ==
    ASSUME TypeOK, Integrity, WorkerCrash \/ WebCrash
    PROVE  TypeOK'
<1> USE DEF database, requests, workerState
<1>1. CASE WorkerCrash
  <2>1. \A h \in Handlers : handler[h].pc # "idle"
                            => Retry(handler[h]) \subseteq Jobs \X (0..RetryLimit)
    BY Working, RetryType
  <2>2. waiting' \subseteq Jobs \X (0..RetryLimit)
    BY <1>1, <2>1 DEF TypeOK, WorkerCrash
  <2>3. handler' \in [Handlers -> Handler] /\ cleaner' \in Cleaner
    BY <1>1, IdleTypes DEF WorkerCrash
  <2>4. crashes' \in Crashes
    BY <1>1, ImportAssumption DEF TypeOK, WorkerCrash, Crashes
  <2> QED
    BY <1>1, <2>2, <2>3, <2>4 DEF TypeOK, WorkerCrash
<1>2. CASE WebCrash
  <2>1. editor' \in [Editors -> Editor] /\ confirmer' \in [Confirmers -> Confirmer]
    BY <1>2, IdleTypes DEF WebCrash
  <2>2. crashes' \in Crashes
    BY <1>2, ImportAssumption DEF TypeOK, WebCrash, Crashes
  <2> QED
    BY <1>2, <2>1, <2>2 DEF TypeOK, WebCrash
<1> QED
  BY <1>1, <1>2

------------------------------------------------------------------------------

\* No step of the pipeline breaks a type.
LEMMA TypeStep ==
    ASSUME TypeOK, Integrity, [Next]_vars
    PROVE  TypeOK'
<1>1. CASE Next
  BY <1>1, RequestTypes, HandlerTypes, EditTypes, ConfirmTypes, CleanupTypes, CrashTypes
     DEF Next
<1>2. CASE UNCHANGED vars
  BY <1>2 DEF TypeOK, vars
<1> QED
  BY <1>1, <1>2

------------------------------------------------------------------------------
(* The tables, one step at a time.                                           *)

\* A handler leaves these alone.
LEMMA HandlerFrame ==
    ASSUME NEW h \in Handlers, HandlerStep(h)
    PROVE  UNCHANGED <<ledger, files, uploads, outbox, requests, cleaner, crashes>>
  BY DEF HandlerStep, TakeSettled, TakeInspected, TakeWork, ClaimJob, ClaimStatement,
         CallParser, CallFails, StoreInspection, SendParse, StoreAmbiguous, CompleteJob,
         StoreCandidates, StoreFails, FailJob, FailStatement, database, queue

\* Who writes a statement's row keeps it, the user's wish about the original and,
\* but for the cleaner's last step, its storage key.
Updated(s) ==
    /\ stmt'[s].status # "absent" <=> stmt[s].status # "absent"
    /\ stmt'[s].retain = stmt[s].retain
    /\ stmt'[s].key = stmt[s].key

\* An UPDATE of a statement's status is such a write.
LEMMA SetStatusUpdates ==
    ASSUME TypeOK, NEW s \in Statements, stmt[s].status # "absent",
           NEW status \in ProcessingStatus \ {"absent"},
           stmt' = SetStatus(s, status)
    PROVE  \A t \in Statements : Updated(t)
  BY DEF TypeOK, Statement, SetStatus, Updated

\* So is the transaction that stores a choice and queues its parse.
LEMMA QueueParseUpdates ==
    ASSUME TypeOK, NEW s \in Statements, NEW updated \in Statement,
           stmt[s].status # "absent", updated.retain = stmt[s].retain, updated.key = stmt[s].key,
           QueueParse(s, updated)
    PROVE  \A t \in Statements : Updated(t)
<1>1. stmt' = [stmt EXCEPT ![s] = [updated EXCEPT !.status = "parsing", !.old = FALSE]]
  BY DEF QueueParse
<1> QED
  BY <1>1 DEF TypeOK, Statement, Updated

\* So is whatever a handler writes.
LEMMA HandlerUpdates ==
    ASSUME TypeOK, Integrity, NEW h \in Handlers, HandlerStep(h)
    PROVE  \A t \in Statements : Updated(t)
<1> DEFINE s == job[handler[h].job].stmt
<1>1. CASE UNCHANGED stmt
  BY <1>1 DEF Updated
<1>2. CASE ClaimStatement(h)
  BY <1>2, Working, SetStatusUpdates, SMTT(30) DEF ClaimStatement, ProcessingStatus
<1>3. CASE FailStatement(h)
  BY <1>3, Working, SetStatusUpdates DEF FailStatement, ProcessingStatus
<1>4. CASE StoreInspection(h)
  <2>1. s \in Statements /\ stmt[s].status # "absent"
    BY <1>4, Working DEF StoreInspection
  <2>2. stmt[s] \in Statement /\ stmt \in [Statements -> Statement]
    BY <2>1 DEF TypeOK
  <2>3. ASSUME NEW sheet \in Sheets \union {None}, QueueInspected(h, s, sheet)
        PROVE  \A t \in Statements : Updated(t)
    <3>1. stmt' = [stmt EXCEPT ![s].status = "parsing", ![s].sheet = sheet, ![s].old = FALSE]
      BY <2>3 DEF QueueInspected
    <3> QED
      BY <2>1, <2>2, <3>1 DEF Statement, Updated
  <2>4. stmt[s].sheet \in Sheets \union {None}
    BY <2>2 DEF Statement
  <2>5. CASE stmt' = [stmt EXCEPT ![s].status = "needs_sheet_selection",
                                  ![s].sheet = None, ![s].old = FALSE]
    BY <2>1, <2>2, <2>5 DEF Statement, Updated
  <2> QED
    BY <1>4, <2>3, <2>4, <2>5 DEF StoreInspection
<1>5. CASE StoreAmbiguous(h) \/ StoreCandidates(h)
  <2>1. s \in Statements /\ stmt[s].status # "absent"
    BY <1>5, Working DEF StoreAmbiguous, StoreCandidates
  <2>2. \E m \in Mapping, status \in ProcessingStatus \ {"absent"} :
           stmt' = Described(h, status, m)
    <3>1. CASE StoreAmbiguous(h)
      BY <3>1 DEF StoreAmbiguous, Answered, ProcessingStatus
    <3>2. CASE StoreCandidates(h)
      BY <3>2 DEF StoreCandidates, Answered, Outcome, ProcessingStatus
    <3> QED
      BY <1>5, <3>1, <3>2
  <2> QED
    BY <2>1, <2>2 DEF TypeOK, Statement, Updated, Described
<1> QED
  BY <1>1, <1>2, <1>3, <1>4, <1>5
     DEF HandlerStep, TakeSettled, TakeInspected, TakeWork, ClaimJob, CallParser,
         CallFails, SendParse, CompleteJob, StoreFails, FailJob, database

\* What a step may do to a statement: insert it for an upload, update it, or clear
\* the storage key the cleaner has just deleted the object of.
LEMMA StatementStep ==
    ASSUME TypeOK, Integrity, [Next]_vars, NEW t \in Statements
    PROVE  \/ InsertUpload(t) /\ stmt'[t].status # "absent" /\ stmt'[t].key
           \/ Updated(t)
           \/ /\ CleanupClear /\ t = cleaner.current
              /\ stmt'[t].status # "absent" <=> stmt[t].status # "absent"
              /\ stmt'[t].retain = stmt[t].retain
<1>1. CASE UNCHANGED stmt
  BY <1>1 DEF Updated
<1>2. ASSUME NEW s \in Statements, InsertUpload(s)
      PROVE  \/ InsertUpload(t) /\ stmt'[t].status # "absent" /\ stmt'[t].key
             \/ Updated(t)
  <2>1. PICK source \in SourceTypes, retain \in BOOLEAN :
           stmt' = [stmt EXCEPT ![s] =
              [NoStatement EXCEPT !.status = "uploaded", !.source = source,
                                  !.retain = retain, !.key = TRUE]]
    BY <1>2 DEF InsertUpload
  <2> QED
    BY <1>2, <2>1 DEF TypeOK, NoStatement, Updated
<1>3. ASSUME NEW s \in Statements, SaveMapping(s) \/ SelectSheet(s)
      PROVE  Updated(t)
  <2>1. stmt[s] \in Statement /\ stmt[s].status # "absent"
    BY <1>3 DEF TypeOK, SaveMapping, SelectSheet
  <2>2. ASSUME NEW columns \in Columns,
               QueueParse(s, [stmt[s] EXCEPT !.mapping =
                                [columns |-> columns, sheet |-> stmt[s].sheet]])
        PROVE  Updated(t)
    <3>1. [stmt[s] EXCEPT !.mapping = [columns |-> columns, sheet |-> stmt[s].sheet]]
             \in Statement
      BY <2>1 DEF Statement, Mapping
    <3> QED
      BY <2>1, <2>2, <3>1, QueueParseUpdates DEF Statement
  <2>3. ASSUME NEW sheet \in Sheets,
               QueueParse(s, [stmt[s] EXCEPT !.sheet = sheet])
        PROVE  Updated(t)
    <3>1. [stmt[s] EXCEPT !.sheet = sheet] \in Statement
      BY <2>1 DEF Statement
    <3> QED
      BY <2>1, <2>3, <3>1, QueueParseUpdates DEF Statement
  <2> QED
    BY <1>3, <2>2, <2>3 DEF SaveMapping, SelectSheet
<1>4. ASSUME NEW h \in Handlers, HandlerStep(h)
      PROVE  Updated(t)
  BY <1>4, HandlerUpdates
<1>5. ASSUME NEW e \in Editors, EditPublish(e)
      PROVE  Updated(t)
  BY <1>5, SetStatusUpdates
     DEF EditPublish, Integrity, References, Present, ProcessingStatus
<1>6. ASSUME NEW c \in Confirmers, ConfirmCommit(c)
      PROVE  Updated(t)
  BY <1>6, SetStatusUpdates
     DEF ConfirmCommit, Integrity, References, Present, ProcessingStatus
<1>7. ASSUME NEW s \in Statements, GrowOld(s)
      PROVE  Updated(t)
  BY <1>7 DEF TypeOK, Statement, GrowOld, Updated
<1>8. CASE CleanupClaim
  <2>1. \/ UNCHANGED stmt
        \/ \E s \in cleaner.todo : /\ stmt[s].status # "absent"
                                   /\ stmt' = SetStatus(s, "failed")
    BY <1>8 DEF CleanupClaim, Abandoned
  <2>2. cleaner.todo \subseteq Statements
    BY DEF TypeOK, Cleaner
  <2> QED
    BY <1>1, <2>1, <2>2, SetStatusUpdates DEF ProcessingStatus
<1>9. CASE CleanupClear
  BY <1>9 DEF TypeOK, Statement, CleanupClear, Updated
<1> QED
  BY <1>1, <1>2, <1>3, <1>4, <1>5, <1>6, <1>7, <1>8, <1>9
     DEF Next, RequestStep, EditStep, ConfirmStep, CleanupStep, StoreUpload,
         AbandonUpload, SaveMappingAgain, SelectSheetAgain, Resend, SendJob, LoseSend,
         WebCrash, WorkerCrash, EditRead, EditWrite, EditRecount, ConfirmRead, ConfirmRows,
         ConfirmRollback, ConfirmDelete, CleanupList, CleanupDelete, CleanupDone,
         database, vars

\* A statement, once inserted, is there for good, and so is the user's wish.
LEMMA PresentStays ==
    ASSUME TypeOK, Integrity, [Next]_vars, NEW s, Present(s)
    PROVE  Present(s)' /\ stmt'[s].retain = stmt[s].retain
<1>1. s \in Statements /\ stmt[s].status # "absent" /\ ~InsertUpload(s)
  BY DEF Present, InsertUpload, Integrity, Deleters
<1> QED
  BY <1>1, StatementStep DEF Updated, Present

\* A job, once inserted, is there for good; a new one is of a statement that is.
LEMMA JobStep ==
    ASSUME TypeOK, Integrity, [Next]_vars, NEW j \in Jobs
    PROVE  /\ Known(j) => Known(j)' /\ job'[j].stmt = job[j].stmt
           /\ ~Known(j) /\ Known(j)' => Present(job[j].stmt)'
<1>1. CASE UNCHANGED job
  BY <1>1 DEF Known
<1>2. ASSUME NEW i \in Jobs, NEW s \in Statements, NEW kind \in {"parse", "inspect"},
             FreshJob(i), job' = [job EXCEPT ![i] = QueuedJob(s, kind)],
             stmt'[s].status # "absent"
      PROVE  /\ Known(j) => Known(j)' /\ job'[j].stmt = job[j].stmt
             /\ ~Known(j) /\ Known(j)' => Present(job[j].stmt)'
  <2>1. CASE i = j
    <3>1. job'[j] = [stmt |-> s, kind |-> kind, status |-> "queued"]
      BY <1>2, <2>1 DEF TypeOK, QueuedJob
    <3> QED
      BY <1>2, <2>1, <3>1 DEF FreshJob, Known, Present
  <2>2. CASE i # j
    BY <1>2, <2>2 DEF TypeOK, Known
  <2> QED
    BY <2>1, <2>2
<1>3. ASSUME NEW i \in Jobs, Known(i), NEW status \in {"running", "completed", "failed"},
             job' = [job EXCEPT ![i].status = status]
      PROVE  /\ Known(j) => Known(j)' /\ job'[j].stmt = job[j].stmt
             /\ Known(j)' => Known(j)
  BY <1>3 DEF TypeOK, Job, Known
<1>4. ASSUME NEW s \in Statements, InsertUpload(s)
      PROVE  /\ Known(j) => Known(j)' /\ job'[j].stmt = job[j].stmt
             /\ ~Known(j) /\ Known(j)' => Present(job[j].stmt)'
  <2>1. PICK i \in Jobs, source \in SourceTypes :
           FreshJob(i) /\ job' = [job EXCEPT ![i] =
              QueuedJob(s, IF source = "csv" THEN "parse" ELSE "inspect")]
    BY <1>4 DEF InsertUpload
  <2>2. stmt'[s].status # "absent"
    BY <1>4 DEF TypeOK, InsertUpload, NoStatement
  <2> QED
    BY <1>2, <2>1, <2>2
<1>5. ASSUME NEW s \in Statements, SaveMapping(s) \/ SelectSheet(s)
      PROVE  /\ Known(j) => Known(j)' /\ job'[j].stmt = job[j].stmt
             /\ ~Known(j) /\ Known(j)' => Present(job[j].stmt)'
  <2>1. PICK i \in Jobs : FreshJob(i) /\ job' = [job EXCEPT ![i] = QueuedJob(s, "parse")]
    BY <1>5 DEF SaveMapping, SelectSheet, QueueParse
  <2>2. Present(s)'
    BY <1>5, PresentStays DEF SaveMapping, SelectSheet, Present
  <2> QED
    BY <1>2, <2>1, <2>2 DEF Present
<1>6. ASSUME NEW h \in Handlers, ClaimJob(h) \/ CompleteJob(h) \/ StoreCandidates(h)
                                    \/ StoreAmbiguous(h) \/ FailJob(h)
      PROVE  /\ Known(j) => Known(j)' /\ job'[j].stmt = job[j].stmt
             /\ Known(j)' => Known(j)
  <2>1. handler[h].job \in Jobs /\ Known(handler[h].job)
    BY <1>6, Working DEF ClaimJob, CompleteJob, StoreCandidates, StoreAmbiguous, FailJob, Known
  <2> QED
    BY <1>1, <1>3, <1>6, <2>1
       DEF ClaimJob, CompleteJob, StoreCandidates, StoreAmbiguous, FailJob, CompletedJob, Known
<1>7. ASSUME NEW h \in Handlers, StoreInspection(h)
      PROVE  /\ Known(j) => Known(j)' /\ job'[j].stmt = job[j].stmt
             /\ ~Known(j) /\ Known(j)' => Present(job[j].stmt)'
  <2>0. /\ handler[h].job \in Jobs /\ Known(handler[h].job)
        /\ job[handler[h].job].stmt \in Statements /\ Present(job[handler[h].job].stmt)
    BY <1>7, Working DEF StoreInspection, Known, Present
  <2>1. PICK k \in Jobs, s \in Statements :
           k = handler[h].job /\ Known(k) /\ s = job[k].stmt /\ Present(s)
    BY <2>0
  <2>2. Present(s)'
    BY <2>1, PresentStays
  <2>3. ASSUME NEW i \in Jobs, FreshJob(i),
               job' = [CompletedJob(h) EXCEPT ![i] = QueuedJob(s, "parse")]
        PROVE  /\ Known(j) => Known(j)' /\ job'[j].stmt = job[j].stmt
               /\ ~Known(j) /\ Known(j)' => Present(job[j].stmt)'
    <3>1. i # k /\ CompletedJob(h) \in [Jobs -> Job]
      BY <2>1, <2>3, JobStatusType DEF FreshJob, Known, CompletedJob
    <3>2. CASE i = j
      <4>1. job'[j] = [stmt |-> s, kind |-> "parse", status |-> "queued"]
        BY <2>3, <3>1, <3>2 DEF QueuedJob
      <4> QED
        BY <2>2, <2>3, <3>2, <4>1 DEF FreshJob, Known, Present
    <3>3. CASE i # j
      <4>1. job'[j] = CompletedJob(h)[j]
        BY <2>3, <3>1, <3>3
      <4> QED
        BY <2>1, <4>1 DEF TypeOK, Job, Known, CompletedJob
    <3> QED
      BY <3>2, <3>3
  <2>4. CASE job' = CompletedJob(h)
    BY <1>3, <2>1, <2>4 DEF CompletedJob
  <2> QED
    BY <1>7, <2>1, <2>3, <2>4 DEF StoreInspection, QueueInspected
<1> QED
  BY <1>1, <1>4, <1>5, <1>6, <1>7
     DEF Next, RequestStep, HandlerStep, EditStep, ConfirmStep, CleanupStep, StoreUpload,
         AbandonUpload, SaveMappingAgain, SelectSheetAgain, Resend, SendJob, LoseSend,
         TakeSettled, TakeInspected, TakeWork, ClaimStatement, CallParser, CallFails,
         SendParse, StoreFails, FailStatement, WebCrash, WorkerCrash, EditRead, EditWrite,
         EditRecount, EditPublish, ConfirmRead, ConfirmRows, ConfirmCommit, ConfirmRollback,
         ConfirmDelete, GrowOld, CleanupList, CleanupClaim, CleanupDelete, CleanupClear,
         CleanupDone, database, reviewFrame, cleanupFrame, vars

\* An original appears for an upload that has no statement yet; one disappears that
\* its upload gives up or its statement need not keep.
LEMMA FilesStep ==
    ASSUME TypeOK, Integrity, [Next]_vars, NEW s \in Statements
    PROVE  /\ s \in files /\ s \notin files' => AbandonUpload(s) \/ Deletable(s)
           /\ s \notin files /\ s \in files' => StoreUpload(s)
<1>1. CASE UNCHANGED files
  BY <1>1
<1>2. ASSUME NEW t \in Statements, StoreUpload(t) \/ AbandonUpload(t)
      PROVE  /\ s \in files /\ s \notin files' => AbandonUpload(s)
             /\ s \notin files /\ s \in files' => StoreUpload(s)
  BY <1>2 DEF StoreUpload, AbandonUpload
<1>3. ASSUME NEW c \in Confirmers, ConfirmDelete(c)
      PROVE  /\ s \in files /\ s \notin files' => Deletable(s)
             /\ s \in files' => s \in files
  BY <1>3 DEF ConfirmDelete, Integrity, Deleters
<1>4. CASE CleanupDelete
  BY <1>4 DEF CleanupDelete, Integrity, Deleters
<1> QED
  BY <1>1, <1>2, <1>3, <1>4, HandlerFrame
     DEF Next, RequestStep, EditStep, ConfirmStep, CleanupStep, InsertUpload, SaveMapping,
         SelectSheet, QueueParse, SaveMappingAgain, SelectSheetAgain, Resend, SendJob,
         LoseSend, WebCrash, WorkerCrash, EditRead, EditWrite, EditRecount, EditPublish,
         ConfirmRead, ConfirmRows, ConfirmCommit, ConfirmRollback, GrowOld, CleanupList,
         CleanupClaim, CleanupClear, CleanupDone, reviewFrame, vars

\* Who may delete an original once may delete it for good.
LEMMA DeletableStays ==
    ASSUME TypeOK, Integrity, [Next]_vars, NEW s, Deletable(s)
    PROVE  Deletable(s)'
  BY PresentStays DEF Deletable

\* What a step may do to a raw row: nothing, an edit, the deletion of one that no
\* ledger entry refers to, or its insertion.
LEMMA RowStep ==
    ASSUME TypeOK, Integrity, [Next]_vars, NEW r \in Rows
    PROVE  \/ row'[r] = row[r]
           \/ /\ row[r].review \in Review /\ row'[r].review \in Review
              /\ row'[r].stmt = row[r].stmt
           \/ row'[r].review = "deleted" /\ ledger[r] = 0 /\ UNCHANGED ledger
           \/ row[r].review = "unused" /\ Present(row[r].stmt)'
<1>1. CASE UNCHANGED row
  BY <1>1
<1>2. ASSUME NEW e \in Editors, EditWrite(e)
      PROVE  \/ row'[r] = row[r]
             \/ /\ row[r].review \in Review /\ row'[r].review \in Review
                /\ row'[r].stmt = row[r].stmt
  BY <1>2 DEF TypeOK, RawRow, EditWrite, Review, Candidate
<1>3. ASSUME NEW h \in Handlers, StoreCandidates(h)
      PROVE  \/ row'[r] = row[r]
             \/ row'[r].review = "deleted" /\ ledger[r] = 0 /\ UNCHANGED ledger
             \/ row[r].review = "unused" /\ Present(row[r].stmt)'
  <2>1. /\ job[handler[h].job].stmt \in Statements
        /\ Present(job[handler[h].job].stmt)
    BY <1>3, Working DEF StoreCandidates, Present
  <2>2. PICK s \in Statements : s = job[handler[h].job].stmt /\ Present(s)
    BY <2>1
  <2>3. Present(s)'
    BY <2>2, PresentStays
  <2>4. PICK fresh \in SUBSET {q \in Rows : row[q].review = "unused"} :
           \E review \in [fresh -> Candidate] : row' = Replaced(s, fresh, review)
    BY <1>3, <2>2 DEF StoreCandidates
  <2>5. PICK review \in [fresh -> Candidate] : row' = Replaced(s, fresh, review)
    BY <2>4
  <2>6. CASE r \in fresh
    BY <2>3, <2>5, <2>6 DEF Replaced, Present
  <2>7. CASE r \in RowsOf(s) /\ r \notin fresh
    <3>1. row'[r] = [row[r] EXCEPT !.review = "deleted"] /\ row[r] \in RawRow
      BY <2>5, <2>7 DEF Replaced, TypeOK
    <3>2. ledger[r] = 0
      BY <1>3, <2>2, <2>7 DEF StoreCandidates, Unreferenced
    <3> QED
      BY <1>3, <3>1, <3>2 DEF StoreCandidates, RawRow
  <2>8. CASE r \notin RowsOf(s) /\ r \notin fresh
    BY <2>5, <2>8 DEF Replaced
  <2> QED
    BY <2>6, <2>7, <2>8
<1> QED
  BY <1>1, <1>2, <1>3
     DEF Next, RequestStep, HandlerStep, EditStep, ConfirmStep, CleanupStep, StoreUpload,
         InsertUpload, AbandonUpload, SaveMapping, SelectSheet, QueueParse,
         SaveMappingAgain, SelectSheetAgain, Resend, SendJob, LoseSend,
         TakeSettled, TakeInspected, TakeWork, ClaimJob, ClaimStatement, CallParser,
         CallFails, StoreInspection, SendParse, StoreAmbiguous, CompleteJob, StoreFails,
         FailJob, FailStatement, WebCrash, WorkerCrash, EditRead, EditRecount, EditPublish,
         ConfirmRead, ConfirmRows, ConfirmCommit, ConfirmRollback, ConfirmDelete, GrowOld,
         CleanupList, CleanupClaim, CleanupDelete, CleanupClear, CleanupDone, database,
         cleanupFrame, vars

\* What joins the outbox is a job of the table.
LEMMA OutboxStep ==
    ASSUME TypeOK, Integrity, [Next]_vars, NEW j \in outbox'
    PROVE  Known(j)'
<1>1. j \in Jobs
  BY TypeStep DEF TypeOK
<1>2. CASE j \in outbox
  BY <1>1, <1>2, JobStep DEF Integrity, References
<1>3. CASE j \notin outbox
  <2>1. ASSUME NEW s \in Statements, SaveMappingAgain(s) \/ SelectSheetAgain(s)
        PROVE  Known(j)'
    <3>1. \E latest \in Newest(JobsOf(s, "parse")) :
             job[latest].status = "queued" /\ outbox' = outbox \union {latest}
      BY <2>1 DEF SaveMappingAgain, SelectSheetAgain, Resend
    <3>2. Known(j)
      BY <1>1, <1>3, <3>1 DEF Known
    <3> QED
      BY <1>1, <3>2, JobStep
  <2>2. ASSUME NEW s \in Statements, NEW i \in Jobs, NEW kind \in {"parse", "inspect"},
               job' = [job EXCEPT ![i] = QueuedJob(s, kind)], outbox' = outbox \union {i}
        PROVE  Known(j)'
    BY <1>1, <1>3, <2>2 DEF TypeOK, QueuedJob, Known
  <2>3. ASSUME NEW s \in Statements, InsertUpload(s)
        PROVE  Known(j)'
    <3>1. PICK source \in SourceTypes, i \in Jobs :
             /\ job' = [job EXCEPT ![i] =
                   QueuedJob(s, IF source = "csv" THEN "parse" ELSE "inspect")]
             /\ outbox' = outbox \union {i}
      BY <2>3 DEF InsertUpload
    <3> QED
      BY <2>2, <3>1
  <2>4. ASSUME NEW s \in Statements, SaveMapping(s) \/ SelectSheet(s)
        PROVE  Known(j)'
    BY <2>2, <2>4 DEF SaveMapping, SelectSheet, QueueParse
  <2> QED
    BY <1>3, <2>1, <2>3, <2>4, HandlerFrame
       DEF Next, RequestStep, EditStep, ConfirmStep, CleanupStep, StoreUpload,
           AbandonUpload, SendJob, LoseSend, WebCrash, WorkerCrash, EditRead, EditWrite,
           EditRecount, EditPublish, ConfirmRead, ConfirmRows, ConfirmCommit,
           ConfirmRollback, ConfirmDelete, GrowOld, CleanupList, CleanupClaim,
           CleanupDelete, CleanupClear, CleanupDone, queue, reviewFrame, cleanupFrame, vars
<1> QED
  BY <1>2, <1>3

\* What pg-boss is given, or keeps for a retry, is a job of the table.
LEMMA WaitingStep ==
    ASSUME TypeOK, Integrity, [Next]_vars, NEW d \in waiting'
    PROVE  Known(d[1])'
<1>1. d[1] \in Jobs
  BY TypeStep DEF TypeOK
<1>2. SUFFICES Known(d[1])
  BY <1>1, JobStep
<1>3. CASE d \in waiting
  BY <1>3 DEF Integrity, References
<1>4. CASE d \notin waiting
  <2>1. ASSUME NEW j \in Jobs, SendJob(j)
        PROVE  Known(d[1])
    BY <1>4, <2>1 DEF SendJob, Integrity, References
  <2>2. ASSUME NEW h \in Handlers, SendParse(h)
        PROVE  Known(d[1])
    BY <1>4, <2>2 DEF SendParse, Integrity, References
  <2>3. ASSUME NEW h \in Handlers, handler[h].pc # "idle", d \in Retry(handler[h])
        PROVE  Known(d[1])
    BY <2>3 DEF Retry, Integrity, References
  <2>4. ASSUME NEW h \in Handlers, FailStatement(h)
        PROVE  Known(d[1])
    BY <1>4, <2>3, <2>4 DEF FailStatement
  <2>5. CASE WorkerCrash
    BY <1>4, <2>3, <2>5 DEF WorkerCrash
  <2> QED
    BY <1>4, <2>1, <2>2, <2>4, <2>5, ZenonT(30)
       DEF Next, RequestStep, HandlerStep, EditStep, ConfirmStep, CleanupStep, StoreUpload,
           InsertUpload, AbandonUpload, SaveMapping, SelectSheet, QueueParse,
           SaveMappingAgain, SelectSheetAgain, Resend, LoseSend,
           TakeSettled, TakeInspected, TakeWork, Take, ClaimJob, ClaimStatement, CallParser,
           CallFails, StoreInspection, StoreAmbiguous, CompleteJob, StoreCandidates,
           StoreFails, FailJob, WebCrash, EditRead, EditWrite, EditRecount, EditPublish,
           ConfirmRead, ConfirmRows, ConfirmCommit, ConfirmRollback, ConfirmDelete, GrowOld,
           CleanupList, CleanupClaim, CleanupDelete, CleanupClear, CleanupDone, queue,
           reviewFrame, cleanupFrame, vars
<1> QED
  BY <1>3, <1>4

\* A handler at work holds a job of the table, and sends one.
LEMMA HandlerRefStep ==
    ASSUME TypeOK, Integrity, [Next]_vars, NEW h \in Handlers
    PROVE  /\ handler'[h].pc # "idle" => Known(handler[h].job)'
           /\ handler'[h].pc = "send" => Known(handler[h].next)'
<1>1. CASE handler'[h] = handler[h]
  BY <1>1, JobStep DEF Integrity, References, Known
<1>2. CASE handler'[h] = IdleHandler
  BY <1>2 DEF IdleHandler
<1>3. ASSUME NEW pc \in HandlerPc \ {"send", "idle"}, handler[h].pc # "idle",
             handler' = [handler EXCEPT ![h].pc = pc]
      PROVE  /\ handler'[h].pc # "idle" => Known(handler[h].job)'
             /\ handler'[h].pc = "send" => Known(handler[h].next)'
  <2>1. Known(handler[h].job)
    BY <1>3 DEF Integrity, References
  <2>2. handler'[h].pc = pc /\ handler'[h].job = handler[h].job
    BY <1>3 DEF TypeOK, Handler
  <2> QED
    BY <1>3, <2>1, <2>2, JobStep DEF Known
<1>4. CASE TakeInspected(h) \/ TakeWork(h)
  <2>1. PICK j \in Jobs, left \in 0..RetryLimit :
           /\ <<j, left>> \in waiting
           /\ \/ /\ handler'[h].pc = "claimJob" /\ handler'[h].job = j
              \/ \E next \in Newest(QueuedParses(job[j].stmt)) :
                    handler'[h].job = j /\ handler'[h].next = next
    <3>1. CASE TakeInspected(h)
      <4>1. PICK j \in Jobs, left \in 0..RetryLimit :
               /\ <<j, left>> \in waiting
               /\ \E next \in Newest(QueuedParses(job[j].stmt)) :
                     handler' = [handler EXCEPT ![h] =
                        [IdleHandler EXCEPT !.pc = "send", !.job = j, !.left = left,
                                            !.next = next]]
        BY <3>1 DEF TakeInspected, Take
      <4>2. PICK next \in Newest(QueuedParses(job[j].stmt)) :
               handler' = [handler EXCEPT ![h] =
                  [IdleHandler EXCEPT !.pc = "send", !.job = j, !.left = left, !.next = next]]
        BY <4>1
      <4>3. handler'[h].job = j /\ handler'[h].next = next
        BY <4>2 DEF TypeOK, IdleHandler
      <4> QED
        BY <4>1, <4>3
    <3>2. CASE TakeWork(h)
      <4>1. PICK j \in Jobs, left \in 0..RetryLimit :
               /\ <<j, left>> \in waiting
               /\ handler' = [handler EXCEPT ![h] =
                     [pc |-> "claimJob", job |-> j, left |-> left,
                      key |-> stmt[job[j].stmt].key, sheet |-> stmt[job[j].stmt].sheet,
                      mapping |-> stmt[job[j].stmt].mapping, next |-> None]]
        BY <3>2 DEF TakeWork, Take
      <4>2. handler'[h].pc = "claimJob" /\ handler'[h].job = j
        BY <4>1 DEF TypeOK
      <4> QED
        BY <4>1, <4>2
    <3> QED
      BY <1>4, <3>1, <3>2
  <2>2. Known(j)
    BY <2>1 DEF Integrity, References
  <2>3. \A next \in Newest(QueuedParses(job[j].stmt)) : Known(next)
    BY DEF Newest, QueuedParses, JobsOf, Known
  <2> QED
    BY <2>1, <2>2, <2>3, JobStep DEF Known
<1>5. CASE StoreInspection(h)
  <2>1. CASE Return(h)
    BY <2>1, <1>2 DEF Return, TypeOK
  <2>2. CASE \E sheet \in Sheets \union {None} :
                QueueInspected(h, job[handler[h].job].stmt, sheet)
    <3>1. PICK j \in Jobs :
             /\ FreshJob(j)
             /\ job' = [CompletedJob(h) EXCEPT ![j] =
                           QueuedJob(job[handler[h].job].stmt, "parse")]
             /\ handler' = [handler EXCEPT ![h].pc = "send", ![h].next = j]
      BY <2>2 DEF QueueInspected
    <3>2. /\ handler[h].job \in Jobs /\ Known(handler[h].job) /\ handler[h] \in Handler
          /\ CompletedJob(h) \in [Jobs -> Job]
      BY <1>5, Working, JobStatusType DEF StoreInspection, CompletedJob, Known
    <3>3. handler'[h].job = handler[h].job /\ handler'[h].next = j
      BY <3>1, <3>2 DEF TypeOK, Handler
    <3>4. Known(handler[h].job)'
      BY <3>2, <3>3, JobStep DEF Known
    <3>5. job'[j].status # "absent"
      BY <3>1, <3>2 DEF QueuedJob
    <3> QED
      BY <3>3, <3>4, <3>5 DEF Known
  <2>3. stmt[job[handler[h].job].stmt].sheet \in Sheets \union {None}
    BY <1>5, Working DEF StoreInspection, Statement
  <2> QED
    BY <1>5, <2>1, <2>2, <2>3 DEF StoreInspection
<1>6. ASSUME NEW g \in Handlers, g # h, HandlerStep(g)
      PROVE  handler'[h] = handler[h]
  BY <1>6 DEF TypeOK, HandlerStep, TakeSettled, TakeInspected, TakeWork, ClaimJob,
              ClaimStatement, CallParser, CallFails, StoreInspection, QueueInspected,
              SendParse, StoreAmbiguous, CompleteJob, StoreCandidates, StoreFails, FailJob,
              FailStatement, Goto, Return
<1>7. CASE HandlerStep(h)
  <2>1. CASE TakeSettled(h)
    BY <1>1, <2>1 DEF TakeSettled
  <2>2. CASE SendParse(h) \/ CompleteJob(h) \/ StoreCandidates(h) \/ FailStatement(h)
    BY <1>2, <2>2 DEF TypeOK, SendParse, CompleteJob, StoreCandidates, FailStatement, Return
  <2>3. CASE \/ ClaimJob(h) \/ ClaimStatement(h) \/ CallParser(h) \/ CallFails(h)
             \/ StoreAmbiguous(h) \/ StoreFails(h) \/ FailJob(h)
    BY <1>3, <2>3 DEF ClaimJob, ClaimStatement, CallParser, CallFails, StoreAmbiguous,
                      StoreFails, FailJob, Goto, HandlerPc
  <2> QED
    BY <1>4, <1>5, <1>7, <2>1, <2>2, <2>3 DEF HandlerStep
<1>8. CASE WorkerCrash
  BY <1>2, <1>8 DEF WorkerCrash
<1>9. CASE UNCHANGED handler
  BY <1>1, <1>9
<1> QED
  BY <1>1, <1>6, <1>7, <1>8, <1>9
     DEF Next, RequestStep, EditStep, ConfirmStep, CleanupStep, StoreUpload,
         InsertUpload, AbandonUpload, SaveMapping, SelectSheet, QueueParse,
         SaveMappingAgain, SelectSheetAgain, Resend, SendJob, LoseSend, WebCrash, EditRead,
         EditWrite, EditRecount, EditPublish, ConfirmRead, ConfirmRows, ConfirmCommit,
         ConfirmRollback, ConfirmDelete, GrowOld, CleanupList, CleanupClaim, CleanupDelete,
         CleanupClear, CleanupDone, workerState, reviewFrame, cleanupFrame, vars

\* An edit in flight is of a row and a statement of the tables.
LEMMA EditorRefStep ==
    ASSUME TypeOK, Integrity, [Next]_vars, NEW e \in Editors, editor'[e].pc # "idle"
    PROVE  editor'[e].row \in Rows /\ Present(editor[e].stmt)'
<1>1. CASE editor'[e].row = editor[e].row /\ editor'[e].stmt = editor[e].stmt
                /\ editor[e].pc # "idle"
  BY <1>1, PresentStays DEF Integrity, References, Present
<1>2. ASSUME NEW r \in Rows, EditRead(e, r)
      PROVE  editor'[e].row \in Rows /\ Present(editor[e].stmt)'
  <2>1. Present(row[r].stmt) /\ editor'[e].row = r /\ editor'[e].stmt = row[r].stmt
    BY <1>2 DEF EditRead, TypeOK, Integrity, References
  <2> QED
    BY <2>1, PresentStays DEF Present
<1>3. CASE EditWrite(e) \/ EditRecount(e) \/ EditPublish(e)
  BY <1>1, <1>3 DEF TypeOK, Editor, EditWrite, EditRecount, EditPublish, IdleEditor
<1>4. ASSUME NEW f \in Editors, f # e, EditStep(f)
      PROVE  editor'[e] = editor[e]
  BY <1>4 DEF TypeOK, EditStep, EditRead, EditWrite, EditRecount, EditPublish
<1>5. CASE WebCrash
  BY <1>5 DEF WebCrash, IdleEditor
<1>6. CASE UNCHANGED editor
  BY <1>1, <1>6
<1> QED
  BY <1>1, <1>2, <1>3, <1>4, <1>5, <1>6, HandlerFrame
     DEF Next, RequestStep, EditStep, ConfirmStep, CleanupStep, StoreUpload,
         InsertUpload, AbandonUpload, SaveMapping, SelectSheet, QueueParse,
         SaveMappingAgain, SelectSheetAgain, Resend, SendJob, LoseSend, WorkerCrash,
         ConfirmRead, ConfirmRows, ConfirmCommit, ConfirmRollback, ConfirmDelete, GrowOld,
         CleanupList, CleanupClaim, CleanupDelete, CleanupClear, CleanupDone, requests,
         cleanupFrame, vars

\* A confirmation in flight is of a statement of the table, and deletes the original
\* of one that need not keep it.
LEMMA ConfirmerRefStep ==
    ASSUME TypeOK, Integrity, [Next]_vars, NEW c \in Confirmers
    PROVE  /\ confirmer'[c].pc # "idle" => Present(confirmer[c].stmt)'
           /\ confirmer'[c].pc = "delete" => Deletable(confirmer[c].stmt)'
<1>1. CASE confirmer'[c] = confirmer[c]
  BY <1>1, PresentStays, DeletableStays DEF Integrity, References, Deleters, Present, Deletable
<1>2. CASE confirmer'[c] = IdleConfirmer
  BY <1>2 DEF IdleConfirmer
<1>3. ASSUME NEW s \in Statements, ConfirmRead(c, s)
      PROVE  confirmer'[c].pc = "rows" /\ Present(confirmer[c].stmt)'
  <2>1. Present(s) /\ confirmer'[c].stmt = s /\ confirmer'[c].pc = "rows"
    BY <1>3 DEF ConfirmRead, TypeOK, Present
  <2> QED
    BY <2>1, PresentStays DEF Present
<1>4. CASE ConfirmRows(c)
  <2>1. CASE /\ confirmer'[c].pc = "commit" /\ confirmer'[c].stmt = confirmer[c].stmt
    BY <1>4, <2>1, PresentStays DEF ConfirmRows, Integrity, References, Present
  <2> QED
    BY <1>2, <1>4, <2>1 DEF ConfirmRows, TypeOK, Confirmer
<1>5. CASE ConfirmCommit(c)
  <2>1. PICK s \in Statements : s = confirmer[c].stmt /\ Present(s)
    BY <1>5 DEF ConfirmCommit, Integrity, References, Present
  <2>2. CASE ~stmt[s].retain /\ confirmer'[c].pc = "delete" /\ confirmer'[c].stmt = s
    BY <2>1, <2>2, PresentStays DEF Deletable, Present
  <2> QED
    BY <1>2, <1>5, <2>1, <2>2 DEF ConfirmCommit, DeletesOriginal, TypeOK
<1>6. CASE ConfirmRollback(c) \/ ConfirmDelete(c)
  BY <1>2, <1>6 DEF TypeOK, ConfirmRollback, ConfirmDelete
<1>7. ASSUME NEW d \in Confirmers, d # c, ConfirmStep(d)
      PROVE  confirmer'[c] = confirmer[c]
  BY <1>7 DEF TypeOK, ConfirmStep, ConfirmRead, ConfirmRows, ConfirmCommit,
              ConfirmRollback, ConfirmDelete
<1>8. CASE WebCrash
  BY <1>2, <1>8 DEF WebCrash
<1>9. CASE UNCHANGED confirmer
  BY <1>1, <1>9
<1> QED
  BY <1>1, <1>3, <1>4, <1>5, <1>6, <1>7, <1>8, <1>9, HandlerFrame
     DEF Next, RequestStep, EditStep, ConfirmStep, CleanupStep, StoreUpload,
         InsertUpload, AbandonUpload, SaveMapping, SelectSheet, QueueParse,
         SaveMappingAgain, SelectSheetAgain, Resend, SendJob, LoseSend, WorkerCrash,
         EditRead, EditWrite, EditRecount, EditPublish, GrowOld,
         CleanupList, CleanupClaim, CleanupDelete, CleanupClear, CleanupDone, requests,
         cleanupFrame, vars

\* An upload whose statement is not inserted yet has its original in storage.
LEMMA UploadStep ==
    ASSUME TypeOK, Integrity, [Next]_vars, NEW s \in Statements, s \in uploads'
    PROVE  stmt'[s].status = "absent" /\ s \in files'
<1>1. CASE StoreUpload(s)
  BY <1>1 DEF StoreUpload, database
<1>2. CASE ~StoreUpload(s)
  <2>1. s \in uploads /\ ~InsertUpload(s) /\ ~AbandonUpload(s)
    <3>1. ~InsertUpload(s) /\ ~AbandonUpload(s)
      BY DEF InsertUpload, AbandonUpload
    <3>2. \A t \in Statements : t # s => ~(StoreUpload(t) /\ s \notin uploads)
      BY DEF StoreUpload
    <3> QED
      BY <1>2, <3>1, <3>2, HandlerFrame
         DEF Next, RequestStep, EditStep, ConfirmStep, CleanupStep, InsertUpload,
             AbandonUpload, SaveMapping, SelectSheet, QueueParse, SaveMappingAgain,
             SelectSheetAgain, Resend, SendJob, LoseSend, WorkerCrash, WebCrash, EditRead,
             EditWrite, EditRecount, EditPublish, ConfirmRead, ConfirmRows, ConfirmCommit,
             ConfirmRollback, ConfirmDelete, GrowOld, CleanupList, CleanupClaim,
             CleanupDelete, CleanupClear, CleanupDone, reviewFrame, cleanupFrame, vars
  <2>2. stmt[s].status = "absent" /\ s \in files
    BY <2>1 DEF Integrity, Deleters
  <2>3. stmt'[s].status = "absent"
    BY <2>1, <2>2, StatementStep DEF Updated
  <2>4. s \in files'
    BY <2>1, <2>2, FilesStep DEF Deletable, Present
  <2> QED
    BY <2>3, <2>4
<1> QED
  BY <1>1, <1>2

\* The cleaner deletes the original of a statement it has claimed, and clears the key
\* of one whose original is gone.
LEMMA CleanerStep ==
    ASSUME TypeOK, Integrity, [Next]_vars
    PROVE  /\ cleaner'.pc \in {"delete", "clear"} => Deletable(cleaner.current)'
           /\ cleaner'.pc = "clear" => cleaner'.current \notin files'
<1>1. CASE UNCHANGED cleaner
  <2>1. ASSUME cleaner.pc \in {"delete", "clear"}
        PROVE  Deletable(cleaner.current)'
    BY <1>1, <2>1, DeletableStays DEF Integrity, Deleters, Deletable, Present
  <2>2. ASSUME cleaner.pc = "clear"
        PROVE  cleaner.current \notin files'
    <3>1. Present(cleaner.current) /\ cleaner.current \notin files
      BY <2>2 DEF Integrity, Deleters, Deletable
    <3> QED
      BY <3>1, FilesStep DEF StoreUpload, Present
  <2> QED
    BY <1>1, <2>1, <2>2
<1>2. CASE CleanupList
  BY <1>2 DEF CleanupList
<1>3. CASE CleanupClaim
  <2>1. PICK s \in cleaner.todo :
           IF Abandoned(s)
           THEN cleaner' = [pc |-> "delete", todo |-> cleaner.todo \ {s}, current |-> s]
           ELSE cleaner' = [cleaner EXCEPT !.todo = @ \ {s}]
    BY <1>3 DEF CleanupClaim
  <2>2. CASE Abandoned(s)
    <3>1. s \in Statements /\ Deletable(s)
      BY <2>2 DEF TypeOK, Cleaner, Abandoned, Deletable, Present
    <3> QED
      BY <2>1, <2>2, <3>1, DeletableStays DEF Deletable, Present
  <2>3. CASE ~Abandoned(s)
    BY <1>3, <2>1, <2>3 DEF CleanupClaim, TypeOK, Cleaner
  <2> QED
    BY <2>2, <2>3
<1>4. CASE CleanupDelete
  <2>1. Deletable(cleaner.current) /\ UNCHANGED stmt
    BY <1>4 DEF CleanupDelete, Integrity, Deleters
  <2>2. CASE cleaner.current \in files
    BY <1>4, <2>1, <2>2 DEF CleanupDelete, TypeOK, Cleaner, Deletable, Present
  <2>3. CASE cleaner.current \notin files
    BY <1>4, <2>3 DEF CleanupDelete, TypeOK, Cleaner
  <2> QED
    BY <2>2, <2>3
<1>5. CASE CleanupClear \/ CleanupDone
  <2>1. cleaner \in Cleaner
    BY DEF TypeOK
  <2>2. cleaner'.pc \in {"claim", "idle"}
    <3>1. CASE CleanupClear
      BY <2>1, <3>1 DEF CleanupClear, Cleaner
    <3>2. CASE CleanupDone
      BY <3>2 DEF CleanupDone, IdleCleaner
    <3> QED
      BY <1>5, <3>1, <3>2
  <2> QED
    BY <2>2
<1>6. CASE WorkerCrash
  BY <1>6 DEF WorkerCrash, IdleCleaner
<1> QED
  BY <1>1, <1>2, <1>3, <1>4, <1>5, <1>6, HandlerFrame
     DEF Next, RequestStep, EditStep, ConfirmStep, CleanupStep, StoreUpload,
         InsertUpload, AbandonUpload, SaveMapping, SelectSheet, QueueParse,
         SaveMappingAgain, SelectSheetAgain, Resend, SendJob, LoseSend, WebCrash, EditRead,
         EditWrite, EditRecount, EditPublish, ConfirmRead, ConfirmRows, ConfirmCommit,
         ConfirmRollback, ConfirmDelete, GrowOld, workerState, reviewFrame, vars

\* The inductive step of Integrity: one step per conjunct.
LEMMA IntegrityStep ==
    ASSUME TypeOK, Integrity, [Next]_vars
    PROVE  Integrity'
<1>1. (\A j \in Jobs : Known(j) => Present(job[j].stmt))'
  <2>1. SUFFICES ASSUME NEW j \in Jobs, Known(j)'
                 PROVE  Present(job[j].stmt)'
    OBVIOUS
  <2>2. CASE Known(j)
    <3>1. Present(job[j].stmt) /\ job'[j].stmt = job[j].stmt
      BY <2>2, JobStep DEF Integrity, References
    <3> QED
      BY <3>1, PresentStays DEF Present
  <2> QED
    BY <2>1, <2>2, JobStep
<1>2. (\A r \in Rows : row[r].review \in Review => Present(row[r].stmt))'
  <2>1. SUFFICES ASSUME NEW r \in Rows, row'[r].review \in Review
                 PROVE  Present(row[r].stmt)'
    OBVIOUS
  <2>2. CASE row[r].review \in Review /\ row'[r].stmt = row[r].stmt
    BY <2>2, PresentStays DEF Integrity, References, Present
  <2>3. "deleted" \notin Review
    BY DEF Review, Candidate
  <2> QED
    BY <2>1, <2>2, <2>3, RowStep
<1>3. Deleters'
  BY UploadStep, ConfirmerRefStep, CleanerStep, TypeStep DEF Deleters, TypeOK
<1> QED
  BY <1>1, <1>2, <1>3, OutboxStep, WaitingStep, HandlerRefStep, EditorRefStep,
     ConfirmerRefStep DEF Integrity, References

\* What the pipeline starts from is typed and refers to nothing.
LEMMA ImportStart == Init => TypeOK /\ Integrity
<1>1. Init => TypeOK
  <2>1. NoStatement \in Statement /\ NoJob \in Job
    BY DEF NoStatement, Statement, ProcessingStatus, NoJob, Job
  <2>2. [worker |-> 0, web |-> 0] \in Crashes
    BY ImportAssumption DEF Crashes
  <2> QED
    BY <2>1, <2>2, IdleTypes DEF Init, TypeOK, RawRow
<1>2. Init => Integrity
  BY DEF Init, Integrity, References, Deleters, Known, Present, NoStatement, NoJob,
         Review, Candidate, IdleHandler, IdleEditor, IdleConfirmer, IdleCleaner
<1> QED
  BY <1>1, <1>2

\* In every reachable state of the pipeline, for any number of statements, jobs,
\* rows and handlers, the types hold, no reference dangles and only those who may
\* delete an original are about to.
THEOREM ImportIntegrity == Spec => [](TypeOK /\ Integrity)
<1>1. TypeOK /\ Integrity /\ [Next]_vars => (TypeOK /\ Integrity)'
  BY TypeStep, IntegrityStep
<1> QED
  BY <1>1, ImportStart, PTL DEF Spec

------------------------------------------------------------------------------
(* The safety of the import pipeline.  Each part relates the ledger or the *)
(* storage to the rows they come from, and none is inductive by itself:    *)
(* the steps that delete rows or files rely on Integrity, the confirmation *)
(* on the constraints of the transactions table.                           *)

\* Only a confirmation touches the ledger, and the table's constraints hold it to
\* rows that exist and that no transaction carries.
LEMMA LedgerStep ==
    ASSUME TypeOK, Integrity, [Next]_vars, NEW r \in Rows
    PROVE  \/ ledger'[r] = ledger[r]
           \/ /\ ledger[r] = 0 /\ ledger'[r] = 1
              /\ row[r].review \in Review /\ UNCHANGED row
<1>1. CASE UNCHANGED ledger
  BY <1>1
<1>2. ASSUME NEW c \in Confirmers, ConfirmCommit(c)
      PROVE  \/ ledger'[r] = ledger[r]
             \/ /\ ledger[r] = 0 /\ ledger'[r] = 1
                /\ row[r].review \in Review /\ UNCHANGED row
  <2>1. CASE r \in confirmer[c].included
    BY <1>2, <2>1 DEF ConfirmCommit, Insertable, Posted
  <2>2. CASE r \notin confirmer[c].included
    BY <1>2, <2>2 DEF ConfirmCommit, Posted
  <2> QED
    BY <2>1, <2>2
<1> QED
  BY <1>1, <1>2, HandlerFrame
     DEF Next, RequestStep, EditStep, ConfirmStep, CleanupStep, StoreUpload,
         InsertUpload, AbandonUpload, SaveMapping, SelectSheet, QueueParse,
         SaveMappingAgain, SelectSheetAgain, Resend, SendJob, LoseSend, WebCrash,
         WorkerCrash, EditRead, EditWrite, EditRecount, EditPublish, ConfirmRead,
         ConfirmRows, ConfirmRollback, ConfirmDelete, GrowOld, CleanupList, CleanupClaim,
         CleanupDelete, CleanupClear, CleanupDone, database, cleanupFrame, vars

\* No step enters a row that is in the ledger: transactions_source_raw_unique.
LEMMA NoDoubleEntryStep ==
    ASSUME TypeOK, Integrity, NoDoubleEntry, [Next]_vars
    PROVE  NoDoubleEntry'
  BY LedgerStep DEF NoDoubleEntry

\* No step deletes a row that is in the ledger: transactions_owner_raw_fk.
LEMMA EvidenceKeptStep ==
    ASSUME TypeOK, Integrity, EvidenceKept, [Next]_vars
    PROVE  EvidenceKept'
<1>1. SUFFICES ASSUME NEW r \in Rows, ledger'[r] > 0
               PROVE  row'[r].review \in Review
  BY DEF EvidenceKept
<1>2. CASE ledger'[r] = ledger[r]
  <2>1. row[r].review \in Review /\ ledger[r] # 0
    BY <1>1, <1>2 DEF EvidenceKept
  <2> QED
    BY <2>1, RowStep DEF Review, Candidate
<1>3. CASE row[r].review \in Review /\ UNCHANGED row
  BY <1>3
<1> QED
  BY <1>2, <1>3, LedgerStep

\* Whoever deletes an original may, so a retained one stays.
LEMMA RetainedOriginalKeptStep ==
    ASSUME TypeOK, Integrity, RetainedOriginalKept, [Next]_vars
    PROVE  RetainedOriginalKept'
<1>1. SUFFICES ASSUME NEW s \in Statements, stmt'[s].status # "absent", stmt'[s].retain
               PROVE  s \in files'
  BY DEF RetainedOriginalKept
<1>2. CASE InsertUpload(s)
  BY <1>2 DEF InsertUpload, Integrity, Deleters
<1>3. CASE stmt[s].status # "absent" /\ stmt[s].retain
  <2>1. s \in files /\ ~Deletable(s)
    BY <1>3 DEF RetainedOriginalKept, Deletable
  <2>2. ~AbandonUpload(s)
    BY <1>3 DEF AbandonUpload, Integrity, Deleters
  <2> QED
    BY <2>1, <2>2, FilesStep
<1> QED
  BY <1>1, <1>2, <1>3, StatementStep DEF Updated

\* The key is cleared by the cleaner alone, after the object.
LEMMA ClearedKeyHasNoFileStep ==
    ASSUME TypeOK, Integrity, ClearedKeyHasNoFile, [Next]_vars
    PROVE  ClearedKeyHasNoFile'
<1>1. SUFFICES ASSUME NEW s \in Statements, stmt'[s].status # "absent", ~stmt'[s].key
               PROVE  s \notin files'
  BY DEF ClearedKeyHasNoFile
<1>2. CASE Updated(s)
  <2>1. s \notin files /\ ~StoreUpload(s)
    BY <1>1, <1>2 DEF ClearedKeyHasNoFile, Updated, StoreUpload
  <2> QED
    BY <2>1, FilesStep
<1>3. CASE CleanupClear /\ s = cleaner.current
  BY <1>3 DEF CleanupClear, Integrity, Deleters
<1> QED
  BY <1>1, <1>2, <1>3, StatementStep

\* No raw row is ever behind two ledger entries.
THEOREM NeverEnteredTwice == Spec => []NoDoubleEntry
<1>1. Init => NoDoubleEntry
  BY DEF Init, NoDoubleEntry
<1>2. TypeOK /\ Integrity /\ NoDoubleEntry /\ [Next]_vars => NoDoubleEntry'
  BY NoDoubleEntryStep
<1> QED
  BY <1>1, <1>2, ImportIntegrity, PTL DEF Spec

\* A raw row behind a ledger entry is never deleted.
THEOREM EvidenceNeverDeleted == Spec => []EvidenceKept
<1>1. Init => EvidenceKept
  BY DEF Init, EvidenceKept
<1>2. TypeOK /\ Integrity /\ EvidenceKept /\ [Next]_vars => EvidenceKept'
  BY EvidenceKeptStep
<1> QED
  BY <1>1, <1>2, ImportIntegrity, PTL DEF Spec

\* An original the user asked to keep stays in storage.
THEOREM RetainedNeverDeleted == Spec => []RetainedOriginalKept
<1>1. Init => RetainedOriginalKept
  BY DEF Init, RetainedOriginalKept, NoStatement
<1>2. TypeOK /\ Integrity /\ RetainedOriginalKept /\ [Next]_vars => RetainedOriginalKept'
  BY RetainedOriginalKeptStep
<1> QED
  BY <1>1, <1>2, ImportIntegrity, PTL DEF Spec

\* A statement without a storage key has no object in storage.
THEOREM NoKeyNoFile == Spec => []ClearedKeyHasNoFile
<1>1. Init => ClearedKeyHasNoFile
  BY DEF Init, ClearedKeyHasNoFile, NoStatement
<1>2. TypeOK /\ Integrity /\ ClearedKeyHasNoFile /\ [Next]_vars => ClearedKeyHasNoFile'
  BY ClearedKeyHasNoFileStep
<1> QED
  BY <1>1, <1>2, ImportIntegrity, PTL DEF Spec

------------------------------------------------------------------------------
(* A workbook is parsed only once its sheet is known.  The sheet of a      *)
(* statement is forgotten by an inspection and by nothing else, so what    *)
(* has to be shown is that no inspection is left, or comes back, once a    *)
(* sheet is there: a statement has one inspection, pg-boss has at most one *)
(* delivery of it, and a completed inspection is not run again.            *)

Inspections == {j \in Jobs : Known(j) /\ job[j].kind = "inspect"}

AtWork(h, j) == handler[h].pc # "idle" /\ handler[h].job = j

Inspecting(h, j) == AtWork(h, j) /\ handler[h].pc # "send"

Workbook(s) == Present(s) /\ stmt[s].source = "xlsx"

\* A statement is inspected by the job of its upload.
OneInspection == \A i, j \in Inspections : job[i].stmt = job[j].stmt => i = j

\* An inspection is about to be sent, or waits, or is with one handler.
DeliveredOnce(j) ==
    /\ j \in outbox => \A d \in waiting : d[1] # j
    /\ \A d, e \in waiting : d[1] = j /\ e[1] = j => d = e
    /\ \A h \in Handlers : AtWork(h, j) =>
          /\ j \notin outbox
          /\ \A d \in waiting : d[1] # j
          /\ \A g \in Handlers : AtWork(g, j) => g = h

OneDelivery == \A j \in Inspections : DeliveredOnce(j)

\* What a handler sends after its inspection is a parse.
ParsesSent == \A h \in Handlers : handler[h].pc = "send" => job[handler[h].next].kind = "parse"

\* Nothing inspects the statement any more.
Examined(s) ==
    \A j \in Inspections : job[j].stmt = s =>
       job[j].status = "completed" /\ \A h \in Handlers : ~Inspecting(h, j)

SheetAfterInspection ==
    \A s \in Statements :
       Workbook(s) /\ (stmt[s].sheet # None \/ stmt[s].status = "needs_sheet_selection")
          => Examined(s)

\* A handler that parses a workbook has read which sheet.
ParsesHaveSheet ==
    \A h \in Handlers :
       handler[h].pc \notin {"idle", "send"} /\ job[handler[h].job].kind = "parse"
          /\ stmt[job[handler[h].job].stmt].source = "xlsx"
       => handler[h].sheet # None

SheetInv ==
    /\ TypeOK /\ Integrity
    /\ OneInspection /\ OneDelivery /\ ParsesSent
    /\ SheetAfterInspection /\ ParsesHaveSheet /\ WorkbookParseHasSheet

\* What a step leaves of the sheet of a statement.
SameSheet(s) ==
    /\ stmt'[s].source = stmt[s].source /\ stmt'[s].sheet = stmt[s].sheet
    /\ stmt'[s].status = "needs_sheet_selection" => stmt[s].status = "needs_sheet_selection"

\* A parse writes back the sheet that its handler has read.
Reparsed(h, s) ==
    /\ handler[h].pc \notin {"idle", "send"}
    /\ s = job[handler[h].job].stmt /\ job[handler[h].job].kind = "parse"
    /\ stmt'[s].source = stmt[s].source /\ stmt'[s].sheet = handler[h].sheet
    /\ stmt'[s].status # "needs_sheet_selection"

JobWritten(h) ==
    \/ UNCHANGED job
    \/ /\ handler[h].pc \notin {"idle", "send"}
       /\ \E status \in {"running", "completed", "failed"} :
             job' = [job EXCEPT ![handler[h].job].status = status]

\* Steps that have nothing to do with jobs; a resend is of a parse.
Aside ==
    /\ UNCHANGED <<job, waiting, handler>>
    /\ \A j \in outbox' \ outbox : job[j].kind = "parse"
    /\ \A s \in Statements : SameSheet(s)

\* A handler takes a delivery, goes on with it, or is done with it.
Taken(h) ==
    /\ UNCHANGED <<stmt, job, outbox>>
    /\ handler[h].pc = "idle"
    /\ \E j \in Jobs, left \in 0..RetryLimit :
          /\ <<j, left>> \in waiting /\ waiting' = waiting \ {<<j, left>>}
          /\ \/ UNCHANGED handler
             \/ /\ job[j].status = "completed"
                /\ \E next \in JobsOf(job[j].stmt, "parse") :
                      handler' = [handler EXCEPT ![h] =
                         [IdleHandler EXCEPT !.pc = "send", !.job = j, !.left = left,
                                             !.next = next]]
             \/ /\ job[j].status \in {"queued", "failed"}
                /\ \E record \in Handler :
                      /\ handler' = [handler EXCEPT ![h] = record]
                      /\ record.pc = "claimJob" /\ record.job = j
                      /\ record.sheet = stmt[job[j].stmt].sheet

Worked(h) ==
    /\ handler[h].pc \notin {"idle", "send"} /\ UNCHANGED <<outbox, waiting>>
    /\ \E pc \in HandlerPc \ {"idle", "send"} : handler' = [handler EXCEPT ![h].pc = pc]
    /\ JobWritten(h)
    /\ \A s \in Statements : SameSheet(s) \/ Reparsed(h, s)

Ended(h) ==
    /\ handler[h].pc # "idle" /\ UNCHANGED outbox
    /\ handler' = [handler EXCEPT ![h] = IdleHandler]
    /\ \/ waiting' \subseteq waiting \union Retry(handler[h])
       \/ handler[h].pc = "send" /\ waiting' = waiting \union {<<handler[h].next, RetryLimit>>}
    /\ JobWritten(h)
    /\ \A s \in Statements : SameSheet(s) \/ Reparsed(h, s)

\* Who writes the status of a statement leaves its sheet.
LEMMA SetStatusSheet ==
    ASSUME TypeOK, NEW s \in Statements, NEW status, status # "needs_sheet_selection",
           stmt' = SetStatus(s, status)
    PROVE  \A t \in Statements : SameSheet(t)
  BY DEF TypeOK, Statement, SetStatus, SameSheet

\* Whatever is neither a crash, an upload, a choice of the user, a send nor a step
\* of a handler leaves sheets, jobs and deliveries aside.
LEMMA AsideSteps ==
    ASSUME TypeOK, Integrity, [Next]_vars
    PROVE  \/ Aside \/ WorkerCrash
           \/ \E s \in Statements : InsertUpload(s) \/ SaveMapping(s) \/ SelectSheet(s)
           \/ \E j \in Jobs : SendJob(j)
           \/ \E h \in Handlers : HandlerStep(h)
<1>1. ASSUME UNCHANGED <<stmt, job, waiting, handler>>, outbox' \subseteq outbox
      PROVE  Aside
  BY <1>1 DEF Aside, SameSheet
<1>2. ASSUME NEW s \in Statements, SaveMappingAgain(s) \/ SelectSheetAgain(s)
      PROVE  Aside
  <2>1. PICK latest \in JobsOf(s, "parse") : outbox' = outbox \union {latest}
    BY <1>2 DEF SaveMappingAgain, SelectSheetAgain, Resend, Newest
  <2>2. UNCHANGED <<stmt, job, waiting, handler>>
    BY <1>2 DEF SaveMappingAgain, SelectSheetAgain, Resend, database, workerState
  <2> QED
    BY <2>1, <2>2 DEF Aside, SameSheet, JobsOf
<1>3. ASSUME UNCHANGED <<job, outbox, waiting, handler>>,
             \A s \in Statements : SameSheet(s)
      PROVE  Aside
  BY <1>3 DEF Aside
<1>4. ASSUME NEW e \in Editors, EditPublish(e)
      PROVE  Aside
  <2>1. editor[e].stmt \in Statements
    BY <1>4 DEF EditPublish, Integrity, References, Present
  <2> QED
    BY <1>3, <1>4, <2>1, SetStatusSheet DEF EditPublish, reviewFrame, queue
<1>5. ASSUME NEW c \in Confirmers, ConfirmCommit(c)
      PROVE  Aside
  <2>1. confirmer[c].stmt \in Statements
    BY <1>5 DEF ConfirmCommit, Integrity, References, Present
  <2> QED
    BY <1>3, <1>5, <2>1, SetStatusSheet DEF ConfirmCommit, reviewFrame, queue
<1>6. ASSUME NEW s \in Statements, GrowOld(s)
      PROVE  Aside
  <2>1. \A t \in Statements : SameSheet(t)
    BY <1>6 DEF GrowOld, TypeOK, Statement, SameSheet
  <2> QED
    BY <1>3, <1>6, <2>1 DEF GrowOld, cleanupFrame, queue
<1>7. ASSUME CleanupClaim
      PROVE  Aside
  <2>1. cleaner.todo \subseteq Statements
    BY DEF TypeOK, Cleaner
  <2>2. UNCHANGED stmt \/ \E s \in Statements : stmt' = SetStatus(s, "failed")
    BY <1>7, <2>1 DEF CleanupClaim
  <2>3. \A t \in Statements : SameSheet(t)
    BY <2>2, SetStatusSheet DEF SameSheet
  <2> QED
    BY <1>3, <1>7, <2>3 DEF CleanupClaim, cleanupFrame, queue
<1>8. ASSUME CleanupClear
      PROVE  Aside
  <2>1. \A t \in Statements : SameSheet(t)
    BY <1>8 DEF CleanupClear, TypeOK, Statement, SameSheet
  <2> QED
    BY <1>3, <1>8, <2>1 DEF CleanupClear, cleanupFrame, queue
<1>9. ASSUME NEW s \in Statements, StoreUpload(s) \/ AbandonUpload(s)
      PROVE  Aside
  BY <1>1, <1>9 DEF StoreUpload, AbandonUpload, database, queue, workerState
<1>10. ASSUME NEW j \in Jobs, LoseSend(j)
       PROVE  Aside
  BY <1>1, <1>10 DEF LoseSend, database, workerState
<1>11. CASE WebCrash \/ UNCHANGED vars
  BY <1>1, <1>11 DEF WebCrash, database, workerState, vars
<1>12. ASSUME NEW e \in Editors, EditStep(e)
       PROVE  Aside
  BY <1>1, <1>4, <1>12 DEF EditStep, EditRead, EditWrite, EditRecount, reviewFrame, queue
<1>13. ASSUME NEW c \in Confirmers, ConfirmStep(c)
       PROVE  Aside
  BY <1>1, <1>5, <1>13
     DEF ConfirmStep, ConfirmRead, ConfirmRows, ConfirmRollback, ConfirmDelete,
         reviewFrame, queue, database
<1>14. CASE CleanupStep
  BY <1>1, <1>7, <1>8, <1>14
     DEF CleanupStep, CleanupList, CleanupDelete, CleanupDone, cleanupFrame, queue
<1> QED
  BY <1>2, <1>6, <1>9, <1>10, <1>11, <1>12, <1>13, <1>14 DEF Next, RequestStep
\* A handler that writes no statement, or its status only.
LEMMA SameSheets ==
    ASSUME UNCHANGED stmt
    PROVE  \A s \in Statements : SameSheet(s)
  BY DEF SameSheet

\* What a handler at work may do.
LEMMA HandlerKinds ==
    ASSUME TypeOK, Integrity, NEW h \in Handlers, HandlerStep(h)
    PROVE  Taken(h) \/ Worked(h) \/ Ended(h) \/ StoreInspection(h)
<1> USE DEF queue, database
<1>1. CASE TakeSettled(h) \/ TakeInspected(h) \/ TakeWork(h)
  <2>1. UNCHANGED <<stmt, job, outbox>> /\ handler[h].pc = "idle"
    BY <1>1 DEF TakeSettled, TakeInspected, TakeWork, Take
  <2>2. CASE TakeSettled(h)
    BY <2>1, <2>2 DEF TakeSettled, Take, Taken
  <2>3. CASE TakeInspected(h)
    <3>1. PICK j \in Jobs, left \in 0..RetryLimit :
             /\ <<j, left>> \in waiting /\ waiting' = waiting \ {<<j, left>>}
             /\ job[j].status = "completed"
             /\ \E next \in Newest(QueuedParses(job[j].stmt)) :
                   handler' = [handler EXCEPT ![h] =
                      [IdleHandler EXCEPT !.pc = "send", !.job = j, !.left = left,
                                          !.next = next]]
      BY <2>3 DEF TakeInspected, Take
    <3>2. Newest(QueuedParses(job[j].stmt)) \subseteq JobsOf(job[j].stmt, "parse")
      BY DEF Newest, QueuedParses
    <3>3. PICK next \in JobsOf(job[j].stmt, "parse") :
             handler' = [handler EXCEPT ![h] =
                [IdleHandler EXCEPT !.pc = "send", !.job = j, !.left = left, !.next = next]]
      BY <3>1, <3>2
    <3> QED
      BY <2>1, <3>1, <3>3 DEF Taken
  <2>4. CASE TakeWork(h)
    <3>1. PICK j \in Jobs, left \in 0..RetryLimit :
             /\ <<j, left>> \in waiting /\ waiting' = waiting \ {<<j, left>>}
             /\ job[j].status \in {"queued", "failed"}
             /\ handler' = [handler EXCEPT ![h] =
                   [pc |-> "claimJob", job |-> j, left |-> left,
                    key |-> stmt[job[j].stmt].key, sheet |-> stmt[job[j].stmt].sheet,
                    mapping |-> stmt[job[j].stmt].mapping, next |-> None]]
      BY <2>4 DEF TakeWork, Take
    <3>2. stmt[job[j].stmt] \in Statement
      BY <3>1, Delivered
    <3>3. PICK record :
             record = [pc |-> "claimJob", job |-> j, left |-> left,
                       key |-> stmt[job[j].stmt].key, sheet |-> stmt[job[j].stmt].sheet,
                       mapping |-> stmt[job[j].stmt].mapping, next |-> None]
      OBVIOUS
    <3>4. record \in Handler
      BY <3>2, <3>3 DEF Handler, HandlerPc, Statement
    <3>5. record.pc = "claimJob" /\ record.job = j /\ record.sheet = stmt[job[j].stmt].sheet
      BY <3>3
    <3>6. handler' = [handler EXCEPT ![h] = record]
      BY <3>1, <3>3
    <3> QED
      BY <2>1, <3>1, <3>4, <3>5, <3>6 DEF Taken
  <2> QED
    BY <1>1, <2>2, <2>3, <2>4
<1>2. CASE ClaimJob(h) \/ CallParser(h) \/ CallFails(h) \/ StoreFails(h) \/ FailJob(h)
  <2>1. handler[h].pc \notin {"idle", "send"} /\ UNCHANGED <<stmt, outbox, waiting>>
    BY <1>2 DEF ClaimJob, CallParser, CallFails, StoreFails, FailJob
  <2>2. \E pc \in HandlerPc \ {"idle", "send"} : handler' = [handler EXCEPT ![h].pc = pc]
    BY <1>2 DEF ClaimJob, CallParser, CallFails, StoreFails, FailJob, Goto, HandlerPc
  <2>3. JobWritten(h)
    BY <1>2, <2>1 DEF ClaimJob, CallParser, CallFails, StoreFails, FailJob, JobWritten
  <2> QED
    BY <2>1, <2>2, <2>3, SameSheets DEF Worked
<1>3. CASE ClaimStatement(h)
  <2>1. job[handler[h].job].stmt \in Statements /\ handler[h].pc = "claimStatement"
    BY <1>3, Working DEF ClaimStatement
  <2>2. \A s \in Statements : SameSheet(s)
    BY <1>3, <2>1, SetStatusSheet DEF ClaimStatement
  <2> QED
    BY <1>3, <2>1, <2>2 DEF ClaimStatement, Goto, HandlerPc, JobWritten, Worked
<1>4. ASSUME NEW status \in ProcessingStatus \ {"needs_sheet_selection"}, NEW m,
             handler[h].pc = "store", job[handler[h].job].kind = "parse",
             stmt' = Described(h, status, m)
      PROVE  \A s \in Statements : SameSheet(s) \/ Reparsed(h, s)
  <2> DEFINE at == job[handler[h].job].stmt
  <2>1. at \in Statements /\ stmt[at] \in Statement /\ stmt \in [Statements -> Statement]
    BY <1>4, Working DEF TypeOK
  <2>2. stmt' = [stmt EXCEPT ![at] = [stmt[at] EXCEPT !.status = status, !.mapping = m,
                                        !.sheet = handler[h].sheet, !.old = FALSE]]
    BY <1>4 DEF Described
  <2>3. \A s \in Statements : s # at => SameSheet(s)
    BY <2>1, <2>2 DEF SameSheet
  <2>4. /\ stmt'[at].source = stmt[at].source /\ stmt'[at].sheet = handler[h].sheet
        /\ stmt'[at].status = status
    BY <2>1, <2>2 DEF Statement
  <2> QED
    BY <1>4, <2>3, <2>4 DEF Reparsed
<1>5. CASE StoreAmbiguous(h)
  <2>1. PICK m : stmt' = Described(h, "needs_mapping", m)
    BY <1>5 DEF StoreAmbiguous
  <2>2. \A s \in Statements : SameSheet(s) \/ Reparsed(h, s)
    BY <1>4, <1>5, <2>1 DEF StoreAmbiguous, ProcessingStatus
  <2> QED
    BY <1>5, <2>2 DEF StoreAmbiguous, Goto, HandlerPc, JobWritten, Worked
<1>6. CASE StoreCandidates(h)
  <2>1. PICK fresh, review, m : stmt' = Described(h, Outcome(fresh, review), m)
    BY <1>6 DEF StoreCandidates
  <2>2. Outcome(fresh, review) \in ProcessingStatus \ {"needs_sheet_selection"}
    BY DEF Outcome, ProcessingStatus
  <2>3. \A s \in Statements : SameSheet(s) \/ Reparsed(h, s)
    BY <1>4, <1>6, <2>1, <2>2 DEF StoreCandidates
  <2> QED
    BY <1>6, <2>3 DEF StoreCandidates, CompletedJob, Return, JobWritten, Ended
<1>7. CASE CompleteJob(h) \/ SendParse(h)
  <2>1. handler[h].pc # "idle" /\ UNCHANGED <<stmt, outbox>>
    BY <1>7 DEF CompleteJob, SendParse
  <2>2. JobWritten(h)
    BY <1>7 DEF CompleteJob, SendParse, CompletedJob, JobWritten
  <2>3. handler' = [handler EXCEPT ![h] = IdleHandler]
    BY <1>7 DEF CompleteJob, SendParse, Return
  <2>4. \/ waiting' \subseteq waiting \union Retry(handler[h])
        \/ handler[h].pc = "send" /\ waiting' = waiting \union {<<handler[h].next, RetryLimit>>}
    BY <1>7 DEF CompleteJob, SendParse
  <2> QED
    BY <2>1, <2>2, <2>3, <2>4, SameSheets DEF Ended
<1>8. CASE FailStatement(h)
  <2>1. job[handler[h].job].stmt \in Statements /\ handler[h].pc = "failStatement"
    BY <1>8, Working DEF FailStatement
  <2>2. \A s \in Statements : SameSheet(s)
    BY <1>8, <2>1, SetStatusSheet DEF FailStatement
  <2> QED
    BY <1>8, <2>1, <2>2 DEF FailStatement, Return, JobWritten, Ended
<1> QED
  BY <1>1, <1>2, <1>3, <1>5, <1>6, <1>7, <1>8 DEF HandlerStep

\* An inspection leads to a parse of a sheet, or to the choice of one.
LEMMA InspectionStores ==
    ASSUME TypeOK, Integrity, NEW h \in Handlers, StoreInspection(h)
    PROVE  LET k == handler[h].job s == job[k].stmt
           IN /\ handler[h].pc = "store" /\ k \in Inspections /\ Present(s) /\ s \in Statements
              /\ \A t \in Statements \ {s} : SameSheet(t)
              /\ stmt'[s].source = stmt[s].source
              /\ UNCHANGED <<outbox, waiting>>
              /\ \/ /\ job' = [job EXCEPT ![k].status = "completed"]
                    /\ handler' = [handler EXCEPT ![h] = IdleHandler]
                 \/ /\ \E j \in Jobs :
                          /\ FreshJob(j) /\ j # k
                          /\ job' = [[job EXCEPT ![k].status = "completed"] EXCEPT ![j] =
                                       QueuedJob(s, "parse")]
                          /\ handler' = [handler EXCEPT ![h].pc = "send", ![h].next = j]
                    /\ stmt[s].source = "xlsx" => stmt'[s].sheet \in Sheets
<1> DEFINE k == handler[h].job
           s == job[k].stmt
<1>1. /\ handler[h].pc = "store" /\ job[k].kind = "inspect"
      /\ UNCHANGED <<outbox, waiting>>
  BY DEF StoreInspection, queue
<1>2. /\ k \in Jobs /\ Known(k) /\ s \in Statements /\ Present(s)
      /\ stmt \in [Statements -> Statement] /\ stmt[s] \in Statement
  BY <1>1, Working DEF Known, Present, TypeOK
<1>3. k \in Inspections
  BY <1>1, <1>2 DEF Inspections
<1>4. ASSUME NEW sheet, NEW status,
             stmt' = [stmt EXCEPT ![s].status = status, ![s].sheet = sheet, ![s].old = FALSE]
      PROVE  /\ \A t \in Statements \ {s} : SameSheet(t)
             /\ stmt'[s].source = stmt[s].source /\ stmt'[s].sheet = sheet
  BY <1>2, <1>4 DEF SameSheet, Statement
<1>5. ASSUME NEW sheet, QueueInspected(h, s, sheet)
      PROVE  /\ \A t \in Statements \ {s} : SameSheet(t)
             /\ stmt'[s].source = stmt[s].source /\ stmt'[s].sheet = sheet
             /\ \E j \in Jobs :
                   /\ FreshJob(j) /\ j # k
                   /\ job' = [[job EXCEPT ![k].status = "completed"] EXCEPT ![j] =
                                QueuedJob(s, "parse")]
                   /\ handler' = [handler EXCEPT ![h].pc = "send", ![h].next = j]
  <2>1. PICK j \in Jobs :
           /\ FreshJob(j)
           /\ stmt' = [stmt EXCEPT ![s].status = "parsing", ![s].sheet = sheet, ![s].old = FALSE]
           /\ job' = [[job EXCEPT ![k].status = "completed"] EXCEPT ![j] = QueuedJob(s, "parse")]
           /\ handler' = [handler EXCEPT ![h].pc = "send", ![h].next = j]
    BY <1>5 DEF QueueInspected, CompletedJob
  <2>2. j # k
    BY <1>2, <2>1 DEF FreshJob, Known
  <2> QED
    BY <1>4, <2>1, <2>2
<1>6. CASE stmt[s].source = "pdf" /\ QueueInspected(h, s, stmt[s].sheet)
  BY <1>1, <1>2, <1>3, <1>5, <1>6
<1>7. CASE stmt[s].source = "xlsx" /\ \E sheet \in Sheets : QueueInspected(h, s, sheet)
  BY <1>1, <1>2, <1>3, <1>5, <1>7
<1>8. CASE /\ stmt' = [stmt EXCEPT ![s].status = "needs_sheet_selection",
                                   ![s].sheet = None, ![s].old = FALSE]
           /\ job' = CompletedJob(h) /\ Return(h)
  BY <1>1, <1>2, <1>3, <1>4, <1>8 DEF CompletedJob, Return
<1> QED
  BY <1>6, <1>7, <1>8 DEF StoreInspection

\* The job of an upload, of a mapping or of a sheet.
LEMMA UploadInserts ==
    ASSUME TypeOK, Integrity, NEW s \in Statements, InsertUpload(s)
    PROVE  /\ ~Present(s) /\ UNCHANGED <<waiting, handler>>
           /\ stmt'[s].sheet = None /\ stmt'[s].status = "uploaded"
           /\ \A t \in Statements \ {s} : SameSheet(t)
           /\ \E j \in Jobs, kind \in {"parse", "inspect"} :
                 /\ FreshJob(j) /\ outbox' = outbox \union {j}
                 /\ job' = [job EXCEPT ![j] = QueuedJob(s, kind)]
                 /\ kind = "parse" => stmt'[s].source = "csv"
<1>1. PICK source \in SourceTypes, retain \in BOOLEAN, j \in Jobs :
         /\ FreshJob(j) /\ outbox' = outbox \union {j}
         /\ stmt' = [stmt EXCEPT ![s] =
               [NoStatement EXCEPT !.status = "uploaded", !.source = source,
                                   !.retain = retain, !.key = TRUE]]
         /\ job' = [job EXCEPT ![j] =
               QueuedJob(s, IF source = "csv" THEN "parse" ELSE "inspect")]
  BY DEF InsertUpload
<1>2. stmt \in [Statements -> Statement]
  BY DEF TypeOK
<1>3. stmt'[s].sheet = None /\ stmt'[s].status = "uploaded" /\ stmt'[s].source = source
  BY <1>1, <1>2 DEF NoStatement
<1>4. \A t \in Statements \ {s} : SameSheet(t)
  BY <1>1, <1>2 DEF SameSheet
<1>5. ~Present(s) /\ UNCHANGED <<waiting, handler>>
  BY DEF InsertUpload, Integrity, Deleters, Present, workerState
<1> QED
  BY <1>1, <1>3, <1>4, <1>5

\* A choice of the user (saveImportMapping, selectXlsxSheet) inserts one parse job,
\* and a workbook that gets one has its sheet.
LEMMA ChoiceInserts ==
    ASSUME TypeOK, NEW s \in Statements, SaveMapping(s) \/ SelectSheet(s)
    PROVE  /\ Present(s) /\ UNCHANGED <<waiting, handler>>
           /\ \A t \in Statements \ {s} : SameSheet(t)
           /\ stmt'[s].source = stmt[s].source
           /\ stmt'[s].status # "needs_sheet_selection"
           /\ stmt[s].source = "xlsx" => stmt'[s].sheet # None
           /\ \/ stmt'[s].sheet = stmt[s].sheet
              \/ stmt[s].status = "needs_sheet_selection"
           /\ \E j \in Jobs :
                 /\ FreshJob(j) /\ outbox' = outbox \union {j}
                 /\ job' = [job EXCEPT ![j] = QueuedJob(s, "parse")]
<1>1. ASSUME NEW updated \in Statement, QueueParse(s, updated),
             updated.source = stmt[s].source
      PROVE  /\ UNCHANGED <<waiting, handler>>
             /\ \A t \in Statements \ {s} : SameSheet(t)
             /\ stmt'[s].source = stmt[s].source /\ stmt'[s].sheet = updated.sheet
             /\ stmt'[s].status = "parsing"
             /\ \E j \in Jobs :
                   /\ FreshJob(j) /\ outbox' = outbox \union {j}
                   /\ job' = [job EXCEPT ![j] = QueuedJob(s, "parse")]
  <2>1. /\ stmt' = [stmt EXCEPT ![s] = [updated EXCEPT !.status = "parsing", !.old = FALSE]]
        /\ UNCHANGED <<waiting, handler>>
        /\ \E j \in Jobs :
              /\ FreshJob(j) /\ outbox' = outbox \union {j}
              /\ job' = [job EXCEPT ![j] = QueuedJob(s, "parse")]
    BY <1>1 DEF QueueParse, workerState
  <2>2. /\ stmt'[s].source = stmt[s].source /\ stmt'[s].sheet = updated.sheet
        /\ stmt'[s].status = "parsing"
    BY <1>1, <2>1 DEF TypeOK, Statement
  <2>3. \A t \in Statements \ {s} : SameSheet(t)
    BY <2>1 DEF TypeOK, SameSheet
  <2> QED
    BY <2>1, <2>2, <2>3
<1>2. stmt[s] \in Statement /\ Present(s)
  BY DEF TypeOK, SaveMapping, SelectSheet, Present
<1>3. CASE SaveMapping(s)
  <2>1. PICK columns \in Columns :
           QueueParse(s, [stmt[s] EXCEPT !.mapping =
                            [columns |-> columns, sheet |-> stmt[s].sheet]])
    BY <1>3 DEF SaveMapping
  <2> DEFINE updated == [stmt[s] EXCEPT !.mapping =
                           [columns |-> columns, sheet |-> stmt[s].sheet]]
  <2>2. [columns |-> columns, sheet |-> stmt[s].sheet] \in Mapping
    BY <1>2 DEF Mapping, Statement
  <2>3. updated \in Statement /\ updated.source = stmt[s].source /\ updated.sheet = stmt[s].sheet
    BY <1>2, <2>2 DEF Statement
  <2>4. stmt[s].source = "xlsx" => stmt[s].sheet # None
    BY <1>3 DEF SaveMapping
  <2> HIDE DEF updated
  <2>5. QueueParse(s, updated)
    BY <2>1 DEF updated
  <2> QED
    BY <1>1, <1>2, <2>3, <2>4, <2>5
<1>4. CASE SelectSheet(s)
  <2>1. PICK sheet \in Sheets : QueueParse(s, [stmt[s] EXCEPT !.sheet = sheet])
    BY <1>4 DEF SelectSheet
  <2> DEFINE updated == [stmt[s] EXCEPT !.sheet = sheet]
  <2>2. updated \in Statement /\ updated.source = stmt[s].source /\ updated.sheet = sheet
    BY <1>2 DEF Statement
  <2>3. stmt[s].status = "needs_sheet_selection" /\ sheet # None
    BY <1>4, ImportAssumption DEF SelectSheet
  <2> HIDE DEF updated
  <2>4. QueueParse(s, updated)
    BY <2>1 DEF updated
  <2> QED
    BY <1>1, <1>2, <2>2, <2>3, <2>4
<1> QED
  BY <1>3, <1>4

\* What a step may do to a job that is there, and which jobs it may insert.
LEMMA OldJobs ==
    ASSUME TypeOK, Integrity, [Next]_vars, NEW j \in Jobs, Known(j)
    PROVE  /\ job'[j].kind = job[j].kind
           /\ \/ job'[j].status = job[j].status
              \/ \E h \in Handlers : Inspecting(h, j)
<1>1. job[j] \in Job /\ job \in [Jobs -> Job]
  BY DEF TypeOK
<1>2. CASE UNCHANGED job
  BY <1>2
<1>3. ASSUME NEW i \in Jobs, FreshJob(i), NEW record, job' = [job EXCEPT ![i] = record]
      PROVE  job'[j] = job[j]
  BY <1>1, <1>3 DEF FreshJob, Known
<1>4. ASSUME NEW h \in Handlers, handler[h].pc \notin {"idle", "send"}, NEW status,
             job' = [job EXCEPT ![handler[h].job].status = status]
      PROVE  /\ job'[j].kind = job[j].kind
             /\ job'[j].status = job[j].status \/ Inspecting(h, j)
  BY <1>1, <1>4 DEF Job, Inspecting, AtWork
<1>5. ASSUME NEW s \in Statements, InsertUpload(s) \/ SaveMapping(s) \/ SelectSheet(s)
      PROVE  job'[j] = job[j]
  BY <1>3, <1>5, UploadInserts, ChoiceInserts
<1>6. ASSUME NEW h \in Handlers, Taken(h) \/ Worked(h) \/ Ended(h)
      PROVE  /\ job'[j].kind = job[j].kind
             /\ job'[j].status = job[j].status \/ Inspecting(h, j)
  BY <1>4, <1>6 DEF Taken, Worked, Ended, JobWritten
<1>7. ASSUME NEW h \in Handlers, StoreInspection(h)
      PROVE  /\ job'[j].kind = job[j].kind
             /\ job'[j].status = job[j].status \/ Inspecting(h, j)
  <2> DEFINE k == handler[h].job
             done == [job EXCEPT ![k].status = "completed"]
  <2>1. handler[h].pc = "store" /\ k \in Jobs
    BY <1>7, InspectionStores DEF Inspections
  <2>2. done[j].kind = job[j].kind /\ (done[j].status = job[j].status \/ Inspecting(h, j))
    BY <1>1, <2>1 DEF Job, Inspecting, AtWork
  <2>3. \/ job' = done
        \/ \E i \in Jobs :
              FreshJob(i) /\ job' = [done EXCEPT ![i] = QueuedJob(job[k].stmt, "parse")]
    BY <1>7, InspectionStores
  <2>4. job'[j] = done[j]
    BY <1>1, <2>3 DEF FreshJob, Known
  <2> QED
    BY <2>2, <2>4
<1>8. CASE WorkerCrash
  BY <1>2, <1>8 DEF WorkerCrash, database
<1>9. ASSUME NEW i \in Jobs, SendJob(i)
      PROVE  UNCHANGED job
  BY <1>9 DEF SendJob, database
<1> QED
  BY <1>2, <1>5, <1>6, <1>7, <1>8, <1>9, AsideSteps, HandlerKinds DEF Aside

\* A job that comes into being is an upload's first or a parse, and the parse of a
\* workbook comes with its sheet.
LEMMA NewJobs ==
    ASSUME TypeOK, Integrity, [Next]_vars, NEW j \in Jobs, ~Known(j), Known(j)'
    PROVE  /\ FreshJob(j)
           /\ \/ \E s \in Statements : InsertUpload(s) /\ job'[j].stmt = s
              \/ job'[j].kind = "parse"
           /\ job'[j].kind = "parse" /\ stmt'[job'[j].stmt].source = "xlsx" =>
                 stmt'[job'[j].stmt].sheet # None
<1>1. job \in [Jobs -> Job] /\ job[j].status = "absent" /\ job'[j].status # "absent"
  BY DEF TypeOK, Known
<1>2. ~ UNCHANGED job
  BY <1>1
<1>3. ASSUME NEW i \in Jobs, NEW s \in Statements, NEW kind \in {"parse", "inspect"},
             NEW table \in [Jobs -> Job], table[j] = job[j],
             job' = [table EXCEPT ![i] = QueuedJob(s, kind)]
      PROVE  i = j /\ job'[j].kind = kind /\ job'[j].stmt = s
  BY <1>1, <1>3 DEF QueuedJob
<1>4. ASSUME NEW s \in Statements, InsertUpload(s)
      PROVE  /\ FreshJob(j) /\ job'[j].stmt = s
             /\ job'[j].kind = "parse" => stmt'[s].source = "csv"
  BY <1>1, <1>3, <1>4, UploadInserts
<1>5. ASSUME NEW s \in Statements, SaveMapping(s) \/ SelectSheet(s)
      PROVE  /\ FreshJob(j) /\ job'[j].stmt = s /\ job'[j].kind = "parse"
             /\ stmt'[s].source = "xlsx" => stmt'[s].sheet # None
  BY <1>1, <1>3, <1>5, ChoiceInserts
<1>6. ASSUME NEW h \in Handlers, JobWritten(h)
      PROVE  FALSE
  <2>1. PICK status : job' = [job EXCEPT ![handler[h].job].status = status]
    BY <1>2, <1>6 DEF JobWritten
  <2>2. handler[h].pc # "idle"
    BY <1>2, <1>6 DEF JobWritten
  <2>3. handler[h].job # j
    BY <1>1, <2>2, Working
  <2> QED
    BY <1>1, <2>1, <2>3
<1>7. ASSUME NEW h \in Handlers, StoreInspection(h)
      PROVE  /\ FreshJob(j) /\ job'[j].kind = "parse"
             /\ stmt'[job'[j].stmt].source = "xlsx" => stmt'[job'[j].stmt].sheet # None
  <2> DEFINE k == handler[h].job
             s == job[k].stmt
             done == [job EXCEPT ![k].status = "completed"]
  <2>1. k \in Inspections /\ s \in Statements
    BY <1>7, InspectionStores
  <2>2. k # j /\ k \in Jobs
    BY <2>1 DEF Inspections
  <2>3. done \in [Jobs -> Job] /\ done[j] = job[j]
    BY <1>1, <2>2, JobStatusType
  <2>4. /\ \E i \in Jobs : FreshJob(i) /\ job' = [done EXCEPT ![i] = QueuedJob(s, "parse")]
        /\ stmt[s].source = "xlsx" => stmt'[s].sheet \in Sheets
        /\ stmt'[s].source = stmt[s].source
    <3>1. job' # done
      BY <1>1, <2>3
    <3> QED
      BY <1>7, <3>1, InspectionStores
  <2>5. FreshJob(j) /\ job'[j].kind = "parse" /\ job'[j].stmt = s
    BY <1>3, <2>1, <2>3, <2>4, ZenonT(60)
  <2> QED
    BY <2>4, <2>5, ImportAssumption
<1>8. ~WorkerCrash /\ ~Aside /\ \A i \in Jobs : ~SendJob(i)
  BY <1>2 DEF WorkerCrash, Aside, SendJob, database
<1>9. \A h \in Handlers : ~Taken(h) /\ ~Worked(h) /\ ~Ended(h)
  BY <1>2, <1>6 DEF Taken, Worked, Ended
<1> QED
  BY <1>4, <1>5, <1>7, <1>8, <1>9, AsideSteps, HandlerKinds

\* What a step may do to the sheet of a statement.
LEMMA SheetStep ==
    ASSUME TypeOK, Integrity, [Next]_vars, NEW s \in Statements
    PROVE  \/ SameSheet(s)
           \/ InsertUpload(s)
           \/ /\ SelectSheet(s) /\ stmt[s].status = "needs_sheet_selection"
              /\ stmt'[s].source = stmt[s].source
              /\ stmt[s].source = "xlsx" => stmt'[s].sheet # None
           \/ \E h \in Handlers : /\ StoreInspection(h) /\ job[handler[h].job].stmt = s
                                  /\ stmt'[s].source = stmt[s].source
           \/ \E h \in Handlers : Reparsed(h, s)
<1>1. CASE UNCHANGED stmt
  BY <1>1 DEF SameSheet
<1>2. ASSUME NEW t \in Statements, InsertUpload(t)
      PROVE  SameSheet(s) \/ InsertUpload(s)
  BY <1>2, UploadInserts
<1>3. ASSUME NEW t \in Statements, SaveMapping(t)
      PROVE  SameSheet(s)
  <2>1. CASE s = t
    <3>1. stmt[t].status # "needs_sheet_selection"
      BY <1>3 DEF SaveMapping
    <3> QED
      BY <1>3, <2>1, <3>1, ChoiceInserts DEF SameSheet
  <2> QED
    BY <1>3, <2>1, ChoiceInserts
<1>4. ASSUME NEW t \in Statements, SelectSheet(t)
      PROVE  \/ SameSheet(s)
             \/ /\ SelectSheet(s) /\ stmt[s].status = "needs_sheet_selection"
                /\ stmt'[s].source = stmt[s].source
                /\ stmt[s].source = "xlsx" => stmt'[s].sheet # None
  <2>1. stmt[t].status = "needs_sheet_selection"
    BY <1>4 DEF SelectSheet
  <2> QED
    BY <1>4, <2>1, ChoiceInserts
<1>5. ASSUME NEW h \in Handlers, StoreInspection(h)
      PROVE  \/ SameSheet(s)
             \/ job[handler[h].job].stmt = s /\ stmt'[s].source = stmt[s].source
  BY <1>5, InspectionStores
<1>6. ASSUME NEW h \in Handlers, Taken(h) \/ Worked(h) \/ Ended(h)
      PROVE  SameSheet(s) \/ Reparsed(h, s)
  BY <1>6, SameSheets DEF Taken, Worked, Ended
<1>7. WorkerCrash \/ (\E i \in Jobs : SendJob(i)) => UNCHANGED stmt
  BY DEF WorkerCrash, SendJob, database
<1> QED
  BY <1>1, <1>2, <1>3, <1>4, <1>5, <1>6, <1>7, AsideSteps, HandlerKinds DEF Aside

\* What a step may do to a handler.
LEMMA HandlerEffects ==
    ASSUME TypeOK, Integrity, [Next]_vars, NEW g \in Handlers
    PROVE  \/ handler'[g] = handler[g]
           \/ handler'[g].pc = "idle"
           \/ /\ handler[g].pc \notin {"idle", "send"} /\ handler'[g].pc # "idle"
              /\ handler'[g].job = handler[g].job /\ handler'[g].sheet = handler[g].sheet
              /\ \/ handler'[g].pc # "send"
                 \/ StoreInspection(g) /\ handler'[g].pc = "send"
                       /\ Known(handler[g].next)' /\ ~Known(handler'[g].next)
           \/ \E j \in Jobs, left \in 0..RetryLimit :
                 /\ <<j, left>> \in waiting /\ waiting' = waiting \ {<<j, left>>}
                 /\ UNCHANGED <<stmt, job>> /\ handler'[g].job = j
                 /\ \/ /\ handler'[g].pc = "send"
                       /\ handler'[g].next \in Jobs /\ job[handler'[g].next].kind = "parse"
                    \/ /\ handler'[g].pc = "claimJob" /\ job[j].status \in {"queued", "failed"}
                       /\ handler'[g].sheet = stmt[job[j].stmt].sheet
<1> USE DEF TypeOK
<1>1. CASE UNCHANGED handler
  BY <1>1
<1>2. CASE WorkerCrash
  BY <1>2 DEF WorkerCrash, IdleHandler
<1>3. ASSUME NEW h \in Handlers, Taken(h)
      PROVE  \/ handler'[g] = handler[g]
             \/ \E j \in Jobs, left \in 0..RetryLimit :
                   /\ <<j, left>> \in waiting /\ waiting' = waiting \ {<<j, left>>}
                   /\ UNCHANGED <<stmt, job>> /\ handler'[g].job = j
                   /\ \/ /\ handler'[g].pc = "send"
                         /\ handler'[g].next \in Jobs /\ job[handler'[g].next].kind = "parse"
                      \/ /\ handler'[g].pc = "claimJob" /\ job[j].status \in {"queued", "failed"}
                         /\ handler'[g].sheet = stmt[job[j].stmt].sheet
  <2>1. PICK j \in Jobs, left \in 0..RetryLimit :
           /\ <<j, left>> \in waiting /\ waiting' = waiting \ {<<j, left>>}
           /\ \/ UNCHANGED handler
              \/ \E next \in JobsOf(job[j].stmt, "parse") :
                    handler' = [handler EXCEPT ![h] =
                       [IdleHandler EXCEPT !.pc = "send", !.job = j, !.left = left,
                                           !.next = next]]
              \/ /\ job[j].status \in {"queued", "failed"}
                 /\ \E record \in Handler :
                       /\ handler' = [handler EXCEPT ![h] = record]
                       /\ record.pc = "claimJob" /\ record.job = j
                       /\ record.sheet = stmt[job[j].stmt].sheet
    BY <1>3 DEF Taken
  <2>2. UNCHANGED <<stmt, job>>
    BY <1>3 DEF Taken
  <2>3. ASSUME NEW next \in JobsOf(job[j].stmt, "parse"),
               handler' = [handler EXCEPT ![h] =
                  [IdleHandler EXCEPT !.pc = "send", !.job = j, !.left = left, !.next = next]]
        PROVE  \/ handler'[g] = handler[g]
               \/ /\ handler'[g].pc = "send" /\ handler'[g].job = j
                  /\ handler'[g].next \in Jobs /\ job[handler'[g].next].kind = "parse"
    BY <2>3 DEF IdleHandler, JobsOf
  <2> QED
    BY <2>1, <2>2, <2>3
<1>4. ASSUME NEW h \in Handlers, Worked(h)
      PROVE  \/ handler'[g] = handler[g]
             \/ /\ handler[g].pc \notin {"idle", "send"} /\ handler'[g].pc \notin {"idle", "send"}
                /\ handler'[g].job = handler[g].job /\ handler'[g].sheet = handler[g].sheet
  BY <1>4 DEF Worked, Handler
<1>5. ASSUME NEW h \in Handlers, Ended(h)
      PROVE  handler'[g] = handler[g] \/ handler'[g].pc = "idle"
  BY <1>5 DEF Ended, IdleHandler
<1>6. ASSUME NEW h \in Handlers, StoreInspection(h)
      PROVE  \/ handler'[g] = handler[g] \/ handler'[g].pc = "idle"
             \/ /\ g = h /\ handler[g].pc = "store" /\ handler'[g].pc = "send"
                /\ handler'[g].job = handler[g].job /\ handler'[g].sheet = handler[g].sheet
                /\ Known(handler[g].next)' /\ ~Known(handler'[g].next)
  <2> DEFINE k == handler[h].job
             s == job[k].stmt
             done == [job EXCEPT ![k].status = "completed"]
  <2>1. CASE handler' = [handler EXCEPT ![h] = IdleHandler]
    BY <2>1 DEF IdleHandler
  <2>2. ASSUME NEW j \in Jobs, FreshJob(j), job' = [done EXCEPT ![j] = QueuedJob(s, "parse")],
               handler' = [handler EXCEPT ![h].pc = "send", ![h].next = j]
        PROVE  \/ handler'[g] = handler[g]
               \/ /\ g = h /\ handler'[g].pc = "send"
                  /\ handler'[g].job = handler[g].job /\ handler'[g].sheet = handler[g].sheet
                  /\ Known(handler[g].next)' /\ ~Known(handler'[g].next)
    <3>1. job'[j].status = "queued" /\ job[j].status = "absent"
      BY <2>2 DEF FreshJob, QueuedJob
    <3>2. CASE g = h
      <4>1. /\ handler'[g].pc = "send" /\ handler'[g].job = handler[g].job
            /\ handler'[g].sheet = handler[g].sheet /\ handler'[g].next = j
        BY <2>2, <3>2 DEF Handler
      <4> QED
        BY <3>1, <3>2, <4>1 DEF Known
    <3> QED
      BY <2>2, <3>2
  <2> QED
    BY <1>6, <2>1, <2>2, InspectionStores
<1>7. Aside \/ (\E i \in Jobs : SendJob(i))
         \/ (\E s \in Statements : InsertUpload(s) \/ SaveMapping(s) \/ SelectSheet(s))
         => UNCHANGED handler
  BY UploadInserts, ChoiceInserts DEF Aside, SendJob, workerState
<1> QED
  BY <1>1, <1>2, <1>3, <1>4, <1>5, <1>6, <1>7, AsideSteps, HandlerKinds

\* A job and its statement, before and after a step.
LEMMA JobKept ==
    ASSUME TypeOK, Integrity, [Next]_vars, NEW j \in Jobs, Known(j)
    PROVE  /\ Known(j)' /\ job'[j].stmt = job[j].stmt /\ job'[j].kind = job[j].kind
           /\ Present(job[j].stmt) /\ job[j].stmt \in Statements
           /\ ~InsertUpload(job[j].stmt)
           /\ stmt'[job[j].stmt].source = stmt[job[j].stmt].source
<1> DEFINE s == job[j].stmt
<1>1. Known(j)' /\ job'[j].stmt = s /\ job'[j].kind = job[j].kind
  BY JobStep, OldJobs
<1>2. Present(s) /\ s \in Statements
  BY DEF Integrity, References, Present
<1>3. ~InsertUpload(s)
  BY <1>2, UploadInserts
<1>4. stmt'[s].source = stmt[s].source
  BY <1>2, <1>3, SheetStep DEF SameSheet, Reparsed
<1> QED
  BY <1>1, <1>2, <1>3, <1>4

\* No step makes a second inspection of a statement.
LEMMA OneInspectionStep ==
    ASSUME SheetInv, [Next]_vars
    PROVE  OneInspection'
<1> USE DEF SheetInv
<1> SUFFICES ASSUME NEW i \in Jobs, NEW j \in Jobs, Known(i)', Known(j)',
                    job'[i].kind = "inspect", job'[j].kind = "inspect",
                    job'[i].stmt = job'[j].stmt
             PROVE  i = j
  BY DEF OneInspection, Inspections
<1>1. CASE Known(i) /\ Known(j)
  BY <1>1, JobKept DEF OneInspection, Inspections
<1>2. CASE ~Known(i) /\ ~Known(j)
  <2>1. FreshJob(i) /\ FreshJob(j)
    BY <1>2, NewJobs
  <2> QED
    BY <2>1, ImportAssumption DEF FreshJob, Jobs
<1>3. ASSUME NEW new \in Jobs, NEW old \in Jobs, ~Known(new), Known(new)', Known(old),
             job'[new].kind = "inspect", job'[new].stmt = job'[old].stmt
      PROVE  FALSE
  <2>1. PICK s \in Statements : InsertUpload(s) /\ job'[new].stmt = s
    BY <1>3, NewJobs
  <2> QED
    BY <1>3, <2>1, JobKept
<1> QED
  BY <1>1, <1>2, <1>3

\* What a handler goes on to send is a parse.
LEMMA ParsesSentStep ==
    ASSUME SheetInv, [Next]_vars
    PROVE  ParsesSent'
<1> USE DEF SheetInv
<1> SUFFICES ASSUME NEW g \in Handlers, handler'[g].pc = "send"
             PROVE  job'[handler'[g].next].kind = "parse"
  BY DEF ParsesSent
<1>1. CASE handler'[g] = handler[g]
  <2>1. Known(handler[g].next) /\ job[handler[g].next].kind = "parse"
    BY <1>1 DEF ParsesSent, Integrity, References
  <2> QED
    BY <1>1, <2>1, JobKept DEF Known
<1>2. CASE StoreInspection(g)
  <2>1. \E j \in Jobs :
           /\ job' = [[job EXCEPT ![handler[g].job].status = "completed"] EXCEPT ![j] =
                        QueuedJob(job[handler[g].job].stmt, "parse")]
           /\ handler' = [handler EXCEPT ![g].pc = "send", ![g].next = j]
    <3>1. handler' # [handler EXCEPT ![g] = IdleHandler]
      BY DEF IdleHandler, TypeOK
    <3> QED
      BY <1>2, <3>1, InspectionStores
  <2> QED
    BY <2>1 DEF TypeOK, Handler, QueuedJob
<1>3. ASSUME UNCHANGED <<stmt, job>>, handler'[g].next \in Jobs,
             job[handler'[g].next].kind = "parse"
      PROVE  job'[handler'[g].next].kind = "parse"
  BY <1>3
<1> QED
  BY <1>1, <1>2, <1>3, HandlerEffects

\* No step begins to parse a workbook without a sheet.
LEMMA WorkbookParseHasSheetStep ==
    ASSUME SheetInv, [Next]_vars
    PROVE  WorkbookParseHasSheet'
<1> USE DEF SheetInv
<1> SUFFICES ASSUME NEW j \in Jobs, Known(j)', job'[j].kind = "parse",
                    stmt'[job'[j].stmt].source = "xlsx"
             PROVE  stmt'[job'[j].stmt].sheet # None
  BY DEF WorkbookParseHasSheet, Known
<1>1. CASE ~Known(j)
  BY <1>1, NewJobs
<1>2. CASE Known(j)
  <2> DEFINE s == job[j].stmt
  <2>1. /\ job'[j].stmt = s /\ job[j].kind = "parse" /\ s \in Statements /\ Present(s)
        /\ ~InsertUpload(s) /\ stmt[s].source = "xlsx"
    BY <1>2, JobKept
  <2>2. stmt[s].sheet # None
    BY <1>2, <2>1 DEF WorkbookParseHasSheet, Known
  <2>3. Examined(s)
    BY <2>1, <2>2 DEF SheetAfterInspection, Workbook
  <2>4. ASSUME NEW h \in Handlers, StoreInspection(h), job[handler[h].job].stmt = s
        PROVE  FALSE
    <3>1. handler[h].job \in Inspections /\ handler[h].pc = "store"
      BY <2>4, InspectionStores
    <3> QED
      BY <2>3, <2>4, <3>1 DEF Examined, Inspecting, AtWork
  <2>5. ASSUME NEW h \in Handlers, Reparsed(h, s)
        PROVE  stmt'[s].sheet # None
    BY <2>1, <2>5 DEF Reparsed, ParsesHaveSheet
  <2> QED
    BY <2>1, <2>2, <2>4, <2>5, SheetStep DEF SameSheet
<1> QED
  BY <1>1, <1>2

\* No step takes the sheet from under a parse.
LEMMA ParsesHaveSheetStep ==
    ASSUME SheetInv, [Next]_vars
    PROVE  ParsesHaveSheet'
<1> USE DEF SheetInv
<1> SUFFICES ASSUME NEW g \in Handlers, handler'[g].pc \notin {"idle", "send"},
                    job'[handler'[g].job].kind = "parse",
                    stmt'[job'[handler'[g].job].stmt].source = "xlsx"
             PROVE  handler'[g].sheet # None
  BY DEF ParsesHaveSheet
<1>1. CASE /\ handler[g].pc \notin {"idle", "send"}
           /\ handler'[g].job = handler[g].job /\ handler'[g].sheet = handler[g].sheet
  <2>1. handler[g].job \in Jobs /\ Known(handler[g].job)
    BY <1>1 DEF Integrity, References, Known
  <2> QED
    BY <1>1, <2>1, JobKept DEF ParsesHaveSheet
<1>2. ASSUME NEW j \in Jobs, NEW left \in 0..RetryLimit, <<j, left>> \in waiting,
             UNCHANGED <<stmt, job>>, handler'[g].job = j,
             handler'[g].sheet = stmt[job[j].stmt].sheet
      PROVE  handler'[g].sheet # None
  BY <1>2, Delivered DEF WorkbookParseHasSheet
<1> QED
  BY <1>1, <1>2, HandlerEffects

\* A completed inspection that nobody runs is not run again.
LEMMA ExaminedStays ==
    ASSUME SheetInv, [Next]_vars, NEW s \in Statements, Examined(s), ~InsertUpload(s)
    PROVE  Examined(s)'
<1> USE DEF SheetInv
<1> SUFFICES ASSUME NEW j \in Jobs, Known(j)', job'[j].kind = "inspect", job'[j].stmt = s
             PROVE  job'[j].status = "completed" /\ \A g \in Handlers : ~Inspecting(g, j)'
  BY DEF Examined, Inspections
<1>1. Known(j)
  BY NewJobs
<1>2. /\ j \in Inspections /\ job[j].stmt = s /\ job[j].status = "completed"
      /\ \A g \in Handlers : ~Inspecting(g, j)
  BY <1>1, JobKept DEF Examined, Inspections
<1>3. job'[j].status = "completed"
  BY <1>1, <1>2, OldJobs
<1>4. ASSUME NEW g \in Handlers, handler'[g].pc \notin {"idle", "send"}, handler'[g].job = j
      PROVE  FALSE
  <2>1. ~ (handler[g].pc \notin {"idle", "send"} /\ handler[g].job = j)
    BY <1>2 DEF Inspecting, AtWork
  <2> QED
    BY <1>2, <1>4, <2>1, HandlerEffects
<1> QED
  BY <1>3, <1>4 DEF Inspecting, AtWork

\* The inspection that stores its result is the only one, with the only handler.
LEMMA InspectionEnds ==
    ASSUME SheetInv, [Next]_vars, NEW h \in Handlers, StoreInspection(h),
           NEW k, k = handler[h].job, NEW s, s = job[k].stmt
    PROVE  Examined(s)'
<1> USE DEF SheetInv
<1>1. /\ handler[h].pc = "store" /\ k \in Inspections /\ Present(s)
      /\ k \in Jobs /\ Known(k)
  BY InspectionStores DEF Inspections
<1>2. SUFFICES ASSUME NEW j \in Jobs, Known(j)', job'[j].kind = "inspect", job'[j].stmt = s
               PROVE  job'[j].status = "completed" /\ \A g \in Handlers : ~Inspecting(g, j)'
  BY DEF Examined, Inspections
<1>3. j = k
  <2>1. Known(j)
    <3>1. ~InsertUpload(s)
      BY <1>1, JobKept
    <3> QED
      BY <1>2, <3>1, NewJobs
  <2> QED
    BY <1>1, <1>2, <2>1, JobKept DEF OneInspection, Inspections
<1>4. job'[k].status = "completed"
  <2> DEFINE done == [job EXCEPT ![k].status = "completed"]
  <2>1. done[k].status = "completed"
    BY <1>1 DEF TypeOK, Job
  <2>2. /\ k \in Jobs
        /\ \/ job' = done
           \/ \E i \in Jobs : i # k /\ job' = [done EXCEPT ![i] = QueuedJob(s, "parse")]
    BY <1>1, InspectionStores
  <2> HIDE DEF done
  <2>3. CASE job' = done
    BY <2>1, <2>3
  <2>4. ASSUME NEW i \in Jobs, i # k, job' = [done EXCEPT ![i] = QueuedJob(s, "parse")]
        PROVE  job'[k].status = "completed"
    <3>1. DOMAIN done = Jobs
      BY DEF TypeOK, done
    <3> QED
      BY <1>1, <2>1, <2>4, <3>1
  <2> QED
    BY <2>2, <2>3, <2>4
<1>5. \A g \in Handlers : handler[g].pc # "idle" /\ handler[g].job = k => g = h
  BY <1>1 DEF OneDelivery, DeliveredOnce, AtWork
<1>6. \A g \in Handlers : ~Inspecting(g, k)'
  <2> SUFFICES ASSUME NEW g \in Handlers, handler'[g].pc \notin {"idle", "send"},
                      handler'[g].job = k
               PROVE  FALSE
    BY DEF Inspecting, AtWork
  <2>1. \/ handler' = [handler EXCEPT ![h] = IdleHandler]
        \/ \E i \in Jobs : handler' = [handler EXCEPT ![h].pc = "send", ![h].next = i]
    BY InspectionStores
  <2>2. handler'[h].pc \in {"idle", "send"} /\ (g # h => handler'[g] = handler[g])
    BY <2>1 DEF TypeOK, Handler, IdleHandler
  <2> QED
    BY <1>5, <2>2
<1> QED
  BY <1>3, <1>4, <1>6

\* No step has a sheet chosen, or asked for, before the inspection is over.
LEMMA SheetAfterInspectionStep ==
    ASSUME SheetInv, [Next]_vars
    PROVE  SheetAfterInspection'
<1> USE DEF SheetInv
<1> SUFFICES ASSUME NEW s \in Statements, Present(s)', stmt'[s].source = "xlsx",
                    stmt'[s].sheet # None \/ stmt'[s].status = "needs_sheet_selection"
             PROVE  Examined(s)'
  BY DEF SheetAfterInspection, Workbook
<1>1. ~InsertUpload(s)
  BY UploadInserts
<1>2. Present(s)
  BY <1>1, StatementStep DEF Updated, Present
<1>3. CASE stmt[s].source = "xlsx"
             /\ (stmt[s].sheet # None \/ stmt[s].status = "needs_sheet_selection")
  BY <1>1, <1>2, <1>3, ExaminedStays DEF SheetAfterInspection, Workbook
<1>4. ASSUME NEW h \in Handlers, StoreInspection(h), job[handler[h].job].stmt = s
      PROVE  Examined(s)'
  BY <1>4, InspectionEnds
<1>5. ASSUME NEW h \in Handlers, Reparsed(h, s)
      PROVE  stmt[s].source = "xlsx" /\ stmt[s].sheet # None
  <2>1. Known(handler[h].job) /\ job[handler[h].job].kind = "parse"
        /\ job[handler[h].job].stmt = s /\ stmt[s].source = "xlsx"
    BY <1>5 DEF Reparsed, Integrity, References
  <2> QED
    BY <2>1 DEF WorkbookParseHasSheet, Known
<1> QED
  BY <1>1, <1>3, <1>4, <1>5, SheetStep DEF SameSheet

\* A step that neither sends, queues nor takes the job.
LEMMA DeliveryKept ==
    ASSUME NEW j \in Jobs, DeliveredOnce(j),
           j \in outbox' => j \in outbox,
           \A d \in waiting' : d[1] = j => d \in waiting,
           \A g \in Handlers : handler'[g].pc # "idle" /\ handler'[g].job = j => AtWork(g, j)
    PROVE  DeliveredOnce(j)'
<1>1. \A g \in Handlers : AtWork(g, j)' => AtWork(g, j)
  BY DEF AtWork
<1> QED
  BY <1>1 DEF DeliveredOnce

\* A job sent goes from the outbox to the queue: still one delivery.
LEMMA DeliverySent ==
    ASSUME NEW j \in Jobs, DeliveredOnce(j), SendJob(j)
    PROVE  DeliveredOnce(j)'
<1>1. /\ j \in outbox /\ j \notin outbox' /\ handler' = handler
      /\ waiting' = waiting \union {<<j, RetryLimit>>}
  BY DEF SendJob, workerState
<1>2. \A g \in Handlers : ~AtWork(g, j)
  BY <1>1 DEF DeliveredOnce
<1>3. \A g \in Handlers : ~AtWork(g, j)'
  BY <1>1, <1>2 DEF AtWork
<1>4. \A d \in waiting' : d[1] = j => d = <<j, RetryLimit>>
  BY <1>1 DEF DeliveredOnce
<1> QED
  BY <1>1, <1>3, <1>4 DEF DeliveredOnce

\* A delivery taken goes from the queue to one handler.
LEMMA DeliveryTaken ==
    ASSUME NEW j \in Jobs, DeliveredOnce(j), NEW left, <<j, left>> \in waiting,
           waiting' = waiting \ {<<j, left>>}, outbox' = outbox, NEW h \in Handlers,
           \A g \in Handlers \ {h} : handler'[g] = handler[g]
    PROVE  DeliveredOnce(j)'
<1>1. \A d \in waiting' : d[1] # j
  BY DEF DeliveredOnce
<1>2. j \notin outbox' /\ \A g \in Handlers : ~AtWork(g, j)
  BY DEF DeliveredOnce
<1>3. \A g \in Handlers \ {h} : ~AtWork(g, j)'
  BY <1>2 DEF AtWork
<1> QED
  BY <1>1, <1>2, <1>3 DEF DeliveredOnce

\* A delivery that ends leaves its handler, at most for the queue (a retry).
LEMMA DeliveryEnded ==
    ASSUME TypeOK, NEW j \in Jobs, DeliveredOnce(j), NEW h \in Handlers, AtWork(h, j),
           outbox' = outbox, \A g \in Handlers : ~AtWork(g, j)',
           \A d \in waiting' : d[1] = j => d \in waiting \union Retry(handler[h])
    PROVE  DeliveredOnce(j)'
<1>1. j \notin outbox' /\ \A d \in waiting : d[1] # j
  BY DEF DeliveredOnce
<1>2. \A d \in waiting' : d[1] = j => d = <<j, handler[h].left - 1>>
  BY <1>1 DEF Retry, AtWork
<1> QED
  BY <1>1, <1>2 DEF DeliveredOnce

\* A delivery that goes back to pg-boss is of the handler's job.
LEMMA RetryOfJob ==
    ASSUME NEW h \in Handlers, NEW d \in Retry(handler[h])
    PROVE  d[1] = handler[h].job
  BY DEF Retry

\* What a handler's step does to the delivery of an inspection.
LEMMA HandlerDeliveryStep ==
    ASSUME SheetInv, [Next]_vars, NEW h \in Handlers,
           Taken(h) \/ Worked(h) \/ Ended(h) \/ StoreInspection(h), NEW j \in Inspections
    PROVE  DeliveredOnce(j)'
<1> USE DEF SheetInv
<1>1. /\ j \in Jobs /\ job[j].kind = "inspect" /\ DeliveredOnce(j)
      /\ handler \in [Handlers -> Handler]
  BY DEF Inspections, OneDelivery, TypeOK
<1>2. CASE Taken(h)
  <2>1. PICK i \in Jobs, left \in 0..RetryLimit :
           /\ <<i, left>> \in waiting /\ waiting' = waiting \ {<<i, left>>}
           /\ \/ UNCHANGED handler
              \/ \E next \in JobsOf(job[i].stmt, "parse") :
                    handler' = [handler EXCEPT ![h] =
                       [IdleHandler EXCEPT !.pc = "send", !.job = i, !.left = left,
                                           !.next = next]]
              \/ \E record \in Handler :
                    handler' = [handler EXCEPT ![h] = record] /\ record.job = i
    BY <1>2 DEF Taken
  <2>2. /\ outbox' = outbox /\ \A g \in Handlers \ {h} : handler'[g] = handler[g]
        /\ handler' = handler \/ handler'[h].job = i
    BY <1>1, <1>2, <2>1, ZenonT(60) DEF Taken, IdleHandler
  <2>3. CASE i = j
    BY <1>1, <2>1, <2>2, <2>3, DeliveryTaken
  <2>4. CASE i # j
    BY <1>1, <2>1, <2>2, <2>4, DeliveryKept DEF AtWork
  <2> QED
    BY <2>3, <2>4
<1>3. CASE Worked(h)
  <2>1. PICK pc \in HandlerPc \ {"idle", "send"} : handler' = [handler EXCEPT ![h].pc = pc]
    BY <1>3 DEF Worked
  <2>2. \A g \in Handlers : /\ handler'[g].job = handler[g].job
                            /\ handler'[g].pc # "idle" => handler[g].pc # "idle"
    BY <1>1, <1>3, <2>1 DEF Handler, Worked
  <2>3. waiting' = waiting /\ outbox' = outbox
    BY <1>3 DEF Worked
  <2> QED
    BY <1>1, <2>2, <2>3, DeliveryKept DEF AtWork
<1>4. CASE Ended(h)
  <2>1. /\ handler[h].pc # "idle" /\ outbox' = outbox
        /\ handler' = [handler EXCEPT ![h] = IdleHandler]
    BY <1>4 DEF Ended
  <2>2. handler'[h].pc = "idle" /\ \A g \in Handlers \ {h} : handler'[g] = handler[g]
    BY <1>1, <2>1 DEF IdleHandler
  <2>3. \A d \in waiting' : d[1] = j => d \in waiting \union Retry(handler[h])
    <3>1. CASE waiting' \subseteq waiting \union Retry(handler[h])
      BY <3>1
    <3>2. CASE handler[h].pc = "send" /\ waiting' = waiting \union {<<handler[h].next, RetryLimit>>}
      <4>1. handler[h].next # j
        BY <1>1, <3>2 DEF ParsesSent
      <4> QED
        BY <3>2, <4>1
    <3> QED
      BY <1>4, <3>1, <3>2 DEF Ended
  <2>4. CASE AtWork(h, j)
    <3>1. \A g \in Handlers : AtWork(g, j) => g = h
      BY <1>1, <2>4 DEF DeliveredOnce
    <3>2. \A g \in Handlers : ~AtWork(g, j)'
      BY <2>2, <3>1 DEF AtWork
    <3> QED
      BY <1>1, <2>1, <2>3, <2>4, <3>2, DeliveryEnded
  <2>5. CASE ~AtWork(h, j)
    <3>1. \A d \in waiting' : d[1] = j => d \in waiting
      BY <2>1, <2>3, <2>5, RetryOfJob DEF AtWork
    <3> QED
      BY <1>1, <2>1, <2>2, <3>1, DeliveryKept DEF AtWork
  <2> QED
    BY <2>4, <2>5
<1>5. CASE StoreInspection(h)
  <2>1. /\ handler[h].pc = "store" /\ waiting' = waiting /\ outbox' = outbox
        /\ \/ handler' = [handler EXCEPT ![h] = IdleHandler]
           \/ \E i \in Jobs : handler' = [handler EXCEPT ![h].pc = "send", ![h].next = i]
    BY <1>5, InspectionStores
  <2>2. /\ \A g \in Handlers \ {h} : handler'[g] = handler[g]
        /\ handler'[h].pc = "idle" \/ handler'[h].job = handler[h].job
    BY <1>1, <2>1 DEF IdleHandler, Handler
  <2> QED
    BY <1>1, <2>1, <2>2, DeliveryKept DEF AtWork
<1> QED
  BY <1>2, <1>3, <1>4, <1>5

\* No step delivers an inspection twice at once.
LEMMA OneDeliveryStep ==
    ASSUME SheetInv, [Next]_vars
    PROVE  OneDelivery'
<1> USE DEF SheetInv
<1> SUFFICES ASSUME NEW j \in Jobs, Known(j)', job'[j].kind = "inspect"
             PROVE  DeliveredOnce(j)'
  BY DEF OneDelivery, Inspections
<1>1. CASE ~Known(j)
  <2>1. PICK s \in Statements : InsertUpload(s)
    BY <1>1, NewJobs
  <2>2. waiting' = waiting /\ handler' = handler
    BY <2>1, UploadInserts
  <2>3. (\A d \in waiting : d[1] # j) /\ \A g \in Handlers : ~AtWork(g, j)
    BY <1>1 DEF Integrity, References, AtWork
  <2>4. \A g \in Handlers : ~AtWork(g, j)'
    BY <2>2, <2>3 DEF AtWork
  <2> QED
    BY <2>2, <2>3, <2>4 DEF DeliveredOnce
<1>2. CASE Known(j)
  <2>1. j \in Inspections /\ DeliveredOnce(j)
    BY <1>2, OldJobs DEF Inspections, OneDelivery
  <2>2. ASSUME UNCHANGED <<waiting, handler>>, j \in outbox' => j \in outbox
        PROVE  DeliveredOnce(j)'
    BY <2>1, <2>2, DeliveryKept DEF AtWork
  <2>3. CASE Aside
    BY <2>1, <2>2, <2>3 DEF Aside, Inspections
  <2>4. ASSUME NEW s \in Statements, InsertUpload(s) \/ SaveMapping(s) \/ SelectSheet(s)
        PROVE  DeliveredOnce(j)'
    <3>1. PICK i \in Jobs : FreshJob(i) /\ outbox' = outbox \union {i}
      BY <2>4, UploadInserts, ChoiceInserts
    <3>2. i # j
      BY <1>2, <3>1 DEF FreshJob, Known
    <3>3. UNCHANGED <<waiting, handler>>
      BY <2>4, UploadInserts, ChoiceInserts
    <3> QED
      BY <2>2, <3>1, <3>2, <3>3
  <2>5. ASSUME NEW i \in Jobs, SendJob(i)
        PROVE  DeliveredOnce(j)'
    <3>1. CASE i = j
      BY <2>1, <2>5, <3>1, DeliverySent
    <3>2. CASE i # j
      BY <2>1, <2>5, <3>2, DeliveryKept DEF SendJob, workerState, AtWork
    <3> QED
      BY <3>1, <3>2
  <2>6. ASSUME NEW h \in Handlers, HandlerStep(h)
        PROVE  DeliveredOnce(j)'
    BY <2>1, <2>6, HandlerKinds, HandlerDeliveryStep
  <2>7. CASE WorkerCrash
    <3>1. /\ outbox' = outbox /\ \A g \in Handlers : ~AtWork(g, j)'
          /\ \A d \in waiting' : d \in waiting \/ \E g \in Handlers :
                handler[g].pc # "idle" /\ d \in Retry(handler[g])
      BY <2>7 DEF WorkerCrash, AtWork, IdleHandler
    <3>2. \A d \in waiting' : d[1] = j => d \in waiting \/ \E g \in Handlers :
             AtWork(g, j) /\ d \in Retry(handler[g])
      BY <3>1, RetryOfJob DEF AtWork
    <3>3. CASE \E h \in Handlers : AtWork(h, j)
      <4>1. PICK h \in Handlers : AtWork(h, j)
        BY <3>3
      <4>2. \A g \in Handlers : AtWork(g, j) => g = h
        BY <2>1, <4>1 DEF DeliveredOnce
      <4> QED
        BY <2>1, <3>1, <3>2, <4>1, <4>2, DeliveryEnded
    <3>4. CASE \A h \in Handlers : ~AtWork(h, j)
      <4>1. \A g \in Handlers : ~(handler'[g].pc # "idle" /\ handler'[g].job = j)
        BY <3>1 DEF AtWork
      <4> QED
        BY <2>1, <3>1, <3>2, <3>4, <4>1, DeliveryKept
    <3> QED
      BY <3>3, <3>4
  <2> QED
    BY <2>3, <2>4, <2>5, <2>6, <2>7, AsideSteps
<1> QED
  BY <1>1, <1>2

\* Before any upload there is nothing to inspect.
LEMMA SheetStart == Init => SheetInv
<1> SUFFICES ASSUME Init PROVE SheetInv
  OBVIOUS
<1>1. TypeOK /\ Integrity
  BY ImportStart
<1>2. Inspections = {}
  BY DEF Init, Inspections, Known, NoJob
<1>3. \A s \in Statements : ~Present(s)
  BY DEF Init, Present, NoStatement
<1>4. ParsesSent /\ ParsesHaveSheet
  BY DEF Init, ParsesSent, ParsesHaveSheet, IdleHandler
<1>5. WorkbookParseHasSheet
  BY DEF Init, WorkbookParseHasSheet, NoJob
<1> QED
  BY <1>1, <1>2, <1>3, <1>4, <1>5
     DEF SheetInv, OneInspection, OneDelivery, SheetAfterInspection, Workbook

\* A statement has one inspection, pg-boss has at most one delivery of it, and it
\* is over before a sheet is there: in every reachable state, through retries,
\* crashes and repeated requests.
THEOREM OneInspectionEach == Spec => []SheetInv
<1>1. SheetInv /\ [Next]_vars => SheetInv'
  <2>1. ASSUME SheetInv, [Next]_vars
        PROVE  SheetInv'
    BY <2>1, TypeStep, IntegrityStep, OneInspectionStep, OneDeliveryStep, ParsesSentStep,
       SheetAfterInspectionStep, ParsesHaveSheetStep, WorkbookParseHasSheetStep DEF SheetInv
  <2> QED
    BY <2>1
<1> QED
  BY <1>1, SheetStart, PTL DEF Spec

\* Every parse job of a workbook finds its sheet selected, whatever the user
\* repeats and however often pg-boss delivers, so that the branch that fails with
\* XLSX_STALE_SHEET_SELECTION is never taken.
THEOREM WorkbooksParsedWithSheet == Spec => []WorkbookParseHasSheet
<1>1. SheetInv => WorkbookParseHasSheet
  BY DEF SheetInv
<1> QED
  BY <1>1, OneInspectionEach, PTL

------------------------------------------------------------------------------
(* The pipeline implements its promise.  Apart from the steps that touch   *)
(* the ledger, the storage or the user's wish, every step is at most a     *)
(* Reparse: EvidenceKept says that it leaves the entered rows alone.       *)

Evidence == {r \in Rows : row[r].review \in Review}
Kept == {s \in Statements : stmt[s].status # "absent" /\ stmt[s].retain}

\* The user's wish changes only when an upload is accepted.
LEMMA KeptStep ==
    ASSUME TypeOK, Integrity, [Next]_vars,
           ~ \E s \in Statements : InsertUpload(s)
    PROVE  Kept' = Kept
  BY StatementStep DEF Kept, Updated

\* Every step of the pipeline is a step of the promise, or none.
LEMMA PromiseStep ==
    ASSUME TypeOK, Integrity, EvidenceKept, [Next]_vars
    PROVE  [Promised!PromiseNext]_(Promised!promiseVars)
<1>1. Promised!Entered \subseteq Evidence /\ (Promised!Entered \subseteq Evidence)'
  BY EvidenceKeptStep DEF EvidenceKept, Evidence, Promised!Entered
<1>2. ASSUME Kept' = Kept, UNCHANGED <<ledger, files>>
      PROVE  Promised!PromiseNext
  <2>1. Promised!Entered \subseteq Evidence'
    BY <1>1, <1>2 DEF Promised!Entered
  <2>2. Promised!Reparse
    BY <1>2, <2>1 DEF Promised!Reparse, Evidence, Kept
  <2> QED
    BY <2>2 DEF Promised!PromiseNext
<1>3. ASSUME NEW c \in Confirmers, ConfirmCommit(c)
      PROVE  Promised!PromiseNext
  <2>1. confirmer[c].included \subseteq Rows
    BY DEF TypeOK, Confirmer
  <2>2. Kept' = Kept
    <3>1. ~ \E s \in Statements : InsertUpload(s)
      BY <1>3 DEF ConfirmCommit, InsertUpload, TypeOK, Integrity, Deleters, reviewFrame
    <3> QED
      BY <3>1, KeptStep
  <2>3. Promised!Enter(confirmer[c].included)
    BY <1>3, <2>1, <2>2 DEF ConfirmCommit, Insertable, Posted, Promised!Enter,
                            Promised!Entered, Evidence, Kept, reviewFrame
  <2> QED
    BY <2>1, <2>3 DEF Promised!PromiseNext
<1>4. ASSUME NEW s \in Statements, StoreUpload(s)
      PROVE  Promised!PromiseNext
  <2>1. Promised!Store(s)
    BY <1>4 DEF StoreUpload, database, Promised!Store
  <2> QED
    BY <2>1 DEF Promised!PromiseNext
<1>5. ASSUME NEW s \in Statements, InsertUpload(s)
      PROVE  Promised!PromiseNext
  <2>1. PICK source \in SourceTypes, retain \in BOOLEAN :
           stmt' = [stmt EXCEPT ![s] =
              [NoStatement EXCEPT !.status = "uploaded", !.source = source,
                                  !.retain = retain, !.key = TRUE]]
    BY <1>5 DEF InsertUpload
  <2>2. Kept' = IF retain THEN Kept \union {s} ELSE Kept
    <3>1. stmt[s].status = "absent"
      BY <1>5 DEF InsertUpload, Integrity, Deleters
    <3>2. \A t \in Statements : t # s => stmt'[t] = stmt[t]
      BY <2>1 DEF TypeOK
    <3>3. stmt'[s].status = "uploaded" /\ stmt'[s].retain = retain
      BY <2>1 DEF TypeOK, NoStatement
    <3> QED
      BY <3>1, <3>2, <3>3 DEF Kept
  <2>3. UNCHANGED <<row, ledger, files>> /\ s \in files
    BY <1>5 DEF InsertUpload, Integrity, Deleters
  <2>4. CASE retain
    <3>1. Promised!Accept(s)
      BY <2>2, <2>3, <2>4 DEF Promised!Accept, Kept
    <3> QED
      BY <3>1 DEF Promised!PromiseNext
  <2>5. CASE ~retain
    BY <1>2, <2>2, <2>3, <2>5
  <2> QED
    BY <2>4, <2>5
<1>6. ASSUME NEW s \in Statements, s \notin Kept, files' = files \ {s},
             UNCHANGED <<row, ledger>>, Kept' = Kept
      PROVE  Promised!PromiseNext
  <2>1. Promised!Discard(s)
    BY <1>6 DEF Promised!Discard, Kept
  <2> QED
    BY <2>1 DEF Promised!PromiseNext
<1>7. ASSUME NEW s \in Statements, AbandonUpload(s)
      PROVE  Promised!PromiseNext
  BY <1>6, <1>7 DEF AbandonUpload, database, Kept, Integrity, Deleters
<1>8. ASSUME NEW c \in Confirmers, ConfirmDelete(c)
      PROVE  Promised!PromiseNext
  BY <1>6, <1>8 DEF ConfirmDelete, database, Kept, Integrity, Deleters, Deletable, Present
<1>9. CASE CleanupDelete
  BY <1>6, <1>9 DEF CleanupDelete, cleanupFrame, Kept, Integrity, Deleters, Deletable, Present
<1>10. CASE UNCHANGED vars
  BY <1>2, <1>10 DEF vars, Kept
<1>11. CASE /\ Next
            /\ ~ \E s \in Statements : StoreUpload(s) \/ InsertUpload(s) \/ AbandonUpload(s)
            /\ ~ \E c \in Confirmers : ConfirmCommit(c) \/ ConfirmDelete(c)
            /\ ~CleanupDelete
  <2>1. Kept' = Kept
    BY <1>11, KeptStep
  <2>2. UNCHANGED <<ledger, files>>
    BY <1>11, HandlerFrame
       DEF Next, RequestStep, EditStep, ConfirmStep, CleanupStep, SaveMapping, SelectSheet,
           QueueParse, SaveMappingAgain, SelectSheetAgain, Resend, SendJob, LoseSend,
           WebCrash, WorkerCrash, EditRead, EditWrite, EditRecount, EditPublish,
           ConfirmRead, ConfirmRows, ConfirmRollback, GrowOld, CleanupList, CleanupClaim,
           CleanupClear, CleanupDone, database, reviewFrame, cleanupFrame
  <2> QED
    BY <1>2, <2>1, <2>2
<1> QED
  BY <1>3, <1>4, <1>5, <1>7, <1>8, <1>9, <1>10, <1>11

\* Every behaviour of the pipeline is one its user was promised.
THEOREM PipelineKeepsPromise == Spec => ImplementsPromise
<1>1. Init => Promised!PromiseInit
  BY DEF Init, Promised!PromiseInit, NoStatement, Review, Candidate
<1>2. TypeOK /\ Integrity /\ EvidenceKept /\ [Next]_vars
      => [Promised!PromiseNext]_(Promised!promiseVars)
  BY PromiseStep
<1> QED
  BY <1>1, <1>2, ImportIntegrity, EvidenceNeverDeleted, PTL
     DEF Spec, ImplementsPromise, Promised!Promise
=============================================================================
