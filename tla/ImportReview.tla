---------------------------- MODULE ImportReview ----------------------------
(***************************************************************************)
(* The user's review of the candidates and the confirmation that posts     *)
(* them to the ledger.  An edit runs outside any transaction; confirmation *)
(* runs in one, under read committed: each SELECT sees what is committed   *)
(* when it runs, and the guarded UPDATE is what serialises confirmations.  *)
(***************************************************************************)
EXTENDS ImportState

reviewFrame == <<job, files, uploads, queue, handler, cleaner, crashes>>

\* updateRawTransaction reads the row it is asked to edit.
EditRead(e, r) ==
    /\ editor[e].pc = "idle"
    /\ row[r].review \in Review
    /\ editor' = [editor EXCEPT ![e] =
                    [pc |-> "write", row |-> r, stmt |-> row[r].stmt, ready |-> FALSE]]
    /\ UNCHANGED <<stmt, row, ledger, confirmer, reviewFrame>>

\* exclude, restore, save or mark-reviewed: UPDATE by row id, which changes
\* nothing if a parse has replaced the row meanwhile.
EditWrite(e) ==
    /\ editor[e].pc = "write"
    /\ LET r == editor[e].row
       IN IF row[r].review \in Review
          THEN \E review \in {"excluded", "needs_review", "valid"} :
                  row' = [row EXCEPT ![r].review = review]
          ELSE UNCHANGED row
    /\ editor' = [editor EXCEPT ![e].pc = "recount"]
    /\ UNCHANGED <<stmt, ledger, confirmer, reviewFrame>>

\* Reads every row's review status back.
EditRecount(e) ==
    /\ editor[e].pc = "recount"
    /\ LET s == editor[e].stmt
       IN editor' = [editor EXCEPT ![e].pc = "publish",
                                   ![e].ready = RowsOf(s) # {} /\ Resolved(s)]
    /\ UNCHANGED <<stmt, row, ledger, confirmer, reviewFrame>>

\* Writes the statement's status, whatever it is by now.
EditPublish(e) ==
    /\ editor[e].pc = "publish"
    /\ stmt' = SetStatus(editor[e].stmt, IF editor[e].ready THEN "ready" ELSE "needs_review")
    /\ editor' = [editor EXCEPT ![e] = IdleEditor]
    /\ UNCHANGED <<row, ledger, confirmer, reviewFrame>>

------------------------------------------------------------------------------

\* The statement as confirmImport reads it; an imported one answers the request.
ConfirmRead(c, s) ==
    /\ confirmer[c].pc = "idle"
    /\ stmt[s].status \notin {"absent", "imported"}
    /\ stmt[s].source = "xlsx" =>
          /\ stmt[s].sheet # None /\ stmt[s].mapping # None
          /\ stmt[s].mapping.sheet = stmt[s].sheet
    /\ confirmer' = [confirmer EXCEPT ![c] = [pc |-> "rows", stmt |-> s, included |-> {}]]
    /\ UNCHANGED <<stmt, row, ledger, editor, reviewFrame>>

\* The rows; an unresolved one refuses the request.
ConfirmRows(c) ==
    /\ confirmer[c].pc = "rows"
    /\ LET s == confirmer[c].stmt
       IN IF Resolved(s)
          THEN confirmer' = [confirmer EXCEPT
                  ![c].pc = "commit",
                  ![c].included = {r \in RowsOf(s) : row[r].review = "valid"}]
          ELSE confirmer' = [confirmer EXCEPT ![c] = IdleConfirmer]
    /\ UNCHANGED <<stmt, row, ledger, editor, reviewFrame>>

\* Mutant: without transactions_source_raw_unique.
InsertableUnchecked(rs) == \A r \in rs : row[r].review \in Review

\* What the constraints of the transactions table allow to be inserted: a source
\* row that exists (transactions_owner_raw_fk) and is in no other transaction
\* (transactions_source_raw_unique).
Insertable(rs) == \A r \in rs : row[r].review \in Review /\ ledger[r] = 0

Posted(rs) == [r \in Rows |-> IF r \in rs THEN ledger[r] + 1 ELSE ledger[r]]

\* Mutant: retainOriginalFile is not asked.
DeletesAnyOriginal(s) == stmt[s].key

\* Whether a confirmed statement's original is deleted.
DeletesOriginal(s) == stmt[s].key /\ ~stmt[s].retain

\* The inserts, the guarded UPDATE from ready to imported, the commit.
ConfirmCommit(c) ==
    /\ confirmer[c].pc = "commit"
    /\ LET s == confirmer[c].stmt
       IN /\ stmt[s].status = "ready"
          /\ Insertable(confirmer[c].included)
          /\ ledger' = Posted(confirmer[c].included)
          /\ stmt' = SetStatus(s, "imported")
          /\ confirmer' = [confirmer EXCEPT ![c] =
                IF DeletesOriginal(s)
                THEN [pc |-> "delete", stmt |-> s, included |-> {}]
                ELSE IdleConfirmer]
    /\ UNCHANGED <<row, editor, reviewFrame>>

\* A constraint or the guard refuses: everything rolls back.
ConfirmRollback(c) ==
    /\ confirmer[c].pc = "commit"
    /\ \/ stmt[confirmer[c].stmt].status # "ready"
       \/ ~Insertable(confirmer[c].included)
    /\ confirmer' = [confirmer EXCEPT ![c] = IdleConfirmer]
    /\ UNCHANGED <<stmt, row, ledger, editor, reviewFrame>>

\* After the commit: the original is deleted; a missing file is not an error.
ConfirmDelete(c) ==
    /\ confirmer[c].pc = "delete"
    /\ files' = files \ {confirmer[c].stmt}
    /\ confirmer' = [confirmer EXCEPT ![c] = IdleConfirmer]
    /\ UNCHANGED <<database, uploads, queue, handler, cleaner, editor, crashes>>

EditStep(e) ==
    \/ \E r \in Rows : EditRead(e, r)
    \/ EditWrite(e) \/ EditRecount(e) \/ EditPublish(e)

ConfirmStep(c) ==
    \/ \E s \in Statements : ConfirmRead(c, s)
    \/ ConfirmRows(c) \/ ConfirmCommit(c) \/ ConfirmRollback(c) \/ ConfirmDelete(c)
==============================================================================
