--------------------------- MODULE ExportLifecycle ---------------------------
(***************************************************************************)
(* The life of an export: requested and generated (ExportGeneration),      *)
(* downloaded or deleted by its owner, expired, and cleaned up by the      *)
(* hourly export.cleanup job, while processes crash.  The job removes the  *)
(* files of expired exports and fails the preparing rows nobody will       *)
(* finish (cleanupExpiredExports), then removes the objects no row refers  *)
(* to (reconcileOrphanExports).                                            *)
(***************************************************************************)
EXTENDS ExportGeneration

cleanupFrame == <<waiting, attempt, user, faults>>

------------------------------------------------------------------------------
(* Time.                                                                   *)

\* retentionHours after it became ready.
Expire(e) ==
    /\ export[e].status = "ready" /\ ~export[e].expired
    /\ export' = [export EXCEPT ![e].expired = TRUE]
    /\ UNCHANGED <<object, cleaner, cleanupFrame>>

\* Two hours after the request.
GrowStale(e) ==
    /\ export[e].status = "preparing" /\ ~export[e].stale
    /\ export' = [export EXCEPT ![e].stale = TRUE]
    /\ UNCHANGED <<object, cleaner, cleanupFrame>>

\* Two hours after the last write: an attempt writes until it finalizes, so it is
\* over by then.
GrowOld(k) ==
    /\ k \in Stored \ Held /\ ~object[k].old
    /\ object' = [object EXCEPT ![k].old = TRUE]
    /\ UNCHANGED <<export, cleaner, cleanupFrame>>

------------------------------------------------------------------------------
(* cleanupExpiredExports.                                                  *)

\* Mutant: the comparison of expiresAt is the wrong way round.
UnexpiredRow(e) == export[e].status = "ready" /\ ~export[e].expired /\ export[e].key # None

ExpiredRow(e) == export[e].status = "ready" /\ export[e].expired /\ export[e].key # None

ListExpired ==
    /\ cleaner.pc = "idle"
    /\ cleaner' = [cleaner EXCEPT
           !.pc = "expire",
           !.todo = {<<e, export[e].key>> : e \in {f \in Exports : ExpiredRow(f)}}]
    /\ UNCHANGED <<export, object, cleanupFrame>>

\* A missing file throws, and the row keeps its key.
RemoveExpired ==
    /\ cleaner.pc = "expire"
    /\ \E d \in cleaner.todo :
          /\ object' = Removed(d[2])
          /\ cleaner' = IF d[2] \in Stored
                        THEN [cleaner EXCEPT !.pc = "clear", !.todo = @ \ {d}, !.current = d]
                        ELSE [cleaner EXCEPT !.todo = @ \ {d}]
    /\ UNCHANGED <<export, cleanupFrame>>

ClearKey ==
    /\ cleaner.pc = "clear"
    /\ LET e == cleaner.current[1]
       IN export' = IF export[e].status = "ready" /\ export[e].key = cleaner.current[2]
                    THEN [export EXCEPT ![e].key = None]
                    ELSE export
    /\ cleaner' = [cleaner EXCEPT !.pc = "expire", !.current = None]
    /\ UNCHANGED <<object, cleanupFrame>>

ExpiredDone ==
    /\ cleaner.pc = "expire" /\ cleaner.todo = {}
    /\ cleaner' = [cleaner EXCEPT !.pc = "stale"]
    /\ UNCHANGED <<export, object, cleanupFrame>>

\* Mutant: the stale rows are not failed.
FailStaleNever ==
    /\ cleaner.pc = "stale"
    /\ cleaner' = [cleaner EXCEPT !.pc = "list"]
    /\ UNCHANGED <<export, object, cleanupFrame>>

FailStale ==
    /\ cleaner.pc = "stale"
    /\ export' = [e \in Exports |->
           IF export[e].status = "preparing" /\ export[e].stale
           THEN [export[e] EXCEPT !.status = "failed"] ELSE export[e]]
    /\ cleaner' = [cleaner EXCEPT !.pc = "list"]
    /\ UNCHANGED <<object, cleanupFrame>>

------------------------------------------------------------------------------
(* reconcileOrphanExports.                                                 *)

\* Mutant: the listing has no grace period.
ListedNow(k) == k \in Stored

\* An object that was stored before the grace period.
Listed(k) == k \in Stored /\ object[k].old

ListObjects ==
    /\ cleaner.pc = "list"
    /\ cleaner' = [cleaner EXCEPT !.pc = "refs", !.objects = {k \in Keys : Listed(k)}]
    /\ UNCHANGED <<export, object, cleanupFrame>>

\* Mutant: the referenced objects are kept from the next removal, not the others.
OrphansSwapped(ks) == ks \intersect Referenced

Orphans(ks) == ks \ Referenced

ReadReferences ==
    /\ cleaner.pc = "refs"
    /\ cleaner' = [cleaner EXCEPT !.pc = "remove", !.objects = Orphans(@)]
    /\ UNCHANGED <<export, object, cleanupFrame>>

RemoveOrphan ==
    /\ cleaner.pc = "remove"
    /\ \E k \in cleaner.objects :
          /\ object' = Removed(k)
          /\ cleaner' = [cleaner EXCEPT !.objects = @ \ {k}]
    /\ UNCHANGED <<export, cleanupFrame>>

CleanupDone ==
    /\ cleaner.pc = "remove" /\ cleaner.objects = {}
    /\ cleaner' = IdleCleaner
    /\ UNCHANGED <<export, object, cleanupFrame>>

CleanupStep ==
    \/ ListExpired \/ RemoveExpired \/ ClearKey \/ ExpiredDone \/ FailStale
    \/ ListObjects \/ ReadReferences \/ RemoveOrphan \/ CleanupDone

------------------------------------------------------------------------------
(* downloadExport and deleteExport.                                        *)

userFrame == <<waiting, attempt, cleaner, faults>>

\* Mutant: an expired export is still handed out.
DownloadableExpired(e) == export[e].status = "ready" /\ export[e].key # None

\* Anything but a ready, unexpired export with a file is refused.
Downloadable(e) == export[e].status = "ready" /\ ~export[e].expired /\ export[e].key # None

DownloadRead(u) ==
    /\ user[u].pc = "idle"
    /\ \E e \in Exports :
          /\ Downloadable(e)
          /\ user' = [user EXCEPT ![u] = [pc |-> "get", export |-> e, key |-> export[e].key,
                                          checksum |-> export[e].checksum]]
    /\ UNCHANGED <<export, object, userFrame>>

\* The bytes go to the user, or the object is missing and the download fails.
DownloadGet(u) ==
    /\ user[u].pc = "get"
    /\ user' = [user EXCEPT ![u] = IdleUser]
    /\ UNCHANGED <<export, object, userFrame>>

DeleteRead(u) ==
    /\ user[u].pc = "idle"
    /\ \E e \in Exports :
          /\ Exists(e)
          /\ user' = [user EXCEPT ![u] = [IdleUser EXCEPT !.pc = "deleteRow", !.export = e,
                                                          !.key = export[e].key]]
    /\ UNCHANGED <<export, object, userFrame>>

DeleteRow(u) ==
    /\ user[u].pc = "deleteRow"
    /\ export' = [export EXCEPT ![user[u].export] = [NoExport EXCEPT !.status = "deleted"]]
    /\ user' = [user EXCEPT ![u] = IF @.key = None THEN IdleUser
                                                   ELSE [@ EXCEPT !.pc = "deleteFile"]]
    /\ UNCHANGED <<object, userFrame>>

\* A failure is ignored: the row is already gone.
DeleteFile(u) ==
    /\ user[u].pc = "deleteFile"
    /\ object' \in {Removed(user[u].key), object}
    /\ user' = [user EXCEPT ![u] = IdleUser]
    /\ UNCHANGED <<export, userFrame>>

UserStep(u) ==
    DownloadRead(u) \/ DownloadGet(u) \/ DeleteRead(u) \/ DeleteRow(u) \/ DeleteFile(u)

------------------------------------------------------------------------------
(* Crashes.                                                                *)

\* What was generating is delivered again; the cleanup starts over next hour.
WorkerCrash ==
    /\ faults.worker < MaxWorkerCrashes
    /\ faults' = [faults EXCEPT !.worker = @ + 1]
    /\ waiting' = waiting \union
           UNION {Retry(attempt[h]) : h \in {g \in Handlers : attempt[g].pc # "idle"}}
    /\ attempt' = [a \in Attempters |-> IF a \in Handlers THEN IdleAttempt ELSE attempt[a]]
    /\ cleaner' = IdleCleaner
    /\ UNCHANGED <<export, object, user>>

\* Requests in flight are lost where they are.
WebCrash ==
    /\ faults.web < MaxWebCrashes
    /\ faults' = [faults EXCEPT !.web = @ + 1]
    /\ attempt' = [a \in Attempters |-> IF a \in Requesters THEN IdleAttempt ELSE attempt[a]]
    /\ user' = [u \in Users |-> IdleUser]
    /\ UNCHANGED <<export, object, waiting, cleaner>>

------------------------------------------------------------------------------

Next ==
    \/ \E a \in Attempters : CreationStep(a) \/ GenerationStep(a) \/ Overrun(a)
    \/ \E u \in Users : UserStep(u)
    \/ \E e \in Exports : Expire(e) \/ GrowStale(e)
    \/ \E k \in Keys : GrowOld(k)
    \/ CleanupStep
    \/ WorkerCrash \/ WebCrash

Spec == Init /\ [][Next]_vars

(***************************************************************************)
(* A live process keeps running: an attempt that reads, writes or          *)
(* finalizes comes to an end, pg-boss hands out what waits, the cleanup is *)
(* scheduled every hour and time passes.  Nobody need ask for an export,   *)
(* and a job that could not be sent may stay unsent.                       *)
(***************************************************************************)
Fairness ==
    /\ \A a \in Attempters : WF_vars(GenerationStep(a))
    /\ \A e \in Exports : WF_vars(Expire(e)) /\ WF_vars(GrowStale(e))
    /\ \A k \in Keys : WF_vars(GrowOld(k))
    /\ WF_vars(CleanupStep)

FairSpec == Spec /\ Fairness

------------------------------------------------------------------------------
(* Safety.                                                                 *)

\* A ready export that has not expired has its whole file, and the checksum of
\* the row is that of the stored bytes, though attempts overlap, cleanups and
\* deletions run concurrently and crashed attempts leave files behind.
ReadyMatches ==
    \A e \in Exports : export[e].status = "ready" /\ ~export[e].expired =>
        /\ export[e].key \in Stored
        /\ object[export[e].key].content = export[e].checksum
        /\ export[e].checksum # None

\* A download that has read the row gets the bytes the row described, or none: the
\* file is never another attempt's or half of one, even if the export expires or
\* is deleted meanwhile.
DownloadMatches ==
    \A u \in Users : user[u].pc = "get" /\ user[u].key \in Stored =>
        object[user[u].key].content = user[u].checksum

\* A published export is never published again and a failed one never published:
\* late attempts change neither its file nor its checksum.
PublishedOnce ==
    [][\A e \in Exports :
          /\ export[e].checksum # None /\ export'[e].status # "deleted" =>
                /\ export'[e].checksum = export[e].checksum
                /\ export'[e].key \in {export[e].key, None}
          /\ export[e].status = "failed" => export'[e].status # "ready"]_vars

\* No row, attempt or cleanup ever refers to a key that is another's to write or
\* to remove: the inductive part of the above.
Known ==
    /\ \A a \in Attempters : attempt[a].pc \notin {"idle", "insert"} \/ attempt[a].left > 0
                            => attempt[a].export \in Exports
    /\ \A u \in Users : user[u].pc # "idle" => user[u].export \in Exports
    /\ cleaner.pc = "clear" <=> cleaner.current # None

\* Nobody writes an object under the key, or will.
Released(k) == object[k].state # "unused" /\ \A a \in Attempters : attempt[a].key # k

Writing == {"open", "write", "finalize", "discard", "failRow", "discardLarge"}

AttemptKeys ==
    /\ \A a \in Attempters : attempt[a].key # None <=> attempt[a].pc \in Writing
    /\ \A a \in Attempters : attempt[a].key # None => object[attempt[a].key].state # "unused"
    /\ \A a, b \in Attempters : attempt[a].key # None /\ attempt[a].key = attempt[b].key => a = b
    /\ \A a \in Attempters : attempt[a].pc \in {"write", "finalize"} =>
          object[attempt[a].key].state = "stored"
    /\ \A a \in Attempters : attempt[a].pc = "finalize" =>
          /\ object[attempt[a].key].content = attempt[a].content
          /\ attempt[a].content # None

RowKeys ==
    /\ \A e \in Exports : export[e].status \in {"absent", "preparing", "deleted"}
                          => export[e].key = None /\ export[e].checksum = None
    /\ \A e \in Exports : export[e].key # None => Released(export[e].key)
    /\ \A e, f \in Exports : export[e].key # None /\ export[e].key = export[f].key => e = f

UserKeys ==
    \A u \in Users : user[u].key # None =>
        /\ Released(user[u].key)
        /\ user[u].pc = "get" => object[user[u].key].content = user[u].checksum
        /\ \A e \in Exports : export[e].key = user[u].key =>
              user[u].pc # "deleteFile" /\ (user[u].pc = "deleteRow" => e = user[u].export)

CleanerKeys ==
    /\ \A k \in Keys : object[k].old \/ k \in cleaner.objects => Released(k)
    /\ \A k \in cleaner.objects, e \in Exports : cleaner.pc = "remove" => export[e].key # k
    /\ \A d \in cleaner.todo \union ({cleaner.current} \ {None}) :
          /\ Released(d[2])
          /\ \A e \in Exports : export[e].key = d[2] => export[e].expired

KeyDiscipline == Known /\ AttemptKeys /\ RowKeys /\ UserKeys /\ CleanerKeys

Offers(e) ==
    export[e].status = "ready" /\ ~export[e].expired /\ export[e].key \in Stored

Gives(u) == user[u].pc = "get" /\ user[u].key \in Stored

Over(e) ==
    \/ export[e].status \in {"failed", "deleted"}
    \/ export[e].status = "ready" /\ export[e].expired

Promised == INSTANCE ExportPromise WITH
    Downloads <- Users,
    offered   <- [e \in Exports |-> IF Offers(e) THEN object[export[e].key].content ELSE None],
    over      <- {e \in Exports : Over(e)},
    given     <- [u \in Users |-> IF Gives(u) THEN object[user[u].key].content ELSE None]

\* To its owner an export offers one file, the same until it expires, fails or is
\* deleted, and never again; a download gives what was offered when it began, or
\* nothing, however many attempts, cleanups and deletions are at work.
LifecycleKeepsPromise == Promised!Promise

------------------------------------------------------------------------------
(* Liveness.                                                               *)

\* No export stays "preparing": it is published, or fails, or is deleted, even if
\* its job is never sent or runs out of retries.
PreparingSettles ==
    \A e \in Exports : export[e].status = "preparing" ~> export[e].status # "preparing"

\* A file no row refers to, left by a crash, a late attempt or a deletion, is
\* removed or comes to be referred to.
OrphansRemoved ==
    \A k \in Keys : k \in Stored \ Referenced ~> k \notin Stored \ Referenced

\* docs/export.md, retention: generated files expire after the retention hours.
FilesExpire ==
    \A e \in Exports, k \in Keys :
        export[e].key = k /\ k \in Stored ~> export[e].key # k \/ k \notin Stored

======================================================================
