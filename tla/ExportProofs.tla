---------------------------- MODULE ExportProofs ----------------------------
(***************************************************************************)
(* What the export life cycle guarantees for every number of exports,      *)
(* keys, attempts, users and crashes.  Types come first; then what one     *)
(* step may do to an attempt, an object, a row, a request and the cleanup  *)
(* (AttemptStep, ObjectStep, RowStep, UserMoves, CleanerMoves); then each  *)
(* conjunct of KeyDiscipline, which together with ReadyMatches is          *)
(* inductive; then the guarantees.                                         *)
(***************************************************************************)
EXTENDS ExportLifecycle, TLAPS

\* What an actor is when it is not at work, and a row that is gone.
LEMMA IdleTypes ==
    /\ IdleAttempt \in Attempt /\ IdleUser \in User /\ IdleCleaner \in Cleaner
    /\ NoExport \in Export /\ [NoExport EXCEPT !.status = "deleted"] \in Export
    /\ [NoExport EXCEPT !.status = "preparing"] \in Export
<1>1. 0 \in 0..RetryLimit
  BY ExportAssumption
<1> QED
  BY <1>1 DEF IdleAttempt, Attempt, AttemptPc, IdleUser, User, IdleCleaner, Cleaner,
              NoExport, Export

\* An attempt that goes on to another step of its code keeps its type.
LEMMA GotoType ==
    ASSUME TypeOK, NEW a \in Attempters, NEW pc \in AttemptPc, Goto(a, pc)
    PROVE  attempt' \in [Attempters -> Attempt]
  BY DEF TypeOK, Goto, Attempt

\* So does one that returns.
LEMMA ReturnType ==
    ASSUME TypeOK, NEW a \in Attempters, Return(a)
    PROVE  attempt' \in [Attempters -> Attempt]
  BY IdleTypes DEF TypeOK, Return

\* The retry of a delivery is a delivery.
LEMMA RetryType ==
    ASSUME TypeOK, Known, NEW a \in Attempters
    PROVE  Retry(attempt[a]) \subseteq Exports \X (0..RetryLimit)
<1>1. attempt[a].left \in Nat /\ attempt[a].left <= RetryLimit
  BY ExportAssumption DEF TypeOK, Attempt
<1>2. attempt[a].left > 0 => /\ attempt[a].left - 1 \in 0..RetryLimit
                             /\ attempt[a].export \in Exports
  BY <1>1, ExportAssumption DEF Known
<1> QED
  BY <1>2 DEF Retry

\* Removing an object, or failing to, keeps the types.
LEMMA RemovedType ==
    ASSUME TypeOK, NEW k
    PROVE  Removed(k) \in [Keys -> Object]
  BY DEF TypeOK, Removed, Object

\* Creation keeps the types.
LEMMA CreationTypes ==
    ASSUME TypeOK, Known, NEW a \in Attempters, CreationStep(a)
    PROVE  TypeOK'
<1> USE DEF generationFrame
<1>1. CASE CountPreparing(a)
  BY <1>1, GotoType DEF CountPreparing, AttemptPc, TypeOK
<1>2. CASE InsertExport(a)
  <2>1. export' \in [Exports -> Export]
    BY <1>2, IdleTypes DEF InsertExport, TypeOK
  <2>2. attempt' \in [Attempters -> Attempt]
    <3>1. PICK e \in Exports, next \in {"read", "send"} :
             attempt' = [attempt EXCEPT ![a].pc = next, ![a].export = e]
      BY <1>2 DEF InsertExport
    <3>2. next \in AttemptPc
      BY DEF AttemptPc
    <3> QED
      BY <3>1, <3>2, ZenonT(30) DEF TypeOK, Attempt
  <2> QED
    BY <1>2, <2>1, <2>2 DEF InsertExport, TypeOK
<1>3. CASE SendExport(a)
  <2>1. waiting' \subseteq Exports \X (0..RetryLimit)
    BY <1>3, ExportAssumption DEF SendExport, TypeOK, Known
  <2> QED
    BY <1>3, <2>1, ReturnType DEF SendExport, TypeOK
<1>4. CASE SendFails(a)
  BY <1>4, GotoType DEF SendFails, AttemptPc, TypeOK
<1>5. CASE DropExport(a)
  <2>1. export' \in [Exports -> Export]
    BY <1>5, IdleTypes DEF DropExport, TypeOK
  <2> QED
    BY <1>5, <2>1, ReturnType DEF DropExport, TypeOK
<1> QED
  BY <1>1, <1>2, <1>3, <1>4, <1>5 DEF CreationStep

\* So does generation.
LEMMA GenerationTypes ==
    ASSUME TypeOK, Known, AttemptKeys, NEW a \in Attempters, GenerationStep(a)
    PROVE  TypeOK'
<1> USE DEF generationFrame
<1>1. CASE TakeDelivery(a)
  <2>1. attempt' \in [Attempters -> Attempt]
    <3>1. PICK e \in Exports, left \in 0..RetryLimit :
             attempt' = [attempt EXCEPT ![a] =
                [IdleAttempt EXCEPT !.pc = "read", !.export = e, !.left = left]]
      BY <1>1 DEF TakeDelivery
    <3>2. [IdleAttempt EXCEPT !.pc = "read", !.export = e, !.left = left] \in Attempt
      BY DEF IdleAttempt, Attempt, AttemptPc
    <3> QED
      BY <3>1, <3>2 DEF TypeOK
  <2> QED
    BY <1>1, <2>1 DEF TakeDelivery, TypeOK
<1>2. CASE ReadSettled(a)
  BY <1>2, ReturnType DEF ReadSettled, TypeOK
<1>3. CASE ReadPreparing(a)
  <2>1. PICK k \in Keys :
           /\ object' = [object EXCEPT ![k].state = IF @ = "unused" THEN "drawn" ELSE @]
           /\ attempt' = [attempt EXCEPT ![a].pc = "open", ![a].key = k]
    BY <1>3 DEF ReadPreparing
  <2>2. attempt' \in [Attempters -> Attempt]
    <3>1. "open" \in AttemptPc
      BY DEF AttemptPc
    <3> QED
      BY <2>1, <3>1, ZenonT(30) DEF TypeOK, Attempt
  <2>3. object' \in [Keys -> Object]
    BY <2>1 DEF TypeOK, Object
  <2> QED
    BY <1>3, <2>2, <2>3 DEF ReadPreparing, TypeOK
<1>4. CASE OpenObject(a)
  <2>1. object' \in [Keys -> Object]
    BY <1>4 DEF OpenObject, TypeOK, Object
  <2> QED
    BY <1>4, <2>1, GotoType DEF OpenObject, AttemptPc, TypeOK
<1>5. CASE WriteObject(a)
  <2>1. PICK c \in Contents :
           /\ object' = [object EXCEPT ![attempt[a].key].content = c]
           /\ attempt' = [attempt EXCEPT ![a].pc = "finalize", ![a].content = c]
    BY <1>5 DEF WriteObject
  <2>2. attempt' \in [Attempters -> Attempt]
    <3>1. "finalize" \in AttemptPc
      BY DEF AttemptPc
    <3> QED
      BY <2>1, <3>1, ZenonT(30) DEF TypeOK, Attempt
  <2>3. object' \in [Keys -> Object]
    BY <2>1 DEF TypeOK, Object
  <2> QED
    BY <1>5, <2>2, <2>3 DEF WriteObject, TypeOK
<1>6. CASE Finalize(a)
  <2>1. attempt[a] \in Attempt
    BY DEF TypeOK
  <2>2. CASE Finalizable(attempt[a].export)
    <3>1. [status |-> "ready", key |-> attempt[a].key, checksum |-> attempt[a].content,
           expired |-> FALSE, stale |-> FALSE] \in Export
      BY <2>1 DEF Export, Attempt
    <3>2. export' \in [Exports -> Export]
      BY <1>6, <2>2, <3>1 DEF Finalize, TypeOK
    <3> QED
      BY <1>6, <2>2, <3>2, ReturnType DEF Finalize, TypeOK
  <2>3. CASE ~Finalizable(attempt[a].export)
    BY <1>6, <2>3, GotoType DEF Finalize, AttemptPc, TypeOK
  <2> QED
    BY <2>2, <2>3
<1>7. CASE Discard(a)
  BY <1>7, ReturnType, RemovedType DEF Discard, TypeOK
<1>8. CASE GenerationFails(a)
  BY <1>8, ReturnType, RetryType DEF GenerationFails, Rethrow, TypeOK
<1>9. CASE TooLarge(a)
  BY <1>9, GotoType DEF TooLarge, AttemptPc, TypeOK
<1>10. CASE FailRow(a)
  <2>1. export' \in [Exports -> Export]
    BY <1>10, ZenonT(30) DEF FailRow, TypeOK, Export
  <2> QED
    BY <1>10, <2>1, GotoType DEF FailRow, AttemptPc, TypeOK
<1>11. CASE DiscardLarge(a)
  BY <1>11, ReturnType, RetryType, RemovedType DEF DiscardLarge, Rethrow, TypeOK
<1> QED
  BY <1>1, <1>2, <1>3, <1>4, <1>5, <1>6, <1>7, <1>8, <1>9, <1>10, <1>11 DEF GenerationStep

\* So do downloads and deletions.
LEMMA UserTypes ==
    ASSUME TypeOK, Known, NEW u \in Users, UserStep(u)
    PROVE  TypeOK'
<1> USE DEF userFrame
<1>1. CASE DownloadRead(u)
  <2>1. user' \in [Users -> User]
    BY <1>1 DEF DownloadRead, TypeOK, User, Export
  <2> QED
    BY <1>1, <2>1 DEF DownloadRead, TypeOK
<1>2. CASE DownloadGet(u)
  BY <1>2, IdleTypes DEF DownloadGet, TypeOK
<1>3. CASE DeleteRead(u)
  <2>1. user' \in [Users -> User]
    <3>1. PICK e \in Exports :
             user' = [user EXCEPT ![u] = [IdleUser EXCEPT !.pc = "deleteRow", !.export = e,
                                                          !.key = export[e].key]]
      BY <1>3 DEF DeleteRead
    <3>2. export[e].key \in Keys \union {None}
      BY DEF TypeOK, Export
    <3>3. [IdleUser EXCEPT !.pc = "deleteRow", !.export = e, !.key = export[e].key] \in User
      BY <3>2 DEF IdleUser, User
    <3> QED
      BY <3>1, <3>3 DEF TypeOK
  <2> QED
    BY <1>3, <2>1 DEF DeleteRead, TypeOK
<1>4. CASE DeleteRow(u)
  <2>1. export' \in [Exports -> Export]
    BY <1>4, IdleTypes DEF DeleteRow, TypeOK
  <2>2. user' \in [Users -> User]
    BY <1>4, IdleTypes DEF DeleteRow, TypeOK, User
  <2> QED
    BY <1>4, <2>1, <2>2 DEF DeleteRow, TypeOK
<1>5. CASE DeleteFile(u)
  BY <1>5, IdleTypes, RemovedType DEF DeleteFile, TypeOK
<1> QED
  BY <1>1, <1>2, <1>3, <1>4, <1>5 DEF UserStep

\* So does the cleanup.
LEMMA CleanupTypes ==
    ASSUME TypeOK, CleanupStep
    PROVE  TypeOK'
<1> USE DEF cleanupFrame
<1>1. CASE ListExpired
  <2> DEFINE listed == {<<e, export[e].key>> : e \in {f \in Exports : ExpiredRow(f)}}
  <2>0. listed \subseteq Exports \X Keys
    BY DEF ExpiredRow, TypeOK, Export
  <2> HIDE DEF listed
  <2>1. cleaner' \in Cleaner
    <3>1. cleaner' = [cleaner EXCEPT !.pc = "expire", !.todo = listed]
      BY <1>1 DEF ListExpired, listed
    <3> QED
      BY <2>0, <3>1 DEF TypeOK, Cleaner
  <2> QED
    BY <1>1, <2>1 DEF ListExpired, TypeOK
<1>2. CASE RemoveExpired
  <2>1. cleaner' \in Cleaner
    <3>1. PICK d \in cleaner.todo :
             \/ cleaner' = [cleaner EXCEPT !.pc = "clear", !.todo = @ \ {d}, !.current = d]
             \/ cleaner' = [cleaner EXCEPT !.todo = @ \ {d}]
      BY <1>2 DEF RemoveExpired
    <3>2. cleaner.todo \ {d} \subseteq Exports \X Keys /\ d \in Exports \X Keys
      BY DEF TypeOK, Cleaner
    <3> QED
      BY <3>1, <3>2 DEF TypeOK, Cleaner
  <2> QED
    BY <1>2, <2>1, RemovedType DEF RemoveExpired, TypeOK
<1>3. CASE ClearKey
  <2>1. export' \in [Exports -> Export]
    <3>1. export' = export \/ export' = [export EXCEPT ![cleaner.current[1]].key = None]
      BY <1>3 DEF ClearKey
    <3> QED
      BY <3>1 DEF TypeOK, Export
  <2>2. cleaner' \in Cleaner
    BY <1>3 DEF ClearKey, TypeOK, Cleaner
  <2> QED
    BY <1>3, <2>1, <2>2 DEF ClearKey, TypeOK
<1>4. CASE FailStale
  <2>1. export' \in [Exports -> Export] /\ cleaner' \in Cleaner
    BY <1>4, SMTT(30) DEF FailStale, TypeOK, Cleaner, Export
  <2> QED
    BY <1>4, <2>1 DEF FailStale, TypeOK
<1>5. CASE ExpiredDone \/ ListObjects \/ ReadReferences
  <2>1. cleaner' \in Cleaner
    <3>1. {k \in Keys : Listed(k)} \subseteq Keys
      OBVIOUS
    <3>2. Orphans(cleaner.objects) \subseteq Keys
      BY DEF Orphans, TypeOK, Cleaner
    <3> QED
      BY <1>5, <3>1, <3>2 DEF ExpiredDone, ListObjects, ReadReferences, TypeOK, Cleaner
  <2> QED
    BY <1>5, <2>1 DEF ExpiredDone, ListObjects, ReadReferences, TypeOK
<1>6. CASE RemoveOrphan
  <2>1. cleaner' \in Cleaner
    BY <1>6 DEF RemoveOrphan, TypeOK, Cleaner
  <2> QED
    BY <1>6, <2>1, RemovedType DEF RemoveOrphan, TypeOK
<1>7. CASE CleanupDone
  BY <1>7, IdleTypes DEF CleanupDone, TypeOK
<1> QED
  BY <1>1, <1>2, <1>3, <1>4, <1>5, <1>6, <1>7 DEF CleanupStep

\* So do time, overruns and crashes.
LEMMA EnvironmentTypes ==
    ASSUME TypeOK, Known,
           \/ \E a \in Attempters : Overrun(a)
           \/ \E e \in Exports : Expire(e) \/ GrowStale(e)
           \/ \E k \in Keys : GrowOld(k)
           \/ WorkerCrash \/ WebCrash
    PROVE  TypeOK'
<1>1. ASSUME NEW a \in Attempters, Overrun(a)
      PROVE  TypeOK'
  <2>1. attempt' \in [Attempters -> Attempt]
    BY <1>1, ExportAssumption DEF Overrun, TypeOK, Attempt
  <2>2. faults' \in Faults
    BY <1>1, ExportAssumption DEF Overrun, TypeOK, Faults
  <2> QED
    BY <1>1, <2>1, <2>2, RetryType DEF Overrun, TypeOK
<1>2. ASSUME NEW e \in Exports, Expire(e) \/ GrowStale(e)
      PROVE  TypeOK'
  <2>1. export' \in [Exports -> Export]
    <3>1. export[e] \in Export
      BY DEF TypeOK
    <3>2. /\ [export[e] EXCEPT !.expired = TRUE] \in Export
          /\ [export[e] EXCEPT !.stale = TRUE] \in Export
      BY <3>1 DEF Export
    <3>3. \/ export' = [export EXCEPT ![e] = [export[e] EXCEPT !.expired = TRUE]]
          \/ export' = [export EXCEPT ![e] = [export[e] EXCEPT !.stale = TRUE]]
      BY <1>2 DEF Expire, GrowStale
    <3> QED
      BY <3>2, <3>3 DEF TypeOK
  <2> QED
    BY <1>2, <2>1 DEF Expire, GrowStale, TypeOK, cleanupFrame
<1>3. ASSUME NEW k \in Keys, GrowOld(k)
      PROVE  TypeOK'
  <2>1. object' \in [Keys -> Object]
    BY <1>3 DEF GrowOld, TypeOK, Object
  <2> QED
    BY <1>3, <2>1 DEF GrowOld, TypeOK, cleanupFrame
<1>4. CASE WorkerCrash
  <2>1. attempt' \in [Attempters -> Attempt]
    BY <1>4, IdleTypes DEF WorkerCrash, TypeOK
  <2>2. faults' \in Faults
    BY <1>4, ExportAssumption DEF WorkerCrash, TypeOK, Faults
  <2>3. waiting' \subseteq Exports \X (0..RetryLimit)
    BY <1>4, RetryType DEF WorkerCrash, TypeOK, Attempters
  <2> QED
    BY <1>4, <2>1, <2>2, <2>3, IdleTypes DEF WorkerCrash, TypeOK
<1>5. CASE WebCrash
  <2>1. attempt' \in [Attempters -> Attempt] /\ user' \in [Users -> User]
    BY <1>5, IdleTypes DEF WebCrash, TypeOK
  <2>2. faults' \in Faults
    BY <1>5, ExportAssumption DEF WebCrash, TypeOK, Faults
  <2> QED
    BY <1>5, <2>1, <2>2 DEF WebCrash, TypeOK
<1> QED
  BY <1>1, <1>2, <1>3, <1>4, <1>5

\* Every step keeps the types.
LEMMA TypesKept ==
    ASSUME TypeOK, KeyDiscipline, [Next]_vars
    PROVE  TypeOK'
<1>1. CASE UNCHANGED vars
  BY <1>1 DEF vars, TypeOK
<1>2. CASE Next
  BY <1>2, CreationTypes, GenerationTypes, UserTypes, CleanupTypes, EnvironmentTypes
     DEF Next, KeyDiscipline
<1> QED
  BY <1>1, <1>2
------------------------------------------------------------------------------
(* What one step may do to a row, an attempt and an object.                *)

\* A key is drawn once: only ReadPreparing gives an attempt a key it did not hold.
LEMMA AttemptStep ==
    ASSUME TypeOK, KeyDiscipline, [Next]_vars, NEW a \in Attempters
    PROVE  \/ attempt'[a].key \in {attempt[a].key, None}
           \/ ReadPreparing(a)
<1>1. CASE UNCHANGED attempt
  BY <1>1
<1>2. ASSUME NEW b \in Attempters, NEW pc \in AttemptPc, Goto(b, pc)
      PROVE  attempt'[a].key = attempt[a].key
  BY <1>2 DEF Goto, TypeOK, Attempt
<1>3. ASSUME NEW b \in Attempters, Return(b)
      PROVE  attempt'[a].key \in {attempt[a].key, None}
  BY <1>3 DEF Return, IdleAttempt, TypeOK, Attempt
<1>4. ASSUME NEW b \in Attempters, CreationStep(b) \/ GenerationStep(b) \/ Overrun(b)
      PROVE  attempt'[a].key \in {attempt[a].key, None} \/ ReadPreparing(a)
  <2>1. CASE InsertExport(b)
    BY <2>1 DEF InsertExport, TypeOK, Attempt
  <2>2. CASE TakeDelivery(b)
    BY <2>2 DEF TakeDelivery, IdleAttempt, TypeOK, Attempt
  <2>3. CASE ReadPreparing(b)
    BY <2>3 DEF ReadPreparing, TypeOK, Attempt
  <2>4. CASE WriteObject(b)
    BY <2>4 DEF WriteObject, TypeOK, Attempt
  <2>5. CASE Overrun(b)
    BY <2>5 DEF Overrun, TypeOK, Attempt
  <2> QED
    BY <1>2, <1>3, <1>4, <2>1, <2>2, <2>3, <2>4, <2>5
       DEF CreationStep, GenerationStep, CountPreparing, SendExport, SendFails, DropExport,
           ReadSettled, OpenObject, Finalize, Discard, GenerationFails, TooLarge, FailRow,
           DiscardLarge, Rethrow, AttemptPc
<1>5. CASE WorkerCrash \/ WebCrash
  BY <1>5 DEF WorkerCrash, WebCrash, IdleAttempt, TypeOK
<1> QED
  BY <1>1, <1>4, <1>5
     DEF Next, vars, UserStep, DownloadRead, DownloadGet, DeleteRead, DeleteRow, DeleteFile,
         userFrame, CleanupStep, ListExpired, RemoveExpired, ClearKey, ExpiredDone,
         FailStale, ListObjects, ReadReferences, RemoveOrphan, CleanupDone, Expire,
         GrowStale, GrowOld, cleanupFrame

\* Only the holder of a key writes under it; what the owner or the cleanup removes
\* nobody writes, and no row that still serves it refers to it.
Same(k) == object'[k] = object[k]
Drawn(k) ==
    /\ object[k].state = "unused" /\ object'[k] = [object[k] EXCEPT !.state = "drawn"]
    /\ \E a \in Attempters : ReadPreparing(a) /\ attempt'[a].key = k
Written(k) ==
    \E a \in Attempters :
        /\ attempt[a].key = k
        /\ \/ OpenObject(a) /\ object'[k] = [state |-> "stored", content |-> None, old |-> FALSE]
           \/ /\ WriteObject(a)
              /\ object'[k].state = object[k].state /\ object'[k].old = object[k].old
           \/ (Discard(a) \/ DiscardLarge(a)) /\ object'[k] = [object[k] EXCEPT !.state = "removed"]
Disposed(k) ==
    /\ Released(k) /\ object'[k] = [object[k] EXCEPT !.state = "removed"]
    /\ \A e \in Exports : export[e].key = k => export[e].expired
    /\ UNCHANGED <<export, attempt>>
Aged(k) ==
    Released(k) /\ object'[k] = [object[k] EXCEPT !.old = TRUE] /\ UNCHANGED <<export, attempt>>

\* storage.delete removes one object that is stored, or nothing.
LEMMA RemovedObject ==
    ASSUME TypeOK, NEW k \in Keys, NEW l, object' = Removed(l)
    PROVE  Same(k) \/ (k = l /\ object'[k] = [object[k] EXCEPT !.state = "removed"])
  BY DEF TypeOK, Removed, Object, Same

\* What a step may do to an object.
LEMMA ObjectStep ==
    ASSUME TypeOK, KeyDiscipline, [Next]_vars, NEW k \in Keys
    PROVE  Same(k) \/ Drawn(k) \/ Written(k) \/ Disposed(k) \/ Aged(k)
<1>1. ASSUME UNCHANGED object
      PROVE  Same(k)
  BY <1>1 DEF Same
<1>2. ASSUME NEW a \in Attempters, ReadPreparing(a)
      PROVE  Same(k) \/ Drawn(k)
  <2>1. PICK l \in Keys :
           /\ FreshKey(l)
           /\ object' = [object EXCEPT ![l].state = IF @ = "unused" THEN "drawn" ELSE @]
           /\ attempt' = [attempt EXCEPT ![a].pc = "open", ![a].key = l]
    BY <1>2 DEF ReadPreparing
  <2>2. attempt'[a].key = l
    BY <2>1 DEF TypeOK, Attempt
  <2> QED
    BY <1>2, <2>1, <2>2 DEF FreshKey, TypeOK, Object, Same, Drawn
<1>3. ASSUME NEW a \in Attempters, OpenObject(a)
      PROVE  Same(k) \/ Written(k)
  BY <1>3 DEF OpenObject, TypeOK, Object, Same, Written
<1>4. ASSUME NEW a \in Attempters, WriteObject(a)
      PROVE  Same(k) \/ Written(k)
  <2>1. PICK c \in Contents : object' = [object EXCEPT ![attempt[a].key].content = c]
    BY <1>4 DEF WriteObject
  <2> QED
    BY <1>4, <2>1 DEF TypeOK, Object, Same, Written
<1>5. ASSUME NEW a \in Attempters, Discard(a) \/ DiscardLarge(a)
      PROVE  Same(k) \/ Written(k)
  BY <1>1, <1>5, RemovedObject DEF Discard, DiscardLarge, Same, Written
<1>6. ASSUME NEW u \in Users, DeleteFile(u)
      PROVE  Same(k) \/ Disposed(k)
  <2>1. user[u].key = k => Released(k) /\ \A e \in Exports : export[e].key # k
    BY <1>6, ExportAssumption DEF DeleteFile, KeyDiscipline, UserKeys
  <2> QED
    BY <1>1, <1>6, <2>1, RemovedObject DEF DeleteFile, userFrame, Disposed
<1>7. CASE RemoveExpired
  <2>1. PICK d \in cleaner.todo : object' = Removed(d[2])
    BY <1>7 DEF RemoveExpired
  <2>2. Released(d[2]) /\ \A e \in Exports : export[e].key = d[2] => export[e].expired
    BY DEF KeyDiscipline, CleanerKeys
  <2> QED
    BY <1>7, <2>1, <2>2, RemovedObject DEF RemoveExpired, cleanupFrame, Disposed
<1>8. CASE RemoveOrphan
  <2>1. PICK l \in cleaner.objects : object' = Removed(l)
    BY <1>8 DEF RemoveOrphan
  <2>2. Released(l) /\ \A e \in Exports : export[e].key # l
    BY <1>8 DEF RemoveOrphan, KeyDiscipline, CleanerKeys, TypeOK, Cleaner
  <2> QED
    BY <1>8, <2>1, <2>2, RemovedObject DEF RemoveOrphan, cleanupFrame, Disposed
<1>9. ASSUME NEW l \in Keys, GrowOld(l)
      PROVE  Same(k) \/ Aged(k)
  <2>1. Released(l) /\ object' = [object EXCEPT ![l].old = TRUE]
    BY <1>9, ExportAssumption DEF GrowOld, Stored, Held, Released
  <2> QED
    BY <1>9, <2>1 DEF GrowOld, cleanupFrame, TypeOK, Object, Same, Aged
<1> QED
  BY <1>1, <1>2, <1>3, <1>4, <1>5, <1>6, <1>7, <1>8, <1>9
     DEF Next, vars, CreationStep, CountPreparing, InsertExport, SendExport, SendFails,
         DropExport, GenerationStep, TakeDelivery, ReadSettled, Finalize, GenerationFails,
         TooLarge, FailRow, Overrun, UserStep, DownloadRead, DownloadGet, DeleteRead,
         DeleteRow, CleanupStep, ListExpired, ClearKey, ExpiredDone, FailStale, ListObjects,
         ReadReferences, CleanupDone, Expire, GrowStale, WorkerCrash, WebCrash,
         generationFrame, userFrame, cleanupFrame

\* What a step may do to a row.
Kept(e) ==
    /\ export'[e].status = export[e].status /\ export'[e].key = export[e].key
    /\ export'[e].checksum = export[e].checksum
    /\ export[e].expired => export'[e].expired
Emptied(e) ==
    /\ export'[e].status \in {"preparing", "deleted"}
    /\ export'[e].key = None /\ export'[e].checksum = None
    /\ export'[e].status = "preparing" => export[e].status = "absent"
Published(e) ==
    \E a \in Attempters :
        /\ Finalize(a) /\ export[e].status = "preparing" /\ attempt[a].pc = "finalize"
        /\ export'[e].status = "ready" /\ export'[e].key = attempt[a].key
        /\ export'[e].checksum = attempt[a].content
        /\ attempt'[a].key = None /\ UNCHANGED object
        /\ \A f \in Exports : f # e => export'[f] = export[f]
Failed(e) ==
    /\ Exists(e) /\ export'[e].status = "failed" /\ export'[e].key = export[e].key
    /\ export'[e].checksum = export[e].checksum /\ export'[e].expired = export[e].expired
Cleared(e) ==
    /\ export[e].status = "ready" /\ export[e].expired
    /\ export'[e] = [export[e] EXCEPT !.key = None]

\* A step keeps a row, empties it, publishes it, fails it or clears its key.
LEMMA RowStep ==
    ASSUME TypeOK, KeyDiscipline, [Next]_vars, NEW e \in Exports
    PROVE  Kept(e) \/ Emptied(e) \/ Published(e) \/ Failed(e) \/ Cleared(e)
<1>1. ASSUME UNCHANGED export
      PROVE  Kept(e)
  BY <1>1 DEF Kept
<1>2. ASSUME NEW a \in Attempters, InsertExport(a)
      PROVE  Kept(e) \/ Emptied(e)
  <2>1. PICK f \in Exports :
           /\ export[f].status = "absent"
           /\ export' = [export EXCEPT ![f] = [NoExport EXCEPT !.status = "preparing"]]
    BY <1>2 DEF InsertExport
  <2> QED
    BY <2>1 DEF TypeOK, NoExport, Kept, Emptied
<1>3. ASSUME NEW f \in Exports,
             export' = [export EXCEPT ![f] = [NoExport EXCEPT !.status = "deleted"]]
      PROVE  Kept(e) \/ Emptied(e)
  BY <1>3 DEF TypeOK, NoExport, Kept, Emptied
<1>4. ASSUME NEW a \in Attempters, DropExport(a)
      PROVE  Kept(e) \/ Emptied(e)
  BY <1>3, <1>4 DEF DropExport, KeyDiscipline, Known
<1>5. ASSUME NEW u \in Users, DeleteRow(u)
      PROVE  Kept(e) \/ Emptied(e)
  BY <1>3, <1>5 DEF DeleteRow, KeyDiscipline, Known
<1>6. ASSUME NEW a \in Attempters, Finalize(a)
      PROVE  Kept(e) \/ Published(e)
  <2>1. CASE ~Finalizable(attempt[a].export)
    BY <1>1, <1>6, <2>1 DEF Finalize
  <2>2. CASE Finalizable(attempt[a].export)
    <3>1. /\ export' = [export EXCEPT ![attempt[a].export] =
                 [status |-> "ready", key |-> attempt[a].key,
                  checksum |-> attempt[a].content, expired |-> FALSE, stale |-> FALSE]]
          /\ Return(a) /\ UNCHANGED object /\ attempt[a].pc = "finalize"
      BY <1>6, <2>2 DEF Finalize
    <3>2. attempt'[a].key = None
      BY <3>1 DEF Return, IdleAttempt, TypeOK
    <3>3. CASE e # attempt[a].export
      BY <3>1, <3>3 DEF TypeOK, Kept
    <3>4. CASE e = attempt[a].export
      BY <1>6, <2>2, <3>1, <3>2, <3>4 DEF Finalizable, TypeOK, Published
    <3> QED
      BY <3>3, <3>4
  <2> QED
    BY <2>1, <2>2
<1>7. ASSUME NEW a \in Attempters, FailRow(a)
      PROVE  Kept(e) \/ Failed(e)
  <2>1. \/ export' = export
        \/ Exists(attempt[a].export)
           /\ export' = [export EXCEPT ![attempt[a].export].status = "failed"]
    BY <1>7 DEF FailRow
  <2> QED
    BY <2>1 DEF TypeOK, Export, Kept, Failed
<1>8. CASE FailStale
  BY <1>8 DEF FailStale, TypeOK, Export, Exists, Kept, Failed
<1>9. CASE ClearKey
  <2>1. CASE /\ export[cleaner.current[1]].status = "ready"
             /\ export[cleaner.current[1]].key = cleaner.current[2]
             /\ export' = [export EXCEPT ![cleaner.current[1]].key = None]
    <3>1. cleaner.current # None /\ cleaner.current \in Exports \X Keys
      BY <1>9 DEF ClearKey, KeyDiscipline, Known, TypeOK, Cleaner
    <3>2. export[cleaner.current[1]].expired
      BY <2>1, <3>1 DEF KeyDiscipline, CleanerKeys
    <3> QED
      BY <2>1, <3>1, <3>2 DEF TypeOK, Export, Kept, Cleared
  <2> QED
    BY <1>1, <1>9, <2>1 DEF ClearKey
<1>10. ASSUME NEW f \in Exports, Expire(f) \/ GrowStale(f)
       PROVE  Kept(e)
  <2>1. \/ export' = [export EXCEPT ![f].expired = TRUE]
        \/ export' = [export EXCEPT ![f].stale = TRUE]
    BY <1>10 DEF Expire, GrowStale
  <2> QED
    BY <2>1 DEF TypeOK, Export, Kept
<1> QED
  BY <1>1, <1>2, <1>4, <1>5, <1>6, <1>7, <1>8, <1>9, <1>10
     DEF Next, vars, CreationStep, CountPreparing, SendExport, SendFails, GenerationStep,
         TakeDelivery, ReadSettled, ReadPreparing, OpenObject, WriteObject, Discard,
         GenerationFails, TooLarge, DiscardLarge, Overrun, UserStep, DownloadRead,
         DownloadGet, DeleteRead, DeleteFile, CleanupStep, ListExpired, RemoveExpired,
         ExpiredDone, ListObjects, ReadReferences, RemoveOrphan, CleanupDone, GrowOld,
         WorkerCrash, WebCrash, generationFrame, userFrame, cleanupFrame
\* The key an attempt draws is unused until then, and no other attempt moves.
LEMMA ReadStep ==
    ASSUME TypeOK, KeyDiscipline, NEW a \in Attempters, ReadPreparing(a)
    PROVE  /\ attempt'[a].key \in Keys /\ object[attempt'[a].key].state = "unused"
           /\ attempt'[a].pc = "open" /\ attempt'[a].export \in Exports
           /\ object'[attempt'[a].key].state = "drawn"
           /\ \A b \in Attempters : b # a => attempt'[b] = attempt[b]
<1>1. PICK l \in Keys :
         /\ FreshKey(l)
         /\ object' = [object EXCEPT ![l].state = IF @ = "unused" THEN "drawn" ELSE @]
         /\ attempt' = [attempt EXCEPT ![a].pc = "open", ![a].key = l]
  BY DEF ReadPreparing
<1>2. /\ attempt'[a].key = l /\ attempt'[a].pc = "open"
      /\ attempt'[a].export = attempt[a].export
      /\ \A b \in Attempters : b # a => attempt'[b] = attempt[b]
  BY <1>1 DEF TypeOK, Attempt
<1>3. object[l].state = "unused" /\ object'[l].state = "drawn"
  BY <1>1 DEF FreshKey, TypeOK, Object
<1>4. attempt[a].export \in Exports
  BY DEF ReadPreparing, KeyDiscipline, Known
<1> QED
  BY <1>2, <1>3, <1>4

\* A released key stays released, and its bytes stay what they are.
LEMMA ReleasedKept ==
    ASSUME TypeOK, KeyDiscipline, [Next]_vars, NEW k \in Keys, Released(k)
    PROVE  Released(k)' /\ object'[k].content = object[k].content
<1>1. object[k] \in Object
  BY DEF TypeOK
<1>2. ~Written(k) /\ ~Drawn(k)
  BY DEF Written, Drawn, Released
<1>3. object'[k].state # "unused" /\ object'[k].content = object[k].content
  <2>1. CASE Same(k)
    BY <2>1 DEF Same, Released
  <2>2. CASE Disposed(k)
    BY <1>1, <2>2 DEF Disposed, Object
  <2>3. CASE Aged(k)
    BY <1>1, <2>3 DEF Aged, Released, Object
  <2> QED
    BY <1>2, <2>1, <2>2, <2>3, ObjectStep
<1>4. ASSUME NEW a \in Attempters
      PROVE  attempt'[a].key # k
  BY AttemptStep, ReadStep, ExportAssumption DEF Released
<1> QED
  BY <1>3, <1>4 DEF Released

\* An attempt at work refers to an export and, while it writes, to a key.
Placed(d) ==
    /\ d.key # None <=> d.pc \in Writing
    /\ d.pc \notin {"idle", "insert"} \/ d.left > 0 => d.export \in Exports

\* Every step leaves every attempt so placed.
LEMMA PlacedStep ==
    ASSUME TypeOK, KeyDiscipline, [Next]_vars, NEW a \in Attempters
    PROVE  Placed(attempt'[a])
<1>1. attempt[a] \in Attempt /\ Placed(attempt[a])
  BY DEF TypeOK, Placed, KeyDiscipline, Known, AttemptKeys
<1>2. Placed(IdleAttempt)
  BY DEF Placed, IdleAttempt, Writing
<1>3. ASSUME NEW b \in Attempters, NEW pc, Goto(b, pc),
             attempt[b].pc \in Writing <=> pc \in Writing,
             attempt[b].pc \in {"idle", "insert"} => pc \in {"idle", "insert"}
      PROVE  Placed(attempt'[a])
  BY <1>1, <1>3 DEF Goto, Placed, TypeOK, Attempt
<1>4. ASSUME NEW b \in Attempters, Return(b)
      PROVE  Placed(attempt'[a])
  BY <1>1, <1>2, <1>4 DEF Return, TypeOK
<1>5. ASSUME NEW b \in Attempters, InsertExport(b)
      PROVE  Placed(attempt'[a])
  <2>1. PICK e \in Exports, next \in {"read", "send"} :
           attempt' = [attempt EXCEPT ![b].pc = next, ![b].export = e]
    BY <1>5 DEF InsertExport
  <2>2. attempt[b].pc = "insert" /\ next \notin Writing
    BY <1>5 DEF InsertExport, Writing
  <2> QED
    BY <1>1, <2>1, <2>2 DEF Placed, TypeOK, Attempt, Writing
<1>6. ASSUME NEW b \in Attempters, TakeDelivery(b)
      PROVE  Placed(attempt'[a])
  <2>1. PICK e \in Exports, left \in 0..RetryLimit :
           attempt' = [attempt EXCEPT ![b] =
              [IdleAttempt EXCEPT !.pc = "read", !.export = e, !.left = left]]
    BY <1>6 DEF TakeDelivery
  <2> QED
    BY <1>1, <2>1 DEF Placed, TypeOK, IdleAttempt, Writing
<1>7. ASSUME NEW b \in Attempters, ReadPreparing(b)
      PROVE  Placed(attempt'[a])
  BY <1>1, <1>7, ReadStep, ExportAssumption DEF Placed, Writing
<1>8. ASSUME NEW b \in Attempters, WriteObject(b)
      PROVE  Placed(attempt'[a])
  <2>1. PICK c \in Contents : attempt' = [attempt EXCEPT ![b].pc = "finalize", ![b].content = c]
    BY <1>8 DEF WriteObject
  <2>2. attempt[b].pc = "write"
    BY <1>8 DEF WriteObject
  <2> QED
    BY <1>1, <2>1, <2>2 DEF Placed, TypeOK, Attempt, Writing
<1>9. ASSUME NEW b \in Attempters, Overrun(b)
      PROVE  Placed(attempt'[a])
  BY <1>1, <1>9 DEF Overrun, Placed, TypeOK, Attempt
<1>10. CASE UNCHANGED attempt
  BY <1>1, <1>10
<1>11. CASE WorkerCrash \/ WebCrash
  BY <1>1, <1>2, <1>11 DEF WorkerCrash, WebCrash
<1>12. ASSUME NEW b \in Attempters, CreationStep(b) \/ GenerationStep(b)
       PROVE  Placed(attempt'[a])
  <2>1. CASE CountPreparing(b) \/ SendFails(b) \/ OpenObject(b) \/ TooLarge(b) \/ FailRow(b)
    BY <1>3, <2>1 DEF CountPreparing, SendFails, OpenObject, TooLarge, FailRow, Writing
  <2>2. CASE Finalize(b)
    BY <1>3, <1>4, <2>2 DEF Finalize, Writing
  <2>3. CASE \/ SendExport(b) \/ DropExport(b) \/ ReadSettled(b) \/ Discard(b)
             \/ GenerationFails(b) \/ DiscardLarge(b)
    BY <1>4, <2>3 DEF SendExport, DropExport, ReadSettled, Discard, GenerationFails,
                      DiscardLarge, Rethrow
  <2> QED
    BY <1>5, <1>6, <1>7, <1>8, <1>12, <2>1, <2>2, <2>3 DEF CreationStep, GenerationStep
<1> QED
  BY <1>9, <1>10, <1>11, <1>12
     DEF Next, vars, UserStep, DownloadRead, DownloadGet, DeleteRead, DeleteRow, DeleteFile,
         userFrame, CleanupStep, ListExpired, RemoveExpired, ClearKey, ExpiredDone,
         FailStale, ListObjects, ReadReferences, RemoveOrphan, CleanupDone, Expire,
         GrowStale, GrowOld, cleanupFrame

\* An attempt comes to write by opening its object, and to its finalizing update by
\* writing the last byte.
LEMMA StoringStep ==
    ASSUME TypeOK, KeyDiscipline, [Next]_vars, NEW a \in Attempters,
           attempt'[a].pc \in {"write", "finalize"}
    PROVE  \/ OpenObject(a) /\ attempt'[a].pc = "write"
           \/ WriteObject(a)
           \/ /\ attempt[a].pc = attempt'[a].pc /\ attempt'[a].key = attempt[a].key
              /\ attempt'[a].content = attempt[a].content
<1>1. attempt[a] \in Attempt
  BY DEF TypeOK
<1>2. ASSUME NEW b \in Attempters, CreationStep(b) \/ GenerationStep(b), a # b
      PROVE  attempt'[a] = attempt[a]
  BY <1>2, ReadStep
     DEF CreationStep, GenerationStep, CountPreparing, InsertExport, SendExport, SendFails,
         DropExport, TakeDelivery, ReadSettled, OpenObject, WriteObject,
         Finalize, Discard, GenerationFails, TooLarge, FailRow, DiscardLarge, Rethrow,
         Goto, Return, TypeOK
<1>3. ASSUME CreationStep(a) \/ GenerationStep(a)
      PROVE  (OpenObject(a) /\ attempt'[a].pc = "write") \/ WriteObject(a)
  <2>0. CASE OpenObject(a)
    BY <2>0 DEF OpenObject, Goto, TypeOK, Attempt
  <2>1. ASSUME NEW pc \in AttemptPc \ {"write", "finalize"}, Goto(a, pc)
        PROVE  FALSE
    BY <2>1 DEF Goto, TypeOK, Attempt
  <2>2. ASSUME Return(a)
        PROVE  FALSE
    BY <2>2 DEF Return, IdleAttempt, TypeOK
  <2>3. ~InsertExport(a) /\ ~TakeDelivery(a)
    BY ZenonT(30) DEF InsertExport, TakeDelivery, IdleAttempt, TypeOK, Attempt
  <2>4. ~ReadPreparing(a)
    BY ReadStep
  <2> QED
    BY <1>3, <2>0, <2>1, <2>2, <2>3, <2>4
       DEF CreationStep, GenerationStep, CountPreparing, SendExport, SendFails, DropExport,
           ReadSettled, Finalize, Discard, GenerationFails, TooLarge, FailRow,
           DiscardLarge, Rethrow, AttemptPc
<1>4. ASSUME NEW b \in Attempters, Overrun(b)
      PROVE  /\ attempt[a].pc = attempt'[a].pc /\ attempt'[a].key = attempt[a].key
             /\ attempt'[a].content = attempt[a].content
  BY <1>1, <1>4 DEF Overrun, TypeOK, Attempt
<1>5. CASE UNCHANGED attempt
  BY <1>5
<1>6. CASE WorkerCrash \/ WebCrash
  BY <1>6 DEF WorkerCrash, WebCrash, IdleAttempt
<1> QED
  BY <1>2, <1>3, <1>4, <1>5, <1>6
     DEF Next, vars, UserStep, DownloadRead, DownloadGet, DeleteRead, DeleteRow, DeleteFile,
         userFrame, CleanupStep, ListExpired, RemoveExpired, ClearKey, ExpiredDone,
         FailStale, ListObjects, ReadReferences, RemoveOrphan, CleanupDone, Expire,
         GrowStale, GrowOld, cleanupFrame

------------------------------------------------------------------------------
(* The conjuncts of KeyDiscipline.                                         *)

\* What a request or a delivery refers to is there, and stays.
LEMMA KnownKept ==
    ASSUME TypeOK, KeyDiscipline, [Next]_vars
    PROVE  Known'
<1>1. ASSUME NEW a \in Attempters
      PROVE  attempt'[a].pc \notin {"idle", "insert"} \/ attempt'[a].left > 0
             => attempt'[a].export \in Exports
  BY PlacedStep DEF Placed
<1>2. ASSUME NEW u \in Users
      PROVE  user'[u].pc # "idle" => user'[u].export \in Exports
  <2>1. ASSUME NEW v \in Users, UserStep(v)
        PROVE  user'[u].pc # "idle" => user'[u].export \in Exports
    <3>1. user[u].pc # "idle" => user[u].export \in Exports
      BY DEF KeyDiscipline, Known
    <3>2. CASE DownloadRead(v)
      BY <3>1, <3>2 DEF DownloadRead, TypeOK
    <3>3. CASE DownloadGet(v) \/ DeleteFile(v)
      BY <3>1, <3>3 DEF DownloadGet, DeleteFile, IdleUser, TypeOK
    <3>4. CASE DeleteRead(v)
      <4>1. PICK e \in Exports :
               user' = [user EXCEPT ![v] = [IdleUser EXCEPT !.pc = "deleteRow", !.export = e,
                                                            !.key = export[e].key]]
        BY <3>4 DEF DeleteRead
      <4> QED
        BY <3>1, <4>1 DEF IdleUser, TypeOK
    <3>5. CASE DeleteRow(v)
      <4>1. \/ user' = [user EXCEPT ![v] = IdleUser]
            \/ user' = [user EXCEPT ![v] = [@ EXCEPT !.pc = "deleteFile"]]
        BY <3>5 DEF DeleteRow
      <4>2. user[v].pc = "deleteRow"
        BY <3>5 DEF DeleteRow
      <4> QED
        BY <3>1, <4>1, <4>2 DEF IdleUser, TypeOK, User
    <3> QED
      BY <2>1, <3>2, <3>3, <3>4, <3>5 DEF UserStep
  <2>2. CASE UNCHANGED user
    BY <2>2 DEF KeyDiscipline, Known
  <2>3. CASE WebCrash
    BY <2>3 DEF WebCrash, IdleUser
  <2> QED
    BY <2>1, <2>2, <2>3
       DEF Next, vars, CreationStep, CountPreparing, InsertExport, SendExport, SendFails,
           DropExport, GenerationStep, TakeDelivery, ReadSettled, ReadPreparing, OpenObject,
           WriteObject, Finalize, Discard, GenerationFails, TooLarge, FailRow, DiscardLarge,
           Overrun, CleanupStep, ListExpired, RemoveExpired, ClearKey, ExpiredDone,
           FailStale, ListObjects, ReadReferences, RemoveOrphan, CleanupDone, Expire,
           GrowStale, GrowOld, WorkerCrash, generationFrame, cleanupFrame
<1>3. cleaner'.pc = "clear" <=> cleaner'.current # None
  <2>1. cleaner \in Cleaner /\ (cleaner.pc = "clear" <=> cleaner.current # None)
    BY DEF TypeOK, KeyDiscipline, Known
  <2>2. CASE RemoveExpired
    <3>1. PICK d \in cleaner.todo :
             \/ cleaner' = [cleaner EXCEPT !.pc = "clear", !.todo = @ \ {d}, !.current = d]
             \/ cleaner' = [cleaner EXCEPT !.todo = @ \ {d}]
      BY <2>2 DEF RemoveExpired
    <3>2. d # None
      BY <2>1, ExportAssumption DEF Cleaner
    <3> QED
      BY <2>1, <2>2, <3>1, <3>2 DEF RemoveExpired, Cleaner
  <2>3. CASE UNCHANGED cleaner
    BY <2>1, <2>3
  <2>4. CASE CleanupStep /\ ~RemoveExpired
    <3>1. CASE ListExpired \/ ExpiredDone
      BY <2>1, <3>1 DEF ListExpired, ExpiredDone, Cleaner
    <3>2. CASE ClearKey
      BY <2>1, <3>2 DEF ClearKey, Cleaner
    <3>3. CASE FailStale \/ ListObjects
      BY <2>1, <3>3 DEF FailStale, ListObjects, Cleaner
    <3>4. CASE ReadReferences
      BY <2>1, <3>4 DEF ReadReferences, Cleaner
    <3>5. CASE RemoveOrphan
      BY <2>1, <3>5 DEF RemoveOrphan, Cleaner
    <3>6. CASE CleanupDone
      BY <3>6 DEF CleanupDone, IdleCleaner
    <3> QED
      BY <2>4, <3>1, <3>2, <3>3, <3>4, <3>5, <3>6 DEF CleanupStep
  <2>5. CASE WorkerCrash
    BY <2>5 DEF WorkerCrash, IdleCleaner
  <2> QED
    BY <2>2, <2>3, <2>4, <2>5
       DEF Next, vars, CreationStep, CountPreparing, InsertExport, SendExport, SendFails,
           DropExport, GenerationStep, TakeDelivery, ReadSettled, ReadPreparing, OpenObject,
           WriteObject, Finalize, Discard, GenerationFails, TooLarge, FailRow, DiscardLarge,
           Overrun, UserStep, DownloadRead, DownloadGet, DeleteRead, DeleteRow, DeleteFile,
           Expire, GrowStale, GrowOld, WebCrash, generationFrame, userFrame, cleanupFrame
<1> QED
  BY <1>1, <1>2, <1>3 DEF Known

\* No two attempts come to hold one key, nor does one lose what it has written.
LEMMA AttemptKeysKept ==
    ASSUME TypeOK, KeyDiscipline, [Next]_vars
    PROVE  AttemptKeys'
<1>1. ASSUME NEW a \in Attempters
      PROVE  attempt'[a].key # None <=> attempt'[a].pc \in Writing
  BY PlacedStep DEF Placed
<1>2. ASSUME NEW a \in Attempters, attempt'[a].key # None
      PROVE  object'[attempt'[a].key].state # "unused"
  <2>1. CASE ReadPreparing(a)
    BY <2>1, ReadStep
  <2>2. CASE attempt'[a].key = attempt[a].key
    <3> DEFINE k == attempt[a].key
    <3>1. k \in Keys /\ object[k] \in Object /\ object[k].state # "unused"
      BY <1>2, <2>2 DEF TypeOK, Attempt, KeyDiscipline, AttemptKeys
    <3>2. CASE Same(k)
      BY <2>2, <3>1, <3>2 DEF Same
    <3>3. CASE Written(k)
      BY <2>2, <3>1, <3>3 DEF Written, Object
    <3> QED
      BY <2>2, <3>1, <3>2, <3>3, ObjectStep DEF Drawn, Disposed, Aged, Released
  <2> QED
    BY <1>2, <2>1, <2>2, AttemptStep
<1>3. ASSUME NEW a \in Attempters, NEW b \in Attempters,
             attempt'[a].key # None, attempt'[a].key = attempt'[b].key
      PROVE  a = b
  <2>1. \A c, d \in Attempters : attempt[c].key # None /\ attempt[c].key = attempt[d].key
                                => c = d
    BY DEF KeyDiscipline, AttemptKeys
  <2>2. \A c \in Attempters : attempt[c].key # None => object[attempt[c].key].state # "unused"
    BY DEF KeyDiscipline, AttemptKeys
  <2>3. CASE ReadPreparing(a) /\ a # b
    BY <1>3, <2>2, <2>3, ReadStep
  <2>4. CASE ReadPreparing(b) /\ a # b
    BY <1>3, <2>2, <2>4, ReadStep
  <2> QED
    BY <1>3, <2>1, <2>3, <2>4, AttemptStep
<1>4. ASSUME NEW a \in Attempters, attempt'[a].pc \in {"write", "finalize"}
      PROVE  /\ object'[attempt'[a].key].state = "stored"
             /\ attempt'[a].pc = "finalize" =>
                   /\ object'[attempt'[a].key].content = attempt'[a].content
                   /\ attempt'[a].content # None
  <2>1. attempt[a] \in Attempt /\ attempt[a].pc \in {"open", "write", "finalize"}
    BY <1>4, StoringStep DEF TypeOK, OpenObject, WriteObject
  <2>2. attempt[a].key # None /\ attempt[a].key \in Keys
    BY <2>1 DEF KeyDiscipline, AttemptKeys, Writing, Attempt
  <2>3. CASE OpenObject(a) /\ attempt'[a].pc = "write"
    BY <2>1, <2>2, <2>3 DEF OpenObject, Goto, TypeOK, Attempt
  <2>4. CASE WriteObject(a)
    <3>1. PICK c \in Contents :
             /\ object' = [object EXCEPT ![attempt[a].key].content = c]
             /\ attempt' = [attempt EXCEPT ![a].pc = "finalize", ![a].content = c]
      BY <2>4 DEF WriteObject
    <3>2. object[attempt[a].key].state = "stored"
      BY <2>4 DEF WriteObject, KeyDiscipline, AttemptKeys
    <3> QED
      BY <2>1, <2>2, <3>1, <3>2, ExportAssumption DEF TypeOK, Attempt, Object
  <2>5. CASE /\ attempt[a].pc = attempt'[a].pc /\ attempt'[a].key = attempt[a].key
             /\ attempt'[a].content = attempt[a].content
             /\ ~WriteObject(a)
    <3>1. object[attempt[a].key].state = "stored"
      BY <1>4, <2>5 DEF KeyDiscipline, AttemptKeys
    <3>2. ~Written(attempt[a].key)
      <4>1. \A b \in Attempters : attempt[b].key = attempt[a].key => a = b
        BY <2>2 DEF KeyDiscipline, AttemptKeys
      <4> QED
        BY <1>4, <2>5, <4>1 DEF Written, OpenObject, Discard, DiscardLarge
    <3>3. Same(attempt[a].key)
      BY <2>2, <3>1, <3>2, ObjectStep DEF Drawn, Disposed, Aged, Released
    <3> QED
      BY <1>4, <2>5, <3>1, <3>3 DEF Same, KeyDiscipline, AttemptKeys
  <2> QED
    BY <1>4, <2>3, <2>4, <2>5, StoringStep
<1> QED
  BY <1>1, <1>2, <1>3, <1>4 DEF AttemptKeys

\* A row comes to refer to a key only when an attempt publishes it.
LEMMA RowKeyStep ==
    ASSUME TypeOK, KeyDiscipline, [Next]_vars, NEW e \in Exports
    PROVE  export'[e].key \in {export[e].key, None} \/ Published(e)
<1>1. export[e] \in Export
  BY DEF TypeOK
<1>2. Cleared(e) => export'[e].key = None
  BY <1>1 DEF Cleared, Export
<1> QED
  BY <1>2, RowStep DEF Kept, Emptied, Failed

\* A row refers to a key of its own, which nobody writes any more.
LEMMA RowKeysKept ==
    ASSUME TypeOK, KeyDiscipline, [Next]_vars
    PROVE  RowKeys'
<1>1. \A e \in Exports : export[e] \in Export
  BY DEF TypeOK
<1>2. ASSUME NEW e \in Exports,
             export'[e].status \in {"absent", "preparing", "deleted"}
      PROVE  export'[e].key = None /\ export'[e].checksum = None
  BY <1>1, <1>2, RowStep, ZenonT(30)
     DEF Kept, Emptied, Published, Failed, Cleared, Export, KeyDiscipline, RowKeys
<1>3. ASSUME NEW k \in Keys, NEW a \in Attempters, attempt[a].key = k, attempt'[a].key = None,
             UNCHANGED object
      PROVE  Released(k)'
  <2>1. object'[k].state # "unused" /\ object[k].state # "unused"
    BY <1>3, ExportAssumption DEF KeyDiscipline, AttemptKeys
  <2>2. ASSUME NEW b \in Attempters
        PROVE  attempt'[b].key # k
    <3>1. attempt[b].key = k => a = b
      BY <1>3, ExportAssumption DEF KeyDiscipline, AttemptKeys
    <3> QED
      BY <1>3, <2>1, <3>1, AttemptStep, ReadStep, ExportAssumption
  <2> QED
    BY <2>1, <2>2 DEF Released
<1>4. ASSUME NEW e \in Exports, NEW k \in Keys, export'[e].key = k
      PROVE  Released(k)'
  <2>1. CASE k = export[e].key
    <3>1. Released(k)
      BY <2>1, ExportAssumption DEF KeyDiscipline, RowKeys
    <3> QED
      BY <3>1, ReleasedKept
  <2>2. CASE Published(e)
    BY <1>3, <1>4, <2>2 DEF Published
  <2> QED
    BY <1>4, <2>1, <2>2, RowKeyStep, ExportAssumption
<1>5. ASSUME NEW e \in Exports, NEW f \in Exports,
             export'[e].key # None, export'[e].key = export'[f].key
      PROVE  e = f
  <2>1. ASSUME NEW g \in Exports, NEW h \in Exports, Published(g), g # h,
               export'[g].key = export'[h].key
        PROVE  FALSE
    <3>1. PICK a \in Attempters :
             /\ attempt[a].pc = "finalize" /\ export'[g].key = attempt[a].key
             /\ export'[h] = export[h]
      BY <2>1 DEF Published
    <3>2. attempt[a].key # None
      BY <3>1 DEF KeyDiscipline, AttemptKeys, Writing
    <3> QED
      BY <2>1, <3>1, <3>2 DEF KeyDiscipline, RowKeys, Released
  <2> QED
    BY <1>5, <2>1, RowKeyStep DEF KeyDiscipline, RowKeys
<1>6. ASSUME NEW e \in Exports
      PROVE  export'[e].key \in Keys \union {None}
  BY TypesKept DEF TypeOK, Export
<1> QED
  BY <1>2, <1>4, <1>5, <1>6 DEF RowKeys, Released
\* What a step may make of a user's request.
LEMMA UserMoves ==
    ASSUME TypeOK, KeyDiscipline, [Next]_vars, NEW u \in Users, user'[u].key # None
    PROVE  \/ user'[u] = user[u]
           \/ \E e \in Exports :
                 /\ Downloadable(e) /\ UNCHANGED <<export, object, attempt>>
                 /\ user'[u] = [pc |-> "get", export |-> e, key |-> export[e].key,
                                checksum |-> export[e].checksum]
           \/ \E e \in Exports :
                 /\ UNCHANGED <<export, object, attempt>>
                 /\ user'[u].pc = "deleteRow" /\ user'[u].export = e
                 /\ user'[u].key = export[e].key
           \/ /\ DeleteRow(u)
              /\ user'[u].pc = "deleteFile" /\ user'[u].key = user[u].key
<1>1. ASSUME NEW v \in Users, UserStep(v), u # v
      PROVE  user'[u] = user[u]
  BY <1>1 DEF UserStep, DownloadRead, DownloadGet, DeleteRead, DeleteRow, DeleteFile, TypeOK
<1>2. CASE DownloadRead(u)
  BY <1>2 DEF DownloadRead, userFrame, TypeOK
<1>3. CASE DownloadGet(u) \/ DeleteFile(u)
  BY <1>3 DEF DownloadGet, DeleteFile, IdleUser, TypeOK
<1>4. CASE DeleteRead(u)
  <2>1. PICK e \in Exports :
           user' = [user EXCEPT ![u] = [IdleUser EXCEPT !.pc = "deleteRow", !.export = e,
                                                        !.key = export[e].key]]
    BY <1>4 DEF DeleteRead
  <2>2. /\ user'[u].pc = "deleteRow" /\ user'[u].export = e
        /\ user'[u].key = export[e].key
    BY <2>1 DEF IdleUser, TypeOK
  <2> QED
    BY <1>4, <2>2 DEF DeleteRead, userFrame
<1>5. CASE DeleteRow(u)
  <2>1. \/ user' = [user EXCEPT ![u] = IdleUser]
        \/ user' = [user EXCEPT ![u] = [@ EXCEPT !.pc = "deleteFile"]]
    BY <1>5 DEF DeleteRow
  <2> QED
    BY <1>5, <2>1 DEF IdleUser, TypeOK, User
<1>6. CASE UNCHANGED user
  BY <1>6
<1>7. CASE WebCrash
  BY <1>7 DEF WebCrash, IdleUser
<1> QED
  BY <1>1, <1>2, <1>3, <1>4, <1>5, <1>6, <1>7
     DEF Next, vars, UserStep, CreationStep, CountPreparing, InsertExport, SendExport,
         SendFails, DropExport, GenerationStep, TakeDelivery, ReadSettled, ReadPreparing,
         OpenObject, WriteObject, Finalize, Discard, GenerationFails, TooLarge, FailRow,
         DiscardLarge, Overrun, CleanupStep, ListExpired, RemoveExpired, ClearKey,
         ExpiredDone, FailStale, ListObjects, ReadReferences, RemoveOrphan, CleanupDone,
         Expire, GrowStale, GrowOld, WorkerCrash, generationFrame, cleanupFrame

\* A request in flight serves or removes only what its row referred to.
LEMMA UserKeysKept ==
    ASSUME TypeOK, KeyDiscipline, ReadyMatches, [Next]_vars
    PROVE  UserKeys'
<1>1. ASSUME NEW u \in Users, NEW k \in Keys, user'[u].key = k
      PROVE  /\ Released(k)'
             /\ user'[u].pc = "get" => object'[k].content = user'[u].checksum
             /\ \A e \in Exports : export'[e].key = k =>
                   user'[u].pc # "deleteFile" /\ (user'[u].pc = "deleteRow" => e = user'[u].export)
  <2>1. user'[u].key # None
    BY <1>1, ExportAssumption
  <2>2. \A e \in Exports : export[e].key = k => Released(k)
    BY ExportAssumption DEF KeyDiscipline, RowKeys
  <2>3. \A e, f \in Exports : export[e].key = k /\ export[f].key = k => e = f
    BY ExportAssumption DEF KeyDiscipline, RowKeys
  <2>4. ASSUME Released(k), NEW e \in Exports, export'[e].key = k
        PROVE  export[e].key = k
    <3>1. ~Published(e)
      BY <2>4 DEF Published, Released
    <3> QED
      BY <2>4, <3>1, RowKeyStep, ExportAssumption
  <2>5. CASE user'[u] = user[u]
    <3>1. /\ Released(k)
          /\ user[u].pc = "get" => object[k].content = user[u].checksum
          /\ \A e \in Exports : export[e].key = k =>
                user[u].pc # "deleteFile" /\ (user[u].pc = "deleteRow" => e = user[u].export)
      BY <1>1, <2>1, <2>5 DEF KeyDiscipline, UserKeys
    <3> QED
      BY <2>4, <2>5, <3>1, ReleasedKept
  <2>6. ASSUME NEW e \in Exports, Downloadable(e), UNCHANGED <<export, object, attempt>>,
               user'[u] = [pc |-> "get", export |-> e, key |-> export[e].key,
                           checksum |-> export[e].checksum]
        PROVE  /\ Released(k)' /\ user'[u].pc = "get"
               /\ object'[k].content = user'[u].checksum
    <3>1. export[e].key = k
      BY <1>1, <2>6
    <3>2. object[k].content = export[e].checksum
      BY <2>6, <3>1 DEF Downloadable, ReadyMatches
    <3> QED
      BY <2>2, <2>6, <3>1, <3>2, ReleasedKept
  <2>7. ASSUME NEW e \in Exports, UNCHANGED <<export, object, attempt>>,
               user'[u].pc = "deleteRow", user'[u].export = e, user'[u].key = export[e].key
        PROVE  /\ Released(k)' /\ user'[u].pc = "deleteRow"
               /\ \A f \in Exports : export'[f].key = k => f = user'[u].export
    BY <1>1, <2>2, <2>3, <2>7, ReleasedKept
  <2>8. CASE DeleteRow(u) /\ user'[u].pc = "deleteFile" /\ user'[u].key = user[u].key
    <3>1. Released(k) /\ \A e \in Exports : export[e].key = k => e = user[u].export
      BY <1>1, <2>1, <2>8 DEF DeleteRow, KeyDiscipline, UserKeys
    <3>2. user[u].export \in Exports => export'[user[u].export].key = None
      BY <2>8 DEF DeleteRow, NoExport, TypeOK
    <3>3. ASSUME NEW e \in Exports
          PROVE  export'[e].key # k
      BY <2>4, <3>1, <3>2, ExportAssumption
    <3> QED
      BY <2>8, <3>1, <3>3, ReleasedKept
  <2> QED
    BY <2>1, <2>5, <2>6, <2>7, <2>8, UserMoves
<1>2. ASSUME NEW u \in Users
      PROVE  user'[u].key \in Keys \union {None}
  BY TypesKept DEF TypeOK, User
<1> QED
  BY <1>1, <1>2 DEF UserKeys, Released

\* What a step may make of the expired rows still to visit, and of the objects to
\* remove.
TodoMoves ==
    \/ cleaner'.todo \union ({cleaner'.current} \ {None})
          \subseteq cleaner.todo \union ({cleaner.current} \ {None})
    \/ /\ UNCHANGED <<export, object, attempt>> /\ cleaner'.current = cleaner.current
       /\ cleaner'.todo = {<<e, export[e].key>> : e \in {f \in Exports : ExpiredRow(f)}}

ObjectsMoves ==
    \/ /\ cleaner'.objects \subseteq cleaner.objects
       /\ cleaner'.pc = "remove" => cleaner.pc = "remove"
    \/ cleaner'.pc = "refs" /\ cleaner'.objects = {k \in Keys : Listed(k)}
    \/ UNCHANGED export /\ cleaner'.objects = cleaner.objects \ Referenced

\* The cleanup makes nothing else of them.
LEMMA CleanerMoves ==
    ASSUME TypeOK, KeyDiscipline, [Next]_vars
    PROVE  TodoMoves /\ ObjectsMoves
<1> USE DEF TodoMoves, ObjectsMoves
<1>1. cleaner \in Cleaner
  BY DEF TypeOK
<1>2. CASE UNCHANGED cleaner
  BY <1>2
<1>3. CASE ListExpired
  BY <1>1, <1>3 DEF ListExpired, cleanupFrame, Cleaner
<1>4. CASE RemoveExpired
  <2>1. PICK d \in cleaner.todo :
           \/ cleaner' = [cleaner EXCEPT !.pc = "clear", !.todo = @ \ {d}, !.current = d]
           \/ cleaner' = [cleaner EXCEPT !.todo = @ \ {d}]
    BY <1>4 DEF RemoveExpired
  <2> QED
    BY <1>1, <1>4, <2>1 DEF RemoveExpired, Cleaner
<1>5. CASE ClearKey
  BY <1>1, <1>5 DEF ClearKey, Cleaner
<1>6. CASE ExpiredDone \/ FailStale
  BY <1>1, <1>6 DEF ExpiredDone, FailStale, Cleaner
<1>7. CASE ListObjects
  BY <1>1, <1>7 DEF ListObjects, cleanupFrame, Cleaner
<1>8. CASE ReadReferences
  BY <1>1, <1>8 DEF ReadReferences, Orphans, cleanupFrame, Cleaner
<1>9. CASE RemoveOrphan
  <2>1. PICK k \in cleaner.objects : cleaner' = [cleaner EXCEPT !.objects = @ \ {k}]
    BY <1>9 DEF RemoveOrphan
  <2> QED
    BY <1>1, <1>9, <2>1 DEF RemoveOrphan, Cleaner
<1>10. CASE CleanupDone \/ WorkerCrash
  BY <1>10 DEF CleanupDone, WorkerCrash, IdleCleaner
<1> QED
  BY <1>2, <1>3, <1>4, <1>5, <1>6, <1>7, <1>8, <1>9, <1>10
     DEF Next, vars, CreationStep, CountPreparing, InsertExport, SendExport, SendFails,
         DropExport, GenerationStep, TakeDelivery, ReadSettled, ReadPreparing, OpenObject,
         WriteObject, Finalize, Discard, GenerationFails, TooLarge, FailRow, DiscardLarge,
         Overrun, UserStep, DownloadRead, DownloadGet, DeleteRead, DeleteRow, DeleteFile,
         CleanupStep, Expire, GrowStale, GrowOld, WebCrash, generationFrame, userFrame,
         cleanupFrame

\* The cleanup removes only what no attempt writes and no live row refers to.
LEMMA CleanerKeysKept ==
    ASSUME TypeOK, KeyDiscipline, [Next]_vars
    PROVE  CleanerKeys'
<1>1. ASSUME NEW k \in Keys, Released(k), NEW e \in Exports, export'[e].key = k
      PROVE  export[e].key = k /\ (export[e].expired => export'[e].expired)
  <2>1. ~Published(e)
    BY <1>1 DEF Published, Released
  <2>2. export[e].key = k
    BY <1>1, <2>1, RowKeyStep, ExportAssumption
  <2>3. ~Emptied(e) /\ ~Cleared(e)
    BY <1>1, ExportAssumption DEF Emptied, Cleared, TypeOK, Export
  <2> QED
    BY <2>1, <2>2, <2>3, RowStep DEF Kept, Failed
<1>2. ASSUME NEW k \in Keys, object'[k].old \/ k \in cleaner'.objects
      PROVE  Released(k)'
  <2>1. object[k].old \/ k \in cleaner.objects => Released(k)
    BY DEF KeyDiscipline, CleanerKeys
  <2>2. CASE k \in cleaner'.objects
    <3>1. k \in cleaner.objects \/ Listed(k)
      BY <2>2, CleanerMoves DEF ObjectsMoves
    <3> QED
      BY <2>1, <3>1, ReleasedKept DEF Listed
  <2>3. CASE object'[k].old
    <3>1. object[k] \in Object
      BY DEF TypeOK
    <3>2. Drawn(k) \/ Written(k) => object[k].old
      <4>1. CASE Drawn(k)
        BY <2>3, <3>1, <4>1 DEF Drawn, Object
      <4>2. CASE Written(k)
        <5>1. \/ object'[k] = [state |-> "stored", content |-> None, old |-> FALSE]
              \/ object'[k].old = object[k].old
              \/ object'[k] = [object[k] EXCEPT !.state = "removed"]
          BY <4>2 DEF Written
        <5>2. CASE object'[k] = [state |-> "stored", content |-> None, old |-> FALSE]
          BY <2>3, <5>2
        <5>3. CASE object'[k].old = object[k].old
          BY <2>3, <5>3
        <5>4. CASE object'[k] = [object[k] EXCEPT !.state = "removed"]
          BY <2>3, <3>1, <5>4 DEF Object
        <5> QED
          BY <5>1, <5>2, <5>3, <5>4
      <4> QED
        BY <4>1, <4>2
    <3>3. Released(k)
      BY <2>1, <2>3, <3>2, ObjectStep DEF Same, Disposed, Aged
    <3> QED
      BY <3>3, ReleasedKept
  <2> QED
    BY <1>2, <2>2, <2>3
<1>3. ASSUME NEW k \in Keys, k \in cleaner'.objects, NEW e \in Exports, cleaner'.pc = "remove"
      PROVE  export'[e].key # k
  <2>1. CASE k \in cleaner.objects /\ cleaner.pc = "remove"
    <3>1. Released(k) /\ export[e].key # k
      BY <2>1 DEF KeyDiscipline, CleanerKeys
    <3> QED
      BY <1>1, <3>1
  <2>2. CASE k \notin Referenced /\ UNCHANGED export
    <3>1. export[e].key # None => Exists(e)
      BY DEF TypeOK, Export, KeyDiscipline, RowKeys, Exists
    <3> QED
      BY <2>2, <3>1, ExportAssumption DEF Referenced
  <2> QED
    BY <1>3, <2>1, <2>2, CleanerMoves DEF ObjectsMoves
<1>4. ASSUME NEW d \in cleaner'.todo \union ({cleaner'.current} \ {None})
      PROVE  d[2] \in Keys /\ Released(d[2]) /\ \A e \in Exports : export[e].key = d[2] => export[e].expired
  <2>1. CASE d \in cleaner.todo \union ({cleaner.current} \ {None})
    BY <2>1 DEF KeyDiscipline, CleanerKeys, TypeOK, Cleaner
  <2>2. ASSUME NEW f \in Exports, ExpiredRow(f), d = <<f, export[f].key>>
        PROVE  d[2] \in Keys /\ Released(d[2]) /\ \A e \in Exports : export[e].key = d[2] => export[e].expired
    BY <2>2 DEF ExpiredRow, KeyDiscipline, RowKeys, TypeOK, Export
  <2> QED
    BY <1>4, <2>1, <2>2, CleanerMoves DEF TodoMoves
<1>5. ASSUME NEW d \in cleaner'.todo \union ({cleaner'.current} \ {None}), NEW k \in Keys, k = d[2]
      PROVE  Released(k)' /\ \A e \in Exports : export'[e].key = k => export'[e].expired
  BY <1>1, <1>4, <1>5, ReleasedKept
<1>6. cleaner'.objects \subseteq Keys
  BY TypesKept DEF TypeOK, Cleaner
<1> QED
  BY <1>2, <1>3, <1>4, <1>5, <1>6 DEF CleanerKeys, Released

------------------------------------------------------------------------------
(* The guarantees.                                                         *)

\* A step keeps the file of every ready, unexpired export.
LEMMA ReadyKept ==
    ASSUME TypeOK, KeyDiscipline, ReadyMatches, [Next]_vars
    PROVE  ReadyMatches'
<1>1. ASSUME NEW e \in Exports, export'[e].status = "ready", ~export'[e].expired
      PROVE  /\ export'[e].key \in Keys /\ object'[export'[e].key].state = "stored"
             /\ object'[export'[e].key].content = export'[e].checksum
             /\ export'[e].checksum # None
  <2>1. CASE Kept(e)
    <3> DEFINE k == export[e].key
    <3>1. /\ k \in Keys /\ object[k].state = "stored"
          /\ object[k].content = export[e].checksum /\ export[e].checksum # None
          /\ export[e].status = "ready" /\ ~export[e].expired
      BY <1>1, <2>1 DEF Kept, ReadyMatches, Stored
    <3>2. Released(k)
      BY <3>1, ExportAssumption DEF KeyDiscipline, RowKeys
    <3>3. ~Drawn(k) /\ ~Written(k) /\ ~Disposed(k)
      BY <3>1, <3>2 DEF Drawn, Written, Released, Disposed
    <3>4. object'[k].state = "stored" /\ object'[k].content = object[k].content
      BY <3>1, <3>3, ObjectStep DEF Same, Aged, TypeOK, Object
    <3> QED
      BY <2>1, <3>1, <3>4 DEF Kept
  <2>2. CASE Published(e)
    BY <2>2 DEF Published, KeyDiscipline, AttemptKeys, Writing, TypeOK, Attempt
  <2>3. ~Emptied(e) /\ ~Failed(e) /\ ~Cleared(e)
    BY <1>1 DEF Emptied, Failed, Cleared, TypeOK, Export
  <2> QED
    BY <2>1, <2>2, <2>3, RowStep
<1> QED
  BY <1>1 DEF ReadyMatches, Stored

\* The inductive invariant: the types, whose key is whose, and the property itself.
Inv == TypeOK /\ KeyDiscipline /\ ReadyMatches

\* It holds initially.
LEMMA InitInv == Init => Inv
<1> SUFFICES ASSUME Init PROVE Inv
  OBVIOUS
<1>1. TypeOK
  <2>1. Faults = [worker : 0..MaxWorkerCrashes, web : 0..MaxWebCrashes, overrun : 0..MaxOverruns]
    BY DEF Faults
  <2>2. faults \in Faults
    BY <2>1, ExportAssumption DEF Init
  <2>3. NoObject \in Object
    BY DEF NoObject, Object
  <2> QED
    BY <2>2, <2>3, IdleTypes DEF Init, TypeOK
<1>2. Known /\ AttemptKeys
  BY DEF Init, Known, AttemptKeys, Writing, IdleAttempt, IdleUser, IdleCleaner
<1>3. RowKeys /\ UserKeys
  BY DEF Init, RowKeys, UserKeys, NoExport, IdleUser
<1>4. CleanerKeys
  BY DEF Init, CleanerKeys, IdleCleaner, NoObject
<1>5. ReadyMatches
  BY DEF Init, ReadyMatches, NoExport
<1> QED
  BY <1>1, <1>2, <1>3, <1>4, <1>5 DEF Inv, KeyDiscipline

\* Every step keeps it.
LEMMA InvKept == Inv /\ [Next]_vars => Inv'
  BY TypesKept, KnownKept, AttemptKeysKept, RowKeysKept, UserKeysKept, CleanerKeysKept, ReadyKept
     DEF Inv, KeyDiscipline

\* Attempts, downloads, deletions and cleanups never get hold of one another's
\* keys: the discipline that the guarantees below rest on.
THEOREM ExportKeyDiscipline == Spec => [](TypeOK /\ KeyDiscipline)
<1>1. Inv => TypeOK /\ KeyDiscipline
  BY DEF Inv
<1> QED
  BY <1>1, InitInv, InvKept, PTL DEF Spec

\* A ready, unexpired export always has its whole file, with the checksum the row
\* names, whatever attempts, cleanups, deletions and crashes do meanwhile.
THEOREM ReadyAlwaysMatches == Spec => []ReadyMatches
<1>1. Inv => ReadyMatches
  BY DEF Inv
<1> QED
  BY <1>1, InitInv, InvKept, PTL DEF Spec

\* What a download reads is what the row it read described.
THEOREM DownloadAlwaysMatches == Spec => []DownloadMatches
<1>1. Inv => DownloadMatches
  BY ExportAssumption DEF Inv, KeyDiscipline, UserKeys, DownloadMatches, Stored
<1> QED
  BY <1>1, InitInv, InvKept, PTL DEF Spec

\* An export is published at most once, and never after it failed.
THEOREM ExportPublishedOnce == Spec => PublishedOnce
<1>1. Inv /\ [Next]_vars =>
      [\A e \in Exports :
          /\ export[e].checksum # None /\ export'[e].status # "deleted" =>
                /\ export'[e].checksum = export[e].checksum
                /\ export'[e].key \in {export[e].key, None}
          /\ export[e].status = "failed" => export'[e].status # "ready"]_vars
  <2> SUFFICES ASSUME Inv, [Next]_vars, NEW e \in Exports
               PROVE  /\ export[e].checksum # None /\ export'[e].status # "deleted" =>
                            /\ export'[e].checksum = export[e].checksum
                            /\ export'[e].key \in {export[e].key, None}
                      /\ export[e].status = "failed" => export'[e].status # "ready"
    OBVIOUS
  <2>1. export[e] \in Export
    BY DEF Inv, TypeOK
  <2>2. export[e].status \in {"absent", "preparing", "deleted"} => export[e].checksum = None
    BY DEF Inv, KeyDiscipline, RowKeys
  <2>3. Kept(e) \/ Emptied(e) \/ Published(e) \/ Failed(e) \/ Cleared(e)
    BY RowStep DEF Inv
  <2>4. CASE Kept(e) \/ Failed(e)
    BY <2>4 DEF Kept, Failed
  <2>5. CASE Emptied(e) \/ Published(e)
    BY <2>2, <2>5 DEF Emptied, Published
  <2>6. CASE Cleared(e)
    BY <2>1, <2>6 DEF Cleared, Export
  <2> QED
    BY <2>3, <2>4, <2>5, <2>6
<1> QED
  BY <1>1, InitInv, InvKept, PTL DEF Spec, PublishedOnce

------------------------------------------------------------------------------
(* The promise of ExportPromise.                                           *)

\* What an export offers and a download gives, as the promise has it.
Offered(e) == IF Offers(e) THEN object[export[e].key].content ELSE None
Given(u) == IF Gives(u) THEN object[user[u].key].content ELSE None

\* While every ready export has its file, the row says what an export offers.
OfferOf(row) == IF row.status = "ready" /\ ~row.expired THEN row.checksum ELSE None

\* While every ready export has its file, its row tells what it offers.
LEMMA OfferedByRow ==
    ASSUME ReadyMatches, NEW e \in Exports
    PROVE  Offered(e) = OfferOf(export[e])
  BY DEF ReadyMatches, Offered, Offers, OfferOf

\* A step leaves an export as it is, withdraws it for good, or publishes it.
LEMMA OfferStep ==
    ASSUME Inv, Inv', [Next]_vars, NEW e \in Exports
    PROVE  /\ Over(e) => Over(e)'
           /\ Over(e)' => Offered(e)' = None
           /\ Over(e)' \/ Offered(e)' = Offered(e) \/ Published(e)
           /\ Published(e) /\ ~Over(e)' =>
                 ~Over(e) /\ Offered(e) = None /\ Offered(e)' \in Contents
<1>1. export[e] \in Export /\ export'[e] \in Export
  BY DEF Inv, TypeOK
<1>2. Offered(e) = OfferOf(export[e])
  BY OfferedByRow DEF Inv
<1>3. Offered(e)' = OfferOf(export'[e])
  <2>1. ReadyMatches'
    BY DEF Inv
  <2> QED
    BY <2>1 DEF ReadyMatches, Offered, Offers, OfferOf
<1>4. Over(e)' => Offered(e)' = None
  BY <1>1, <1>3 DEF Over, OfferOf, Export
<1>5. ASSUME Kept(e)
      PROVE  (Over(e) => Over(e)') /\ (Over(e)' \/ Offered(e)' = Offered(e))
  BY <1>1, <1>2, <1>3, <1>5 DEF Kept, Over, OfferOf, Export
<1>6. ASSUME Emptied(e)
      PROVE  (Over(e) => Over(e)') /\ (Over(e)' \/ Offered(e)' = Offered(e))
  BY <1>1, <1>2, <1>3, <1>6 DEF Emptied, Over, OfferOf, Export
<1>7. ASSUME Failed(e)
      PROVE  (Over(e) => Over(e)') /\ (Over(e)' \/ Offered(e)' = Offered(e))
  BY <1>1, <1>2, <1>3, <1>7 DEF Failed, Over, OfferOf, Export
<1>8. ASSUME Cleared(e)
      PROVE  (Over(e) => Over(e)') /\ (Over(e)' \/ Offered(e)' = Offered(e))
  BY <1>1, <1>2, <1>3, <1>8 DEF Cleared, Over, OfferOf, Export
<1>9. ASSUME Published(e)
      PROVE  /\ ~Over(e) /\ Offered(e) = None
             /\ ~Over(e)' => Offered(e)' \in Contents
  <2>1. PICK a \in Attempters :
           /\ attempt[a].pc = "finalize" /\ export'[e].checksum = attempt[a].content
           /\ export[e].status = "preparing" /\ export'[e].status = "ready"
    BY <1>9 DEF Published
  <2>2. attempt[a].content \in Contents
    BY <2>1 DEF Inv, KeyDiscipline, AttemptKeys, TypeOK, Attempt
  <2> QED
    BY <1>2, <1>3, <2>1, <2>2 DEF Over, OfferOf
<1>10. ASSUME ~Published(e)
       PROVE  (Over(e) => Over(e)') /\ (Over(e)' \/ Offered(e)' = Offered(e))
  BY <1>5, <1>6, <1>7, <1>8, <1>10, RowStep DEF Inv
<1> QED
  BY <1>4, <1>9, <1>10

\* A download in flight gives what it gave, or nothing, unless it just began.
LEMMA GivenStep ==
    ASSUME Inv, [Next]_vars, NEW u \in Users
    PROVE  \/ Given(u)' \in {Given(u), None}
           \/ \E e \in Exports :
                 /\ Offered(e) # None /\ Given(u)' = Offered(e)
                 /\ UNCHANGED <<export, object, attempt>>
<1>1. CASE user'[u].key = None
  BY <1>1, ExportAssumption DEF Given, Gives, Stored
<1>2. CASE user'[u] = user[u]
  <2>1. SUFFICES ASSUME user[u].pc = "get", user[u].key \in Keys,
                        object'[user[u].key].state = "stored"
                 PROVE  Given(u)' \in {Given(u), None}
    BY <1>2 DEF Given, Gives, Stored
  <2> DEFINE k == user[u].key
  <2>2. Released(k)
    BY <2>1, ExportAssumption DEF Inv, KeyDiscipline, UserKeys
  <2>3. object'[k].content = object[k].content
    BY <2>1, <2>2, ReleasedKept DEF Inv
  <2>4. object[k].state = "stored"
    <3>1. ~Written(k) /\ ~Drawn(k)
      BY <2>2 DEF Written, Drawn, Released
    <3>2. object[k] \in Object /\ k \in Keys
      BY <2>1 DEF Inv, TypeOK
    <3>3. Same(k) \/ Disposed(k) \/ Aged(k)
      BY <3>1, <3>2, ObjectStep DEF Inv
    <3> QED
      BY <2>1, <3>2, <3>3 DEF Same, Disposed, Aged, Object
  <2> QED
    BY <1>2, <2>1, <2>3, <2>4 DEF Given, Gives, Stored
<1>3. ASSUME NEW e \in Exports, Downloadable(e), UNCHANGED <<export, object, attempt>>,
             user'[u] = [pc |-> "get", export |-> e, key |-> export[e].key,
                         checksum |-> export[e].checksum]
      PROVE  /\ Offered(e) # None /\ Given(u)' = Offered(e)
             /\ UNCHANGED <<export, object, attempt>>
  <2>1. /\ export[e].key \in Keys /\ object[export[e].key].state = "stored"
        /\ object[export[e].key].content # None /\ Offers(e)
    BY <1>3 DEF Inv, ReadyMatches, Stored, Downloadable, Offers
  <2> QED
    BY <1>3, <2>1 DEF Given, Gives, Offered, Stored
<1>4. CASE user'[u].pc # "get"
  BY <1>4 DEF Given, Gives
<1> QED
  BY <1>1, <1>2, <1>3, <1>4, UserMoves DEF Inv

\* A step that writes rows writes no file, and ends no download.
LEMMA RowsAlone ==
    ASSUME Inv, [Next]_vars, export' # export, NEW u \in Users
    PROVE  Given(u)' = Given(u)
<1>1. UNCHANGED object
  BY DEF Next, vars, CreationStep, CountPreparing, InsertExport, SendExport, SendFails,
         DropExport, GenerationStep, TakeDelivery, ReadSettled, ReadPreparing, OpenObject,
         WriteObject, Finalize, Discard, GenerationFails, TooLarge, FailRow, DiscardLarge,
         Overrun, UserStep, DownloadRead, DownloadGet, DeleteRead, DeleteRow, DeleteFile,
         CleanupStep, ListExpired, RemoveExpired, ClearKey, ExpiredDone, FailStale,
         ListObjects, ReadReferences, RemoveOrphan, CleanupDone, Expire, GrowStale, GrowOld,
         WorkerCrash, WebCrash, generationFrame, userFrame, cleanupFrame
<1>2. UNCHANGED user \/ \E v \in Users : DeleteRow(v)
  BY DEF Next, vars, CreationStep, CountPreparing, InsertExport, SendExport, SendFails,
         DropExport, GenerationStep, TakeDelivery, ReadSettled, ReadPreparing, OpenObject,
         WriteObject, Finalize, Discard, GenerationFails, TooLarge, FailRow, DiscardLarge,
         Overrun, UserStep, DownloadRead, DownloadGet, DeleteRead, DeleteFile,
         CleanupStep, ListExpired, RemoveExpired, ClearKey, ExpiredDone, FailStale,
         ListObjects, ReadReferences, RemoveOrphan, CleanupDone, Expire, GrowStale, GrowOld,
         WorkerCrash, WebCrash, generationFrame, userFrame, cleanupFrame
<1>3. ASSUME NEW v \in Users, DeleteRow(v)
      PROVE  user'[u] = user[u] \/ (user[u].pc # "get" /\ user'[u].pc # "get")
  BY <1>3 DEF DeleteRow, IdleUser, Inv, TypeOK, User
<1> QED
  BY <1>1, <1>2, <1>3 DEF Given, Gives, Stored

\* Who begins a download changes no other's.
LEMMA BeginsAlone ==
    ASSUME Inv, [Next]_vars, NEW u \in Users, NEW v \in Users, u # v,
           Given(u)' \notin {Given(u), None}
    PROVE  Given(v)' = Given(v)
<1>1. UNCHANGED object /\ Given(u)' # None /\ Given(u)' # Given(u)
  BY GivenStep
<1>2. user'[u] # user[u] /\ user'[u].pc = "get"
  BY <1>1 DEF Given, Gives, Stored
<1>3. ASSUME NEW w \in Users, UserStep(w), NEW x \in Users, x # w
      PROVE  user'[x] = user[x]
  BY <1>3 DEF UserStep, DownloadRead, DownloadGet, DeleteRead, DeleteRow, DeleteFile, Inv, TypeOK
<1>4. ~WebCrash
  BY <1>2 DEF WebCrash, IdleUser
<1>5. UNCHANGED user \/ \E w \in Users : UserStep(w)
  BY <1>4 DEF Next, vars, CreationStep, CountPreparing, InsertExport, SendExport, SendFails,
         DropExport, GenerationStep, TakeDelivery, ReadSettled, ReadPreparing, OpenObject,
         WriteObject, Finalize, Discard, GenerationFails, TooLarge, FailRow, DiscardLarge,
         Overrun, CleanupStep, ListExpired, RemoveExpired, ClearKey, ExpiredDone, FailStale,
         ListObjects, ReadReferences, RemoveOrphan, CleanupDone, Expire, GrowStale, GrowOld,
         WorkerCrash, generationFrame, cleanupFrame
<1>6. user'[v] = user[v]
  BY <1>2, <1>3, <1>5
<1> QED
  BY <1>1, <1>6 DEF Given, Gives, Stored

\* A step that writes rows offers one export or withdraws some.
LEMMA RowsKeepPromise ==
    ASSUME Inv, Inv', [Next]_vars, export' # export
    PROVE  Promised!PromiseNext
<1> DEFINE offered == [e \in Exports |-> Offered(e)]
           over == {e \in Exports : Over(e)}
           given == [u \in Users |-> Given(u)]
           after == [e \in Exports |-> Offered(e)']
           withdrawn == {e \in Exports : Over(e)'}
<1>1. [u \in Users |-> Given(u)'] = given
  BY RowsAlone
<1>2. CASE \E e \in Exports : Published(e) /\ ~Over(e)'
  <2>1. PICK e \in Exports : Published(e) /\ ~Over(e)'
    BY <1>2
  <2>2. \A f \in Exports : f # e => export'[f] = export[f]
    BY <2>1 DEF Published
  <2>3. /\ ~Over(e) /\ Offered(e) = None /\ Offered(e)' \in Contents
    BY <2>1, OfferStep
  <2>4. \A f \in Exports : f # e => (Over(f)' <=> Over(f)) /\ Offered(f)' = Offered(f)
    <3>1. UNCHANGED object
      BY <2>1 DEF Published
    <3> QED
      BY <2>2, <3>1 DEF Over, Offered, Offers, Stored
  <2>5. withdrawn = over
    BY <2>1, <2>3, <2>4
  <2>6. PICK content \in Contents : content = Offered(e)'
    BY <2>3
  <2>7. after = [offered EXCEPT ![e] = content]
    BY <2>4, <2>6
  <2>8. Promised!Offer(e, content)
    BY <1>1, <2>3, <2>5, <2>7 DEF Promised!Offer, Offered, Given
  <2> QED
    BY <2>8 DEF Promised!PromiseNext
<1>3. CASE ~ \E e \in Exports : Published(e) /\ ~Over(e)'
  <2>1. \A e \in Exports : /\ Over(e) => Over(e)'
                           /\ Offered(e)' = IF e \in withdrawn THEN None ELSE Offered(e)
    BY <1>3, OfferStep
  <2>2. PICK es : es = withdrawn
    BY DEF Over
  <2>3. es \in SUBSET Exports /\ es = over \union es
    BY <2>1, <2>2
  <2>4. after = [e \in Exports |-> IF e \in es THEN None ELSE offered[e]]
    BY <2>1, <2>2
  <2>5. Promised!Withdraw(es)
    BY <1>1, <2>2, <2>3, <2>4 DEF Promised!Withdraw, Offered, Given
  <2> QED
    BY <2>3, <2>5 DEF Promised!PromiseNext
<1> QED
  BY <1>2, <1>3

\* Any other begins a download, or ends some.
LEMMA FilesKeepPromise ==
    ASSUME Inv, Inv', [Next]_vars, UNCHANGED export
    PROVE  Promised!PromiseNext
<1> DEFINE given == [u \in Users |-> Given(u)]
           after == [u \in Users |-> Given(u)']
           ended == {u \in Users : Given(u)' = None}
<1>1. \A e \in Exports : Offered(e)' = Offered(e) /\ (Over(e)' <=> Over(e))
  <2>1. \A e \in Exports : Offered(e) = OfferOf(export[e])
    BY OfferedByRow DEF Inv
  <2>2. \A e \in Exports : Offered(e)' = OfferOf(export'[e])
    BY DEF Inv, ReadyMatches, Offered, Offers, OfferOf
  <2> QED
    BY <2>1, <2>2 DEF Over
<1>2. /\ [e \in Exports |-> Offered(e)'] = [e \in Exports |-> Offered(e)]
      /\ {e \in Exports : Over(e)'} = {e \in Exports : Over(e)}
  BY <1>1
<1>3. CASE \E u \in Users : Given(u)' \notin {Given(u), None}
  <2>1. PICK u \in Users : Given(u)' \notin {Given(u), None}
    BY <1>3
  <2>2. PICK e \in Exports : Offered(e) # None /\ Given(u)' = Offered(e)
    BY <2>1, GivenStep
  <2>3. \A v \in Users : v # u => Given(v)' = Given(v)
    BY <2>1, BeginsAlone
  <2>4. after = [given EXCEPT ![u] = Offered(e)]
    BY <2>2, <2>3
  <2>5. Promised!Begin(u, e)
    BY <1>2, <2>2, <2>4 DEF Promised!Begin, Offered, Given
  <2> QED
    BY <2>5 DEF Promised!PromiseNext
<1>4. CASE \A u \in Users : Given(u)' \in {Given(u), None}
  <2>1. PICK ds : ds = ended
    BY DEF Given, Gives, Stored
  <2>2. ds \in SUBSET Users
    BY <2>1
  <2>3. after = [u \in Users |-> IF u \in ds THEN None ELSE given[u]]
    BY <1>4, <2>1
  <2>4. Promised!End(ds)
    BY <1>2, <2>3 DEF Promised!End, Offered, Given
  <2> QED
    BY <2>2, <2>4 DEF Promised!PromiseNext
<1> QED
  BY <1>3, <1>4

\* The life cycle of exports implements what ExportPromise promises: every step of
\* requests, attempts, downloads, deletions, cleanups and crashes is one of its
\* steps or leaves its state alone.
THEOREM LifecycleImplementsPromise == Spec => LifecycleKeepsPromise
<1>1. Init => Promised!PromiseInit
  BY DEF Init, Promised!PromiseInit, NoExport, IdleUser, Offers, Gives, Over
<1>2. Inv /\ Inv' /\ [Next]_vars => [Promised!PromiseNext]_(Promised!promiseVars)
  BY RowsKeepPromise, FilesKeepPromise
<1> QED
  BY <1>1, <1>2, InitInv, InvKept, PTL
     DEF Spec, LifecycleKeepsPromise, Promised!Promise
=============================================================================
