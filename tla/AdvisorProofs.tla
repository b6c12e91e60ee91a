----------------------------- MODULE AdvisorProofs -----------------------------
(***************************************************************************)
(* For any proposals, conversations and requests.  What is shown as        *)
(* executed took effect, and only for a confirmation that came in time: a  *)
(* confirmation decides by what it read long before it writes, so both     *)
(* need to say what a confirmation at each step still owes.  A             *)
(* conversation that nobody deletes keeps each question with its answer,   *)
(* in order, and an answer refers to facts that were computed for it: a    *)
(* request writes them in steps of their own, so both need to say what     *)
(* each request has sent and still holds.  The facts of a question about   *)
(* sums are what moved, straight from the transactions, whichever tools    *)
(* found them: each tool is shown to tell that, and a request to keep it.  *)
(***************************************************************************)
EXTENDS Advisor, SumProofs

\* A confirmation that has begun names a proposal that exists.
Referenced ==
    \A c \in Confirms :
       IF confirm[c].pc = "idle" THEN confirm[c] = Idle
       ELSE confirm[c].proposal \in Proposals /\ proposal[confirm[c].proposal] # None

Effective(c) == c \in applied \/ \E b \in budgets : b.by = c

\* Before it marks the proposal a confirmation has its effect, and it has none
\* before it begins.
Owed ==
    \A c \in Confirms :
       /\ confirm[c].pc = "mark" => confirm[c].result = c /\ Effect(c, Payload(c))
       /\ Effective(c) => confirm[c].pc # "idle"

\* What was decided at the first read.
ReadInTime ==
    \A c \in Confirms : confirm[c].pc \in {"validate", "execute", "mark"} =>
       confirm[c].readAt <= proposal[confirm[c].proposal].expiresAt

ProposalsInv ==
    ProposalsTypeOK /\ Referenced /\ Owed /\ ReadInTime /\ ConfirmedInTime /\ ExecutedHasEffect

\* The two halves of the specification share no variable.
LEMMA Halves ==
    ASSUME [Next]_vars
    PROVE  ProposalsNext \/ UNCHANGED proposalVars
  BY DEF Next, vars, proposalState, proposalVars, ProposalsRest, ProposalsNext

------------------------------------------------------------------------------
(* Types.                                                                  *)

\* Every step of a confirmation, expiry or dismissal keeps the types.
LEMMA ProposalsTypes ==
    ASSUME ProposalsInv, ProposalsNext
    PROVE  ProposalsTypeOK'
<1> USE ProposalsAssumption DEF ProposalsInv, ProposalsTypeOK
<1>1. ASSUME NEW p \in Proposals, NEW payload \in Payloads, CreateProposal(p, payload)
      PROVE  ProposalsTypeOK'
  BY <1>1 DEF CreateProposal, Row, Statuses
<1>2. ASSUME NEW c \in Confirms, NEW p \in Proposals, ReadProposal(c, p)
      PROVE  ProposalsTypeOK'
  <2>1. proposal[p] \in Row
    BY <1>2 DEF ReadProposal
  <2>2. PICK pc \in {"stale", "repeated", "expire", "validate"}, result \in Confirms \union {None} :
          confirm' = [confirm EXCEPT ![c] = [pc |-> pc, proposal |-> p, readAt |-> clock,
                                             result |-> result]]
    BY <1>2, <2>1 DEF ReadProposal, Row
  <2> QED
    BY <1>2, <2>2 DEF ReadProposal, Ended
<1>3. ASSUME NEW c \in Confirms, MarkExpired(c)
      PROVE  ProposalsTypeOK'
  <2>1. confirm[c].proposal \in Proposals /\ proposal[confirm[c].proposal] \in Row
    BY <1>3 DEF MarkExpired, Referenced
  <2> QED
    BY <1>3, <2>1 DEF MarkExpired, At, Ended, Row, Statuses
<1>4. ASSUME NEW c \in Confirms, Validate(c)
      PROVE  ProposalsTypeOK'
  BY <1>4 DEF Validate, At, Ended
<1>5. ASSUME NEW c \in Confirms, Execute(c)
      PROVE  ProposalsTypeOK'
  <2>1. confirm[c].proposal \in Proposals /\ proposal[confirm[c].proposal] \in Row
    BY <1>5 DEF Execute, Referenced
  <2>2. Payload(c) \in Payloads
    BY <2>1 DEF Payload, Row
  <2> QED
    BY <1>5, <2>2 DEF Execute, At, Ended
<1>6. ASSUME NEW c \in Confirms, MarkExecuted(c)
      PROVE  ProposalsTypeOK'
  <2>1. confirm[c].proposal \in Proposals /\ proposal[confirm[c].proposal] \in Row
    BY <1>6 DEF MarkExecuted, Referenced
  <2>2. [proposal[confirm[c].proposal] EXCEPT !.status = "executed", !.result = confirm[c].result]
           \in Row
    BY <2>1 DEF Row, Statuses
  <2> QED
    BY <1>6, <2>1, <2>2, ZenonT(30) DEF MarkExecuted, At, Ended
<1>7. CASE WebCrash
  <2>1. \A c \in Confirms : [confirm[c] EXCEPT !.pc = "crashed"]
           \in [pc : {"crashed"}, proposal : Proposals \union {None}, readAt : Nat,
                result : Confirms \union {None}]
    OBVIOUS
  <2> QED
    BY <1>7, <2>1 DEF WebCrash, Ended
<1>8. ASSUME NEW k \in Categories, ArchiveCategory(k)
      PROVE  ProposalsTypeOK'
  BY <1>8 DEF ArchiveCategory
<1>9. ASSUME NEW a \in Accounts, NEW row \in AccountRows, ChangeAccount(a, row)
      PROVE  ProposalsTypeOK'
  BY <1>9 DEF ChangeAccount
<1>10. CASE Pass
  BY <1>10 DEF Pass
<1> QED
  BY <1>1, <1>2, <1>3, <1>4, <1>5, <1>6, <1>7, <1>8, <1>9, <1>10 DEF ProposalsNext

------------------------------------------------------------------------------
(* What no step takes back.                                                *)

\* A proposal keeps its payload and its expiry; effects stay.
Kept ==
    /\ \A p \in Proposals : proposal[p] # None =>
          /\ proposal'[p] # None
          /\ proposal'[p].payload = proposal[p].payload
          /\ proposal'[p].expiresAt = proposal[p].expiresAt
    /\ budgets \subseteq budgets' /\ applied \subseteq applied'

\* Proposals stay, with their payload and expiry, and effects stay.
LEMMA Keeps ==
    ASSUME ProposalsInv, ProposalsNext
    PROVE  Kept
<1> USE ProposalsAssumption DEF ProposalsInv, ProposalsTypeOK, Kept
<1>1. ASSUME NEW p \in Proposals, NEW payload \in Payloads, CreateProposal(p, payload)
      PROVE  Kept
  BY <1>1 DEF CreateProposal
<1>2. ASSUME NEW c \in Confirms, MarkExpired(c) \/ MarkExecuted(c)
      PROVE  Kept
  <2>1. confirm[c].proposal \in Proposals /\ proposal[confirm[c].proposal] \in Row
    BY <1>2 DEF MarkExpired, MarkExecuted, Referenced
  <2>2. proposal'[confirm[c].proposal] \in Row
    BY <1>2, <2>1 DEF MarkExpired, MarkExecuted, Row, Statuses
  <2> QED
    BY <1>2, <2>1, <2>2 DEF MarkExpired, MarkExecuted, Row
<1>3. ASSUME NEW c \in Confirms, Execute(c)
      PROVE  Kept
  BY <1>3 DEF Execute
<1> QED
  BY <1>1, <1>2, <1>3
  DEF ProposalsNext, ReadProposal, Validate, WebCrash, ArchiveCategory, ChangeAccount, Pass

\* An effect that was had is not lost.
LEMMA EffectStays ==
    ASSUME Kept, NEW c, NEW payload, Effect(c, payload)
    PROVE  Effect(c, payload)'
  BY DEF Kept, Effect

\* A confirmation stays with its proposal, and a step that leaves it where it
\* is leaves all of it.
Stays(c) ==
    \/ confirm'[c] = confirm[c]
    \/ /\ confirm[c].pc \notin Ended
       /\ confirm'[c].pc # "idle"
       /\ confirm'[c].proposal = confirm[c].proposal
       /\ confirm'[c].readAt = confirm[c].readAt
       /\ confirm[c].pc = "expire" => confirm'[c].pc \in Ended

\* A confirmation stays with the proposal it read, or reads one anew.
LEMMA Moves ==
    ASSUME ProposalsInv, ProposalsNext, NEW c \in Confirms
    PROVE  Stays(c) \/ \E p \in Proposals : ReadProposal(c, p)
<1> USE DEF ProposalsInv, ProposalsTypeOK, Stays
<1>1. ASSUME NEW d \in Confirms, NEW p \in Proposals, ReadProposal(d, p), d # c
      PROVE  confirm'[c] = confirm[c]
  BY <1>1 DEF ReadProposal
<1>2. ASSUME NEW d \in Confirms,
             MarkExpired(d) \/ Validate(d) \/ Execute(d) \/ MarkExecuted(d)
      PROVE  Stays(c)
  BY <1>2 DEF MarkExpired, Validate, Execute, MarkExecuted, At, Ended
<1>3. CASE WebCrash
  BY <1>3 DEF WebCrash, Ended
<1> QED
  BY <1>1, <1>2, <1>3
  DEF ProposalsNext, CreateProposal, ArchiveCategory, ChangeAccount, Pass

\* A confirmation goes on to name a proposal that exists.
LEMMA KeepsReferences ==
    ASSUME ProposalsInv, ProposalsNext, Kept
    PROVE  Referenced'
<1> SUFFICES ASSUME NEW c \in Confirms
             PROVE  IF confirm'[c].pc = "idle" THEN confirm'[c] = Idle
                    ELSE /\ confirm'[c].proposal \in Proposals
                         /\ proposal'[confirm'[c].proposal] # None
  BY DEF Referenced, Idle
<1>1. CASE Stays(c)
  BY <1>1 DEF Stays, Kept, ProposalsInv, Referenced, Ended
<1>2. ASSUME NEW p \in Proposals, ReadProposal(c, p)
      PROVE  /\ confirm'[c].pc # "idle" /\ confirm'[c].proposal = p
             /\ proposal'[p] # None
  BY <1>2 DEF ReadProposal, ProposalsInv, ProposalsTypeOK
<1> QED
  BY <1>1, <1>2, Moves

\* What was decided in time at the first read was so for good.
LEMMA KeepsReadInTime ==
    ASSUME ProposalsInv, ProposalsNext, Kept
    PROVE  ReadInTime'
<1> SUFFICES ASSUME NEW c \in Confirms, confirm'[c].pc \in {"validate", "execute", "mark"}
             PROVE  confirm'[c].readAt <= proposal'[confirm'[c].proposal].expiresAt
  BY DEF ReadInTime
<1>1. ASSUME NEW p \in Proposals, ReadProposal(c, p)
      PROVE  confirm'[c].readAt <= proposal'[confirm'[c].proposal].expiresAt
  <2>1. proposal[p] \in Row /\ clock \in Nat /\ proposal' = proposal
    BY <1>1 DEF ReadProposal, ProposalsInv, ProposalsTypeOK
  <2>2. confirm'[c].proposal = p /\ confirm'[c].readAt = clock /\ clock <= proposal[p].expiresAt
    BY <1>1, <2>1 DEF ReadProposal, ProposalsInv, ProposalsTypeOK, Row
  <2> QED
    BY <2>1, <2>2
<1>2. CASE Stays(c)
  <2>1. confirm[c].pc \in {"validate", "execute", "mark"}
    BY <1>2 DEF Stays, Ended, ProposalsInv, ProposalsTypeOK
  <2> QED
    BY <1>2, <2>1 DEF Stays, Kept, ProposalsInv, ReadInTime, Referenced
<1> QED
  BY <1>1, <1>2, Moves

------------------------------------------------------------------------------
(* Effects.                                                                *)

\* Only its own execution gives a confirmation an effect, and takes it to its mark.
LEMMA Effects ==
    ASSUME ProposalsInv, ProposalsNext, NEW c \in Confirms
    PROVE  /\ Effective(c)' => Effective(c) \/ Execute(c)
           /\ confirm'[c].pc = "mark" => confirm'[c] = confirm[c] \/ Execute(c)
<1> USE DEF ProposalsInv, ProposalsTypeOK
<1>1. ASSUME NEW d \in Confirms, NEW p \in Proposals, ReadProposal(d, p)
      PROVE  /\ Effective(c)' => Effective(c)
             /\ confirm'[c].pc = "mark" => confirm'[c] = confirm[c]
  BY <1>1 DEF ReadProposal, Effective
<1>2. ASSUME NEW d \in Confirms, MarkExpired(d) \/ Validate(d) \/ MarkExecuted(d)
      PROVE  /\ Effective(c)' => Effective(c)
             /\ confirm'[c].pc = "mark" => confirm'[c] = confirm[c]
  BY <1>2 DEF MarkExpired, Validate, MarkExecuted, At, Effective
<1>3. ASSUME NEW d \in Confirms, Execute(d), d # c
      PROVE  /\ Effective(c)' => Effective(c)
             /\ confirm'[c].pc = "mark" => confirm'[c] = confirm[c]
  BY <1>3 DEF Execute, At, Effective
<1>4. CASE WebCrash
  BY <1>4 DEF WebCrash, Effective
<1> QED
  BY <1>1, <1>2, <1>3, <1>4
  DEF ProposalsNext, CreateProposal, ArchiveCategory, ChangeAccount, Pass, Effective

\* What an execution that is not refused does.
LEMMA Executes ==
    ASSUME ProposalsInv, NEW c \in Confirms, Execute(c)
    PROVE  /\ confirm'[c].pc # "idle" /\ confirm[c].pc = "execute"
           /\ confirm'[c].pc = "mark" =>
                 confirm'[c].result = c /\ Effect(c, Payload(c))' /\ Payload(c)' = Payload(c)
<1> USE DEF ProposalsInv, ProposalsTypeOK
<1>1. CASE ~PayloadFits(Payload(c))
  BY <1>1 DEF Execute, At
<1>2. CASE PayloadFits(Payload(c))
  <2>1. /\ confirm' = [confirm EXCEPT ![c].pc = "mark", ![c].result = c]
        /\ proposal' = proposal
    BY <1>2 DEF Execute
  <2>2. confirm'[c].proposal = confirm[c].proposal /\ confirm'[c].result = c
    BY <2>1
  <2>3. Payload(c)' = Payload(c)
    BY <2>1, <2>2 DEF Payload
  <2>4. Effect(c, Payload(c))'
    BY <1>2, <2>3 DEF Execute, Effect
  <2> QED
    BY <2>1, <2>2, <2>3, <2>4 DEF Execute
<1> QED
  BY <1>1, <1>2

\* A confirmation has its effect before it marks, and none before it begins.
LEMMA KeepsOwed ==
    ASSUME ProposalsInv, ProposalsNext, Kept
    PROVE  Owed'
<1>1. ASSUME NEW c \in Confirms, confirm'[c].pc = "mark"
      PROVE  confirm'[c].result = c /\ Effect(c, Payload(c))'
  <2>1. CASE Execute(c)
    BY <1>1, <2>1, Executes
  <2>2. CASE confirm'[c] = confirm[c]
    <3>1. confirm[c].result = c /\ Effect(c, Payload(c))
      BY <1>1, <2>2 DEF ProposalsInv, Owed
    <3>2. Payload(c)' = Payload(c)
      BY <1>1, <2>2 DEF ProposalsInv, Referenced, Kept, Payload
    <3> QED
      BY <2>2, <3>1, <3>2, EffectStays DEF Effect, Kept
  <2> QED
    BY <1>1, <2>1, <2>2, Effects
<1>2. ASSUME NEW c \in Confirms, Effective(c)'
      PROVE  confirm'[c].pc # "idle"
  <2>1. CASE Execute(c)
    BY <2>1, Executes
  <2>2. CASE Effective(c)
    BY <2>2, Moves DEF Stays, ReadProposal, ProposalsInv, Owed
  <2> QED
    BY <1>2, <2>1, <2>2, Effects
<1> QED
  BY <1>1, <1>2 DEF Owed, Effective

\* An effect comes only from a confirmation that was in time.
LEMMA KeepsConfirmedInTime ==
    ASSUME ProposalsInv, ProposalsNext, Kept
    PROVE  ConfirmedInTime'
<1> SUFFICES ASSUME NEW c \in Confirms, Effective(c)'
             PROVE  /\ proposal'[confirm'[c].proposal] # None
                    /\ confirm'[c].readAt <= proposal'[confirm'[c].proposal].expiresAt
  BY DEF ConfirmedInTime, Effective
<1>1. confirm[c].pc # "idle"
  BY Effects, Executes DEF ProposalsInv, Owed
<1>2. Stays(c)
  BY <1>1, Moves DEF ReadProposal
<1>3. /\ confirm'[c].proposal = confirm[c].proposal /\ confirm'[c].readAt = confirm[c].readAt
      /\ confirm[c].proposal \in Proposals /\ proposal[confirm[c].proposal] # None
  BY <1>1, <1>2 DEF Stays, ProposalsInv, Referenced
<1>4. confirm[c].readAt <= proposal[confirm[c].proposal].expiresAt
  <2>1. CASE Effective(c)
    BY <2>1 DEF Effective, ProposalsInv, ConfirmedInTime
  <2>2. CASE Execute(c)
    BY <2>2 DEF Execute, ProposalsInv, ReadInTime
  <2> QED
    BY <2>1, <2>2, Effects
<1> QED
  BY <1>3, <1>4 DEF Kept

\* A proposal becomes executed by a confirmation of it that has had its effect.
LEMMA KeepsExecuted ==
    ASSUME ProposalsInv, ProposalsNext, Kept, NEW p \in Proposals,
           proposal'[p] # None, proposal'[p].status = "executed"
    PROVE  /\ proposal'[p].result # None
           /\ confirm'[proposal'[p].result].proposal = p
           /\ Effect(proposal[p].result, proposal[p].payload)'
<1> USE ProposalsAssumption DEF ProposalsInv, ProposalsTypeOK
<1>1. CASE proposal[p] # None /\ proposal'[p] = proposal[p]
  <2>1. PICK c \in Confirms : /\ c = proposal[p].result /\ confirm[c].proposal = p
                              /\ Effect(c, proposal[p].payload)
    BY <1>1 DEF ExecutedHasEffect, Row
  <2>2. confirm[c].pc # "idle"
    BY <2>1 DEF Referenced, Idle
  <2>3. confirm'[c].proposal = p
    BY <2>1, <2>2, Moves DEF Stays, ReadProposal
  <2>4. Effect(proposal[p].result, proposal[p].payload)'
    BY <1>1, <2>1 DEF Effect, Kept
  <2> QED
    BY <1>1, <2>1, <2>3, <2>4
<1>2. ASSUME NEW c \in Confirms, MarkExecuted(c), confirm[c].proposal = p
      PROVE  /\ proposal'[p].result # None
             /\ confirm'[proposal'[p].result].proposal = p
             /\ Effect(proposal[p].result, proposal[p].payload)'
  <2>1. proposal[p] \in Row
    BY <1>2 DEF MarkExecuted, Referenced
  <2>2. /\ confirm[c].result = c /\ Effect(c, proposal[p].payload)
    BY <1>2 DEF MarkExecuted, Owed, Payload
  <2>3. proposal'[p].result = c /\ proposal'[p].payload = proposal[p].payload
    BY <1>2, <2>1, <2>2 DEF MarkExecuted, Row
  <2>4. confirm'[c].proposal = p
    BY <1>2 DEF MarkExecuted, At
  <2>5. Effect(c, proposal[p].payload)'
    BY <1>2, <2>2 DEF MarkExecuted, Effect
  <2> QED
    BY <2>3, <2>4, <2>5
<1>3. ASSUME NEW q \in Proposals, NEW payload \in Payloads, CreateProposal(q, payload)
      PROVE  proposal[p] # None /\ proposal'[p] = proposal[p]
  BY <1>3 DEF CreateProposal
<1>4. ASSUME NEW c \in Confirms, MarkExpired(c)
      PROVE  proposal[p] # None /\ proposal'[p] = proposal[p]
  BY <1>4 DEF MarkExpired, Referenced, Row
<1>5. ASSUME NEW c \in Confirms, MarkExecuted(c), confirm[c].proposal # p
      PROVE  proposal[p] # None /\ proposal'[p] = proposal[p]
  BY <1>5 DEF MarkExecuted
<1> QED
  BY <1>1, <1>2, <1>3, <1>4, <1>5
  DEF ProposalsNext, ReadProposal, Validate, Execute, WebCrash, ArchiveCategory,
      ChangeAccount, Pass

\* A repeated answer is that of the execution it read.
LEMMA KeepsRepeated ==
    ASSUME ProposalsInv, ProposalsNext, Kept, NEW c \in Confirms, confirm'[c].pc = "repeated"
    PROVE  confirm'[c].result # None /\ Effect(confirm[c].result, Payload(c))'
<1> USE DEF ProposalsInv, ProposalsTypeOK
<1>1. ASSUME NEW p \in Proposals, ReadProposal(c, p)
      PROVE  confirm'[c].result # None /\ Effect(confirm[c].result, Payload(c))'
  <2>1. /\ proposal[p] # None /\ proposal[p].status = "executed"
        /\ confirm'[c].result = proposal[p].result /\ confirm'[c].proposal = p
        /\ proposal' = proposal
    BY <1>1 DEF ReadProposal
  <2>2. proposal[p].result # None /\ Effect(proposal[p].result, proposal[p].payload)
    BY <2>1 DEF ExecutedHasEffect
  <2>3. Payload(c)' = proposal[p].payload
    BY <2>1 DEF Payload
  <2> QED
    BY <1>1, <2>1, <2>2, <2>3 DEF Effect, ReadProposal
<1>2. CASE confirm'[c] = confirm[c]
  <2>1. confirm[c].result # None /\ Effect(confirm[c].result, Payload(c))
    BY <1>2 DEF ExecutedHasEffect
  <2>2. Payload(c)' = Payload(c)
    BY <1>2 DEF Payload, Referenced, Kept
  <2> QED
    BY <1>2, <2>1, <2>2 DEF Effect, Kept
<1>3. ASSUME NEW d \in Confirms,
             \/ \E p \in Proposals : ReadProposal(d, p) /\ d # c
             \/ MarkExpired(d) \/ Validate(d) \/ Execute(d) \/ MarkExecuted(d)
      PROVE  confirm'[c] = confirm[c]
  BY <1>3 DEF ReadProposal, MarkExpired, Validate, Execute, MarkExecuted, At
<1>4. ASSUME WebCrash
      PROVE  confirm'[c] = confirm[c]
  BY <1>4 DEF WebCrash
<1> QED
  BY <1>1, <1>2, <1>3, <1>4
  DEF ProposalsNext, CreateProposal, ArchiveCategory, ChangeAccount, Pass

------------------------------------------------------------------------------
(* The theorems.                                                           *)

\* Without proposals and confirmations the invariant holds.
LEMMA ProposalsStart == Init => ProposalsInv
<1> SUFFICES ASSUME Init PROVE ProposalsInv
  OBVIOUS
<1>1. ProposalsTypeOK
  BY ProposalsAssumption DEF Init, ProposalsInit, ProposalsTypeOK, Idle, Ended
<1>2. Referenced /\ Owed /\ ReadInTime /\ ConfirmedInTime /\ ExecutedHasEffect
  BY <1>1 DEF Init, ProposalsInit, Referenced, Owed, Effective, ReadInTime, ConfirmedInTime,
              ExecutedHasEffect, Idle
<1> QED
  BY <1>1, <1>2 DEF ProposalsInv

\* Every step keeps the invariant of proposals.
LEMMA ProposalsStep == ProposalsInv /\ [Next]_vars => ProposalsInv'
<1> SUFFICES ASSUME ProposalsInv, [Next]_vars PROVE ProposalsInv'
  OBVIOUS
<1>1. CASE ProposalsNext
  <2>1. ProposalsTypeOK' /\ Kept
    BY <1>1, ProposalsTypes, Keeps
  <2>2. Referenced' /\ ReadInTime' /\ Owed' /\ ConfirmedInTime'
    BY <1>1, <2>1, KeepsReferences, KeepsReadInTime, KeepsOwed, KeepsConfirmedInTime
  <2>3. ExecutedHasEffect'
    BY <1>1, <2>1, KeepsExecuted, KeepsRepeated DEF ExecutedHasEffect
  <2> QED
    BY <2>1, <2>2, <2>3 DEF ProposalsInv
<1>2. CASE UNCHANGED proposalVars
  <2>1. ProposalsTypeOK'
    BY <1>2 DEF proposalVars, ProposalsInv, ProposalsTypeOK
  <2>2. Referenced' /\ Owed' /\ ReadInTime'
    BY <1>2 DEF proposalVars, ProposalsInv, Referenced, Owed, ReadInTime, Effective, Effect,
                Payload
  <2>3. ConfirmedInTime' /\ ExecutedHasEffect'
    BY <1>2, <2>1 DEF proposalVars, ProposalsInv, ConfirmedInTime, ExecutedHasEffect, Effect,
                      Payload
  <2> QED
    BY <2>1, <2>2, <2>3 DEF ProposalsInv
<1> QED
  BY <1>1, <1>2, Halves

\* The invariant holds in every behaviour of the advisor.
THEOREM AdvisorProposalsInvariant == Spec => []ProposalsInv
  BY ProposalsStart, ProposalsStep, PTL DEF Spec

\* A proposal shown as executed took effect, by a confirmation of it, and so did
\* one whose stored result answers a confirmation again.
THEOREM AdvisorExecutedHasEffect == Spec => []ExecutedHasEffect
<1>1. ProposalsInv => ExecutedHasEffect
  BY DEF ProposalsInv
<1> QED
  BY <1>1, AdvisorProposalsInvariant, PTL

\* Only a confirmation that read its proposal in time changes anything.
THEOREM AdvisorConfirmedInTime == Spec => []ConfirmedInTime
<1>1. ProposalsInv => ConfirmedInTime
  BY DEF ProposalsInv
<1> QED
  BY <1>1, AdvisorProposalsInvariant, PTL

------------------------------------------------------------------------------
(* Conversations.  A request and a removal of its conversation overlap as  *)
(* they please; what holds of the messages follows from how far each       *)
(* request got, as long as nobody has begun to delete the conversation.    *)

ConversationsNext ==
    \/ \E a \in Asks : \E question \in Questions[a] : AskQuestion(a, question)
    \/ \E a \in Asks : RunTool(a) \/ CollectFacts(a) \/ ProviderFails(a) \/ EnsureThread(a)
                          \/ CheckThread(a) \/ InsertMessage(a)
    \/ \E a \in Asks : \E response \in Responses : Explain(a, response)
    \/ \E t \in Threads : ArchiveThread(t) \/ RestoreThread(t) \/ DeleteMessages(t)
                             \/ DeleteThread(t)
    \/ EditData \/ Tick

\* A step of the advisor is one of conversations, or leaves them alone.
LEMMA ConversationsHalf ==
    ASSUME [Next]_vars
    PROVE  ConversationsNext \/ UNCHANGED conversationVars
  BY DEF Next, vars, ConversationsRest, ConversationsNext

\* The fields of a request.
Fields ==
    {"pc", "question", "plan", "tools", "facts", "attempt", "thread", "role", "answer"}

AskPc ==
    {"idle", "refused", "tools", "explain", "thread", "check", "insert", "done", "failed"}

Asked(record) ==
    /\ record = [field \in Fields |-> record[field]]
    /\ record.pc \in AskPc
    /\ record.attempt \in 0..MaxRetries /\ record.role \in {"user", "assistant"}
    /\ record.thread \in Threads \union {None}
    /\ record.answer.text \in Texts \union {None}
    /\ record.pc # "tools" => DOMAIN record.facts \subseteq 1..MaxFacts
    /\ record.pc \in {"check", "insert"} => record.thread # None
    /\ record.pc \in {"tools", "explain", "thread"} => record.role = "user"
    /\ record.pc = "done" => record.role = "assistant"

Messages == [ask : Asks, role : {"user", "assistant"}]

Shape ==
    /\ ask = [a \in Asks |-> ask[a]] /\ \A a \in Asks : Asked(ask[a])
    /\ thread \in [Threads -> {"none", "open", "archived", "deleted"}]
    /\ removal \in [Threads -> {"no", "messages", "done", "failed"}]
    /\ messages \in [Threads -> Seq(Messages)]
    /\ data \in Databases /\ now \in 0..MaxTime /\ edits \in 0..MaxEdits
    /\ bucket = None \/ bucket \in [start : 0..now, count : 0..RateMax]
    /\ edited \subseteq Asks

\* A conversation that is gone, or not there yet, is empty.
Gone == \A t \in Threads : thread[t] \in {"none", "deleted"} => messages[t] = <<>>

\* A message is in the conversation of its request, which got that far.
Sent ==
    \A t \in Threads : \A i \in DOMAIN messages[t] :
       LET m == messages[t][i]
       IN /\ ask[m.ask].thread = t
          /\ ask[m.ask].pc \in {"check", "insert", "done", "failed"}
          /\ ask[m.ask].role = "assistant"
          /\ m.role = "assistant" => ask[m.ask].pc = "done"

\* What a request has sent to a conversation that nobody deletes.
Ordered ==
    \A a \in Asks : ask[a].thread # None /\ removal[ask[a].thread] = "no" =>
       /\ \A role \in {"user", "assistant"} : \A i, j \in Positions(a, role) : i = j
       /\ ask[a].role = "assistant" => Positions(a, "user") # {}
       /\ ask[a].pc = "done" => Positions(a, "assistant") # {}
       /\ \A i \in Positions(a, "assistant") : \E j \in Positions(a, "user") : j < i

ConversationsInv == Shape /\ Gone /\ Sent /\ Ordered

\* What a step may make of a request: before it has a message anywhere all but its
\* role and its end are open, later it keeps its place.
AskMove(a, record) ==
    /\ Asked(record)
    /\ \/ /\ ask[a].pc \in {"idle", "tools", "explain", "thread"}
          /\ record.role = "user" /\ record.pc # "done"
       \/ /\ ask[a].pc \in {"check", "insert"}
          /\ record.thread = ask[a].thread /\ record.role = ask[a].role
          /\ record.pc \in {"insert", "failed"}

Moved(a) ==
    \E record : /\ ask' = [ask EXCEPT ![a] = record] /\ AskMove(a, record)
                /\ UNCHANGED <<messages, removal>>

Inserted(a) ==
    /\ ask[a].pc = "insert" /\ thread[ask[a].thread] \in {"open", "archived"}
    /\ ask' = [ask EXCEPT ![a] = Appended(a)]
    /\ messages' = [messages EXCEPT ![ask[a].thread] = Append(@, Message(a))]
    /\ UNCHANGED <<thread, removal>>

\* No facts yet.
LEMMA NoFacts == DOMAIN <<>> \subseteq 1..MaxFacts
  OBVIOUS

\* A record that is put together from its fields.
LEMMA Assembled ==
    ASSUME NEW pc \in AskPc, NEW question, NEW plan, NEW tools, NEW facts,
           NEW attempt \in 0..MaxRetries, NEW to \in Threads \union {None},
           NEW role \in {"user", "assistant"}, NEW answer,
           answer.text \in Texts \union {None},
           pc # "tools" => DOMAIN facts \subseteq 1..MaxFacts,
           pc \in {"check", "insert"} => to # None,
           pc \in {"tools", "explain", "thread"} => role = "user",
           pc = "done" => role = "assistant"
    PROVE  Asked([pc |-> pc, question |-> question, plan |-> plan, tools |-> tools,
                  facts |-> facts, attempt |-> attempt, thread |-> to, role |-> role,
                  answer |-> answer])
  BY DEF Asked, Fields

\* A question that was planned is a request of the right shape.
LEMMA AskingAsked ==
    ASSUME NEW question, question.thread \in Threads \union {None}, NEW plan,
           NEW pc \in {"thread", "tools"}, NEW tools, NEW answer,
           answer.text \in Texts \union {None}
    PROVE  /\ Asked(Asking(question, plan, pc, tools, answer))
           /\ Asking(question, plan, pc, tools, answer).role = "user"
           /\ Asking(question, plan, pc, tools, answer).pc = pc
<1>1. pc \in AskPc /\ 0 \in 0..MaxRetries
  BY ConversationsAssumption DEF AskPc
<1> QED
  BY <1>1, NoFacts, Assembled DEF Asking

\* What a question becomes.
LEMMA PlannedAsked ==
    ASSUME NEW question, question.thread \in Threads \union {None}, NEW plan
    PROVE  LET planned == Planned(question, plan)
           IN Asked(planned) /\ planned.role = "user" /\ planned.pc \in {"thread", "tools"}
<1>1. ASSUME NEW text \in Texts
      PROVE  [NoAnswer EXCEPT !.text = text].text \in Texts
  BY DEF NoAnswer
<1>2. NoAnswer.text \in Texts \union {None}
  BY DEF NoAnswer
<1>3. CASE plan.needsClarification
  <2>1. Planned(question, plan) = Asking(question, plan, "thread", <<>>,
                                         [NoAnswer EXCEPT !.text = "clarification"])
    BY <1>3 DEF Planned
  <2>2. [NoAnswer EXCEPT !.text = "clarification"].text \in Texts \union {None}
    BY <1>1 DEF Texts
  <2> QED
    BY <2>1, <2>2, AskingAsked, ZenonT(30)
<1>4. CASE ~ plan.needsClarification /\ plan.topic = "unsupported"
  <2>1. Planned(question, plan) = Asking(question, plan, "thread", <<>>,
                                         [NoAnswer EXCEPT !.text = "unsupported"])
    BY <1>4 DEF Planned
  <2>2. [NoAnswer EXCEPT !.text = "unsupported"].text \in Texts \union {None}
    BY <1>1 DEF Texts
  <2> QED
    BY <2>1, <2>2, AskingAsked, ZenonT(30)
<1>5. CASE ~ plan.needsClarification /\ plan.topic # "unsupported"
  <2>1. Planned(question, plan) = Asking(question, plan, "tools",
                                         FirstOf(plan.tools, MaxToolCalls), NoAnswer)
    BY <1>5 DEF Planned
  <2> QED
    BY <1>2, <2>1, AskingAsked
<1> QED
  BY <1>3, <1>4, <1>5

\* A question asked moves its request alone.
LEMMA Questioned ==
    ASSUME Shape, NEW a \in Asks, NEW question \in Questions[a], AskQuestion(a, question)
    PROVE  Moved(a)
<1> DEFINE planned == Planned(question, PlanAdvisorRequest(question, Today, CurrenciesInUse))
           refused == [Unasked EXCEPT !.pc = "refused"]
<1>1. question.thread \in Threads \union {None}
  BY ConversationsAssumption
<1>2. Asked(refused) /\ refused.role = "user" /\ refused.pc = "refused"
  <2>1. refused = [pc |-> "refused", question |-> None, plan |-> None, tools |-> <<>>,
                   facts |-> <<>>, attempt |-> 0, thread |-> None, role |-> "user",
                   answer |-> NoAnswer]
    BY DEF Unasked
  <2>2. NoAnswer.text \in Texts \union {None} /\ "refused" \in AskPc /\ 0 \in 0..MaxRetries
    BY ConversationsAssumption DEF NoAnswer, AskPc
  <2> QED
    BY <2>1, <2>2, NoFacts, Assembled, SMTT(30)
<1>5. Asked(planned) /\ planned.role = "user" /\ planned.pc \in {"thread", "tools"}
  BY <1>1, PlannedAsked
<1>6. ask[a].pc = "idle" /\ UNCHANGED <<messages, removal>>
  BY DEF AskQuestion
<1>7. ask' = [ask EXCEPT ![a] = refused] \/ ask' = [ask EXCEPT ![a] = planned]
  BY DEF AskQuestion, Set
<1> HIDE DEF planned, refused
<1>8. AskMove(a, refused) /\ AskMove(a, planned)
  BY <1>2, <1>5, <1>6 DEF AskMove
<1> QED
  BY <1>6, <1>7, <1>8 DEF Moved

\* A request that goes on with some of its fields changed.
LEMMA GoesOn ==
    ASSUME Shape, NEW a \in Asks, NEW record, ask' = [ask EXCEPT ![a] = record],
           AskMove(a, record), UNCHANGED <<messages, removal>>
    PROVE  Moved(a)
  BY DEF Moved

\* A tool was called, or the facts are complete.
LEMMA WorkMoves ==
    ASSUME Shape, NEW a \in Asks, RunTool(a) \/ CollectFacts(a) \/ ProviderFails(a)
    PROVE  Moved(a)
<1>1. Asked(ask[a])
  BY DEF Shape
<1>2. CASE RunTool(a)
  <2>1. PICK tools, facts :
           ask' = [ask EXCEPT ![a] = [ask[a] EXCEPT !.tools = tools, !.facts = facts]]
    BY <1>2 DEF RunTool, Set
  <2>2. ask[a].pc = "tools" /\ UNCHANGED <<messages, removal>>
    BY <1>2 DEF RunTool
  <2>3. AskMove(a, [ask[a] EXCEPT !.tools = tools, !.facts = facts])
    BY <1>1, <2>2 DEF AskMove, Asked, Fields
  <2> QED
    BY <2>1, <2>2, <2>3, GoesOn
<1>3. CASE CollectFacts(a)
  <2> DEFINE facts == Numbered(ask[a].facts)
             noData == [NoAnswer EXCEPT !.text = "noData"]
             found == [ask[a] EXCEPT !.facts = facts]
  <2>1. ask[a].pc = "tools" /\ UNCHANGED <<messages, removal>>
    BY <1>3 DEF CollectFacts
  <2>2. DOMAIN facts \subseteq 1..MaxFacts
    BY DEF Numbered, FirstOf
  <2>3. noData.text \in Texts \union {None}
    BY DEF NoAnswer, Texts
  <2>4. \/ ask' = [ask EXCEPT ![a] = [found EXCEPT !.pc = "thread", !.answer = noData]]
        \/ ask' = [ask EXCEPT ![a] = [found EXCEPT !.pc = "explain"]]
    BY <1>3 DEF CollectFacts, Set
  <2> HIDE DEF facts, noData
  <2>5. AskMove(a, [found EXCEPT !.pc = "thread", !.answer = noData])
    BY <1>1, <2>1, <2>2, <2>3 DEF AskMove, Asked, Fields, AskPc
  <2>6. AskMove(a, [found EXCEPT !.pc = "explain"])
    BY <1>1, <2>1, <2>2 DEF AskMove, Asked, Fields, AskPc
  <2> HIDE DEF found
  <2> QED
    BY <2>1, <2>4, <2>5, <2>6, GoesOn
<1>4. CASE ProviderFails(a)
  <2>1. ask[a].pc = "explain" /\ UNCHANGED <<messages, removal>>
    BY <1>4 DEF ProviderFails
  <2>2. AskMove(a, [ask[a] EXCEPT !.pc = "failed"])
    BY <1>1, <2>1 DEF AskMove, Asked, Fields, AskPc
  <2> QED
    BY <1>4, <2>1, <2>2, GoesOn DEF ProviderFails, Fail, Set
<1> QED
  BY <1>2, <1>3, <1>4

\* A call of the provider.
LEMMA AnswerMoves ==
    ASSUME Shape, NEW a \in Asks, NEW response \in Responses, Explain(a, response)
    PROVE  Moved(a)
<1>0. Asked(ask[a])
  BY DEF Shape
<1> DEFINE answer == Answered(a, response)
<1>1. ask[a].pc = "explain" /\ UNCHANGED <<messages, removal>>
  BY DEF Explain
<1>2. answer.text \in Texts
  BY DEF Answered, Texts
<1>3. \/ ask' = [ask EXCEPT ![a] = [ask[a] EXCEPT !.pc = "thread", !.answer = answer]]
      \/ /\ ask[a].attempt < MaxRetries
         /\ ask' = [ask EXCEPT ![a] = [ask[a] EXCEPT !.attempt = @ + 1]]
      \/ ask' = [ask EXCEPT ![a] = [ask[a] EXCEPT !.pc = "failed"]]
  BY DEF Explain, Set, Fail
<1> HIDE DEF answer
<1>4. AskMove(a, [ask[a] EXCEPT !.pc = "thread", !.answer = answer])
  BY <1>0, <1>1, <1>2 DEF AskMove, Asked, Fields, AskPc
<1>5. ask[a].attempt < MaxRetries => AskMove(a, [ask[a] EXCEPT !.attempt = @ + 1])
  <2>1. ask[a].attempt < MaxRetries => ask[a].attempt + 1 \in 0..MaxRetries
    BY <1>0, ConversationsAssumption DEF Asked
  <2> QED
    BY <1>0, <1>1, <2>1 DEF AskMove, Asked, Fields, AskPc
<1>6. AskMove(a, [ask[a] EXCEPT !.pc = "failed"])
  BY <1>0, <1>1 DEF AskMove, Asked, Fields, AskPc
<1> QED
  BY <1>1, <1>3, <1>4, <1>5, <1>6, GoesOn

\* The conversation that it goes to.
LEMMA PlacedMoves ==
    ASSUME Shape, NEW a \in Asks, EnsureThread(a) \/ CheckThread(a)
    PROVE  Moved(a)
<1>1. Asked(ask[a])
  BY DEF Shape
<1>2. CASE EnsureThread(a)
  <2>1. ask[a].pc = "thread" /\ UNCHANGED <<messages, removal>>
    BY <1>2 DEF EnsureThread
  <2>2. CASE ask[a].thread # None
    <3>1. AskMove(a, [ask[a] EXCEPT !.pc = "check"])
      BY <1>1, <2>1, <2>2 DEF AskMove, Asked, Fields, AskPc
    <3> QED
      BY <1>2, <2>1, <2>2, <3>1, GoesOn DEF EnsureThread, Set
  <2>3. CASE ask[a].thread = None
    <3>1. PICK t \in Threads :
             ask' = [ask EXCEPT ![a] = [ask[a] EXCEPT !.pc = "check", !.thread = t]]
      BY <1>2, <2>3 DEF EnsureThread, Set
    <3>2. t # None
      BY ConversationsAssumption
    <3>3. AskMove(a, [ask[a] EXCEPT !.pc = "check", !.thread = t])
      BY <1>1, <2>1, <3>2 DEF AskMove, Asked, Fields, AskPc
    <3> QED
      BY <2>1, <3>1, <3>3, GoesOn
  <2> QED
    BY <2>2, <2>3
<1>3. CASE CheckThread(a)
  <2>1. ask[a].pc = "check" /\ UNCHANGED <<messages, removal>>
    BY <1>3 DEF CheckThread
  <2>2. AskMove(a, [ask[a] EXCEPT !.pc = "insert"]) /\ AskMove(a, [ask[a] EXCEPT !.pc = "failed"])
    BY <1>1, <2>1 DEF AskMove, Asked, Fields, AskPc
  <2>3. \/ ask' = [ask EXCEPT ![a] = [ask[a] EXCEPT !.pc = "insert"]]
        \/ ask' = [ask EXCEPT ![a] = [ask[a] EXCEPT !.pc = "failed"]]
    BY <1>3 DEF CheckThread, Set, Fail
  <2> QED
    BY <2>1, <2>2, <2>3, GoesOn
<1> QED
  BY <1>2, <1>3

\* A message is inserted, or its conversation is gone.
LEMMA InsertMoves ==
    ASSUME Shape, NEW a \in Asks, InsertMessage(a)
    PROVE  Moved(a) \/ Inserted(a)
<1>1. Asked(ask[a]) /\ ask[a].pc = "insert" /\ UNCHANGED removal
  BY DEF Shape, InsertMessage
<1>2. CASE thread[ask[a].thread] \in {"open", "archived"}
  BY <1>1, <1>2 DEF InsertMessage, Inserted, Set
<1>3. CASE thread[ask[a].thread] \notin {"open", "archived"}
  <2>1. AskMove(a, [ask[a] EXCEPT !.pc = "failed"])
    BY <1>1 DEF AskMove, Asked, Fields, AskPc
  <2> QED
    BY <1>1, <1>3, <2>1, GoesOn DEF InsertMessage, Fail, Set
<1> QED
  BY <1>2, <1>3

\* What becomes of the messages when no request is at work.
Tidied ==
    /\ UNCHANGED ask
    /\ \A t \in Threads :
          /\ messages'[t] = messages[t] \/ (messages'[t] = <<>> /\ removal'[t] # "no")
          /\ removal'[t] = "no" => removal[t] = "no"
    /\ messages' \in [Threads -> Seq(Messages)]
    /\ removal' \in [Threads -> {"no", "messages", "done", "failed"}]

\* A step that leaves requests, messages and deletions alone is of this kind.
LEMMA KeepingTidies ==
    ASSUME Shape, UNCHANGED <<ask, messages, removal>>
    PROVE  Tidied
  BY DEF Tidied, Shape

\* A deletion empties the conversation it deletes, and no other.
LEMMA RemovalTidies ==
    ASSUME Shape, NEW t \in Threads, DeleteMessages(t) \/ DeleteThread(t)
    PROVE  Tidied
<1>1. CASE DeleteMessages(t)
  <2>1. <<>> \in Seq(Messages)
    OBVIOUS
  <2> QED
    BY <1>1, <2>1 DEF DeleteMessages, Tidied, Shape
<1>2. CASE DeleteThread(t)
  <2>1. UNCHANGED <<ask, messages>> /\ removal[t] = "messages"
    BY <1>2 DEF DeleteThread
  <2>2. \E end \in {"done", "failed"} : removal' = [removal EXCEPT ![t] = end]
    BY <1>2 DEF DeleteThread
  <2> QED
    BY <2>1, <2>2 DEF Tidied, Shape
<1> QED
  BY <1>1, <1>2

\* Three kinds of step.
LEMMA ConversationKinds ==
    ASSUME Shape, ConversationsNext \/ UNCHANGED conversationVars
    PROVE  (\E a \in Asks : Moved(a) \/ Inserted(a)) \/ Tidied
<1>1. ASSUME NEW a \in Asks, NEW question \in Questions[a], AskQuestion(a, question)
      PROVE  Moved(a)
  BY <1>1, Questioned
<1>2. ASSUME NEW a \in Asks, RunTool(a) \/ CollectFacts(a) \/ ProviderFails(a)
      PROVE  Moved(a)
  BY <1>2, WorkMoves
<1>3. ASSUME NEW a \in Asks, EnsureThread(a) \/ CheckThread(a)
      PROVE  Moved(a)
  BY <1>3, PlacedMoves
<1>4. ASSUME NEW a \in Asks, NEW response \in Responses, Explain(a, response)
      PROVE  Moved(a)
  BY <1>4, AnswerMoves
<1>5. ASSUME NEW a \in Asks, InsertMessage(a)
      PROVE  Moved(a) \/ Inserted(a)
  BY <1>5, InsertMoves
<1>6. ASSUME NEW t \in Threads, ArchiveThread(t) \/ RestoreThread(t)
      PROVE  Tidied
  BY <1>6, KeepingTidies DEF ArchiveThread, RestoreThread
<1>7. ASSUME NEW t \in Threads, DeleteMessages(t) \/ DeleteThread(t)
      PROVE  Tidied
  BY <1>7, RemovalTidies
<1>8. CASE EditData \/ Tick \/ UNCHANGED conversationVars
  BY <1>8, KeepingTidies DEF EditData, Tick, conversationVars
<1> QED
  BY <1>1, <1>2, <1>3, <1>4, <1>5, <1>6, <1>7, <1>8 DEF ConversationsNext

\* A conversation begins or goes on, or its row goes once it has no messages.
ThreadMoves ==
    /\ thread' \in [Threads -> {"none", "open", "archived", "deleted"}]
    /\ \A t \in Threads :
          \/ thread'[t] = thread[t] \/ thread'[t] \in {"open", "archived"}
          \/ thread'[t] = "deleted" /\ messages'[t] = <<>>

\* A conversation is opened, archived, restored or deleted, and stays deleted.
LEMMA ThreadStep ==
    ASSUME Shape, ConversationsNext \/ UNCHANGED conversationVars
    PROVE  ThreadMoves
<1>1. \/ UNCHANGED thread
      \/ \E t \in Threads : \E to \in {"open", "archived"} : thread' = [thread EXCEPT ![t] = to]
      \/ \E t \in Threads : DeleteThread(t)
  BY DEF ConversationsNext, conversationVars, AskQuestion, RunTool, CollectFacts, Explain,
         ProviderFails, EnsureThread, CheckThread, InsertMessage, ArchiveThread, RestoreThread,
         DeleteMessages, EditData, Tick
<1>2. ASSUME NEW t \in Threads, DeleteThread(t)
      PROVE  ThreadMoves
  BY <1>2 DEF DeleteThread, Shape, ThreadMoves
<1> QED
  BY <1>1, <1>2 DEF Shape, ThreadMoves

\* What is not about messages keeps its shape.
LEMMA CountersStep ==
    ASSUME Shape, ConversationsNext \/ UNCHANGED conversationVars
    PROVE  /\ data' \in Databases /\ now' \in 0..MaxTime /\ edits' \in 0..MaxEdits
           /\ bucket' = None \/ bucket' \in [start : 0..now', count : 0..RateMax]
           /\ edited' \subseteq Asks
<1> USE ConversationsAssumption
<1>1. CASE UNCHANGED <<data, now, edits, bucket, edited>>
  BY <1>1 DEF Shape
<1>2. ASSUME NEW a \in Asks, NEW question \in Questions[a], AskQuestion(a, question)
      PROVE  /\ UNCHANGED <<data, now, edits, edited>>
             /\ bucket' \in [start : 0..now', count : 0..RateMax]
  <2>1. Bucket \in [start : 0..now, count : 0..RateMax]
    BY DEF Shape, Bucket
  <2>2. Bucket.count < RateMax =>
           [Bucket EXCEPT !.count = @ + 1] \in [start : 0..now, count : 0..RateMax]
    BY <2>1
  <2> QED
    BY <1>2, <2>1, <2>2 DEF AskQuestion
<1>3. CASE EditData
  <2>1. edits' \in 0..MaxEdits
    BY <1>3 DEF EditData, Shape
  <2> QED
    BY <1>3, <2>1 DEF EditData, Shape
<1>4. CASE Tick
  <2>1. now' \in 0..MaxTime /\ 0..now \subseteq 0..now'
    BY <1>4 DEF Tick, Shape
  <2> QED
    BY <1>4, <2>1 DEF Tick, Shape
<1>5. \/ UNCHANGED <<data, now, edits, bucket, edited>>
      \/ \E a \in Asks : \E question \in Questions[a] : AskQuestion(a, question)
      \/ EditData \/ Tick
  BY DEF ConversationsNext, conversationVars, RunTool, CollectFacts, Explain,
         ProviderFails, EnsureThread, CheckThread, InsertMessage, ArchiveThread, RestoreThread,
         DeleteMessages, DeleteThread
<1> QED
  BY <1>1, <1>2, <1>3, <1>4, <1>5 DEF Shape

\* What is appended, and by which request.
LEMMA AppendedAsked ==
    ASSUME Shape, NEW a \in Asks, ask[a].pc = "insert"
    PROVE  /\ Asked(Appended(a)) /\ Appended(a).thread = ask[a].thread
           /\ Appended(a).role = "assistant"
           /\ Appended(a).pc = (IF ask[a].role = "user" THEN "check" ELSE "done")
           /\ Message(a) \in Messages
<1>1. Asked(ask[a])
  BY DEF Shape
<1>2. Message(a) \in Messages
  BY <1>1 DEF Message, Messages, Asked
<1>3. CASE ask[a].role = "user"
  BY <1>1, <1>2, <1>3 DEF Appended, Asked, Fields, AskPc
<1>4. CASE ask[a].role # "user"
  BY <1>1, <1>2, <1>4 DEF Appended, Asked, Fields, AskPc
<1> QED
  BY <1>3, <1>4

\* Replacing one record of a function leaves the others.
LEMMA AskUpdate ==
    ASSUME NEW f, f = [b \in Asks |-> f[b]], \A b \in Asks : Asked(f[b]),
           NEW a \in Asks, NEW record, Asked(record), NEW g, g = [f EXCEPT ![a] = record]
    PROVE  g = [b \in Asks |-> g[b]] /\ \A b \in Asks : Asked(g[b])
<1>1. g = [b \in Asks |-> IF b = a THEN record ELSE f[b]]
  OBVIOUS
<1> QED
  BY <1>1

\* Replacing one request leaves the others.
LEMMA AskedAll ==
    ASSUME Shape, NEW a \in Asks, NEW record, Asked(record), ask' = [ask EXCEPT ![a] = record]
    PROVE  ask' = [b \in Asks |-> ask'[b]] /\ \A b \in Asks : Asked(ask'[b])
  BY AskUpdate DEF Shape

AskShape ==
    /\ ask = [a \in Asks |-> ask[a]] /\ \A a \in Asks : Asked(ask[a])
    /\ messages \in [Threads -> Seq(Messages)]
    /\ removal \in [Threads -> {"no", "messages", "done", "failed"}]

\* Every step keeps requests and messages in shape.
LEMMA ShapeStep ==
    ASSUME Shape, ConversationsNext \/ UNCHANGED conversationVars
    PROVE  Shape'
<1>1. ThreadMoves
  BY ThreadStep
<1>2. AskShape'
  <2>1. ASSUME NEW a \in Asks, Moved(a)
        PROVE  AskShape'
    <3>1. PICK record : ask' = [ask EXCEPT ![a] = record] /\ Asked(record)
      BY <2>1 DEF Moved, AskMove
    <3>2. ask' = [b \in Asks |-> ask'[b]] /\ \A b \in Asks : Asked(ask'[b])
      BY <3>1, AskedAll
    <3> QED
      BY <2>1, <3>2 DEF Moved, Shape, AskShape
  <2>2. ASSUME NEW a \in Asks, Inserted(a)
        PROVE  AskShape'
    <3>1. Asked(Appended(a)) /\ Message(a) \in Messages
      BY <2>2, AppendedAsked DEF Inserted
    <3>2. ask' = [b \in Asks |-> ask'[b]] /\ \A b \in Asks : Asked(ask'[b])
      <4>1. PICK record : ask' = [ask EXCEPT ![a] = record] /\ Asked(record)
        BY <2>2, <3>1 DEF Inserted
      <4> QED
        BY <4>1, AskedAll
    <3>3. messages' \in [Threads -> Seq(Messages)] /\ UNCHANGED removal
      <4>1. messages' = [messages EXCEPT ![ask[a].thread] = Append(@, Message(a))]
               /\ UNCHANGED removal
        BY <2>2 DEF Inserted
      <4>2. \A t \in Threads : Append(messages[t], Message(a)) \in Seq(Messages)
        BY <3>1 DEF Shape
      <4> QED
        BY <4>1, <4>2 DEF Shape
    <3> QED
      BY <3>2, <3>3 DEF Shape, AskShape
  <2>3. CASE Tidied
    BY <2>3 DEF Tidied, Shape, AskShape, Asked
  <2> QED
    BY <2>1, <2>2, <2>3, ConversationKinds
<1> QED
  BY <1>1, <1>2, CountersStep DEF Shape, AskShape, ThreadMoves, Asked

\* Every step leaves a conversation that is gone, or not there yet, empty.
LEMMA GoneStep ==
    ASSUME Shape, Gone, ConversationsNext \/ UNCHANGED conversationVars
    PROVE  Gone'
<1> SUFFICES ASSUME NEW t \in Threads, thread'[t] \in {"none", "deleted"}
             PROVE  messages'[t] = <<>>
  BY DEF Gone
<1>1. \/ thread'[t] = "deleted" /\ messages'[t] = <<>>
      \/ thread[t] \in {"none", "deleted"} /\ messages[t] = <<>> /\ thread'[t] = thread[t]
  BY ThreadStep DEF ThreadMoves, Gone
<1>2. ASSUME NEW a \in Asks, Moved(a)
      PROVE  UNCHANGED messages
  BY <1>2 DEF Moved
<1>3. ASSUME NEW a \in Asks, Inserted(a)
      PROVE  /\ thread[t] = thread'[t]
             /\ thread[t] \in {"none", "deleted"} => messages'[t] = messages[t]
  BY <1>3 DEF Inserted, Shape
<1>4. CASE Tidied
  BY <1>1, <1>4 DEF Tidied
<1> QED
  BY <1>1, <1>2, <1>3, <1>4, ConversationKinds

\* One request moves: the others, and where they wrote, are as they were.
LEMMA MovedOthers ==
    ASSUME Shape, NEW a \in Asks, Moved(a)
    PROVE  /\ \A b \in Asks \ {a} : ask'[b] = ask[b]
           /\ AskMove(a, ask'[a])
           /\ UNCHANGED <<messages, removal>>
  BY DEF Moved, Shape

\* An insertion appends one message to one conversation.
LEMMA InsertedOthers ==
    ASSUME Shape, NEW a \in Asks, Inserted(a)
    PROVE  /\ \A b \in Asks \ {a} : ask'[b] = ask[b]
           /\ ask'[a].thread = ask[a].thread /\ ask[a].thread \in Threads
           /\ ask'[a].role = "assistant"
           /\ ask'[a].pc = (IF ask[a].role = "user" THEN "check" ELSE "done")
           /\ \A t \in Threads \ {ask[a].thread} : messages'[t] = messages[t]
           /\ LET old == messages[ask[a].thread] new == messages'[ask[a].thread]
              IN /\ old \in Seq(Messages) /\ Len(new) = Len(old) + 1
                 /\ DOMAIN old = 1..Len(old) /\ DOMAIN new = 1..(Len(old) + 1)
                 /\ \A i \in DOMAIN old : new[i] = old[i]
                 /\ new[Len(old) + 1] = Message(a)
           /\ UNCHANGED removal
<1>1. Asked(ask[a]) /\ ask[a].pc = "insert"
  BY DEF Shape, Inserted
<1>2. ask[a].thread \in Threads
  BY <1>1 DEF Asked
<1>3. messages[ask[a].thread] \in Seq(Messages) /\ Message(a) \in Messages
  BY <1>1, <1>2, AppendedAsked DEF Shape
<1>4. ask'[a] = Appended(a) /\ \A b \in Asks \ {a} : ask'[b] = ask[b]
  BY DEF Shape, Inserted
<1>5. /\ messages'[ask[a].thread] = Append(messages[ask[a].thread], Message(a))
      /\ \A t \in Threads \ {ask[a].thread} : messages'[t] = messages[t]
  BY <1>2 DEF Shape, Inserted
<1>6. UNCHANGED removal
  BY DEF Inserted
<1> HIDE DEF Inserted
<1> QED
  BY <1>1, <1>2, <1>3, <1>4, <1>5, <1>6, AppendedAsked

\* A message comes from the request that sent it, once.
LEMMA SentStep ==
    ASSUME Shape, Sent, ConversationsNext \/ UNCHANGED conversationVars
    PROVE  Sent'
<1> SUFFICES ASSUME NEW t \in Threads, NEW i \in DOMAIN messages'[t]
             PROVE  LET m == messages'[t][i]
                    IN /\ ask'[m.ask].thread = t
                       /\ ask'[m.ask].pc \in {"check", "insert", "done", "failed"}
                       /\ ask'[m.ask].role = "assistant"
                       /\ m.role = "assistant" => ask'[m.ask].pc = "done"
  BY DEF Sent
<1> DEFINE m == messages'[t][i]
<1>1. m.ask \in Asks
  <2>1. messages'[t] \in Seq(Messages)
    BY ShapeStep DEF Shape
  <2>2. m \in Messages
    BY <2>1
  <2> QED
    BY <2>2 DEF Messages
<1>2. ASSUME NEW a \in Asks, Moved(a)
      PROVE  /\ ask'[m.ask].thread = t
             /\ ask'[m.ask].pc \in {"check", "insert", "done", "failed"}
             /\ ask'[m.ask].role = "assistant"
             /\ m.role = "assistant" => ask'[m.ask].pc = "done"
  <2>1. /\ \A b \in Asks \ {a} : ask'[b] = ask[b]
        /\ AskMove(a, ask'[a]) /\ messages' = messages
    BY <1>2, MovedOthers
  <2>2. /\ ask[m.ask].thread = t
        /\ ask[m.ask].pc \in {"check", "insert", "done", "failed"}
        /\ ask[m.ask].role = "assistant"
        /\ m.role = "assistant" => ask[m.ask].pc = "done"
    BY <2>1 DEF Sent
  <2>3. CASE m.ask # a
    BY <1>1, <2>1, <2>2, <2>3
  <2>4. CASE m.ask = a
    BY <2>1, <2>2, <2>4 DEF AskMove
  <2> QED
    BY <2>3, <2>4
<1>3. ASSUME NEW a \in Asks, Inserted(a)
      PROVE  /\ ask'[m.ask].thread = t
             /\ ask'[m.ask].pc \in {"check", "insert", "done", "failed"}
             /\ ask'[m.ask].role = "assistant"
             /\ m.role = "assistant" => ask'[m.ask].pc = "done"
  <2> DEFINE at == ask[a].thread
  <2>1. Asked(ask[a]) /\ ask[a].pc = "insert"
    BY <1>3 DEF Shape, Inserted
  <2>2. CASE t # at \/ i \in DOMAIN messages[t]
    <3>1. i \in DOMAIN messages[t] /\ m = messages[t][i]
      BY <1>3, <2>2, InsertedOthers
    <3>2. /\ ask[m.ask].thread = t
          /\ ask[m.ask].pc \in {"check", "insert", "done", "failed"}
          /\ ask[m.ask].role = "assistant"
          /\ m.role = "assistant" => ask[m.ask].pc = "done"
      BY <3>1 DEF Sent
    <3>3. CASE m.ask # a
      BY <1>1, <1>3, <3>2, <3>3, InsertedOthers
    <3>4. CASE m.ask = a
      BY <1>3, <2>1, <3>2, <3>4, InsertedOthers
    <3> QED
      BY <3>3, <3>4
  <2>3. CASE t = at /\ i \notin DOMAIN messages[t]
    <3>1. m = Message(a)
      <4>1. /\ DOMAIN messages[at] = 1..Len(messages[at])
            /\ DOMAIN messages'[at] = 1..(Len(messages[at]) + 1)
            /\ messages'[at][Len(messages[at]) + 1] = Message(a)
            /\ Len(messages[at]) \in Nat
        BY <1>3, InsertedOthers
      <4>2. i = Len(messages[at]) + 1
        BY <2>3, <4>1
      <4> QED
        BY <2>3, <4>1, <4>2
    <3>2. m.ask = a /\ m.role = ask[a].role
      BY <3>1 DEF Message
    <3> QED
      BY <1>3, <2>1, <2>3, <3>2, InsertedOthers, ZenonT(60) DEF Asked
  <2> QED
    BY <2>2, <2>3
<1>4. CASE Tidied
  <2>1. messages'[t] = messages[t] /\ ask' = ask
    BY <1>4 DEF Tidied
  <2> QED
    BY <2>1 DEF Sent
<1> QED
  BY <1>2, <1>3, <1>4, ConversationKinds

\* A request that has not got as far as a conversation has no message in any.
LEMMA NothingSent ==
    ASSUME Sent, NEW a \in Asks, ask[a].pc \in {"idle", "tools", "explain", "thread"}
    PROVE  \A t \in Threads : \A i \in DOMAIN messages[t] : messages[t][i].ask # a
  BY DEF Sent

OrderedAt(a) ==
    ask[a].thread # None /\ removal[ask[a].thread] = "no" =>
       /\ \A role \in {"user", "assistant"} : \A i, j \in Positions(a, role) : i = j
       /\ ask[a].role = "assistant" => Positions(a, "user") # {}
       /\ ask[a].pc = "done" => Positions(a, "assistant") # {}
       /\ \A i \in Positions(a, "assistant") : \E j \in Positions(a, "user") : j < i

\* A request stays where it is, and so do its messages.
LEMMA OrderedStays ==
    ASSUME NEW a \in Asks, OrderedAt(a),
           ask'[a].thread = ask[a].thread, ask'[a].role = ask[a].role,
           ask'[a].pc = ask[a].pc \/ ask'[a].pc # "done",
           removal'[ask[a].thread] = "no" =>
              /\ removal[ask[a].thread] = "no"
              /\ \A role \in {"user", "assistant"} : Positions(a, role)' = Positions(a, role)
    PROVE  OrderedAt(a)'
  BY DEF OrderedAt

\* A request that does not insert disturbs no order.
LEMMA OrderedMoved ==
    ASSUME Shape, Sent, NEW a \in Asks, OrderedAt(a), NEW b \in Asks, Moved(b)
    PROVE  OrderedAt(a)'
<1>1. UNCHANGED <<messages, removal>>
  BY MovedOthers
<1>2. CASE ask'[a].thread = ask[a].thread /\ ask'[a].role = ask[a].role
             /\ (ask'[a].pc = ask[a].pc \/ ask'[a].pc # "done")
  BY <1>1, <1>2, OrderedStays DEF Positions
<1>3. CASE a = b /\ ask[a].pc \in {"idle", "tools", "explain", "thread"}
             /\ ask'[a].role = "user" /\ ask'[a].pc # "done"
  <2>1. CASE ask'[a].thread = None
    BY <2>1 DEF OrderedAt
  <2>2. CASE ask'[a].thread # None
    <3>1. Asked(ask'[a])
      BY ShapeStep, MovedOthers, <1>3 DEF AskMove
    <3>2. ask'[a].thread \in Threads
      BY <2>2, <3>1 DEF Asked
    <3>3. \A role \in {"user", "assistant"} : Positions(a, role)' = {}
      BY <1>1, <1>3, <3>2, NothingSent DEF Positions
    <3> QED
      BY <1>3, <3>3 DEF OrderedAt
  <2> QED
    BY <2>1, <2>2
<1> QED
  BY <1>2, <1>3, MovedOthers DEF AskMove

\* A message inserted comes after the question it answers.
LEMMA OrderedInserted ==
    ASSUME Shape, Sent, NEW a \in Asks, OrderedAt(a), NEW b \in Asks, Inserted(b)
    PROVE  OrderedAt(a)'
<1> DEFINE at == ask[b].thread
           last == Len(messages[at]) + 1
<1>1. /\ at \in Threads /\ ask'[b].thread = at /\ removal' = removal
      /\ Len(messages[at]) \in Nat /\ DOMAIN messages[at] = 1..Len(messages[at])
      /\ DOMAIN messages'[at] = 1..last /\ messages'[at][last] = Message(b)
      /\ \A i \in DOMAIN messages[at] : messages'[at][i] = messages[at][i]
      /\ \A t \in Threads \ {at} : messages'[t] = messages[t]
      /\ \A c \in Asks \ {b} : ask'[c] = ask[c]
  BY InsertedOthers, SMTT(60)
<1>2. CASE a # b
  <2>1. ask'[a] = ask[a]
    BY <1>1, <1>2
  <2>2. CASE ask[a].thread = None
    BY <2>1, <2>2 DEF OrderedAt
  <2>3. CASE ask[a].thread # None
    <3>1. ask[a].thread \in Threads
      BY <2>3 DEF Shape, Asked
    <3>2. ASSUME NEW role \in {"user", "assistant"}
          PROVE  Positions(a, role)' = Positions(a, role)
      <4>1. CASE ask[a].thread # at
        BY <1>1, <2>1, <3>1, <4>1 DEF Positions
      <4>2. CASE ask[a].thread = at
        <5>1. messages'[at][last] # [ask |-> a, role |-> role]
          BY <1>1, <1>2 DEF Message
        <5>2. \A i : i \in 1..last <=> i \in DOMAIN messages[at] \/ i = last
          BY <1>1
        <5> QED
          BY <1>1, <2>1, <4>2, <5>1, <5>2, SMTT(30) DEF Positions
      <4> QED
        BY <4>1, <4>2
    <3> QED
      BY <1>1, <2>1, <3>2, OrderedStays
  <2> QED
    BY <2>2, <2>3
<1>3. CASE a = b
  <2> DEFINE role == ask[a].role
  <2>1. Asked(ask[a]) /\ ask[a].pc = "insert" /\ at # None /\ ask[a].thread = at
    BY <1>3 DEF Shape, Inserted, Asked
  <2>2. SUFFICES ASSUME removal[at] = "no"
                 PROVE  OrderedAt(a)'
    BY <1>1, <1>3 DEF OrderedAt
  <2>3. \A other \in {"user", "assistant"} :
           Positions(a, other)' =
              IF other = role THEN Positions(a, other) \union {last} ELSE Positions(a, other)
    <3> SUFFICES ASSUME NEW other \in {"user", "assistant"}
                 PROVE  Positions(a, other)' = IF other = role
                                               THEN Positions(a, other) \union {last}
                                               ELSE Positions(a, other)
      OBVIOUS
    <3> DEFINE row == [ask |-> a, role |-> other]
    <3>1. /\ Positions(a, other) = {i \in DOMAIN messages[at] : messages[at][i] = row}
          /\ Positions(a, other)' = {i \in DOMAIN messages'[at] : messages'[at][i] = row}
      BY <1>1, <1>3, <2>1 DEF Positions
    <3>2. DOMAIN messages'[at] = DOMAIN messages[at] \union {last}
      BY <1>1
    <3>3. messages'[at][last] = row <=> other = role
      BY <1>1, <1>3 DEF Message
    <3> HIDE DEF row, last, role
    <3>4. last \notin DOMAIN messages[at]
      BY <1>1 DEF last
    <3> QED
      BY <1>1, <3>1, <3>2, <3>3
  <2>4. \A other \in {"user", "assistant"} : \A i \in Positions(a, other) :
           /\ i \in 1..Len(messages[at]) /\ role = "assistant" /\ other = "user"
    <3> SUFFICES ASSUME NEW other \in {"user", "assistant"}, NEW i \in Positions(a, other)
                 PROVE  i \in 1..Len(messages[at]) /\ role = "assistant" /\ other = "user"
      OBVIOUS
    <3>1. i \in DOMAIN messages[at] /\ messages[at][i] = [ask |-> a, role |-> other]
      BY <2>1 DEF Positions
    <3> QED
      BY <1>1, <2>1, <3>1 DEF Sent
  <2>5. CASE role = "user"
    <3>1. Positions(a, "user")' = {last} /\ Positions(a, "assistant")' = {}
      <4>1. Positions(a, "user") = {} /\ Positions(a, "assistant") = {}
        BY <2>4, <2>5
      <4> HIDE DEF last
      <4> QED
        BY <2>3, <2>5, <4>1
    <3>2. ask'[a].pc = "check" /\ ask'[a].role = "assistant"
      BY <1>3, <2>5, InsertedOthers
    <3> HIDE DEF last
    <3> QED
      BY <3>1, <3>2 DEF OrderedAt
  <2>6. CASE role = "assistant"
    <3>1. /\ \A i, j \in Positions(a, "user") : i = j
          /\ Positions(a, "user") # {}
      BY <2>1, <2>2, <2>6 DEF OrderedAt
    <3>2. Positions(a, "user")' = Positions(a, "user") /\ Positions(a, "assistant")' = {last}
      <4>1. Positions(a, "assistant") = {}
        BY <2>4
      <4> HIDE DEF last
      <4> QED
        BY <2>3, <2>6, <4>1
    <3>3. \A j \in Positions(a, "user") : j < last
      BY <1>1, <2>4
    <3> HIDE DEF last
    <3> QED
      BY <3>1, <3>2, <3>3 DEF OrderedAt
  <2> QED
    BY <2>1, <2>5, <2>6 DEF Asked
<1> QED
  BY <1>2, <1>3

\* Every step keeps questions before their answers.
LEMMA OrderedStep ==
    ASSUME Shape, Sent, Ordered, ConversationsNext \/ UNCHANGED conversationVars
    PROVE  Ordered'
<1> SUFFICES ASSUME NEW a \in Asks
             PROVE  OrderedAt(a)'
  BY DEF Ordered, OrderedAt
<1>1. OrderedAt(a)
  BY DEF Ordered, OrderedAt
<1>2. CASE Tidied
  <2>1. ask'[a] = ask[a]
    BY <1>2 DEF Tidied
  <2>2. CASE ask[a].thread = None
    BY <2>1, <2>2 DEF OrderedAt
  <2>3. CASE ask[a].thread # None
    <3>1. ask[a].thread \in Threads
      BY <2>3 DEF Shape, Asked
    <3>2. removal'[ask[a].thread] = "no" =>
             removal[ask[a].thread] = "no" /\ messages'[ask[a].thread] = messages[ask[a].thread]
      BY <1>2, <3>1 DEF Tidied
    <3> QED
      BY <1>1, <2>1, <3>2, OrderedStays DEF Positions
  <2> QED
    BY <2>2, <2>3
<1> QED
  BY <1>1, <1>2, ConversationKinds, OrderedMoved, OrderedInserted

\* Without conversations the invariant holds.
LEMMA ConversationsStart == Init => ConversationsInv
<1> SUFFICES ASSUME Init
             PROVE  ConversationsInv
  OBVIOUS
<1> USE ConversationsAssumption
<1>1. ConversationsInit
  BY DEF Init
<1>2. Asked(Unasked)
  <2>1. NoAnswer.text \in Texts \union {None} /\ "idle" \in AskPc /\ 0 \in 0..MaxRetries
    BY DEF NoAnswer, AskPc
  <2> QED
    BY <2>1, NoFacts, Assembled DEF Unasked
<1>3. Shape
  <2>1. <<>> \in Seq(Messages) /\ 0 \in 0..MaxTime /\ 0 \in 0..MaxEdits
    OBVIOUS
  <2> QED
    BY <1>1, <1>2, <2>1 DEF ConversationsInit, Shape
<1>4. Gone /\ Sent
  BY <1>1 DEF ConversationsInit, Gone, Sent
<1>5. Ordered
  BY <1>1 DEF ConversationsInit, Ordered, Unasked
<1> QED
  BY <1>3, <1>4, <1>5 DEF ConversationsInv

\* Every step keeps the invariant of conversations.
LEMMA ConversationsStep == ConversationsInv /\ [Next]_vars => ConversationsInv'
  BY ConversationsHalf, ShapeStep, GoneStep, SentStep, OrderedStep DEF ConversationsInv

\* Whatever the requests and removals do meanwhile, the messages of a request are where
\* the request is, in order, each once: the inductive invariant behind ConversationsKept.
THEOREM AdvisorConversationsInvariant == Spec => []ConversationsInv
<1> QED
  BY ConversationsStart, ConversationsStep, PTL DEF Spec

\* At most one element.
LEMMA AtMostOne ==
    ASSUME NEW S, \A x, y \in S : x = y
    PROVE  Cardinality(S) <= 1
<1>1. CASE S = {}
  BY <1>1, FS_EmptySet
<1>2. CASE S # {}
  <2>1. PICK x : S = {x}
    BY <1>2
  <2> QED
    BY <2>1, FS_Singleton
<1> QED
  BY <1>1, <1>2

\* Requests and messages in shape are typed.
LEMMA KeptInShape == Shape => ConversationsTypeOK
<1> SUFFICES ASSUME Shape
             PROVE  ConversationsTypeOK
  OBVIOUS
<1>1. \A t \in Threads : \A i \in DOMAIN messages[t] :
         messages[t][i] \in [ask : Asks, role : {"user", "assistant"}]
  <2>1. \A t \in Threads : messages[t] \in Seq(Messages)
    BY DEF Shape
  <2>2. \A t \in Threads : \A i \in DOMAIN messages[t] : messages[t][i] \in Messages
    BY <2>1
  <2> QED
    BY <2>2 DEF Messages
<1> QED
  BY <1>1 DEF Shape, Asked, AskPc, ConversationsTypeOK

\* Every request's question and answer are kept once and in order in a conversation that
\* nobody deletes, and one that is gone is empty, for any requests and conversations.
THEOREM AdvisorConversationsKept == Spec => []ConversationsKept
<1>1. ConversationsInv => ConversationsKept
  <2> SUFFICES ASSUME ConversationsInv
               PROVE  ConversationsKept
    OBVIOUS
  <2>1. ConversationsTypeOK
    BY KeptInShape DEF ConversationsInv
  <2>2. ASSUME NEW a \in Asks, ask[a].thread # None, removal[ask[a].thread] = "no"
        PROVE  /\ Cardinality(Positions(a, "user")) <= 1
               /\ Cardinality(Positions(a, "assistant")) <= 1
               /\ \A i \in Positions(a, "assistant") : \E j \in Positions(a, "user") : j < i
               /\ ask[a].pc = "done" => Positions(a, "assistant") # {}
    BY <2>2, AtMostOne DEF ConversationsInv, Ordered
  <2> QED
    BY <2>1, <2>2 DEF ConversationsInv, Gone, ConversationsKept
<1> QED
  BY <1>1, AdvisorConversationsInvariant, PTL

------------------------------------------------------------------------------
(* What an answer refers to.  The facts a request holds do not change any  *)
(* more once it has an answer, so it is enough that the answer was checked *)
(* against them when the provider gave it.                                 *)

NamesPeriod(record) ==
    record.plan.topic \in PeriodSensitive =>
       record.question.phrases # {} \/ record.question.context.range # None

Refers(record) ==
    /\ record.answer.placeholders \union record.answer.cited # {}
    /\ record.answer.placeholders \subseteq DOMAIN record.facts
    /\ record.answer.drilldowns \subseteq {record.facts[i].link : i \in DOMAIN record.facts}

GroundedRecord(record) ==
    /\ record.pc \in {"tools", "explain"} =>
          NamesPeriod(record) /\ record.answer.text # "answer"
    /\ record.pc \in {"idle", "refused"} => record.answer.text # "answer"
    /\ record.answer.text = "answer" => NamesPeriod(record) /\ Refers(record)

Grounded == \A a \in Asks : GroundedRecord(ask[a])

GroundedInv == Shape /\ Grounded

\* Without a phrase there is no range.
LEMMA NoPhraseNoRange ==
    ASSUME NEW today
    PROVE  ResolvePhraseDateRange({}, today) = None
  BY DEF ResolvePhraseDateRange

\* A question that was only planned has nothing to ground.
LEMMA AskingGrounded ==
    ASSUME NEW question, NEW plan, NEW pc, NEW tools, NEW answer, answer.text # "answer",
           pc = "tools" /\ plan.topic \in PeriodSensitive =>
              question.phrases # {} \/ question.context.range # None,
           pc # "explain"
    PROVE  GroundedRecord(Asking(question, plan, pc, tools, answer))
<1> DEFINE record == Asking(question, plan, pc, tools, answer)
<1>1. /\ record.question = question /\ record.plan = plan /\ record.pc = pc
      /\ record.answer = answer
  BY DEF Asking
<1> HIDE DEF record
<1>2. GroundedRecord(record)
  BY <1>1 DEF GroundedRecord, NamesPeriod
<1> QED
  BY <1>2 DEF record

\* The plan of a question is grounded before any tool has run.
LEMMA PlannedGrounded ==
    ASSUME NEW question, NEW currencies
    PROVE  GroundedRecord(Planned(question, PlanAdvisorRequest(question, Today, currencies)))
<1> USE ConversationsAssumption
<1> DEFINE plan == PlanAdvisorRequest(question, Today, currencies)
<1>1. NoAnswer.text # "answer"
  BY DEF NoAnswer
<1>2. CASE plan.needsClarification \/ plan.topic = "unsupported"
  <2>1. PICK text \in {"clarification", "unsupported"} :
           Planned(question, plan) =
              Asking(question, plan, "thread", <<>>, [NoAnswer EXCEPT !.text = text])
    BY <1>2 DEF Planned
  <2>2. [NoAnswer EXCEPT !.text = text].text # "answer"
    BY DEF NoAnswer
  <2>3. GroundedRecord(Asking(question, plan, "thread", <<>>, [NoAnswer EXCEPT !.text = text]))
    BY <2>2, AskingGrounded
  <2> QED
    BY <2>1, <2>3
<1>3. CASE ~ (plan.needsClarification \/ plan.topic = "unsupported")
  <2>1. Planned(question, plan) =
           Asking(question, plan, "tools", FirstOf(plan.tools, MaxToolCalls), NoAnswer)
    BY <1>3 DEF Planned
  <2>2. plan.needsClarification
           = (plan.topic \in PeriodSensitive /\ RangeOf(question, Today) = None)
    BY DEF PlanAdvisorRequest
  <2>3. plan.topic \in PeriodSensitive =>
           question.phrases # {} \/ question.context.range # None
    BY <1>3, <2>2, NoPhraseNoRange DEF RangeOf
  <2> QED
    BY <1>1, <2>1, <2>3, AskingGrounded
<1> QED
  BY <1>2, <1>3

\* A request that goes on with the facts and the answer it has.
LEMMA SameAnswer ==
    ASSUME NEW old, GroundedRecord(old), NEW new,
           new.question = old.question, new.plan = old.plan, new.facts = old.facts,
           new.answer = old.answer,
           new.pc \in {"tools", "explain"} => old.pc = new.pc,
           new.pc \notin {"idle", "refused"}
    PROVE  GroundedRecord(new)
  BY DEF GroundedRecord, NamesPeriod, Refers

\* An answer that passed the validation refers to facts of its request.
LEMMA AnsweredGrounded ==
    ASSUME Shape, Grounded, NEW a \in Asks, NEW response, ask[a].pc = "explain",
           ValidExplanation(response, ask[a].facts)
    PROVE  GroundedRecord([ask[a] EXCEPT !.pc = "thread", !.answer = Answered(a, response)])
<1> DEFINE answer == Answered(a, response)
           new == [ask[a] EXCEPT !.pc = "thread", !.answer = answer]
<1>1. Asked(ask[a]) /\ GroundedRecord(ask[a])
  BY DEF Shape, Grounded
<1>2. /\ answer.placeholders \union answer.cited # {}
      /\ answer.placeholders \subseteq DOMAIN ask[a].facts
  BY DEF Answered, ValidExplanation
<1>3. answer.drilldowns \subseteq {ask[a].facts[i].link : i \in DOMAIN ask[a].facts}
  BY DEF Answered, Drilldowns
<1> HIDE DEF answer
<1>4. /\ new.answer = answer /\ new.pc = "thread" /\ new.plan = ask[a].plan
      /\ new.question = ask[a].question /\ new.facts = ask[a].facts
  BY <1>1 DEF Asked, Fields
<1> HIDE DEF new
<1>5. GroundedRecord(new)
  BY <1>1, <1>2, <1>3, <1>4 DEF GroundedRecord, NamesPeriod, Refers
<1> QED
  BY <1>5 DEF new, answer

\* What one request becomes, by action.
LEMMA GroundedStep ==
    ASSUME GroundedInv, ConversationsNext \/ UNCHANGED conversationVars
    PROVE  Grounded'
<1> USE DEF GroundedInv
<1>1. ASSUME NEW a \in Asks, NEW record, ask' = [ask EXCEPT ![a] = record], GroundedRecord(record)
      PROVE  Grounded'
  BY <1>1 DEF Grounded, Shape
<1>2. CASE UNCHANGED ask
  BY <1>2 DEF Grounded
<1>3. ASSUME NEW a \in Asks
      PROVE  Asked(ask[a]) /\ GroundedRecord(ask[a])
  BY DEF Shape, Grounded
<1>4. ASSUME NEW a \in Asks, NEW pc \in {"check", "insert", "failed", "done"}
      PROVE  GroundedRecord([ask[a] EXCEPT !.pc = pc])
  BY <1>3, SameAnswer DEF Asked, Fields
<1>5. ASSUME NEW a \in Asks, NEW question \in Questions[a], AskQuestion(a, question)
      PROVE  Grounded'
  <2> DEFINE planned == Planned(question, PlanAdvisorRequest(question, Today, CurrenciesInUse))
             refused == [Unasked EXCEPT !.pc = "refused"]
  <2>1. ask' = [ask EXCEPT ![a] = refused] \/ ask' = [ask EXCEPT ![a] = planned]
    BY <1>5 DEF AskQuestion, Set
  <2>2. GroundedRecord(refused)
    BY ConversationsAssumption DEF Unasked, NoAnswer, GroundedRecord
  <2>3. GroundedRecord(planned)
    BY PlannedGrounded
  <2> QED
    BY <1>1, <2>1, <2>2, <2>3
<1>6. ASSUME NEW a \in Asks, RunTool(a)
      PROVE  Grounded'
  <2>1. PICK tools, facts :
           ask' = [ask EXCEPT ![a] = [ask[a] EXCEPT !.tools = tools, !.facts = facts]]
    BY <1>6 DEF RunTool, Set
  <2>2. ask[a].pc = "tools"
    BY <1>6 DEF RunTool
  <2>3. GroundedRecord([ask[a] EXCEPT !.tools = tools, !.facts = facts])
    BY <1>3, <2>2, ZenonT(30) DEF Asked, Fields, GroundedRecord, NamesPeriod
  <2> QED
    BY <1>1, <2>1, <2>3
<1>7. ASSUME NEW a \in Asks, CollectFacts(a)
      PROVE  Grounded'
  <2> DEFINE noData == [NoAnswer EXCEPT !.text = "noData"]
  <2>1. PICK facts :
           LET found == [ask[a] EXCEPT !.facts = facts]
           IN \/ ask' = [ask EXCEPT ![a] = [found EXCEPT !.pc = "thread", !.answer = noData]]
              \/ ask' = [ask EXCEPT ![a] = [found EXCEPT !.pc = "explain"]]
    BY <1>7 DEF CollectFacts, Set
  <2>2. ask[a].pc = "tools" /\ noData.text # "answer"
    BY <1>7 DEF CollectFacts, NoAnswer
  <2> DEFINE found == [ask[a] EXCEPT !.facts = facts]
  <2> HIDE DEF noData
  <2>3. GroundedRecord([found EXCEPT !.pc = "thread", !.answer = noData])
    BY <1>3, <2>2 DEF Asked, Fields, GroundedRecord
  <2>4. GroundedRecord([found EXCEPT !.pc = "explain"])
    BY <1>3, <2>2, ZenonT(30) DEF Asked, Fields, GroundedRecord, NamesPeriod
  <2> QED
    BY <1>1, <2>1, <2>3, <2>4
<1>8. ASSUME NEW a \in Asks, NEW response \in Responses, Explain(a, response)
      PROVE  Grounded'
  <2>1. \/ /\ ValidExplanation(response, ask[a].facts)
           /\ ask' = [ask EXCEPT
                 ![a] = [ask[a] EXCEPT !.pc = "thread", !.answer = Answered(a, response)]]
        \/ ask' = [ask EXCEPT ![a] = [ask[a] EXCEPT !.attempt = @ + 1]]
        \/ ask' = [ask EXCEPT ![a] = [ask[a] EXCEPT !.pc = "failed"]]
    BY <1>8 DEF Explain, Set, Fail
  <2>2. ask[a].pc = "explain"
    BY <1>8 DEF Explain
  <2>3. GroundedRecord([ask[a] EXCEPT !.attempt = @ + 1])
    BY <1>3, <2>2, SameAnswer DEF Asked, Fields
  <2> QED
    BY <1>1, <1>4, <2>1, <2>2, <2>3, AnsweredGrounded
<1>9. ASSUME NEW a \in Asks, EnsureThread(a)
      PROVE  Grounded'
  <2>1. \/ ask' = [ask EXCEPT ![a] = [ask[a] EXCEPT !.pc = "check"]]
        \/ \E t \in Threads :
              ask' = [ask EXCEPT ![a] = [ask[a] EXCEPT !.pc = "check", !.thread = t]]
    BY <1>9 DEF EnsureThread, Set
  <2>2. \A t : GroundedRecord([ask[a] EXCEPT !.pc = "check", !.thread = t])
    BY <1>3, SameAnswer DEF Asked, Fields
  <2> QED
    BY <1>1, <1>4, <2>1, <2>2
<1>10. ASSUME NEW a \in Asks, ProviderFails(a) \/ CheckThread(a) \/ InsertMessage(a)
       PROVE  Grounded'
  <2>1. \/ \E pc \in {"check", "insert", "failed", "done"} :
              ask' = [ask EXCEPT ![a] = [ask[a] EXCEPT !.pc = pc]]
        \/ ask' = [ask EXCEPT ![a] = [ask[a] EXCEPT !.pc = "check", !.role = "assistant"]]
    BY <1>10 DEF ProviderFails, CheckThread, InsertMessage, Appended, Set, Fail
  <2>2. GroundedRecord([ask[a] EXCEPT !.pc = "check", !.role = "assistant"])
    BY <1>3, SameAnswer DEF Asked, Fields
  <2> QED
    BY <1>1, <1>4, <2>1, <2>2
<1>11. \/ \E a \in Asks : \E question \in Questions[a] : AskQuestion(a, question)
       \/ \E a \in Asks : RunTool(a) \/ CollectFacts(a) \/ ProviderFails(a) \/ EnsureThread(a)
                            \/ CheckThread(a) \/ InsertMessage(a)
       \/ \E a \in Asks : \E response \in Responses : Explain(a, response)
       \/ UNCHANGED ask
  BY DEF ConversationsNext, conversationVars, ArchiveThread, RestoreThread, DeleteMessages,
         DeleteThread, EditData, Tick
<1> QED
  BY <1>2, <1>5, <1>6, <1>7, <1>8, <1>9, <1>10, <1>11

\* Whatever the provider returns and the tools find, a stored answer refers to facts of its
\* request and to at least one, links to nothing else, and was given a period if it needs one.
THEOREM AdvisorAnswersAreGrounded == Spec => []AnswersAreGrounded
<1>1. Init => Grounded
  <2> SUFFICES ASSUME Init
               PROVE  Grounded
    OBVIOUS
  <2>1. \A a \in Asks : ask[a] = Unasked
    BY DEF Init, ConversationsInit
  <2>2. GroundedRecord(Unasked)
    BY ConversationsAssumption DEF Unasked, NoAnswer, GroundedRecord
  <2> QED
    BY <2>1, <2>2 DEF Grounded
<1>2. Shape /\ Grounded /\ [Next]_vars => Grounded'
  BY ConversationsHalf, GroundedStep DEF GroundedInv
<1>3. Spec => []Shape
  <2>1. ConversationsInv => Shape
    BY DEF ConversationsInv
  <2> QED
    BY <2>1, AdvisorConversationsInvariant, PTL
<1>4. Spec => []Grounded
  BY <1>1, <1>2, <1>3, PTL DEF Spec
<1>5. Grounded => AnswersAreGrounded
  BY DEF Grounded, GroundedRecord, NamesPeriod, Refers, AnswersAreGrounded
<1> QED
  BY <1>4, <1>5, PTL

------------------------------------------------------------------------------
(* What the facts of a question about sums say.  Every tool sums up the    *)
(* ledger in its own way; each fact is what moved, straight from the       *)
(* transactions, when its tool ran, and stays it until the data change.    *)

\* Nothing adds up to nothing.
LEMMA TotalOfNone == Total({}) = 0
<1>1. PICK v, S : v = [r \in S |-> r.amount] /\ S = {}
  OBVIOUS
<1>2. IsFiniteSet(S) /\ \A r \in S : r.amount \in Int
  BY <1>1, FS_EmptySet
<1>3. PICK g : Totalled(g, S)
  BY <1>2, TotalsExist
<1>4. g[S] = Total(S) /\ g[{}] = 0
  BY <1>3 DEF Totalled, Additive
<1> QED
  BY <1>1, <1>4

\* A row of a report says what moved in its currency.
SaysMoved(row, l, range, scope) ==
    /\ row.inflow = MovedIn(l, "credit", range, scope, row.currency)
    /\ row.outflow = MovedIn(l, "debit", range, scope, row.currency)
    /\ row.net = row.inflow - row.outflow

\* A flow is what moved.
LEMMA FlowMoved ==
    ASSUME NEW l, NEW told, NEW range, NEW scope, told.account = scope.account,
           NEW c, NEW direction
    PROVE  Flow({t \in {u \in l : Within(u, ReportScope(told, range)) /\ Counted(u)} :
                   t.currency = c}, direction) = MovedIn(l, direction, range, scope, c)
<1>1. PICK of : of = ReportScope(told, range)
  OBVIOUS
<1>2. of.from = range.from /\ of.to = range.to /\ of.account = scope.account
  BY <1>1 DEF ReportScope
<1>3. PICK S, T :
         /\ S = {t \in {u \in {v \in l : Within(v, of) /\ Counted(v)} : u.currency = c} :
                   t.direction = direction}
         /\ T = {t \in l :
                   /\ t.status = "confirmed" /\ t.direction = direction
                   /\ t.transfer # "confirmed"
                   /\ range.from <= t.date /\ t.date <= range.to /\ t.currency = c
                   /\ scope.account \in {None, t.account}}
  OBVIOUS
<1>4. S = T
  BY <1>2, <1>3 DEF Within, Counted
<1>5. Flow({t \in {u \in l : Within(u, of) /\ Counted(u)} : t.currency = c}, direction) = Total(S)
  BY <1>3 DEF Flow
<1>6. MovedIn(l, direction, range, scope, c) = Total(T)
  BY <1>3 DEF MovedIn
<1> QED
  BY <1>1, <1>4, <1>5, <1>6

\* The row of a currency in a report of the cash flow.
FlowRow(l, of, c) ==
    LET own == {t \in {u \in l : Within(u, of) /\ Counted(u)} : t.currency = c}
    IN [currency |-> c, inflow |-> Flow(own, "credit"), outflow |-> Flow(own, "debit"),
        net |-> Flow(own, "credit") - Flow(own, "debit"), count |-> Cardinality(own),
        unresolved |-> Cardinality({t \in own : t.direction = "unknown"})]

\* The report has a row for each currency that moved.
LEMMA FlowRows ==
    ASSUME NEW l, NEW of
    PROVE  CashFlow(l, of) =
              {FlowRow(l, of, c) :
                 c \in {t.currency : t \in {u \in l : Within(u, of) /\ Counted(u)}}}
  BY DEF CashFlow, FlowRow

\* The cash flow of a range.
LEMMA CashFlowSays ==
    ASSUME NEW l, IsFiniteSet(l), NEW told, NEW range, NEW scope, told.account = scope.account,
           NEW rows, rows = CashFlow(l, ReportScope(told, range))
    PROVE  /\ IsFiniteSet(rows)
           /\ \A row \in rows : SaysMoved(row, l, range, scope)
           /\ \A c, direction :
                 c \notin {row.currency : row \in rows}
                    => MovedIn(l, direction, range, scope, c) = 0
<1>1. PICK of : of = ReportScope(told, range)
  OBVIOUS
<1>2. PICK moved : moved = {u \in l : Within(u, of) /\ Counted(u)}
  OBVIOUS
<1>3. rows = {FlowRow(l, of, c) : c \in {t.currency : t \in moved}}
  BY <1>1, <1>2, FlowRows
<1>4. IsFiniteSet(rows)
  <2>1. IsFiniteSet(moved)
    BY <1>2, FS_Subset
  <2>2. PICK f : f = [t \in moved |-> FlowRow(l, of, t.currency)]
    OBVIOUS
  <2>3. f \in Surjection(moved, rows)
    BY <1>3, <2>2 DEF Surjection
  <2> QED
    BY <2>1, <2>3, FS_Surjection
<1>5. ASSUME NEW c, NEW direction
      PROVE  Flow({t \in moved : t.currency = c}, direction)
                = MovedIn(l, direction, range, scope, c)
  BY <1>1, <1>2, FlowMoved
<1>6. ASSUME NEW c
      PROVE  SaysMoved(FlowRow(l, of, c), l, range, scope)
  <2>1. PICK row : row = FlowRow(l, of, c)
    OBVIOUS
  <2>2. /\ row.inflow = Flow({t \in moved : t.currency = c}, "credit")
        /\ row.outflow = Flow({t \in moved : t.currency = c}, "debit")
        /\ row.net = row.inflow - row.outflow /\ row.currency = c
    BY <1>2, <2>1 DEF FlowRow
  <2> QED
    BY <1>5, <2>1, <2>2 DEF SaysMoved
<1>7. ASSUME NEW c, NEW direction, c \notin {row.currency : row \in rows}
      PROVE  MovedIn(l, direction, range, scope, c) = 0
  <2>1. ASSUME NEW t \in moved, t.currency = c
        PROVE  FALSE
    <3>1. FlowRow(l, of, c) \in rows
      BY <1>3, <2>1
    <3>2. FlowRow(l, of, c).currency = c
      BY DEF FlowRow
    <3> QED
      BY <1>7, <3>1, <3>2
  <2>2. PICK none : none = {t \in moved : t.currency = c} /\ none = {}
    BY <2>1
  <2>3. {t \in none : t.direction = direction} = {}
    BY <2>2
  <2>4. Flow(none, direction) = Total({t \in none : t.direction = direction})
    BY DEF Flow
  <2>5. Flow(none, direction) = 0
    BY <2>3, <2>4, TotalOfNone
  <2> QED
    BY <1>5, <2>2, <2>5
<1> QED
  BY <1>3, <1>4, <1>6, <1>7

\* A currency without a row had no movements.
LEMMA NothingSays ==
    ASSUME NEW l, NEW range, NEW scope, NEW c,
           \A direction : MovedIn(l, direction, range, scope, c) = 0
    PROVE  SaysMoved(Nothing(c), l, range, scope)
<1>1. PICK row : row = Nothing(c)
  OBVIOUS
<1>2. row.currency = c /\ row.inflow = 0 /\ row.outflow = 0 /\ row.net = 0
  BY <1>1 DEF Nothing
<1>3. row.net = row.inflow - row.outflow
  BY <1>2
<1> QED
  BY <1>1, <1>2, <1>3 DEF SaysMoved

\* The summary of a period.
LEMMA PeriodSummarySays ==
    ASSUME NEW d, IsFiniteSet(d.ledger), NEW told, NEW range, NEW scope,
           told.account = scope.account
    PROVE  /\ IsFiniteSet(PeriodSummary(d, told, range))
           /\ \A row \in PeriodSummary(d, told, range) : SaysMoved(row, d.ledger, range, scope)
<1>1. PICK l, all : l = d.ledger /\ all = CashFlow(l, ReportScope(told, range))
  OBVIOUS
<1>2. PICK rows : rows = InCurrency(all, told.currency)
  OBVIOUS
<1>3. /\ IsFiniteSet(all) /\ \A row \in all : SaysMoved(row, l, range, scope)
      /\ \A c, direction :
            c \notin {row.currency : row \in all} => MovedIn(l, direction, range, scope, c) = 0
  BY <1>1, CashFlowSays
<1>4. rows \in SUBSET all /\ \A row \in all : row.currency = told.currency => row \in rows
  BY <1>2 DEF InCurrency, Matches
<1>5. CASE told.currency # None /\ rows = {}
  <2>1. PeriodSummary(d, told, range) = {Nothing(told.currency)}
    BY <1>1, <1>2, <1>5 DEF PeriodSummary
  <2>2. SaysMoved(Nothing(told.currency), l, range, scope)
    BY <1>3, <1>4, <1>5, NothingSays
  <2> QED
    BY <1>1, <2>1, <2>2, FS_Singleton
<1>6. CASE ~ (told.currency # None /\ rows = {})
  <2>1. PeriodSummary(d, told, range) = rows
    BY <1>1, <1>2, <1>6 DEF PeriodSummary
  <2>2. IsFiniteSet(rows)
    BY <1>3, <1>4, FS_Subset
  <2> QED
    BY <1>1, <1>3, <1>4, <2>1, <2>2
<1> QED
  BY <1>5, <1>6

\* What a fact about a sum says is right: it is what moved in the range, the net of it, or
\* the change against the range just before.
RightFact(f, l, range, scope) ==
    /\ f.label[1] # "category"
    /\ \A c :
          LET Flows(direction) == MovedIn(l, direction, range, scope, c)
              Earlier(direction) == MovedIn(l, direction, PreviousRangeOf(range), scope, c)
          IN /\ f.label = <<"expenses", c>> => f.value = Flows("debit")
             /\ f.label = <<"income", c>> => f.value = Flows("credit")
             /\ f.label = <<"net", c>> => f.value = Flows("credit") - Flows("debit")
             /\ f.label = <<"expense_change", c>> => f.value = Flows("debit") - Earlier("debit")
             /\ f.label = <<"income_change", c>> => f.value = Flows("credit") - Earlier("credit")

\* Facts that are all right.
RightFacts(facts, l, range, scope) ==
    facts \in Seq(ToSet(facts)) /\ \A f \in ToSet(facts) : RightFact(f, l, range, scope)

\* The facts of a row of the summary, and of a row of the comparison.
SummaryRow(r, range) ==
    LET link == Ledger(range, r.currency, None)
    IN <<Fact(<<"income", r.currency>>, r.inflow, link),
         Fact(<<"expenses", r.currency>>, r.outflow, link),
         Fact(<<"net", r.currency>>, r.net, link),
         Fact(<<"count", r.currency>>, r.count, NoLink)>>

ComparedRow(d) ==
    <<Fact(<<"expense_change", d.currency>>, d.expense.change, NoLink)>>
    \o (IF d.expense.percentage = None THEN <<>>
        ELSE <<Fact(<<"expense_percentage", d.currency>>, d.expense.percentage, NoLink)>>)
    \o <<Fact(<<"income_change", d.currency>>, d.income.change, NoLink)>>

\* The facts of a row that says what moved are right.
LEMMA SummaryRowRight ==
    ASSUME NEW r, NEW l, NEW range, NEW scope, SaysMoved(r, l, range, scope)
    PROVE  RightFacts(SummaryRow(r, range), l, range, scope)
<1>1. PICK link, f, g, h, k :
         /\ link = Ledger(range, r.currency, None)
         /\ f = Fact(<<"income", r.currency>>, r.inflow, link)
         /\ g = Fact(<<"expenses", r.currency>>, r.outflow, link)
         /\ h = Fact(<<"net", r.currency>>, r.net, link)
         /\ k = Fact(<<"count", r.currency>>, r.count, NoLink)
  OBVIOUS
<1>2. SummaryRow(r, range) = <<f, g, h, k>>
  BY <1>1 DEF SummaryRow
<1>3. /\ f.label = <<"income", r.currency>> /\ f.value = r.inflow
      /\ g.label = <<"expenses", r.currency>> /\ g.value = r.outflow
      /\ h.label = <<"net", r.currency>> /\ h.value = r.net
      /\ k.label = <<"count", r.currency>>
  BY <1>1 DEF Fact
<1>4. RightFact(f, l, range, scope)
  BY <1>3 DEF RightFact, SaysMoved
<1>5. RightFact(g, l, range, scope)
  BY <1>3 DEF RightFact, SaysMoved
<1>6. RightFact(h, l, range, scope)
  BY <1>3 DEF RightFact, SaysMoved
<1>7. RightFact(k, l, range, scope)
  BY <1>3 DEF RightFact
<1>8. PICK row, X : row = <<f, g, h, k>> /\ X = ToSet(row)
  OBVIOUS
<1>9. X = {f, g, h, k} /\ row \in Seq(X)
  <2>1. DOMAIN row = 1..4 /\ row[1] = f /\ row[2] = g /\ row[3] = h /\ row[4] = k
    BY <1>8
  <2>2. X = {f, g, h, k}
    BY <1>8, <2>1 DEF ToSet
  <2> QED
    BY <1>8, <2>2
<1> QED
  BY <1>2, <1>4, <1>5, <1>6, <1>7, <1>8, <1>9 DEF RightFacts

\* One right fact, and lists of right facts in a row.
LEMMA RightOne ==
    ASSUME NEW f, NEW l, NEW range, NEW scope, RightFact(f, l, range, scope)
    PROVE  RightFacts(<<f>>, l, range, scope)
<1>1. PICK s, X : s = <<f>> /\ X = ToSet(s)
  OBVIOUS
<1>2. X = {f} /\ s \in Seq(X)
  <2>1. DOMAIN s = 1..1 /\ s[1] = f
    BY <1>1
  <2>2. X = {f}
    BY <1>1, <2>1 DEF ToSet
  <2> QED
    BY <1>1, <2>2
<1> QED
  BY <1>1, <1>2 DEF RightFacts

\* No facts are right.
LEMMA RightNone ==
    ASSUME NEW l, NEW range, NEW scope
    PROVE  RightFacts(<<>>, l, range, scope)
<1>1. ToSet(<<>>) = {}
  BY DEF ToSet
<1>2. <<>> \in Seq(ToSet(<<>>))
  OBVIOUS
<1> QED
  BY <1>1, <1>2 DEF RightFacts

\* So are two lists of right facts in a row.
LEMMA RightBoth ==
    ASSUME NEW l, NEW range, NEW scope, NEW a, RightFacts(a, l, range, scope),
           NEW b, RightFacts(b, l, range, scope)
    PROVE  RightFacts(a \o b, l, range, scope)
<1>1. PICK X : X = ToSet(a) \union ToSet(b)
  OBVIOUS
<1>2. a \in Seq(X) /\ b \in Seq(X)
  <2>1. a \in Seq(ToSet(a)) /\ ToSet(a) \subseteq X
    BY <1>1 DEF RightFacts
  <2>2. b \in Seq(ToSet(b)) /\ ToSet(b) \subseteq X
    BY <1>1 DEF RightFacts
  <2> QED
    BY <2>1, <2>2
<1>3. PICK c : c = a \o b
  OBVIOUS
<1>4. c \in Seq(X) /\ ToSet(c) = X
  BY <1>1, <1>2, <1>3, Concats
<1> QED
  BY <1>1, <1>3, <1>4 DEF RightFacts

\* Right facts of each of a set of rows.
LEMMA RightRows ==
    ASSUME NEW l, NEW range, NEW scope, NEW S, IsFiniteSet(S), NEW part,
           part = [x \in S |-> part[x]], \A x \in S : RightFacts(part[x], l, range, scope),
           NEW list, Strung(list, part, S)
    PROVE  RightFacts(list, l, range, scope)
<1>1. Parts(part, S)
  BY DEF RightFacts, Parts
<1>2. list \in Seq(ToSet(list)) /\ ToSet(list) = UNION {ToSet(part[x]) : x \in S}
  BY <1>1, FlattenedRows
<1> QED
  BY <1>2 DEF RightFacts

\* The rows in the order of their list.
LEMMA PartsListed ==
    ASSUME NEW S, IsFiniteSet(S)
    PROVE  \A i \in DOMAIN SetToSeq(S) : SetToSeq(S)[i] \in S
<1>1. PICK q, m : q = SetToSeq(S) /\ m = Cardinality(S)
  OBVIOUS
<1>2. q \in [1..m -> S]
  BY <1>1, SetListed
<1> QED
  BY <1>1, <1>2

\* The facts of a summary of rows that say what moved are right.
LEMMA SummaryFactsRight ==
    ASSUME NEW rows, IsFiniteSet(rows), NEW l, NEW range, NEW scope,
           \A r \in rows : SaysMoved(r, l, range, scope)
    PROVE  RightFacts(SummaryFacts(rows, range), l, range, scope)
<1>1. PICK part : part = [r \in rows |-> SummaryRow(r, range)]
  OBVIOUS
<1>2. PICK seq : seq = SetToSeq(rows)
  OBVIOUS
<1>3. \A i \in DOMAIN seq : part[seq[i]] = SummaryRow(seq[i], range)
  BY <1>1, <1>2, PartsListed
<1>4. [i \in DOMAIN seq |-> part[seq[i]]] = [i \in DOMAIN seq |-> SummaryRow(seq[i], range)]
  BY <1>3, Zenon
<1>5. SummaryFacts(rows, range)
         = FlattenSeq([i \in DOMAIN SetToSeq(rows) |-> SummaryRow(SetToSeq(rows)[i], range)])
  BY DEF SummaryFacts, FactsOfRows, SummaryRow
<1>6. PICK list : list = SummaryFacts(rows, range)
  OBVIOUS
<1>7. Strung(list, part, rows)
  BY ONLY <1>2, <1>4, <1>5, <1>6, Zenon DEF Strung
<1>8. part = [r \in rows |-> part[r]] /\ \A r \in rows : RightFacts(part[r], l, range, scope)
  BY <1>1, SummaryRowRight
<1>9. RightFacts(list, l, range, scope)
  BY <1>7, <1>8, RightRows
<1> QED
  BY <1>6, <1>9

\* A row of the comparison is the change against the range just before.
SaysChange(d, l, range, scope) ==
    LET Grown(direction) ==
           MovedIn(l, direction, range, scope, d.currency)
           - MovedIn(l, direction, PreviousRangeOf(range), scope, d.currency)
    IN d.expense.change = Grown("debit") /\ d.income.change = Grown("credit")

\* The facts of a row that says what changed are right.
LEMMA ComparedRowRight ==
    ASSUME NEW d, NEW l, NEW range, NEW scope, SaysChange(d, l, range, scope)
    PROVE  RightFacts(ComparedRow(d), l, range, scope)
<1>1. PICK f, g, h :
         /\ f = Fact(<<"expense_change", d.currency>>, d.expense.change, NoLink)
         /\ g = Fact(<<"expense_percentage", d.currency>>, d.expense.percentage, NoLink)
         /\ h = Fact(<<"income_change", d.currency>>, d.income.change, NoLink)
  OBVIOUS
<1>2. /\ f.label = <<"expense_change", d.currency>> /\ f.value = d.expense.change
      /\ g.label = <<"expense_percentage", d.currency>>
      /\ h.label = <<"income_change", d.currency>> /\ h.value = d.income.change
  BY <1>1 DEF Fact
<1>3. RightFact(f, l, range, scope)
  BY <1>2 DEF RightFact, SaysChange
<1>4. RightFact(g, l, range, scope)
  BY <1>2 DEF RightFact
<1>5. RightFact(h, l, range, scope)
  BY <1>2 DEF RightFact, SaysChange
<1>6. PICK between : /\ between = IF d.expense.percentage = None THEN <<>> ELSE <<g>>
                     /\ RightFacts(between, l, range, scope)
  BY <1>4, RightOne, RightNone
<1>7. ComparedRow(d) = <<f>> \o between \o <<h>>
  BY <1>1, <1>6 DEF ComparedRow
<1>8. RightFacts(<<f>> \o between, l, range, scope)
  BY <1>3, <1>6, RightOne, RightBoth
<1>9. RightFacts(<<f>> \o between \o <<h>>, l, range, scope)
  BY <1>5, <1>8, RightOne, RightBoth
<1> QED
  BY <1>7, <1>9

\* The row of a currency in a report, or a row that says that nothing moved.
RowIn(rows, c) ==
    IF \E r \in rows : r.currency = c THEN CHOOSE r \in rows : r.currency = c ELSE Nothing(c)

\* The row of a currency, if it has none the empty one, says what moved.
LEMMA RowInSays ==
    ASSUME NEW l, IsFiniteSet(l), NEW told, NEW range, NEW scope, told.account = scope.account,
           NEW rows, rows = CashFlow(l, ReportScope(told, range)), NEW c
    PROVE  /\ RowIn(rows, c).inflow = MovedIn(l, "credit", range, scope, c)
           /\ RowIn(rows, c).outflow = MovedIn(l, "debit", range, scope, c)
<1>1. /\ \A row \in rows : SaysMoved(row, l, range, scope)
      /\ \A direction :
            c \notin {row.currency : row \in rows} => MovedIn(l, direction, range, scope, c) = 0
  BY CashFlowSays
<1>2. PICK row : row = RowIn(rows, c)
  OBVIOUS
<1>3. SaysMoved(row, l, range, scope) /\ row.currency = c
  <2>1. CASE \E r \in rows : r.currency = c
    <3>1. row = CHOOSE r \in rows : r.currency = c
      BY <1>2, <2>1 DEF RowIn
    <3>2. row \in rows /\ row.currency = c
      BY <2>1, <3>1
    <3> QED
      BY <1>1, <3>2
  <2>2. CASE ~ \E r \in rows : r.currency = c
    <3>1. row = Nothing(c) /\ c \notin {r.currency : r \in rows}
      BY <1>2, <2>2 DEF RowIn
    <3>2. SaysMoved(Nothing(c), l, range, scope)
      BY <1>1, <3>1, NothingSays
    <3>3. row.currency = c
      BY <3>1 DEF Nothing
    <3> QED
      BY <3>1, <3>2, <3>3
  <2> QED
    BY <2>1, <2>2
<1> QED
  BY <1>2, <1>3 DEF SaysMoved

\* What the comparison says of a currency.
Change(current, previous, c) ==
    [currency |-> c,
     expense |-> CompareValues(RowIn(current, c).outflow, RowIn(previous, c).outflow),
     income |-> CompareValues(RowIn(current, c).inflow, RowIn(previous, c).inflow)]

\* A comparison says what changed against the days just before.
LEMMA ComparePeriodsSays ==
    ASSUME NEW d, IsFiniteSet(d.ledger), NEW told, NEW scope, told.account = scope.account,
           told.previous = PreviousRangeOf(told.range)
    PROVE  /\ IsFiniteSet(ComparePeriods(d, told))
           /\ \A row \in ComparePeriods(d, told) : SaysChange(row, d.ledger, told.range, scope)
<1>1. PICK l, current, previous :
         /\ l = d.ledger /\ current = CashFlow(l, ReportScope(told, told.range))
         /\ previous = CashFlow(l, ReportScope(told, told.previous))
  OBVIOUS
<1>2. PICK both : both = InCurrency(current \union previous, told.currency)
  OBVIOUS
<1>3. PICK found : found = {r.currency : r \in both}
  OBVIOUS
<1>4. PICK currencies :
         currencies = IF told.currency # None /\ found = {} THEN {told.currency} ELSE found
  OBVIOUS
<1>5. ComparePeriods(d, told) = {Change(current, previous, c) : c \in currencies}
  BY <1>1, <1>2, <1>3, <1>4 DEF ComparePeriods, Change, RowIn
<1>6. IsFiniteSet(currencies)
  <2>1. IsFiniteSet(current) /\ IsFiniteSet(previous)
    BY <1>1, CashFlowSays
  <2>2. IsFiniteSet(current \union previous)
    BY <2>1, FS_Union
  <2>3. both \in SUBSET (current \union previous)
    BY <1>2 DEF InCurrency
  <2>4. IsFiniteSet(both)
    BY <2>2, <2>3, FS_Subset
  <2>5. PICK f : f = [r \in both |-> r.currency]
    OBVIOUS
  <2>6. f \in Surjection(both, found)
    BY <1>3, <2>5 DEF Surjection
  <2>7. IsFiniteSet(found)
    BY <2>4, <2>6, FS_Surjection
  <2> QED
    BY <1>4, <2>7, FS_Singleton
<1>7. PICK rows : rows = ComparePeriods(d, told)
  OBVIOUS
<1>8. IsFiniteSet(rows)
  <2>1. PICK f : f = [c \in currencies |-> Change(current, previous, c)]
    OBVIOUS
  <2>2. f \in Surjection(currencies, rows)
    BY <1>5, <1>7, <2>1 DEF Surjection
  <2> QED
    BY <1>6, <2>2, FS_Surjection
<1>9. ASSUME NEW c
      PROVE  SaysChange(Change(current, previous, c), l, told.range, scope)
  <2>1. PICK row, latest, before :
           /\ row = Change(current, previous, c)
           /\ latest = RowIn(current, c) /\ before = RowIn(previous, c)
    OBVIOUS
  <2>2. /\ latest.inflow = MovedIn(l, "credit", told.range, scope, c)
        /\ latest.outflow = MovedIn(l, "debit", told.range, scope, c)
    BY <1>1, <2>1, RowInSays
  <2>3. /\ before.inflow = MovedIn(l, "credit", told.previous, scope, c)
        /\ before.outflow = MovedIn(l, "debit", told.previous, scope, c)
    BY <1>1, <2>1, RowInSays
  <2>4. /\ row.currency = c
        /\ row.expense = CompareValues(latest.outflow, before.outflow)
        /\ row.income = CompareValues(latest.inflow, before.inflow)
    BY <2>1 DEF Change
  <2>5. \A x, y : CompareValues(x, y).change = x - y
    BY DEF CompareValues
  <2>6. /\ row.expense.change = latest.outflow - before.outflow
        /\ row.income.change = latest.inflow - before.inflow
    BY <2>4, <2>5
  <2>7. SaysChange(row, l, told.range, scope)
    BY <2>2, <2>3, <2>4, <2>6 DEF SaysChange
  <2> QED
    BY <2>1, <2>7
<1> QED
  BY <1>1, <1>5, <1>7, <1>8, <1>9

\* The facts of a comparison that says what changed are right.
LEMMA ComparisonFactsRight ==
    ASSUME NEW rows, IsFiniteSet(rows), NEW l, NEW range, NEW scope,
           \A d \in rows : SaysChange(d, l, range, scope)
    PROVE  RightFacts(ComparisonFacts(rows), l, range, scope)
<1>1. PICK part : part = [d \in rows |-> ComparedRow(d)]
  OBVIOUS
<1>2. PICK seq : seq = SetToSeq(rows)
  OBVIOUS
<1>3. \A i \in DOMAIN seq : part[seq[i]] = ComparedRow(seq[i])
  BY <1>1, <1>2, PartsListed
<1>4. [i \in DOMAIN seq |-> part[seq[i]]] = [i \in DOMAIN seq |-> ComparedRow(seq[i])]
  BY <1>3, Zenon
<1>5. ComparisonFacts(rows)
         = FlattenSeq([i \in DOMAIN SetToSeq(rows) |-> ComparedRow(SetToSeq(rows)[i])])
  BY DEF ComparisonFacts, FactsOfRows, ComparedRow
<1>6. PICK list : list = ComparisonFacts(rows)
  OBVIOUS
<1>7. Strung(list, part, rows)
  BY ONLY <1>2, <1>4, <1>5, <1>6, Zenon DEF Strung
<1>8. part = [d \in rows |-> part[d]] /\ \A d \in rows : RightFacts(part[d], l, range, scope)
  BY <1>1, ComparedRowRight
<1>9. RightFacts(list, l, range, scope)
  BY <1>7, <1>8, RightRows
<1> QED
  BY <1>6, <1>9

\* The tools of a question about a period tell what moved.
LEMMA PeriodToolsRight ==
    ASSUME NEW d, IsFiniteSet(d.ledger), NEW question, NEW plan, NEW scope,
           scope = ScopeOf(question, plan), NEW today,
           NEW tool \in {"period_summary", "compare_periods"}
    PROVE  RightFacts(ToolFacts(tool, d, scope, today), d.ledger, scope.range, scope)
<1>1. PICK told : told = ToolArguments(tool, scope)
  OBVIOUS
<1>2. told.range = scope.range /\ told.account = scope.account
  BY <1>1 DEF ToolArguments
<1>3. CASE tool = "period_summary"
  <2>1. ToolFacts(tool, d, scope, today)
           = SummaryFacts(PeriodSummary(d, told, told.range), scope.range)
    BY <1>1, <1>3 DEF ToolFacts
  <2>2. PICK rows : rows = PeriodSummary(d, told, told.range)
    OBVIOUS
  <2>3. IsFiniteSet(rows) /\ \A r \in rows : SaysMoved(r, d.ledger, scope.range, scope)
    BY <1>2, <2>2, PeriodSummarySays
  <2>4. RightFacts(SummaryFacts(rows, scope.range), d.ledger, scope.range, scope)
    BY <2>3, SummaryFactsRight
  <2> QED
    BY <2>1, <2>2, <2>4
<1>4. CASE tool = "compare_periods"
  <2>1. ToolFacts(tool, d, scope, today) = ComparisonFacts(ComparePeriods(d, told))
    BY <1>1, <1>4 DEF ToolFacts
  <2>2. told.previous = PreviousRangeOf(told.range)
    BY <1>1, <1>2, <1>4 DEF ToolArguments
  <2>3. PICK rows : rows = ComparePeriods(d, told)
    OBVIOUS
  <2>4. IsFiniteSet(rows) /\ \A r \in rows : SaysChange(r, d.ledger, scope.range, scope)
    BY <1>2, <2>2, <2>3, ComparePeriodsSays
  <2>5. RightFacts(ComparisonFacts(rows), d.ledger, scope.range, scope)
    BY <2>4, ComparisonFactsRight
  <2> QED
    BY <2>1, <2>3, <2>5
<1> QED
  BY <1>3, <1>4

\* The categories of a breakdown: each once, with its total, and all of them if the list
\* was not cut.
ListsCategories(items, rows) ==
    /\ items \in Seq(ToSet(items))
    /\ \A i, j \in DOMAIN items : items[i].category = items[j].category => i = j
    /\ \A i \in DOMAIN items :
          items[i].amount = Total({r \in rows : r.category = items[i].category})
    /\ Len(items) < MaxBreakdown =>
          \A r \in rows : \E i \in DOMAIN items : items[i].category = r.category

Listing(g, rows) == ListsCategories(g.items, rows)

\* The items of a currency, and its group.
ItemOf(l, c, of, k) ==
    [category |-> k, amount |-> ExpenseSpending(l, c, of).byCategory[k],
     share |-> AdvisorPercentOf(ExpenseSpending(l, c, of).byCategory[k],
                                ExpenseSpending(l, c, of).total)]

ItemsOf(l, c, of) == {ItemOf(l, c, of, k) : k \in DOMAIN ExpenseSpending(l, c, of).byCategory}

GroupOf(l, c, of) ==
    [currency |-> c, total |-> ExpenseSpending(l, c, of).total,
     items |-> Largest(ItemsOf(l, c, of), MaxBreakdown)]

\* A group lists the categories of its rows, the largest first.
LEMMA GroupListed ==
    ASSUME NEW l, Whole(l), NEW c, NEW of, NEW rows, rows = RowsOf(Debits(l, c, of))
    PROVE  Listing(GroupOf(l, c, of), rows)
<1>1. PICK K, by : K = {r.category : r \in rows} /\ by = ExpenseSpending(l, c, of).byCategory
  OBVIOUS
<1>2. by = [k \in K |-> Total({r \in rows : r.category = k})]
  BY <1>1 DEF ExpenseSpending, RowsOf, Debits
<1>3. IsFiniteSet(rows) /\ \A r \in rows : r.amount \in Nat
  <2>1. Debits(l, c, of) \in SUBSET l
    BY DEF Debits
  <2> QED
    BY <2>1, WholePart, WholeRows
<1>4. PICK S, items : S = ItemsOf(l, c, of) /\ items = Largest(S, MaxBreakdown)
  OBVIOUS
<1>5. S = {ItemOf(l, c, of, k) : k \in K}
  BY <1>1, <1>2, <1>4 DEF ItemsOf
<1>6. ASSUME NEW k \in K
      PROVE  /\ ItemOf(l, c, of, k).category = k
             /\ ItemOf(l, c, of, k).amount = Total({r \in rows : r.category = k})
  BY <1>1, <1>2 DEF ItemOf
<1>7. \A s \in S : /\ s = ItemOf(l, c, of, s.category) /\ s.amount \in Int
                   /\ s.amount = Total({r \in rows : r.category = s.category})
  <2>1. ASSUME NEW k \in K
        PROVE  Total({r \in rows : r.category = k}) \in Int
    <3>1. PICK T : T = {r \in rows : r.category = k}
      OBVIOUS
    <3>2. IsFiniteSet(T) /\ \A r \in T : r.amount \in Nat
      BY <1>3, <3>1, FS_Subset
    <3>3. Total(T) \in Nat
      BY <3>2, TotalNat
    <3> QED
      BY <3>1, <3>3
  <2>2. ASSUME NEW s \in S
        PROVE  /\ s = ItemOf(l, c, of, s.category) /\ s.amount \in Int
               /\ s.amount = Total({r \in rows : r.category = s.category})
    <3>1. PICK k \in K : s = ItemOf(l, c, of, k)
      BY <1>5
    <3>2. s.category = k /\ s.amount = Total({r \in rows : r.category = k})
      BY <1>6, <3>1
    <3>3. s.amount \in Int
      BY <2>1, <3>2
    <3> QED
      BY <3>1, <3>2, <3>3
  <2> QED
    BY <2>2
<1>8. IsFiniteSet(S)
  <2>1. PICK f : f = [r \in rows |-> ItemOf(l, c, of, r.category)]
    OBVIOUS
  <2>2. f \in Surjection(rows, S)
    BY <1>1, <1>5, <2>1 DEF Surjection
  <2> QED
    BY <1>3, <2>2, FS_Surjection
<1>9. /\ items \in Seq(S) /\ IsInjective(items) /\ ToSet(items) \subseteq S
      /\ Len(items) = IF Cardinality(S) <= MaxBreakdown THEN Cardinality(S) ELSE MaxBreakdown
      /\ Cardinality(S) <= MaxBreakdown => ToSet(items) = S
  BY <1>4, <1>7, <1>8, LargestListed, ConversationsAssumption
<1>10. \A i \in DOMAIN items : items[i] \in S /\ items[i] \in ToSet(items)
  BY <1>9 DEF ToSet
<1>11. items \in Seq(ToSet(items))
  BY <1>9, <1>10
<1>12. ASSUME NEW i \in DOMAIN items, NEW j \in DOMAIN items,
              items[i].category = items[j].category
       PROVE  i = j
  <2>1. items[i] = items[j]
    BY <1>7, <1>10, <1>12
  <2> QED
    BY <1>9, <2>1 DEF IsInjective
<1>13. ASSUME Len(items) < MaxBreakdown, NEW r \in rows
       PROVE  \E i \in DOMAIN items : items[i].category = r.category
  <2>1. ToSet(items) = S
    BY <1>9, <1>13, ConversationsAssumption
  <2>2. r.category \in K
    BY <1>1
  <2>3. PICK s \in S : s.category = r.category
    BY <1>5, <1>6, <2>2
  <2> QED
    BY <2>1, <2>3 DEF ToSet
<1>14. ListsCategories(items, rows)
  BY <1>7, <1>10, <1>11, <1>12, <1>13 DEF ListsCategories
<1> QED
  BY <1>4, <1>14 DEF GroupOf, Listing

\* The facts of a group.
BreakdownRow(g, range) ==
    [i \in DOMAIN g.items |->
        Fact(<<"category", g.items[i].category, g.currency>>, g.items[i].amount,
             Ledger(range, g.currency, g.items[i].category))]

TellsGroup(row, g, range) == row = BreakdownRow(g, range)

\* What the facts of a breakdown are: each item of each group once.
TellsGroups(facts, groups, range) ==
    /\ facts \in Seq(ToSet(facts)) /\ IsInjective(facts)
    /\ ToSet(facts) = UNION {ToSet(BreakdownRow(g, range)) : g \in groups}

TellsItems(row, g) ==
    /\ \A f \in ToSet(row) : f.label[1] = "category" /\ f.label[3] = g.currency
    /\ DOMAIN row = DOMAIN g.items
    /\ \A i \in DOMAIN row : /\ row[i].label[2] = g.items[i].category
                             /\ row[i].value = g.items[i].amount

\* A group with distinct categories has distinct facts.
LEMMA BreakdownRowListed ==
    ASSUME NEW g, NEW range, NEW rows, Listing(g, rows), NEW row, TellsGroup(row, g, range)
    PROVE  row \in Seq(ToSet(row)) /\ IsInjective(row) /\ TellsItems(row, g)
<1>0. PICK items, n : items = g.items /\ n = Len(items)
  OBVIOUS
<1>1. items = g.items /\ n = Len(items) /\ n \in Nat /\ DOMAIN items = 1..n
  BY <1>0 DEF Listing, ListsCategories
<1>2. PICK X : X = ToSet(row)
  OBVIOUS
<1>3. row = [i \in 1..n |-> Fact(<<"category", items[i].category, g.currency>>, items[i].amount,
                                 Ledger(range, g.currency, items[i].category))]
  BY <1>1 DEF BreakdownRow, TellsGroup
<1>4. ASSUME NEW i \in 1..n
      PROVE  /\ row[i].label = <<"category", items[i].category, g.currency>>
             /\ row[i].value = items[i].amount
  BY <1>3 DEF Fact
<1>5. ASSUME NEW i \in 1..n
      PROVE  /\ row[i].label[1] = "category" /\ row[i].label[2] = items[i].category
             /\ row[i].label[3] = g.currency
  BY <1>4
<1>6. DOMAIN row = 1..n /\ row \in [1..n -> X]
  <2>1. DOMAIN row = 1..n /\ row = [i \in 1..n |-> row[i]]
    BY <1>3
  <2>2. \A i \in 1..n : row[i] \in X
    BY <1>2, <2>1 DEF ToSet
  <2> QED
    BY <2>1, <2>2
<1>7. IsInjective(row)
  <2>1. ASSUME NEW i \in 1..n, NEW j \in 1..n, row[i] = row[j]
        PROVE  i = j
    <3>1. items[i].category = items[j].category
      BY <1>5, <2>1
    <3> QED
      BY <1>1, <3>1 DEF Listing, ListsCategories
  <2> QED
    BY <1>6, <2>1 DEF IsInjective
<1>8. ASSUME NEW f \in X
      PROVE  f.label[1] = "category" /\ f.label[3] = g.currency
  <2>1. PICK i \in 1..n : f = row[i]
    BY <1>2, <1>6 DEF ToSet
  <2> QED
    BY <1>5, <2>1
<1>9. row \in Seq(X)
  BY <1>1, <1>6
<1>10. TellsItems(row, g)
  <2>1. \A i \in DOMAIN row : /\ row[i].label[2] = g.items[i].category
                             /\ row[i].value = g.items[i].amount
    BY <1>1, <1>4, <1>5, <1>6
  <2> QED
    BY <1>1, <1>2, <1>6, <1>8, <2>1 DEF TellsItems
<1> QED
  BY <1>2, <1>7, <1>9, <1>10

\* The facts of a breakdown.
LEMMA BreakdownTold ==
    ASSUME NEW d, Whole(d.ledger), IsFiniteSet(d.accounts), NEW told,
           NEW range, NEW of, of = ReportScope(told, told.range),
           NEW groups, groups = CategoryBreakdown(d, told)
    PROVE  /\ TellsGroups(CategoryFacts(groups, range), groups, range)
           /\ \A g \in groups : g = GroupOf(d.ledger, g.currency, of)
<1>1. PICK l, currencies :
         /\ l = d.ledger
         /\ currencies = IF told.currency # None THEN {told.currency}
                         ELSE DistinctCurrencies(d, told)
  OBVIOUS
<1>2. groups = {GroupOf(l, c, of) : c \in currencies}
  BY <1>1 DEF CategoryBreakdown, GroupOf, ItemsOf, ItemOf
<1>3. \A c : GroupOf(l, c, of).currency = c
  BY DEF GroupOf
<1>4. \A g \in groups : g = GroupOf(l, g.currency, of)
  BY <1>2, <1>3
<1>5. IsFiniteSet(currencies)
  <2>1. PICK A, B : A = {u \in l : Within(u, of)}
                    /\ B = {b \in d.accounts : Matches(told.account, b.id)}
    OBVIOUS
  <2>2. PICK C, D : C = {t.currency : t \in A} /\ D = {a.currency : a \in B}
    OBVIOUS
  <2>3. DistinctCurrencies(d, told) = C \union D
    BY <1>1, <2>1, <2>2 DEF DistinctCurrencies
  <2>4. IsFiniteSet(A) /\ IsFiniteSet(B)
    BY <1>1, <2>1, FS_Subset DEF Whole
  <2>5. PICK f, h : f = [t \in A |-> t.currency] /\ h = [a \in B |-> a.currency]
    OBVIOUS
  <2>6. f \in Surjection(A, C) /\ h \in Surjection(B, D)
    BY <2>2, <2>5 DEF Surjection
  <2>7. IsFiniteSet(C) /\ IsFiniteSet(D)
    BY <2>4, <2>6, FS_Surjection
  <2>8. IsFiniteSet(C \union D)
    BY <2>7, FS_Union
  <2> QED
    BY <1>1, <2>3, <2>8, FS_Singleton
<1>6. IsFiniteSet(groups)
  <2>1. PICK f : f = [c \in currencies |-> GroupOf(l, c, of)]
    OBVIOUS
  <2>2. f \in Surjection(currencies, groups)
    BY <1>2, <2>1 DEF Surjection
  <2> QED
    BY <1>5, <2>2, FS_Surjection
<1>7. PICK part : part = [g \in groups |-> BreakdownRow(g, range)]
  OBVIOUS
<1>8. PICK seq, facts : seq = SetToSeq(groups) /\ facts = CategoryFacts(groups, range)
  OBVIOUS
<1>9. \A i \in DOMAIN seq : part[seq[i]] = BreakdownRow(seq[i], range)
  BY <1>6, <1>7, <1>8, PartsListed
<1>10. [i \in DOMAIN seq |-> part[seq[i]]] = [i \in DOMAIN seq |-> BreakdownRow(seq[i], range)]
  BY <1>9, Zenon
<1>11. CategoryFacts(groups, range)
         = FlattenSeq([i \in DOMAIN SetToSeq(groups) |-> BreakdownRow(SetToSeq(groups)[i], range)])
  BY DEF CategoryFacts, FactsOfRows, BreakdownRow
<1>12. Strung(facts, part, groups)
  BY ONLY <1>8, <1>10, <1>11, Zenon DEF Strung
<1>13. ASSUME NEW g \in groups
       PROVE  /\ part[g] \in Seq(ToSet(part[g])) /\ IsInjective(part[g])
              /\ \A f \in ToSet(part[g]) : f.label[3] = g.currency
  <2>1. PICK rows : rows = RowsOf(Debits(l, g.currency, of))
    OBVIOUS
  <2>2. Listing(GroupOf(l, g.currency, of), rows)
    BY <1>1, <2>1, GroupListed
  <2>3. Listing(g, rows)
    BY <1>4, <2>2
  <2>4. PICK row : row = part[g] /\ TellsGroup(row, g, range)
    BY <1>7 DEF TellsGroup
  <2>5. /\ row \in Seq(ToSet(row)) /\ IsInjective(row)
        /\ \A f \in ToSet(row) : f.label[3] = g.currency
    BY <2>3, <2>4, BreakdownRowListed DEF TellsItems
  <2> QED
    BY <2>4, <2>5
<1>14. ASSUME NEW x \in groups, NEW y \in groups, x # y
       PROVE  ToSet(part[x]) \intersect ToSet(part[y]) = {}
  <2>1. x.currency # y.currency
    BY <1>4, <1>14
  <2>2. ASSUME NEW f \in ToSet(part[x]), f \in ToSet(part[y])
        PROVE  FALSE
    BY <1>13, <2>1, <2>2
  <2> QED
    BY <2>2
<1>15. Parts(part, groups)
  BY <1>7, <1>13 DEF Parts
<1>16. Unrepeated(part, groups)
  BY <1>13, <1>14 DEF Unrepeated
<1>17. facts \in Seq(ToSet(facts)) /\ ToSet(facts) = UNION {ToSet(part[g]) : g \in groups}
  BY <1>6, <1>12, <1>15, FlattenedRows
<1>18. IsInjective(facts)
  BY <1>6, <1>12, <1>15, <1>16, FlattenedRows
<1>19. UNION {ToSet(part[g]) : g \in groups} = UNION {ToSet(BreakdownRow(g, range)) : g \in groups}
  BY <1>7
<1> QED
  BY <1>1, <1>4, <1>8, <1>17, <1>18, <1>19 DEF TellsGroups

\* The facts agree with the transactions in every currency.
Agrees(facts, l, range, scope) ==
    \A c : SumsAgree(facts, l, range, scope, c) /\ CategoriesAgree(facts, l, range, scope, c)

\* A value that is told is told by a fact.
LEMMA ValueTold ==
    ASSUME NEW facts, NEW label, Value(facts, label) # None
    PROVE  \E i \in DOMAIN facts :
              facts[i].label = label /\ Value(facts, label) = facts[i].value
<1>1. \E i \in DOMAIN facts : facts[i].label = label
  BY DEF Value
<1>2. PICK i : i = CHOOSE j \in DOMAIN facts : facts[j].label = label
  OBVIOUS
<1>3. i \in DOMAIN facts /\ facts[i].label = label
  BY <1>1, <1>2
<1>4. Value(facts, label) = facts[i].value
  BY <1>1, <1>2 DEF Value
<1> QED
  BY <1>3, <1>4

\* Right facts agree.
LEMMA RightAgrees ==
    ASSUME NEW facts, NEW l, NEW range, NEW scope,
           \A i \in DOMAIN facts : RightFact(facts[i], l, range, scope)
    PROVE  Agrees(facts, l, range, scope)
<1>1. ASSUME NEW c
      PROVE  SumsAgree(facts, l, range, scope, c)
  <2> DEFINE Flows(direction) == MovedIn(l, direction, range, scope, c)
             Earlier(direction) == MovedIn(l, direction, PreviousRangeOf(range), scope, c)
             Says(name) == Value(facts, <<name, c>>)
  <2>1. Says("expenses") \in {None, Flows("debit")}
    BY ValueTold DEF RightFact
  <2>2. Says("income") \in {None, Flows("credit")}
    BY ValueTold DEF RightFact
  <2>3. Says("net") \in {None, Flows("credit") - Flows("debit")}
    BY ValueTold DEF RightFact
  <2>4. Says("expense_change") \in {None, Flows("debit") - Earlier("debit")}
    BY ValueTold DEF RightFact
  <2>5. Says("income_change") \in {None, Flows("credit") - Earlier("credit")}
    BY ValueTold DEF RightFact
  <2> QED
    BY <2>1, <2>2, <2>3, <2>4, <2>5 DEF SumsAgree, PreviousRangeOf
<1>2. ASSUME NEW c
      PROVE  CategoriesAgree(facts, l, range, scope, c)
  <2>1. {i \in DOMAIN facts : facts[i].label[1] = "category" /\ facts[i].label[3] = c} = {}
    BY DEF RightFact
  <2>2. Cardinality({}) = 0
    BY FS_EmptySet
  <2>3. 0 \notin 1..(MaxBreakdown - 1)
    BY ConversationsAssumption
  <2> QED
    BY <2>1, <2>2, <2>3 DEF CategoriesAgree
<1> QED
  BY <1>1, <1>2 DEF Agrees

\* What is left out of a list does not make the rest wrong.
LEMMA NumberedOf ==
    ASSUME NEW facts, facts \in Seq(ToSet(facts))
    PROVE  /\ DOMAIN Numbered(facts) \subseteq DOMAIN facts
           /\ \A i \in DOMAIN Numbered(facts) : /\ Numbered(facts)[i] = facts[i]
                                               /\ Numbered(facts)[i] \in ToSet(facts)
           /\ Len(Numbered(facts)) < MaxFacts => Numbered(facts) = facts
<1>1. PICK n \in Nat : n = Len(facts) /\ DOMAIN facts = 1..n
  OBVIOUS
<1>2. PICK kept : kept = Numbered(facts)
  OBVIOUS
<1>3. kept = [i \in (1..MaxFacts) \intersect (1..n) |-> facts[i]]
  BY <1>1, <1>2 DEF Numbered, FirstOf
<1>4. DOMAIN kept = (1..MaxFacts) \intersect (1..n) /\ \A i \in DOMAIN kept : kept[i] = facts[i]
  BY <1>3
<1>5. \A i \in DOMAIN kept : kept[i] \in ToSet(facts)
  BY <1>1, <1>4 DEF ToSet
<1>6. ASSUME Len(kept) < MaxFacts
      PROVE  kept = facts
  <2>1. CASE n <= MaxFacts
    <3>1. (1..MaxFacts) \intersect (1..n) = 1..n
      BY <2>1, ConversationsAssumption
    <3>2. kept = [i \in 1..n |-> facts[i]]
      BY <1>3, <3>1
    <3>3. facts = [i \in 1..n |-> facts[i]]
      BY <1>1
    <3> QED
      BY <3>2, <3>3
  <2>2. CASE n > MaxFacts
    <3>1. (1..MaxFacts) \intersect (1..n) = 1..MaxFacts
      BY <2>2, ConversationsAssumption
    <3>2. kept = [i \in 1..MaxFacts |-> facts[i]]
      BY <1>3, <3>1
    <3>3. Len(kept) = MaxFacts
      BY <3>2, ConversationsAssumption
    <3> QED
      BY <1>6, <3>3, ConversationsAssumption
  <2> QED
    BY <2>1, <2>2, ConversationsAssumption
<1> QED
  BY <1>1, <1>2, <1>4, <1>5, <1>6

\* Right facts agree, however many of them are kept.
LEMMA NumberedRight ==
    ASSUME NEW facts, NEW l, NEW range, NEW scope, RightFacts(facts, l, range, scope)
    PROVE  Agrees(Numbered(facts), l, range, scope)
<1>1. PICK kept : kept = Numbered(facts)
  OBVIOUS
<1>2. \A i \in DOMAIN kept : RightFact(kept[i], l, range, scope)
  BY <1>1, NumberedOf DEF RightFacts
<1>3. Agrees(kept, l, range, scope)
  BY <1>2, RightAgrees
<1> QED
  BY <1>1, <1>3

\* A fact of a breakdown names no sum but that of its category.
LEMMA CategorySums ==
    ASSUME NEW facts, NEW l, NEW range, NEW scope, NEW c,
           \A i \in DOMAIN facts : facts[i].label[1] = "category"
    PROVE  SumsAgree(facts, l, range, scope, c)
<1>1. ASSUME NEW name \in {"expenses", "income", "net", "expense_change", "income_change"},
             Value(facts, <<name, c>>) # None
      PROVE  FALSE
  <2>1. PICK i \in DOMAIN facts : facts[i].label = <<name, c>>
    BY <1>1, ValueTold
  <2>2. facts[i].label[1] = name
    BY <2>1
  <2> QED
    BY <2>2
<1>2. \A name \in {"expenses", "income", "net", "expense_change", "income_change"} :
         Value(facts, <<name, c>>) = None
  BY <1>1
<1> QED
  BY <1>2 DEF SumsAgree

\* The facts that show the categories of a currency.
ShownOf(facts, c) ==
    {i \in DOMAIN facts : facts[i].label[1] = "category" /\ facts[i].label[3] = c}

\* They are the items of its group, each once.
ShowsGroup(shown, facts, items) ==
    /\ \A i \in shown : \E j \in DOMAIN items : /\ facts[i].label[2] = items[j].category
                                              /\ facts[i].value = items[j].amount
    /\ \A j \in DOMAIN items : \E i \in shown : facts[i].label[2] = items[j].category
    /\ \A i, k \in shown : facts[i].label[2] = facts[k].label[2] => i = k

\* The facts about a currency are those of the items of its group.
LEMMA GroupShown ==
    ASSUME NEW facts, NEW groups, NEW range, TellsGroups(facts, groups, range),
           \A x, y \in groups : x.currency = y.currency => x = y,
           \A x \in groups : \E rows : Listing(x, rows),
           NEW g \in groups, NEW shown, shown = ShownOf(facts, g.currency)
    PROVE  ShowsGroup(shown, facts, g.items)
<1>1. PICK items : items = g.items
  OBVIOUS
<1>2. ASSUME NEW x \in groups
      PROVE  TellsItems(BreakdownRow(x, range), x)
  <2>1. PICK rows : Listing(x, rows)
    OBVIOUS
  <2>2. PICK row : row = BreakdownRow(x, range) /\ TellsGroup(row, x, range)
    BY DEF TellsGroup
  <2> QED
    BY <2>1, <2>2, BreakdownRowListed
<1>3. PICK row : row = BreakdownRow(g, range) /\ TellsItems(row, g)
  BY <1>2
<1>4. ASSUME NEW i \in shown
      PROVE  \E j \in DOMAIN items : facts[i] = row[j]
  <2>1. i \in DOMAIN facts /\ facts[i].label[3] = g.currency
    BY DEF ShownOf
  <2>2. facts[i] \in ToSet(facts)
    BY <2>1 DEF ToSet
  <2>3. PICK x \in groups : facts[i] \in ToSet(BreakdownRow(x, range))
    BY <2>2 DEF TellsGroups
  <2>4. facts[i].label[3] = x.currency
    BY <1>2, <2>3 DEF TellsItems
  <2>5. x = g
    BY <2>1, <2>4
  <2>6. facts[i] \in ToSet(row)
    BY <1>3, <2>3, <2>5
  <2> QED
    BY <1>1, <1>3, <2>6 DEF ToSet, TellsItems
<1>5. ASSUME NEW j \in DOMAIN items
      PROVE  \E i \in shown : facts[i] = row[j]
  <2>1. row[j] \in ToSet(row)
    BY <1>1, <1>3 DEF ToSet, TellsItems
  <2>2. row[j] \in ToSet(facts)
    BY <1>3, <2>1 DEF TellsGroups
  <2>3. PICK i \in DOMAIN facts : facts[i] = row[j]
    BY <2>2 DEF ToSet
  <2>4. facts[i].label[1] = "category" /\ facts[i].label[3] = g.currency
    BY <1>3, <2>1, <2>3 DEF TellsItems
  <2> QED
    BY <2>3, <2>4 DEF ShownOf
<1>6. ASSUME NEW i \in shown, NEW k \in shown, facts[i].label[2] = facts[k].label[2]
      PROVE  i = k
  <2>1. PICK p \in DOMAIN items : facts[i] = row[p]
    BY <1>4
  <2>2. PICK q \in DOMAIN items : facts[k] = row[q]
    BY <1>4
  <2>3. items[p].category = items[q].category
    BY <1>1, <1>3, <1>6, <2>1, <2>2 DEF TellsItems
  <2>4. p = q
    BY <1>1, <2>3 DEF Listing, ListsCategories
  <2>5. i \in DOMAIN facts /\ k \in DOMAIN facts /\ facts[i] = facts[k]
    BY <2>1, <2>2, <2>4 DEF ShownOf
  <2> QED
    BY <2>5 DEF TellsGroups, IsInjective
<1>7. ShowsGroup(shown, facts, items)
  <2>1. \A j \in DOMAIN items : /\ row[j].label[2] = items[j].category
                               /\ row[j].value = items[j].amount
    BY <1>1, <1>3 DEF TellsItems
  <2> QED
    BY <1>4, <1>5, <1>6, <2>1 DEF ShowsGroup
<1> QED
  BY <1>1, <1>7

\* If the list was not cut, the amounts shown add up to all the rows.
LEMMA ShownAddUp ==
    ASSUME NEW facts, NEW items, NEW rows, ListsCategories(items, rows), IsFiniteSet(rows),
           \A r \in rows : r.amount \in Int, NEW shown, IsFiniteSet(shown),
           ShowsGroup(shown, facts, items), Cardinality(shown) < MaxBreakdown,
           NEW amount, amount = [i \in shown |-> facts[i].value]
    PROVE  ValuesSum(amount, shown) = Total(rows)
<1>1. PICK n : n = Len(items)
  OBVIOUS
<1>2. n \in Nat /\ DOMAIN items = 1..n
  BY <1>1 DEF ListsCategories
<1>3. n <= Cardinality(shown)
  <2>1. PICK f : f = [j \in 1..n |-> CHOOSE i \in shown : facts[i].label[2] = items[j].category]
    OBVIOUS
  <2>2. ASSUME NEW j \in 1..n
        PROVE  f[j] \in shown /\ facts[f[j]].label[2] = items[j].category
    <3>1. \E i \in shown : facts[i].label[2] = items[j].category
      BY <1>2 DEF ShowsGroup
    <3> QED
      BY <2>1, <3>1
  <2>3. ASSUME NEW j \in 1..n, NEW k \in 1..n, f[j] = f[k]
        PROVE  j = k
    <3>1. items[j].category = items[k].category
      BY <2>2, <2>3
    <3> QED
      BY <1>2, <3>1 DEF ListsCategories
  <2>4. f \in [1..n -> shown]
    BY <2>1, <2>2
  <2>5. f \in Injection(1..n, shown)
    BY <2>3, <2>4 DEF Injection, IsInjective
  <2>6. Cardinality(1..n) <= Cardinality(shown)
    BY <2>5, FS_Injection
  <2>7. Cardinality(1..n) = n
    BY <1>2, FS_Interval
  <2> QED
    BY <2>6, <2>7
<1>4. n < MaxBreakdown
  BY <1>2, <1>3, FS_CardinalityType, ConversationsAssumption
<1>5. \A r \in rows : \E j \in DOMAIN items : items[j].category = r.category
  BY <1>1, <1>4 DEF ListsCategories
<1>6. PICK group :
         group = [r \in rows |-> CHOOSE i \in shown : facts[i].label[2] = r.category]
  OBVIOUS
<1>7. ASSUME NEW r \in rows
      PROVE  group[r] \in shown /\ facts[group[r]].label[2] = r.category
  <2>1. PICK j \in DOMAIN items : items[j].category = r.category
    BY <1>5
  <2>2. \E i \in shown : facts[i].label[2] = r.category
    BY <2>1 DEF ShowsGroup
  <2> QED
    BY <1>6, <2>2
<1>8. ASSUME NEW i \in shown
      PROVE  amount[i] = Total({r \in rows : group[r] = i})
  <2>1. PICK j \in DOMAIN items : /\ facts[i].label[2] = items[j].category
                                 /\ facts[i].value = items[j].amount
    BY DEF ShowsGroup
  <2>2. ASSUME NEW r \in rows
        PROVE  group[r] = i <=> r.category = items[j].category
    BY <1>7, <2>1 DEF ShowsGroup
  <2>3. {r \in rows : group[r] = i} = {r \in rows : r.category = items[j].category}
    BY <2>2
  <2>4. items[j].amount = Total({r \in rows : r.category = items[j].category})
    BY DEF ListsCategories
  <2>5. amount[i] = items[j].amount
    BY <2>1
  <2> QED
    BY ONLY <2>3, <2>4, <2>5, Zenon
<1>9. Weighs(amount, group, shown, rows)
  BY <1>7, <1>8 DEF Weighs
<1> QED
  BY <1>9, ValuesGathered

\* What is spent is what the debits of a scope add up to, and so do the rows for them.
LEMMA DebitsMoved ==
    ASSUME NEW l, Whole(l), NEW of, NEW range, NEW scope, NEW c,
           of.from = range.from, of.to = range.to, of.account = scope.account
    PROVE  LET rows == RowsOf(Debits(l, c, of))
           IN /\ IsFiniteSet(rows) /\ \A r \in rows : r.amount \in Int
              /\ Total(rows) = MovedIn(l, "debit", range, scope, c)
<1>1. PICK T, rows : T = Debits(l, c, of) /\ rows = RowsOf(T)
  OBVIOUS
<1>2. PICK S :
         S = {t \in l :
               /\ t.status = "confirmed" /\ t.direction = "debit" /\ t.transfer # "confirmed"
               /\ range.from <= t.date /\ t.date <= range.to /\ t.currency = c
               /\ scope.account \in {None, t.account}}
  OBVIOUS
<1>3. T = S
  BY <1>1, <1>2 DEF Debits, Within, Counted
<1>4. MovedIn(l, "debit", range, scope, c) = Total(S)
  BY <1>2 DEF MovedIn
<1>5. Whole(T)
  <2>1. T \in SUBSET l
    BY <1>1 DEF Debits
  <2> QED
    BY <2>1, WholePart
<1>6. IsFiniteSet(rows) /\ \A r \in rows : r.amount \in Nat
  BY <1>1, <1>5, WholeRows
<1>7. Total(rows) = Total(T)
  BY <1>1, <1>5, RowsAddUp
<1> QED
  BY <1>1, <1>3, <1>4, <1>6, <1>7

\* The tool of a question about categories agrees, cut or not.
LEMMA BreakdownAgrees ==
    ASSUME NEW d, Whole(d.ledger), IsFiniteSet(d.accounts), NEW question, NEW plan, NEW scope,
           scope = ScopeOf(question, plan), NEW today, NEW facts,
           facts = ToolFacts("category_breakdown", d, scope, today)
    PROVE  facts \in Seq(ToSet(facts)) /\ Agrees(Numbered(facts), d.ledger, scope.range, scope)
<1>1. PICK l, told, range :
         l = d.ledger /\ told = ToolArguments("category_breakdown", scope) /\ range = scope.range
  OBVIOUS
<1>2. told.range = range /\ told.account = scope.account
  BY <1>1 DEF ToolArguments
<1>3. PICK of, groups : /\ of = ReportScope(told, told.range)
                        /\ groups = CategoryBreakdown(d, told)
  OBVIOUS
<1>4. of.from = range.from /\ of.to = range.to /\ of.account = scope.account
  BY <1>2, <1>3 DEF ReportScope
<1>5. facts = CategoryFacts(groups, range)
  BY <1>1, <1>3 DEF ToolFacts
<1>6. TellsGroups(facts, groups, range) /\ \A g \in groups : g = GroupOf(l, g.currency, of)
  BY <1>1, <1>3, <1>5, BreakdownTold
<1>7. ASSUME NEW g \in groups
      PROVE  Listing(g, RowsOf(Debits(l, g.currency, of)))
  <2>1. PICK rows : rows = RowsOf(Debits(l, g.currency, of))
    OBVIOUS
  <2>2. Listing(GroupOf(l, g.currency, of), rows)
    BY <1>1, <2>1, GroupListed
  <2> QED
    BY <1>6, <2>1, <2>2
<1>8. \A g \in groups : \E rows : Listing(g, rows)
  BY <1>7
<1>9. \A x, y \in groups : x.currency = y.currency => x = y
  BY <1>6
<1>10. ASSUME NEW i \in DOMAIN facts
       PROVE  \E g \in groups : facts[i].label[1] = "category" /\ facts[i].label[3] = g.currency
  <2>1. facts[i] \in ToSet(facts)
    BY DEF ToSet
  <2>2. PICK g \in groups : facts[i] \in ToSet(BreakdownRow(g, range))
    BY <1>6, <2>1 DEF TellsGroups
  <2>3. PICK rows, row : /\ Listing(g, rows) /\ row = BreakdownRow(g, range)
                         /\ TellsGroup(row, g, range)
    BY <1>8 DEF TellsGroup
  <2>4. TellsItems(row, g)
    BY <2>3, BreakdownRowListed
  <2> QED
    BY <2>2, <2>3, <2>4 DEF TellsItems
<1>11. facts \in Seq(ToSet(facts))
  BY <1>6 DEF TellsGroups
<1>12. PICK kept : kept = Numbered(facts)
  OBVIOUS
<1>13. /\ DOMAIN kept \subseteq DOMAIN facts /\ \A i \in DOMAIN kept : kept[i] = facts[i]
       /\ Len(kept) < MaxFacts => kept = facts
  BY <1>11, <1>12, NumberedOf
<1>14. ASSUME NEW c
       PROVE  SumsAgree(kept, l, range, scope, c)
  <2>1. \A i \in DOMAIN kept : kept[i].label[1] = "category"
    BY <1>10, <1>13
  <2> QED
    BY <2>1, CategorySums
<1>15. ASSUME NEW c
       PROVE  CategoriesAgree(kept, l, range, scope, c)
  <2>1. PICK shown, amount : /\ shown = ShownOf(kept, c)
                             /\ amount = [i \in shown |-> kept[i].value]
    OBVIOUS
  <2>2. ASSUME Len(kept) < MaxFacts, Cardinality(shown) \in 1..(MaxBreakdown - 1)
        PROVE  ValuesSum(amount, shown) = MovedIn(l, "debit", range, scope, c)
    <3>1. kept = facts
      BY <1>13, <2>2
    <3>2. IsFiniteSet(shown)
      <4>1. PICK n \in Nat : DOMAIN facts = 1..n
        BY <1>11
      <4>2. shown \in SUBSET (1..n)
        BY <2>1, <3>1, <4>1 DEF ShownOf
      <4>3. IsFiniteSet(1..n)
        BY <4>1, FS_Interval
      <4> QED
        BY <4>2, <4>3, FS_Subset
    <3>3. shown # {}
      <4>1. Cardinality({}) = 0
        BY FS_EmptySet
      <4>2. 0 \notin 1..(MaxBreakdown - 1)
        BY ConversationsAssumption
      <4> QED
        BY <2>2, <4>1, <4>2
    <3>4. PICK g \in groups : g.currency = c
      BY <1>10, <2>1, <3>1, <3>3 DEF ShownOf
    <3>5. ShowsGroup(shown, facts, g.items)
      BY <1>6, <1>8, <1>9, <2>1, <3>1, <3>4, GroupShown
    <3>6. PICK rows, items : rows = RowsOf(Debits(l, c, of)) /\ items = g.items
      OBVIOUS
    <3>7. ListsCategories(items, rows)
      BY <1>7, <3>4, <3>6 DEF Listing
    <3>8. /\ IsFiniteSet(rows) /\ \A r \in rows : r.amount \in Int
          /\ Total(rows) = MovedIn(l, "debit", range, scope, c)
      BY <1>1, <1>4, <3>6, DebitsMoved
    <3>9. Cardinality(shown) < MaxBreakdown
      BY <2>2, ConversationsAssumption
    <3>10. amount = [i \in shown |-> facts[i].value]
      BY <2>1, <3>1
    <3>11. ShowsGroup(shown, facts, items)
      BY <3>5, <3>6
    <3>12. ValuesSum(amount, shown) = Total(rows)
      BY <3>2, <3>7, <3>8, <3>9, <3>10, <3>11, ShownAddUp
    <3> QED
      BY <3>8, <3>12
  <2> QED
    BY <2>1, <2>2 DEF CategoriesAgree, ShownOf
<1>16. Agrees(kept, l, range, scope)
  BY <1>14, <1>15 DEF Agrees
<1> QED
  BY <1>1, <1>11, <1>12, <1>16

\* What is known of the facts of a question about sums before and after they are
\* complete: the tools yet to run are those of its topic, and what the others found
\* agrees with data d.
FactsKnown(record, d) ==
    LET topic == record.plan.topic
        range == record.plan.range
        scope == ScopeOf(record.question, record.plan)
    IN /\ record.pc = "explain" /\ topic \in {"period_summary", "category_breakdown"} =>
             Agrees(record.facts, d.ledger, range, scope)
       /\ record.pc = "tools" /\ topic = "period_summary" =>
             /\ record.tools \in Seq({"period_summary", "compare_periods"})
             /\ RightFacts(record.facts, d.ledger, range, scope)
       /\ record.pc = "tools" /\ topic = "category_breakdown" =>
             IF record.tools = <<>> THEN Agrees(Numbered(record.facts), d.ledger, range, scope)
             ELSE record.tools = <<"category_breakdown">> /\ record.facts = <<>>

FactsHeld == \A a \in Asks : a \notin edited => FactsKnown(ask[a], data)

FactsInv == Shape /\ FactsHeld

\* The first of a list are a list of the same.
LEMMA FirstOfSeq ==
    ASSUME NEW X, NEW s \in Seq(X), NEW n \in Nat
    PROVE  FirstOf(s, n) \in Seq(X)
<1>1. PICK m \in Nat : DOMAIN s = 1..m /\ \A i \in 1..m : s[i] \in X
  OBVIOUS
<1>2. PICK k \in Nat : (1..n) \intersect (1..m) = 1..k
  <2>1. CASE n <= m
    BY <2>1, <1>1
  <2>2. CASE m < n
    BY <2>2, <1>1
  <2> QED
    BY <2>1, <2>2, <1>1
<1>3. PICK first : first = FirstOf(s, n)
  OBVIOUS
<1>4. first = [i \in 1..k |-> s[i]]
  BY <1>1, <1>2, <1>3 DEF FirstOf
<1>5. \A i \in 1..k : s[i] \in X
  BY <1>1, <1>2
<1>6. first \in Seq(X)
  BY <1>2, <1>4, <1>5
<1> QED
  BY <1>3, <1>6

\* The first of one is that one or nothing.
LEMMA FirstOfOne ==
    ASSUME NEW x, NEW n \in Nat
    PROVE  FirstOf(<<x>>, n) \in {<<>>, <<x>>}
<1>1. PICK first : first = FirstOf(<<x>>, n)
  OBVIOUS
<1>2. first = [i \in (1..n) \intersect (1..1) |-> <<x>>[i]]
  BY <1>1 DEF FirstOf
<1>3. CASE n = 0
  <2>1. (1..n) \intersect (1..1) = {}
    BY <1>3
  <2>2. first = <<>>
    BY <1>2, <2>1
  <2> QED
    BY <1>1, <2>2
<1>4. CASE n # 0
  <2>1. (1..n) \intersect (1..1) = 1..1
    BY <1>4
  <2>2. first = <<x>>
    BY <1>2, <2>1
  <2> QED
    BY <1>1, <2>2
<1> QED
  BY <1>3, <1>4

\* Nothing is told yet.
LEMMA NothingAgrees ==
    ASSUME NEW l, NEW range, NEW scope
    PROVE  Agrees(Numbered(<<>>), l, range, scope)
  BY RightNone, NumberedRight

\* A question that is asked of its tools has not been told anything.
LEMMA PlannedKnown ==
    ASSUME NEW question, NEW currencies, NEW d
    PROVE  FactsKnown(Planned(question, PlanAdvisorRequest(question, Today, currencies)), d)
<1>1. PICK plan : plan = PlanAdvisorRequest(question, Today, currencies)
  OBVIOUS
<1>2. plan.tools = ToolNamesFor(plan.topic, question.compare)
  BY <1>1 DEF PlanAdvisorRequest
<1>3. PICK record : record = Planned(question, plan)
  OBVIOUS
<1>4. CASE plan.needsClarification \/ plan.topic = "unsupported"
  <2>1. record.pc = "thread"
    BY <1>3, <1>4 DEF Planned, Asking
  <2>2. FactsKnown(record, d)
    BY <2>1 DEF FactsKnown
  <2> QED
    BY <1>1, <1>3, <2>2
<1>5. CASE ~ (plan.needsClarification \/ plan.topic = "unsupported")
  <2>1. PICK tools : tools = FirstOf(plan.tools, MaxToolCalls)
    OBVIOUS
  <2>2. /\ record.pc = "tools" /\ record.plan = plan /\ record.tools = tools
        /\ record.facts = <<>>
    BY <1>3, <1>5, <2>1 DEF Planned, Asking
  <2>3. ASSUME plan.topic = "period_summary"
        PROVE  tools \in Seq({"period_summary", "compare_periods"})
    <3>1. \/ plan.tools = <<"period_summary">>
          \/ plan.tools = <<"period_summary", "compare_periods">>
      BY <1>2, <2>3 DEF ToolNamesFor
    <3>2. <<"period_summary">> \in Seq({"period_summary", "compare_periods"})
      OBVIOUS
    <3>3. <<"period_summary", "compare_periods">> \in Seq({"period_summary", "compare_periods"})
      OBVIOUS
    <3>4. plan.tools \in Seq({"period_summary", "compare_periods"})
      BY <3>1, <3>2, <3>3
    <3> QED
      BY <2>1, <3>4, FirstOfSeq, ConversationsAssumption
  <2>4. ASSUME plan.topic = "category_breakdown"
        PROVE  tools \in {<<>>, <<"category_breakdown">>}
    <3>1. plan.tools = <<"category_breakdown">>
      BY <1>2, <2>4 DEF ToolNamesFor
    <3> QED
      BY <2>1, <3>1, FirstOfOne, ConversationsAssumption
  <2>5. FactsKnown(record, d)
    BY <2>2, <2>3, <2>4, RightNone, NothingAgrees DEF FactsKnown
  <2> QED
    BY <1>1, <1>3, <2>5
<1> QED
  BY <1>4, <1>5

\* A tool adds what it finds.
LEMMA ToolKnown ==
    ASSUME NEW record, Asked(record), NEW d \in Databases, FactsKnown(record, d),
           record.pc = "tools", record.tools # <<>>, NEW new,
           new.pc = record.pc, new.plan = record.plan, new.question = record.question,
           new.tools = Tail(record.tools),
           new.facts = record.facts
              \o ToolFacts(Head(record.tools), d, ScopeOf(record.question, record.plan), Today)
    PROVE  FactsKnown(new, d)
<1>1. PICK range, scope :
         range = record.plan.range /\ scope = ScopeOf(record.question, record.plan)
  OBVIOUS
<1>2. scope.range = range
  BY <1>1 DEF ScopeOf
<1>3. Whole(d.ledger) /\ IsFiniteSet(d.accounts)
  BY DatabasesAssumption
<1>4. PICK tool, found : /\ tool = Head(record.tools)
                         /\ found = ToolFacts(tool, d, scope, Today)
  OBVIOUS
<1>5. new.facts = record.facts \o found
  BY <1>1, <1>4
<1>6. ASSUME record.plan.topic = "period_summary"
      PROVE  /\ new.tools \in Seq({"period_summary", "compare_periods"})
             /\ RightFacts(new.facts, d.ledger, range, scope)
  <2>1. /\ record.tools \in Seq({"period_summary", "compare_periods"})
        /\ RightFacts(record.facts, d.ledger, range, scope)
    BY <1>1, <1>6 DEF FactsKnown
  <2>2. tool \in {"period_summary", "compare_periods"}
    BY <1>4, <2>1
  <2>3. new.tools \in Seq({"period_summary", "compare_periods"})
    BY <2>1
  <2>4. IsFiniteSet(d.ledger)
    BY <1>3 DEF Whole
  <2>5. RightFacts(found, d.ledger, range, scope)
    BY <1>1, <1>2, <1>4, <2>2, <2>4, PeriodToolsRight
  <2>6. RightFacts(new.facts, d.ledger, range, scope)
    BY <1>5, <2>1, <2>5, RightBoth
  <2> QED
    BY <2>3, <2>6
<1>7. ASSUME record.plan.topic = "category_breakdown"
      PROVE  new.tools = <<>> /\ Agrees(Numbered(new.facts), d.ledger, range, scope)
  <2>1. record.tools = <<"category_breakdown">> /\ record.facts = <<>>
    BY <1>7 DEF FactsKnown
  <2>2. tool = "category_breakdown" /\ new.tools = <<>>
    BY <1>4, <2>1
  <2>3. found \in Seq(ToSet(found)) /\ Agrees(Numbered(found), d.ledger, range, scope)
    BY <1>1, <1>2, <1>3, <1>4, <2>2, BreakdownAgrees
  <2>4. new.facts = found
    <3>1. <<>> \o found = found
      BY <2>3
    <3> QED
      BY <1>5, <2>1, <3>1
  <2> QED
    BY <2>2, <2>3, <2>4
<1> QED
  BY <1>1, <1>6, <1>7 DEF FactsKnown

\* The facts are complete.
LEMMA CollectedKnown ==
    ASSUME NEW record, NEW d, FactsKnown(record, d), record.pc = "tools", record.tools = <<>>,
           NEW new, new.pc = "explain", new.plan = record.plan,
           new.question = record.question, new.facts = Numbered(record.facts)
    PROVE  FactsKnown(new, d)
<1>1. PICK range, scope :
         range = record.plan.range /\ scope = ScopeOf(record.question, record.plan)
  OBVIOUS
<1>2. record.plan.topic = "period_summary"
         => Agrees(new.facts, d.ledger, range, scope)
  BY <1>1, NumberedRight DEF FactsKnown
<1>3. record.plan.topic = "category_breakdown"
         => Agrees(new.facts, d.ledger, range, scope)
  BY <1>1 DEF FactsKnown
<1> QED
  BY <1>1, <1>2, <1>3 DEF FactsKnown

\* A request that neither runs tools nor explains is told nothing.
LEMMA ElsewhereKnown ==
    ASSUME NEW record, NEW d, record.pc \notin {"tools", "explain"}
    PROVE  FactsKnown(record, d)
  BY DEF FactsKnown

\* What one request knows, by action; an edit spares those alone that have nothing to lose.
LEMMA FactsStep ==
    ASSUME FactsInv, ConversationsNext \/ UNCHANGED conversationVars
    PROVE  FactsHeld'
<1>1. ASSUME NEW a \in Asks, NEW record, ask' = [ask EXCEPT ![a] = record],
             UNCHANGED <<data, edited>>, a \notin edited => FactsKnown(record, data)
      PROVE  FactsHeld'
  <2>1. ask' = [b \in Asks |-> IF b = a THEN record ELSE ask[b]]
    BY <1>1 DEF FactsInv, Shape
  <2>2. \A b \in Asks : b \notin edited => FactsKnown(ask'[b], data)
    BY <1>1, <2>1 DEF FactsInv, FactsHeld
  <2> QED
    BY <1>1, <2>2 DEF FactsHeld
<1>2. CASE UNCHANGED <<ask, data, edited>>
  BY <1>2 DEF FactsInv, FactsHeld
<1>3. ASSUME NEW a \in Asks
      PROVE  Asked(ask[a]) /\ (a \notin edited => FactsKnown(ask[a], data))
  BY DEF FactsInv, Shape, FactsHeld
<1>4. data \in Databases
  BY DEF FactsInv, Shape
<1>5. ASSUME NEW a \in Asks, NEW record, ask' = [ask EXCEPT ![a] = record],
             UNCHANGED <<data, edited>>, record.pc \notin {"tools", "explain"}
      PROVE  FactsHeld'
  BY <1>1, <1>5, ElsewhereKnown
<1>6. ASSUME NEW a \in Asks, NEW question \in Questions[a], AskQuestion(a, question)
      PROVE  FactsHeld'
  <2>1. PICK planned, refused :
           /\ planned = Planned(question, PlanAdvisorRequest(question, Today, CurrenciesInUse))
           /\ refused = [Unasked EXCEPT !.pc = "refused"]
    OBVIOUS
  <2>2. ask' = [ask EXCEPT ![a] = refused] \/ ask' = [ask EXCEPT ![a] = planned]
    BY <1>6, <2>1 DEF AskQuestion, Set
  <2>3. UNCHANGED <<data, edited>>
    BY <1>6 DEF AskQuestion
  <2>4. refused.pc = "refused"
    BY <2>1 DEF Unasked
  <2>5. FactsKnown(planned, data)
    BY <2>1, PlannedKnown
  <2> QED
    BY <1>1, <1>5, <2>2, <2>3, <2>4, <2>5
<1>7. ASSUME NEW a \in Asks, RunTool(a)
      PROVE  FactsHeld'
  <2>1. PICK record, found :
           /\ record = ask[a]
           /\ found = ToolFacts(Head(record.tools), data,
                                ScopeOf(record.question, record.plan), Today)
    OBVIOUS
  <2>2. PICK new : new = [record EXCEPT !.tools = Tail(record.tools),
                                        !.facts = record.facts \o found]
    OBVIOUS
  <2>3. Asked(record)
    BY <1>3, <2>1
  <2>4. record.pc = "tools" /\ record.tools # <<>> /\ UNCHANGED <<data, edited>>
    BY <1>7, <2>1 DEF RunTool
  <2>5. ask' = [ask EXCEPT ![a] = new]
    <3>1. new = [record EXCEPT !.tools = Tail(record.tools), !.facts = @ \o found]
      BY <2>2, <2>3 DEF Asked, Fields
    <3> QED
      BY <1>7, <2>1, <3>1 DEF RunTool, Set
  <2>6. /\ new.pc = record.pc /\ new.plan = record.plan /\ new.question = record.question
        /\ new.tools = Tail(record.tools) /\ new.facts = record.facts \o found
    BY <2>2, <2>3 DEF Asked, Fields
  <2>7. a \notin edited => FactsKnown(record, data)
    BY <1>3, <2>1
  <2>8. a \notin edited => FactsKnown(new, data)
    BY <1>4, <2>1, <2>3, <2>4, <2>6, <2>7, ToolKnown
  <2> QED
    BY <1>1, <2>4, <2>5, <2>8
<1>8. ASSUME NEW a \in Asks, CollectFacts(a)
      PROVE  FactsHeld'
  <2>1. PICK record, facts, noData :
           /\ record = ask[a] /\ facts = Numbered(record.facts)
           /\ noData = [NoAnswer EXCEPT !.text = "noData"]
    OBVIOUS
  <2>2. PICK found, none, some : /\ found = [record EXCEPT !.facts = facts]
                                 /\ none = [found EXCEPT !.pc = "thread", !.answer = noData]
                                 /\ some = [found EXCEPT !.pc = "explain"]
    OBVIOUS
  <2>3. Asked(record)
    BY <1>3, <2>1
  <2>4. record.pc = "tools" /\ record.tools = <<>> /\ UNCHANGED <<data, edited>>
    BY <1>8, <2>1 DEF CollectFacts
  <2>5. ask' = [ask EXCEPT ![a] = none] \/ ask' = [ask EXCEPT ![a] = some]
    BY <1>8, <2>1, <2>2 DEF CollectFacts, Set
  <2>6. /\ none.pc = "thread" /\ some.pc = "explain" /\ some.plan = record.plan
        /\ some.question = record.question /\ some.facts = Numbered(record.facts)
    BY <2>1, <2>2, <2>3 DEF Asked, Fields
  <2>7. a \notin edited => FactsKnown(record, data)
    BY <1>3, <2>1
  <2>8. a \notin edited => FactsKnown(some, data)
    BY <2>4, <2>6, <2>7, CollectedKnown
  <2> QED
    BY <1>1, <1>5, <2>4, <2>5, <2>6, <2>8
<1>9. ASSUME NEW a \in Asks, NEW response \in Responses, Explain(a, response)
      PROVE  FactsHeld'
  <2>1. PICK record, answered, again, failed :
           /\ record = ask[a]
           /\ answered = [record EXCEPT !.pc = "thread", !.answer = Answered(a, response)]
           /\ again = [record EXCEPT !.attempt = @ + 1]
           /\ failed = [record EXCEPT !.pc = "failed"]
    OBVIOUS
  <2>2. Asked(record)
    BY <1>3, <2>1
  <2>3. \/ ask' = [ask EXCEPT ![a] = answered] \/ ask' = [ask EXCEPT ![a] = again]
        \/ ask' = [ask EXCEPT ![a] = failed]
    BY <1>9, <2>1 DEF Explain, Set, Fail
  <2>4. UNCHANGED <<data, edited>>
    BY <1>9 DEF Explain
  <2>5. /\ answered.pc = "thread" /\ failed.pc = "failed"
        /\ again.pc = record.pc /\ again.plan = record.plan
        /\ again.question = record.question /\ again.facts = record.facts
        /\ again.tools = record.tools
    BY <2>1, <2>2 DEF Asked, Fields
  <2>6. a \notin edited => FactsKnown(record, data)
    BY <1>3, <2>1
  <2>7. a \notin edited => FactsKnown(again, data)
    BY <2>5, <2>6 DEF FactsKnown
  <2> QED
    BY <1>1, <1>5, <2>3, <2>4, <2>5, <2>7
<1>10. ASSUME NEW a \in Asks, EnsureThread(a)
       PROVE  FactsHeld'
  <2>1. \/ ask' = [ask EXCEPT ![a] = [ask[a] EXCEPT !.pc = "check"]]
        \/ \E t \in Threads :
              ask' = [ask EXCEPT ![a] = [ask[a] EXCEPT !.pc = "check", !.thread = t]]
    BY <1>10 DEF EnsureThread, Set
  <2>2. /\ [ask[a] EXCEPT !.pc = "check"].pc = "check"
        /\ \A t : [ask[a] EXCEPT !.pc = "check", !.thread = t].pc = "check"
    BY <1>3 DEF Asked, Fields
  <2>3. UNCHANGED <<data, edited>>
    BY <1>10 DEF EnsureThread
  <2> QED
    BY <1>5, <2>1, <2>2, <2>3
<1>11. ASSUME NEW a \in Asks, ProviderFails(a) \/ CheckThread(a) \/ InsertMessage(a)
       PROVE  FactsHeld'
  <2>1. \/ \E pc \in {"check", "insert", "failed", "done"} :
              ask' = [ask EXCEPT ![a] = [ask[a] EXCEPT !.pc = pc]]
        \/ ask' = [ask EXCEPT ![a] = [ask[a] EXCEPT !.pc = "check", !.role = "assistant"]]
    BY <1>11 DEF ProviderFails, CheckThread, InsertMessage, Appended, Set, Fail
  <2>2. /\ \A pc : [ask[a] EXCEPT !.pc = pc].pc = pc
        /\ [ask[a] EXCEPT !.pc = "check", !.role = "assistant"].pc = "check"
    BY <1>3 DEF Asked, Fields
  <2>3. UNCHANGED <<data, edited>>
    BY <1>11 DEF ProviderFails, CheckThread, InsertMessage
  <2> QED
    BY <1>5, <2>1, <2>2, <2>3
<1>12. ASSUME EditData
       PROVE  FactsHeld'
  <2>1. ask' = ask /\ edited' = edited \union {a \in Asks : Running(a)}
    BY <1>12 DEF EditData
  <2>2. ASSUME NEW a \in Asks, a \notin edited'
        PROVE  FactsKnown(ask'[a], data')
    <3>1. ask'[a].pc \notin {"tools", "explain"}
      BY <2>1, <2>2 DEF Running
    <3> QED
      BY <3>1, ElsewhereKnown
  <2> QED
    BY <2>2 DEF FactsHeld
<1>13. \/ \E a \in Asks : \E question \in Questions[a] : AskQuestion(a, question)
       \/ \E a \in Asks : RunTool(a) \/ CollectFacts(a) \/ ProviderFails(a) \/ EnsureThread(a)
                            \/ CheckThread(a) \/ InsertMessage(a)
       \/ \E a \in Asks : \E response \in Responses : Explain(a, response)
       \/ EditData \/ UNCHANGED <<ask, data, edited>>
  BY DEF ConversationsNext, conversationVars, ArchiveThread, RestoreThread, DeleteMessages,
         DeleteThread, Tick
<1> QED
  BY <1>2, <1>6, <1>7, <1>8, <1>9, <1>10, <1>11, <1>12, <1>13

\* As long as nobody edits the data meanwhile, whatever tools a question about sums runs and
\* wherever the lists are cut, its facts agree with one another and with the transactions.
THEOREM AdvisorFactsAgree == Spec => []FactsAgree
<1>1. Init => FactsHeld
  <2> SUFFICES ASSUME Init
               PROVE  FactsHeld
    OBVIOUS
  <2>1. \A a \in Asks : ask[a].pc = "idle"
    BY DEF Init, ConversationsInit, Unasked
  <2> QED
    BY <2>1, ElsewhereKnown DEF FactsHeld
<1>2. Shape /\ FactsHeld /\ [Next]_vars => FactsHeld'
  BY ConversationsHalf, FactsStep DEF FactsInv
<1>3. Spec => []Shape
  <2>1. ConversationsInv => Shape
    BY DEF ConversationsInv
  <2> QED
    BY <2>1, AdvisorConversationsInvariant, PTL
<1>4. Spec => []FactsHeld
  BY <1>1, <1>2, <1>3, PTL DEF Spec
<1>5. FactsHeld => FactsAgree
  BY DEF FactsHeld, FactsKnown, Agrees, FactsAgree
<1> QED
  BY <1>4, <1>5, PTL
==============================================================================
