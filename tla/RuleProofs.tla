------------------------------ MODULE RuleProofs ------------------------------
(***************************************************************************)
(* For any rules, transactions and requests: everything a rule gave is     *)
(* recorded, is given once, and a reversal takes back nothing else.  The   *)
(* requests write what they read some time ago; the proofs say what of it  *)
(* is still so: that a rule without an event holds nothing, and that what  *)
(* a reversal found to be another's does not become the rule's.            *)
(***************************************************************************)
EXTENDS ClassificationRules, TLAPS

Effects == [primary : BOOLEAN, event : Event]

\* What each request in flight holds.
RequestOK(q) ==
    /\ q.pc = "category" =>
          /\ q.category \in Categories /\ q.name \in Names
          /\ q.parent \in Categories \union {None}
    /\ q.pc = "disable" => q.rules \in SUBSET Rules
    /\ q.pc = "rule" =>
          /\ q.rule \in Rules /\ q.doc \in Document /\ q.version \in 0..MaxVersion
          /\ q.status \in {"enabled", "disabled", "same"}
    /\ q.pc = "primary" =>
          /\ q.tx \in Transactions /\ q.category \in Categories \union {None}
          /\ q.suppressed \in SUBSET Rules
    /\ q.pc = "labels" =>
          /\ q.tx \in Transactions /\ q.labels \in SUBSET Labels
          /\ q.suppressed \in SUBSET Rules
    /\ q.pc \in {"run", "apply"} =>
          /\ q.rows \in [Rules -> Rule] /\ q.todo \in SUBSET Rules /\ q.tx \in Transactions
    /\ q.pc = "apply" => q.rule \in Rules /\ q.effect \in Effects
    /\ q.pc = "revert" => q.rule \in Rules /\ q.tx \in Transactions /\ q.primary \in BOOLEAN

RequestsOK ==
    /\ DOMAIN request = Requests
    /\ \A r \in Requests : RequestOK(request[r])

\* An event names the source of the category before it, and so does what is to
\* become an event.
Sourced(e) == e.before # None => e.source \in Sources

EventsOK ==
    /\ \A k \in Rules, t \in Transactions : event[<<k, t>>] # None => Sourced(event[<<k, t>>])
    /\ \A r \in Requests : request[r].pc = "apply" =>
          LET effect == request[r].effect
          IN /\ Sourced(effect.event) /\ ~effect.event.reverted
             /\ effect.primary => effect.event.result # None

HeldBy(primary, k) == SourceOf(primary) = "rule" /\ primary.rule = k

Holds(k, t) == HeldBy(ledger[t].primary, k)

\* A reversal knows its event, and whether the category is still the rule's.
RevertsOK ==
    \A r \in Requests : request[r].pc = "revert" =>
       LET q == request[r]
       IN event[<<q.rule, q.tx>>] # None /\ (~q.primary => ~Holds(q.rule, q.tx))

RulesInv == TypeOK /\ RequestsOK /\ EventsOK /\ RevertsOK /\ EffectsRecorded

------------------------------------------------------------------------------
(* Requests.                                                               *)

\* Whoever holds something of these shapes, and only its request, keeps them.
LEMMA HoldOK ==
    ASSUME RequestsOK, NEW r \in Requests, NEW q, RequestOK(q), Hold(r, q)
    PROVE  RequestsOK'
  BY DEF RequestsOK, Hold, RequestOK, Rule, Category, Document, Labels, Event, Effects

\* A request that answers is idle again.
LEMMA AnswerOK ==
    ASSUME RequestsOK, NEW r \in Requests, Answer(r)
    PROVE  RequestsOK'
  BY DEF RequestsOK, Answer, Idle, RequestOK

\* A request begins from idle, and is counted.
LEMMA BeginOK ==
    ASSUME TypeOK, NEW r \in Requests, Begin(r)
    PROVE  begun' \in 0..MaxRequests /\ request[r].pc = "idle"
  BY TreeAssumption DEF TypeOK, Begin

------------------------------------------------------------------------------
(* The catalogue of categories, tags and rules.                            *)

\* Maintaining categories, tags and rules keeps the types.
LEMMA TreeTypes ==
    ASSUME TypeOK, RequestsOK, NEW r \in Requests, TreeStep(r)
    PROVE  TypeOK' /\ RequestsOK'
<1> USE DEF TypeOK
<1>1. CASE ReadCategory(r)
  <2>1. PICK c \in Categories, p \in Categories \union {None}, n \in Names :
          Hold(r, [pc |-> "category", category |-> c, parent |-> p, name |-> n,
                   new |-> category[c].status = "absent"])
    BY <1>1 DEF ReadCategory
  <2>2. RequestOK([pc |-> "category", category |-> c, parent |-> p, name |-> n,
                   new |-> category[c].status = "absent"])
    BY DEF RequestOK
  <2> QED
    BY <1>1, <2>1, <2>2, HoldOK, BeginOK DEF ReadCategory, treeFrame
<1>2. CASE WriteCategory(r)
  <2> DEFINE q == request[r]
             status == IF q.new THEN "active" ELSE category[q.category].status
             rows == [category EXCEPT ![q.category] =
                         [status |-> status, parent |-> q.parent, name |-> q.name]]
  <2>1. /\ q.category \in Categories /\ q.name \in Names
        /\ q.parent \in Categories \union {None}
    BY <1>2 DEF WriteCategory, RequestsOK, RequestOK
  <2>2. category[q.category] \in Category
    BY <2>1
  <2>3. [status |-> status, parent |-> q.parent, name |-> q.name] \in Category
    BY <2>1, <2>2 DEF Category
  <2>4. rows \in [Categories -> Category]
    BY <2>1, <2>3
  <2>5. category' \in [Categories -> Category] /\ SiblingNames(category')
    BY <1>2, <2>4 DEF WriteCategory
  <2> QED
    BY <1>2, <2>5, AnswerOK DEF WriteCategory, treeFrame, SiblingNames
<1>3. CASE ArchiveCategory(r)
  <2>1. PICK c \in Categories :
          /\ category' = [category EXCEPT ![c].status = "archived"]
          /\ category[c].status # "absent"
          /\ Hold(r, [pc |-> "references", category |-> c])
    BY <1>3 DEF ArchiveCategory
  <2>2. RequestOK([pc |-> "references", category |-> c])
    BY DEF RequestOK
  <2>3. category' \in [Categories -> Category] /\ SiblingNames(category')
    BY <2>1 DEF Category, SiblingNames
  <2> QED
    BY <1>3, <2>1, <2>2, <2>3, HoldOK, BeginOK DEF ArchiveCategory, treeFrame, SiblingNames
<1>4. CASE RestoreCategory(r)
  <2>1. PICK c \in Categories :
          /\ category' = [category EXCEPT ![c].status = "active"]
          /\ category[c].status # "absent"
    BY <1>4 DEF RestoreCategory
  <2>2. category' \in [Categories -> Category] /\ SiblingNames(category')
    BY <2>1 DEF Category, SiblingNames
  <2> QED
    BY <1>4, <2>2, BeginOK DEF RestoreCategory, treeFrame, SiblingNames, RequestsOK, RequestOK
<1>5. CASE ReadReferences(r)
  <2> DEFINE found == {k \in Rules : /\ rule[k].status # "absent"
                                     /\ request[r].category \in Referenced(rule[k].doc)}
  <2>1. RequestOK([pc |-> "disable", rules |-> found])
    BY DEF RequestOK
  <2>2. RequestsOK'
    BY <1>5, <2>1, HoldOK, AnswerOK DEF ReadReferences
  <2> QED
    BY <1>5, <2>2 DEF ReadReferences, treeFrame, SiblingNames
<1>6. CASE DisableRule(r)
  <2>1. PICK k \in request[r].rules :
          /\ rule' = [rule EXCEPT ![k].status = Disabled(@)]
          /\ LET rest == request[r].rules \ {k}
             IN IF rest = {} THEN Answer(r) ELSE Hold(r, [pc |-> "disable", rules |-> rest])
    BY <1>6 DEF DisableRule
  <2>2. k \in Rules /\ request[r].rules \in SUBSET Rules
    BY <1>6 DEF DisableRule, RequestsOK, RequestOK
  <2>3. RequestOK([pc |-> "disable", rules |-> request[r].rules \ {k}])
    BY <2>2 DEF RequestOK
  <2>4. RequestsOK'
    BY <2>1, <2>3, HoldOK, AnswerOK
  <2>5. rule' \in [Rules -> Rule]
    BY <2>1, <2>2 DEF Rule, Disabled
  <2> QED
    BY <1>6, <2>4, <2>5 DEF DisableRule, treeFrame, SiblingNames
<1>7. CASE WriteTag(r)
  BY <1>7, BeginOK DEF WriteTag, treeFrame, SiblingNames, RequestsOK, RequestOK
<1>8. CASE ReadRule(r)
  <2>1. PICK k \in Rules, doc \in Documents, on \in {"enabled", "disabled", "same"} :
          /\ rule[k].version < MaxVersion
          /\ Hold(r, [pc |-> "rule", rule |-> k, doc |-> doc, status |-> on,
                      version |-> rule[k].version + 1])
    BY <1>8 DEF ReadRule
  <2>2. doc \in Document /\ rule[k].version + 1 \in 0..MaxVersion
    BY <2>1, TreeAssumption DEF Rule
  <2>3. RequestOK([pc |-> "rule", rule |-> k, doc |-> doc, status |-> on,
                   version |-> rule[k].version + 1])
    BY <2>2 DEF RequestOK
  <2> QED
    BY <1>8, <2>1, <2>3, HoldOK, BeginOK DEF ReadRule, treeFrame, SiblingNames
<1>9. CASE WriteRule(r)
  <2>1. /\ request[r].rule \in Rules /\ request[r].doc \in Document
        /\ request[r].version \in 0..MaxVersion
        /\ request[r].status \in {"enabled", "disabled", "same"}
    BY <1>9 DEF WriteRule, RequestsOK, RequestOK
  <2>2. rule' \in [Rules -> Rule]
    BY <1>9, <2>1 DEF WriteRule, Rule
  <2> QED
    BY <1>9, <2>2, AnswerOK DEF WriteRule, treeFrame, SiblingNames
<1>10. CASE RuleAction(r)
  <2>1. rule' \in [Rules -> Rule]
    BY <1>10 DEF RuleAction, Rule, Disabled
  <2> QED
    BY <1>10, <2>1, BeginOK DEF RuleAction, treeFrame, SiblingNames, RequestsOK, RequestOK
<1> QED
  BY <1>1, <1>2, <1>3, <1>4, <1>5, <1>6, <1>7, <1>8, <1>9, <1>10 DEF TreeStep

------------------------------------------------------------------------------
(* Classification: types.                                                  *)

\* What applying a rule would write is an effect.
LEMMA EffectType ==
    ASSUME TypeOK, NEW k \in Rules, NEW t \in Transactions, NEW doc \in Document, NEW past
    PROVE  /\ Effect(k, doc, t, past) \in Effects
           /\ Sourced(Effect(k, doc, t, past).event)
           /\ ~Effect(k, doc, t, past).event.reverted
           /\ Effect(k, doc, t, past).primary => Effect(k, doc, t, past).event.result # None
<1> DEFINE before == ledger[t].primary
           decides == Decides(k, doc, t, past)
           e == Effect(k, doc, t, past).event
<1>1. ledger[t] \in Transaction /\ before \in Primary \union {None}
  BY DEF TypeOK, Transaction
<1>2. /\ CategoryOf(before) \in Categories \union {None}
      /\ SourceOf(before) \in Sources \union {None}
      /\ CategoryOf(before) # None => SourceOf(before) \in Sources
  BY <1>1 DEF CategoryOf, SourceOf, Primary
<1>3. decides \in BOOLEAN /\ (decides => doc.primary # None)
  BY DEF Decides
<1>4. e = [before   |-> CategoryOf(before), source |-> SourceOf(before),
           result   |-> IF decides THEN doc.primary ELSE CategoryOf(before),
           added    |-> doc.labels \ LabelsOf(t),
           reviewed |-> doc.review /\ ~ ledger[t].reviewed,
           reverted |-> FALSE]
      /\ Effect(k, doc, t, past).primary = decides
  BY DEF Effect
<1>5. doc.primary \in Categories \union {None} /\ doc.labels \in SUBSET Labels
      /\ doc.review \in BOOLEAN
  BY DEF Document
<1>6. (doc.review /\ ~ ledger[t].reviewed) \in BOOLEAN
  OBVIOUS
<1>7. e \in Event
  BY <1>2, <1>4, <1>5, <1>6 DEF Event
<1>8. Effect(k, doc, t, past) \in Effects
  BY <1>3, <1>4, <1>7 DEF Effects, Effect
<1> QED
  BY <1>2, <1>3, <1>4, <1>8 DEF Sourced

\* A request that goes on with other rules keeps what it holds.
LEMMA AdvanceOK ==
    ASSUME RequestsOK, NEW r \in Requests, request[r].pc \in {"run", "apply"},
           NEW rest \in SUBSET Rules, Advance(r, rest)
    PROVE  RequestsOK'
<1> DEFINE q == request[r]
           next == [pc |-> "run", rows |-> q.rows, todo |-> rest, tx |-> q.tx, past |-> q.past]
<1>1. RequestOK(next)
  BY DEF RequestsOK, RequestOK
<1> QED
  BY <1>1, HoldOK, AnswerOK DEF Advance

\* The transaction a request writes to, as a record of the table.
LEMMA LedgerType ==
    ASSUME TypeOK, NEW t \in Transactions
    PROVE  /\ ledger[t].primary \in Primary \union {None}
           /\ ledger[t].labels \in SUBSET Label
           /\ ledger[t].reviewed \in BOOLEAN
           /\ ledger[t].suppressed \in SUBSET Rules
           /\ ledger[t].split \in BOOLEAN
  BY DEF TypeOK, Transaction

\* What a rule or its reversal writes to a transaction.
LEMMA LedgerUpdate ==
    ASSUME TypeOK, NEW t \in Transactions, NEW primary \in Primary \union {None},
           NEW labels \in SUBSET Label, NEW reviewed \in BOOLEAN,
           ledger' = [ledger EXCEPT ![t].primary = primary, ![t].labels = labels,
                                    ![t].reviewed = reviewed]
    PROVE  ledger' \in [Transactions -> Transaction]
<1> DEFINE first  == [ledger[t] EXCEPT !.primary = primary]
           second == [first EXCEPT !.labels = labels]
           row    == [second EXCEPT !.reviewed = reviewed]
<1>1. ledger[t] \in Transaction /\ ledger \in [Transactions -> Transaction]
  BY DEF TypeOK
<1>2. first \in Transaction
  BY <1>1 DEF Transaction
<1>3. second \in Transaction
  BY <1>2 DEF Transaction
<1>4. row \in Transaction
  BY <1>3 DEF Transaction
<1>5. [ledger[t] EXCEPT !.primary = primary, !.labels = labels, !.reviewed = reviewed] = row
  OBVIOUS
<1>6. ledger' = [ledger EXCEPT ![t] = row]
  BY <1>5
<1> QED
  BY <1>1, <1>4, <1>6

\* What a patch by hand writes to a transaction, besides what it suppresses.
LEMMA PatchUpdate ==
    ASSUME TypeOK, NEW t \in Transactions, NEW suppressed \in SUBSET Rules,
           \/ \E primary \in Primary \union {None} :
                 ledger' = [ledger EXCEPT ![t].primary = primary, ![t].suppressed = suppressed]
           \/ \E labels \in SUBSET Label :
                 ledger' = [ledger EXCEPT ![t].labels = labels, ![t].suppressed = suppressed]
    PROVE  ledger' \in [Transactions -> Transaction]
<1>1. ledger[t] \in Transaction /\ ledger \in [Transactions -> Transaction]
  BY DEF TypeOK
<1>2. ASSUME NEW first \in Transaction
      PROVE  [first EXCEPT !.suppressed = suppressed] \in Transaction
  BY DEF Transaction
<1>3. PICK first \in Transaction :
         ledger' = [ledger EXCEPT ![t] = [first EXCEPT !.suppressed = suppressed]]
  <2>1. ASSUME NEW primary \in Primary \union {None},
               ledger' = [ledger EXCEPT ![t].primary = primary, ![t].suppressed = suppressed]
        PROVE  \E first \in Transaction :
                  ledger' = [ledger EXCEPT ![t] = [first EXCEPT !.suppressed = suppressed]]
    <3>1. [ledger[t] EXCEPT !.primary = primary] \in Transaction
      BY <1>1 DEF Transaction
    <3>2. ledger' = [ledger EXCEPT
             ![t] = [[ledger[t] EXCEPT !.primary = primary] EXCEPT !.suppressed = suppressed]]
      BY <2>1
    <3> QED
      BY <3>1, <3>2
  <2>2. ASSUME NEW labels \in SUBSET Label,
               ledger' = [ledger EXCEPT ![t].labels = labels, ![t].suppressed = suppressed]
        PROVE  \E first \in Transaction :
                  ledger' = [ledger EXCEPT ![t] = [first EXCEPT !.suppressed = suppressed]]
    <3>1. [ledger[t] EXCEPT !.labels = labels] \in Transaction
      BY <1>1 DEF Transaction
    <3>2. ledger' = [ledger EXCEPT
             ![t] = [[ledger[t] EXCEPT !.labels = labels] EXCEPT !.suppressed = suppressed]]
      BY <2>2
    <3> QED
      BY <3>1, <3>2
  <2> QED
    BY <2>1, <2>2
<1>4. PICK row : row = [first EXCEPT !.suppressed = suppressed]
  OBVIOUS
<1>5. row \in Transaction /\ ledger' = [ledger EXCEPT ![t] = row]
  BY <1>2, <1>3, <1>4
<1> QED
  BY <1>1, <1>5

\* Patching a transaction keeps the types.
LEMMA PatchTypes ==
    ASSUME TypeOK, RequestsOK, NEW r \in Requests,
           \/ ReadPatch(r) \/ WritePrimary(r) \/ WriteLabels(r) \/ WriteReviewed(r)
           \/ WriteSplits(r) \/ Abandon(r)
    PROVE  TypeOK' /\ RequestsOK'
<1> USE DEF TypeOK
<1>1. CASE ReadPatch(r)
  <2>1. PICK t \in Transactions :
          \/ \E c \in Categories \union {None} :
                Hold(r, [pc |-> "primary", tx |-> t, category |-> c,
                         suppressed |-> Suppressing(t, c)])
          \/ \E kind \in {Categories, Tags} : \E labels \in Asked(t, kind) :
                Hold(r, [pc |-> "labels", tx |-> t, kind |-> kind, labels |-> labels,
                         suppressed |-> ledger[t].suppressed])
    BY <1>1 DEF ReadPatch
  <2>2. LabelsOf(t) \in SUBSET Labels /\ ledger[t].suppressed \in SUBSET Rules
    BY LedgerType DEF LabelsOf, Label
  <2>3. ASSUME NEW c PROVE Suppressing(t, c) \in SUBSET Rules
    BY LedgerType DEF Suppressing, Primary
  <2>4. ASSUME NEW kind \in {Categories, Tags}, NEW labels \in Asked(t, kind)
        PROVE  labels \in SUBSET Labels
    <3>1. kind \subseteq Labels
      BY DEF Labels
    <3>2. \/ labels \subseteq kind
          \/ \E l \in kind : labels = (LabelsOf(t) \intersect kind) \union {l}
          \/ \E l \in kind : labels = (LabelsOf(t) \intersect kind) \ {l}
      BY <2>4 DEF Asked
    <3> QED
      BY <3>1, <3>2
  <2>5. RequestsOK'
    <3>1. ASSUME NEW c \in Categories \union {None}
          PROVE  RequestOK([pc |-> "primary", tx |-> t, category |-> c,
                            suppressed |-> Suppressing(t, c)])
      BY <2>3 DEF RequestOK
    <3>2. ASSUME NEW kind \in {Categories, Tags}, NEW labels \in Asked(t, kind)
          PROVE  RequestOK([pc |-> "labels", tx |-> t, kind |-> kind, labels |-> labels,
                            suppressed |-> ledger[t].suppressed])
      BY <2>2, <2>4 DEF RequestOK
    <3> QED
      BY <2>1, <3>1, <3>2, HoldOK
  <2> QED
    BY <1>1, <2>5, BeginOK DEF ReadPatch, tree, SiblingNames
<1>2. CASE WritePrimary(r)
  <2> DEFINE q == request[r]
             primary == IF q.category = None THEN None
                        ELSE [category |-> q.category, source |-> "manual", rule |-> None]
  <2>1. /\ q.tx \in Transactions /\ q.category \in Categories \union {None}
        /\ q.suppressed \in SUBSET Rules
    BY <1>2 DEF WritePrimary, RequestsOK, RequestOK
  <2>2. primary \in Primary \union {None}
    BY <2>1 DEF Primary, Sources
  <2>3. ledger' \in [Transactions -> Transaction]
    <3>1. ledger' = [ledger EXCEPT ![q.tx].primary = primary, ![q.tx].suppressed = q.suppressed]
      BY <1>2 DEF WritePrimary
    <3> QED
      BY <2>1, <2>2, <3>1, PatchUpdate
  <2> QED
    BY <1>2, <2>3, AnswerOK DEF WritePrimary, tree, SiblingNames
<1>3. CASE WriteLabels(r)
  <2> DEFINE q == request[r]
             labels == {l \in ledger[q.tx].labels : l.label \notin q.kind} \union ByHand(q.labels)
  <2>1. /\ q.tx \in Transactions /\ q.labels \in SUBSET Labels
        /\ q.suppressed \in SUBSET Rules
    BY <1>3 DEF WriteLabels, RequestsOK, RequestOK
  <2>2. labels \in SUBSET Label
    BY <2>1, LedgerType DEF ByHand, Label
  <2>3. ledger' = [ledger EXCEPT ![q.tx].labels = labels, ![q.tx].suppressed = q.suppressed]
    BY <1>3 DEF WriteLabels
  <2>4. ledger' \in [Transactions -> Transaction]
    BY <2>1, <2>2, <2>3, PatchUpdate
  <2> QED
    BY <1>3, <2>4, AnswerOK DEF WriteLabels, tree, SiblingNames
<1>4. CASE WriteReviewed(r) \/ WriteSplits(r)
  <2>1. PICK t \in Transactions : \/ ledger' = [ledger EXCEPT ![t].reviewed = ~ ledger[t].reviewed]
                                  \/ ledger' = [ledger EXCEPT ![t].split = ~ ledger[t].split]
    BY <1>4 DEF WriteReviewed, WriteSplits
  <2>2. (~ ledger[t].reviewed) \in BOOLEAN /\ (~ ledger[t].split) \in BOOLEAN
    OBVIOUS
  <2>3. ledger' \in [Transactions -> Transaction]
    <3>1. /\ [ledger[t] EXCEPT !.reviewed = ~ ledger[t].reviewed] \in Transaction
          /\ [ledger[t] EXCEPT !.split = ~ ledger[t].split] \in Transaction
      BY <2>2 DEF Transaction
    <3> QED
      BY <2>1, <3>1
  <2> QED
    BY <1>4, <2>3, BeginOK
    DEF WriteReviewed, WriteSplits, tree, SiblingNames, RequestsOK, RequestOK
<1>5. CASE Abandon(r)
  BY <1>5, AnswerOK DEF Abandon, tree, SiblingNames
<1> QED
  BY <1>1, <1>2, <1>3, <1>4, <1>5

\* Applying and reverting a rule keeps the types.
LEMMA RuleTypes ==
    ASSUME TypeOK, RequestsOK, EventsOK, RevertsOK, NEW r \in Requests,
           \/ ReadRules(r) \/ ReadPreview(r) \/ ReadApply(r) \/ WriteApply(r)
           \/ ReadRevert(r) \/ WriteRevert(r)
    PROVE  TypeOK' /\ RequestsOK'
<1> USE DEF TypeOK
<1>1. CASE ReadRules(r) \/ ReadPreview(r)
  <2>1. PICK todo \in SUBSET Rules, t \in Transactions, past \in BOOLEAN :
          Hold(r, [pc |-> "run", rows |-> rule, todo |-> todo, tx |-> t, past |-> past])
    BY <1>1 DEF ReadRules, ReadPreview
  <2>2. RequestOK([pc |-> "run", rows |-> rule, todo |-> todo, tx |-> t, past |-> past])
    BY DEF RequestOK
  <2> QED
    BY <1>1, <2>1, <2>2, HoldOK, BeginOK DEF ReadRules, ReadPreview, tree, SiblingNames
<1>2. CASE ReadApply(r)
  <2> DEFINE q == request[r]
  <2>1. /\ q.rows \in [Rules -> Rule] /\ q.todo \in SUBSET Rules /\ q.tx \in Transactions
        /\ q.pc = "run"
    BY <1>2 DEF ReadApply, RequestsOK, RequestOK
  <2>2. PICK k \in q.todo :
          LET effect == Effect(k, q.rows[k].doc, q.tx, q.past)
          IN \/ Hold(r, [pc |-> "apply", rows |-> q.rows, todo |-> q.todo \ {k}, rule |-> k,
                         tx |-> q.tx, past |-> q.past, effect |-> effect])
             \/ Advance(r, q.todo \ {k})
    BY <1>2 DEF ReadApply
  <2> DEFINE effect == Effect(k, q.rows[k].doc, q.tx, q.past)
  <2>3. effect \in Effects
    BY <2>1, EffectType DEF Rule
  <2>4. RequestOK([pc |-> "apply", rows |-> q.rows, todo |-> q.todo \ {k}, rule |-> k,
                   tx |-> q.tx, past |-> q.past, effect |-> effect])
    BY <2>1, <2>3 DEF RequestOK
  <2>5. RequestsOK'
    BY <2>1, <2>2, <2>4, HoldOK, AdvanceOK
  <2> QED
    BY <1>2, <2>5 DEF ReadApply, tree, SiblingNames
<1>3. CASE WriteApply(r)
  <2> DEFINE q == request[r]
             e == q.effect.event
             primary == IF q.effect.primary
                        THEN [category |-> e.result, source |-> "rule", rule |-> q.rule]
                        ELSE ledger[q.tx].primary
             labels == ledger[q.tx].labels \union ByRule(q.rule, e.added)
  <2>1. /\ q.rule \in Rules /\ q.tx \in Transactions /\ q.effect \in Effects
        /\ q.todo \in SUBSET Rules /\ q.pc = "apply"
    BY <1>3 DEF WriteApply, RequestsOK, RequestOK
  <2>2. RequestsOK'
    BY <1>3, <2>1, AdvanceOK, AnswerOK DEF WriteApply
  <2>3. e \in Event /\ (q.effect.primary => e.result \in Categories)
    BY <2>1 DEF Effects, Event, EventsOK
  <2>4. primary \in Primary \union {None}
    BY <2>1, <2>3, LedgerType DEF Primary, Sources
  <2>5. labels \in SUBSET Label
    BY <2>1, <2>3, LedgerType DEF ByRule, Label, Event
  <2>6. (ledger[q.tx].reviewed \/ e.reviewed) \in BOOLEAN
    OBVIOUS
  <2>7. ledger' \in [Transactions -> Transaction] /\ event' \in ClassificationEvents
    <3>1. CASE Insertable(q.rule, q.tx, q.effect)
      <4>1. /\ ledger' = [ledger EXCEPT ![q.tx].primary = primary, ![q.tx].labels = labels,
                                        ![q.tx].reviewed = ledger[q.tx].reviewed \/ e.reviewed]
            /\ event' = [event EXCEPT ![<<q.rule, q.tx>>] = e]
        BY <1>3, <3>1 DEF WriteApply, Recorded
      <4>2. ledger' \in [Transactions -> Transaction]
        BY <2>1, <2>4, <2>5, <2>6, <4>1, LedgerUpdate, ZenonT(60)
      <4>3. event' \in ClassificationEvents
        BY <2>1, <2>3, <4>1 DEF ClassificationEvents
      <4> QED
        BY <4>2, <4>3
    <3> QED
      BY <1>3, <3>1 DEF WriteApply
  <2> QED
    BY <1>3, <2>2, <2>7 DEF WriteApply, tree, SiblingNames
<1>4. CASE ReadRevert(r)
  <2>1. PICK k \in Rules, t \in Transactions, primary \in BOOLEAN :
          Hold(r, [pc |-> "revert", rule |-> k, tx |-> t, primary |-> primary])
    BY <1>4 DEF ReadRevert
  <2>2. RequestOK([pc |-> "revert", rule |-> k, tx |-> t, primary |-> primary])
    BY DEF RequestOK
  <2> QED
    BY <1>4, <2>1, <2>2, HoldOK, BeginOK DEF ReadRevert, tree, SiblingNames
<1>5. CASE WriteRevert(r)
  <2> DEFINE k == request[r].rule
             t == request[r].tx
             e == event[<<k, t>>]
             primary == IF ~ request[r].primary THEN ledger[t].primary
                        ELSE IF e.before = None THEN None
                        ELSE [category |-> e.before, source |-> e.source, rule |-> None]
             labels == ledger[t].labels \ Withdrawn(k, t)
  <2>1. k \in Rules /\ t \in Transactions /\ request[r].pc = "revert"
    BY <1>5 DEF WriteRevert, RequestsOK, RequestOK
  <2>2. e \in Event /\ Sourced(e)
    BY <2>1 DEF RevertsOK, EventsOK, ClassificationEvents
  <2>3. primary \in Primary \union {None}
    BY <2>1, <2>2, LedgerType DEF Primary, Event, Sourced
  <2>4. labels \in SUBSET Label
    BY <2>1, LedgerType
  <2>5. (ledger[t].reviewed /\ ~ e.reviewed) \in BOOLEAN
    OBVIOUS
  <2>6. /\ ledger' = [ledger EXCEPT ![t].primary = primary, ![t].labels = labels,
                                    ![t].reviewed = ledger[t].reviewed /\ ~ e.reviewed]
        /\ event' = [event EXCEPT ![<<k, t>>].reverted = TRUE]
    BY <1>5 DEF WriteRevert
  <2>7. ledger' \in [Transactions -> Transaction]
    BY <2>1, <2>3, <2>4, <2>5, <2>6, LedgerUpdate, ZenonT(60)
  <2>8. event' \in ClassificationEvents
    <3>1. [e EXCEPT !.reverted = TRUE] \in Event
      BY <2>2 DEF Event
    <3> QED
      BY <2>1, <2>6, <3>1 DEF ClassificationEvents
  <2> QED
    BY <1>5, <2>7, <2>8, AnswerOK DEF WriteRevert, tree, SiblingNames
<1> QED
  BY <1>1, <1>2, <1>3, <1>4, <1>5

\* Every step keeps the types.
LEMMA RuleStepTypes ==
    ASSUME RulesInv, [Next]_vars
    PROVE  TypeOK' /\ RequestsOK'
<1> USE DEF RulesInv
<1>1. CASE Next
  <2>1. PICK r \in Requests : TreeStep(r) \/ ClassifyStep(r)
    BY <1>1 DEF Next
  <2> QED
    BY <2>1, TreeTypes, PatchTypes, RuleTypes DEF ClassifyStep
<1>2. CASE UNCHANGED vars
  BY <1>2 DEF vars, TypeOK, SiblingNames, RequestsOK, RequestOK
<1> QED
  BY <1>1, <1>2

------------------------------------------------------------------------------
(* What a step may do to the ledger and to the events: users and the tree  *)
(* give nothing in the name of a rule, a rule gives what its new event     *)
(* records, and a reversal takes only from one transaction and one rule.   *)

HandStep ==
    /\ event' = event
    /\ \A t \in Transactions :
          /\ \A l \in ledger'[t].labels : l \in ledger[t].labels \/ l.rule = None
          /\ \/ ledger'[t].primary = ledger[t].primary \/ ledger'[t].primary = None
             \/ ledger'[t].primary.rule = None

ApplyStep(k, t, e) ==
    /\ event[<<k, t>>] = None /\ e \in Event /\ ~e.reverted /\ Sourced(e)
    /\ event' = [event EXCEPT ![<<k, t>>] = e]
    /\ \A u \in Transactions \ {t} : ledger'[u] = ledger[u]
    /\ ledger'[t].labels = ledger[t].labels \union ByRule(k, e.added)
    /\ \/ ledger'[t].primary = ledger[t].primary
       \/ ledger'[t].primary = [category |-> e.result, source |-> "rule", rule |-> k]

RevertStep(k, t) ==
    /\ event[<<k, t>>] # None
    /\ event' = [event EXCEPT ![<<k, t>>].reverted = TRUE]
    /\ \A u \in Transactions \ {t} : ledger'[u] = ledger[u]
    /\ ledger'[t].labels = ledger[t].labels \ Withdrawn(k, t)
    /\ \/ ledger'[t].primary = ledger[t].primary /\ ~Holds(k, t)
       \/ ledger'[t].primary = None \/ ledger'[t].primary.rule = None

LedgerStep ==
    \/ HandStep
    \/ \E k \in Rules, t \in Transactions, e \in Event : ApplyStep(k, t, e)
    \/ \E k \in Rules, t \in Transactions : RevertStep(k, t)

\* Every step does to labels, events and suppressions what LedgerStep says.
LEMMA LedgerSteps ==
    ASSUME RulesInv, [Next]_vars
    PROVE  LedgerStep
<1> USE DEF RulesInv
<1>1. CASE UNCHANGED <<ledger, event>>
  BY <1>1 DEF LedgerStep, HandStep
<1>2. ASSUME NEW r \in Requests, WritePrimary(r) \/ WriteLabels(r) \/ WriteReviewed(r) \/ WriteSplits(r)
      PROVE  HandStep
  <2>1. CASE WritePrimary(r)
    BY <2>1, SMTT(30) DEF WritePrimary, HandStep, TypeOK, Transaction
  <2>2. CASE WriteLabels(r)
    <3>1. PICK t \in Transactions : \E kind, labels, suppressed :
            ledger' = [ledger EXCEPT
              ![t].labels = {l \in ledger[t].labels : l.label \notin kind} \union ByHand(labels),
              ![t].suppressed = suppressed]
      BY <2>2 DEF WriteLabels, RequestsOK, RequestOK
    <3>2. PICK kind, labels, suppressed :
            ledger' = [ledger EXCEPT
              ![t].labels = {l \in ledger[t].labels : l.label \notin kind} \union ByHand(labels),
              ![t].suppressed = suppressed]
      BY <3>1
    <3>3. \A u \in Transactions \ {t} : ledger'[u] = ledger[u]
      BY <3>2 DEF TypeOK
    <3>4. ledger'[t] = [ledger[t] EXCEPT
              !.labels = {l \in ledger[t].labels : l.label \notin kind} \union ByHand(labels),
              !.suppressed = suppressed]
      BY <3>2 DEF TypeOK
    <3>5. /\ ledger'[t].labels = {l \in ledger[t].labels : l.label \notin kind} \union ByHand(labels)
          /\ ledger'[t].primary = ledger[t].primary
      BY <3>4 DEF TypeOK, Transaction
    <3>6. \A l \in ByHand(labels) : l.rule = None
      BY DEF ByHand
    <3> QED
      BY <2>2, <3>3, <3>5, <3>6 DEF WriteLabels, HandStep
  <2>3. CASE WriteReviewed(r) \/ WriteSplits(r)
    BY <2>3 DEF WriteReviewed, WriteSplits, HandStep, TypeOK, Transaction
  <2> QED
    BY <1>2, <2>1, <2>2, <2>3
<1>3. ASSUME NEW r \in Requests, WriteApply(r)
      PROVE  LedgerStep
  <2> DEFINE q == request[r]
             e == q.effect.event
             primary == IF q.effect.primary
                        THEN [category |-> e.result, source |-> "rule", rule |-> q.rule]
                        ELSE ledger[q.tx].primary
             labels == ledger[q.tx].labels \union ByRule(q.rule, e.added)
             reviewed == ledger[q.tx].reviewed \/ e.reviewed
  <2>1. /\ q.rule \in Rules /\ q.tx \in Transactions /\ e \in Event /\ Sourced(e) /\ ~e.reverted
    BY <1>3 DEF WriteApply, RequestsOK, RequestOK, EventsOK, Effects
  <2>2. CASE Insertable(q.rule, q.tx, q.effect)
    <3>1. /\ ledger' = [ledger EXCEPT ![q.tx].primary = primary, ![q.tx].labels = labels,
                                      ![q.tx].reviewed = reviewed]
          /\ event' = [event EXCEPT ![<<q.rule, q.tx>>] = e]
          /\ event[<<q.rule, q.tx>>] = None
      BY <1>3, <2>2 DEF WriteApply, Recorded, Insertable
    <3>2. /\ \A u \in Transactions \ {q.tx} : ledger'[u] = ledger[u]
          /\ ledger'[q.tx] = [ledger[q.tx] EXCEPT !.primary = primary, !.labels = labels,
                                                  !.reviewed = reviewed]
      BY <2>1, <3>1 DEF TypeOK
    <3>3. ledger'[q.tx].primary = primary /\ ledger'[q.tx].labels = labels
      BY <2>1, <3>2 DEF TypeOK, Transaction
    <3>4. ApplyStep(q.rule, q.tx, e)
      BY <2>1, <3>1, <3>2, <3>3 DEF ApplyStep
    <3> QED
      BY <2>1, <3>4 DEF LedgerStep
  <2> QED
    BY <1>1, <1>3, <2>2 DEF WriteApply
<1>4. ASSUME NEW r \in Requests, WriteRevert(r)
      PROVE  LedgerStep
  <2> DEFINE k == request[r].rule
             t == request[r].tx
             e == event[<<k, t>>]
             primary == IF ~ request[r].primary THEN ledger[t].primary
                        ELSE IF e.before = None THEN None
                        ELSE [category |-> e.before, source |-> e.source, rule |-> None]
             labels == ledger[t].labels \ Withdrawn(k, t)
             reviewed == ledger[t].reviewed /\ ~ e.reviewed
  <2>1. /\ k \in Rules /\ t \in Transactions /\ e # None
        /\ ~request[r].primary => ~Holds(k, t)
    BY <1>4 DEF WriteRevert, RequestsOK, RequestOK, RevertsOK
  <2>2. /\ ledger' = [ledger EXCEPT ![t].primary = primary, ![t].labels = labels,
                                    ![t].reviewed = reviewed]
        /\ event' = [event EXCEPT ![<<k, t>>].reverted = TRUE]
    BY <1>4 DEF WriteRevert
  <2>3. /\ \A u \in Transactions \ {t} : ledger'[u] = ledger[u]
        /\ ledger'[t] = [ledger[t] EXCEPT !.primary = primary, !.labels = labels,
                                          !.reviewed = reviewed]
    BY <2>1, <2>2 DEF TypeOK
  <2>4. ledger'[t].primary = primary /\ ledger'[t].labels = labels
    BY <2>1, <2>3 DEF TypeOK, Transaction
  <2>5. \/ primary = ledger[t].primary /\ ~Holds(k, t)
        \/ primary = None \/ primary.rule = None
    BY <2>1
  <2> HIDE DEF k, t, e, primary, labels, reviewed
  <2>6. RevertStep(k, t)
    BY <2>1, <2>2, <2>3, <2>4, <2>5 DEF RevertStep, e, labels
  <2> QED
    BY <2>1, <2>6 DEF LedgerStep
<1>5. CASE UNCHANGED vars
  BY <1>1, <1>5 DEF vars
<1>6. ASSUME NEW r \in Requests, TreeStep(r)
      PROVE  UNCHANGED <<ledger, event>>
  BY <1>6 DEF TreeStep, ReadCategory, WriteCategory, ArchiveCategory, RestoreCategory,
              ReadReferences, DisableRule, WriteTag, ReadRule, WriteRule, RuleAction, treeFrame
<1>7. ASSUME NEW r \in Requests,
             \/ ReadPatch(r) \/ ReadRules(r) \/ ReadPreview(r) \/ ReadApply(r) \/ ReadRevert(r)
             \/ Abandon(r)
      PROVE  UNCHANGED <<ledger, event>>
  BY <1>7 DEF ReadPatch, ReadRules, ReadPreview, ReadApply, ReadRevert, Abandon
<1>8. CASE Next
  <2>1. PICK r \in Requests : TreeStep(r) \/ ClassifyStep(r)
    BY <1>8 DEF Next
  <2> QED
    BY <1>1, <1>2, <1>3, <1>4, <1>6, <1>7, <2>1 DEF ClassifyStep, LedgerStep
<1> QED
  BY <1>5, <1>8

------------------------------------------------------------------------------
(* What a rule holds.                                                      *)

\* A label by hand or from nowhere is not a rule's.
LEMMA NotHeld ==
    ASSUME NEW k \in Rules, NEW p, p = None \/ p.rule = None
    PROVE  ~HeldBy(p, k)
BY LedgersAssumption DEF HeldBy, SourceOf, Sources

\* Nothing becomes a rule's once it has an event, and events stay.
LEMMA HeldBefore ==
    ASSUME RulesInv, LedgerStep, NEW k \in Rules, NEW t \in Transactions,
           event[<<k, t>>] # None
    PROVE  /\ event'[<<k, t>>] # None
           /\ \A l \in ledger'[t].labels : l.rule = k => l \in ledger[t].labels
           /\ Holds(k, t)' => ledger'[t].primary = ledger[t].primary /\ Holds(k, t)
<1> USE LedgersAssumption DEF RulesInv
<1>1. CASE HandStep
  BY <1>1, NotHeld DEF HandStep, Holds
<1>2. ASSUME NEW j \in Rules, NEW u \in Transactions, NEW e \in Event, ApplyStep(j, u, e)
      PROVE  /\ event'[<<k, t>>] # None
             /\ \A l \in ledger'[t].labels : l.rule = k => l \in ledger[t].labels
             /\ Holds(k, t)' => ledger'[t].primary = ledger[t].primary /\ Holds(k, t)
  <2>1. <<j, u>> # <<k, t>>
    BY <1>2 DEF ApplyStep
  <2>2. event'[<<k, t>>] = event[<<k, t>>]
    BY <1>2, <2>1 DEF ApplyStep, TypeOK, ClassificationEvents
  <2>3. CASE u # t
    BY <1>2, <2>2, <2>3 DEF ApplyStep, Holds
  <2>4. CASE u = t
    <3>1. j # k
      BY <2>1, <2>4
    <3>2. \A l \in ByRule(j, e.added) : l.rule = j
      BY DEF ByRule
    <3>3. ~HeldBy([category |-> e.result, source |-> "rule", rule |-> j], k)
      BY <3>1 DEF HeldBy
    <3> QED
      BY <1>2, <2>2, <2>4, <3>1, <3>2, <3>3 DEF ApplyStep, Holds
  <2> QED
    BY <2>3, <2>4
<1>3. ASSUME NEW j \in Rules, NEW u \in Transactions, RevertStep(j, u)
      PROVE  /\ event'[<<k, t>>] # None
             /\ \A l \in ledger'[t].labels : l.rule = k => l \in ledger[t].labels
             /\ Holds(k, t)' => ledger'[t].primary = ledger[t].primary /\ Holds(k, t)
  <2>1. event' \in ClassificationEvents /\ event'[<<k, t>>] # None
    <3>1. event[<<j, u>>] \in Event
      BY <1>3 DEF RevertStep, TypeOK, ClassificationEvents
    <3>2. [event[<<j, u>>] EXCEPT !.reverted = TRUE] \in Event
      BY <3>1 DEF Event
    <3> QED
      BY <1>3, <3>1, <3>2 DEF RevertStep, TypeOK, ClassificationEvents
  <2>2. CASE u # t
    BY <1>3, <2>1, <2>2 DEF RevertStep, Holds
  <2>3. CASE u = t
    BY <1>3, <2>1, <2>3, NotHeld DEF RevertStep, Holds
  <2> QED
    BY <2>2, <2>3
<1> QED
  BY <1>1, <1>2, <1>3 DEF LedgerStep

\* What a rule holds of a transaction, and the event that names it.
Covered(k, t) ==
    LET e == event[<<k, t>>]
    IN /\ \A l \in ledger[t].labels : l.rule = k => e # None /\ ~ e.reverted /\ l.label \in e.added
       /\ Holds(k, t) => e # None /\ ~ e.reverted /\ e.result = ledger[t].primary.category

\* What a rule holds stays recorded or about to be.
LEMMA KeepsCovered ==
    ASSUME RulesInv, LedgerStep, NEW k \in Rules, NEW t \in Transactions
    PROVE  Covered(k, t)'
<1> USE LedgersAssumption DEF RulesInv
<1>0. Covered(k, t)
  BY DEF EffectsRecorded, Covered, Holds, HeldBy
<1>1. CASE HandStep
  <2>1. \A l \in ledger'[t].labels : l.rule = k => l \in ledger[t].labels
    BY <1>1 DEF HandStep
  <2>2. Holds(k, t)' => Holds(k, t) /\ ledger'[t].primary = ledger[t].primary
    BY <1>1, NotHeld DEF HandStep, Holds
  <2> QED
    BY <1>0, <1>1, <2>1, <2>2 DEF HandStep, Covered
<1>2. ASSUME NEW j \in Rules, NEW u \in Transactions, NEW e \in Event, ApplyStep(j, u, e)
      PROVE  Covered(k, t)'
  <2>1. CASE <<j, u>> = <<k, t>>
    <3>1. event'[<<k, t>>] = e /\ e # None /\ ~e.reverted
      BY <1>2, <2>1 DEF ApplyStep, TypeOK, ClassificationEvents
    <3>2. /\ \A l \in ledger[t].labels : l.rule # k
          /\ ~Holds(k, t)
      BY <1>0, <1>2, <2>1 DEF ApplyStep, Covered
    <3>3. \A l \in ByRule(k, e.added) : l.label \in e.added
      BY DEF ByRule
    <3>4. \A l \in ledger'[t].labels : l.rule = k => l.label \in e.added
      BY <1>2, <2>1, <3>2, <3>3 DEF ApplyStep
    <3>5. Holds(k, t)' => e.result = ledger'[t].primary.category
      BY <1>2, <2>1, <3>2 DEF ApplyStep, Holds
    <3> QED
      BY <3>1, <3>4, <3>5 DEF Covered
  <2>2. CASE <<j, u>> # <<k, t>>
    <3>1. event'[<<k, t>>] = event[<<k, t>>]
      BY <1>2, <2>2 DEF ApplyStep, TypeOK, ClassificationEvents
    <3>2. \A l \in ByRule(j, e.added) : l.rule = j
      BY DEF ByRule
    <3>3. ~HeldBy([category |-> e.result, source |-> "rule", rule |-> j], k) \/ u # t
      BY <2>2 DEF HeldBy
    <3>4. /\ \A l \in ledger'[t].labels : l.rule = k => l \in ledger[t].labels
          /\ Holds(k, t)' => ledger'[t].primary = ledger[t].primary /\ Holds(k, t)
      BY <1>2, <2>2, <3>2, <3>3 DEF ApplyStep, Holds
    <3> QED
      BY <1>0, <3>1, <3>4 DEF Covered
  <2> QED
    BY <2>1, <2>2
<1>3. ASSUME NEW j \in Rules, NEW u \in Transactions, RevertStep(j, u)
      PROVE  Covered(k, t)'
  <2>1. CASE <<j, u>> = <<k, t>>
    <3>1. \A l \in ledger'[t].labels : l.rule # k
      BY <1>0, <1>3, <2>1 DEF RevertStep, Covered, Withdrawn
    <3>2. ~Holds(k, t)'
      BY <1>3, <2>1, NotHeld DEF RevertStep, Holds
    <3> QED
      BY <3>1, <3>2 DEF Covered
  <2>2. CASE <<j, u>> # <<k, t>>
    <3>1. event'[<<k, t>>] = event[<<k, t>>]
      BY <1>3, <2>2 DEF RevertStep, TypeOK, ClassificationEvents
    <3>2. /\ \A l \in ledger'[t].labels : l \in ledger[t].labels
          /\ Holds(k, t)' => ledger'[t].primary = ledger[t].primary /\ Holds(k, t)
      BY <1>3, <2>2, NotHeld DEF RevertStep, Holds
    <3> QED
      BY <1>0, <3>1, <3>2 DEF Covered
  <2> QED
    BY <2>1, <2>2
<1> QED
  BY <1>1, <1>2, <1>3 DEF LedgerStep

------------------------------------------------------------------------------
(* What requests know of the events.                                       *)

\* A step leaves no request about to apply or to revert but those that were,
\* and the one that has just read what it will write.
LEMMA NewlyHeld ==
    ASSUME RequestsOK, NEW r \in Requests, TreeStep(r) \/ ClassifyStep(r),
           NEW s \in Requests, request'[s] # request[s]
    PROVE  /\ request'[s].pc = "revert" => s = r /\ ReadRevert(r)
           /\ request'[s].pc = "apply" => s = r /\ ReadApply(r)
<1> DEFINE other(pc) == pc # "revert" /\ pc # "apply"
<1>1. ASSUME NEW q, Hold(r, q)
      PROVE  s = r /\ request'[s] = q /\ request'[s].pc = q.pc
  BY <1>1 DEF RequestsOK, Hold
<1>2. ASSUME Answer(r)
      PROVE  s = r /\ request'[s].pc = "idle"
  BY <1>2 DEF RequestsOK, Answer, Idle
<1>3. ASSUME NEW rest, Advance(r, rest)
      PROVE  other(request'[s].pc)
  BY <1>1, <1>2, <1>3 DEF Advance
<1>4. CASE ReadCategory(r) \/ ArchiveCategory(r) \/ ReadReferences(r) \/ DisableRule(r) \/ ReadRule(r)
  <2>1. CASE ReadCategory(r) \/ ArchiveCategory(r) \/ ReadRule(r)
    <3>1. \/ \E c, p, n, new : Hold(r, [pc |-> "category", category |-> c, parent |-> p,
                                        name |-> n, new |-> new])
          \/ \E c : Hold(r, [pc |-> "references", category |-> c])
          \/ \E k, doc, on, version : Hold(r, [pc |-> "rule", rule |-> k, doc |-> doc,
                                               status |-> on, version |-> version])
      BY <2>1 DEF ReadCategory, ArchiveCategory, ReadRule
    <3> QED
      BY <3>1 DEF Hold, RequestsOK
  <2>2. CASE ReadReferences(r)
    BY <1>2, <2>2 DEF ReadReferences, Hold, RequestsOK
  <2>3. CASE DisableRule(r)
    <3>1. Answer(r) \/ \E rules : Hold(r, [pc |-> "disable", rules |-> rules])
      BY <2>3 DEF DisableRule
    <3> QED
      BY <1>2, <3>1 DEF Hold, RequestsOK
  <2> QED
    BY <1>4, <2>1, <2>2, <2>3
<1>5. CASE WriteCategory(r) \/ WriteRule(r) \/ WritePrimary(r) \/ WriteLabels(r) \/ WriteRevert(r)
           \/ Abandon(r)
  BY <1>2, <1>5 DEF WriteCategory, WriteRule, WritePrimary, WriteLabels, WriteRevert, Abandon
<1>6. CASE RestoreCategory(r) \/ WriteTag(r) \/ RuleAction(r) \/ WriteReviewed(r) \/ WriteSplits(r)
  BY <1>6 DEF RestoreCategory, WriteTag, RuleAction, WriteReviewed, WriteSplits
<1>7. CASE ReadPatch(r) \/ ReadRules(r) \/ ReadPreview(r)
  <2>1. CASE ReadPatch(r)
    <3>1. PICK t \in Transactions :
            \/ \E c \in Categories \union {None} :
                  Hold(r, [pc |-> "primary", tx |-> t, category |-> c,
                           suppressed |-> Suppressing(t, c)])
            \/ \E kind \in {Categories, Tags} : \E labels \in Asked(t, kind) :
                  Hold(r, [pc |-> "labels", tx |-> t, kind |-> kind, labels |-> labels,
                           suppressed |-> ledger[t].suppressed])
      BY <2>1 DEF ReadPatch
    <3> QED
      BY <3>1 DEF Hold, RequestsOK
  <2>2. CASE ReadRules(r) \/ ReadPreview(r)
    <3>1. \E todo, t, past :
            Hold(r, [pc |-> "run", rows |-> rule, todo |-> todo, tx |-> t, past |-> past])
      BY <2>2 DEF ReadRules, ReadPreview
    <3> QED
      BY <3>1 DEF Hold, RequestsOK
  <2> QED
    BY <1>7, <2>1, <2>2
<1>8. CASE ReadApply(r)
  <2>1. \/ \E rows, todo, k, t, past, effect :
              Hold(r, [pc |-> "apply", rows |-> rows, todo |-> todo, rule |-> k,
                       tx |-> t, past |-> past, effect |-> effect])
        \/ \E rest : Advance(r, rest)
    BY <1>8 DEF ReadApply
  <2> QED
    BY <1>3, <1>8, <2>1 DEF Hold, RequestsOK
<1>9. CASE WriteApply(r)
  <2>1. Answer(r) \/ \E rest : Advance(r, rest)
    BY <1>9 DEF WriteApply
  <2> QED
    BY <1>2, <1>3, <2>1
<1>10. CASE ReadRevert(r)
  <2>1. \E q : Hold(r, q) /\ q.pc # "apply"
    BY <1>10 DEF ReadRevert
  <2> QED
    BY <1>1, <1>10, <2>1
<1> QED
  BY <1>4, <1>5, <1>6, <1>7, <1>8, <1>9, <1>10 DEF TreeStep, ClassifyStep

\* A reversal in flight keeps an event, and leaves what is another's.
LEMMA KeepsReverts ==
    ASSUME RulesInv, [Next]_vars
    PROVE  RevertsOK'
<1> USE DEF RulesInv
<1> SUFFICES ASSUME NEW s \in Requests, request'[s].pc = "revert"
             PROVE  LET q == request'[s]
                    IN /\ event'[<<q.rule, q.tx>>] # None
                       /\ ~q.primary => ~HeldBy(ledger'[q.tx].primary, q.rule)
  BY DEF RevertsOK, Holds
<1>1. LedgerStep
  BY LedgerSteps
<1>2. CASE request'[s] = request[s]
  <2>1. /\ request[s].rule \in Rules /\ request[s].tx \in Transactions
        /\ event[<<request[s].rule, request[s].tx>>] # None
        /\ ~request[s].primary => ~Holds(request[s].rule, request[s].tx)
    BY <1>2 DEF RevertsOK, RequestsOK, RequestOK
  <2> DEFINE k == request[s].rule
             t == request[s].tx
  <2>2. event'[<<k, t>>] # None /\ (HeldBy(ledger'[t].primary, k) => Holds(k, t))
    <3> HIDE DEF k, t
    <3> QED
      BY <1>1, <2>1, HeldBefore DEF Holds, k, t
  <2> QED
    BY <1>2, <2>1, <2>2
<1>3. CASE request'[s] # request[s]
  <2>1. PICK r \in Requests : TreeStep(r) \/ ClassifyStep(r)
    BY <1>3 DEF Next, vars
  <2>2. s = r /\ ReadRevert(r)
    BY <1>3, <2>1, NewlyHeld
  <2>3. PICK k \in Rules, t \in Transactions :
          /\ event[<<k, t>>] # None /\ ~ event[<<k, t>>].reverted
          /\ LET p == ledger[t].primary
             IN Hold(r, [pc |-> "revert", rule |-> k, tx |-> t,
                         primary |-> /\ SourceOf(p) = "rule" /\ p.rule = k
                                     /\ p.category = event[<<k, t>>].result])
    BY <2>2 DEF ReadRevert
  <2> DEFINE p == ledger[t].primary
             own == SourceOf(p) = "rule" /\ p.rule = k /\ p.category = event[<<k, t>>].result
  <2>4. /\ request'[s].rule = k /\ request'[s].tx = t
        /\ request'[s].primary = own
    BY <2>2, <2>3 DEF Hold, RequestsOK
  <2>5. Holds(k, t) => own
    BY DEF EffectsRecorded, Holds, HeldBy
  <2>6. event' = event /\ ledger' = ledger
    BY <2>2 DEF ReadRevert
  <2> QED
    BY <2>3, <2>4, <2>5, <2>6 DEF Holds
<1> QED
  BY <1>2, <1>3

------------------------------------------------------------------------------
(* What the events and those to come name.                                 *)

\* Every step keeps the source of what an event replaced.
LEMMA KeepsEvents ==
    ASSUME RulesInv, [Next]_vars
    PROVE  EventsOK'
<1> USE DEF RulesInv
<1>1. LedgerStep
  BY LedgerSteps
<1>2. ASSUME NEW k \in Rules, NEW t \in Transactions, event'[<<k, t>>] # None
      PROVE  Sourced(event'[<<k, t>>])
  <2>1. CASE HandStep
    BY <1>2, <2>1 DEF HandStep, EventsOK
  <2>2. ASSUME NEW j \in Rules, NEW u \in Transactions, NEW e \in Event, ApplyStep(j, u, e)
        PROVE  Sourced(event'[<<k, t>>])
    <3>1. Sourced(e)
      BY <2>2 DEF ApplyStep
    <3>2. event'[<<k, t>>] = e \/ event'[<<k, t>>] = event[<<k, t>>]
      BY <2>2 DEF ApplyStep, TypeOK, ClassificationEvents
    <3> QED
      BY <1>2, <3>1, <3>2 DEF EventsOK
  <2>3. ASSUME NEW j \in Rules, NEW u \in Transactions, RevertStep(j, u)
        PROVE  Sourced(event'[<<k, t>>])
    <3>1. CASE <<j, u>> # <<k, t>>
      <4>1. event'[<<k, t>>] = event[<<k, t>>]
        BY <2>3, <3>1 DEF RevertStep, TypeOK, ClassificationEvents
      <4> QED
        BY <1>2, <4>1 DEF EventsOK
    <3>2. CASE <<j, u>> = <<k, t>>
      <4> DEFINE e == event[<<k, t>>]
      <4>1. e \in Event /\ Sourced(e)
        BY <2>3, <3>2 DEF RevertStep, TypeOK, ClassificationEvents, EventsOK
      <4>2. event'[<<k, t>>] = [e EXCEPT !.reverted = TRUE]
        BY <2>3, <3>2 DEF RevertStep, TypeOK, ClassificationEvents
      <4>3. event'[<<k, t>>].before = e.before /\ event'[<<k, t>>].source = e.source
        BY <4>1, <4>2 DEF Event
      <4> QED
        BY <4>1, <4>3 DEF Sourced
    <3> QED
      BY <3>1, <3>2
  <2> QED
    BY <1>1, <2>1, <2>2, <2>3 DEF LedgerStep
<1>3. ASSUME NEW s \in Requests, request'[s].pc = "apply"
      PROVE  LET effect == request'[s].effect
             IN /\ Sourced(effect.event) /\ ~effect.event.reverted
                /\ effect.primary => effect.event.result # None
  <2>1. CASE request'[s] = request[s]
    BY <1>3, <2>1 DEF EventsOK
  <2>2. CASE request'[s] # request[s]
    <3>1. PICK r \in Requests : TreeStep(r) \/ ClassifyStep(r)
      BY <2>2 DEF Next, vars
    <3>2. s = r /\ ReadApply(r)
      BY <1>3, <2>2, <3>1, NewlyHeld
    <3> DEFINE q == request[s]
               effect(k) == Effect(k, q.rows[k].doc, q.tx, q.past)
    <3>3. /\ q.rows \in [Rules -> Rule] /\ q.todo \in SUBSET Rules /\ q.tx \in Transactions
          /\ q.pc = "run"
      BY <3>2 DEF ReadApply, RequestsOK, RequestOK
    <3>4. PICK k \in q.todo :
            \/ Hold(s, [pc |-> "apply", rows |-> q.rows, todo |-> q.todo \ {k}, rule |-> k,
                        tx |-> q.tx, past |-> q.past, effect |-> effect(k)])
            \/ Advance(s, q.todo \ {k})
      BY <3>2 DEF ReadApply
    <3>5. ~Advance(s, q.todo \ {k})
      BY <1>3 DEF Advance, Answer, Idle, Hold, RequestsOK
    <3>6. request'[s].effect = effect(k)
      BY <3>4, <3>5 DEF Hold, RequestsOK
    <3>7. q.rows[k].doc \in Document
      BY <3>3 DEF Rule
    <3> QED
      BY <3>3, <3>4, <3>6, <3>7, EffectType
  <2> QED
    BY <2>1, <2>2
<1> QED
  BY <1>2, <1>3 DEF EventsOK

------------------------------------------------------------------------------
(* The theorems.                                                           *)

\* The empty ledger satisfies the invariant.
LEMMA RulesBegin ==
    ASSUME Init
    PROVE  RulesInv
<1> USE LedgersAssumption, TreeAssumption DEF Init
<1>1. PICK l \in Ledgers :
        category = l.category /\ tag = l.tag /\ rule = l.rule /\ ledger = l.ledger
  OBVIOUS
<1>2. TypeOK
  BY <1>1 DEF TypeOK, ClassificationEvents
<1>3. RequestsOK
  BY DEF RequestsOK, RequestOK, Idle
<1>4. EventsOK /\ RevertsOK
  BY DEF EventsOK, RevertsOK, Idle
<1>5. ASSUME NEW t \in Transactions, NEW k \in Rules
      PROVE  /\ \A label \in ledger[t].labels : label.rule # k
             /\ ~HeldBy(ledger[t].primary, k)
  BY <1>1, NotHeld
<1> QED
  BY <1>2, <1>3, <1>4, <1>5 DEF RulesInv, EffectsRecorded, HeldBy

\* Every step keeps the invariant.
LEMMA RulesStep ==
    ASSUME RulesInv, [Next]_vars
    PROVE  RulesInv'
<1>1. TypeOK' /\ RequestsOK'
  BY RuleStepTypes
<1>2. \A k \in Rules, t \in Transactions : Covered(k, t)'
  BY LedgerSteps, KeepsCovered
<1>3. EffectsRecorded'
  BY <1>1, <1>2 DEF EffectsRecorded, Covered, Holds, HeldBy
<1> QED
  BY <1>1, <1>3, KeepsEvents, KeepsReverts DEF RulesInv

\* Types, requests, events and reversals are consistent, and all a rule gave is recorded.
THEOREM RulesInvariant == Spec => []RulesInv
<1> QED
  BY RulesBegin, RulesStep, PTL DEF Spec

\* revertRuleEvent finds in the event whatever its rule gave and is still there.
THEOREM RuleEffectsRecorded == Spec => []EffectsRecorded
<1>1. RulesInv => EffectsRecorded
  BY DEF RulesInv
<1> QED
  BY <1>1, RulesInvariant, PTL

\* However the runs overlap, applyRuleToTransaction classifies a transaction once for a rule.
THEOREM RuleAppliedOnce == Spec => AppliedOnce
<1>1. ASSUME RulesInv, [Next]_vars
      PROVE  [\A t \in Transactions, k \in Rules : event[<<k, t>>] # None =>
                 /\ \A l \in ledger'[t].labels : l.rule = k => l \in ledger[t].labels
                 /\ LET p == ledger'[t].primary
                    IN SourceOf(p) = "rule" /\ p.rule = k => p = ledger[t].primary]_vars
  <2> SUFFICES ASSUME NEW t \in Transactions, NEW k \in Rules, event[<<k, t>>] # None
               PROVE  /\ \A l \in ledger'[t].labels : l.rule = k => l \in ledger[t].labels
                      /\ HeldBy(ledger'[t].primary, k) => ledger'[t].primary = ledger[t].primary
    BY DEF HeldBy
  <2> QED
    BY <1>1, LedgerSteps, HeldBefore DEF Holds
<1> QED
  BY <1>1, RulesInvariant, PTL DEF Spec, AppliedOnce

\* What revertRuleEvent removes is its rule's, whatever users and other rules did in between.
THEOREM RuleRevertKeepsOthers == Spec => RevertKeepsOthers
<1>1. ASSUME RulesInv, [Next]_vars
      PROVE  [\A t \in Transactions, k \in Rules :
                 event[<<k, t>>] # None /\ event'[<<k, t>>] # event[<<k, t>>] =>
                     \A l \in ledger[t].labels \ ledger'[t].labels : l.rule = k]_vars
  <2> SUFFICES ASSUME NEW t \in Transactions, NEW k \in Rules,
                      event[<<k, t>>] # None, event'[<<k, t>>] # event[<<k, t>>],
                      NEW l \in ledger[t].labels \ ledger'[t].labels
               PROVE  l.rule = k
    OBVIOUS
  <2>1. LedgerStep
    BY <1>1, LedgerSteps
  <2>2. ~HandStep
    BY DEF HandStep
  <2>3. ASSUME NEW j \in Rules, NEW u \in Transactions, NEW e \in Event
        PROVE  ~ApplyStep(j, u, e)
    BY <1>1 DEF ApplyStep, RulesInv, TypeOK, ClassificationEvents
  <2>4. ASSUME NEW j \in Rules, NEW u \in Transactions, RevertStep(j, u)
        PROVE  l.rule = k
    <3>1. <<j, u>> = <<k, t>>
      BY <1>1, <2>4 DEF RevertStep, RulesInv, TypeOK, ClassificationEvents
    <3> QED
      BY <2>4, <3>1 DEF RevertStep, Withdrawn
  <2> QED
    BY <2>1, <2>2, <2>3, <2>4 DEF LedgerStep
<1> QED
  BY <1>1, RulesInvariant, PTL DEF Spec, RevertKeepsOthers
==============================================================================
