------------------------- MODULE ClassificationRules -------------------------
(***************************************************************************)
(* What classifies the transactions of the ledger: patches by hand, rules  *)
(* applied after an import or to the past, and the reversal of a rule's    *)
(* application.  A request reads, and writes in a later step what it       *)
(* decided upon; a unique index may then make it fail.                     *)
(***************************************************************************)
EXTENDS CategoryTree

CONSTANT Ledgers     \* bound: the states a behaviour begins with

Sources == {"manual", "rule", "import", "system"}

Primary == [category : Categories, source : Sources, rule : Rules \union {None}]

\* A secondary category or a tag, and the rule that added it (None: a user).
Label == [label : Labels, rule : Rules \union {None}]

Transaction ==
    [primary    : Primary \union {None}, labels : SUBSET Label,
     reviewed   : BOOLEAN,
     suppressed : SUBSET Rules,                 \* ruleSuppressionIds
     split      : BOOLEAN]                      \* it has unarchived splits

Event ==
    [before   : Categories \union {None},       \* previousPrimaryCategoryId
     source   : Sources \union {None},          \* previousPrimarySource
     result   : Categories \union {None},       \* resultingPrimaryCategoryId
     added    : SUBSET Labels,                  \* secondaryCategoriesAdded, tagsAdded
     reviewed : BOOLEAN,                        \* reviewedChanged
     reverted : BOOLEAN]

ClassificationEvents == [Rules \X Transactions -> Event \union {None}]

\* A behaviour begins with the past of users and imports, not of rules.
ASSUME LedgersAssumption ==
    /\ None \notin Rules /\ None \notin Sources /\ None \notin Primary /\ None \notin Event
    /\ \A l \in Ledgers :
          /\ l.category \in [Categories -> Category] /\ SiblingNames(l.category)
          /\ l.tag \in [Tags -> {"absent", "active", "archived"}]
          /\ l.rule \in [Rules -> Rule]
          /\ l.ledger \in [Transactions -> Transaction]
          /\ \A t \in Transactions :
                /\ \A label \in l.ledger[t].labels : label.rule = None
                /\ l.ledger[t].primary # None => l.ledger[t].primary.rule = None

LabelsOf(t) == {l.label : l \in ledger[t].labels}

CategoryOf(primary) == IF primary = None THEN None ELSE primary.category

SourceOf(primary) == IF primary = None THEN None ELSE primary.source

tree == <<category, tag, rule>>

------------------------------------------------------------------------------
(* applyClassificationPatch for one transaction, asked for by itself or in *)
(* bulk, and the requests that are one statement.                          *)

ByHand(labels) == {[label |-> l, rule |-> None] : l \in labels}

\* The labels of one kind that a patch leaves: those it lists, or in bulk those
\* read with one more or one less.
Asked(t, kind) ==
    (SUBSET kind) \union
    {(LabelsOf(t) \intersect kind) \union {l} : l \in kind} \union
    {(LabelsOf(t) \intersect kind) \ {l} : l \in kind}

\* The rule whose primary category the patch replaces will not set it again.
Suppressing(t, c) ==
    IF ledger[t].primary # None /\ ledger[t].primary.rule # None
       /\ ledger[t].primary.category # c
    THEN ledger[t].suppressed \union {ledger[t].primary.rule}
    ELSE ledger[t].suppressed

ReadPatch(r) ==
    /\ Begin(r)
    /\ \E t \in Transactions :
          \/ \E c \in Categories \union {None} :
                /\ Available({c} \ {None})
                /\ Hold(r, [pc |-> "primary", tx |-> t, category |-> c,
                            suppressed |-> Suppressing(t, c)])
          \/ \E kind \in {Categories, Tags} : \E labels \in Asked(t, kind) :
                /\ Available(labels \ LabelsOf(t))
                /\ Hold(r, [pc |-> "labels", tx |-> t, kind |-> kind, labels |-> labels,
                            suppressed |-> ledger[t].suppressed])
    /\ UNCHANGED <<tree, ledger, event>>

\* The old assignments are deleted whatever they are by now.
WritePrimary(r) ==
    /\ request[r].pc = "primary"
    /\ LET q == request[r]
       IN ledger' = [ledger EXCEPT
              ![q.tx].primary = IF q.category = None THEN None
                                ELSE [category |-> q.category, source |-> "manual", rule |-> None],
              ![q.tx].suppressed = q.suppressed]
    /\ Answer(r)
    /\ UNCHANGED <<tree, event, begun>>

WriteLabels(r) ==
    /\ request[r].pc = "labels"
    /\ LET q == request[r]
       IN ledger' = [ledger EXCEPT
              ![q.tx].labels = {l \in @ : l.label \notin q.kind} \union ByHand(q.labels),
              ![q.tx].suppressed = q.suppressed]
    /\ Answer(r)
    /\ UNCHANGED <<tree, event, begun>>

\* updateTransactionMetadata and the two bulk actions on the mark.
WriteReviewed(r) ==
    /\ Begin(r)
    /\ \E t \in Transactions : ledger' = [ledger EXCEPT ![t].reviewed = ~ @]
    /\ UNCHANGED <<tree, event, request>>

\* Splits are written or archived elsewhere.
WriteSplits(r) ==
    /\ Begin(r)
    /\ \E t \in Transactions : ledger' = [ledger EXCEPT ![t].split = ~ @]
    /\ UNCHANGED <<tree, event, request>>

------------------------------------------------------------------------------
(* applyRuleToTransaction, for the rules as the request read them.         *)

\* matchClassificationRule: the conditions on facts, and uncategorised_only.
Matching(k, doc, t) == <<k, t>> \in Fits /\ (doc.blank => ledger[t].primary = None)

Leads(k, rules) == \A j \in rules : k <= j

\* applyFutureRulesToTransactions after an import: by priority, for a transaction.
ReadRules(r) ==
    /\ Begin(r)
    /\ \E t \in Transactions :
          LET live == {k \in Rules : rule[k].status = "enabled"}
          IN /\ live # {}
             /\ Hold(r, [pc |-> "run", rows |-> rule, todo |-> live, tx |-> t, past |-> FALSE])
    /\ UNCHANGED <<tree, ledger, event>>

\* applyHistoricalRule: the preview's matches.  It does not ask for an enabled rule.
ReadPreview(r) ==
    /\ Begin(r)
    /\ \E k \in Rules, t \in Transactions :
          /\ rule[k].status # "absent" /\ rule[k].doc.past
          /\ Matching(k, rule[k].doc, t) /\ ~ ledger[t].split
          /\ Hold(r, [pc |-> "run", rows |-> rule, todo |-> {k}, tx |-> t, past |-> TRUE])
    /\ UNCHANGED <<tree, ledger, event>>

\* The request goes on with the rules that are left, or ends.
Advance(r, rest) ==
    LET q == request[r]
    IN IF rest = {} THEN Answer(r)
       ELSE Hold(r, [pc |-> "run", rows |-> q.rows, todo |-> rest, tx |-> q.tx,
                     past |-> q.past])

\* Only what neither a user nor a rule decided is replaced.
Decides(k, doc, t, past) ==
    /\ doc.primary # None
    /\ past \/ k \notin ledger[t].suppressed
    /\ SourceOf(ledger[t].primary) \notin {"manual", "rule"}

\* What applying the rule would write, from what is read now.
Effect(k, doc, t, past) ==
    LET decides == Decides(k, doc, t, past)
        before == ledger[t].primary
    IN [primary |-> decides,
        event |-> [before   |-> CategoryOf(before), source |-> SourceOf(before),
                   result   |-> IF decides THEN doc.primary ELSE CategoryOf(before),
                   added    |-> doc.labels \ LabelsOf(t),
                   reviewed |-> doc.review /\ ~ ledger[t].reviewed,
                   reverted |-> FALSE]]

Changes(effect) ==
    effect.primary \/ effect.event.added # {} \/ effect.event.reviewed

ReadApply(r) ==
    /\ request[r].pc = "run"
    /\ \E k \in request[r].todo :
          LET q == request[r]
              doc == q.rows[k].doc
              effect == Effect(k, doc, q.tx, q.past)
              rest == q.todo \ {k}
          IN /\ Leads(k, q.todo)
             /\ IF /\ event[<<k, q.tx>>] = None
                   /\ ~ ledger[q.tx].split
                   /\ Matching(k, doc, q.tx)
                   /\ Changes(effect)
                THEN Hold(r, [pc |-> "apply", rows |-> q.rows, todo |-> rest, rule |-> k,
                              tx |-> q.tx, past |-> q.past, effect |-> effect])
                ELSE Advance(r, rest)
    /\ UNCHANGED <<tree, ledger, event, begun>>

\* Mutant: the unique index does not count reverted events.
InsertableAgain(k, t, effect) ==
    /\ event[<<k, t>>] = None \/ event[<<k, t>>].reverted
    /\ effect.event.added \intersect LabelsOf(t) = {}

\* The unique indexes on events and on labels: a conflict undoes the transaction
\* of the database and ends the request.
Insertable(k, t, effect) ==
    event[<<k, t>>] = None /\ effect.event.added \intersect LabelsOf(t) = {}

ByRule(k, labels) == {[label |-> l, rule |-> k] : l \in labels}

\* Mutant: only the secondary categories are recorded, not the tags.
RecordedCategories(e) == [e EXCEPT !.added = @ \intersect Categories]

Recorded(e) == e

WriteApply(r) ==
    /\ request[r].pc = "apply"
    /\ LET q == request[r]
           k == q.rule
           t == q.tx
           e == q.effect.event
       IN IF Insertable(k, t, q.effect)
          THEN /\ ledger' = [ledger EXCEPT
                     ![t].primary = IF q.effect.primary
                                    THEN [category |-> e.result, source |-> "rule", rule |-> k]
                                    ELSE @,
                     ![t].labels = @ \union ByRule(k, e.added),
                     ![t].reviewed = @ \/ e.reviewed]
               /\ event' = [event EXCEPT ![<<k, t>>] = Recorded(e)]
               /\ Advance(r, q.todo)
          ELSE Answer(r) /\ UNCHANGED <<ledger, event>>
    /\ UNCHANGED <<tree, begun>>

------------------------------------------------------------------------------
(* revertRuleEvent.                                                        *)

\* The event is there and not reverted; what is still the rule's is read.
ReadRevert(r) ==
    /\ Begin(r)
    /\ \E k \in Rules, t \in Transactions :
          /\ event[<<k, t>>] # None /\ ~ event[<<k, t>>].reverted
          /\ LET p == ledger[t].primary
             IN Hold(r, [pc |-> "revert", rule |-> k, tx |-> t,
                         primary |-> /\ SourceOf(p) = "rule" /\ p.rule = k
                                     /\ p.category = event[<<k, t>>].result])
    /\ UNCHANGED <<tree, ledger, event>>

\* Mutant: the labels of the event, whoever added them.
WithdrawnFromAll(k, t) == {l \in ledger[t].labels : l.label \in event[<<k, t>>].added}

\* The labels of the event that are the rule's own.
Withdrawn(k, t) == {l \in ledger[t].labels : l.rule = k /\ l.label \in event[<<k, t>>].added}

WriteRevert(r) ==
    /\ request[r].pc = "revert"
    /\ LET k == request[r].rule
           t == request[r].tx
           e == event[<<k, t>>]
       IN /\ ledger' = [ledger EXCEPT
                 ![t].primary =
                     IF ~ request[r].primary THEN @
                     ELSE IF e.before = None THEN None
                     ELSE [category |-> e.before, source |-> e.source, rule |-> None],
                 ![t].labels = @ \ Withdrawn(k, t),
                 ![t].reviewed = @ /\ ~ e.reviewed]
          /\ event' = [event EXCEPT ![<<k, t>>].reverted = TRUE]
    /\ Answer(r)
    /\ UNCHANGED <<tree, begun>>

\* The process dies or a statement fails: nothing of the open transaction stays.
Abandon(r) ==
    /\ request[r].pc # "idle"
    /\ Answer(r)
    /\ UNCHANGED <<tree, ledger, event, begun>>

------------------------------------------------------------------------------

Init ==
    /\ \E l \in Ledgers :
          category = l.category /\ tag = l.tag /\ rule = l.rule /\ ledger = l.ledger
    /\ event = [p \in Rules \X Transactions |-> None]
    /\ request = [r \in Requests |-> Idle]
    /\ begun = 0

ClassifyStep(r) ==
    \/ ReadPatch(r) \/ WritePrimary(r) \/ WriteLabels(r) \/ WriteReviewed(r) \/ WriteSplits(r)
    \/ ReadRules(r) \/ ReadPreview(r) \/ ReadApply(r) \/ WriteApply(r)
    \/ ReadRevert(r) \/ WriteRevert(r) \/ Abandon(r)

Next == \E r \in Requests : TreeStep(r) \/ ClassifyStep(r)

Spec == Init /\ [][Next]_vars

------------------------------------------------------------------------------
(* Properties.                                                             *)

\* The type of every variable but the requests.
TypeOK ==
    /\ category \in [Categories -> Category]
    /\ SiblingNames(category)
    /\ tag \in [Tags -> {"absent", "active", "archived"}]
    /\ rule \in [Rules -> Rule]
    /\ ledger \in [Transactions -> Transaction]
    /\ event \in ClassificationEvents
    /\ begun \in 0..MaxRequests

\* The types hold, and whatever a rule gave a transaction and is still there is named by an event
\* nobody reverted, so that revertRuleEvent can take it back.
EffectsRecorded ==
    /\ TypeOK
    /\ \A t \in Transactions, k \in Rules :
          LET e == event[<<k, t>>]
              p == ledger[t].primary
          IN /\ \A l \in ledger[t].labels :
                   l.rule = k => e # None /\ ~ e.reverted /\ l.label \in e.added
             /\ SourceOf(p) = "rule" /\ p.rule = k
                   => e # None /\ ~ e.reverted /\ e.result = p.category

\* A rule classifies a transaction once: after its event exists, reverted or not,
\* nothing of the transaction becomes the rule's again, however runs overlap.
AppliedOnce ==
    [][\A t \in Transactions, k \in Rules : event[<<k, t>>] # None =>
           /\ \A l \in ledger'[t].labels : l.rule = k => l \in ledger[t].labels
           /\ LET p == ledger'[t].primary
              IN SourceOf(p) = "rule" /\ p.rule = k => p = ledger[t].primary]_vars

\* Reverting an event takes back only labels that its rule added.
RevertKeepsOthers ==
    [][\A t \in Transactions, k \in Rules :
           event[<<k, t>>] # None /\ event'[<<k, t>>] # event[<<k, t>>] =>
               \A l \in ledger[t].labels \ ledger'[t].labels : l.rule = k]_vars
==============================================================================
