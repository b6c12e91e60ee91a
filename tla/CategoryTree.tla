----------------------------- MODULE CategoryTree -----------------------------
(***************************************************************************)
(* The categories and tags of one user, the classification rules that      *)
(* refer to them, and the requests that maintain the three.                *)
(***************************************************************************)
EXTENDS LedgerRequests

CONSTANTS
    Categories,      \* category ids
    Names,           \* normalized names
    Tags,            \* tag ids
    Rules,           \* rule ids, numbers in the order of priority
    Fits,            \* <<rule, transaction>>: the conditions on imported facts hold
    Documents,       \* bound: the conditions and actions a user writes
    MaxVersion,      \* bound: edits of a rule
    None             \* SQL null

VARIABLES
    category,    \* categories
    tag,         \* tags
    rule,        \* classification_rules
    ledger,      \* what classifies each transaction
    event        \* classification_events, by rule and transaction

vars == <<category, tag, rule, ledger, event, request, begun>>

------------------------------------------------------------------------------
(* Types.                                                                  *)

Category == [status : {"absent", "active", "archived"},
             parent : Categories \union {None}, name : Names \union {None}]

\* Secondary categories and tags are added, kept and removed alike.
Labels == Categories \union Tags

Document ==
    [primary : Categories \union {None},         \* its primary category action
     labels  : SUBSET Labels,                    \* its secondary categories and tags
     review  : BOOLEAN,                          \* its mark_reviewed action
     blank   : BOOLEAN,                          \* condition uncategorised_only
     past    : BOOLEAN]                          \* historical_and_future

Rule == [status  : {"absent", "enabled", "disabled", "archived"},
         doc     : Document, version : 0..MaxVersion]    \* actionsVersion

ASSUME TreeAssumption ==
    /\ Documents \subseteq Document
    /\ Rules \subseteq Nat /\ MaxRequests \in Nat /\ MaxVersion \in Nat
    /\ None \notin Categories \union Names \union Tags

treeFrame == <<ledger, event>>

------------------------------------------------------------------------------
(* createCategory, updateCategory, archiveCategory, restoreCategory.       *)

\* validateCategoryParent.
ValidParent(p) ==
    p # None => category[p].status = "active" /\ category[p].parent = None

\* The unique indexes on names of roots and of the children of one parent.
SiblingNames(rows) ==
    \A c, d \in Categories :
        /\ c # d /\ rows[c].status # "absent" /\ rows[d].status # "absent"
        /\ rows[c].parent = rows[d].parent
        => rows[c].name # rows[d].name

\* The parent is validated when it is read; the row is written afterwards.  A
\* patch that leaves the parent alone does not look at it.
ReadCategory(r) ==
    /\ Begin(r)
    /\ \E c \in Categories, p \in Categories \union {None}, n \in Names :
          /\ p # c
          /\ \/ ValidParent(p)
             \/ category[c].status # "absent" /\ p = category[c].parent
          /\ Hold(r, [pc |-> "category", category |-> c, parent |-> p, name |-> n,
                      new |-> category[c].status = "absent"])
    /\ UNCHANGED <<category, tag, rule, treeFrame>>

WriteCategory(r) ==
    /\ request[r].pc = "category"
    /\ LET q == request[r]
           status == IF q.new THEN "active" ELSE category[q.category].status
           rows == [category EXCEPT ![q.category] =
                       [status |-> status, parent |-> q.parent, name |-> q.name]]
       IN category' = IF /\ SiblingNames(rows)
                         /\ q.new => category[q.category].status = "absent"
                      THEN rows ELSE category
    /\ Answer(r)
    /\ UNCHANGED <<tag, rule, treeFrame, begun>>

\* The category is archived; the rules are read and disabled afterwards.
ArchiveCategory(r) ==
    /\ Begin(r)
    /\ \E c \in Categories :
          /\ category[c].status # "absent"
          /\ category' = [category EXCEPT ![c].status = "archived"]
          /\ Hold(r, [pc |-> "references", category |-> c])
    /\ UNCHANGED <<tag, rule, treeFrame>>

RestoreCategory(r) ==
    /\ Begin(r)
    /\ \E c \in Categories :
          /\ category[c].status # "absent"
          /\ category' = [category EXCEPT ![c].status = "active"]
    /\ UNCHANGED <<tag, rule, treeFrame, request>>

\* The categories a rule's actions name.
Referenced(doc) == ({doc.primary} \union doc.labels) \intersect Categories

\* disableRulesReferencingCategory: the rules that refer to the category, as read.
ReadReferences(r) ==
    /\ request[r].pc = "references"
    /\ LET found == {k \in Rules : /\ rule[k].status # "absent"
                                  /\ request[r].category \in Referenced(rule[k].doc)}
       IN IF found = {} THEN Answer(r) ELSE Hold(r, [pc |-> "disable", rules |-> found])
    /\ UNCHANGED <<category, tag, rule, treeFrame, begun>>

Disabled(status) == IF status = "archived" THEN "archived" ELSE "disabled"

DisableRule(r) ==
    /\ request[r].pc = "disable"
    /\ \E k \in request[r].rules :
          /\ rule' = [rule EXCEPT ![k].status = Disabled(@)]
          /\ LET rest == request[r].rules \ {k}
             IN IF rest = {} THEN Answer(r) ELSE Hold(r, [pc |-> "disable", rules |-> rest])
    /\ UNCHANGED <<category, tag, treeFrame, begun>>

\* createTag, archiveTag, restoreTag: one statement each.
WriteTag(r) ==
    /\ Begin(r)
    /\ \E g \in Tags :
          \/ tag[g] = "absent" /\ tag' = [tag EXCEPT ![g] = "active"]
          \/ tag[g] # "absent" /\ \E s \in {"active", "archived"} : tag' = [tag EXCEPT ![g] = s]
    /\ UNCHANGED <<category, rule, treeFrame, request>>

------------------------------------------------------------------------------
(* createRule, updateRule, ruleAction.                                     *)

\* ownedActiveCategories and ownedActiveTags.
Available(labels) ==
    /\ \A c \in labels \intersect Categories : category[c].status = "active"
    /\ \A g \in labels \intersect Tags : tag[g] = "active"

\* What the actions refer to is active when it is read.
ReadRule(r) ==
    /\ Begin(r)
    /\ \E k \in Rules, doc \in Documents, on \in {"enabled", "disabled", "same"} :
          /\ rule[k].status = "absent" => on # "same"
          /\ Available(doc.labels \union ({doc.primary} \ {None}))
          /\ rule[k].version < MaxVersion
          /\ Hold(r, [pc |-> "rule", rule |-> k, doc |-> doc, status |-> on,
                      version |-> rule[k].version + 1])
    /\ UNCHANGED <<category, tag, rule, treeFrame>>

\* A patch that names enabled does not bring an archived rule back.
WriteRule(r) ==
    /\ request[r].pc = "rule"
    /\ LET q == request[r]
       IN rule' = [rule EXCEPT ![q.rule] =
              [status  |-> IF q.status = "same" \/ @.status = "archived" THEN @.status
                           ELSE q.status,
               doc     |-> q.doc, version |-> q.version]]
    /\ Answer(r)
    /\ UNCHANGED <<category, tag, treeFrame, begun>>

\* Enabling does not look at what the actions refer to; an archived rule is not
\* enabled, whatever it was disabled from.
RuleAction(r) ==
    /\ Begin(r)
    /\ \E k \in Rules :
          /\ rule[k].status # "absent"
          /\ \E s \in {"enabled", Disabled(rule[k].status), "archived", "disabled"} :
                rule' = [rule EXCEPT ![k].status = s]
    /\ UNCHANGED <<category, tag, treeFrame, request>>

TreeStep(r) ==
    \/ ReadCategory(r) \/ WriteCategory(r) \/ ArchiveCategory(r) \/ RestoreCategory(r)
    \/ ReadReferences(r) \/ DisableRule(r) \/ WriteTag(r) \/ ReadRule(r) \/ WriteRule(r)
    \/ RuleAction(r)
==============================================================================
