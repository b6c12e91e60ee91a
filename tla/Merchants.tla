------------------------------- MODULE Merchants -------------------------------
(***************************************************************************)
(* The canonical merchants of one user, the alias patterns that recognise  *)
(* them, the merchant each ledger transaction is assigned to, and the      *)
(* merchant requests of the web application.                               *)
(***************************************************************************)
EXTENDS LedgerRequests, Sequences, FiniteSets

CONSTANTS
    Payments,        \* ledger transactions, none of them archived
    Merchants,       \* merchant ids
    Names,           \* normalized display names
    Patterns,        \* normalized pattern and match type of an alias
    Fits,            \* merchantAliasMatches: <<transaction, pattern>>
    Aliases,         \* alias ids, numbers in the order of createdAt
    Priorities,      \* priorities an alias may have
    MaxPreview,      \* MAX_ALIAS_PREVIEW
    Ledgers,         \* bound: the ledgers without merges a behaviour begins with
    None             \* SQL null

VARIABLES
    merchant,    \* merchants
    alias,       \* merchant_aliases
    assigned,    \* transactions.merchant_id and merchant_source
    merges       \* merchant_merge_events, in the order in which they were committed

merchantVars == <<merchant, alias, assigned, merges, request, begun>>

------------------------------------------------------------------------------
(* Types.                                                                  *)

Statuses == {"active", "archived", "merged"}

Sources == {"manual", "alias", "system"}

Merchant ==
    [status : Statuses \union {"absent"}, name : Names \union {None},
     into   : Merchants \union {None},          \* mergedIntoMerchantId
     filed  : BOOLEAN]                          \* archivedAt is set

\* merchants_merge_state_consistent and merchants_archive_state_consistent: an
\* update to any other row fails.
Consistent(row) ==
    /\ row.status = "merged" <=> row.into # None
    /\ row.status = "active" => ~ row.filed

Alias ==
    [merchant : Merchants \union {None},        \* None: no such row yet
     pattern  : Patterns \union {None}, priority : Priorities \union {0},
     enabled  : BOOLEAN, archived : BOOLEAN]

NoAlias == [merchant |-> None, pattern |-> None, priority |-> 0,
            enabled |-> FALSE, archived |-> FALSE]

\* Who assigned the merchant, if there is one.
Assignment ==
    {a \in [merchant : Merchants \union {None}, source : Sources \union {None}] :
        a.merchant = None <=> a.source = None}

\* A ledger in which no merchant was ever merged.
Ledger ==
    [merchant : [Merchants -> {m \in Merchant : m.status # "merged" /\ Consistent(m)}],
     alias    : [Aliases -> Alias], assigned : [Payments -> Assignment]]

\* What an alias application is going to write.
Match == [tx : Payments, merchant : Merchants]

\* A transaction as a merge event remembers it; its merchant was the source.
Remembered == [tx : Payments, source : Sources]

Merge ==
    [source   : Merchants, target : Merchants,
     txs      : SUBSET Remembered, aliases : SUBSET Aliases,
     before   : Statuses,                        \* sourceStatusBefore
     at       : 1..MaxRequests,                  \* createdAt
     reverted : BOOLEAN, partial : BOOLEAN]

ASSUME MerchantAssumption ==
    /\ Fits \subseteq Payments \X Patterns
    /\ Aliases \subseteq Nat /\ Priorities \subseteq Nat
    /\ MaxPreview \in Nat /\ MaxRequests \in Nat
    /\ None \notin Merchants \union Names \union Patterns \union Sources
    /\ Ledgers \subseteq Ledger

MerchantRequest ==
    {Idle}
    \union [pc : {"assign"}, tx : Payments, merchant : Merchants \union {None}]
    \union [pc : {"status"}, merchant : Merchants, status : {"active", "archived"}]
    \union [pc : {"newAlias"}, row : Alias]
    \union [pc : {"editAlias", "actAlias"}, alias : Aliases, row : Alias]
    \union [pc : {"snapshot"}, source : Merchants, target : Merchants, before : Statuses]
    \union [pc : {"move"}, source : Merchants, target : Merchants, before : Statuses,
            txs : SUBSET Remembered, aliases : SUBSET Aliases, at : 1..MaxRequests]
    \union [pc : {"unmerge"}, source : Merchants, event : Nat]
    \union [pc : {"apply", "historical"}, matches : SUBSET Match]

------------------------------------------------------------------------------

Exists(a) == alias[a].merchant # None

\* merchant_aliases_user_pattern_unique over the rows of a function like alias.
UniquePatterns(rows) ==
    \A a, b \in Aliases :
        /\ a # b /\ rows[a].merchant # None
        /\ rows[a].merchant = rows[b].merchant
        => rows[a].pattern # rows[b].pattern

\* What confirmed imports and earlier requests left, no merge among them.
MerchantInit ==
    /\ \E l \in Ledgers : /\ merchant = l.merchant
                          /\ alias = l.alias
                          /\ assigned = l.assigned
    /\ merges = <<>>
    /\ request = [r \in Requests |-> Idle]
    /\ begun = 0

\* The type of every table.
MerchantTables ==
    /\ merchant \in [Merchants -> Merchant]
    /\ alias \in [Aliases -> Alias]
    /\ assigned \in [Payments -> Assignment]
    /\ merges \in Seq(Merge)

\* The type of every variable.
MerchantTypeOK ==
    /\ MerchantTables
    /\ request \in [Requests -> MerchantRequest]
    /\ begun \in 0..MaxRequests

------------------------------------------------------------------------------
assignFrame == <<merchant, alias, merges>>
merchantFrame == <<alias, assigned, merges>>
aliasFrame == <<merchant, assigned, merges>>

------------------------------------------------------------------------------
(* setTransactionMerchant.                                                 *)

\* The merchant, if any, is active when it is read.
ReadAssign(r) ==
    /\ Begin(r)
    /\ \E t \in Payments, m \in Merchants \union {None} :
          /\ m # None => merchant[m].status = "active"
          /\ Hold(r, [pc |-> "assign", tx |-> t, merchant |-> m])
    /\ UNCHANGED <<merchant, alias, assigned, merges>>

\* merchantSource as the user's choice writes it.
HandSource(m) == IF m = None THEN None ELSE "manual"

WriteAssign(r) ==
    /\ request[r].pc = "assign"
    /\ LET q == request[r]
       IN assigned' = [assigned EXCEPT ![q.tx] =
              [merchant |-> q.merchant, source |-> HandSource(q.merchant)]]
    /\ Answer(r)
    /\ UNCHANGED <<assignFrame, begun>>

------------------------------------------------------------------------------
(* createMerchant, updateMerchant, actionMerchant.                         *)

\* merchants_user_normalized_name_unique counts archived and merged merchants.
NameFree(n) == \A m \in Merchants : merchant[m].name # n

CreateMerchant(r) ==
    /\ Begin(r)
    /\ \E m \in Merchants, n \in Names :
          /\ merchant[m].status = "absent" /\ NameFree(n)
          /\ merchant' = [merchant EXCEPT ![m] =
                [status |-> "active", name |-> n, into |-> None, filed |-> FALSE]]
    /\ UNCHANGED <<merchantFrame, request>>

UpdateMerchant(r) ==
    /\ Begin(r)
    /\ \E m \in Merchants, n \in Names :
          /\ merchant[m].status # "absent" /\ NameFree(n)
          /\ merchant' = [merchant EXCEPT ![m].name = n]
    /\ UNCHANGED <<merchantFrame, request>>

\* Archive and restore refuse a merchant that is merged when it is read.
ReadStatus(r) ==
    /\ Begin(r)
    /\ \E m \in Merchants, s \in {"active", "archived"} :
          /\ merchant[m].status \notin {"absent", "merged"}
          /\ Hold(r, [pc |-> "status", merchant |-> m, status |-> s])
    /\ UNCHANGED <<merchant, alias, assigned, merges>>

\* A merchant that was merged in between cannot be written.
WriteStatus(r) ==
    /\ request[r].pc = "status"
    /\ LET m == request[r].merchant
           row == [merchant[m] EXCEPT !.status = request[r].status,
                                      !.filed = request[r].status = "archived"]
       IN merchant' = IF Consistent(row) THEN [merchant EXCEPT ![m] = row] ELSE merchant
    /\ Answer(r)
    /\ UNCHANGED <<merchantFrame, begun>>

------------------------------------------------------------------------------
(* createMerchantAlias, updateMerchantAlias, actionMerchantAlias.          *)

ReadNewAlias(r) ==
    /\ Begin(r)
    /\ \E m \in Merchants, p \in Patterns, k \in Priorities, on \in BOOLEAN :
          /\ merchant[m].status = "active"
          /\ Hold(r, [pc |-> "newAlias", row |->
                [merchant |-> m, pattern |-> p, priority |-> k, enabled |-> on,
                 archived |-> FALSE]])
    /\ UNCHANGED <<merchant, alias, assigned, merges>>

\* The insert fails with a conflict if the merchant has such an alias.
InsertAlias(r) ==
    /\ request[r].pc = "newAlias"
    /\ LET absent == {a \in Aliases : ~ Exists(a)}
           rows(a) == [alias EXCEPT ![a] = request[r].row]
       IN \/ \E a \in absent :
                /\ \A b \in absent : a <= b
                /\ UniquePatterns(rows(a))
                /\ alias' = rows(a)
          \/ /\ \A a \in absent : ~ UniquePatterns(rows(a))
             /\ UNCHANGED alias
    /\ Answer(r)
    /\ UNCHANGED <<aliasFrame, begun>>

\* A patch is completed with the values the row has when it is read.
ReadAlias(r) ==
    /\ Begin(r)
    /\ \E a \in Aliases :
          /\ Exists(a)
          /\ \/ \E p \in Patterns, k \in Priorities, on \in BOOLEAN :
                   Hold(r, [pc |-> "editAlias", alias |-> a, row |->
                         [alias[a] EXCEPT !.pattern = p, !.priority = k, !.enabled = on]])
             \/ \E act \in {[enabled |-> TRUE, archived |-> alias[a].archived],     \* enable
                            [enabled |-> FALSE, archived |-> alias[a].archived],    \* disable
                            [enabled |-> FALSE, archived |-> TRUE],                 \* archive
                            [enabled |-> alias[a].enabled, archived |-> FALSE]} :   \* restore
                   Hold(r, [pc |-> "actAlias", alias |-> a, row |->
                         [alias[a] EXCEPT !.enabled = act.enabled, !.archived = act.archived]])
    /\ UNCHANGED <<merchant, alias, assigned, merges>>

WriteAlias(r) ==
    /\ request[r].pc \in {"editAlias", "actAlias"}
    /\ LET q == request[r]
           rows == IF q.pc = "editAlias"
                   THEN [alias EXCEPT ![q.alias].pattern = q.row.pattern,
                                      ![q.alias].priority = q.row.priority,
                                      ![q.alias].enabled = q.row.enabled]
                   ELSE [alias EXCEPT ![q.alias].enabled = q.row.enabled,
                                      ![q.alias].archived = q.row.archived]
       IN alias' = IF UniquePatterns(rows) THEN rows ELSE alias
    /\ Answer(r)
    /\ UNCHANGED <<aliasFrame, begun>>
==============================================================================
