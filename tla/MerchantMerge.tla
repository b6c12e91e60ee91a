----------------------------- MODULE MerchantMerge -----------------------------
(***************************************************************************)
(* Merging one merchant into another, undoing it from its snapshot, and    *)
(* the application of aliases to transactions; the specification of the    *)
(* merchants and its properties.                                           *)
(***************************************************************************)
EXTENDS Merchants

------------------------------------------------------------------------------
(* mergeMerchants.                                                         *)

\* Both merchants are read before the transaction begins.
ReadMerge(r) ==
    /\ Begin(r)
    /\ \E s, t \in Merchants :
          /\ s # t
          /\ merchant[s].status \in {"active", "archived"} /\ merchant[t].status = "active"
          /\ Hold(r, [pc |-> "snapshot", source |-> s, target |-> t,
                      before |-> merchant[s].status])
    /\ UNCHANGED <<merchant, alias, assigned, merges>>

AssignedTo(m) == {t \in Payments : assigned[t].merchant = m}

AliasesOf(m) == {a \in Aliases : alias[a].merchant = m}

\* Rows of the two merchants that would collide under the unique key.
Collide(s, t) ==
    \E a \in AliasesOf(s), b \in AliasesOf(t) : alias[a].pattern = alias[b].pattern

\* The createdAt of the merges on record and of those under way.
Stamps ==
    {merges[i].at : i \in DOMAIN merges}
    \union {request[o].at : o \in {p \in Requests : request[p].pc = "move"}}

\* new Date(): time does not run back, and may stand still between two stamps.
IsNow(at) ==
    /\ \A stamp \in Stamps : stamp <= at
    /\ at \in Stamps \/ at - 1 \in Stamps \union {0}

\* The snapshot of what is going to move, and the time the event will bear.
ReadSnapshot(r) ==
    /\ request[r].pc = "snapshot"
    /\ LET q == request[r]
       IN \/ Collide(q.source, q.target) /\ Answer(r)
          \/ /\ ~ Collide(q.source, q.target)
             /\ \E now \in 1..MaxRequests :
                   /\ IsNow(now)
                   /\ Hold(r, [pc |-> "move", source |-> q.source, target |-> q.target,
                               before |-> q.before,
                               txs |-> {[tx |-> t, source |-> assigned[t].source] :
                                           t \in AssignedTo(q.source)},
                               aliases |-> AliasesOf(q.source), at |-> now])
    /\ UNCHANGED <<merchant, alias, assigned, merges, begun>>

\* Mutant: the second of two concurrent merges leaves the pointer of the first.
FirstInto(s, t) == IF merchant[s].into = None THEN t ELSE merchant[s].into

\* mergedIntoMerchantId as a merge writes it.
MergedInto(s, t) == t

\* The updates, which move what belongs to the source by now, and the event.
CommitMerge(r) ==
    /\ request[r].pc = "move"
    /\ LET q == request[r]
           event == [source |-> q.source, target |-> q.target, txs |-> q.txs,
                     aliases |-> q.aliases, before |-> q.before, at |-> q.at,
                     reverted |-> FALSE, partial |-> FALSE]
       IN IF Collide(q.source, q.target)
          THEN UNCHANGED <<merchant, alias, assigned, merges>>
          ELSE /\ assigned' = [t \in Payments |->
                     IF t \in AssignedTo(q.source)
                     THEN [merchant |-> q.target, source |-> "system"] ELSE assigned[t]]
               /\ alias' = [a \in Aliases |->
                     IF a \in AliasesOf(q.source)
                     THEN [alias[a] EXCEPT !.merchant = q.target] ELSE alias[a]]
               /\ merchant' = [merchant EXCEPT ![q.source].status = "merged",
                                               ![q.source].into = MergedInto(q.source, q.target)]
               /\ merges' = Append(merges, event)
    /\ Answer(r)
    /\ UNCHANGED begun

------------------------------------------------------------------------------
(* unmergeMerchants.                                                       *)

Open(s) == {i \in DOMAIN merges : merges[i].source = s /\ ~ merges[i].reverted}

\* desc(createdAt): any of those that bear the latest time.
Newest(s) == {i \in Open(s) : \A j \in Open(s) : merges[j].at <= merges[i].at}

\* The newest merge of the source that was not undone.
ReadUnmerge(r) ==
    /\ Begin(r)
    /\ \E s \in Merchants :
          /\ merchant[s].status = "merged"
          /\ \E i \in Newest(s) :
                Hold(r, [pc |-> "unmerge", source |-> s, event |-> i])
    /\ UNCHANGED <<merchant, alias, assigned, merges>>

\* Mutant: the snapshot goes back wherever it is by now.
Recorded(e) == {q.tx : q \in e.txs}

\* Payments of the snapshot that still are at the target.
Returning(e) == {q.tx : q \in {p \in e.txs : assigned[p.tx].merchant = e.target}}

ReturningAliases(e) == {a \in e.aliases : alias[a].merchant = e.target}

\* Something of the snapshot is elsewhere by now.
Partial(e) == Returning(e) # {q.tx : q \in e.txs} \/ ReturningAliases(e) # e.aliases

\* What the source becomes.
StatusBefore(e) == e.before

\* Everything is rolled back if an alias collides with a newer one of the source,
\* or if the source was archived after the merge had read it as active.
CommitUnmerge(r) ==
    /\ request[r].pc = "unmerge"
    /\ LET i == request[r].event
           e == merges[i]
           rows == [a \in Aliases |-> IF a \in ReturningAliases(e)
                       THEN [alias[a] EXCEPT !.merchant = e.source] ELSE alias[a]]
           source == [merchant[e.source] EXCEPT !.status = StatusBefore(e), !.into = None]
       IN IF ~ UniquePatterns(rows) \/ ~ Consistent(source)
          THEN UNCHANGED <<merchant, alias, assigned, merges>>
          ELSE /\ assigned' = [t \in Payments |->
                     IF t \in Returning(e)
                     THEN [merchant |-> e.source,
                           source |-> (CHOOSE p \in e.txs : p.tx = t).source]
                     ELSE assigned[t]]
               /\ alias' = rows
               /\ merchant' = [merchant EXCEPT ![e.source] = source]
               /\ merges' = [merges EXCEPT ![i].reverted = TRUE, ![i].partial = Partial(e)]
    /\ Answer(r)
    /\ UNCHANGED begun

------------------------------------------------------------------------------
(* aliasAssignments and its two applications.                              *)

\* Enabled aliases of active merchants.
Live == {a \in Aliases : /\ Exists(a) /\ alias[a].enabled /\ ~ alias[a].archived
                         /\ merchant[alias[a].merchant].status = "active"}

Precedes(a, b) ==
    \/ alias[a].priority < alias[b].priority
    \/ alias[a].priority = alias[b].priority /\ a <= b

\* The first live alias that fits a transaction decides, unless the user did.
Matches ==
    {m \in Match :
        /\ assigned[m.tx].source # "manual"
        /\ assigned[m.tx].merchant # m.merchant
        /\ \E a \in Live :
              /\ <<m.tx, alias[a].pattern>> \in Fits /\ alias[a].merchant = m.merchant
              /\ \A b \in Live : <<m.tx, alias[b].pattern>> \in Fits => Precedes(a, b)}

\* applyMerchantAliasesToTransactions for the transactions of an import.
ReadMatches(r) ==
    /\ Begin(r)
    /\ Matches # {}
    /\ Hold(r, [pc |-> "apply", matches |-> Matches])
    /\ UNCHANGED <<merchant, alias, assigned, merges>>

\* applyHistoricalMerchantAliases: the preview the user saw is computed again and
\* compared; it is cut to MaxPreview matches.
ReadHistorical(r) ==
    /\ Begin(r)
    /\ \E cut \in SUBSET Matches :
          /\ cut # {} /\ Cardinality(cut) <= MaxPreview
          /\ Cardinality(cut) < MaxPreview => cut = Matches
          /\ Hold(r, [pc |-> "historical", matches |-> cut])
    /\ UNCHANGED <<merchant, alias, assigned, merges>>

\* Mutant: the update trusts the preview.
AnyAssignment(t) == TRUE

\* What the update asks of the row.
Applicable(t) == assigned[t].source # "manual"

AfterMatches(ms) ==
    [t \in Payments |->
        IF Applicable(t) /\ \E m \in ms : m.tx = t
        THEN [merchant |-> (CHOOSE m \in ms : m.tx = t).merchant, source |-> "alias"]
        ELSE assigned[t]]

\* One update per match.
ApplyMatch(r) ==
    /\ request[r].pc = "apply"
    /\ \E m \in request[r].matches :
          /\ assigned' = AfterMatches({m})
          /\ LET rest == request[r].matches \ {m}
             IN IF rest = {} THEN Answer(r) ELSE Hold(r, [pc |-> "apply", matches |-> rest])
    /\ UNCHANGED <<assignFrame, begun>>

\* All in one transaction.
ApplyHistorical(r) ==
    /\ request[r].pc = "historical"
    /\ assigned' = AfterMatches(request[r].matches)
    /\ Answer(r)
    /\ UNCHANGED <<assignFrame, begun>>

------------------------------------------------------------------------------

\* The process dies, or a statement fails: what was not committed is forgotten.
MerchantAbandon(r) ==
    /\ request[r].pc # "idle"
    /\ Answer(r)
    /\ UNCHANGED <<merchant, alias, assigned, merges, begun>>

Step(r) ==
    \/ ReadAssign(r) \/ WriteAssign(r) \/ CreateMerchant(r) \/ UpdateMerchant(r)
    \/ ReadStatus(r) \/ WriteStatus(r) \/ ReadNewAlias(r) \/ InsertAlias(r)
    \/ ReadAlias(r) \/ WriteAlias(r) \/ ReadMerge(r) \/ ReadSnapshot(r) \/ CommitMerge(r)
    \/ ReadUnmerge(r) \/ CommitUnmerge(r) \/ ReadMatches(r) \/ ReadHistorical(r)
    \/ ApplyMatch(r) \/ ApplyHistorical(r) \/ MerchantAbandon(r)

MerchantNext == \E r \in Requests : Step(r)

MerchantSpec == MerchantInit /\ [][MerchantNext]_merchantVars

------------------------------------------------------------------------------
(* Properties.                                                             *)

\* The times of the open merges of a merchant follow the order of their commits.
InOrder(s) == \A i, j \in Open(s) : i < j => merges[i].at < merges[j].at

\* The tables have their types, and a merchant that is merged can be unmerged: an
\* event that was not undone leads where the merchant says it went; and if two
\* merges of it never overtook each other between their time and their commit,
\* that is the event an unmerge takes, whatever merges, unmerges, archivals and
\* restores ran at the same time (mergeMerchants, unmergeMerchants).
MergedCanBeUndone ==
    /\ MerchantTables
    /\ \A m \in Merchants : merchant[m].status = "merged" =>
          /\ \E i \in Open(m) : merges[i].target = merchant[m].into
          /\ InOrder(m) => \A i \in Newest(m) : merges[i].target = merchant[m].into

\* What the user assigned by hand is not replaced by an alias application, even if
\* the hand was quicker than the application that had read the transaction before
\* (applyMerchantAliasesToTransactions, applyHistoricalMerchantAliases); only the
\* undoing of a merge brings an alias assignment back, the one it recorded.
ManualKept ==
    [][\A t \in Payments :
          assigned[t].source = "manual" /\ assigned'[t].source = "alias" =>
             \E r \in Requests :
                /\ request[r].pc = "unmerge" /\ request'[r] # request[r]
                /\ [tx |-> t, source |-> "alias"] \in merges[request[r].event].txs]_merchantVars

\* Undoing a merge touches only what the merge recorded and what still is at the
\* target, and says so when that is not everything: an unmerge that is not
\* partial leaves each recorded transaction and alias at the source, with the
\* origin it had (unmergeMerchants).
UnmergeIsExact ==
    [][\A i \in DOMAIN merges :
          LET e == merges[i]
          IN merges'[i] # e =>
              /\ \A t \in Payments : assigned'[t] # assigned[t] =>
                    /\ \E p \in e.txs : p.tx = t /\ assigned'[t].source = p.source
                    /\ assigned[t].merchant = e.target
              /\ ~ merges'[i].partial =>
                    /\ \A p \in e.txs :
                          assigned'[p.tx] = [merchant |-> e.source, source |-> p.source]
                    /\ \A a \in e.aliases : alias'[a].merchant = e.source]_merchantVars
==============================================================================
