--------------------------- MODULE InternalTransfers ---------------------------
(***************************************************************************)
(* Suggesting, creating, confirming, rejecting and unlinking the links     *)
(* between the two sides of an internal transfer; the specification of     *)
(* splits and transfers together and its properties.                       *)
(***************************************************************************)
EXTENDS SplitSets

Abs(n, k) == IF n >= k THEN n - k ELSE k - n

\* evaluateTransferPair, for the transactions that had no splits when read.
Eligible(out, in, splitFree) ==
    /\ {out, in} \subseteq splitFree
    /\ Account[out] # Account[in]
    /\ Direction[out] = "debit" /\ Direction[in] = "credit"
    /\ Currency[out] = Currency[in] /\ Amount[out] = Amount[in]
    /\ Abs(Day[out], Day[in]) <= MaxDays

\* The hasActiveSplits flag of transferCandidates.
SplitFree == {t \in Transactions : split[t] = {}}

Confirmed == {p \in Pairs : link[p] = "confirmed"}

\* Mutant: the unique index on confirmed incoming transactions is missing.
OutgoingFree(p) == \A q \in Confirmed \ {p} : q[1] # p[1]

\* The two partial unique indexes on confirmed links.
SidesFree(p) == \A q \in Confirmed \ {p} : q[1] # p[1] /\ q[2] # p[2]

------------------------------------------------------------------------------
(* suggestInternalTransfers.                                               *)

\* The candidates with their splits.
ReadCandidates(r) ==
    /\ Begin(r)
    /\ Hold(r, [pc |-> "pairs", splitFree |-> SplitFree])
    /\ UNCHANGED <<split, link>>

\* The pairs without any link yet, whatever became of it.
ReadPairs(r) ==
    /\ request[r].pc = "pairs"
    /\ LET fresh == {p \in Pairs : /\ link[p] = "none"
                                   /\ Eligible(p[1], p[2], request[r].splitFree)}
       IN IF fresh = {} THEN Answer(r) ELSE Hold(r, [pc |-> "suggest", pairs |-> fresh])
    /\ UNCHANGED <<split, link, begun>>

\* Mutant: the insert updates the row it conflicts with.
Upserted(p) == "suggested"

\* INSERT ... ON CONFLICT DO NOTHING.
Suggested(p) == IF link[p] = "none" THEN "suggested" ELSE link[p]

InsertSuggestion(r) ==
    /\ request[r].pc = "suggest"
    /\ \E p \in request[r].pairs :
          /\ link' = [link EXCEPT ![p] = Suggested(p)]
          /\ LET rest == request[r].pairs \ {p}
             IN IF rest = {} THEN Answer(r) ELSE Hold(r, [pc |-> "suggest", pairs |-> rest])
    /\ UNCHANGED <<split, begun>>

------------------------------------------------------------------------------
(* createManualTransferLink, actionInternalTransfer.                       *)

\* getTransferPair: the pair is evaluated with the splits of this moment.
ReadManual(r) ==
    /\ Begin(r)
    /\ \E p \in Pairs :
          /\ Eligible(p[1], p[2], SplitFree)
          /\ Hold(r, [pc |-> "link", pair |-> p, status |-> "confirmed"])
    /\ UNCHANGED <<split, link>>

InsertManual(r) ==
    /\ request[r].pc = "link"
    /\ LET p == request[r].pair
       IN link' = IF link[p] = "none" /\ SidesFree(p)
                  THEN [link EXCEPT ![p] = "confirmed"] ELSE link
    /\ Answer(r)
    /\ UNCHANGED <<split, begun>>

\* Any link may be confirmed, rejected or unlinked, whatever its status.
ReadLink(r) ==
    /\ Begin(r)
    /\ \E p \in Pairs, s \in {"confirmed", "rejected", "unlinked"} :
          /\ link[p] # "none"
          /\ Hold(r, [pc |-> IF s = "confirmed" THEN "confirm" ELSE "update",
                      pair |-> p, status |-> s])
    /\ UNCHANGED <<split, link>>

\* A confirmation evaluates the pair again.
EvaluateLink(r) ==
    /\ request[r].pc = "confirm"
    /\ LET p == request[r].pair
       IN IF Eligible(p[1], p[2], SplitFree)
          THEN Hold(r, [request[r] EXCEPT !.pc = "update"])
          ELSE Answer(r)
    /\ UNCHANGED <<split, link, begun>>

\* The status is written by id, unless a unique index refuses it.
UpdateLink(r) ==
    /\ request[r].pc = "update"
    /\ LET q == request[r]
       IN link' = IF q.status = "confirmed" => SidesFree(q.pair)
                  THEN [link EXCEPT ![q.pair] = q.status] ELSE link
    /\ Answer(r)
    /\ UNCHANGED <<split, begun>>

\* The process dies, or a statement fails.
Abandon(r) ==
    /\ request[r].pc # "idle"
    /\ Answer(r)
    /\ UNCHANGED <<split, link, begun>>

TransferStep(r) ==
    \/ ReadCandidates(r) \/ ReadPairs(r) \/ InsertSuggestion(r) \/ ReadManual(r)
    \/ InsertManual(r) \/ ReadLink(r) \/ EvaluateLink(r) \/ UpdateLink(r)

Init ==
    /\ split = [t \in Transactions |-> {}]
    /\ link = [p \in Pairs |-> "none"]
    /\ request = [r \in Requests |-> Idle]
    /\ begun = 0

Next == \E r \in Requests : SplitStep(r) \/ TransferStep(r) \/ Abandon(r)

Spec == Init /\ [][Next]_vars

------------------------------------------------------------------------------
(* Properties.                                                             *)

\* The type of every table.
Tables == split \in [Transactions -> SUBSET Split] /\ link \in [Pairs -> LinkStatus]

\* The type of every variable.
TypeOK ==
    /\ Tables
    /\ request \in [Requests -> Request]
    /\ begun \in 0..MaxRequests

\* What the splits of a transaction say, whichever request stored them.
SharesOf(rows) == {[position |-> s.position, amount |-> s.amount] : s \in rows}

\* The active splits of a transaction that one request stored.
StoredBy(t, id) == {s \in split[t] : s.id = id}

\* The active splits of a transaction add up to its amount (the documents).
SplitsSumToParent ==
    \A t \in Transactions :
       split[t] # {} => Total(SharesOf(split[t])) = Amount[t]

\* The tables have their types; the active splits of a transaction are at different
\* positions; those of each request are all there and add up to the amount, so
\* that two replacements at a time leave no part of a set; and where every set
\* has a split at position 0, as the web form's sets do, they are one set
\* (replaceTransactionSplits).
SplitsWhole ==
    /\ Tables
    /\ \A t \in Transactions :
          /\ \A s1, s2 \in split[t] : s1.position = s2.position => s1 = s2
          /\ \A s \in split[t] : Total(SharesOf(StoredBy(t, s.id))) = Amount[t]
          /\ (\A s \in split[t] : \E z \in StoredBy(t, s.id) : z.position = 0)
                => \A s1, s2 \in split[t] : s1.id = s2.id

\* A transaction is a side of at most one confirmed transfer, however many links
\* were found eligible at the same time (the confirmed-side indexes).
OneConfirmedTransfer ==
    \A p, q \in Confirmed : (\E i, j \in {1, 2} : p[i] = q[j]) => p = q

\* What the user rejected or unlinked is never suggested again: only a
\* confirmation or another answer of the user changes it
\* (suggestInternalTransfers).
AnswerIsRemembered ==
    [][\A p \in Pairs :
          link[p] \in {"confirmed", "rejected", "unlinked"}
              => link'[p] \in {"confirmed", "rejected", "unlinked"}]_vars
==============================================================================
