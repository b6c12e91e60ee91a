------------------------------ MODULE SplitSets ------------------------------
(***************************************************************************)
(* The splits of a ledger transaction and the replacement of the whole set *)
(* by another.  The replacement is one transaction of PostgreSQL without a *)
(* lock on the parent: what it archives is what its UPDATE finds, what     *)
(* others commit afterwards stays.  The links between the two sides of an  *)
(* internal transfer share the state.                                      *)
(***************************************************************************)
EXTENDS LedgerRequests, FiniteSets, FiniteSetsExt

CONSTANTS
    Amount,          \* amount of each, in the smallest unit
    Direction,       \* "credit" or "debit" of each
    Account,         \* financial account of each
    Currency,        \* currency of each
    Day,             \* booking date of each, as a day number
    Numberings,      \* the positions a request may give to its splits
    MaxDays          \* maxDateDifference

VARIABLES
    split,      \* active transaction_splits of each transaction
    link        \* internal_transfer_links, by outgoing and incoming transaction

vars == <<split, link, request, begun>>

------------------------------------------------------------------------------
(* Types.                                                                  *)

Positions == UNION Numberings

Amounts == UNION {0..Amount[t] : t \in Transactions}

\* A split as the request numbers it, and as a row of its own id.
Share == [position : Positions, amount : Amounts]

Split == [position : Positions, amount : Amounts \ {0}, id : 1..MaxRequests]

Pairs == {p \in Transactions \X Transactions : p[1] # p[2]}

\* "none" is no row; transfer_status otherwise.
LinkStatus == {"none", "suggested", "confirmed", "rejected", "unlinked"}

Request ==
    {Idle}
    \union [pc : {"insert"}, tx : Transactions, shares : SUBSET Share, id : 1..MaxRequests,
            old : SUBSET Split]
    \union [pc : {"pairs"}, splitFree : SUBSET Transactions]
    \union [pc : {"suggest"}, pairs : SUBSET Pairs]
    \union [pc : {"link", "confirm", "update"}, pair : Pairs, status : LinkStatus]

ASSUME SplitAssumption ==
    /\ Amount \in [Transactions -> Nat \ {0}]
    /\ Direction \in [Transactions -> {"credit", "debit"}]
    /\ Day \in [Transactions -> Nat]
    /\ \A n \in Numberings : n \subseteq 0..49 /\ n # {} /\ IsFiniteSet(n)
    /\ MaxDays \in Nat /\ MaxRequests \in Nat

------------------------------------------------------------------------------
(* replaceTransactionSplits.                                               *)

Total(shares) == MapThenSumSet(LAMBDA s : s.amount, shares)

\* validateSplitSet: at least one, at different positions, each positive and
\* together the parent's amount.  (The currency is the parent's.)
ValidSplitSet(t, shares) ==
    /\ shares # {}
    /\ \A s \in shares : s.amount > 0
    /\ \A s1, s2 \in shares : s1.position = s2.position => s1 = s2
    /\ Total(shares) = Amount[t]

\* The sets of splits a request may ask for: one split for each position.
Asked(t) ==
    UNION {{{[position |-> p, amount |-> f[p]] : p \in n} : f \in [n -> 0..Amount[t]]} :
              n \in Numberings}

\* A set that validateSplitSet refuses changes nothing, and what it is checked
\* against never changes.  The update archives the active splits, as it finds them.
BeginReplace(r) ==
    /\ Begin(r)
    /\ \E t \in Transactions : \E shares \in Asked(t) :
          /\ ValidSplitSet(t, shares)
          /\ Hold(r, [pc |-> "insert", tx |-> t, shares |-> shares, id |-> begun + 1,
                      old |-> split[t]])
    /\ UNCHANGED <<split, link>>

\* Mutant: the index on active positions is missing.
NoIndex(rows) == TRUE

\* transaction_splits_transaction_position_unique.
UniquePositions(rows) == \A s1, s2 \in rows : s1.position = s2.position => s1 = s2

\* The new splits get ids of their own.  A position that is taken by a split
\* archived by nobody rolls the replacement back.
CommitReplace(r) ==
    /\ request[r].pc = "insert"
    /\ LET q == request[r]
           rows == (split[q.tx] \ q.old) \union
                   {[position |-> s.position, amount |-> s.amount, id |-> q.id] : s \in q.shares}
       IN split' = IF UniquePositions(rows) THEN [split EXCEPT ![q.tx] = rows] ELSE split
    /\ Answer(r)
    /\ UNCHANGED <<link, begun>>

\* An empty set archives the active splits and adds none.
RemoveSplits(r) ==
    /\ Begin(r)
    /\ \E t \in Transactions :
          /\ split[t] # {}
          /\ split' = [split EXCEPT ![t] = {}]
    /\ UNCHANGED <<link, request>>

SplitStep(r) == BeginReplace(r) \/ CommitReplace(r) \/ RemoveSplits(r)
==============================================================================
