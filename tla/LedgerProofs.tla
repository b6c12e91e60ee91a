----------------------------- MODULE LedgerProofs -----------------------------
(***************************************************************************)
(* Requests that change the ledger: splits and transfers, then merchants.  *)
(* For any transactions and requests: what a request stored of the splits  *)
(* of a transaction is there as a whole or not at all, the transaction is  *)
(* a side of at most one confirmed transfer, and no suggestion undoes an   *)
(* answer; a link whose sides are a debit and a       *)
(* credit can share a transaction with another only on the same side,      *)
(* which is what the two indexes cover.  For any merchants and aliases:    *)
(* what is merged can be unmerged, an unmerge touches only what its merge  *)
(* recorded, and no alias application replaces what the user chose.        *)
(***************************************************************************)
EXTENDS InternalTransfers, MerchantMerge, SequenceTheorems, TLAPS

------------------------------------------------------------------------------
(* Splits and transfers.                                                   *)

\* A pair that evaluateTransferPair may have accepted.
Opposite(p) == Direction[p[1]] = "debit" /\ Direction[p[2]] = "credit"

\* What a request in flight is about to write.
Pending ==
    \A r \in Requests :
       /\ request[r].pc = "insert" => \A s \in request[r].shares : s.amount > 0
       /\ request[r].pc = "suggest" => \A p \in request[r].pairs : Opposite(p)
       /\ request[r].pc \in {"link", "confirm", "update"} =>
             /\ Opposite(request[r].pair)
             /\ request[r].status \in {"confirmed", "rejected", "unlinked"}

LinksOpposite == \A p \in Pairs : link[p] # "none" => Opposite(p)

\* The indexes, as the table satisfies them.
Unique == \A p, q \in Confirmed : p[1] = q[1] \/ p[2] = q[2] => p = q

TransferInv == TypeOK /\ Pending /\ LinksOpposite /\ Unique

------------------------------------------------------------------------------
(* Types.                                                                  *)

\* A request is one of the records of Request.
LEMMA Kinds ==
    ASSUME TypeOK, NEW r \in Requests
    PROVE  /\ request[r].pc = "insert" =>
                 /\ request[r].tx \in Transactions /\ request[r].shares \in SUBSET Share
                 /\ request[r].id \in 1..MaxRequests /\ request[r].old \in SUBSET Split
           /\ request[r].pc = "pairs" => request[r].splitFree \in SUBSET Transactions
           /\ request[r].pc = "suggest" => request[r].pairs \in SUBSET Pairs
           /\ request[r].pc \in {"link", "confirm", "update"} =>
                 request[r].pair \in Pairs /\ request[r].status \in LinkStatus
<1> DEFINE q == request[r]
<1>1. q \in Request
  BY DEF TypeOK, Tables
<1>2. CASE q = Idle
  BY <1>2 DEF Idle
<1>4. CASE q \in [pc : {"insert"}, tx : Transactions, shares : SUBSET Share,
                  id : 1..MaxRequests, old : SUBSET Split]
  BY <1>4
<1>5. CASE q \in [pc : {"pairs"}, splitFree : SUBSET Transactions]
  BY <1>5
<1>6. CASE q \in [pc : {"suggest"}, pairs : SUBSET Pairs]
  BY <1>6
<1>7. CASE q \in [pc : {"link", "confirm", "update"}, pair : Pairs, status : LinkStatus]
  BY <1>7
<1> QED
  BY <1>1, <1>2, <1>4, <1>5, <1>6, <1>7 DEF Request

\* A request that ends, or holds another record of Request, keeps its type.
LEMMA HoldType ==
    ASSUME TypeOK, NEW r \in Requests, NEW what \in Request, Hold(r, what)
    PROVE  request' \in [Requests -> Request]
  BY DEF TypeOK, Tables, Hold

\* A request that answers is idle again.
LEMMA AnswerType ==
    ASSUME TypeOK, NEW r \in Requests, Answer(r)
    PROVE  request' \in [Requests -> Request]
  BY DEF TypeOK, Tables, Answer, Request

\* The count of requests stays within its bound.
LEMMA BegunType ==
    ASSUME TypeOK, NEW r \in Requests, Begin(r)
    PROVE  begun' \in 0..MaxRequests /\ begun + 1 \in 1..MaxRequests
  BY SplitAssumption DEF TypeOK, Tables, Begin

\* What a request asks for has the type of shares.
LEMMA AskedType ==
    ASSUME NEW t \in Transactions, NEW shares \in Asked(t)
    PROVE  shares \in SUBSET Share
<1>1. PICK n \in Numberings :
        shares \in {{[position |-> p, amount |-> f[p]] : p \in n} : f \in [n -> 0..Amount[t]]}
  BY DEF Asked
<1>2. PICK f \in [n -> 0..Amount[t]] : shares = {[position |-> p, amount |-> f[p]] : p \in n}
  BY <1>1
<1>3. ASSUME NEW p \in n
      PROVE  p \in Positions /\ f[p] \in Amounts
  BY <1>2, <1>3 DEF Positions, Amounts
<1> QED
  BY <1>2, <1>3 DEF Share

\* What a replacement that begins will hold.
LEMMA ReplaceAsked ==
    ASSUME NEW r \in Requests, BeginReplace(r)
    PROVE  \E t \in Transactions : \E shares \in Asked(t) :
              /\ ValidSplitSet(t, shares)
              /\ Hold(r, [pc |-> "insert", tx |-> t, shares |-> shares, id |-> begun + 1,
                          old |-> split[t]])
  BY DEF BeginReplace

\* Splits and their replacement keep the types; a checked set has no split of
\* amount zero.
LEMMA SplitTypes ==
    ASSUME TransferInv, NEW r \in Requests, SplitStep(r)
    PROVE  TypeOK'
<1> USE DEF TransferInv
<1>1. CASE BeginReplace(r)
  <2>0. PICK t \in Transactions : \E shares \in Asked(t) :
          Hold(r, [pc |-> "insert", tx |-> t, shares |-> shares, id |-> begun + 1,
                   old |-> split[t]])
    BY <1>1, ReplaceAsked
  <2>1. PICK shares \in Asked(t) :
          Hold(r, [pc |-> "insert", tx |-> t, shares |-> shares, id |-> begun + 1,
                   old |-> split[t]])
    BY <2>0
  <2>2. begun' \in 0..MaxRequests /\ begun + 1 \in 1..MaxRequests
    BY <1>1, BegunType DEF BeginReplace
  <2>3. shares \in SUBSET Share
    BY <2>1, AskedType
  <2>4. [pc |-> "insert", tx |-> t, shares |-> shares, id |-> begun + 1, old |-> split[t]]
          \in Request
    BY <2>1, <2>2, <2>3 DEF Request, TypeOK, Tables
  <2>5. request' \in [Requests -> Request]
    BY <2>1, <2>4, HoldType
  <2> QED
    BY <1>1, <2>2, <2>5 DEF BeginReplace, TypeOK, Tables
<1>3. CASE CommitReplace(r)
  <2> DEFINE q == request[r]
             new == {[position |-> s.position, amount |-> s.amount, id |-> q.id] : s \in q.shares}
             rows == (split[q.tx] \ q.old) \union new
  <2>1. q.tx \in Transactions /\ q.shares \in SUBSET Share /\ q.id \in 1..MaxRequests
    BY <1>3, Kinds DEF CommitReplace
  <2>2. \A s \in q.shares : s.amount > 0
    BY <1>3 DEF CommitReplace, Pending
  <2>3. new \in SUBSET Split
    BY <2>1, <2>2 DEF Share, Split
  <2>4. rows \in SUBSET Split
    BY <2>1, <2>3 DEF TypeOK, Tables
  <2>5. split' \in [Transactions -> SUBSET Split]
    BY <1>3, <2>1, <2>4 DEF CommitReplace, TypeOK, Tables
  <2>6. request' \in [Requests -> Request]
    BY <1>3, AnswerType DEF CommitReplace
  <2> QED
    BY <1>3, <2>5, <2>6 DEF CommitReplace, TypeOK, Tables
<1>4. CASE RemoveSplits(r)
  <2>1. begun' \in 0..MaxRequests
    BY <1>4, BegunType DEF RemoveSplits
  <2> QED
    BY <1>4, <2>1 DEF RemoveSplits, TypeOK, Tables
<1> QED
  BY <1>1, <1>3, <1>4 DEF SplitStep

\* So do links, and the end of a request.
LEMMA LinkTypes ==
    ASSUME TransferInv, NEW r \in Requests, TransferStep(r) \/ Abandon(r)
    PROVE  TypeOK'
<1> USE DEF TransferInv
<1>1. CASE ReadCandidates(r)
  <2>1. [pc |-> "pairs", splitFree |-> SplitFree] \in Request
    BY DEF Request, SplitFree
  <2> QED
    BY <1>1, <2>1, HoldType, BegunType DEF ReadCandidates, TypeOK, Tables
<1>2. CASE ReadPairs(r)
  <2> DEFINE fresh == {p \in Pairs : /\ link[p] = "none"
                                     /\ Eligible(p[1], p[2], request[r].splitFree)}
  <2>1. [pc |-> "suggest", pairs |-> fresh] \in Request
    BY DEF Request
  <2>2. request' \in [Requests -> Request]
    BY <1>2, <2>1, HoldType, AnswerType DEF ReadPairs
  <2> QED
    BY <1>2, <2>2 DEF ReadPairs, TypeOK, Tables
<1>3. CASE InsertSuggestion(r)
  <2>1. PICK p \in request[r].pairs :
          /\ link' = [link EXCEPT ![p] = Suggested(p)]
          /\ LET rest == request[r].pairs \ {p}
             IN IF rest = {} THEN Answer(r) ELSE Hold(r, [pc |-> "suggest", pairs |-> rest])
    BY <1>3 DEF InsertSuggestion
  <2>2. request[r].pairs \in SUBSET Pairs
    BY <1>3, Kinds DEF InsertSuggestion
  <2>3. [pc |-> "suggest", pairs |-> request[r].pairs \ {p}] \in Request
    BY <2>2 DEF Request
  <2>4. request' \in [Requests -> Request]
    BY <2>1, <2>3, HoldType, AnswerType
  <2>5. link' \in [Pairs -> LinkStatus]
    BY <2>1, <2>2 DEF Suggested, TypeOK, Tables, LinkStatus
  <2> QED
    BY <1>3, <2>4, <2>5 DEF InsertSuggestion, TypeOK, Tables
<1>4. CASE ReadManual(r)
  <2>1. PICK p \in Pairs : Hold(r, [pc |-> "link", pair |-> p, status |-> "confirmed"])
    BY <1>4 DEF ReadManual
  <2>2. [pc |-> "link", pair |-> p, status |-> "confirmed"] \in Request
    BY DEF Request, LinkStatus
  <2> QED
    BY <1>4, <2>1, <2>2, HoldType, BegunType DEF ReadManual, TypeOK, Tables
<1>5. CASE InsertManual(r)
  <2>1. request[r].pair \in Pairs
    BY <1>5, Kinds DEF InsertManual
  <2>2. link' \in [Pairs -> LinkStatus]
    BY <1>5, <2>1 DEF InsertManual, TypeOK, Tables, LinkStatus
  <2> QED
    BY <1>5, <2>2, AnswerType DEF InsertManual, TypeOK, Tables
<1>6. CASE ReadLink(r)
  <2>1. PICK p \in Pairs, s \in {"confirmed", "rejected", "unlinked"} :
          Hold(r, [pc |-> IF s = "confirmed" THEN "confirm" ELSE "update",
                   pair |-> p, status |-> s])
    BY <1>6 DEF ReadLink
  <2>2. [pc |-> IF s = "confirmed" THEN "confirm" ELSE "update", pair |-> p, status |-> s]
          \in Request
    BY DEF Request, LinkStatus
  <2> QED
    BY <1>6, <2>1, <2>2, HoldType, BegunType DEF ReadLink, TypeOK, Tables
<1>7. CASE EvaluateLink(r)
  <2>1. request[r].pair \in Pairs /\ request[r].status \in LinkStatus
    BY <1>7, Kinds DEF EvaluateLink
  <2>2. request[r] \in [pc : {"link", "confirm", "update"}, pair : Pairs, status : LinkStatus]
    BY <1>7 DEF EvaluateLink, TypeOK, Tables, Request, Idle
  <2>3. [request[r] EXCEPT !.pc = "update"] \in Request
    BY <2>2 DEF Request
  <2>4. request' \in [Requests -> Request]
    BY <1>7, <2>3, HoldType, AnswerType DEF EvaluateLink
  <2> QED
    BY <1>7, <2>4 DEF EvaluateLink, TypeOK, Tables
<1>8. CASE UpdateLink(r)
  <2>1. request[r].pair \in Pairs /\ request[r].status \in LinkStatus
    BY <1>8, Kinds DEF UpdateLink
  <2>2. link' \in [Pairs -> LinkStatus]
    BY <1>8, <2>1 DEF UpdateLink, TypeOK, Tables
  <2> QED
    BY <1>8, <2>2, AnswerType DEF UpdateLink, TypeOK, Tables
<1>9. CASE Abandon(r)
  BY <1>9, AnswerType DEF Abandon, TypeOK, Tables
<1> QED
  BY <1>1, <1>2, <1>3, <1>4, <1>5, <1>6, <1>7, <1>8, <1>9 DEF TransferStep

\* Every step keeps the types.
LEMMA TypeStep ==
    ASSUME TransferInv, [Next]_vars
    PROVE  TypeOK'
<1>1. CASE Next
  <2>1. PICK r \in Requests : SplitStep(r) \/ TransferStep(r) \/ Abandon(r)
    BY <1>1 DEF Next
  <2> QED
    BY <2>1, SplitTypes, LinkTypes
<1>2. CASE UNCHANGED vars
  BY <1>2 DEF vars, TransferInv, TypeOK, Tables
<1> QED
  BY <1>1, <1>2

------------------------------------------------------------------------------
(* What a step may do to the links and to the requests.                    *)

\* Only one link changes in a step: a pair of its request's becomes suggested if it
\* had no link, confirmed if its sides are free, or rejected or unlinked.
LinkStep ==
    \/ UNCHANGED link
    \/ \E p \in Pairs, s \in LinkStatus \ {"none"} :
          /\ link' = [link EXCEPT ![p] = s]
          /\ Opposite(p)
          /\ s = "confirmed" => SidesFree(p)
          /\ s = "suggested" => link[p] = "none"

\* Every step does to links and requests what LinkStep says.
LEMMA LinkChange ==
    ASSUME TransferInv, [Next]_vars
    PROVE  LinkStep
<1> USE DEF TransferInv
<1> SUFFICES ASSUME NEW r \in Requests,
                    InsertSuggestion(r) \/ InsertManual(r) \/ UpdateLink(r)
             PROVE  LinkStep
  BY DEF LinkStep, vars, Next, SplitStep, TransferStep, BeginReplace, CommitReplace, RemoveSplits, ReadCandidates, ReadPairs, ReadManual, ReadLink,
         EvaluateLink, Abandon
<1>1. CASE InsertSuggestion(r)
  <2>1. PICK p \in request[r].pairs : link' = [link EXCEPT ![p] = Suggested(p)]
    BY <1>1 DEF InsertSuggestion
  <2>2. p \in Pairs /\ Opposite(p)
    BY <1>1, Kinds DEF InsertSuggestion, Pending
  <2>3. CASE link[p] = "none"
    BY <2>1, <2>2, <2>3 DEF LinkStep, Suggested, LinkStatus
  <2>4. CASE link[p] # "none"
    BY <2>1, <2>2, <2>4 DEF LinkStep, Suggested, TypeOK, Tables
  <2> QED
    BY <2>3, <2>4
<1>2. CASE InsertManual(r)
  <2>1. request[r].pair \in Pairs /\ Opposite(request[r].pair)
    BY <1>2, Kinds DEF InsertManual, Pending
  <2> QED
    BY <1>2, <2>1 DEF InsertManual, LinkStep, LinkStatus
<1>3. CASE UpdateLink(r)
  <2>1. /\ request[r].pair \in Pairs /\ Opposite(request[r].pair)
        /\ request[r].status \in {"confirmed", "rejected", "unlinked"}
    BY <1>3, Kinds DEF UpdateLink, Pending
  <2> QED
    BY <1>3, <2>1 DEF UpdateLink, LinkStep, LinkStatus
<1> QED
  BY <1>1, <1>2, <1>3

\* What a request is about to write was checked when it began to hold it.
LEMMA PendingStep ==
    ASSUME TransferInv, [Next]_vars
    PROVE  Pending'
<1> USE DEF TransferInv
<1>1. CASE UNCHANGED vars
  BY <1>1 DEF vars, Pending, Opposite
<1>2. ASSUME NEW r \in Requests, SplitStep(r) \/ TransferStep(r) \/ Abandon(r)
      PROVE  Pending'
  <2> DEFINE Due(q) ==
        /\ q.pc = "insert" => \A s \in q.shares : s.amount > 0
        /\ q.pc = "suggest" => \A p \in q.pairs : Opposite(p)
        /\ q.pc \in {"link", "confirm", "update"} =>
              Opposite(q.pair) /\ q.status \in {"confirmed", "rejected", "unlinked"}
  <2>1. SUFFICES ASSUME NEW q, request' = [request EXCEPT ![r] = q], Due(q)
                 PROVE  Pending'
    <3>1. CASE BeginReplace(r)
      <4>1. PICK t \in Transactions : \E shares \in Asked(t) :
              /\ ValidSplitSet(t, shares)
              /\ Hold(r, [pc |-> "insert", tx |-> t, shares |-> shares, id |-> begun + 1,
                          old |-> split[t]])
        BY <3>1, ReplaceAsked
      <4>2. PICK shares \in Asked(t) :
              /\ ValidSplitSet(t, shares)
              /\ Hold(r, [pc |-> "insert", tx |-> t, shares |-> shares, id |-> begun + 1,
                          old |-> split[t]])
        BY <4>1
      <4> QED
        BY <4>2, <2>1 DEF ValidSplitSet, Hold
    <3>3. CASE CommitReplace(r)
      BY <3>3, <2>1 DEF CommitReplace, Answer, Idle
    <3>4. CASE RemoveSplits(r)
      BY <3>4 DEF RemoveSplits, Pending, Opposite
    <3>5. CASE ReadCandidates(r)
      BY <3>5, <2>1 DEF ReadCandidates, Hold
    <3>6. CASE ReadPairs(r)
      BY <3>6, <2>1 DEF ReadPairs, Eligible, Opposite, Hold, Answer, Idle
    <3>7. CASE InsertSuggestion(r)
      <4>1. PICK p \in request[r].pairs :
              LET rest == request[r].pairs \ {p}
              IN IF rest = {} THEN Answer(r) ELSE Hold(r, [pc |-> "suggest", pairs |-> rest])
        BY <3>7 DEF InsertSuggestion
      <4>2. Due([pc |-> "suggest", pairs |-> request[r].pairs \ {p}]) /\ Due(Idle)
        BY <3>7 DEF InsertSuggestion, Pending, Idle
      <4> QED
        BY <4>1, <4>2, <2>1 DEF Hold, Answer
    <3>8. CASE ReadManual(r)
      BY <3>8, <2>1 DEF ReadManual, Eligible, Opposite, Hold
    <3>9. CASE InsertManual(r)
      BY <3>9, <2>1 DEF InsertManual, Answer, Idle
    <3>10. CASE ReadLink(r)
      <4>1. PICK p \in Pairs, s \in {"confirmed", "rejected", "unlinked"} :
              /\ link[p] # "none"
              /\ Hold(r, [pc |-> IF s = "confirmed" THEN "confirm" ELSE "update",
                          pair |-> p, status |-> s])
        BY <3>10 DEF ReadLink
      <4>2. Opposite(p)
        BY <4>1 DEF LinksOpposite
      <4>3. Due([pc |-> IF s = "confirmed" THEN "confirm" ELSE "update", pair |-> p, status |-> s])
        BY <4>2
      <4> QED
        BY <4>1, <4>3, <2>1 DEF Hold
    <3>11. CASE EvaluateLink(r)
      <4>1. request[r] \in [pc : {"link", "confirm", "update"}, pair : Pairs,
                            status : LinkStatus]
        BY <3>11 DEF EvaluateLink, TypeOK, Tables, Request, Idle
      <4>2. Due([request[r] EXCEPT !.pc = "update"])
        BY <3>11, <4>1 DEF EvaluateLink, Pending
      <4> QED
        BY <3>11, <4>2, <2>1 DEF EvaluateLink, Hold, Answer, Idle
    <3>12. CASE UpdateLink(r)
      BY <3>12, <2>1 DEF UpdateLink, Answer, Idle
    <3>13. CASE Abandon(r)
      BY <3>13, <2>1 DEF Abandon, Answer, Idle
    <3> QED
      BY <1>2, <3>1, <3>3, <3>4, <3>5, <3>6, <3>7, <3>8, <3>9, <3>10, <3>11, <3>12, <3>13
      DEF SplitStep, TransferStep
  <2>2. ASSUME NEW o \in Requests PROVE Due(request'[o])
    BY <2>1, <2>2 DEF Pending, TypeOK, Tables
  <2> QED
    BY <2>2 DEF Pending, Opposite
<1> QED
  BY <1>1, <1>2 DEF Next

------------------------------------------------------------------------------
(* The theorems.                                                           *)

\* Without links the invariant of transfers holds.
LEMMA Start == Init => TransferInv
<1> SUFFICES ASSUME Init PROVE TransferInv
  OBVIOUS
<1>1. TypeOK
  BY SplitAssumption DEF Init, TypeOK, Tables, LinkStatus, Request
<1>2. Pending /\ LinksOpposite /\ Unique
  BY DEF Init, Pending, LinksOpposite, Unique, Confirmed, Idle
<1> QED
  BY <1>1, <1>2 DEF TransferInv

\* Every step keeps the invariant of transfers.
LEMMA Inductive == TransferInv /\ [Next]_vars => TransferInv'
<1> SUFFICES ASSUME TransferInv, [Next]_vars PROVE TransferInv'
  OBVIOUS
<1>1. TypeOK' /\ Pending' /\ LinkStep
  BY TypeStep, PendingStep, LinkChange
<1>2. LinksOpposite'
  BY <1>1 DEF LinkStep, LinksOpposite, Opposite, TransferInv, TypeOK, Tables
<1>3. Unique'
  <2>1. CASE UNCHANGED link
    BY <2>1 DEF TransferInv, Unique, Confirmed
  <2>2. ASSUME NEW p \in Pairs, NEW s \in LinkStatus, link' = [link EXCEPT ![p] = s],
               s = "confirmed" => SidesFree(p)
        PROVE  Unique'
    <3>1. Confirmed' \subseteq Confirmed \union {p}
      BY <2>2 DEF Confirmed, TransferInv, TypeOK, Tables
    <3>2. p \in Confirmed' => SidesFree(p)
      BY <2>2 DEF Confirmed, TransferInv, TypeOK, Tables
    <3> QED
      BY <3>1, <3>2 DEF Unique, SidesFree, TransferInv
  <2> QED
    BY <1>1, <2>1, <2>2 DEF LinkStep
<1> QED
  BY <1>1, <1>2, <1>3 DEF TransferInv

\* The invariant holds in every behaviour.
THEOREM TransferInvariant == Spec => []TransferInv
  BY Start, Inductive, PTL DEF Spec

\* A transaction is a side of at most one confirmed transfer: on one side by the
\* indexes, and on both because no transaction is a debit and a credit.
THEOREM TransferConfirmedOnce == Spec => []OneConfirmedTransfer
<1>1. TransferInv => OneConfirmedTransfer
  <2> SUFFICES ASSUME TransferInv, NEW p \in Confirmed, NEW q \in Confirmed,
                      NEW i \in {1, 2}, NEW j \in {1, 2}, p[i] = q[j]
               PROVE  p = q
    BY DEF OneConfirmedTransfer
  <2>1. Opposite(p) /\ Opposite(q)
    BY DEF TransferInv, LinksOpposite, Confirmed
  <2>2. p[1] # q[2] /\ p[2] # q[1]
    BY <2>1 DEF Opposite
  <2> QED
    BY <2>2 DEF TransferInv, Unique
<1> QED
  BY <1>1, TransferInvariant, PTL

\* What the user answered about a pair of transactions is not suggested again.
THEOREM TransferAnswersKept == Spec => AnswerIsRemembered
<1> DEFINE Kept == \A p \in Pairs : link[p] \in {"confirmed", "rejected", "unlinked"}
                      => link'[p] \in {"confirmed", "rejected", "unlinked"}
<1>1. TransferInv /\ [Next]_vars => [Kept]_vars
  BY LinkChange DEF LinkStep, TransferInv, TypeOK, Tables, LinkStatus
<1> QED
  BY <1>1, TransferInvariant, PTL DEF Spec, AnswerIsRemembered

------------------------------------------------------------------------------
(* Splits.  A replacement archives the splits it sees and inserts its own  *)
(* later; what another inserted in between stays, but only as a whole.     *)

InFlight(r) == request[r].pc = "insert"

\* The splits of a transaction are at different positions, and those of each
\* request are all there.
Whole ==
    \A t \in Transactions :
       /\ UniquePositions(split[t])
       /\ \A s \in split[t] : Total(SharesOf(StoredBy(t, s.id))) = Amount[t]

\* Nothing in the tables or read from them is of a replacement in flight.
Fresh ==
    /\ \A t \in Transactions : \A s \in split[t] : s.id <= begun
    /\ \A r \in Requests : InFlight(r) =>
          /\ request[r].id <= begun
          /\ \A s \in request[r].old : s.id <= begun
          /\ \A o \in Requests \ {r} : InFlight(o) => request[o].id # request[r].id
          /\ \A t \in Transactions : \A s \in split[t] : s.id # request[r].id
          /\ \A o \in Requests : InFlight(o) => \A s \in request[o].old : s.id # request[r].id

\* What a replacement is about to store adds up, and it archived all the splits of
\* another request or none.
Ready(q, rows) ==
    /\ Total(q.shares) = Amount[q.tx]
    /\ \A s \in rows : \A x \in q.old : s.id = x.id => s \in q.old

Prepared == \A r \in Requests : InFlight(r) => Ready(request[r], split[request[r].tx])

SplitInv == TransferInv /\ Whole /\ Fresh /\ Prepared

\* The rows that a replacement stores.
NewRows(q) == {[position |-> s.position, amount |-> s.amount, id |-> q.id] : s \in q.shares}

\* What they say are the shares of the request.
LEMMA Stored ==
    ASSUME TypeOK, NEW r \in Requests, CommitReplace(r)
    PROVE  LET q == request[r]
               rows == (split[q.tx] \ q.old) \union NewRows(q)
           IN /\ q.tx \in Transactions /\ InFlight(r)
              /\ \/ UNCHANGED split
                 \/ UniquePositions(rows) /\ split' = [split EXCEPT ![q.tx] = rows]
              /\ SharesOf(NewRows(q)) = q.shares
              /\ \A s \in NewRows(q) : s.id = q.id
<1> DEFINE q == request[r]
           new == NewRows(q)
<1>1. InFlight(r) /\ q.tx \in Transactions /\ q.shares \in SUBSET Share
  BY Kinds DEF CommitReplace, InFlight
<1>2. SharesOf(new) = q.shares
  <2>1. ASSUME NEW s \in q.shares
        PROVE  [position |-> s.position, amount |-> s.amount] = s
    BY <1>1 DEF Share
  <2>2. ASSUME NEW s \in q.shares
        PROVE  s \in SharesOf(new)
    <3> DEFINE row == [position |-> s.position, amount |-> s.amount, id |-> q.id]
    <3>1. row \in new
      BY DEF NewRows
    <3>2. [position |-> row.position, amount |-> row.amount] \in SharesOf(new)
      BY <3>1 DEF SharesOf
    <3> QED
      BY <2>1, <3>2
  <2>3. ASSUME NEW x \in SharesOf(new)
        PROVE  x \in q.shares
    <3>1. PICK row \in new : x = [position |-> row.position, amount |-> row.amount]
      BY DEF SharesOf
    <3>2. PICK s \in q.shares :
            row = [position |-> s.position, amount |-> s.amount, id |-> q.id]
      BY <3>1 DEF NewRows
    <3> QED
      BY <2>1, <3>1, <3>2
  <2> QED
    BY <2>2, <2>3
<1>3. \A s \in new : s.id = q.id
  BY DEF NewRows
<1>4. \/ UNCHANGED split
      \/ /\ UniquePositions((split[q.tx] \ q.old) \union new)
         /\ split' = [split EXCEPT ![q.tx] = (split[q.tx] \ q.old) \union new]
  BY DEF CommitReplace, NewRows
<1> QED
  BY <1>1, <1>2, <1>3, <1>4

\* A step of a request leaves the others' as they are; only a replacement that
\* begins holds splits afterwards.
LEMMA Held ==
    ASSUME SplitInv, NEW r \in Requests, SplitStep(r) \/ TransferStep(r) \/ Abandon(r)
    PROVE  /\ \A o \in Requests \ {r} : request'[o] = request[o]
           /\ begun' >= begun /\ begun \in Nat
           /\ \/ request'[r] = request[r]
              \/ request'[r].pc # "insert"
              \/ BeginReplace(r)
<1> USE DEF SplitInv, TransferInv, TypeOK, Tables
<1>1. begun \in Nat /\ request \in [Requests -> Request]
  BY SplitAssumption
<1>2. CASE BeginReplace(r)
  <2>1. PICK q : request' = [request EXCEPT ![r] = q]
    BY <1>2 DEF BeginReplace, Hold
  <2>2. begun' = begun + 1
    BY <1>2 DEF BeginReplace, Begin
  <2> QED
    BY <1>1, <1>2, <2>1, <2>2
<1>4. CASE CommitReplace(r) \/ Abandon(r) \/ RemoveSplits(r)
  BY <1>1, <1>4 DEF CommitReplace, Abandon, RemoveSplits, Begin, Answer, Idle
<1>5. CASE ReadCandidates(r) \/ ReadManual(r) \/ ReadLink(r)
  BY <1>1, <1>5 DEF ReadCandidates, ReadManual, ReadLink, Begin, Hold
<1>6. CASE ReadPairs(r) \/ InsertSuggestion(r)
  <2>1. PICK q : request' = [request EXCEPT ![r] = q] /\ q.pc \in {"idle", "suggest"}
    BY <1>6 DEF ReadPairs, InsertSuggestion, Hold, Answer, Idle
  <2>2. begun' = begun
    BY <1>6 DEF ReadPairs, InsertSuggestion
  <2>3. request'[r] = q /\ \A o \in Requests \ {r} : request'[o] = request[o]
    BY <1>1, <2>1
  <2>4. q.pc # "insert"
    BY <2>1
  <2> QED
    BY <1>1, <2>2, <2>3, <2>4
<1>7. CASE InsertManual(r) \/ UpdateLink(r) \/ EvaluateLink(r)
  <2>1. request[r].pc = "confirm" =>
          request[r] \in [pc : {"link", "confirm", "update"}, pair : Pairs, status : LinkStatus]
    BY <1>1 DEF Request, Idle
  <2>2. PICK q : request' = [request EXCEPT ![r] = q] /\ q.pc \in {"idle", "update"}
    BY <1>7, <2>1 DEF InsertManual, UpdateLink, EvaluateLink, Hold, Answer, Idle
  <2> QED
    BY <1>1, <1>7, <2>2 DEF InsertManual, UpdateLink, EvaluateLink
<1> QED
  BY <1>2, <1>4, <1>5, <1>6, <1>7 DEF SplitStep, TransferStep

\* What a replacement that begins holds: a new id, a set that adds up, and the
\* splits of this moment.
LEMMA Begun ==
    ASSUME TypeOK, NEW r \in Requests, BeginReplace(r)
    PROVE  LET q == request'[r]
           IN /\ q.pc = "insert" /\ q.id = begun + 1 /\ begun' = begun + 1
              /\ q.tx \in Transactions /\ q.old = split[q.tx] /\ split' = split
              /\ Total(q.shares) = Amount[q.tx]
<1>1. PICK t \in Transactions : \E shares \in Asked(t) :
        /\ ValidSplitSet(t, shares)
        /\ Hold(r, [pc |-> "insert", tx |-> t, shares |-> shares, id |-> begun + 1,
                    old |-> split[t]])
  BY ReplaceAsked
<1>2. PICK shares \in Asked(t) :
        /\ ValidSplitSet(t, shares)
        /\ Hold(r, [pc |-> "insert", tx |-> t, shares |-> shares, id |-> begun + 1,
                    old |-> split[t]])
  BY <1>1
<1>3. request'[r] = [pc |-> "insert", tx |-> t, shares |-> shares, id |-> begun + 1,
                     old |-> split[t]]
  BY <1>2 DEF Hold, TypeOK
<1>4. Total(shares) = Amount[t]
  BY <1>2 DEF ValidSplitSet
<1> QED
  BY <1>3, <1>4 DEF BeginReplace, Begin

\* The splits of the next state are old ones, or those of the request.
LEMMA Rows ==
    ASSUME SplitInv, NEW r \in Requests, SplitStep(r) \/ TransferStep(r) \/ Abandon(r),
           NEW t \in Transactions, NEW s \in split'[t]
    PROVE  \/ s \in split[t]
           \/ CommitReplace(r) /\ InFlight(r) /\ s.id = request[r].id
<1> USE DEF SplitInv, TransferInv, TypeOK, Tables
<1>1. CASE CommitReplace(r)
  <2> DEFINE q == request[r]
             rows == (split[q.tx] \ q.old) \union NewRows(q)
  <2>1. /\ q.tx \in Transactions /\ InFlight(r)
        /\ UNCHANGED split \/ split' = [split EXCEPT ![q.tx] = rows]
        /\ \A n \in NewRows(q) : n.id = q.id
    BY <1>1, Stored
  <2>2. s \in split[t] \/ s \in NewRows(q)
    BY <2>1
  <2> QED
    BY <1>1, <2>1, <2>2
<1>2. CASE RemoveSplits(r)
  BY <1>2 DEF RemoveSplits
<1>3. CASE BeginReplace(r) \/ TransferStep(r) \/ Abandon(r)
  BY <1>3 DEF BeginReplace, TransferStep, ReadCandidates, ReadPairs,
              InsertSuggestion, ReadManual, InsertManual, ReadLink, EvaluateLink,
              UpdateLink, Abandon
<1> QED
  BY <1>1, <1>2, <1>3 DEF SplitStep

\* The sets stay whole: what a replacement leaves of another request is all it had.
LEMMA WholeStep ==
    ASSUME SplitInv, NEW r \in Requests, SplitStep(r) \/ TransferStep(r) \/ Abandon(r)
    PROVE  Whole'
<1> USE DEF SplitInv, TransferInv, TypeOK, Tables
<1>1. CASE UNCHANGED split
  BY <1>1 DEF Whole, UniquePositions, SharesOf, StoredBy
<1>2. CASE RemoveSplits(r)
  BY <1>2 DEF RemoveSplits, Whole, UniquePositions, SharesOf, StoredBy
<1>3. CASE CommitReplace(r) /\ ~ UNCHANGED split
  <2> DEFINE q == request[r]
             new == NewRows(q)
             rows == (split[q.tx] \ q.old) \union new
  <2>1. /\ q.tx \in Transactions /\ InFlight(r)
        /\ UniquePositions(rows) /\ split' = [split EXCEPT ![q.tx] = rows]
        /\ SharesOf(new) = q.shares
        /\ \A s \in new : s.id = q.id
    BY <1>3, Stored
  <2>2. Ready(q, split[q.tx]) /\ \A s \in split[q.tx] : s.id # q.id
    BY <2>1 DEF Prepared, Fresh
  <2>0. PICK tx \in Transactions : tx = q.tx
    BY <2>1
  <2>3. ASSUME NEW t \in Transactions, t # tx
        PROVE  /\ UniquePositions(split'[t])
               /\ \A s \in split'[t] : Total(SharesOf(StoredBy(t, s.id)')) = Amount[t]
    <3>1. split'[t] = split[t]
      BY <2>0, <2>1, <2>3
    <3>2. \A s \in split'[t] : StoredBy(t, s.id)' = StoredBy(t, s.id)
      BY <3>1 DEF StoredBy
    <3> QED
      BY <3>1, <3>2 DEF Whole
  <2>4. split'[tx] = rows
    BY <2>0, <2>1
  <2>5. ASSUME NEW s \in new
        PROVE  Total(SharesOf(StoredBy(tx, s.id)')) = Amount[tx]
    <3>1. s.id = q.id
      BY <2>1
    <3>2. {x \in rows : x.id = s.id} = new
      BY <2>1, <2>2, <3>1
    <3>3. StoredBy(tx, s.id)' = new
      BY <2>4, <3>2 DEF StoredBy
    <3> QED
      BY <2>0, <2>1, <2>2, <3>3 DEF Ready
  <2>6. ASSUME NEW s \in split[q.tx] \ q.old
        PROVE  Total(SharesOf(StoredBy(tx, s.id)')) = Amount[tx]
    <3>1. {x \in rows : x.id = s.id} = {x \in split[tx] : x.id = s.id}
      BY <2>0, <2>1, <2>2, <2>6 DEF Ready
    <3>2. StoredBy(tx, s.id)' = StoredBy(tx, s.id)
      BY <2>4, <3>1 DEF StoredBy
    <3> QED
      BY <2>0, <2>6, <3>2 DEF Whole
  <2>7. \A s \in split'[tx] : Total(SharesOf(StoredBy(tx, s.id)')) = Amount[tx]
    BY <2>4, <2>5, <2>6
  <2>8. \A t \in Transactions :
          /\ UniquePositions(split'[t])
          /\ \A s \in split'[t] : Total(SharesOf(StoredBy(t, s.id)')) = Amount[t]
    BY <2>1, <2>3, <2>4, <2>7
  <2> QED
    BY <2>8 DEF Whole, UniquePositions, SharesOf, StoredBy
<1>4. CASE BeginReplace(r) \/ TransferStep(r) \/ Abandon(r)
  BY <1>1, <1>4 DEF BeginReplace, TransferStep, ReadCandidates, ReadPairs,
              InsertSuggestion, ReadManual, InsertManual, ReadLink, EvaluateLink,
              UpdateLink, Abandon
<1> QED
  BY <1>1, <1>2, <1>3, <1>4 DEF SplitStep

\* A new id is larger than every other, and what a replacement archives has the
\* ids of the table.
LEMMA FreshStep ==
    ASSUME SplitInv, NEW r \in Requests, SplitStep(r) \/ TransferStep(r) \/ Abandon(r)
    PROVE  Fresh'
<1> USE DEF SplitInv
<1>0. /\ \A o \in Requests \ {r} : request'[o] = request[o]
      /\ begun' >= begun /\ begun \in Nat
      /\ \/ request'[r] = request[r]
         \/ request'[r].pc # "insert"
         \/ BeginReplace(r)
  BY Held
<1>t. /\ begun' \in Nat
      /\ \A t \in Transactions : \A s \in split[t] : s.id \in Nat
      /\ \A o \in Requests : InFlight(o) =>
            request[o].id \in Nat /\ \A s \in request[o].old : s.id \in Nat
  <2>1. \A s \in Split : s.id \in Nat
    BY DEF Split
  <2>2. \A o \in Requests : InFlight(o) => request[o].id \in Nat /\ request[o].old \in SUBSET Split
    BY Kinds DEF InFlight, TransferInv
  <2>3. split \in [Transactions -> SUBSET Split]
    BY DEF TransferInv, TypeOK, Tables
  <2>4. begun' \in Nat
    BY TypeStep, SplitAssumption DEF TransferInv, TypeOK, Next
  <2> QED
    BY <2>1, <2>2, <2>3, <2>4
<1>s. \A t \in Transactions : \A s \in split'[t] :
        s \in split[t] \/ (CommitReplace(r) /\ InFlight(r) /\ s.id = request[r].id)
  BY Rows
<1>b. BeginReplace(r) =>
        /\ request'[r].id = begun + 1 /\ begun' = begun + 1 /\ split' = split
        /\ request'[r].tx \in Transactions /\ request'[r].old = split[request'[r].tx]
  BY Begun DEF TransferInv
<1>c. CommitReplace(r) => ~ InFlight(r)'
  BY DEF CommitReplace, Answer, Idle, InFlight, TransferInv, TypeOK
\* What is in flight was so before, or is a replacement that begins.
<1>i. \A o \in Requests : InFlight(o)' =>
        \/ InFlight(o) /\ request'[o] = request[o]
        \/ o = r /\ BeginReplace(r)
  BY <1>0 DEF InFlight
<1>o. \A o \in Requests : InFlight(o)' => \A s \in request'[o].old :
        \/ InFlight(o) /\ s \in request[o].old
        \/ \E t \in Transactions : s \in split[t]
  BY <1>i, <1>b
<1>1. \A t \in Transactions : \A s \in split'[t] : s.id <= begun'
  BY <1>0, <1>t, <1>s DEF Fresh
<1>3. ASSUME NEW o \in Requests, InFlight(o)'
      PROVE  /\ request'[o].id <= begun'
             /\ \A s \in request'[o].old : s.id <= begun'
             /\ \A p \in Requests \ {o} : InFlight(p)' => request'[p].id # request'[o].id
             /\ \A t \in Transactions : \A s \in split'[t] : s.id # request'[o].id
             /\ \A p \in Requests : InFlight(p)' =>
                   \A s \in request'[p].old : s.id # request'[o].id
  <2>0. \A s \in request'[o].old : s.id <= begun'
    BY <1>0, <1>t, <1>o, <1>3 DEF Fresh
  <2>1. CASE InFlight(o) /\ request'[o] = request[o]
    <3>1. request'[o].id <= begun'
      BY <1>0, <1>t, <2>1 DEF Fresh
    <3>2. \A p \in Requests \ {o} : InFlight(p)' => request'[p].id # request'[o].id
      BY <1>0, <1>t, <1>i, <1>b, <2>1 DEF Fresh
    <3>3. \A t \in Transactions : \A s \in split'[t] : s.id # request'[o].id
      <4>1. CommitReplace(r) => o # r
        BY <1>3, <1>c
      <4> QED
        BY <1>s, <2>1, <4>1 DEF Fresh
    <3>4. \A p \in Requests : InFlight(p)' =>
             \A s \in request'[p].old : s.id # request'[o].id
      BY <1>o, <2>1 DEF Fresh
    <3> QED
      BY <2>0, <3>1, <3>2, <3>3, <3>4
  <2>2. CASE o = r /\ BeginReplace(r)
    <3>1. request'[o].id <= begun'
      BY <1>0, <1>b, <2>2
    <3>2. \A p \in Requests \ {o} : InFlight(p)' => request'[p].id # request'[o].id
      BY <1>0, <1>t, <1>i, <1>b, <2>2 DEF Fresh
    <3>4. \A t \in Transactions : \A s \in split'[t] : s.id # request'[o].id
      BY <1>0, <1>t, <1>b, <2>2 DEF Fresh
    <3>5. \A p \in Requests : InFlight(p)' =>
             \A s \in request'[p].old : s.id # request'[o].id
      BY <1>0, <1>t, <1>o, <1>b, <2>2 DEF Fresh
    <3> QED
      BY <2>0, <3>1, <3>2, <3>4, <3>5
  <2> QED
    BY <1>3, <1>i, <2>1, <2>2
<1> QED
  BY <1>1, <1>3 DEF Fresh, InFlight

\* What a replacement is about to store adds up, and it still has archived all or
\* none of what each request stored.
LEMMA PreparedStep ==
    ASSUME SplitInv, NEW r \in Requests, SplitStep(r) \/ TransferStep(r) \/ Abandon(r)
    PROVE  Prepared'
<1> USE DEF SplitInv
<1>0. /\ \A o \in Requests \ {r} : request'[o] = request[o]
      /\ \/ request'[r] = request[r]
         \/ request'[r].pc # "insert"
         \/ BeginReplace(r)
  BY Held
<1>1. ASSUME NEW o \in Requests, InFlight(o), request'[o] = request[o]
      PROVE  Ready(request'[o], split'[request'[o].tx])
  <2> DEFINE q == request[o]
  <2>1. q.tx \in Transactions
    BY <1>1, Kinds DEF InFlight, TransferInv
  <2>2. ASSUME NEW s \in split'[q.tx], NEW x \in q.old, s.id = x.id
        PROVE  s \in q.old
    <3>1. s \in split[q.tx] \/ (InFlight(r) /\ s.id = request[r].id)
      BY <2>1, Rows
    <3>2. InFlight(r) => x.id # request[r].id
      BY <1>1 DEF Fresh
    <3> QED
      BY <1>1, <2>2, <3>1, <3>2 DEF Prepared, Ready
  <2>3. Total(q.shares) = Amount[q.tx]
    BY <1>1 DEF Prepared, Ready
  <2> QED
    BY <1>1, <2>2, <2>3 DEF Ready
<1>2. ASSUME BeginReplace(r)
      PROVE  Ready(request'[r], split'[request'[r].tx])
  BY <1>2, Begun DEF Ready, TransferInv
<1>3. ASSUME NEW o \in Requests, InFlight(o)'
      PROVE  Ready(request'[o], split'[request'[o].tx])
  <2>1. (InFlight(o) /\ request'[o] = request[o]) \/ (o = r /\ BeginReplace(r))
    BY <1>0, <1>3 DEF InFlight
  <2> QED
    BY <1>1, <1>2, <2>1
<1> QED
  BY <1>3 DEF Prepared, InFlight, Ready

\* Without splits the invariant of splits holds.
LEMMA SplitStart == Init => SplitInv
<1> SUFFICES ASSUME Init PROVE SplitInv
  OBVIOUS
<1>1. TransferInv
  BY Start
<1>2. Whole /\ Fresh /\ Prepared
  BY DEF Init, Whole, Fresh, Prepared, InFlight, Idle, UniquePositions
<1> QED
  BY <1>1, <1>2 DEF SplitInv

\* Every step keeps the invariant of splits.
LEMMA SplitInductive == SplitInv /\ [Next]_vars => SplitInv'
<1> SUFFICES ASSUME SplitInv, [Next]_vars PROVE SplitInv'
  OBVIOUS
<1>1. TransferInv'
  BY Inductive DEF SplitInv
<1>2. CASE UNCHANGED vars
  <2>1. split' = split /\ request' = request /\ begun' = begun
    BY <1>2 DEF vars
  <2>2. Whole'
    BY <2>1 DEF SplitInv, Whole, UniquePositions, SharesOf, StoredBy
  <2>3. Fresh'
    BY <2>1 DEF SplitInv, Fresh, InFlight
  <2>4. Prepared'
    BY <2>1 DEF SplitInv, Prepared, InFlight, Ready
  <2> QED
    BY <1>1, <2>2, <2>3, <2>4 DEF SplitInv
<1>3. ASSUME NEW r \in Requests, SplitStep(r) \/ TransferStep(r) \/ Abandon(r)
      PROVE  Whole' /\ Fresh' /\ Prepared'
  BY <1>3, WholeStep, FreshStep, PreparedStep
<1> QED
  BY <1>1, <1>2, <1>3 DEF Next, SplitInv

\* However many replacements are under way, and whatever positions they choose, the
\* splits of a transaction are at different positions, each request's are all there
\* and add up to its amount, and where every set has a split at position 0 they are
\* one set (replaceTransactionSplits).
THEOREM SplitsAreWhole == Spec => []SplitsWhole
<1>1. ASSUME SplitInv PROVE SplitsWhole
  <2>1. Tables
    BY <1>1 DEF SplitInv, TransferInv, TypeOK
  <2>2. ASSUME NEW t \in Transactions
        PROVE  /\ \A s1, s2 \in split[t] : s1.position = s2.position => s1 = s2
               /\ \A s \in split[t] : Total(SharesOf(StoredBy(t, s.id))) = Amount[t]
    BY <1>1 DEF SplitInv, Whole, UniquePositions
  <2>3. ASSUME NEW t \in Transactions,
               \A s \in split[t] : \E z \in StoredBy(t, s.id) : z.position = 0,
               NEW s1 \in split[t], NEW s2 \in split[t]
        PROVE  s1.id = s2.id
    <3>1. PICK z1 \in StoredBy(t, s1.id) : z1.position = 0
      BY <2>3
    <3>2. PICK z2 \in StoredBy(t, s2.id) : z2.position = 0
      BY <2>3
    <3>3. z1 = z2
      BY <2>2, <3>1, <3>2 DEF StoredBy
    <3> QED
      BY <3>1, <3>2, <3>3 DEF StoredBy
  <2> QED
    BY <2>1, <2>2, <2>3 DEF SplitsWhole
<1> QED
  BY <1>1, SplitStart, SplitInductive, PTL DEF Spec

------------------------------------------------------------------------------
(* Merchants.                                                              *)

\* merchants_merge_state_consistent, as the table satisfies it.
StatesConsistent == \A m \in Merchants : merchant[m].status = "merged" <=> merchant[m].into # None

\* A snapshot remembers one origin for each transaction.
OneOrigin(txs) == \A p, q \in txs : p.tx = q.tx => p = q

Snapshots ==
    /\ \A i \in DOMAIN merges : OneOrigin(merges[i].txs)
    /\ \A r \in Requests : request[r].pc = "move" => OneOrigin(request[r].txs)

\* The merge that a request is about to undo is one of its merchant.
Due ==
    \A r \in Requests : request[r].pc = "unmerge" =>
       request[r].event \in DOMAIN merges /\ merges[request[r].event].source = request[r].source

\* The last committed merge of a merged merchant that was not undone.
Leads(m) ==
    \E i \in Open(m) : (\A j \in Open(m) : j <= i) /\ merges[i].target = merchant[m].into

MergeInv ==
    /\ MerchantTypeOK /\ StatesConsistent /\ Snapshots /\ Due
    /\ \A m \in Merchants : merchant[m].status = "merged" => Leads(m)

------------------------------------------------------------------------------
(* Types.                                                                  *)

\* A request is one of the records of MerchantRequest.
LEMMA MerchantKinds ==
    ASSUME MerchantTypeOK, NEW r \in Requests
    PROVE  LET q == request[r]
           IN /\ q.pc = "assign" =>
                    q.tx \in Payments /\ q.merchant \in Merchants \union {None}
              /\ q.pc = "status" =>
                    q.merchant \in Merchants /\ q.status \in {"active", "archived"}
              /\ q.pc = "newAlias" => q.row \in Alias
              /\ q.pc \in {"editAlias", "actAlias"} => q.alias \in Aliases /\ q.row \in Alias
              /\ q.pc \in {"snapshot", "move"} =>
                    q.source \in Merchants /\ q.target \in Merchants /\ q.before \in Statuses
              /\ q.pc = "move" => /\ q.txs \in SUBSET Remembered /\ q.aliases \in SUBSET Aliases
                                 /\ q.at \in 1..MaxRequests
              /\ q.pc = "unmerge" => q.source \in Merchants /\ q.event \in Nat
              /\ q.pc \in {"apply", "historical"} => q.matches \in SUBSET Match
<1> DEFINE q == request[r]
<1>1. q \in MerchantRequest
  BY DEF MerchantTypeOK, MerchantTables
<1>2. CASE q = Idle
  BY <1>2 DEF Idle
<1>3. CASE q \in [pc : {"assign"}, tx : Payments, merchant : Merchants \union {None}]
  BY <1>3
<1>4. CASE q \in [pc : {"status"}, merchant : Merchants, status : {"active", "archived"}]
  BY <1>4
<1>5. CASE q \in [pc : {"newAlias"}, row : Alias]
  BY <1>5
<1>6. CASE q \in [pc : {"editAlias", "actAlias"}, alias : Aliases, row : Alias]
  BY <1>6
<1>7. CASE q \in [pc : {"snapshot"}, source : Merchants, target : Merchants, before : Statuses]
  BY <1>7
<1>8. CASE q \in [pc : {"move"}, source : Merchants, target : Merchants, before : Statuses,
                  txs : SUBSET Remembered, aliases : SUBSET Aliases, at : 1..MaxRequests]
  BY <1>8
<1>9. CASE q \in [pc : {"unmerge"}, source : Merchants, event : Nat]
  BY <1>9
<1>10. CASE q \in [pc : {"apply", "historical"}, matches : SUBSET Match]
  BY <1>10
<1> QED
  BY <1>1, <1>2, <1>3, <1>4, <1>5, <1>6, <1>7, <1>8, <1>9, <1>10 DEF MerchantRequest

\* A request holds what it read.
LEMMA MerchantHoldType ==
    ASSUME MerchantTypeOK, NEW r \in Requests, NEW what \in MerchantRequest, Hold(r, what)
    PROVE  request' \in [Requests -> MerchantRequest]
  BY DEF MerchantTypeOK, MerchantTables, Hold

\* A request that answers is idle again.
LEMMA MerchantAnswerType ==
    ASSUME MerchantTypeOK, NEW r \in Requests, Answer(r)
    PROVE  request' \in [Requests -> MerchantRequest]
  BY DEF MerchantTypeOK, MerchantTables, Answer, MerchantRequest

\* The count of requests stays within its bound.
LEMMA MerchantBegunType ==
    ASSUME MerchantTypeOK, NEW r \in Requests, Begin(r)
    PROVE  begun' \in 0..MaxRequests
  BY MerchantAssumption DEF MerchantTypeOK, MerchantTables, Begin

\* A merchant that somebody assigned has a source.
LEMMA AssignmentParts ==
    ASSUME MerchantTypeOK, NEW t \in Payments, assigned[t].merchant \in Merchants
    PROVE  assigned[t].source \in Sources
  BY MerchantAssumption DEF MerchantTypeOK, MerchantTables, Assignment

\* An assignment is a merchant and where it comes from.
LEMMA AssignmentMade ==
    ASSUME NEW m \in Merchants, NEW s \in Sources
    PROVE  [merchant |-> m, source |-> s] \in Assignment
  BY MerchantAssumption DEF Assignment

\* Assignments by hand, and edits of merchants, keep the types.
LEMMA MerchantTypes ==
    ASSUME MerchantTypeOK, NEW r \in Requests,
           \/ ReadAssign(r) \/ WriteAssign(r) \/ CreateMerchant(r) \/ UpdateMerchant(r)
           \/ ReadStatus(r) \/ WriteStatus(r)
    PROVE  MerchantTypeOK'
<1>1. CASE ReadAssign(r)
  <2>1. PICK t \in Payments, m \in Merchants \union {None} :
          Hold(r, [pc |-> "assign", tx |-> t, merchant |-> m])
    BY <1>1 DEF ReadAssign
  <2>2. [pc |-> "assign", tx |-> t, merchant |-> m] \in MerchantRequest
    BY DEF MerchantRequest
  <2> QED
    BY <1>1, <2>1, <2>2, MerchantHoldType, MerchantBegunType
    DEF ReadAssign, MerchantTypeOK, MerchantTables
<1>2. CASE WriteAssign(r)
  <2>1. request[r].tx \in Payments /\ request[r].merchant \in Merchants \union {None}
    BY <1>2, MerchantKinds DEF WriteAssign
  <2>2. [merchant |-> request[r].merchant, source |-> HandSource(request[r].merchant)]
          \in Assignment
    BY <2>1, MerchantAssumption DEF HandSource, Assignment, Sources
  <2>3. assigned' \in [Payments -> Assignment]
    BY <1>2, <2>1, <2>2 DEF WriteAssign, MerchantTypeOK, MerchantTables
  <2> QED
    BY <1>2, <2>3, MerchantAnswerType DEF WriteAssign, assignFrame, MerchantTypeOK, MerchantTables
<1>3. CASE CreateMerchant(r)
  <2>1. PICK m \in Merchants, n \in Names :
          merchant' = [merchant EXCEPT ![m] =
             [status |-> "active", name |-> n, into |-> None, filed |-> FALSE]]
    BY <1>3 DEF CreateMerchant
  <2>2. [status |-> "active", name |-> n, into |-> None, filed |-> FALSE] \in Merchant
    BY DEF Merchant, Statuses
  <2>3. merchant' \in [Merchants -> Merchant]
    BY <2>1, <2>2 DEF MerchantTypeOK, MerchantTables
  <2> QED
    BY <1>3, <2>3, MerchantBegunType
    DEF CreateMerchant, merchantFrame, MerchantTypeOK, MerchantTables
<1>4. CASE UpdateMerchant(r)
  <2>1. PICK m \in Merchants, n \in Names : merchant' = [merchant EXCEPT ![m].name = n]
    BY <1>4 DEF UpdateMerchant
  <2>2. merchant' \in [Merchants -> Merchant]
    BY <2>1 DEF MerchantTypeOK, MerchantTables, Merchant
  <2> QED
    BY <1>4, <2>2, MerchantBegunType
    DEF UpdateMerchant, merchantFrame, MerchantTypeOK, MerchantTables
<1>5. CASE ReadStatus(r)
  <2>1. PICK m \in Merchants, s \in {"active", "archived"} :
          Hold(r, [pc |-> "status", merchant |-> m, status |-> s])
    BY <1>5 DEF ReadStatus
  <2>2. [pc |-> "status", merchant |-> m, status |-> s] \in MerchantRequest
    BY DEF MerchantRequest
  <2> QED
    BY <1>5, <2>1, <2>2, MerchantHoldType, MerchantBegunType
    DEF ReadStatus, MerchantTypeOK, MerchantTables
<1>6. CASE WriteStatus(r)
  <2>1. request[r].merchant \in Merchants /\ request[r].status \in {"active", "archived"}
    BY <1>6, MerchantKinds DEF WriteStatus
  <2>a. ASSUME NEW row \in Merchant, NEW s \in Statuses, NEW b \in BOOLEAN
        PROVE  [row EXCEPT !.status = s, !.filed = b] \in Merchant
    BY DEF Merchant
  <2>b. merchant[request[r].merchant] \in Merchant /\ request[r].status \in Statuses
    BY <2>1 DEF MerchantTypeOK, MerchantTables, Statuses
  <2>2. [merchant[request[r].merchant] EXCEPT !.status = request[r].status,
                                              !.filed = request[r].status = "archived"]
          \in Merchant
    BY <2>a, <2>b
  <2>3. merchant' \in [Merchants -> Merchant]
    BY <1>6, <2>1, <2>2 DEF WriteStatus, MerchantTypeOK, MerchantTables
  <2> QED
    BY <1>6, <2>3, MerchantAnswerType DEF WriteStatus, merchantFrame, MerchantTypeOK, MerchantTables
<1> QED
  BY <1>1, <1>2, <1>3, <1>4, <1>5, <1>6

\* So do the requests about aliases.
LEMMA AliasTypes ==
    ASSUME MerchantTypeOK, NEW r \in Requests,
           ReadNewAlias(r) \/ InsertAlias(r) \/ ReadAlias(r) \/ WriteAlias(r)
    PROVE  MerchantTypeOK'
<1>1. CASE ReadNewAlias(r)
  <2>1. PICK m \in Merchants, p \in Patterns, k \in Priorities, on \in BOOLEAN :
          Hold(r, [pc |-> "newAlias", row |->
             [merchant |-> m, pattern |-> p, priority |-> k, enabled |-> on,
              archived |-> FALSE]])
    BY <1>1 DEF ReadNewAlias
  <2>2. [merchant |-> m, pattern |-> p, priority |-> k, enabled |-> on, archived |-> FALSE]
          \in Alias
    BY DEF Alias
  <2>3. [pc |-> "newAlias", row |->
           [merchant |-> m, pattern |-> p, priority |-> k, enabled |-> on, archived |-> FALSE]]
          \in MerchantRequest
    BY <2>2 DEF MerchantRequest
  <2>4. request' \in [Requests -> MerchantRequest]
    BY <2>1, <2>3, MerchantHoldType
  <2> QED
    BY <1>1, <2>4, MerchantBegunType DEF ReadNewAlias, MerchantTypeOK, MerchantTables
<1>2. CASE InsertAlias(r)
  <2>1. request[r].row \in Alias
    BY <1>2, MerchantKinds DEF InsertAlias
  <2>2. alias' \in [Aliases -> Alias]
    BY <1>2, <2>1 DEF InsertAlias, MerchantTypeOK, MerchantTables
  <2> QED
    BY <1>2, <2>2, MerchantAnswerType DEF InsertAlias, aliasFrame, MerchantTypeOK, MerchantTables
<1>3. CASE ReadAlias(r)
  <2>1. PICK a \in Aliases :
          \/ \E p \in Patterns, k \in Priorities, on \in BOOLEAN :
                Hold(r, [pc |-> "editAlias", alias |-> a, row |->
                   [alias[a] EXCEPT !.pattern = p, !.priority = k, !.enabled = on]])
          \/ \E on, old \in BOOLEAN :
                Hold(r, [pc |-> "actAlias", alias |-> a, row |->
                   [alias[a] EXCEPT !.enabled = on, !.archived = old]])
    <3>1. PICK a \in Aliases :
            \/ \E p \in Patterns, k \in Priorities, on \in BOOLEAN :
                  Hold(r, [pc |-> "editAlias", alias |-> a, row |->
                     [alias[a] EXCEPT !.pattern = p, !.priority = k, !.enabled = on]])
            \/ \E act \in {[enabled |-> TRUE, archived |-> alias[a].archived],
                            [enabled |-> FALSE, archived |-> alias[a].archived],
                            [enabled |-> FALSE, archived |-> TRUE],
                            [enabled |-> alias[a].enabled, archived |-> FALSE]} :
                  Hold(r, [pc |-> "actAlias", alias |-> a, row |->
                     [alias[a] EXCEPT !.enabled = act.enabled, !.archived = act.archived]])
      BY <1>3 DEF ReadAlias
    <3>2. alias[a].enabled \in BOOLEAN /\ alias[a].archived \in BOOLEAN
      BY DEF MerchantTypeOK, MerchantTables, Alias
    <3>3. ASSUME NEW on \in BOOLEAN, NEW old \in BOOLEAN,
                 NEW act \in {[enabled |-> TRUE, archived |-> old],
                              [enabled |-> FALSE, archived |-> old],
                              [enabled |-> FALSE, archived |-> TRUE],
                              [enabled |-> on, archived |-> FALSE]}
          PROVE  \E x, y \in BOOLEAN : act.enabled = x /\ act.archived = y
      <4>1. CASE act = [enabled |-> TRUE, archived |-> old]
        BY <4>1
      <4>2. CASE act = [enabled |-> FALSE, archived |-> old]
        BY <4>2
      <4>3. CASE act = [enabled |-> FALSE, archived |-> TRUE]
        BY <4>3
      <4>4. CASE act = [enabled |-> on, archived |-> FALSE]
        BY <4>4
      <4> QED
        BY <4>1, <4>2, <4>3, <4>4
    <3>4. ASSUME NEW act \in {[enabled |-> TRUE, archived |-> alias[a].archived],
                              [enabled |-> FALSE, archived |-> alias[a].archived],
                              [enabled |-> FALSE, archived |-> TRUE],
                              [enabled |-> alias[a].enabled, archived |-> FALSE]},
                 Hold(r, [pc |-> "actAlias", alias |-> a, row |->
                    [alias[a] EXCEPT !.enabled = act.enabled, !.archived = act.archived]])
          PROVE  \E on, old \in BOOLEAN :
                    Hold(r, [pc |-> "actAlias", alias |-> a, row |->
                       [alias[a] EXCEPT !.enabled = on, !.archived = old]])
      <4>1. PICK x \in BOOLEAN, y \in BOOLEAN : act.enabled = x /\ act.archived = y
        BY <3>2, <3>3
      <4> QED
        BY <3>4, <4>1, Zenon
    <3> QED
      BY <3>1, <3>4, Zenon
  <2>2. ASSUME NEW p \in Patterns, NEW k \in Priorities, NEW on \in BOOLEAN
        PROVE  [pc |-> "editAlias", alias |-> a, row |->
                  [alias[a] EXCEPT !.pattern = p, !.priority = k, !.enabled = on]]
                 \in MerchantRequest
    <3>1. [alias[a] EXCEPT !.pattern = p, !.priority = k, !.enabled = on] \in Alias
      BY DEF MerchantTypeOK, MerchantTables, Alias
    <3> QED
      BY <3>1 DEF MerchantRequest
  <2>3. ASSUME NEW on \in BOOLEAN, NEW old \in BOOLEAN
        PROVE  [pc |-> "actAlias", alias |-> a, row |->
                  [alias[a] EXCEPT !.enabled = on, !.archived = old]] \in MerchantRequest
    <3>1. [alias[a] EXCEPT !.enabled = on, !.archived = old] \in Alias
      BY DEF MerchantTypeOK, MerchantTables, Alias
    <3> QED
      BY <3>1 DEF MerchantRequest
  <2>4. request' \in [Requests -> MerchantRequest]
    BY <2>1, <2>2, <2>3, MerchantHoldType
  <2> QED
    BY <1>3, <2>4, MerchantBegunType DEF ReadAlias, MerchantTypeOK, MerchantTables
<1>4. CASE WriteAlias(r)
  <2> DEFINE q == request[r]
  <2>1. q.alias \in Aliases /\ q.row \in Alias
    BY <1>4, MerchantKinds DEF WriteAlias
  <2>2. [alias EXCEPT ![q.alias].pattern = q.row.pattern, ![q.alias].priority = q.row.priority,
                      ![q.alias].enabled = q.row.enabled] \in [Aliases -> Alias]
    BY <2>1, ZenonT(30) DEF MerchantTypeOK, MerchantTables, Alias
  <2>3. [alias EXCEPT ![q.alias].enabled = q.row.enabled,
                      ![q.alias].archived = q.row.archived] \in [Aliases -> Alias]
    BY <2>1 DEF MerchantTypeOK, MerchantTables, Alias
  <2>4. alias' \in [Aliases -> Alias]
    BY <1>4, <2>2, <2>3 DEF WriteAlias, MerchantTypeOK, MerchantTables
  <2> QED
    BY <1>4, <2>4, MerchantAnswerType DEF WriteAlias, aliasFrame, MerchantTypeOK, MerchantTables
<1> QED
  BY <1>1, <1>2, <1>3, <1>4

\* So do merges, which give what they move to the target.
LEMMA MergeTypes ==
    ASSUME MerchantTypeOK, NEW r \in Requests, ReadMerge(r) \/ ReadSnapshot(r) \/ CommitMerge(r)
    PROVE  MerchantTypeOK'
<1>1. CASE ReadMerge(r)
  <2>1. PICK s \in Merchants, t \in Merchants :
          /\ merchant[s].status \in {"active", "archived"}
          /\ Hold(r, [pc |-> "snapshot", source |-> s, target |-> t,
                      before |-> merchant[s].status])
    BY <1>1 DEF ReadMerge
  <2>2. [pc |-> "snapshot", source |-> s, target |-> t, before |-> merchant[s].status]
          \in MerchantRequest
    BY <2>1 DEF MerchantRequest, Statuses
  <2> QED
    BY <1>1, <2>1, <2>2, MerchantHoldType, MerchantBegunType
    DEF ReadMerge, MerchantTypeOK, MerchantTables
<1>2. CASE ReadSnapshot(r)
  <2> DEFINE q == request[r]
             txs == {[tx |-> t, source |-> assigned[t].source] : t \in AssignedTo(q.source)}
             held(now) == [pc |-> "move", source |-> q.source, target |-> q.target,
                           before |-> q.before, txs |-> txs, aliases |-> AliasesOf(q.source),
                           at |-> now]
  <2>1. q.source \in Merchants /\ q.target \in Merchants /\ q.before \in Statuses
    BY <1>2, MerchantKinds DEF ReadSnapshot
  <2>2. txs \in SUBSET Remembered
    BY <2>1, AssignmentParts DEF AssignedTo, Remembered
  <2>3. AliasesOf(q.source) \in SUBSET Aliases
    BY DEF AliasesOf
  <2>4. \A now \in 1..MaxRequests : held(now) \in MerchantRequest
    BY <2>1, <2>2, <2>3 DEF MerchantRequest
  <2>5. Answer(r) \/ \E now \in 1..MaxRequests : Hold(r, held(now))
    BY <1>2 DEF ReadSnapshot
  <2>6. request' \in [Requests -> MerchantRequest]
    BY <2>4, <2>5, MerchantHoldType, MerchantAnswerType
  <2> QED
    BY <1>2, <2>6 DEF ReadSnapshot, MerchantTypeOK, MerchantTables
<1>3. CASE CommitMerge(r)
  <2> DEFINE q == request[r]
             event == [source |-> q.source, target |-> q.target, txs |-> q.txs,
                       aliases |-> q.aliases, before |-> q.before, at |-> q.at,
                       reverted |-> FALSE, partial |-> FALSE]
  <2>1. /\ q.source \in Merchants /\ q.target \in Merchants /\ q.before \in Statuses
        /\ q.txs \in SUBSET Remembered /\ q.aliases \in SUBSET Aliases
        /\ q.at \in 1..MaxRequests
    BY <1>3, MerchantKinds DEF CommitMerge
  <2>2. CASE Collide(q.source, q.target)
    BY <1>3, <2>2, MerchantAnswerType DEF CommitMerge, MerchantTypeOK, MerchantTables
  <2>3. CASE ~ Collide(q.source, q.target)
    <3>0. /\ assigned' = [t \in Payments |-> IF t \in AssignedTo(q.source)
                 THEN [merchant |-> q.target, source |-> "system"] ELSE assigned[t]]
          /\ alias' = [a \in Aliases |-> IF a \in AliasesOf(q.source)
                 THEN [alias[a] EXCEPT !.merchant = q.target] ELSE alias[a]]
          /\ merchant' = [merchant EXCEPT ![q.source].status = "merged",
                                         ![q.source].into = q.target]
          /\ merges' = Append(merges, event)
      BY <1>3, <2>3 DEF CommitMerge, MergedInto
    <3>1. [merchant |-> q.target, source |-> "system"] \in Assignment
      BY <2>1, AssignmentMade DEF Sources
    <3>2. assigned' \in [Payments -> Assignment]
      BY <3>0, <3>1 DEF MerchantTypeOK, MerchantTables
    <3>3. alias' \in [Aliases -> Alias]
      <4>1. ASSUME NEW a \in Aliases PROVE [alias[a] EXCEPT !.merchant = q.target] \in Alias
        BY <2>1 DEF MerchantTypeOK, MerchantTables, Alias
      <4> QED
        BY <3>0, <4>1 DEF MerchantTypeOK, MerchantTables
    <3>4. merchant' \in [Merchants -> Merchant]
      <4>a. ASSUME NEW row \in Merchant
            PROVE  [row EXCEPT !.status = "merged", !.into = q.target] \in Merchant
        BY <2>1 DEF Merchant, Statuses
      <4>1. [merchant[q.source] EXCEPT !.status = "merged", !.into = q.target] \in Merchant
        BY <2>1, <4>a DEF MerchantTypeOK, MerchantTables
      <4> QED
        BY <3>0, <4>1 DEF MerchantTypeOK, MerchantTables
    <3>5. event \in Merge
      BY <2>1 DEF Merge
    <3>6. merges' \in Seq(Merge)
      BY <3>0, <3>5, AppendProperties DEF MerchantTypeOK, MerchantTables
    <3> QED
      BY <1>3, <3>2, <3>3, <3>4, <3>6, MerchantAnswerType
      DEF CommitMerge, MerchantTypeOK, MerchantTables
  <2> QED
    BY <2>2, <2>3
<1> QED
  BY <1>1, <1>2, <1>3

\* An unmerge gives back what it finds at the target.
UnmergeCommits(r) ==
    LET i == request[r].event
        e == merges[i]
    IN /\ assigned' = [t \in Payments |->
             IF t \in Returning(e)
             THEN [merchant |-> e.source, source |-> (CHOOSE p \in e.txs : p.tx = t).source]
             ELSE assigned[t]]
       /\ alias' = [a \in Aliases |-> IF a \in ReturningAliases(e)
             THEN [alias[a] EXCEPT !.merchant = e.source] ELSE alias[a]]
       /\ merchant' = [merchant EXCEPT ![e.source] =
             [merchant[e.source] EXCEPT !.status = e.before, !.into = None]]
       /\ e.before # "merged"
       /\ merges' = [merges EXCEPT ![i] =
             [e EXCEPT !.reverted = TRUE, !.partial = Partial(e)]]

\* The merge that a request undoes is there.
LEMMA Undone ==
    ASSUME MergeInv, NEW r \in Requests, request[r].pc = "unmerge"
    PROVE  /\ request[r].event \in 1..Len(merges)
           /\ merges[request[r].event] \in Merge
           /\ merges[request[r].event].source \in Merchants
<1>1. request[r].event \in 1..Len(merges)
  BY DEF MergeInv, Due, MerchantTypeOK, MerchantTables
<1>2. merges[request[r].event] \in Merge
  BY <1>1 DEF MergeInv, MerchantTypeOK, MerchantTables
<1> QED
  BY <1>1, <1>2 DEF Merge

\* The undo of a merge that commits undoes it, or nothing.
LEMMA UnmergeOutcome ==
    ASSUME MergeInv, NEW r \in Requests, CommitUnmerge(r)
    PROVE  UNCHANGED <<merchant, alias, assigned, merges>> \/ UnmergeCommits(r)
<1> DEFINE i == request[r].event
           e == merges[i]
           rows == [a \in Aliases |-> IF a \in ReturningAliases(e)
                      THEN [alias[a] EXCEPT !.merchant = e.source] ELSE alias[a]]
           source == [merchant[e.source] EXCEPT !.status = e.before, !.into = None]
<1>1. CASE ~ UniquePatterns(rows) \/ ~ Consistent(source)
  BY <1>1 DEF CommitUnmerge, StatusBefore
<1>2. CASE UniquePatterns(rows) /\ Consistent(source)
  <2>1. merchant[e.source] \in Merchant
    BY Undone DEF CommitUnmerge, MergeInv, MerchantTypeOK, MerchantTables
  <2>2. source.status = e.before /\ source.into = None
    BY <2>1 DEF Merchant
  <2>3. e.before # "merged"
    BY <1>2, <2>2 DEF Consistent
  <2> QED
    BY <1>2, <2>3 DEF CommitUnmerge, StatusBefore, UnmergeCommits
<1> QED
  BY <1>1, <1>2

\* The rows of an unmerge have the types of their tables.
LEMMA UnmergeTypes ==
    ASSUME MergeInv, NEW r \in Requests, ReadUnmerge(r) \/ CommitUnmerge(r)
    PROVE  MerchantTypeOK'
<1> USE DEF MergeInv
<1>1. CASE ReadUnmerge(r)
  <2>1. PICK s \in Merchants : \E i \in Open(s) :
          Hold(r, [pc |-> "unmerge", source |-> s, event |-> i])
    BY <1>1 DEF ReadUnmerge, Newest
  <2>2. PICK i \in Open(s) : Hold(r, [pc |-> "unmerge", source |-> s, event |-> i])
    BY <2>1
  <2>3. i \in Nat
    BY DEF Open, MerchantTypeOK, MerchantTables
  <2>4. [pc |-> "unmerge", source |-> s, event |-> i] \in MerchantRequest
    BY <2>3 DEF MerchantRequest
  <2> QED
    BY <1>1, <2>2, <2>4, MerchantHoldType, MerchantBegunType
    DEF ReadUnmerge, MerchantTypeOK, MerchantTables
<1>2. CASE CommitUnmerge(r) /\ UnmergeCommits(r)
  <2> DEFINE i == request[r].event
             e == merges[i]
  <2>1. i \in 1..Len(merges) /\ e \in Merge
    BY <1>2, Undone DEF CommitUnmerge
  <2>2. ASSUME NEW t \in Returning(e)
        PROVE  [merchant |-> e.source, source |-> (CHOOSE p \in e.txs : p.tx = t).source]
                  \in Assignment
    <3>1. \E p \in e.txs : p.tx = t
      BY <2>2 DEF Returning
    <3>2. (CHOOSE p \in e.txs : p.tx = t) \in e.txs
      BY <3>1
    <3>3. (CHOOSE p \in e.txs : p.tx = t).source \in Sources
      BY <2>1, <3>2 DEF Merge, Remembered
    <3>4. e.source \in Merchants
      BY <2>1 DEF Merge
    <3> QED
      BY <3>3, <3>4, AssignmentMade
  <2>3. assigned' \in [Payments -> Assignment]
    BY <1>2, <2>2 DEF UnmergeCommits, MerchantTypeOK, MerchantTables
  <2>4. alias' \in [Aliases -> Alias]
    <3>1. \A a \in Aliases : alias[a] \in Alias
      BY DEF MerchantTypeOK, MerchantTables
    <3>2. e.source \in Merchants
      BY <2>1 DEF Merge
    <3>3. ASSUME NEW a \in Aliases PROVE [alias[a] EXCEPT !.merchant = e.source] \in Alias
      BY <3>1, <3>2 DEF Alias
    <3>4. alias' = [a \in Aliases |-> IF a \in ReturningAliases(e)
                      THEN [alias[a] EXCEPT !.merchant = e.source] ELSE alias[a]]
      BY <1>2 DEF UnmergeCommits
    <3> HIDE DEF e
    <3> QED
      BY ONLY <3>1, <3>3, <3>4
  <2>5. merchant' \in [Merchants -> Merchant]
    <3>1. ASSUME NEW row \in Merchant
          PROVE  [row EXCEPT !.status = e.before, !.into = None] \in Merchant
      BY <2>1 DEF Merchant, Statuses, Merge
    <3> QED
      BY <1>2, <2>1, <3>1 DEF UnmergeCommits, MerchantTypeOK, MerchantTables, Merge
  <2>6. merges' \in Seq(Merge)
    <3>1. ASSUME NEW b \in BOOLEAN
          PROVE  [e EXCEPT !.reverted = TRUE, !.partial = b] \in Merge
      BY <2>1 DEF Merge
    <3>2. Partial(e) \in BOOLEAN
      BY DEF Partial
    <3>3. merges' = [merges EXCEPT ![i] = [e EXCEPT !.reverted = TRUE, !.partial = Partial(e)]]
      BY <1>2 DEF UnmergeCommits
    <3>4. [e EXCEPT !.reverted = TRUE, !.partial = Partial(e)] \in Merge
      BY <3>1, <3>2
    <3>5. \A new \in Merge : [merges EXCEPT ![i] = new] \in Seq(Merge)
      BY <2>1, ExceptSeq DEF MerchantTypeOK, MerchantTables
    <3> QED
      BY <3>3, <3>4, <3>5
  <2> QED
    BY <1>2, <2>3, <2>4, <2>5, <2>6, MerchantAnswerType
    DEF CommitUnmerge, MerchantTypeOK, MerchantTables
<1>3. CASE CommitUnmerge(r) /\ UNCHANGED <<merchant, alias, assigned, merges>>
  BY <1>3, MerchantAnswerType DEF CommitUnmerge, MerchantTypeOK, MerchantTables
<1> QED
  BY <1>1, <1>2, <1>3, UnmergeOutcome

\* What an alias application writes.
LEMMA MatchType ==
    ASSUME MerchantTypeOK, NEW ms \in SUBSET Match
    PROVE  AfterMatches(ms) \in [Payments -> Assignment]
<1>1. ASSUME NEW t \in Payments, \E m \in ms : m.tx = t
      PROVE  [merchant |-> (CHOOSE m \in ms : m.tx = t).merchant, source |-> "alias"] \in Assignment
  <2>1. (CHOOSE m \in ms : m.tx = t) \in ms
    BY <1>1
  <2>2. (CHOOSE m \in ms : m.tx = t).merchant \in Merchants
    BY <2>1 DEF Match
  <2> QED
    BY <2>2, AssignmentMade DEF Sources
<1> QED
  BY <1>1 DEF AfterMatches, MerchantTypeOK, MerchantTables

\* Alias applications keep the types, and so does the end of a request.
LEMMA ApplyTypes ==
    ASSUME MerchantTypeOK, NEW r \in Requests,
           \/ ReadMatches(r) \/ ReadHistorical(r) \/ ApplyMatch(r) \/ ApplyHistorical(r)
           \/ MerchantAbandon(r)
    PROVE  MerchantTypeOK'
<1>1. CASE ReadMatches(r)
  <2>1. [pc |-> "apply", matches |-> Matches] \in MerchantRequest
    BY DEF MerchantRequest, Matches
  <2> QED
    BY <1>1, <2>1, MerchantHoldType, MerchantBegunType
    DEF ReadMatches, MerchantTypeOK, MerchantTables
<1>2. CASE ReadHistorical(r)
  <2>1. PICK cut \in SUBSET Matches : Hold(r, [pc |-> "historical", matches |-> cut])
    BY <1>2 DEF ReadHistorical
  <2>2. [pc |-> "historical", matches |-> cut] \in MerchantRequest
    BY DEF MerchantRequest, Matches
  <2> QED
    BY <1>2, <2>1, <2>2, MerchantHoldType, MerchantBegunType
    DEF ReadHistorical, MerchantTypeOK, MerchantTables
<1>3. CASE ApplyMatch(r)
  <2>1. PICK m \in request[r].matches :
          /\ assigned' = AfterMatches({m})
          /\ LET rest == request[r].matches \ {m}
             IN IF rest = {} THEN Answer(r) ELSE Hold(r, [pc |-> "apply", matches |-> rest])
    BY <1>3 DEF ApplyMatch
  <2>2. request[r].matches \in SUBSET Match
    BY <1>3, MerchantKinds DEF ApplyMatch
  <2>3. assigned' \in [Payments -> Assignment]
    BY <2>1, <2>2, MatchType
  <2>4. [pc |-> "apply", matches |-> request[r].matches \ {m}] \in MerchantRequest
    BY <2>2 DEF MerchantRequest
  <2>5. request' \in [Requests -> MerchantRequest]
    BY <2>1, <2>4, MerchantHoldType, MerchantAnswerType
  <2> QED
    BY <1>3, <2>3, <2>5 DEF ApplyMatch, assignFrame, MerchantTypeOK, MerchantTables
<1>4. CASE ApplyHistorical(r)
  <2>1. request[r].matches \in SUBSET Match
    BY <1>4, MerchantKinds DEF ApplyHistorical
  <2>2. assigned' \in [Payments -> Assignment]
    BY <1>4, <2>1, MatchType DEF ApplyHistorical
  <2> QED
    BY <1>4, <2>2, MerchantAnswerType
    DEF ApplyHistorical, assignFrame, MerchantTypeOK, MerchantTables
<1>5. CASE MerchantAbandon(r)
  BY <1>5, MerchantAnswerType DEF MerchantAbandon, MerchantTypeOK, MerchantTables
<1> QED
  BY <1>1, <1>2, <1>3, <1>4, <1>5

\* Every step keeps the types.
LEMMA MerchantTypeStep ==
    ASSUME MergeInv, [MerchantNext]_merchantVars
    PROVE  MerchantTypeOK'
<1>1. CASE MerchantNext
  BY <1>1, MerchantTypes, AliasTypes, MergeTypes, UnmergeTypes, ApplyTypes
  DEF MerchantNext, Step, MergeInv
<1>2. CASE UNCHANGED merchantVars
  BY <1>2 DEF merchantVars, MergeInv, MerchantTypeOK, MerchantTables
<1> QED
  BY <1>1, <1>2

------------------------------------------------------------------------------
(* What a step may do to the merchants, the merges and the requests.       *)

\* No merchant is merged or unmerged.
Quiet ==
    /\ merges' = merges
    /\ \A m \in Merchants :
          /\ merchant'[m].into = merchant[m].into
          /\ merchant'[m].status = "merged" <=> merchant[m].status = "merged"

MergeCommits(r) ==
    LET q == request[r]
    IN /\ q.pc = "move"
       /\ merchant' = [merchant EXCEPT ![q.source].status = "merged", ![q.source].into = q.target]
       /\ merges' = Append(merges,
             [source |-> q.source, target |-> q.target, txs |-> q.txs, aliases |-> q.aliases,
              before |-> q.before, at |-> q.at, reverted |-> FALSE, partial |-> FALSE])

\* A step leaves the merges alone, or is one merge or one undo that commits.
LEMMA Change ==
    ASSUME MergeInv, [MerchantNext]_merchantVars
    PROVE  \/ Quiet
           \/ \E r \in Requests : MergeCommits(r)
           \/ \E r \in Requests : request[r].pc = "unmerge" /\ CommitUnmerge(r) /\ UnmergeCommits(r)
<1> USE DEF MergeInv
<1>0. CASE UNCHANGED <<merchant, merges>>
  BY <1>0 DEF Quiet
<1>1. ASSUME NEW r \in Requests, CreateMerchant(r)
      PROVE  Quiet
  <2>1. PICK m \in Merchants, n \in Names :
          /\ merchant[m].status = "absent"
          /\ merchant' = [merchant EXCEPT ![m] =
                [status |-> "active", name |-> n, into |-> None, filed |-> FALSE]]
    BY <1>1 DEF CreateMerchant
  <2>2. merchant[m].into = None
    BY <2>1 DEF StatesConsistent
  <2> QED
    BY <1>1, <2>1, <2>2 DEF CreateMerchant, merchantFrame, Quiet, MerchantTypeOK, MerchantTables
<1>2. ASSUME NEW r \in Requests, UpdateMerchant(r)
      PROVE  Quiet
  <2>1. PICK m \in Merchants, n \in Names : merchant' = [merchant EXCEPT ![m].name = n]
    BY <1>2 DEF UpdateMerchant
  <2> QED
    BY <1>2, <2>1 DEF UpdateMerchant, merchantFrame, Quiet, MerchantTypeOK, MerchantTables, Merchant
<1>3. ASSUME NEW r \in Requests, WriteStatus(r)
      PROVE  Quiet
  <2> DEFINE m == request[r].merchant
             row == [merchant[m] EXCEPT !.status = request[r].status,
                                        !.filed = request[r].status = "archived"]
  <2>1. m \in Merchants /\ request[r].status # "merged"
    BY <1>3, MerchantKinds DEF WriteStatus
  <2>2. row.status = request[r].status /\ row.into = merchant[m].into
    BY <2>1 DEF MerchantTypeOK, MerchantTables, Merchant
  <2>3. CASE Consistent(row)
    <3>1. merchant[m].status # "merged"
      BY <2>1, <2>2, <2>3 DEF Consistent, StatesConsistent
    <3>2. merchant' = [merchant EXCEPT ![m] = row]
      BY <1>3, <2>3 DEF WriteStatus
    <3> QED
      BY <1>3, <2>1, <2>2, <3>1, <3>2
      DEF WriteStatus, merchantFrame, Quiet, MerchantTypeOK, MerchantTables
  <2>4. CASE ~ Consistent(row)
    BY <1>3, <2>4 DEF WriteStatus, merchantFrame, Quiet
  <2> QED
    BY <2>3, <2>4
<1>4. ASSUME NEW r \in Requests, CommitMerge(r)
      PROVE  Quiet \/ MergeCommits(r)
  <2>1. CASE Collide(request[r].source, request[r].target)
    BY <1>4, <2>1 DEF CommitMerge, Quiet
  <2>2. CASE ~ Collide(request[r].source, request[r].target)
    BY <1>4, <2>2 DEF CommitMerge, MergeCommits, MergedInto
  <2> QED
    BY <2>1, <2>2
<1>5. ASSUME NEW r \in Requests, CommitUnmerge(r)
      PROVE  Quiet \/ (request[r].pc = "unmerge" /\ UnmergeCommits(r))
  <2>1. request[r].pc = "unmerge"
    BY <1>5 DEF CommitUnmerge
  <2> QED
    BY <1>5, <2>1, UnmergeOutcome DEF Quiet
<1>6. ASSUME NEW r \in Requests,
             \/ ReadAssign(r) \/ WriteAssign(r) \/ ReadStatus(r) \/ ReadNewAlias(r)
             \/ InsertAlias(r) \/ ReadAlias(r) \/ WriteAlias(r) \/ ReadMerge(r)
             \/ ReadSnapshot(r) \/ ReadUnmerge(r) \/ ReadMatches(r) \/ ReadHistorical(r)
             \/ ApplyMatch(r) \/ ApplyHistorical(r) \/ MerchantAbandon(r)
      PROVE  UNCHANGED <<merchant, merges>>
  BY <1>6 DEF ReadAssign, WriteAssign, ReadStatus, ReadNewAlias, InsertAlias, ReadAlias, WriteAlias,
     ReadMerge, ReadSnapshot, ReadUnmerge, ReadMatches, ReadHistorical, ApplyMatch,
     ApplyHistorical, MerchantAbandon, assignFrame, aliasFrame
<1> QED
  BY <1>0, <1>1, <1>2, <1>3, <1>4, <1>5, <1>6 DEF MerchantNext, Step, merchantVars

\* A merge stays on record: only its end is noted.
LEMMA OnRecord ==
    ASSUME MergeInv, [MerchantNext]_merchantVars, NEW i \in DOMAIN merges
    PROVE  /\ i \in DOMAIN merges'
           /\ merges'[i].source = merges[i].source
           /\ merges'[i].txs = merges[i].txs
<1>1. i \in 1..Len(merges) /\ merges[i] \in Merge /\ merges \in Seq(Merge)
  BY DEF MergeInv, MerchantTypeOK, MerchantTables
<1>2. CASE Quiet
  BY <1>2 DEF Quiet
<1>3. ASSUME NEW r \in Requests, MergeCommits(r)
      PROVE  i \in DOMAIN merges' /\ merges'[i] = merges[i]
  BY <1>1, <1>3 DEF MergeCommits
<1>4. ASSUME NEW r \in Requests, request[r].pc = "unmerge", UnmergeCommits(r)
      PROVE  /\ i \in DOMAIN merges'
             /\ merges'[i].source = merges[i].source /\ merges'[i].txs = merges[i].txs
  <2> DEFINE k == request[r].event
             done == [merges[k] EXCEPT !.reverted = TRUE, !.partial = Partial(merges[k])]
  <2>1. merges' = [merges EXCEPT ![k] = done]
    BY <1>4 DEF UnmergeCommits
  <2>2. done.source = merges[k].source /\ done.txs = merges[k].txs
    BY <1>4, Undone DEF Merge
  <2> QED
    BY <1>1, <2>1, <2>2
<1> QED
  BY <1>2, <1>3, <1>4, Change

\* What a request may hold.
MerchantHeld(q) ==
    /\ q.pc = "move" => OneOrigin(q.txs)
    /\ q.pc = "unmerge" => q.event \in DOMAIN merges /\ merges[q.event].source = q.source

\* What a request in flight holds of a merge stays so.
LEMMA RequestStep ==
    ASSUME MergeInv, [MerchantNext]_merchantVars, NEW o \in Requests
    PROVE  MerchantHeld(request'[o])
<1> USE DEF MergeInv
<1>0. CASE request'[o] = request[o]
  BY <1>0 DEF Snapshots, Due, MerchantHeld
<1>1. CASE request'[o] = Idle
  BY <1>1 DEF Idle, MerchantHeld
<1>2. ASSUME request' # request, NEW r \in Requests, Step(r), request'[o] # Idle
      PROVE  MerchantHeld(request'[o])
  <2>1. SUFFICES ASSUME NEW q, Hold(r, q)
                 PROVE  MerchantHeld(q)
    <3>1. \/ Answer(r) \/ \E q : Hold(r, q)
      BY <1>2 DEF Step, ReadAssign, WriteAssign, CreateMerchant, UpdateMerchant, ReadStatus,
         WriteStatus, ReadNewAlias, InsertAlias, ReadAlias, WriteAlias, ReadMerge, ReadSnapshot,
         CommitMerge, ReadUnmerge, CommitUnmerge, ReadMatches, ReadHistorical, ApplyMatch,
         ApplyHistorical, MerchantAbandon
    <3>2. CASE Answer(r)
      BY <1>0, <1>2, <3>2 DEF Answer, MerchantTypeOK, MerchantTables
    <3>3. ASSUME NEW q, Hold(r, q), MerchantHeld(q)
          PROVE  MerchantHeld(request'[o])
      BY <1>0, <3>3 DEF Hold, MerchantTypeOK, MerchantTables
    <3> QED
      BY <2>1, <3>1, <3>2, <3>3
  <2>2. request'[r] = q
    BY <2>1 DEF Hold, MerchantTypeOK, MerchantTables
  <2>3. CASE ReadSnapshot(r)
    <3> DEFINE p == request[r]
               txs == {[tx |-> t, source |-> assigned[t].source] : t \in AssignedTo(p.source)}
    <3>1. q = Idle \/ (q.pc = "move" /\ q.txs = txs)
      BY <2>2, <2>3 DEF ReadSnapshot, Hold, Answer, MerchantTypeOK, MerchantTables
    <3>2. OneOrigin(txs)
      BY DEF OneOrigin
    <3> HIDE DEF txs
    <3> QED
      BY <3>1, <3>2 DEF MerchantHeld, Idle
  <2>4. CASE ReadUnmerge(r)
    <3>1. PICK s \in Merchants : \E i \in Open(s) :
            Hold(r, [pc |-> "unmerge", source |-> s, event |-> i])
      BY <2>4 DEF ReadUnmerge, Newest
    <3>2. PICK i \in Open(s) : Hold(r, [pc |-> "unmerge", source |-> s, event |-> i])
      BY <3>1
    <3>3. q = [pc |-> "unmerge", source |-> s, event |-> i]
      BY <2>2, <3>2 DEF Hold, MerchantTypeOK, MerchantTables
    <3> QED
      BY <3>2, <3>3 DEF Open, MerchantHeld
  <2>5. CASE ~ ReadSnapshot(r) /\ ~ ReadUnmerge(r)
    <3>1. q.pc # "move" /\ q.pc # "unmerge"
      <4>1. CASE \/ WriteAssign(r) \/ WriteStatus(r) \/ InsertAlias(r) \/ WriteAlias(r)
                 \/ CommitMerge(r) \/ CommitUnmerge(r) \/ ApplyHistorical(r) \/ MerchantAbandon(r)
        <5>1. Answer(r)
          BY <4>1 DEF WriteAssign, WriteStatus, InsertAlias, WriteAlias, CommitMerge, CommitUnmerge,
             ApplyHistorical, MerchantAbandon
        <5> QED
          BY <2>2, <5>1 DEF Answer, Idle, MerchantTypeOK, MerchantTables
      <4>2. CASE CreateMerchant(r) \/ UpdateMerchant(r)
        BY <1>2, <4>2 DEF CreateMerchant, UpdateMerchant
      <4>3. CASE ReadAssign(r)
        BY <2>2, <4>3 DEF ReadAssign, Hold, MerchantTypeOK, MerchantTables
      <4>4. CASE ReadStatus(r)
        BY <2>2, <4>4 DEF ReadStatus, Hold, MerchantTypeOK, MerchantTables
      <4>5. CASE ReadNewAlias(r)
        BY <2>2, <4>5 DEF ReadNewAlias, Hold, MerchantTypeOK, MerchantTables
      <4>6. CASE ReadAlias(r)
        <5>1. \E a \in Aliases : \E row : \/ Hold(r, [pc |-> "editAlias", alias |-> a, row |-> row])
                                          \/ Hold(r, [pc |-> "actAlias", alias |-> a, row |-> row])
          BY <4>6 DEF ReadAlias
        <5> QED
          BY <2>2, <5>1 DEF Hold, MerchantTypeOK, MerchantTables
      <4>7. CASE ReadMerge(r)
        BY <2>2, <4>7 DEF ReadMerge, Hold, MerchantTypeOK, MerchantTables
      <4>8. CASE ReadMatches(r) \/ ReadHistorical(r)
        BY <2>2, <4>8 DEF ReadMatches, ReadHistorical, Hold, MerchantTypeOK, MerchantTables
      <4>9. CASE ApplyMatch(r)
        BY <2>2, <4>9 DEF ApplyMatch, Hold, Answer, Idle, MerchantTypeOK, MerchantTables
      <4> QED
        BY <1>2, <2>5, <4>1, <4>2, <4>3, <4>4, <4>5, <4>6, <4>7, <4>8, <4>9 DEF Step
    <3> QED
      BY <3>1 DEF MerchantHeld
  <2> QED
    BY <2>3, <2>4, <2>5
<1> QED
  BY <1>0, <1>1, <1>2 DEF MerchantNext, merchantVars

------------------------------------------------------------------------------
(* The invariant.                                                          *)

\* A merchant is merged exactly when it leads somewhere.
LEMMA StatesStep ==
    ASSUME MergeInv, [MerchantNext]_merchantVars
    PROVE  StatesConsistent'
<1> USE DEF MergeInv
<1>1. CASE Quiet
  BY <1>1 DEF Quiet, StatesConsistent
<1>2. ASSUME NEW r \in Requests, MergeCommits(r)
      PROVE  StatesConsistent'
  <2>1. request[r].source \in Merchants /\ request[r].target \in Merchants
    BY <1>2, MerchantKinds DEF MergeCommits
  <2> QED
    BY <1>2, <2>1, MerchantAssumption
    DEF MergeCommits, StatesConsistent, MerchantTypeOK, MerchantTables, Merchant
<1>3. ASSUME NEW r \in Requests, request[r].pc = "unmerge", UnmergeCommits(r)
      PROVE  StatesConsistent'
  BY <1>3, Undone DEF UnmergeCommits, StatesConsistent, MerchantTypeOK, MerchantTables, Merchant
<1> QED
  BY <1>1, <1>2, <1>3, Change

\* The last open merge leads where the merchant says, until an unmerge, stale or
\* not, takes the merchant out of the merged ones.
LEMMA LeadsStep ==
    ASSUME MergeInv, [MerchantNext]_merchantVars,
           NEW m \in Merchants, merchant'[m].status = "merged"
    PROVE  Leads(m)'
<1> USE DEF MergeInv
<1>0. merges \in Seq(Merge) /\ merges' \in Seq(Merge)
  BY MerchantTypeStep DEF MerchantTypeOK, MerchantTables
<1>1. CASE Quiet
  BY <1>1 DEF Quiet, Leads, Open
<1>2. ASSUME NEW r \in Requests, MergeCommits(r)
      PROVE  Leads(m)'
  <2> DEFINE q == request[r]
             new == Len(merges) + 1
  <2>1. q.source \in Merchants
    BY <1>2, MerchantKinds DEF MergeCommits
  <2>2. /\ DOMAIN merges' = 1..new /\ DOMAIN merges = 1..Len(merges)
        /\ \A i \in 1..Len(merges) : merges'[i] = merges[i]
        /\ merges'[new].source = q.source /\ merges'[new].target = q.target
        /\ ~ merges'[new].reverted
    BY <1>0, <1>2 DEF MergeCommits
  <2>3. CASE m = q.source
    <3>1. new \in Open(m)'
      BY <2>2, <2>3 DEF Open
    <3>2. \A j \in Open(m)' : j <= new
      BY <1>0, <2>2 DEF Open
    <3>3. merchant'[m].into = q.target
      BY <1>2, <2>1, <2>3 DEF MergeCommits, MerchantTypeOK, MerchantTables, Merchant
    <3> QED
      BY <2>2, <3>1, <3>2, <3>3 DEF Leads
  <2>4. CASE m # q.source
    <3>1. Open(m)' = Open(m)
      BY <2>2, <2>4 DEF Open
    <3>2. merchant'[m] = merchant[m]
      BY <1>2, <2>4 DEF MergeCommits, MerchantTypeOK, MerchantTables
    <3> QED
      BY <2>2, <3>1, <3>2 DEF Leads, Open
  <2> QED
    BY <2>3, <2>4
<1>3. ASSUME NEW r \in Requests, request[r].pc = "unmerge", UnmergeCommits(r)
      PROVE  Leads(m)'
  <2> DEFINE k == request[r].event
             done == [merges[k] EXCEPT !.reverted = TRUE, !.partial = Partial(merges[k])]
  <2>1. k \in 1..Len(merges) /\ merges[k] \in Merge /\ merges[k].source \in Merchants
    BY <1>3, Undone
  <2>2. m # merges[k].source
    <3>1. ASSUME m = merges[k].source PROVE merchant'[m].status = merges[k].before
      BY <1>3, <2>1, <3>1 DEF UnmergeCommits, MerchantTypeOK, MerchantTables, Merchant
    <3> QED
      BY <1>3, <3>1 DEF UnmergeCommits
  <2>3. merchant'[m] = merchant[m]
    BY <1>3, <2>2 DEF UnmergeCommits, MerchantTypeOK, MerchantTables
  <2>4. /\ DOMAIN merges' = DOMAIN merges
        /\ \A i \in DOMAIN merges : i # k => merges'[i] = merges[i]
    BY <1>0, <1>3 DEF UnmergeCommits
  <2>5. merges'[k].source = merges[k].source
    BY <2>1, OnRecord, <1>0
  <2>6. Open(m)' = Open(m)
    BY <2>2, <2>4, <2>5 DEF Open
  <2> QED
    BY <2>2, <2>3, <2>4, <2>6 DEF Leads, Open
<1> QED
  BY <1>1, <1>2, <1>3, Change

\* A snapshot names a transaction once, and stays as it was taken.
LEMMA SnapshotsStep ==
    ASSUME MergeInv, [MerchantNext]_merchantVars
    PROVE  Snapshots'
<1>1. ASSUME NEW i \in DOMAIN merges'
      PROVE  OneOrigin(merges'[i].txs)
  <2>1. CASE i \in DOMAIN merges
    BY <2>1, OnRecord DEF MergeInv, Snapshots
  <2>2. CASE i \notin DOMAIN merges
    <3>1. PICK r \in Requests : MergeCommits(r)
      BY <1>1, <2>2, Change DEF Quiet, UnmergeCommits
    <3>2. merges'[i].txs = request[r].txs
      BY <1>1, <2>2, <3>1 DEF MergeCommits, MergeInv, MerchantTypeOK, MerchantTables
    <3> QED
      BY <3>1, <3>2 DEF MergeInv, Snapshots, MergeCommits
  <2> QED
    BY <2>1, <2>2
<1>2. \A r \in Requests : request'[r].pc = "move" => OneOrigin(request'[r].txs)
  BY RequestStep DEF MerchantHeld
<1> QED
  BY <1>1, <1>2 DEF Snapshots, OneOrigin

\* What an undo in flight holds is a merge on record.
LEMMA DueStep ==
    ASSUME MergeInv, [MerchantNext]_merchantVars
    PROVE  Due'
  BY RequestStep, OnRecord DEF MerchantHeld, Due

\* Without merges the invariant holds.
LEMMA MerchantStart == MerchantInit => MergeInv
<1> SUFFICES ASSUME MerchantInit PROVE MergeInv
  OBVIOUS
<1>1. PICK l \in Ledger : merchant = l.merchant /\ alias = l.alias /\ assigned = l.assigned
  BY MerchantAssumption DEF MerchantInit
<1>2. /\ merchant \in [Merchants -> {m \in Merchant : m.status # "merged" /\ Consistent(m)}]
      /\ alias \in [Aliases -> Alias] /\ assigned \in [Payments -> Assignment]
  BY <1>1 DEF Ledger
<1>3. MerchantTypeOK
  BY <1>2, MerchantAssumption DEF MerchantInit, MerchantTypeOK, MerchantTables, MerchantRequest
<1>4. StatesConsistent /\ \A m \in Merchants : merchant[m].status # "merged"
  BY <1>2 DEF StatesConsistent, Consistent
<1>5. Snapshots /\ Due
  BY DEF MerchantInit, Snapshots, Due, Idle
<1> QED
  BY <1>3, <1>4, <1>5 DEF MergeInv

\* Every step keeps the invariant.
LEMMA MerchantInductive == MergeInv /\ [MerchantNext]_merchantVars => MergeInv'
<1> SUFFICES ASSUME MergeInv, [MerchantNext]_merchantVars PROVE MergeInv'
  OBVIOUS
<1> QED
  BY MerchantTypeStep, StatesStep, LeadsStep, SnapshotsStep, DueStep DEF MergeInv

------------------------------------------------------------------------------
(* The theorems.                                                           *)

\* The invariant holds in every behaviour.
THEOREM MergeInvariant == MerchantSpec => []MergeInv
  BY MerchantStart, MerchantInductive, PTL DEF MerchantSpec

\* Whatever merges, unmerges, archivals and restores run at the same time, and
\* whatever the clock shows, a merged merchant has a merge that was not undone and
\* leads where the merchant says it went; it is the one an unmerge takes if the
\* times of its merges follow their commits.
THEOREM MergedMerchantsCanBeUndone == MerchantSpec => []MergedCanBeUndone
<1>1. ASSUME MergeInv PROVE MergedCanBeUndone
  <2>1. MerchantTables
    BY <1>1 DEF MergeInv, MerchantTypeOK
  <2>2. ASSUME NEW m \in Merchants, merchant[m].status = "merged"
        PROVE  /\ \E i \in Open(m) : merges[i].target = merchant[m].into
               /\ InOrder(m) => \A i \in Newest(m) : merges[i].target = merchant[m].into
    <3>1. PICK last \in Open(m) :
            /\ \A j \in Open(m) : j <= last
            /\ merges[last].target = merchant[m].into
      BY <1>1, <2>2 DEF MergeInv, Leads
    <3>2. ASSUME InOrder(m), NEW i \in Newest(m) PROVE i = last
      <4>1. i \in Open(m) /\ merges[last].at <= merges[i].at /\ i <= last
        BY <3>1, <3>2 DEF Newest
      <4>2. i \in Nat /\ last \in Nat
        BY <2>1, <4>1 DEF Open, MerchantTables
      <4>3. merges[i].at \in Nat /\ merges[last].at \in Nat
        <5>1. merges[i] \in Merge /\ merges[last] \in Merge
          BY <2>1, <4>1 DEF Open, MerchantTables
        <5> QED
          BY <5>1 DEF Merge
      <4>4. i < last => merges[i].at < merges[last].at
        BY <3>2, <4>1 DEF InOrder
      <4> QED
        BY <4>1, <4>2, <4>3, <4>4
    <3> QED
      BY <3>1, <3>2
  <2> QED
    BY <2>1, <2>2 DEF MergedCanBeUndone
<1> QED
  BY <1>1, MergeInvariant, PTL

\* What an unmerge gives a transaction back is what its merge recorded.
LEMMA GivenBack ==
    ASSUME MergeInv, NEW r \in Requests, request[r].pc = "unmerge", UnmergeCommits(r),
           NEW t \in Payments, t \in Returning(merges[request[r].event])
    PROVE  LET e == merges[request[r].event]
           IN \E p \in e.txs :
                 /\ p.tx = t /\ p \in Remembered
                 /\ assigned'[t] = [merchant |-> e.source, source |-> p.source]
                 /\ assigned[t].merchant = e.target
<1> DEFINE e == merges[request[r].event]
           p == CHOOSE q \in e.txs : q.tx = t
<1>1. \E q \in e.txs : q.tx = t /\ assigned[q.tx].merchant = e.target
  BY DEF Returning
<1>2. p \in e.txs /\ p.tx = t
  BY <1>1
<1>3. p \in Remembered
  BY <1>2, Undone DEF Merge
<1>4. assigned'[t] = [merchant |-> e.source, source |-> p.source]
  BY DEF UnmergeCommits
<1> QED
  BY <1>1, <1>2, <1>3, <1>4

\* What the user assigned by hand becomes the assignment of an alias only where an
\* unmerge brings back what its merge recorded.
THEOREM ManualAssignmentsKept == MerchantSpec => ManualKept
<1> DEFINE Kept ==
      \A t \in Payments :
         assigned[t].source = "manual" /\ assigned'[t].source = "alias" =>
            \E r \in Requests :
               /\ request[r].pc = "unmerge" /\ request'[r] # request[r]
               /\ [tx |-> t, source |-> "alias"] \in merges[request[r].event].txs
<1>1. MergeInv /\ [MerchantNext]_merchantVars => [Kept]_merchantVars
  <2> SUFFICES ASSUME MergeInv, NEW r \in Requests, Step(r), NEW t \in Payments,
                      assigned[t].source = "manual", assigned'[t].source = "alias"
               PROVE  /\ request[r].pc = "unmerge" /\ request'[r] # request[r]
                      /\ [tx |-> t, source |-> "alias"] \in merges[request[r].event].txs
    BY DEF MerchantNext
  <2>1. CASE WriteAssign(r)
    <3>1. assigned'[t].source \in {None, "manual", assigned[t].source}
      BY <2>1 DEF WriteAssign, HandSource, MergeInv, MerchantTypeOK, MerchantTables
    <3> QED
      BY <3>1, MerchantAssumption DEF Sources
  <2>2. CASE CommitMerge(r)
    BY <2>2 DEF CommitMerge, MergeInv, MerchantTypeOK, MerchantTables
  <2>3. CASE ApplyMatch(r)
    BY <2>3 DEF ApplyMatch, AfterMatches, Applicable
  <2>4. CASE ApplyHistorical(r)
    BY <2>4 DEF ApplyHistorical, AfterMatches, Applicable
  <2>5. CASE CommitUnmerge(r)
    <3> DEFINE e == merges[request[r].event]
    <3>1. request[r].pc = "unmerge" /\ request'[r] # request[r]
      BY <2>5 DEF CommitUnmerge, Answer, Idle, MergeInv, MerchantTypeOK, MerchantTables
    <3>2. UnmergeCommits(r)
      BY <2>5, UnmergeOutcome
    <3>3. t \in Returning(e)
      BY <3>2 DEF UnmergeCommits
    <3>4. PICK p \in e.txs : /\ p.tx = t /\ p \in Remembered
                             /\ assigned'[t] = [merchant |-> e.source, source |-> p.source]
      BY <3>1, <3>2, <3>3, GivenBack
    <3>5. p = [tx |-> t, source |-> "alias"]
      BY <3>4 DEF Remembered
    <3> QED
      BY <3>1, <3>4, <3>5
  <2>6. CASE UNCHANGED assigned
    BY <2>6
  <2> QED
    BY <2>1, <2>2, <2>3, <2>4, <2>5, <2>6
    DEF Step, ReadAssign, CreateMerchant, UpdateMerchant, ReadStatus, WriteStatus, ReadNewAlias,
        InsertAlias, ReadAlias, WriteAlias, ReadMerge, ReadSnapshot, ReadUnmerge, ReadMatches,
        ReadHistorical, MerchantAbandon, merchantFrame, aliasFrame
<1> QED
  BY <1>1, MergeInvariant, PTL DEF MerchantSpec, ManualKept

\* An unmerge touches only what its merge recorded and what still is at the
\* target, and one that is not partial brings all of it back.
THEOREM UnmergesAreExact == MerchantSpec => UnmergeIsExact
<1> DEFINE Exact(i) ==
      LET e == merges[i]
      IN merges'[i] # e =>
          /\ \A t \in Payments : assigned'[t] # assigned[t] =>
                /\ \E p \in e.txs : p.tx = t /\ assigned'[t].source = p.source
                /\ assigned[t].merchant = e.target
          /\ ~ merges'[i].partial =>
                /\ \A p \in e.txs :
                      assigned'[p.tx] = [merchant |-> e.source, source |-> p.source]
                /\ \A a \in e.aliases : alias'[a].merchant = e.source
<1>1. MergeInv /\ [MerchantNext]_merchantVars => [\A i \in DOMAIN merges : Exact(i)]_merchantVars
  <2> SUFFICES ASSUME MergeInv, [MerchantNext]_merchantVars,
                      NEW i \in DOMAIN merges, merges'[i] # merges[i]
               PROVE  Exact(i)
    OBVIOUS
  <2> USE DEF MergeInv
  <2> DEFINE e == merges[i]
  <2>0. merges \in Seq(Merge) /\ i \in 1..Len(merges)
    BY DEF MerchantTypeOK, MerchantTables
  <2>1. PICK r \in Requests : request[r].pc = "unmerge" /\ UnmergeCommits(r)
    <3>1. ASSUME NEW r \in Requests, MergeCommits(r) PROVE FALSE
      BY <2>0, <3>1 DEF MergeCommits
    <3> QED
      BY <3>1, Change DEF Quiet
  <2>2. request[r].event = i
    <3>1. \A j \in DOMAIN merges : j # request[r].event => merges'[j] = merges[j]
      BY <2>0, <2>1 DEF UnmergeCommits
    <3> QED
      BY <3>1
  <2>3. e \in Merge /\ e.source \in Merchants
    <3>1. e \in Merge
      BY <2>0 DEF MerchantTypeOK, MerchantTables
    <3> QED
      BY <3>1 DEF Merge
  <2>4. ASSUME NEW t \in Payments, assigned'[t] # assigned[t]
        PROVE  /\ \E p \in e.txs : p.tx = t /\ assigned'[t].source = p.source
               /\ assigned[t].merchant = e.target
    <3>1. t \notin Returning(merges[request[r].event]) => assigned'[t] = assigned[t]
      BY <2>1 DEF UnmergeCommits
    <3>2. t \in Returning(e)
      BY <2>2, <2>4, <3>1
    <3>3. PICK p \in e.txs :
            /\ p.tx = t /\ assigned'[t] = [merchant |-> e.source, source |-> p.source]
            /\ assigned[t].merchant = e.target
      BY <2>1, <2>2, <3>2, GivenBack
    <3> QED
      BY <3>3
  <2>5. ASSUME ~ merges'[i].partial
        PROVE  ~ Partial(e)
    <3>1. merges'[i] = [e EXCEPT !.reverted = TRUE, !.partial = Partial(e)]
      BY <2>0, <2>1, <2>2 DEF UnmergeCommits
    <3>2. merges'[i].partial = Partial(e)
      BY <2>3, <3>1 DEF Merge
    <3> QED
      BY <2>5, <3>2
  <2>6. ASSUME ~ Partial(e), NEW p \in e.txs
        PROVE  assigned'[p.tx] = [merchant |-> e.source, source |-> p.source]
    <3>1. p.tx \in Returning(e) /\ p.tx \in Payments
      BY <2>3, <2>6 DEF Partial, Merge, Remembered
    <3>2. PICK q \in e.txs : /\ q.tx = p.tx
                             /\ assigned'[p.tx] = [merchant |-> e.source, source |-> q.source]
      BY <2>1, <2>2, <3>1, GivenBack
    <3>3. q = p
      BY <3>2 DEF Snapshots, OneOrigin
    <3> QED
      BY <3>2, <3>3
  <2>7. ASSUME ~ Partial(e), NEW a \in e.aliases
        PROVE  alias'[a].merchant = e.source
    <3>1. a \in ReturningAliases(e) /\ a \in Aliases
      BY <2>3, <2>7 DEF Partial, Merge
    <3> QED
      BY <2>1, <2>2, <3>1 DEF UnmergeCommits, MerchantTypeOK, MerchantTables, Alias
  <2> QED
    BY <2>4, <2>5, <2>6, <2>7
<1> QED
  BY <1>1, MergeInvariant, PTL DEF MerchantSpec, UnmergeIsExact
================================================================================
