------------------------------- MODULE MCLedger -------------------------------
(***************************************************************************)
(* Instances of splits, transfers and merchants for TLC.  The requests     *)
(* about splits and transfers share no table with those about merchants:   *)
(* a behaviour serves the ones or the others.                              *)
(***************************************************************************)
EXTENDS InternalTransfers, MerchantMerge, TLC

CONSTANTS out1, out2, in1, in2, m1, m2, m3, n1, n2, n3, p1, p2, t1, t2

VARIABLE served    \* what the requests of this behaviour are about

------------------------------------------------------------------------------
(* Two debits of one account, a credit that could be the other side of     *)
(* both, and one that is too late for the first.                           *)

Amounts2 == out1 :> 2 @@ out2 :> 2 @@ in1 :> 2 @@ in2 :> 2
Directions == out1 :> "debit" @@ out2 :> "debit" @@ in1 :> "credit" @@ in2 :> "credit"
Accounts == out1 :> "a" @@ out2 :> "a" @@ in1 :> "b" @@ in2 :> "b"
Currencies == [t \in {out1, out2, in1, in2} |-> "EUR"]
Days == out1 :> 1 @@ out2 :> 3 @@ in1 :> 3 @@ in2 :> 6

\* The form numbers from 0 on; another client may send any position.
SomeNumberings == {{0}, {1}, {0, 1}}

------------------------------------------------------------------------------
(* Merchants.                                                              *)

\* The second pattern is the more special one.
SomeFits == {<<t1, p1>>, <<t2, p1>>, <<t2, p2>>}

Active(n) == [status |-> "active", name |-> n, into |-> None, filed |-> FALSE]

Enabled(m, p) == [merchant |-> m, pattern |-> p, priority |-> 1,
                  enabled |-> TRUE, archived |-> FALSE]

\* Two merchants with an alias each and room for a third; three merchants, one
\* with an alias.  The first owns both transactions.
SomeLedgers ==
    {[merchant |-> m1 :> Active(n1) @@ m2 :> Active(n2)
                     @@ m3 :> [Active(None) EXCEPT !.status = "absent"],
      alias    |-> 1 :> Enabled(m1, p1) @@ 2 :> Enabled(m2, p2),
      assigned |-> t1 :> [merchant |-> m1, source |-> "manual"]
                @@ t2 :> [merchant |-> m1, source |-> "alias"]],
     [merchant |-> m1 :> Active(n1) @@ m2 :> Active(n2) @@ m3 :> Active(n3),
      alias    |-> 1 :> Enabled(m1, p1) @@ 2 :> NoAlias,
      assigned |-> t1 :> [merchant |-> m1, source |-> "manual"]
                @@ t2 :> [merchant |-> None, source |-> None]]}

------------------------------------------------------------------------------

ledgerVars == <<split, link, merchant, alias, assigned, merges, request, begun, served>>

LedgerInit ==
    /\ Init /\ MerchantInit
    /\ served \in {"transfers", "merchants"}
    /\ served = "transfers" =>
          LET l == CHOOSE x \in SomeLedgers : TRUE
          IN merchant = l.merchant /\ alias = l.alias /\ assigned = l.assigned

LedgerNext ==
    /\ \/ served = "transfers" /\ Next /\ UNCHANGED <<merchant, alias, assigned, merges>>
       \/ served = "merchants" /\ MerchantNext /\ UNCHANGED <<split, link>>
    /\ UNCHANGED served

LedgerSpec == LedgerInit /\ [][LedgerNext]_ledgerVars

Symmetric == Permutations(Requests)
==============================================================================
