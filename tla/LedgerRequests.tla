---------------------------- MODULE LedgerRequests ----------------------------
(***************************************************************************)
(* Requests to the ledger.  Every statement of PostgreSQL sees the latest  *)
(* commits, so a request is a sequence of steps and another may come       *)
(* between two; what it has read and will act upon, it holds.              *)
(***************************************************************************)
EXTENDS Naturals

CONSTANTS
    Transactions,    \* transactions of the ledger
    Requests,        \* requests the web process may have in flight
    MaxRequests      \* bound: requests begun in a behaviour

VARIABLES
    request,    \* what each request in flight has read
    begun       \* requests begun so far

Idle == [pc |-> "idle"]

Begin(r) ==
    /\ request[r].pc = "idle"
    /\ begun < MaxRequests
    /\ begun' = begun + 1

\* The request reads and will write later; or it writes and answers.
Hold(r, what) == request' = [request EXCEPT ![r] = what]

Answer(r) == request' = [request EXCEPT ![r] = Idle]
================================================================================
