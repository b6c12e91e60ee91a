---------------------------- MODULE ExportPromise ----------------------------
(***************************************************************************)
(* What exports promise the user, without saying how: from some moment on  *)
(* an export offers one file, whole and always the same, until it is       *)
(* withdrawn for good; a download gives what was offered when it began, or *)
(* nothing.                                                                *)
(***************************************************************************)
CONSTANTS Exports, Downloads, Contents, None

VARIABLES
    offered,    \* what a download of an export would give, or None
    over,       \* exports that offer nothing any more
    given       \* what a download in flight is about to give, or None

promiseVars == <<offered, over, given>>

PromiseInit ==
    /\ offered = [e \in Exports |-> None] /\ over = {}
    /\ given = [d \in Downloads |-> None]

Offer(e, content) ==
    /\ e \notin over /\ offered[e] = None
    /\ offered' = [offered EXCEPT ![e] = content]
    /\ UNCHANGED <<over, given>>

\* Failed, expired or deleted, offered before or not.
Withdraw(es) ==
    /\ offered' = [e \in Exports |-> IF e \in es THEN None ELSE offered[e]]
    /\ over' = over \union es
    /\ UNCHANGED given

Begin(d, e) ==
    /\ offered[e] # None
    /\ given' = [given EXCEPT ![d] = offered[e]]
    /\ UNCHANGED <<offered, over>>

\* Downloads end, or find nothing any more.
End(ds) ==
    /\ given' = [d \in Downloads |-> IF d \in ds THEN None ELSE given[d]]
    /\ UNCHANGED <<offered, over>>

PromiseNext ==
    \/ \E e \in Exports, c \in Contents : Offer(e, c)
    \/ \E es \in SUBSET Exports : Withdraw(es)
    \/ \E d \in Downloads, e \in Exports : Begin(d, e)
    \/ \E ds \in SUBSET Downloads : End(ds)

Promise == PromiseInit /\ [][PromiseNext]_promiseVars
===============================================================================
