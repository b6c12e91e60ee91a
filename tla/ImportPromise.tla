---------------------------- MODULE ImportPromise ----------------------------
(***************************************************************************)
(* What the import pipeline promises the user, without saying how: the     *)
(* ledger only ever gains entries, each entry has a raw row behind it that *)
(* stays for good, no raw row is entered twice, and an original the user   *)
(* asked to keep is never discarded.                                       *)
(***************************************************************************)
EXTENDS Naturals

CONSTANTS Statements, Rows

VARIABLES
    evidence,   \* raw rows that exist
    entries,    \* ledger entries per raw row
    originals,  \* uploaded originals in storage
    kept        \* uploads whose original the user asked to keep

promiseVars == <<evidence, entries, originals, kept>>

Entered == {r \in Rows : entries[r] > 0}

PromiseInit ==
    /\ evidence = {} /\ entries = [r \in Rows |-> 0]
    /\ originals = {} /\ kept = {}

\* A parse replaces candidates, never those already in the ledger.
Reparse ==
    /\ evidence' \in SUBSET Rows
    /\ Entered \subseteq evidence'
    /\ UNCHANGED <<entries, originals, kept>>

\* A confirmation enters a set of rows, all of them and once.
Enter(rs) ==
    /\ rs \subseteq evidence /\ rs \intersect Entered = {}
    /\ entries' = [r \in Rows |-> IF r \in rs THEN entries[r] + 1 ELSE entries[r]]
    /\ UNCHANGED <<evidence, originals, kept>>

Store(s) ==
    /\ originals' = originals \union {s}
    /\ UNCHANGED <<evidence, entries, kept>>

\* The upload is accepted, with the wish to keep its original.
Accept(s) ==
    /\ s \in originals
    /\ kept' = kept \union {s}
    /\ UNCHANGED <<evidence, entries, originals>>

Discard(s) ==
    /\ s \notin kept
    /\ originals' = originals \ {s}
    /\ UNCHANGED <<evidence, entries, kept>>

PromiseNext ==
    \/ Reparse
    \/ \E rs \in SUBSET Rows : Enter(rs)
    \/ \E s \in Statements : Store(s) \/ Accept(s) \/ Discard(s)

Promise == PromiseInit /\ [][PromiseNext]_promiseVars
==============================================================================
