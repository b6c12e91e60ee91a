------------------------------- MODULE MCRules -------------------------------
(* Instances of the classification for TLC. *)
EXTENDS ClassificationRules, TLC

CONSTANTS c1, c2, n1, n2, g1, t1

Root(n) == [status |-> "active", parent |-> None, name |-> n]

\* The first document sets a category, the second adds labels as well.
First == [primary |-> c1, labels |-> {}, review |-> TRUE, blank |-> FALSE, past |-> TRUE]

Second == [primary |-> c2, labels |-> {c1, g1}, review |-> FALSE, blank |-> TRUE, past |-> TRUE]

Enabled(doc) == [status |-> "enabled", doc |-> doc, version |-> 1]

SomeDocuments == {First, Second, [Second EXCEPT !.primary = None, !.past = FALSE]}

Plain == [primary |-> None, labels |-> {}, reviewed |-> FALSE, suppressed |-> {}, split |-> FALSE]

Imported == [Plain EXCEPT !.primary = [category |-> c2, source |-> "import", rule |-> None]]

SomeLedgers ==
    {[category |-> c1 :> Root(n1) @@ c2 :> Root(n2),
      tag |-> g1 :> "active", rule |-> <<Enabled(First), Enabled([Second EXCEPT !.blank = FALSE])>>, ledger |-> t1 :> l] :
         l \in {Plain, Imported}}

EveryRule == {<<1, t1>>, <<2, t1>>}

Symmetric == Permutations(Requests)
==============================================================================
