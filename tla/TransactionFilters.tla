-------------------------- MODULE TransactionFilters --------------------------
(***************************************************************************)
(* The filters of the ledger, shared by the transaction list, the exports  *)
(* and the advisor's search, and the pages of the list.  A filter that is  *)
(* None is not given.  The texts that a search looks through are the set   *)
(* of terms it would find in a transaction.                                *)
(***************************************************************************)
EXTENDS LedgerReports

NoFilter ==
    [dateFrom |-> None, dateTo |-> None, account |-> None, institution |-> None,
     direction |-> None, currency |-> None, statement |-> None, reviewed |-> None,
     exactly |-> None, atLeast |-> None, atMost |-> None, category |-> None,
     categorised |-> None, secondary |-> None, tag |-> None, search |-> None,
     includeArchived |-> FALSE, sort |-> "bookingDateDesc"]

\* A filter by column: not given, or equal to the transaction's.
Matches(filter, value) == filter = None \/ filter = value

\* "Uncategorised" wins over a category named beside it.
CategoryMatches(t, query) ==
    CASE query.categorised = "false"                            -> t.category = None
      [] query.categorised # "false" /\ query.category # None  -> t.category = query.category
      [] query.categorised = "true" /\ query.category = None   -> t.category # None
      [] OTHER                                                 -> TRUE

InRange(value, least, most) ==
    (least # None => least <= value) /\ (most # None => value <= most)

Passes(t, query) ==
    /\ query.includeArchived \/ t.status = "confirmed"
    /\ InRange(t.date, query.dateFrom, query.dateTo)
    /\ Matches(query.account, t.account) /\ Matches(query.institution, t.institution)
    /\ Matches(query.direction, t.direction) /\ Matches(query.currency, t.currency)
    /\ Matches(query.statement, t.statement) /\ Matches(query.reviewed, t.reviewed)
    /\ Matches(query.exactly, t.amount) /\ InRange(t.amount, query.atLeast, query.atMost)
    /\ CategoryMatches(t, query)
    /\ query.secondary # None => query.secondary \in t.secondaries
    /\ query.tag # None => query.tag \in t.tags
    /\ query.search # None => query.search \in t.terms

\* Ties of the sorted column are broken by id, in the same direction.
Before(t, u, sort) ==
    LET Ascending(a, b) == a < b \/ (a = b /\ t.id < u.id)
        Descending(a, b) == a > b \/ (a = b /\ t.id > u.id)
    IN CASE sort = "bookingDateAsc"  -> Ascending(t.date, u.date)
         [] sort = "amountAsc"       -> Ascending(t.amount, u.amount)
         [] sort = "amountDesc"      -> Descending(t.amount, u.amount)
         [] sort = "descriptionAsc"  -> Ascending(t.description, u.description)
         [] sort = "descriptionDesc" -> Descending(t.description, u.description)
         [] OTHER                    -> Descending(t.date, u.date)

\* The sequence of a set in a strict total order, without the search through
\* all sequences that SetToSortSeq is.
Sorted(S, Less(_, _)) ==
    [i \in 1..Cardinality(S) |-> CHOOSE t \in S : Cardinality({u \in S : Less(u, t)}) = i - 1]

ListTransactions(ledger, query, limit, offset) ==
    LET found == {t \in ledger : Passes(t, query)}
        sorted == Sorted(found, LAMBDA t, u : Before(t, u, query.sort))
        items == SubSeq(sorted, offset + 1, Min({offset + limit, Len(sorted)}))
    IN [items |-> items, total |-> Cardinality(found),
        hasMore |-> offset + Len(items) < Cardinality(found)]

\* The page of the transfers a filter selects, the newest first.  Either side
\* may be the one that an account, a day or a currency fits.
ListInternalTransfers(ledger, links, query, limit) ==
    LET Sides(l) == {t \in ledger : t.id \in {l.outgoing, l.incoming}}
        found == {l \in links :
                    /\ Matches(query.status, l.status)
                    /\ \E t \in Sides(l) : Matches(query.account, t.account)
                    /\ \E t \in Sides(l) : InRange(t.date, query.dateFrom, None)
                    /\ \E t \in Sides(l) : InRange(t.date, None, query.dateTo)
                    /\ \E t \in Sides(l) : Matches(query.currency, t.currency)}
        sorted == Sorted(found, LAMBDA l, k : l.id > k.id)
    IN SubSeq(sorted, 1, Min({limit, Len(sorted)}))

\* A reference in a filter must be the user's own, or the request is refused.
OwnedReferences(query, owned) ==
    {query.account, query.institution, query.category, query.secondary, query.tag}
        \ {None} \subseteq owned
=============================================================================
