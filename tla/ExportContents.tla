---------------------------- MODULE ExportContents ----------------------------
(***************************************************************************)
(* What an export holds: the transactions, read page by page behind a      *)
(* cursor, their splits, and the tables of an archive.  All of it is read  *)
(* in one repeatable-read transaction, so here it is a function of the     *)
(* ledger and the other tables as they are at one moment.                  *)
(***************************************************************************)
EXTENDS TransactionFilters

CONSTANTS
    PageSize,         \* EXPORT_PAGE_SIZE
    MaxExportRows,    \* EXPORT_MAX_ROWS
    MaxArchiveRows,   \* the limit of fetchArchiveTransactions
    Millisecond       \* of created: the database keeps microseconds, a Date does not

ASSUME LimitsAssumption ==
    /\ PageSize \in Nat \ {0} /\ Millisecond \in Nat \ {0}
    /\ MaxExportRows \in Nat /\ MaxArchiveRows \in Nat

\* null is no cursor.
ASSUME CursorsAssumption == None \notin [date : Int, created : Int, id : Int]

------------------------------------------------------------------------------
(* Pages.                                                                  *)

\* The cursor is a row as the program holds it.
CursorOf(t) ==
    [date |-> t.date, created |-> t.created - (t.created % Millisecond), id |-> t.id]

\* Mutant: rows of one day and moment are not told apart.
BehindMoment(t, cursor) ==
    \/ t.date > cursor.date
    \/ t.date = cursor.date /\ t.created > cursor.created

Behind(t, cursor) ==
    \/ t.date > cursor.date
    \/ t.date = cursor.date /\ t.created > cursor.created
    \/ t.date = cursor.date /\ t.created = cursor.created /\ t.id > cursor.id

ExportOrder(t, u) ==
    \/ t.date < u.date
    \/ t.date = u.date /\ t.created < u.created
    \/ t.date = u.date /\ t.created = u.created /\ t.id < u.id

ExportPage(ledger, query, cursor) ==
    LET left == {t \in ledger : Passes(t, query) /\ (cursor # None => Behind(t, cursor))}
        rows == SubSeq(Sorted(left, ExportOrder), 1, Min({PageSize, Cardinality(left)}))
    IN [rows |-> rows,
        cursor |-> IF Cardinality(left) > PageSize THEN CursorOf(rows[PageSize]) ELSE None]

\* One turn of the loop over the pages, which ends after the last or beyond the limit.
NextPage(ledger, query, limit, before) ==
    LET page == ExportPage(ledger, query, before.cursor)
        rows == before.rows \o page.rows
    IN IF before.more
       THEN [rows |-> rows, cursor |-> page.cursor,
             more |-> page.cursor # None /\ Len(rows) <= limit]
       ELSE before

\* A page that is not the last is full: so many turns read beyond the limit.
Turns(limit) == limit \div PageSize + 1

ExportRows(ledger, query, limit) ==
    LET Read[n \in 0..Turns(limit)] ==
            IF n = 0 THEN [rows |-> <<>>, cursor |-> None, more |-> TRUE]
            ELSE NextPage(ledger, query, limit, Read[n - 1])
    IN Read[Turns(limit)].rows

------------------------------------------------------------------------------
(* Rows.                                                                   *)

\* Of several links, the one that says most.
TransferStatus(t, links) ==
    LET own == {l.status : l \in {k \in links : t.id \in {k.outgoing, k.incoming}}}
        rank == <<"confirmed", "suggested", "rejected", "unlinked">>
    IN IF own = {} THEN "none" ELSE rank[Min({i \in 1..4 : rank[i] \in own})]

SplitCount(t) == Cardinality(ActiveSplits(t))

\* What a row tells of its transaction beside the columns of its table.
ExportRow(t, links) ==
    [id |-> t.id, transfer |-> TransferStatus(t, links), splitCount |-> SplitCount(t)]

SplitRows(transactions) ==
    UNION {{[transaction |-> t.id, id |-> s.id, amount |-> s.amount] : s \in ActiveSplits(t)} :
              t \in transactions}

\* The columns that every format has are one here.
Columns(type, notes) ==
    <<"row">>
      \o (IF type = "transactions_xlsx" THEN <<"numeric">> ELSE <<>>)
      \o (IF notes THEN <<"note">> ELSE <<>>)

Cells(type, notes) ==
    <<"row">>
      \o (IF notes THEN <<"note">> ELSE <<>>)
      \o (IF type = "transactions_xlsx" THEN <<"numeric">> ELSE <<>>)

------------------------------------------------------------------------------
(* Files.                                                                  *)

Refused == <<>>

\* The filters of a saved view, those that it has, replace the request's.
ResolvedQuery(query, view) == IF view = None THEN query ELSE view @@ query

Sheet(request, rows) ==
    [columns |-> Columns(request.type, request.includeNotes),
     cells   |-> Cells(request.type, request.includeNotes),
     rows    |-> rows]

WorkbookSheets(request, rows, splits) ==
    LET count == [rowCount |-> Len(rows)]
    IN IF request.includeSplits THEN <<Sheet(request, rows), Sheet(request, splits), count>>
       ELSE <<Sheet(request, rows), count>>

TransactionsFile(ledger, links, request) ==
    LET rows == ExportRows(ledger, request.query, MaxExportRows)
        told == [i \in DOMAIN rows |-> ExportRow(rows[i], links)]
        counted == ListTransactions(ledger, request.query, 0, 0).total
    IN IF counted > MaxExportRows \/ Len(rows) > MaxExportRows THEN Refused
       ELSE IF request.type = "transactions_csv" THEN <<Sheet(request, told)>>
       ELSE WorkbookSheets(request, told, SplitRows(ToSet(rows)))

\* Mutant: the archive leaves archived transactions out.
ArchivedTransactionsLeftOut(ledger) == ExportRows(ledger, NoFilter, MaxArchiveRows)

\* Archived transactions too; what is beyond the limit is dropped.
ArchiveTransactions(ledger) ==
    LET rows == ExportRows(ledger, [NoFilter EXCEPT !.includeArchived = TRUE], MaxArchiveRows)
    IN SubSeq(rows, 1, Min({MaxArchiveRows, Len(rows)}))

\* The tables that are exported whole, in every status, a row of one of them
\* being its id and what it refers to.
DirectoryTables == {"accounts", "institutions", "categories", "tags"}

PlanningTables == {"budgets", "goals", "alerts"}

WholeTables == DirectoryTables \union PlanningTables \union {"preferences"}

\* Rows of another table, each under the one it belongs to.
Under(rows, parts) ==
    {[id |-> r.id, refs |-> r.refs, parts |-> {p.id : p \in {q \in parts : q.owner = r.id}}] :
        r \in rows}

MerchantRows(tables) == Under(tables.merchants, tables.aliases)

ConversationRows(tables) == Under(tables.threads, tables.messages)

LinkRows(links) ==
    {[id |-> l.id, refs |-> {<<"transactions", l.outgoing>>, <<"transactions", l.incoming>>}] :
        l \in links}

\* A row by its place: what is read twice is in the archive twice.
TransactionRows(rows) ==
    {[id |-> rows[i].id, refs |-> {}, place |-> i] : i \in DOMAIN rows}

SplitsOf(ledger) ==
    {[id |-> s.id, refs |-> {<<"transactions", s.transaction>>}] : s \in SplitRows(ledger)}

FileNames(request) ==
    WholeTables \union {"merchants", "transfer-links", "transactions", "splits"}
      \union (IF request.includeConversations THEN {"advisor"} ELSE {})

ArchiveFiles(ledger, rows, links, tables, request) ==
    [f \in FileNames(request) |->
        CASE f = "merchants"      -> MerchantRows(tables)
          [] f = "transfer-links" -> LinkRows(links)
          [] f = "transactions"   -> TransactionRows(rows)
          [] f = "splits"         -> SplitsOf(ledger)
          [] f = "advisor"        -> ConversationRows(tables)
          [] OTHER                -> tables[f]]

Manifest(files) == [f \in DOMAIN files |-> Cardinality(files[f])]

Archive(ledger, links, tables, request) ==
    LET files == ArchiveFiles(ledger, ArchiveTransactions(ledger), links, tables, request)
    IN [files |-> files, manifest |-> Manifest(files)]
=============================================================================
