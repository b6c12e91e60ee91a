------------------------------- MODULE MCReports -------------------------------
(* Questions about a few months of two accounts and two currencies. *)
EXTENDS ReportReads

CONSTANTS main, side, old, food, rent, Euro, Lira

Of(year, month, day) == DayNumber(year, month, day)

Blank ==
    [id |-> 0, date |-> Of(2024, 2, 28), created |-> 2, account |-> main, currency |-> Euro,
     direction |-> "debit", amount |-> 5, status |-> "confirmed", category |-> None,
     merchant |-> None, splits |-> {}, transfer |-> None, reviewed |-> FALSE, balance |-> None,
     institution |-> "bank", statement |-> "s", secondaries |-> {}, tags |-> {}, terms |-> {},
     description |-> 1]

Groceries == [Blank EXCEPT !.id = 1, !.category = food, !.merchant = "market"]

Shared == [Blank EXCEPT !.id = 2, !.date = Of(2024, 2, 19), !.category = rent, !.amount = 7,
             !.splits = {[id |-> 1, amount |-> 3, category |-> food, archived |-> FALSE],
                         [id |-> 2, amount |-> 4, category |-> None, archived |-> FALSE],
                         [id |-> 3, amount |-> 6, category |-> rent, archived |-> TRUE]}]

Lease == [Blank EXCEPT !.id = 3, !.date = Of(2024, 3, 1), !.category = rent, !.amount = 9,
            !.account = side]

Out == [Blank EXCEPT !.id = 4, !.created = 3, !.amount = 20, !.transfer = "confirmed"]
In == [Out EXCEPT !.id = 5, !.account = side, !.direction = "credit"]

Pay == [Blank EXCEPT !.id = 6, !.direction = "credit", !.amount = 30]

Abroad == [Blank EXCEPT !.id = 7, !.currency = Lira, !.amount = 8, !.account = old]

Removed == [Blank EXCEPT !.id = 8, !.status = "archived", !.date = Of(2024, 2, 12)]

Possible == {{Groceries}, {Shared}, {Lease}, {Pay}, {Abroad, Removed}, {Out, In}}

SomeLedgers == {UNION S : S \in SUBSET Possible}

SomeAccounts ==
    {[id |-> main, currency |-> Euro, status |-> "active"],
     [id |-> side, currency |-> Euro, status |-> "active"],
     [id |-> old, currency |-> Lira, status |-> "archived"]}

SomeDates == {Of(2023, 12, 31), Of(2024, 1, 1), Of(2024, 2, 29), Of(2024, 3, 4)}

SomeBudgets ==
    {[currency |-> Euro, amount |-> amount, period |-> period, custom |-> None,
      category |-> category, account |-> None, threshold |-> threshold, rollover |-> rollover,
      created |-> Of(2024, 2, 15)] :
        amount \in {1, 8}, period \in {"weekly", "monthly"}, category \in {None, food},
        threshold \in {60, None}, rollover \in BOOLEAN}

SomeGoals ==
    {[target |-> 10, targetDate |-> date, mode |-> "manual", saved |-> 4] :
        date \in {None, Of(2024, 3, 20)}}

AllPhrases ==
    {"thisMonth", "lastMonth", "thisWeek", "lastWeek", "last7", "last14", "last30", "last90",
     "thisYear", "ytd", "lastYear"}

SomePhrases == {{p, q} : p, q \in AllPhrases} \union {{}}

SomeAmounts ==
    {-10000, -9999, -2500, -105, -100, -7, 0, 1, 5, 7, 10, 60, 99, 100, 101, 150, 2050, 9999, 10000}
------------------------------------------------------------------------------
(* Exports. *)

SomeLinks ==
    {[id |-> 1, outgoing |-> 4, incoming |-> 5, status |-> "confirmed"],
     [id |-> 2, outgoing |-> 4, incoming |-> 6, status |-> "rejected"],
     [id |-> 3, outgoing |-> 1, incoming |-> 6, status |-> "suggested"],
     [id |-> 4, outgoing |-> 8, incoming |-> 7, status |-> "unlinked"]}

Listed(id, refs) == [id |-> id, refs |-> refs]

SomeTables ==
    [accounts |-> {Listed(a, {<<"institutions", "bank">>}) : a \in {main, side, old}},
     institutions |-> {Listed("bank", {})},
     categories |-> {Listed(food, {}), Listed(rent, {<<"categories", food>>})},
     tags |-> {Listed("tag", {})},
     merchants |-> {Listed("shop", {<<"merchants", "market">>}), Listed("market", {})},
     budgets |-> {Listed("b", {<<"categories", food>>, <<"accounts", main>>})},
     goals |-> {Listed("g", {<<"accounts", side>>})},
     alerts |-> {Listed("rule", {}), Listed("event", {<<"alerts", "rule">>, <<"budgets", "b">>}),
                 Listed("mismatch", {<<"statements", "s">>})},
     preferences |-> {Listed("p", {})},
     threads |-> {Listed("thread", {})},
     aliases |-> {[id |-> "alias", owner |-> "market"]},
     messages |-> {[id |-> i, owner |-> "thread"] : i \in {"question", "answer"}}]

SomeTransferQueries ==
    [status : {None, "confirmed"}, account : {None, main}, dateFrom : {None, Of(2024, 2, 28)},
     dateTo : {None}, currency : {None, Euro}]

Filters ==
    {NoFilter, [NoFilter EXCEPT !.includeArchived = TRUE], [NoFilter EXCEPT !.account = main]}

Views == {None, [dateFrom |-> Of(2024, 2, 28), account |-> main], [includeArchived |-> TRUE]}

SomeRequests ==
    [type : {"transactions_csv"}, query : Filters, view : Views, includeNotes : BOOLEAN]
    \union [type : {"transactions_xlsx"}, query : Filters, view : Views, includeNotes : BOOLEAN,
            includeSplits : BOOLEAN]
    \union [type : {"account_archive"}, includeConversations : BOOLEAN]
===============================================================================
