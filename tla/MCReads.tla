-------------------------------- MODULE MCReads --------------------------------
(* The reads that compute, and the advisor: one user's questions about two *)
(* weeks of spending.                                                      *)
EXTENDS MCReports, Advisor

CONSTANTS first, second, known, fresh, t1, t2

Monday == DayNumber(2024, 3, 4)

Market ==
    [Blank EXCEPT !.id = 1, !.date = Monday, !.created = 1, !.category = food,
                  !.merchant = "market", !.balance = 40]

Weekend == [Market EXCEPT !.id = 2, !.date = Monday - 2, !.amount = 3, !.category = None]
Income == [Market EXCEPT !.id = 3, !.direction = "credit", !.amount = 9, !.date = Monday + 1]
Moved == [Market EXCEPT !.id = 4, !.transfer = "confirmed"]
Later == [Market EXCEPT !.id = 5, !.amount = 2, !.category = None, !.date = Monday + 2]

Budget ==
    [id |-> "b", order |-> 1, archived |-> FALSE, currency |-> Euro, amount |-> 20,
     period |-> "weekly", custom |-> None, category |-> None, account |-> None, threshold |-> 80,
     rollover |-> FALSE, created |-> Monday]

Goal ==
    [id |-> "g", order |-> 1, archived |-> FALSE, target |-> 10, targetDate |-> None,
     mode |-> "manual", saved |-> 4]

Statement ==
    [id |-> "s", status |-> "imported", account |-> main, confirmedAt |-> 1, closing |-> 40,
     periodEnd |-> Monday, updatedAt |-> 1, reconciliation |-> "mismatch", difference |-> 2]

Used ==
    [ledger |-> {Market, Weekend, Income, Moved}, statements |-> {Statement},
     accounts |-> {[id |-> main, currency |-> Euro, status |-> "active"]}, budgets |-> {Budget},
     goals |-> {Goal}, unread |-> 1, categories |-> {food}]

SomeDatabases ==
    {[Used EXCEPT !.ledger = {}, !.budgets = {}], [Used EXCEPT !.ledger = @ \union {Later}]}

NoContext == [range |-> None, currency |-> None, account |-> None]

Plain ==
    [phrases |-> {}, topics |-> {}, spending |-> FALSE, wh |-> FALSE, compare |-> FALSE,
     newBudget |-> FALSE, currency |-> None, account |-> None, category |-> None,
     context |-> NoContext, thread |-> None]

ThisWeek == [NoContext EXCEPT !.range = [from |-> Monday, to |-> Monday + 6]]

Compared ==
    [Plain EXCEPT !.phrases = {"thisWeek"}, !.spending = TRUE, !.compare = TRUE, !.thread = known]

OnTopics ==
    {[Plain EXCEPT !.topics = {topic}, !.context = ThisWeek] :
        topic \in {TopicOrder[i] : i \in DOMAIN TopicOrder}}

SomeQuestions ==
    (first :> OnTopics \union
        {[Plain EXCEPT !.topics = {"category_breakdown"}],
         [Plain EXCEPT !.topics = {"budget_status"}, !.newBudget = TRUE, !.category = food],
         [Plain EXCEPT !.spending = TRUE, !.context = [ThisWeek EXCEPT !.account = "other"]],
         Compared})
    @@ (second :> {[Plain EXCEPT !.wh = TRUE, !.thread = known]})

SomeResponses ==
    {None, [placeholders |-> {1}, cited |-> {1}], [placeholders |-> {1, 99}, cited |-> {1}]}

ThisWednesday == Monday + 2

------------------------------------------------------------------------------
(* Proposals. *)

NewBudget ==
    [type |-> "create_budget", category |-> food, account |-> main, currency |-> Euro,
     transactions |-> {}]

SomePayloads ==
    {NewBudget, [NewBudget EXCEPT !.category = None, !.account = None],
     [type |-> "categorize", category |-> food, account |-> None, currency |-> Euro,
      transactions |-> {t1, t2}]}

OneAccount == main :> [status |-> "active", currency |-> Euro]
------------------------------------------------------------------------------
(* Both, of which one moves at a time: no report reads what the advisor    *)
(* writes.                                                                 *)

NothingReported == asked.kind = "none" /\ ledger = {} /\ today = Of(2023, 12, 31)

ReadsInit == ReportInit /\ Init

ReadsNext ==
    \/ NothingAsked /\ NothingProposed /\ ReportNext /\ UNCHANGED vars
    \/ NothingReported /\ Next /\ UNCHANGED reportVars

ReadsSpec == ReadsInit /\ [][ReadsNext]_<<vars, reportVars>>
===============================================================================
