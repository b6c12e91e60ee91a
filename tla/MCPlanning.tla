------------------------------ MODULE MCPlanning ------------------------------
(* Instances of planning and of the evaluation of alerts for TLC. *)
EXTENDS AlertEvaluation, TLC

CONSTANTS b1, g1, r1, acc, food, s1, Euro

Debit(id, date, amount, category, balance) ==
    [id |-> id, date |-> date, created |-> 1, account |-> acc, currency |-> Euro,
     direction |-> "debit", amount |-> amount, status |-> "confirmed", category |-> category,
     merchant |-> None, splits |-> {}, transfer |-> None, reviewed |-> FALSE, balance |-> balance]

Small == Debit(1, FirstDay, 5, food, 10)
Large == Debit(2, FirstDay, 5, None, 4)

\* Spent in the week before.
Other == Debit(3, FirstDay - 7, 1, None, None)

SomeLedgers == {{Small}, {Small, Large, Other}}

Plan ==
    [currency |-> Euro, amount |-> 5, period |-> "weekly", custom |-> None, category |-> None,
     account |-> acc, threshold |-> 50, rollover |-> TRUE, enabled |-> TRUE]

Plans == {Plan}

PlanPatches == {[threshold |-> 100],
                [amount |-> 4, account |-> acc, period |-> "custom",
                 custom |-> [start |-> FirstDay, end |-> FirstDay]]}

Saving ==
    [currency |-> Euro, target |-> 10, targetDate |-> LastDay + 3, mode |-> "manual",
     account |-> None, saved |-> 2, enabled |-> TRUE]

Savings == {Saving, [Saving EXCEPT !.mode = "account_balance", !.account = acc]}

SavingPatches == {[saved |-> 6], [mode |-> "account_balance", account |-> acc]}

Milestones == [type |-> "goal_milestone", goal |-> g1, milestones |-> <<50, 100>>]

SomeConfigs ==
    {[type |-> "uncategorized_transactions", threshold |-> 1], Milestones,
     [type |-> "goal_deadline", goal |-> g1, daysBefore |-> 4]}

CurrencyOf == [a \in Accounts |-> Euro]

Created(new) == new @@ [created |-> FirstDay, archived |-> FALSE]

Spending ==
    [budget |-> b1 :> Created(Plan), goal |-> g1 :> None, rule |-> r1 :> None, ledger |-> {Small}]

Followed == [Saving EXCEPT !.mode = "account_balance", !.account = acc, !.saved = None]

SavingFor(new) ==
    [budget |-> b1 :> None, goal |-> g1 :> (new @@ [archived |-> FALSE]),
     rule |-> r1 :> [config |-> Milestones, enabled |-> TRUE, archived |-> FALSE],
     ledger |-> {Small}]

SomeStarts == {Spending, SavingFor(Saving), SavingFor(Followed)}
===============================================================================
