--------------------------- MODULE AlertEvaluation ---------------------------
(***************************************************************************)
(* The evaluation of a user's alerts: jobs that a sweep sends every 15     *)
(* minutes and that a route sends after an edit.  The queue does not keep  *)
(* two jobs of one user apart, so two evaluations may overlap; one that    *)
(* fails is retried from its beginning.                                    *)
(***************************************************************************)
EXTENDS PlanningState

CONSTANTS
    Jobs,           \* places in the queue
    RetryLimit,     \* 3 in the code
    MaxFailures     \* bound: evaluations that fail

ASSUME AlertAssumption == RetryLimit \in Nat /\ MaxFailures \in Nat

VARIABLES
    job,            \* the evaluation each job has come to
    failures

vars == <<budget, goal, rule, event, ledger, mismatched, today, edits, request, job,
          failures>>

planning == <<budget, goal, rule, ledger, mismatched, today, edits, request>>

NoJob == [pc |-> "none"]

Waiting(retries) == [pc |-> "created", retries |-> retries]

\* What getBudgetStatus, getGoalProgress and their callers look at.
Live(row) == row # None /\ row.enabled /\ ~row.archived

Uncategorized(l) == SumOver(UncategorizedAllocations(l), LAMBDA a : a.count)

Balances(l, row) ==
    IF row.account = None THEN {None}
    ELSE KnownBalances(l, {}, [id |-> row.account, currency |-> AccountCurrency[row.account]])

\* Mutant: an existing alert is written again.
WithEventsAnew(keys) == With([k \in keys |-> [read |-> FALSE, dismissed |-> FALSE]], event)

\* ON CONFLICT DO NOTHING on the user and the key.
WithEvents(keys) == With(event, [k \in keys |-> [read |-> FALSE, dismissed |-> FALSE]])

\* An approaching alert is named for the threshold of the row that was listed.
BudgetKeys(b, listed, status) ==
    CASE status.status = "exceeded" -> {[kind |-> "exceeded", of |-> b, period |-> status.key]}
      [] status.status = "approaching" ->
           {[kind |-> "approaching", of |-> b, period |-> status.key,
             at |-> IF listed.threshold = None THEN DefaultWarningThreshold ELSE listed.threshold]}
      [] OTHER -> {}

MilestoneKeys(config, row, progress, m) ==
    {[kind |-> "milestone", of |-> config.goal, at |-> n] : n \in
       {i \in {m} : /\ progress.current # None
                    /\ PercentReached(progress.current, row.target, i)}}

DeadlineKeys(config, progress) ==
    {[kind |-> "deadline", of |-> config.goal, at |-> d] : d \in
       {n \in {config.daysBefore} : /\ progress.daysRemaining # None
                                    /\ progress.daysRemaining <= n}}

UncategorizedKeys(config, l) ==
    {[kind |-> "uncategorized", at |-> t] : t \in {n \in {config.threshold} : Uncategorized(l) > n}}

------------------------------------------------------------------------------
(* The queue.                                                              *)

\* Bound: one job waits at a time.
Send(j) ==
    /\ \A other \in Jobs : job[other].pc # "created"
    /\ job[j] = NoJob
    /\ job' = [job EXCEPT ![j] = Waiting(0)]

\* Mutant: users who only have budgets are left out.
HasWorkBesidesBudgets ==
    \/ \E g \in Goals : Live(goal[g])
    \/ \E r \in Rules : Live(rule[r])
    \/ mismatched # {}

HasWork ==
    \/ \E b \in Budgets : Live(budget[b])
    \/ \E g \in Goals : Live(goal[g])
    \/ \E r \in Rules : Live(rule[r])
    \/ mismatched # {}

Sweep ==
    /\ HasWork
    /\ \E j \in Jobs : Send(j)
    /\ UNCHANGED <<planning, event, failures>>

\* The process dies or a statement fails; the queue starts the job again.
Fail(j) ==
    /\ job[j].pc \notin {"none", "created"}
    /\ failures < MaxFailures
    /\ failures' = failures + 1
    /\ job' = [job EXCEPT ![j] = IF @.retries < RetryLimit THEN Waiting(@.retries + 1) ELSE NoJob]
    /\ UNCHANGED <<planning, event>>

------------------------------------------------------------------------------
(* One evaluation: where it goes next, and the alerts a step of it inserts. *)
(* The row, the day, each read of the ledger and each INSERT is a step of  *)
(* its own, and nothing holds the tables in between.                       *)

Goto(j, pc, values) ==
    job' = [job EXCEPT ![j] = With([pc |-> pc, retries |-> @.retries], values)]

ListBudgets(j) ==
    /\ job[j].pc = "created"
    /\ Goto(j, "budgets", [todo |-> {<<b, budget[b]>> : b \in {c \in Budgets : Live(budget[c])}}])

ReadBudget(j) ==
    /\ job[j].pc = "budgets"
    /\ \E item \in job[j].todo :
         Goto(j, "spending", [todo |-> job[j].todo \ {item}, of |-> item[1], listed |-> item[2],
                              row |-> budget[item[1]], day |-> today, read |-> 0, found |-> None])

\* The current period is read, then the previous one, and those before it for
\* as long as the loop goes on.
MoreToRead(e) ==
    \/ e.read = 0
    \/ e.read = 1 /\ e.row.period # "custom"
    \/ /\ e.read > 1 /\ Rolls(e.row)
       /\ LET bounds == CurrentPeriodBounds(e.row.period, e.day, e.row.custom)
          IN ~LastPrior(e.row, PriorPeriods(e.row, bounds), e.read - 1)

ReadSpending(j) ==
    LET e == job[j] IN
    /\ e.pc = "spending"
    /\ MoreToRead(e)
    /\ Goto(j, "spending",
            [todo |-> e.todo, of |-> e.of, listed |-> e.listed, row |-> e.row, day |-> e.day,
             read |-> e.read + 1,
             found |-> [n \in 0..RolloverPeriods |-> IF n < e.read THEN e.found[n] ELSE ledger]])

RecordsBudget(e) == e.pc = "spending" /\ ~MoreToRead(e)

RecordBudget(j) == RecordsBudget(job[j]) /\ Goto(j, "budgets", [todo |-> job[j].todo])

ListStatements(j) ==
    /\ job[j].pc = "budgets"
    /\ job[j].todo = {}
    /\ Goto(j, "statements", [todo |-> mismatched])

NextStatement(j) ==
    /\ job[j].pc = "statements"
    /\ \E s \in job[j].todo : Goto(j, "statement", [todo |-> job[j].todo \ {s}, of |-> s])

RecordStatement(j) == job[j].pc = "statement" /\ Goto(j, "statements", [todo |-> job[j].todo])

ListRules(j) ==
    /\ job[j].pc = "statements"
    /\ job[j].todo = {}
    /\ Goto(j, "rules", [todo |-> {<<r, rule[r].config>> : r \in {s \in Rules : Live(rule[s])}}])

\* What is uncategorized is read at once; a goal, with the day, and then the
\* balance of its account if it follows one.
ReadRule(j) ==
    /\ job[j].pc = "rules"
    /\ \E item \in job[j].todo :
         LET config == item[2]
             follows == config.type # "uncategorized_transactions"
         IN Goto(j, config.type,
                 [todo |-> job[j].todo \ {item}, config |-> config, day |-> today,
                  row |-> IF follows THEN goal[config.goal] ELSE None,
                  found |-> IF follows THEN None ELSE ledger,
                  left |-> IF config.type = "goal_milestone" THEN config.milestones ELSE <<>>])

BalanceToRead(e) == e.found = None /\ e.row.mode = "account_balance"

Held(e) == [todo |-> e.todo, config |-> e.config, day |-> e.day, row |-> e.row]

ReadBalance(j) ==
    LET e == job[j] IN
    /\ e.pc \in {"goal_milestone", "goal_deadline"}
    /\ BalanceToRead(e)
    /\ Goto(j, e.pc, With([found |-> ledger, left |-> e.left], Held(e)))

RecordsMilestone(e) == e.pc = "goal_milestone" /\ ~BalanceToRead(e) /\ e.left # <<>>

RecordMilestone(j) ==
    LET e == job[j] IN
    /\ RecordsMilestone(e)
    /\ Goto(j, e.pc, With([found |-> e.found, left |-> Tail(e.left)], Held(e)))

RecordsDeadline(e) == e.pc = "goal_deadline" /\ ~BalanceToRead(e)

RecordRule(j) ==
    LET e == job[j] IN
    /\ \/ e.pc = "uncategorized_transactions"
       \/ RecordsDeadline(e)
       \/ e.pc = "goal_milestone" /\ ~BalanceToRead(e) /\ e.left = <<>>
    /\ Goto(j, "rules", [todo |-> e.todo])

Finish(j) ==
    /\ job[j].pc = "rules"
    /\ job[j].todo = {}
    /\ job' = [job EXCEPT ![j] = NoJob]

Advance(j) ==
    \/ ListBudgets(j) \/ ReadBudget(j) \/ ReadSpending(j) \/ RecordBudget(j)
    \/ ListStatements(j) \/ NextStatement(j) \/ RecordStatement(j)
    \/ ListRules(j) \/ ReadRule(j) \/ ReadBalance(j) \/ RecordMilestone(j) \/ RecordRule(j)
    \/ Finish(j)

\* What getGoalProgress has read: of two latest balances, either.
Progresses(e) == {GoalProgress(e.row, balance, e.day) : balance \in Balances(e.found, e.row)}

\* The alerts that the next step may insert.
Inserted(j) ==
    LET e == job[j] IN
    CASE RecordsBudget(e) -> {BudgetKeys(e.of, e.listed, StatusFound(e.found, e.row, e.day))}
      [] e.pc = "statement" -> {{[kind |-> "mismatch", of |-> e.of]}}
      [] e.pc = "uncategorized_transactions" -> {UncategorizedKeys(e.config, e.found)}
      [] RecordsMilestone(e) ->
           {MilestoneKeys(e.config, e.row, progress, Head(e.left)) : progress \in Progresses(e)}
      [] RecordsDeadline(e) -> {DeadlineKeys(e.config, progress) : progress \in Progresses(e)}
      [] OTHER -> {{}}

Evaluate(j) ==
    /\ Advance(j)
    /\ \E keys \in Inserted(j) : event' = WithEvents(keys)
    /\ UNCHANGED <<planning, failures>>

\* A route sends a job once it has answered, and takes no notice of a failure.
Enqueue(j) ==
    /\ edits > 0
    /\ Send(j)
    /\ UNCHANGED <<planning, event, failures>>

Init ==
    /\ \E start \in Starts : /\ budget = start.budget
                             /\ goal = start.goal
                             /\ rule = start.rule
                             /\ ledger = start.ledger
    /\ event = <<>>
    /\ mismatched = {}
    /\ today = FirstDay
    /\ edits = 0
    /\ request = [q \in Requests |-> Idle]
    /\ job = [j \in Jobs |-> NoJob]
    /\ failures = 0

Next ==
    \/ Request /\ UNCHANGED <<job, failures>>
    \/ Elsewhere /\ UNCHANGED <<job, failures>>
    \/ Sweep
    \/ \E j \in Jobs : Enqueue(j) \/ Evaluate(j) \/ Fail(j)

\* The sweep is scheduled, and the worker takes the jobs of its queue.  A step
\* that advances a job is a step of its evaluation.
Fairness ==
    /\ WF_job(Sweep)
    /\ WF_job(\E j \in Jobs : Advance(j))

Spec == Init /\ [][Next]_vars /\ Fairness

------------------------------------------------------------------------------
(* Properties.                                                             *)

\* The type of every variable, and the checks of the two tables.
TypeOK ==
    /\ \A b \in Budgets : budget[b] # None => BudgetShape(budget[b])
    /\ \A g \in Goals : goal[g] # None => GoalShape(goal[g])
    /\ \A r \in Rules : rule[r] # None => RuleShape(rule[r])
    /\ \A k \in DOMAIN event :
          /\ k.kind \in Kinds /\ DOMAIN event[k] = {"read", "dismissed"}
          /\ event[k].read \in BOOLEAN /\ event[k].dismissed \in BOOLEAN
    /\ mismatched \subseteq Statements /\ ledger \in Ledgers
    /\ today \in FirstDay..LastDay /\ edits \in 0..MaxEdits /\ failures \in 0..MaxFailures
    /\ \A q \in Requests : request[q].pc \in {"idle", "budget", "goal"}
    /\ \A j \in Jobs : job[j].pc \in {"none", "created", "budgets", "spending", "statements",
                                      "statement", "rules"} \union RuleTypes

Scope(row, day) ==
    LET bounds == CurrentPeriodBounds(row.period, day, row.custom)
    IN [from |-> bounds.start, to |-> bounds.end, account |-> row.account]

\* What a reader of the ledger adds up for a budget.
AddedUp(l, row, day) ==
    Total({a \in UNION {Allocations(t) : t \in {u \in Expenses(l, Scope(row, day)) :
                           u.currency = row.currency}} :
             row.category # None => a.category = row.category})

\* The budget row that an evaluation has read has come to `at` percent of its
\* amount on the day it took, in the ledger its first read has found.
Reached(e, k, at) ==
    /\ PeriodKey(e.row.period, CurrentPeriodBounds(e.row.period, e.day, e.row.custom)) = k.period
    /\ e.day <= Scope(e.row, e.day).to
    /\ 100 * AddedUp(e.found[0], e.row, e.day) >= at * e.row.amount

Saved(e) ==
    IF e.row.mode = "manual" THEN {e.row.saved}
    ELSE {t.balance : t \in {u \in e.found : u.account = e.row.account /\ u.balance # None}}

Caused(k, e) ==
    CASE k.kind = "exceeded" -> Reached(e, k, 100)
      [] k.kind = "approaching" -> Reached(e, k, IF e.row.threshold = None THEN 80 ELSE e.row.threshold)
      [] k.kind = "mismatch" -> k.of \in mismatched
      [] k.kind = "uncategorized" -> Uncategorized(e.found) > k.at
      [] k.kind = "milestone" -> \E saved \in Saved(e) : 100 * saved >= k.at * e.row.target
      [] k.kind = "deadline" -> e.row.targetDate - e.day < k.at

\* A new alert has a cause in what its evaluation has read: the row, the day and
\* the ledger that it held do reach what the alert announces, added up here
\* independently.  That the ledger has changed since is no reason not to insert.
AlertsJustified ==
    [][\A k \in DOMAIN event' \ DOMAIN event :
          \E j \in Jobs : job'[j] # job[j] /\ Caused(k, job[j])]_vars

\* Evaluations that overlap or are repeated leave the alerts that exist alone,
\* and what the user dismissed stays dismissed.
EventsKept ==
    [][\A k \in DOMAIN event :
          /\ k \in DOMAIN event'
          /\ event[k].dismissed => event'[k].dismissed
          /\ job' # job => event'[k] = event[k]]_vars

Due ==
    UNION {BudgetKeys(b, budget[b], BudgetStatus(ledger, budget[b], today)) :
             b \in {c \in Budgets : Live(budget[c])}}
    \union {[kind |-> "mismatch", of |-> s] : s \in mismatched}

\* Whatever is lost or fails, sooner or later every budget that needs attention
\* and every statement that does not add up has its alert.
AlertsCatchUp == []<>(Due \subseteq DOMAIN event)
==============================================================================
