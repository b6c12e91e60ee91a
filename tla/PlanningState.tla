---------------------------- MODULE PlanningState ----------------------------
(***************************************************************************)
(* The budgets, savings goals, alert rules and alert events of one user,   *)
(* the ledger they are measured against, and the requests that edit them.  *)
(* An edit reads the row and its references, and writes in a later step.   *)
(***************************************************************************)
EXTENDS PlanningReports

CONSTANTS
    Budgets, Goals, Rules,         \* ids
    Accounts, AccountCurrency,     \* the accounts, all owned by the user
    Archived,                      \* those whose status is archived
    NewBudgets, NewGoals,          \* rows a create request may ask for
    BudgetPatches, GoalPatches,    \* fields a patch may set
    Configs,                       \* alert rule configurations
    Ledgers, Statements,           \* bound: ledgers, and imported statements
    Starts,                        \* bound: the rows and the ledger it begins with
    FirstDay, LastDay,             \* bound: today in the user's time zone
    Requests,                      \* requests the web process may have in flight
    MaxEdits                       \* bound: changes to rows, ledger and day

VARIABLES
    budget, goal, rule,    \* budgets, savings_goals, alert_rules; None: no row
    event,                 \* alert_events by dedupe key
    ledger, mismatched,    \* transactions; imported statements that do not add up
    today, edits,
    request                \* what each request in flight is about to write

stored == <<budget, goal, rule>>
world == <<ledger, mismatched, today>>

BudgetFields == {"currency", "amount", "period", "custom", "category", "account", "threshold",
                 "rollover", "enabled"}

GoalFields == {"currency", "target", "targetDate", "mode", "account", "saved", "enabled"}

Modes == {"manual", "account_balance"}

RuleTypes == {"uncategorized_transactions", "goal_milestone", "goal_deadline"}

Periods == {"weekly", "monthly", "yearly", "custom"}

\* The values of the columns that a row, a request or a patch has.
BudgetValues(row) ==
    /\ "amount" \in DOMAIN row => row.amount \in Nat \ {0}
    /\ "period" \in DOMAIN row => row.period \in Periods
    /\ "custom" \in DOMAIN row => row.custom \in [start : Int, end : Int] \union {None}
    /\ "threshold" \in DOMAIN row => row.threshold \in 1..100 \union {None}

GoalValues(row) ==
    /\ "target" \in DOMAIN row => row.target \in Nat \ {0}
    /\ "targetDate" \in DOMAIN row => row.targetDate \in Int \union {None}
    /\ "mode" \in DOMAIN row => row.mode \in Modes
    /\ "account" \in DOMAIN row => row.account \in Accounts \union {None}
    /\ "saved" \in DOMAIN row => row.saved \in Nat \union {None}

BudgetShape(row) ==
    /\ DOMAIN row = BudgetFields \union {"created", "archived"} /\ BudgetValues(row)
    /\ row.custom = None <=> row.period # "custom"

GoalShape(row) ==
    /\ DOMAIN row = GoalFields \union {"archived"} /\ GoalValues(row)
    /\ row.account \in IF row.mode = "manual" THEN {None} ELSE Accounts

RuleShape(row) ==
    /\ DOMAIN row = {"config", "enabled", "archived"}
    /\ row.config \in Configs /\ row.enabled \in BOOLEAN /\ row.archived \in BOOLEAN

\* What the schemas of the requests let through.  Only alerts read what a
\* configuration holds besides its type; it names a goal that exists.
ConfigShape(config) ==
    CASE config.type = "uncategorized_transactions" -> config.threshold \in Nat \ {0}
      [] config.type = "goal_milestone" -> config.goal \in Goals /\ config.milestones \in Seq(1..100)
      [] config.type = "goal_deadline" -> config.goal \in Goals /\ config.daysBefore \in 1..365

ASSUME PlanningAssumption ==
    /\ None \notin Accounts
    /\ \A new \in NewBudgets : DOMAIN new = BudgetFields /\ BudgetValues(new)
    /\ \A patch \in BudgetPatches : DOMAIN patch \subseteq BudgetFields /\ BudgetValues(patch)
    /\ \A new \in NewGoals : /\ DOMAIN new = GoalFields /\ GoalValues(new)
                             /\ new.mode = "account_balance" => new.account \in Accounts
    /\ \A patch \in GoalPatches : DOMAIN patch \subseteq GoalFields /\ GoalValues(patch)
    /\ \A config \in Configs : config.type \in RuleTypes /\ ConfigShape(config)
    /\ \A start \in Starts :
          /\ start.budget \in [Budgets -> Range(start.budget)]
          /\ start.goal \in [Goals -> Range(start.goal)]
          /\ start.rule \in [Rules -> Range(start.rule)]
          /\ \A b \in Budgets : start.budget[b] # None => BudgetShape(start.budget[b])
          /\ \A g \in Goals : start.goal[g] # None => GoalShape(start.goal[g])
          /\ \A r \in Rules : start.rule[r] # None =>
                /\ RuleShape(start.rule[r])
                /\ start.rule[r].config.type # "uncategorized_transactions" =>
                      start.goal[start.rule[r].config.goal] # None
          /\ start.ledger \in Ledgers
    /\ FirstDay \in Int /\ LastDay \in Int /\ FirstDay <= LastDay
    /\ MaxEdits \in Nat

\* The rows of the transactions table, as far as budgets and goals read them.
LedgerShape(l) ==
    /\ IsFiniteSet(l)
    /\ \A t \in l : /\ t.amount \in Int /\ t.balance \in Int \union {None}
                    /\ IsFiniteSet(t.splits) /\ \A s \in t.splits : s.amount \in Int

ASSUME PlanningLedgersAssumption == \A l \in Ledgers : LedgerShape(l)

\* A dedupe key is a record here: its kind, the row it is of, and what follows.
Kinds == {"exceeded", "approaching", "mismatch", "uncategorized", "milestone", "deadline"}

------------------------------------------------------------------------------
(* The constraints of the tables; an update that breaks one fails.         *)

\* A row with the columns that an UPDATE sets.
With(set, row) ==
    [c \in DOMAIN set \union DOMAIN row |-> IF c \in DOMAIN set THEN set[c] ELSE row[c]]

\* Mutant: the table does not check the dates.
BudgetUnchecked(row) == TRUE

BudgetConsistent(row) ==
    /\ row.period = "custom" <=> row.custom # None
    /\ row.custom # None => row.custom.start <= row.custom.end

GoalConsistent(row) == row.mode = "account_balance" <=> row.account # None

Edit == edits < MaxEdits /\ edits' = edits + 1

Idle == [pc |-> "idle"]

\* Both check the account that the input names, not the one the row has.
AccountFits(account, currency) ==
    account # None => account \notin Archived /\ AccountCurrency[account] = currency

Given(patch, field, row) == IF field \in DOMAIN patch THEN patch[field] ELSE row[field]

------------------------------------------------------------------------------
(* Budgets.                                                                *)

CreateBudget(b) ==
    /\ budget[b] = None
    /\ Edit
    /\ \E new \in NewBudgets :
         LET row == With([created |-> today, archived |-> FALSE], new) IN
         /\ AccountFits(new.account, new.currency)
         /\ BudgetConsistent(row)
         /\ budget' = [budget EXCEPT ![b] = row]
    /\ UNCHANGED <<goal, rule, event, world, request>>

\* The custom dates are always written, from the row as it was read.
ReadBudgetPatch(q, b) ==
    /\ request[q] = Idle
    /\ budget[b] # None
    /\ Edit
    /\ \E patch \in BudgetPatches :
         LET currency == Given(patch, "currency", budget[b])
             period == Given(patch, "period", budget[b])
             dates == IF period = "custom" THEN Given(patch, "custom", budget[b]) ELSE None
         IN /\ "account" \in DOMAIN patch => AccountFits(patch.account, currency)
            /\ request' = [request EXCEPT ![q] =
                  [pc |-> "budget", of |-> b, values |-> With([custom |-> dates], patch)]]
    /\ UNCHANGED <<stored, event, world>>

WriteBudgetPatch(q) ==
    /\ request[q].pc = "budget"
    /\ LET b == request[q].of
           row == With(request[q].values, budget[b])
       IN budget' = IF BudgetConsistent(row) THEN [budget EXCEPT ![b] = row] ELSE budget
    /\ request' = [request EXCEPT ![q] = Idle]
    /\ UNCHANGED <<goal, rule, event, world, edits>>

BudgetAction ==
    [archive |-> [archived |-> TRUE, enabled |-> FALSE], restore |-> [archived |-> FALSE],
     enable |-> [enabled |-> TRUE], disable |-> [enabled |-> FALSE]]

ActionBudget(b) ==
    /\ budget[b] # None
    /\ Edit
    /\ \E action \in DOMAIN BudgetAction :
         budget' = [budget EXCEPT ![b] = With(BudgetAction[action], @)]
    /\ UNCHANGED <<goal, rule, event, world, request>>

------------------------------------------------------------------------------
(* Savings goals.                                                          *)

CreateGoal(g) ==
    /\ goal[g] = None
    /\ Edit
    /\ \E new \in NewGoals :
         /\ new.mode = "account_balance" => AccountFits(new.account, new.currency)
         /\ goal' = [goal EXCEPT ![g] =
                        With([account |-> IF new.mode = "account_balance" THEN new.account ELSE None,
                              saved |-> IF new.mode # "manual" THEN None
                                        ELSE IF new.saved = None THEN 0 ELSE new.saved,
                              archived |-> FALSE], new)]
    /\ UNCHANGED <<budget, rule, event, world, request>>

\* The account and the saved amount are always written, from the row as read.
ReadGoalPatch(q, g) ==
    /\ request[q] = Idle
    /\ goal[g] # None
    /\ Edit
    /\ \E patch \in GoalPatches :
         LET tracked == Given(patch, "mode", goal[g]) = "account_balance"
             Known(field) == IF field \in DOMAIN patch /\ patch[field] # None
                             THEN patch[field] ELSE goal[g][field]
             account == IF tracked THEN Known("account") ELSE None
             saved == IF tracked THEN None
                      ELSE IF Known("saved") = None THEN 0 ELSE Known("saved")
         IN /\ AccountFits(account, Given(patch, "currency", goal[g]))
            /\ request' = [request EXCEPT ![q] =
                  [pc |-> "goal", of |-> g,
                   values |-> With([account |-> account, saved |-> saved], patch)]]
    /\ UNCHANGED <<stored, event, world>>

ReadProgress(q, g) ==
    /\ request[q] = Idle
    /\ goal[g] # None
    /\ goal[g].mode = "manual"
    /\ Edit
    /\ \E patch \in {p \in GoalPatches : DOMAIN p = {"saved"} /\ p.saved # None} :
         request' = [request EXCEPT ![q] = [pc |-> "goal", of |-> g, values |-> patch]]
    /\ UNCHANGED <<stored, event, world>>

WriteGoal(q) ==
    /\ request[q].pc = "goal"
    /\ LET g == request[q].of
           row == With(request[q].values, goal[g])
       IN goal' = IF GoalConsistent(row) THEN [goal EXCEPT ![g] = row] ELSE goal
    /\ request' = [request EXCEPT ![q] = Idle]
    /\ UNCHANGED <<budget, rule, event, world, edits>>

ActionGoal(g) ==
    /\ goal[g] # None
    /\ Edit
    /\ \E values \in {[archived |-> TRUE, enabled |-> FALSE], [archived |-> FALSE]} :
         goal' = [goal EXCEPT ![g] = With(values, @)]
    /\ UNCHANGED <<budget, rule, event, world, request>>

------------------------------------------------------------------------------
(* Alert rules and alert events.  A configuration names a goal that exists *)
(* when it is stored.                                                      *)

ConfigFits(config) == config.type # "uncategorized_transactions" => goal[config.goal] # None

CreateRule(r) ==
    /\ rule[r] = None
    /\ Edit
    /\ \E config \in Configs :
         /\ ConfigFits(config)
         /\ rule' = [rule EXCEPT ![r] = [config |-> config, enabled |-> TRUE, archived |-> FALSE]]
    /\ UNCHANGED <<budget, goal, event, world, request>>

UpdateRule(r) ==
    /\ rule[r] # None
    /\ Edit
    /\ \E config \in Configs :
         /\ ConfigFits(config)
         /\ rule' = [rule EXCEPT ![r].config = config]
    /\ UNCHANGED <<budget, goal, event, world, request>>

RuleAction ==
    [enable |-> [enabled |-> TRUE, archived |-> FALSE], disable |-> [enabled |-> FALSE],
     archive |-> [enabled |-> FALSE, archived |-> TRUE],
     restore |-> [enabled |-> FALSE, archived |-> FALSE]]

ActionRule(r) ==
    /\ rule[r] # None
    /\ Edit
    /\ \E action \in DOMAIN RuleAction : rule' = [rule EXCEPT ![r] = With(RuleAction[action], @)]
    /\ UNCHANGED <<budget, goal, event, world, request>>

EventAction ==
    [read |-> [read |-> TRUE], unread |-> [read |-> FALSE],
     dismiss |-> [dismissed |-> TRUE, read |-> TRUE]]

ActionEvent(k) ==
    /\ Edit
    /\ \E action \in DOMAIN EventAction : event' = [event EXCEPT ![k] = With(EventAction[action], @)]
    /\ UNCHANGED <<stored, world, request>>

UnreadAlertCount == Cardinality({k \in DOMAIN event : ~event[k].read /\ ~event[k].dismissed})

------------------------------------------------------------------------------
(* What other components do: the ledger changes, a statement that does not *)
(* add up is imported, a day passes.                                       *)

ChangeLedger ==
    /\ Edit
    /\ \E l \in Ledgers \ {ledger} : ledger' = l
    /\ UNCHANGED <<stored, event, mismatched, today, request>>

ImportMismatch ==
    /\ Edit
    /\ \E s \in Statements \ mismatched : mismatched' = mismatched \union {s}
    /\ UNCHANGED <<stored, event, ledger, today, request>>

DayPasses ==
    /\ today < LastDay
    /\ today' = today + 1
    /\ Edit
    /\ UNCHANGED <<stored, event, ledger, mismatched, request>>

Request ==
    \/ \E b \in Budgets : CreateBudget(b) \/ ActionBudget(b)
    \/ \E g \in Goals : CreateGoal(g) \/ ActionGoal(g)
    \/ \E r \in Rules : CreateRule(r) \/ UpdateRule(r) \/ ActionRule(r)
    \/ \E q \in Requests, b \in Budgets : ReadBudgetPatch(q, b)
    \/ \E q \in Requests, g \in Goals : ReadGoalPatch(q, g) \/ ReadProgress(q, g)
    \/ \E q \in Requests : WriteBudgetPatch(q) \/ WriteGoal(q)
    \/ \E k \in DOMAIN event : ActionEvent(k)

Elsewhere == ChangeLedger \/ ImportMismatch \/ DayPasses
==============================================================================
