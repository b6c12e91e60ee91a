---------------------------- MODULE PlanningProofs ----------------------------
(***************************************************************************)
(* Proofs about planning and the evaluation of alerts, for any number of   *)
(* rows, requests, jobs and days: what the tables hold, whatever order the *)
(* requests write in, that alerts are never lost or written over, and that *)
(* none is raised without a cause.                                         *)
(*                                                                         *)
(* A request writes what it has read from the row at an earlier time, so   *)
(* AlertInv adds to the types what a request in flight is about to write   *)
(* and what an evaluation has listed and read.                             *)
(*                                                                         *)
(* That an alert has its cause rests on sums over finite sets: the spend-  *)
(* ing a budget counts, by category and then in total, is what a reader    *)
(* of the ledger adds up in any order; and what it carries over is never   *)
(* negative, so a share of its limit is a share of its amount.             *)
(***************************************************************************)
EXTENDS AlertEvaluation, SumProofs

\* What a request in flight may write fits the row it is for.
BudgetRequest(r) ==
    /\ r.of \in Budgets /\ BudgetShape(budget[r.of])
    /\ DOMAIN r.values \subseteq BudgetFields /\ BudgetValues(r.values)

GoalRequest(r) ==
    /\ r.of \in Goals /\ GoalShape(goal[r.of])
    /\ DOMAIN r.values \subseteq GoalFields /\ GoalValues(r.values)

RequestsFit ==
    \A q \in Requests :
       /\ request[q].pc \in {"idle", "budget", "goal"}
       /\ request[q].pc = "budget" => BudgetRequest(request[q])
       /\ request[q].pc = "goal" => GoalRequest(request[q])

\* The goal of a configuration that was stored stays.
StoredConfig(config) ==
    /\ config \in Configs
    /\ config.type # "uncategorized_transactions" => GoalShape(goal[config.goal])

RulesFit == \A r \in Rules : rule[r] # None => StoredConfig(rule[r].config)

\* Every read of the ledger that a status uses has found one.
FoundFits(e) == e.found \in [0..RolloverPeriods -> Ledgers]

\* An evaluation goes through rows that are there, and holds one as it was, with
\* the day, what it has read of the ledger and the milestones it has to go.
JobFits(e) ==
    /\ e.pc \in {"budgets", "spending"} =>
          \A item \in e.todo : item[1] \in Budgets /\ BudgetShape(budget[item[1]])
    /\ e.pc = "spending" =>
          BudgetShape(e.row) /\ e.day \in Int /\ e.read \in Nat /\ (e.read # 0 => FoundFits(e))
    /\ e.pc \in {"statements", "statement"} => e.todo \subseteq mismatched
    /\ e.pc = "statement" => e.of \in mismatched
    /\ e.pc \in {"rules"} \union RuleTypes => \A item \in e.todo : StoredConfig(item[2])
    /\ e.pc \in RuleTypes => e.config \in Configs /\ e.config.type = e.pc
    /\ e.pc \in {"goal_milestone", "goal_deadline"} =>
          GoalShape(e.row) /\ e.day \in Int /\ e.found \in Ledgers \union {None}
    /\ e.pc = "goal_milestone" => e.left \in Seq(1..100)

JobsFit == \A j \in Jobs : JobFits(job[j])

Domains ==
    /\ DOMAIN budget = Budgets /\ DOMAIN goal = Goals /\ DOMAIN rule = Rules
    /\ DOMAIN request = Requests /\ DOMAIN job = Jobs

AlertInv == TypeOK /\ Domains /\ RulesFit /\ RequestsFit /\ JobsFit

JobPc == {"none", "created", "budgets", "spending", "statements", "statement", "rules"}
            \union RuleTypes

------------------------------------------------------------------------------
(* An UPDATE sets the columns it names and leaves the others.              *)

\* An UPDATE neither adds nor drops a column beyond those it sets.
LEMMA WithDomain ==
    ASSUME NEW set, NEW row
    PROVE  DOMAIN With(set, row) = DOMAIN set \union DOMAIN row
  BY DEF With

\* The columns an UPDATE sets have the values it sets.
LEMMA WithSet ==
    ASSUME NEW set, NEW row, NEW c \in DOMAIN set
    PROVE  With(set, row)[c] = set[c]
  BY DEF With

\* The other columns of the row stay as they are.
LEMMA WithKept ==
    ASSUME NEW set, NEW row, NEW c \in DOMAIN row \ DOMAIN set
    PROVE  With(set, row)[c] = row[c]
  BY DEF With

\* Allowed values set in a row of allowed values make one.
LEMMA BudgetValuesSet ==
    ASSUME NEW set, NEW row, BudgetValues(set), BudgetValues(row)
    PROVE  BudgetValues(With(set, row))
<1>1. PICK new : new = With(set, row)
  OBVIOUS
<1>2. ASSUME NEW c \in DOMAIN new
      PROVE  (c \in DOMAIN set /\ new[c] = set[c]) \/ (c \in DOMAIN row /\ new[c] = row[c])
  BY <1>1 DEF With
<1> QED
  BY <1>1, <1>2 DEF BudgetValues

\* The same for a goal.
LEMMA GoalValuesSet ==
    ASSUME NEW set, NEW row, GoalValues(set), GoalValues(row)
    PROVE  GoalValues(With(set, row))
<1>1. PICK new : new = With(set, row)
  OBVIOUS
<1>2. ASSUME NEW c \in DOMAIN new
      PROVE  (c \in DOMAIN set /\ new[c] = set[c]) \/ (c \in DOMAIN row /\ new[c] = row[c])
  BY <1>1 DEF With
<1> QED
  BY <1>1, <1>2 DEF GoalValues

\* The columns of a budget after a patch, and after an action on its flags.
LEMMA BudgetSet ==
    ASSUME NEW set, NEW row, BudgetValues(row), BudgetValues(set),
           DOMAIN row = BudgetFields \union {"created", "archived"},
           DOMAIN set \subseteq BudgetFields, BudgetConsistent(With(set, row))
    PROVE  BudgetShape(With(set, row))
<1>1. DOMAIN set \union DOMAIN row = DOMAIN row
  OBVIOUS
<1>2. DOMAIN With(set, row) = DOMAIN row
  BY <1>1, WithDomain
<1> QED
  BY <1>2, BudgetValuesSet DEF BudgetShape, BudgetConsistent

\* Setting its flags leaves a budget within its checks.
LEMMA BudgetFlagsSet ==
    ASSUME NEW set, NEW row, BudgetShape(row), DOMAIN set \subseteq {"archived", "enabled"}
    PROVE  BudgetShape(With(set, row))
<1>1. "custom" \in DOMAIN row \ DOMAIN set /\ "period" \in DOMAIN row \ DOMAIN set
  BY DEF BudgetShape, BudgetFields
<1>2. With(set, row).custom = row.custom /\ With(set, row).period = row.period
  BY <1>1, WithKept
<1>3. DOMAIN set \subseteq DOMAIN row
  BY DEF BudgetShape, BudgetFields
<1>4. DOMAIN With(set, row) = BudgetFields \union {"created", "archived"}
  BY <1>3, WithDomain DEF BudgetShape
<1>5. BudgetValues(set)
  BY DEF BudgetValues
<1> QED
  BY <1>2, <1>4, <1>5, BudgetValuesSet DEF BudgetShape

\* A goal after a patch.
LEMMA GoalSet ==
    ASSUME NEW set, NEW row, GoalShape(row), DOMAIN set \subseteq GoalFields, GoalValues(set),
           GoalConsistent(With(set, row))
    PROVE  GoalShape(With(set, row))
<1>1. DOMAIN With(set, row) = GoalFields \union {"archived"}
  <2>1. DOMAIN row = GoalFields \union {"archived"}
    BY DEF GoalShape
  <2>2. DOMAIN set \union DOMAIN row = DOMAIN row
    BY <2>1
  <2> QED
    BY ONLY <2>1, <2>2, WithDomain
<1>2. GoalValues(With(set, row))
  BY GoalValuesSet DEF GoalShape
<1>3. With(set, row).mode \in Modes /\ With(set, row).account \in Accounts \union {None}
  BY <1>1, <1>2 DEF GoalValues, GoalFields
<1> QED
  BY <1>1, <1>2, <1>3 DEF GoalConsistent, GoalShape, Modes

\* Setting its flags leaves a goal within its checks.
LEMMA GoalFlagsSet ==
    ASSUME NEW set, NEW row, GoalShape(row), DOMAIN set \subseteq {"archived", "enabled"}
    PROVE  GoalShape(With(set, row))
<1>1. "mode" \in DOMAIN row \ DOMAIN set /\ "account" \in DOMAIN row \ DOMAIN set
  BY DEF GoalShape, GoalFields
<1>2. With(set, row).mode = row.mode /\ With(set, row).account = row.account
  BY <1>1, WithKept
<1>3. DOMAIN set \subseteq DOMAIN row
  BY DEF GoalShape, GoalFields
<1>4. DOMAIN With(set, row) = GoalFields \union {"archived"}
  BY <1>3, WithDomain DEF GoalShape
<1>5. GoalValues(set)
  BY DEF GoalValues
<1> QED
  BY <1>2, <1>4, <1>5, GoalValuesSet DEF GoalShape

\* And for a rule.
LEMMA RuleFlagsSet ==
    ASSUME NEW set, NEW row, RuleShape(row), DOMAIN set \subseteq {"archived", "enabled"},
           \A c \in DOMAIN set : set[c] \in BOOLEAN
    PROVE  RuleShape(With(set, row)) /\ With(set, row).config = row.config
<1>1. DOMAIN row = {"config", "enabled", "archived"}
  BY DEF RuleShape
<1>2. DOMAIN With(set, row) = {"config", "enabled", "archived"}
  BY <1>1, WithDomain
<1>3. With(set, row).config = row.config
  BY <1>1, WithKept
<1>4. ASSUME NEW c \in {"enabled", "archived"}
      PROVE  With(set, row)[c] \in BOOLEAN
  <2>1. row[c] \in BOOLEAN
    BY DEF RuleShape
  <2>2. CASE c \in DOMAIN set
    BY <2>2, WithSet
  <2>3. CASE c \notin DOMAIN set
    BY <1>1, <2>1, <2>3, WithKept
  <2> QED
    BY <2>2, <2>3
<1> QED
  BY <1>2, <1>3, <1>4 DEF RuleShape

------------------------------------------------------------------------------
(* The tables and the requests in flight.                                  *)

TablesOK ==
    /\ \A b \in Budgets : budget[b] # None => BudgetShape(budget[b])
    /\ \A g \in Goals : goal[g] # None => GoalShape(goal[g])
    /\ \A r \in Rules : rule[r] # None => RuleShape(rule[r])

EventsOK ==
    \A k \in DOMAIN event :
       /\ k.kind \in Kinds /\ DOMAIN event[k] = {"read", "dismissed"}
       /\ event[k].read \in BOOLEAN /\ event[k].dismissed \in BOOLEAN

\* No row is lost, so what a request has read is still there to be written to.
RowsKept ==
    /\ \A b \in Budgets : BudgetShape(budget[b]) => BudgetShape(budget'[b])
    /\ \A g \in Goals : GoalShape(goal[g]) => GoalShape(goal'[g])

\* A budget written within its checks leaves all tables so.
LEMMA BudgetWritten ==
    ASSUME Domains, TablesOK, NEW b \in Budgets, NEW row, BudgetShape(row),
           budget' = [budget EXCEPT ![b] = row], UNCHANGED <<goal, rule>>
    PROVE  TablesOK' /\ RowsKept /\ DOMAIN budget' = Budgets
<1>1. \A c \in Budgets : budget'[c] = IF c = b THEN row ELSE budget[c]
  BY DEF Domains
<1> QED
  BY <1>1 DEF Domains, TablesOK, RowsKept

\* A goal written within its checks leaves all tables so.
LEMMA GoalWritten ==
    ASSUME Domains, TablesOK, NEW g \in Goals, NEW row, GoalShape(row),
           goal' = [goal EXCEPT ![g] = row], UNCHANGED <<budget, rule>>
    PROVE  TablesOK' /\ RowsKept /\ DOMAIN goal' = Goals
<1>1. \A c \in Goals : goal'[c] = IF c = g THEN row ELSE goal[c]
  BY DEF Domains
<1> QED
  BY <1>1 DEF Domains, TablesOK, RowsKept

\* An alert rule written within its checks leaves all tables so.
LEMMA RuleWritten ==
    ASSUME Domains, TablesOK, NEW r \in Rules, NEW row, RuleShape(row),
           rule' = [rule EXCEPT ![r] = row], UNCHANGED <<budget, goal>>
    PROVE  TablesOK' /\ RowsKept /\ DOMAIN rule' = Rules
<1>1. \A c \in Rules : rule'[c] = IF c = r THEN row ELSE rule[c]
  BY DEF Domains
<1> QED
  BY <1>1 DEF Domains, TablesOK, RowsKept

\* Tables that are not written stay within their checks.
LEMMA NothingWritten ==
    ASSUME TablesOK, UNCHANGED <<budget, goal, rule>>
    PROVE  TablesOK' /\ RowsKept
  BY DEF TablesOK, RowsKept

\* Rules that are not written keep naming goals that are there.
LEMMA RulesKept ==
    ASSUME RulesFit, RowsKept, UNCHANGED rule
    PROVE  RulesFit'
<1>1. ASSUME NEW r \in Rules, rule[r] # None
      PROVE  rule[r].config \in Configs /\ ConfigShape(rule[r].config)
  BY <1>1, PlanningAssumption DEF RulesFit, StoredConfig
<1>2. ASSUME NEW config \in Configs, config.type # "uncategorized_transactions"
      PROVE  config.goal \in Goals
  BY <1>2, PlanningAssumption DEF ConfigShape, RuleTypes
<1> QED
  BY <1>1, <1>2 DEF RulesFit, StoredConfig, RowsKept

\* A request ends, or keeps what it has read.
LEMMA RequestsKept ==
    ASSUME RequestsFit, RowsKept, UNCHANGED request
    PROVE  RequestsFit'
  BY DEF RequestsFit, BudgetRequest, GoalRequest, RowsKept

\* A request that ends holds nothing.
LEMMA RequestEnds ==
    ASSUME Domains, RequestsFit, RowsKept, NEW q \in Requests,
           request' = [request EXCEPT ![q] = Idle]
    PROVE  RequestsFit' /\ DOMAIN request' = Requests
<1>1. \A p \in Requests : request'[p] = IF p = q THEN Idle ELSE request[p]
  BY DEF Domains
<1>2. Idle.pc = "idle"
  BY DEF Idle
<1> QED
  BY <1>1, <1>2 DEF Domains, RequestsFit, BudgetRequest, GoalRequest, RowsKept

\* A request that has read its row, and what it is going to write.
LEMMA BudgetRead ==
    ASSUME Domains, RequestsFit, NEW q \in Requests, NEW b \in Budgets, BudgetShape(budget[b]),
           NEW values, DOMAIN values \subseteq BudgetFields, BudgetValues(values),
           UNCHANGED <<budget, goal>>,
           request' = [request EXCEPT ![q] = [pc |-> "budget", of |-> b, values |-> values]]
    PROVE  RequestsFit' /\ DOMAIN request' = Requests
<1> DEFINE new == [pc |-> "budget", of |-> b, values |-> values]
<1>1. \A p \in Requests : request'[p] = IF p = q THEN new ELSE request[p]
  BY DEF Domains
<1>2. new.pc = "budget" /\ new.of = b /\ new.values = values
  OBVIOUS
<1> HIDE DEF new
<1> QED
  BY <1>1, <1>2 DEF Domains, RequestsFit, BudgetRequest, GoalRequest

\* What an edit of a goal is about to write are columns of goals.
LEMMA GoalRead ==
    ASSUME Domains, RequestsFit, NEW q \in Requests, NEW g \in Goals, GoalShape(goal[g]),
           NEW values, DOMAIN values \subseteq GoalFields, GoalValues(values),
           UNCHANGED <<budget, goal>>,
           request' = [request EXCEPT ![q] = [pc |-> "goal", of |-> g, values |-> values]]
    PROVE  RequestsFit' /\ DOMAIN request' = Requests
<1> DEFINE new == [pc |-> "goal", of |-> g, values |-> values]
<1>1. \A p \in Requests : request'[p] = IF p = q THEN new ELSE request[p]
  BY DEF Domains
<1>2. new.pc = "goal" /\ new.of = g /\ new.values = values
  OBVIOUS
<1> HIDE DEF new
<1> QED
  BY <1>1, <1>2 DEF Domains, RequestsFit, BudgetRequest, GoalRequest

------------------------------------------------------------------------------
(* What each request does.                                                 *)

\* The actions on a budget set its flags alone.
LEMMA BudgetColumns ==
    ASSUME NEW a \in DOMAIN BudgetAction
    PROVE  DOMAIN BudgetAction[a] \subseteq {"archived", "enabled"}
  BY DEF BudgetAction

\* The actions on an alert rule set its flags alone.
LEMMA RuleColumns ==
    ASSUME NEW a \in DOMAIN RuleAction
    PROVE  /\ DOMAIN RuleAction[a] \subseteq {"archived", "enabled"}
           /\ \A c \in DOMAIN RuleAction[a] : RuleAction[a][c] \in BOOLEAN
<1>1. a \in {"enable", "disable", "archive", "restore"}
  BY DEF RuleAction
<1>2. CASE a = "enable"
  <2>1. RuleAction[a] = [enabled |-> TRUE, archived |-> FALSE]
    BY <1>2 DEF RuleAction
  <2>2. DOMAIN RuleAction[a] = {"enabled", "archived"}
    BY <2>1
  <2>3. RuleAction[a].enabled \in BOOLEAN /\ RuleAction[a].archived \in BOOLEAN
    BY <2>1
  <2> QED
    BY <2>2, <2>3
<1>3. CASE a = "disable"
  <2>1. RuleAction[a] = [enabled |-> FALSE]
    BY <1>3 DEF RuleAction
  <2>2. DOMAIN RuleAction[a] = {"enabled"}
    BY <2>1
  <2>3. RuleAction[a].enabled \in BOOLEAN
    BY <2>1
  <2> QED
    BY <2>2, <2>3
<1>4. CASE a = "archive"
  <2>1. RuleAction[a] = [enabled |-> FALSE, archived |-> TRUE]
    BY <1>4 DEF RuleAction
  <2>2. DOMAIN RuleAction[a] = {"enabled", "archived"}
    BY <2>1
  <2>3. RuleAction[a].enabled \in BOOLEAN /\ RuleAction[a].archived \in BOOLEAN
    BY <2>1
  <2> QED
    BY <2>2, <2>3
<1>5. CASE a = "restore"
  <2>1. RuleAction[a] = [enabled |-> FALSE, archived |-> FALSE]
    BY <1>5 DEF RuleAction
  <2>2. DOMAIN RuleAction[a] = {"enabled", "archived"}
    BY <2>1
  <2>3. RuleAction[a].enabled \in BOOLEAN /\ RuleAction[a].archived \in BOOLEAN
    BY <2>1
  <2> QED
    BY <2>2, <2>3
<1> QED
  BY <1>1, <1>2, <1>3, <1>4, <1>5

\* The actions on an alert set its flags alone, and none brings one back.
LEMMA EventColumns ==
    ASSUME NEW a \in DOMAIN EventAction
    PROVE  /\ DOMAIN EventAction[a] \subseteq {"read", "dismissed"}
           /\ \A c \in DOMAIN EventAction[a] : EventAction[a][c] \in BOOLEAN
           /\ "dismissed" \in DOMAIN EventAction[a] => EventAction[a].dismissed
<1>1. a \in {"read", "unread", "dismiss"}
  BY DEF EventAction
<1>2. CASE a = "read"
  <2>1. EventAction[a] = [read |-> TRUE]
    BY <1>2 DEF EventAction
  <2>2. DOMAIN EventAction[a] = {"read"}
    BY <2>1
  <2>3. EventAction[a].read \in BOOLEAN
    BY <2>1
  <2> QED
    BY <2>2, <2>3
<1>3. CASE a = "unread"
  <2>1. EventAction[a] = [read |-> FALSE]
    BY <1>3 DEF EventAction
  <2>2. DOMAIN EventAction[a] = {"read"}
    BY <2>1
  <2>3. EventAction[a].read \in BOOLEAN
    BY <2>1
  <2> QED
    BY <2>2, <2>3
<1>4. CASE a = "dismiss"
  <2>1. EventAction[a] = [dismissed |-> TRUE, read |-> TRUE]
    BY <1>4 DEF EventAction
  <2>2. DOMAIN EventAction[a] = {"dismissed", "read"}
    BY <2>1
  <2>3. /\ EventAction[a].dismissed \in BOOLEAN /\ EventAction[a].read \in BOOLEAN
        /\ EventAction[a].dismissed
    BY <2>1
  <2> QED
    BY <2>2, <2>3
<1> QED
  BY <1>1, <1>2, <1>3, <1>4

\* What every request leaves in order.
RequestKeeps ==
    /\ TablesOK' /\ RowsKept /\ RequestsFit' /\ RulesFit'
    /\ DOMAIN budget' = Budgets /\ DOMAIN goal' = Goals /\ DOMAIN rule' = Rules
    /\ DOMAIN request' = Requests

\* Creating a budget and its actions keep rows and requests.
LEMMA BudgetSteps ==
    ASSUME AlertInv, NEW b \in Budgets, CreateBudget(b) \/ ActionBudget(b)
    PROVE  RequestKeeps
<1> USE DEF AlertInv
<1>1. TablesOK /\ Domains /\ RequestsFit /\ RulesFit
  BY DEF TypeOK, TablesOK
<1>2. UNCHANGED <<goal, rule, request>>
  BY DEF CreateBudget, ActionBudget
<1>3. CASE CreateBudget(b)
  <2>1. PICK new \in NewBudgets :
           /\ BudgetConsistent(With([created |-> today, archived |-> FALSE], new))
           /\ budget' = [budget EXCEPT ![b] = With([created |-> today, archived |-> FALSE], new)]
    BY <1>3 DEF CreateBudget
  <2> DEFINE row == With([created |-> today, archived |-> FALSE], new)
  <2>2. DOMAIN row = BudgetFields \union {"created", "archived"}
    <3> DEFINE set == [created |-> today, archived |-> FALSE]
    <3>1. DOMAIN set = {"created", "archived"}
      OBVIOUS
    <3> HIDE DEF set
    <3>2. DOMAIN With(set, new) = DOMAIN set \union DOMAIN new
      BY WithDomain
    <3> QED
      BY <3>1, <3>2, PlanningAssumption DEF set
  <2>3. BudgetShape(row)
    <3> DEFINE set == [created |-> today, archived |-> FALSE]
    <3>1. DOMAIN set = {"created", "archived"}
      OBVIOUS
    <3> HIDE DEF set
    <3>2. BudgetValues(set)
      BY <3>1 DEF BudgetValues
    <3>3. BudgetValues(With(set, new))
      BY <3>2, BudgetValuesSet, PlanningAssumption
    <3> QED
      BY <2>1, <2>2, <3>3 DEF BudgetShape, BudgetConsistent, set
  <2> HIDE DEF row
  <2>4. budget' = [budget EXCEPT ![b] = row]
    BY <2>1 DEF row
  <2> QED
    BY <1>1, <1>2, <2>3, <2>4, BudgetWritten, RequestsKept, RulesKept DEF RequestKeeps, Domains
<1>4. CASE ActionBudget(b)
  <2>1. PICK action \in DOMAIN BudgetAction :
           budget' = [budget EXCEPT ![b] = With(BudgetAction[action], budget[b])]
    BY <1>4 DEF ActionBudget
  <2>2. BudgetShape(budget[b])
    BY <1>1, <1>4 DEF ActionBudget, TablesOK
  <2>3. BudgetShape(With(BudgetAction[action], budget[b]))
    BY <2>2, BudgetColumns, BudgetFlagsSet
  <2> QED
    BY <1>1, <1>2, <2>1, <2>3, BudgetWritten, RequestsKept, RulesKept DEF RequestKeeps, Domains
<1> QED
  BY <1>3, <1>4

\* A patch of a budget, read or written, keeps rows and requests.
LEMMA BudgetPatchSteps ==
    ASSUME AlertInv, NEW q \in Requests,
           (\E b \in Budgets : ReadBudgetPatch(q, b)) \/ WriteBudgetPatch(q)
    PROVE  RequestKeeps
<1> USE DEF AlertInv
<1>1. TablesOK /\ Domains /\ RequestsFit /\ RulesFit
  BY DEF TypeOK, TablesOK
<1>2. ASSUME NEW b \in Budgets, ReadBudgetPatch(q, b)
      PROVE  RequestKeeps
  <2>0. PICK patch \in BudgetPatches :
           request' = [request EXCEPT ![q] =
              [pc |-> "budget", of |-> b,
               values |-> With([custom |-> IF Given(patch, "period", budget[b]) = "custom"
                                           THEN Given(patch, "custom", budget[b]) ELSE None],
                               patch)]]
    BY <1>2 DEF ReadBudgetPatch
  <2>1. PICK dates :
           /\ \/ dates \in {None, budget[b].custom}
              \/ "custom" \in DOMAIN patch /\ dates = patch.custom
           /\ request' = [request EXCEPT ![q] =
                 [pc |-> "budget", of |-> b, values |-> With([custom |-> dates], patch)]]
    <3>1. PICK dates : dates = IF Given(patch, "period", budget[b]) = "custom"
                               THEN Given(patch, "custom", budget[b]) ELSE None
      OBVIOUS
    <3>2. \/ dates \in {None, budget[b].custom}
          \/ "custom" \in DOMAIN patch /\ dates = patch.custom
      BY <3>1 DEF Given
    <3> QED
      BY <2>0, <3>1, <3>2
  <2>2. UNCHANGED <<budget, goal, rule>> /\ BudgetShape(budget[b])
    BY <1>1, <1>2 DEF ReadBudgetPatch, stored, TablesOK
  <2>3. DOMAIN patch \subseteq BudgetFields /\ BudgetValues(patch)
    BY PlanningAssumption
  <2>4. dates \in [start : Int, end : Int] \union {None}
    BY <2>1, <2>2, <2>3 DEF BudgetShape, BudgetValues, BudgetFields
  <2>5. DOMAIN With([custom |-> dates], patch) \subseteq BudgetFields
        /\ BudgetValues(With([custom |-> dates], patch))
    <3> DEFINE set == [custom |-> dates]
    <3>1. DOMAIN set = {"custom"} /\ set.custom = dates
      OBVIOUS
    <3> HIDE DEF set
    <3>2. DOMAIN With(set, patch) = DOMAIN set \union DOMAIN patch
      BY WithDomain
    <3>3. BudgetValues(set)
      BY <2>4, <3>1 DEF BudgetValues
    <3>4. BudgetValues(With(set, patch))
      BY <2>3, <3>3, BudgetValuesSet
    <3> QED
      BY <2>3, <3>1, <3>2, <3>4 DEF set, BudgetFields
  <2> DEFINE values == With([custom |-> dates], patch)
  <2>6. request' = [request EXCEPT ![q] = [pc |-> "budget", of |-> b, values |-> values]]
    BY <2>1
  <2> HIDE DEF values
  <2>7. DOMAIN values \subseteq BudgetFields /\ BudgetValues(values)
    BY <2>5 DEF values
  <2> QED
    BY <1>1, <2>2, <2>6, <2>7, BudgetRead, NothingWritten, RulesKept DEF RequestKeeps, Domains
<1>3. CASE WriteBudgetPatch(q)
  <2> DEFINE b == request[q].of
             row == With(request[q].values, budget[b])
  <2>1. /\ budget' = IF BudgetConsistent(row) THEN [budget EXCEPT ![b] = row] ELSE budget
        /\ request' = [request EXCEPT ![q] = Idle] /\ UNCHANGED <<goal, rule>>
        /\ request[q].pc = "budget"
    BY <1>3 DEF WriteBudgetPatch
  <2>2. /\ b \in Budgets /\ BudgetShape(budget[b])
        /\ DOMAIN request[q].values \subseteq BudgetFields /\ BudgetValues(request[q].values)
    BY <1>1, <2>1 DEF RequestsFit, BudgetRequest
  <2>3. BudgetConsistent(row) => BudgetShape(row)
    BY <2>2, BudgetSet DEF BudgetShape
  <2> HIDE DEF row
  <2>4. TablesOK' /\ RowsKept /\ DOMAIN budget' = Budgets
    <3>1. CASE BudgetConsistent(row)
      BY <1>1, <2>1, <2>2, <2>3, <3>1, BudgetWritten
    <3>2. CASE ~BudgetConsistent(row)
      BY <1>1, <2>1, <3>2, NothingWritten DEF Domains
    <3> QED
      BY <3>1, <3>2
  <2> QED
    BY <1>1, <2>1, <2>4, RequestEnds, RulesKept DEF RequestKeeps, Domains
<1> QED
  BY <1>2, <1>3

\* Creating a goal and its actions keep rows and requests.
LEMMA GoalSteps ==
    ASSUME AlertInv, NEW g \in Goals, CreateGoal(g) \/ ActionGoal(g)
    PROVE  RequestKeeps
<1> USE DEF AlertInv
<1>1. TablesOK /\ Domains /\ RequestsFit /\ RulesFit
  BY DEF TypeOK, TablesOK
<1>2. UNCHANGED <<budget, rule, request>>
  BY DEF CreateGoal, ActionGoal
<1>3. CASE CreateGoal(g)
  <2>0. PICK new \in NewGoals : \E saved :
           /\ saved \in {None, 0, new.saved}
           /\ goal' = [goal EXCEPT ![g] =
                 With([account |-> IF new.mode = "account_balance" THEN new.account ELSE None,
                       saved |-> saved, archived |-> FALSE], new)]
    BY <1>3 DEF CreateGoal
  <2>1. PICK saved :
           /\ saved \in {None, 0, new.saved}
           /\ goal' = [goal EXCEPT ![g] =
                 With([account |-> IF new.mode = "account_balance" THEN new.account ELSE None,
                       saved |-> saved, archived |-> FALSE], new)]
    BY <2>0
  <2> DEFINE account == IF new.mode = "account_balance" THEN new.account ELSE None
             set == [account |-> account, saved |-> saved, archived |-> FALSE]
             row == With(set, new)
  <2>2. /\ DOMAIN new = GoalFields /\ GoalValues(new) /\ new.mode \in Modes
        /\ new.mode = "account_balance" => new.account \in Accounts
    BY PlanningAssumption DEF GoalValues, GoalFields
  <2>3. /\ DOMAIN set = {"account", "saved", "archived"} /\ set.account = account
        /\ set.saved = saved
    OBVIOUS
  <2>a. saved \in Nat \union {None}
    BY <2>1, <2>2 DEF GoalValues, GoalFields
  <2> HIDE DEF set
  <2>4. DOMAIN row = GoalFields \union {"archived"}
    <3>1. DOMAIN row = DOMAIN set \union DOMAIN new
      BY WithDomain
    <3> QED
      BY <2>2, <2>3, <3>1 DEF GoalFields
  <2>5. row.mode = new.mode /\ row.account = account
    <3>1. "mode" \in DOMAIN new \ DOMAIN set /\ "account" \in DOMAIN set
      BY <2>2, <2>3 DEF GoalFields
    <3> QED
      BY <2>3, <3>1, WithKept, WithSet
  <2>b. GoalValues(row)
    <3>1. GoalValues(set)
      BY <2>2, <2>3, <2>a DEF GoalValues
    <3> QED
      BY <2>2, <3>1, GoalValuesSet
  <2>6. GoalShape(row)
    BY <2>2, <2>4, <2>5, <2>b DEF GoalShape, Modes
  <2> HIDE DEF row
  <2>7. goal' = [goal EXCEPT ![g] = row]
    BY <2>1 DEF row, set
  <2> QED
    BY <1>1, <1>2, <2>6, <2>7, GoalWritten, RequestsKept, RulesKept DEF RequestKeeps, Domains
<1>4. CASE ActionGoal(g)
  <2>1. PICK values \in {[archived |-> TRUE, enabled |-> FALSE], [archived |-> FALSE]} :
           goal' = [goal EXCEPT ![g] = With(values, goal[g])]
    BY <1>4 DEF ActionGoal
  <2>2. GoalShape(goal[g])
    BY <1>1, <1>4 DEF ActionGoal, TablesOK
  <2>3. DOMAIN values \subseteq {"archived", "enabled"}
    OBVIOUS
  <2>4. GoalShape(With(values, goal[g]))
    BY <2>2, <2>3, GoalFlagsSet
  <2> QED
    BY <1>1, <1>2, <2>1, <2>4, GoalWritten, RequestsKept, RulesKept DEF RequestKeeps, Domains
<1> QED
  BY <1>3, <1>4

\* A patch or the progress of a goal, read or written, keeps rows and requests.
LEMMA GoalPatchSteps ==
    ASSUME AlertInv, NEW q \in Requests,
           (\E g \in Goals : ReadGoalPatch(q, g) \/ ReadProgress(q, g)) \/ WriteGoal(q)
    PROVE  RequestKeeps
<1> USE DEF AlertInv
<1>1. TablesOK /\ Domains /\ RequestsFit /\ RulesFit
  BY DEF TypeOK, TablesOK
<1>2. ASSUME NEW g \in Goals, ReadGoalPatch(q, g)
      PROVE  RequestKeeps
  <2>1. PICK patch \in GoalPatches :
           \E account, saved :
              /\ \/ account \in {None, goal[g].account}
                 \/ "account" \in DOMAIN patch /\ account = patch.account
              /\ \/ saved \in {None, 0, goal[g].saved}
                 \/ "saved" \in DOMAIN patch /\ saved = patch.saved
              /\ request' = [request EXCEPT ![q] =
                    [pc |-> "goal", of |-> g,
                     values |-> With([account |-> account, saved |-> saved], patch)]]
    BY <1>2 DEF ReadGoalPatch
  <2>2. PICK account, saved :
           /\ \/ account \in {None, goal[g].account}
              \/ "account" \in DOMAIN patch /\ account = patch.account
           /\ \/ saved \in {None, 0, goal[g].saved}
              \/ "saved" \in DOMAIN patch /\ saved = patch.saved
           /\ request' = [request EXCEPT ![q] =
                 [pc |-> "goal", of |-> g,
                  values |-> With([account |-> account, saved |-> saved], patch)]]
    BY <2>1
  <2>3. UNCHANGED <<budget, goal, rule>> /\ GoalShape(goal[g])
    BY <1>1, <1>2 DEF ReadGoalPatch, stored, TablesOK
  <2>4. DOMAIN patch \subseteq GoalFields /\ GoalValues(patch)
    BY PlanningAssumption
  <2>5. account \in Accounts \union {None} /\ saved \in Nat \union {None}
    BY <2>2, <2>3, <2>4 DEF GoalShape, GoalValues, GoalFields
  <2> DEFINE set == [account |-> account, saved |-> saved]
             values == With(set, patch)
  <2>6. DOMAIN set = {"account", "saved"} /\ set.account = account /\ set.saved = saved
    OBVIOUS
  <2> HIDE DEF set
  <2>7. DOMAIN values \subseteq GoalFields /\ GoalValues(values)
    <3>1. DOMAIN values = DOMAIN set \union DOMAIN patch
      BY WithDomain
    <3>2. GoalValues(set)
      BY <2>5, <2>6 DEF GoalValues
    <3>3. GoalValues(values)
      BY <2>4, <3>2, GoalValuesSet
    <3> QED
      BY <2>4, <2>6, <3>1, <3>3 DEF GoalFields
  <2> HIDE DEF values
  <2>8. request' = [request EXCEPT ![q] = [pc |-> "goal", of |-> g, values |-> values]]
    BY <2>2 DEF values, set
  <2> QED
    BY <1>1, <2>3, <2>7, <2>8, GoalRead, NothingWritten, RulesKept DEF RequestKeeps, Domains
<1>3. ASSUME NEW g \in Goals, ReadProgress(q, g)
      PROVE  RequestKeeps
  <2>1. PICK patch \in GoalPatches :
           request' = [request EXCEPT ![q] = [pc |-> "goal", of |-> g, values |-> patch]]
    BY <1>3 DEF ReadProgress
  <2>2. UNCHANGED <<budget, goal, rule>> /\ GoalShape(goal[g])
    BY <1>1, <1>3 DEF ReadProgress, stored, TablesOK
  <2>3. DOMAIN patch \subseteq GoalFields /\ GoalValues(patch)
    BY PlanningAssumption
  <2> QED
    BY <1>1, <2>1, <2>2, <2>3, GoalRead, NothingWritten, RulesKept DEF RequestKeeps, Domains
<1>4. CASE WriteGoal(q)
  <2> DEFINE g == request[q].of
             row == With(request[q].values, goal[g])
  <2>1. /\ goal' = IF GoalConsistent(row) THEN [goal EXCEPT ![g] = row] ELSE goal
        /\ request' = [request EXCEPT ![q] = Idle] /\ UNCHANGED <<budget, rule>>
        /\ request[q].pc = "goal"
    BY <1>4 DEF WriteGoal
  <2>2. /\ g \in Goals /\ GoalShape(goal[g])
        /\ DOMAIN request[q].values \subseteq GoalFields /\ GoalValues(request[q].values)
    BY <1>1, <2>1 DEF RequestsFit, GoalRequest
  <2>3. GoalConsistent(row) => GoalShape(row)
    BY <2>2, GoalSet
  <2> HIDE DEF row
  <2>4. TablesOK' /\ RowsKept /\ DOMAIN goal' = Goals
    <3>1. CASE GoalConsistent(row)
      BY <1>1, <2>1, <2>2, <2>3, <3>1, GoalWritten
    <3>2. CASE ~GoalConsistent(row)
      BY <1>1, <2>1, <3>2, NothingWritten DEF Domains
    <3> QED
      BY <3>1, <3>2
  <2> QED
    BY <1>1, <2>1, <2>4, RequestEnds, RulesKept DEF RequestKeeps, Domains
<1> QED
  BY <1>2, <1>3, <1>4

\* Creating, changing and acting on an alert rule keep rows and requests.
LEMMA RuleSteps ==
    ASSUME AlertInv, NEW r \in Rules, CreateRule(r) \/ UpdateRule(r) \/ ActionRule(r)
    PROVE  RequestKeeps
<1> USE DEF AlertInv
<1>1. TablesOK /\ Domains /\ RequestsFit /\ RulesFit
  BY DEF TypeOK, TablesOK
<1>2. UNCHANGED <<budget, goal, request>>
  BY DEF CreateRule, UpdateRule, ActionRule
<1>3. \E row : RuleShape(row) /\ StoredConfig(row.config) /\ rule' = [rule EXCEPT ![r] = row]
  <2>0. ASSUME NEW config \in Configs, ConfigFits(config)
        PROVE  StoredConfig(config)
    <3>1. config.type # "uncategorized_transactions" => config.goal \in Goals
      BY PlanningAssumption DEF ConfigShape, RuleTypes
    <3> QED
      BY <1>1, <2>0, <3>1 DEF ConfigFits, StoredConfig, TablesOK
  <2>1. CASE CreateRule(r)
    <3>1. PICK config \in Configs :
             /\ ConfigFits(config)
             /\ rule' = [rule EXCEPT ![r] =
                            [config |-> config, enabled |-> TRUE, archived |-> FALSE]]
      BY <2>1 DEF CreateRule
    <3> DEFINE row == [config |-> config, enabled |-> TRUE, archived |-> FALSE]
    <3>2. RuleShape(row) /\ row.config = config
      BY DEF RuleShape
    <3> QED
      BY <2>0, <3>1, <3>2
  <2>2. CASE UpdateRule(r)
    <3>1. PICK config \in Configs :
             ConfigFits(config) /\ rule' = [rule EXCEPT ![r].config = config]
      BY <2>2 DEF UpdateRule
    <3>2. RuleShape(rule[r])
      BY <1>1, <2>2 DEF UpdateRule, TablesOK
    <3> DEFINE row == [rule[r] EXCEPT !.config = config]
    <3>3. rule' = [rule EXCEPT ![r] = row]
      BY <1>1, <3>1 DEF Domains
    <3>4. RuleShape(row) /\ row.config = config
      BY <3>2 DEF RuleShape
    <3> QED
      BY <2>0, <3>1, <3>3, <3>4
  <2>3. CASE ActionRule(r)
    <3>1. PICK action \in DOMAIN RuleAction :
             rule' = [rule EXCEPT ![r] = With(RuleAction[action], rule[r])]
      BY <2>3 DEF ActionRule
    <3>2. RuleShape(rule[r]) /\ StoredConfig(rule[r].config)
      BY <1>1, <2>3 DEF ActionRule, TablesOK, RulesFit
    <3>3. RuleShape(With(RuleAction[action], rule[r]))
          /\ With(RuleAction[action], rule[r]).config = rule[r].config
      BY <3>2, RuleColumns, RuleFlagsSet
    <3> QED
      BY <3>1, <3>2, <3>3
  <2> QED
    BY <2>1, <2>2, <2>3
<1>4. PICK row : RuleShape(row) /\ StoredConfig(row.config) /\ rule' = [rule EXCEPT ![r] = row]
  BY <1>3
<1>5. TablesOK' /\ RowsKept /\ DOMAIN rule' = Rules
  BY <1>1, <1>2, <1>4, RuleWritten
<1>6. RulesFit'
  <2>1. \A c \in Rules : rule'[c] = IF c = r THEN row ELSE rule[c]
    BY <1>1, <1>4 DEF Domains
  <2> QED
    BY <1>1, <1>2, <1>4, <2>1 DEF RulesFit, StoredConfig
<1> QED
  BY <1>1, <1>2, <1>5, <1>6, RequestsKept DEF RequestKeeps, Domains

------------------------------------------------------------------------------
(* The alerts.                                                             *)

\* An action of the user on an alert never takes a dismissal back.
LEMMA EventStep ==
    ASSUME EventsOK, NEW k \in DOMAIN event, ActionEvent(k)
    PROVE  /\ EventsOK' /\ DOMAIN event' = DOMAIN event
           /\ \A e \in DOMAIN event : event[e].dismissed => event'[e].dismissed
<1>1. PICK action \in DOMAIN EventAction :
         event' = [event EXCEPT ![k] = With(EventAction[action], event[k])]
  BY DEF ActionEvent
<1> DEFINE set == EventAction[action]
           new == With(set, event[k])
<1>2. /\ DOMAIN set \subseteq {"read", "dismissed"} /\ \A c \in DOMAIN set : set[c] \in BOOLEAN
      /\ "dismissed" \in DOMAIN set => set.dismissed
  BY EventColumns
<1>3. /\ k.kind \in Kinds /\ DOMAIN event[k] = {"read", "dismissed"}
      /\ event[k].read \in BOOLEAN /\ event[k].dismissed \in BOOLEAN
  BY DEF EventsOK
<1> HIDE DEF set
<1>4. DOMAIN new = {"read", "dismissed"}
  <2>1. DOMAIN set \union DOMAIN event[k] = {"read", "dismissed"}
    BY <1>2, <1>3
  <2> QED
    BY <2>1, WithDomain
<1>5. ASSUME NEW c \in {"read", "dismissed"}
      PROVE  new[c] \in BOOLEAN
  <2>1. event[k][c] \in BOOLEAN
    BY <1>3
  <2>2. CASE c \in DOMAIN set
    BY <1>2, <2>2, WithSet
  <2>3. CASE c \notin DOMAIN set
    BY <1>3, <2>1, <2>3, WithKept
  <2> QED
    BY <2>2, <2>3
<1>6. event[k].dismissed => new.dismissed
  <2>1. CASE "dismissed" \in DOMAIN set
    <3>1. new.dismissed = set.dismissed
      BY <2>1, WithSet
    <3> QED
      BY <1>2, <2>1, <3>1
  <2>2. CASE "dismissed" \notin DOMAIN set
    <3>1. new.dismissed = event[k].dismissed
      BY <1>3, <2>2, WithKept
    <3> QED
      BY <3>1
  <2> QED
    BY <2>1, <2>2
<1> HIDE DEF new
<1>7. /\ DOMAIN event' = DOMAIN event
      /\ \A e \in DOMAIN event : event'[e] = IF e = k THEN new ELSE event[e]
  BY <1>1 DEF new, set
<1>8. EventsOK'
  BY <1>3, <1>4, <1>5, <1>7 DEF EventsOK
<1> QED
  BY <1>6, <1>7, <1>8

\* An evaluation inserts the alerts that are not there.
LEMMA EventsInserted ==
    ASSUME EventsOK, NEW keys, \A k \in keys : k.kind \in Kinds, event' = WithEvents(keys)
    PROVE  /\ EventsOK' /\ DOMAIN event \subseteq DOMAIN event'
           /\ \A e \in DOMAIN event : event'[e] = event[e]
<1> DEFINE blank == [read |-> FALSE, dismissed |-> FALSE]
           new == [k \in keys |-> blank]
<1>1. DOMAIN new = keys /\ \A k \in keys : new[k] = blank
  OBVIOUS
<1>2. DOMAIN blank = {"read", "dismissed"} /\ blank.read \in BOOLEAN /\ blank.dismissed \in BOOLEAN
  OBVIOUS
<1> HIDE DEF blank, new
<1>3. event' = With(event, new)
  BY DEF WithEvents, new, blank
<1>4. DOMAIN event' = DOMAIN event \union keys
  BY <1>1, <1>3, WithDomain
<1>5. \A e \in DOMAIN event : event'[e] = event[e]
  BY <1>3, WithSet
<1>6. \A e \in keys \ DOMAIN event : event'[e] = blank
  BY <1>1, <1>3, WithKept
<1>7. EventsOK'
  BY <1>2, <1>4, <1>5, <1>6 DEF EventsOK
<1> QED
  BY <1>4, <1>5, <1>7

\* An evaluation records a budget, a statement or something of a rule.
Records(e) ==
    \/ RecordsBudget(e) \/ e.pc = "statement" \/ e.pc = "uncategorized_transactions"
    \/ RecordsMilestone(e) \/ RecordsDeadline(e)

\* What a step inserts, by what it records.
LEMMA InsertedBy ==
    ASSUME NEW j, NEW e, e = job[j]
    PROVE  /\ RecordsBudget(e) =>
                Inserted(j) = {BudgetKeys(e.of, e.listed, StatusFound(e.found, e.row, e.day))}
           /\ e.pc = "statement" => Inserted(j) = {{[kind |-> "mismatch", of |-> e.of]}}
           /\ e.pc = "uncategorized_transactions" =>
                Inserted(j) = {UncategorizedKeys(e.config, e.found)}
           /\ RecordsMilestone(e) =>
                Inserted(j) = {MilestoneKeys(e.config, e.row, progress, Head(e.left)) :
                                 progress \in Progresses(e)}
           /\ RecordsDeadline(e) =>
                Inserted(j) = {DeadlineKeys(e.config, progress) : progress \in Progresses(e)}
           /\ ~Records(e) => Inserted(j) = {{}}
<1> DEFINE budgets == {BudgetKeys(e.of, e.listed, StatusFound(e.found, e.row, e.day))}
           statements == {{[kind |-> "mismatch", of |-> e.of]}}
           uncategorized == {UncategorizedKeys(e.config, e.found)}
           milestones == {MilestoneKeys(e.config, e.row, progress, Head(e.left)) :
                            progress \in Progresses(e)}
           deadlines == {DeadlineKeys(e.config, progress) : progress \in Progresses(e)}
<1>1. Inserted(j) =
        CASE RecordsBudget(e) -> budgets
          [] e.pc = "statement" -> statements
          [] e.pc = "uncategorized_transactions" -> uncategorized
          [] RecordsMilestone(e) -> milestones
          [] RecordsDeadline(e) -> deadlines
          [] OTHER -> {{}}
  BY Zenon DEF Inserted
<1> HIDE DEF budgets, statements, uncategorized, milestones, deadlines
<1>2. /\ RecordsBudget(e) => Inserted(j) = budgets
      /\ e.pc = "statement" => Inserted(j) = statements
      /\ e.pc = "uncategorized_transactions" => Inserted(j) = uncategorized
      /\ RecordsMilestone(e) => Inserted(j) = milestones
      /\ RecordsDeadline(e) => Inserted(j) = deadlines
  BY <1>1, SMT DEF RecordsBudget, RecordsMilestone, RecordsDeadline
<1>3. ~Records(e) => Inserted(j) = {{}}
  BY <1>1 DEF Records
<1> QED
  BY <1>2, <1>3, Zenon DEF budgets, statements, uncategorized, milestones, deadlines

\* The alerts of a step are of the six kinds.
LEMMA InsertedKinds ==
    ASSUME NEW j \in Jobs, NEW keys \in Inserted(j), NEW k \in keys
    PROVE  k.kind \in Kinds
<1>1. PICK e : e = job[j]
  OBVIOUS
<1>2. CASE RecordsBudget(e)
  <2>1. PICK status : keys = BudgetKeys(e.of, e.listed, status)
    BY <1>1, <1>2, InsertedBy
  <2>2. k.kind \in {"exceeded", "approaching"}
    BY <2>1 DEF BudgetKeys
  <2> QED
    BY <2>2 DEF Kinds
<1>3. CASE e.pc = "statement"
  BY <1>1, <1>3, InsertedBy DEF Kinds
<1>4. CASE e.pc = "uncategorized_transactions"
  <2>1. keys = UncategorizedKeys(e.config, e.found)
    BY <1>1, <1>4, InsertedBy
  <2> QED
    BY <2>1 DEF UncategorizedKeys, Kinds
<1>5. CASE RecordsMilestone(e)
  <2>1. PICK progress : keys = MilestoneKeys(e.config, e.row, progress, Head(e.left))
    BY <1>1, <1>5, InsertedBy
  <2> QED
    BY <2>1 DEF MilestoneKeys, Kinds
<1>6. CASE RecordsDeadline(e)
  <2>1. PICK progress : keys = DeadlineKeys(e.config, progress)
    BY <1>1, <1>6, InsertedBy
  <2> QED
    BY <2>1 DEF DeadlineKeys, Kinds
<1>7. CASE ~Records(e)
  BY <1>1, <1>7, InsertedBy
<1> QED
  BY <1>2, <1>3, <1>4, <1>5, <1>6, <1>7 DEF Records

------------------------------------------------------------------------------
(* The evaluations.                                                        *)

\* An evaluation moves on alone, to where its values say.
LEMMA GotoJob ==
    ASSUME Domains, NEW j \in Jobs, NEW pc, NEW values, Goto(j, pc, values)
    PROVE  /\ DOMAIN job' = Jobs /\ \A i \in Jobs \ {j} : job'[i] = job[i]
           /\ job'[j].pc = pc
           /\ \A c \in DOMAIN values \ {"pc", "retries"} : job'[j][c] = values[c]
<1> DEFINE set == [pc |-> pc, retries |-> job[j].retries]
<1>1. DOMAIN set = {"pc", "retries"} /\ set.pc = pc
  OBVIOUS
<1> HIDE DEF set
<1>2. job' = [job EXCEPT ![j] = With(set, values)]
  BY DEF Goto, set
<1>3. job'[j] = With(set, values)
  BY <1>2 DEF Domains
<1>4. job'[j].pc = pc
  BY <1>1, <1>3, WithSet
<1>5. \A c \in DOMAIN values \ {"pc", "retries"} : job'[j][c] = values[c]
  BY <1>1, <1>3, WithKept
<1> QED
  BY <1>2, <1>4, <1>5 DEF Domains

\* An evaluation of a goal goes on with what it holds.
LEMMA HeldJob ==
    ASSUME Domains, NEW j \in Jobs, NEW pc, NEW found, NEW left, NEW e,
           Goto(j, pc, With([found |-> found, left |-> left], Held(e)))
    PROVE  /\ job'[j].pc = pc /\ job'[j].found = found /\ job'[j].left = left
           /\ job'[j].todo = e.todo /\ job'[j].config = e.config /\ job'[j].day = e.day
           /\ job'[j].row = e.row
<1> DEFINE set == [found |-> found, left |-> left]
<1>1. DOMAIN set = {"found", "left"} /\ set.found = found /\ set.left = left
  OBVIOUS
<1> HIDE DEF set
<1>2. PICK held : held = Held(e)
  OBVIOUS
<1>3. /\ DOMAIN held = {"todo", "config", "day", "row"} /\ held.todo = e.todo
      /\ held.config = e.config /\ held.day = e.day /\ held.row = e.row
  BY <1>2 DEF Held
<1>4. PICK values : values = With(set, held)
  OBVIOUS
<1>5. DOMAIN values = {"found", "left", "todo", "config", "day", "row"}
  <2>1. DOMAIN values = DOMAIN set \union DOMAIN held
    BY <1>4, WithDomain
  <2> QED
    BY <1>1, <1>3, <2>1
<1>6. values.found = found /\ values.left = left
  BY <1>1, <1>4, WithSet
<1>7. \A c \in {"todo", "config", "day", "row"} : values[c] = held[c]
  BY <1>1, <1>3, <1>4, WithKept
<1>8. Goto(j, pc, values)
  BY <1>2, <1>4 DEF set
<1>9. job'[j].pc = pc /\ \A c \in DOMAIN values : job'[j][c] = values[c]
  <2>1. "pc" \notin DOMAIN values /\ "retries" \notin DOMAIN values
    BY <1>5
  <2> QED
    BY <1>8, <2>1, GotoJob
<1> QED
  BY <1>3, <1>5, <1>6, <1>7, <1>9

JobsOK == DOMAIN job = Jobs /\ JobsFit /\ \A j \in Jobs : job[j].pc \in JobPc

\* One job goes on, the others stay.
LEMMA OneJob ==
    ASSUME JobsOK, NEW j \in Jobs, DOMAIN job' = Jobs, \A i \in Jobs \ {j} : job'[i] = job[i],
           NEW e, job'[j] = e, e.pc \in JobPc, JobFits(e),
           UNCHANGED <<budget, goal, mismatched>>
    PROVE  JobsOK'
  BY DEF JobsOK, JobsFit, JobFits, FoundFits, StoredConfig

\* A configuration that was stored is still there when its goal is.
LEMMA StoredKept ==
    ASSUME RowsKept, NEW config, StoredConfig(config)
    PROVE  /\ config \in Configs
           /\ config.type # "uncategorized_transactions" => GoalShape(goal'[config.goal])
<1>1. config \in Configs
  BY DEF StoredConfig
<1>2. config.type # "uncategorized_transactions" => config.goal \in Goals
  BY <1>1, PlanningAssumption DEF ConfigShape, RuleTypes
<1> QED
  BY <1>1, <1>2 DEF StoredConfig, RowsKept

\* While no evaluation moves, what they hold stays right.
LEMMA JobsKept ==
    ASSUME JobsOK, RowsKept, UNCHANGED job, mismatched \subseteq mismatched'
    PROVE  JobsOK'
<1>1. \A config : StoredConfig(config) =>
         /\ config \in Configs
         /\ config.type # "uncategorized_transactions" => GoalShape(goal'[config.goal])
  BY StoredKept
<1>2. ASSUME NEW j \in Jobs
      PROVE  JobFits(job[j])'
  <2>1. PICK e : e = job[j]
    OBVIOUS
  <2>2. JobFits(e)
    BY <2>1 DEF JobsOK, JobsFit
  <2>3. e.pc \in {"budgets", "spending"} =>
           \A item \in e.todo : item[1] \in Budgets /\ BudgetShape(budget'[item[1]])
    BY <2>2 DEF JobFits, RowsKept
  <2>4. e.pc \in {"rules"} \union RuleTypes => \A item \in e.todo : StoredConfig(item[2])
    BY <2>2 DEF JobFits
  <2>5. e.pc \in {"rules"} \union RuleTypes => \A item \in e.todo :
           /\ item[2] \in Configs
           /\ item[2].type # "uncategorized_transactions" => GoalShape(goal'[item[2].goal])
    BY <1>1, <2>4
  <2> QED
    BY <2>1, <2>2, <2>3, <2>5 DEF JobFits, StoredConfig
<1> QED
  BY <1>2 DEF JobsOK, JobsFit

\* An evaluation at budgets, at statements and at rules.
LEMMA BudgetsFit ==
    ASSUME NEW e, e.pc = "budgets",
           \A item \in e.todo : item[1] \in Budgets /\ BudgetShape(budget[item[1]])
    PROVE  JobFits(e)
  BY DEF JobFits, RuleTypes

\* It goes through statements that do not add up.
LEMMA StatementsFit ==
    ASSUME NEW e, e.pc = "statements", e.todo \subseteq mismatched
    PROVE  JobFits(e)
  BY DEF JobFits, RuleTypes

\* And through configurations that were stored.
LEMMA RulesListed ==
    ASSUME NEW e, e.pc = "rules", \A item \in e.todo : StoredConfig(item[2])
    PROVE  JobFits(e)
  BY DEF JobFits, RuleTypes

\* An evaluation of a goal fits when what it holds does.
LEMMA GoalFits ==
    ASSUME NEW e, NEW old, JobFits(old), old.pc \in {"goal_milestone", "goal_deadline"},
           e.pc = old.pc, e.todo = old.todo, e.config = old.config, e.day = old.day,
           e.row = old.row, e.found \in Ledgers \union {None},
           e.pc = "goal_milestone" => e.left \in Seq(1..100)
    PROVE  JobFits(e)
  BY DEF JobFits, RuleTypes

\* The rest of a list is a shorter list.
LEMMA RestOf ==
    ASSUME NEW S, NEW left \in Seq(S), left # <<>>
    PROVE  Tail(left) \in Seq(S) /\ Tail(left) # left /\ Head(left) \in S
<1>1. /\ Head(left) \in S /\ Tail(left) \in Seq(S)
      /\ Len(Tail(left)) = Len(left) - 1
  BY HeadTailProperties
<1>2. PICK n \in Nat : n = Len(left)
  BY LenProperties
<1>3. n - 1 # n
  OBVIOUS
<1>4. Len(Tail(left)) # Len(left)
  BY ONLY <1>1, <1>2, <1>3, Zenon
<1> QED
  BY <1>1, <1>4, Zenon

\* An evaluation that goes on lists rows with their columns, and configurations of its phase.
LEMMA AdvanceStep ==
    ASSUME AlertInv, JobsOK, NEW j \in Jobs, Advance(j), UNCHANGED <<budget, goal, mismatched>>
    PROVE  JobsOK'
<1> USE DEF AlertInv
<1>1. ASSUME NEW pc \in JobPc, NEW values, Goto(j, pc, values), NEW e, e = job'[j], JobFits(e)
      PROVE  JobsOK'
    BY <1>1, GotoJob, OneJob
<1>2. JobFits(job[j])
  BY DEF JobsOK, JobsFit
<1>3. ASSUME NEW pc, NEW todo, Goto(j, pc, [todo |-> todo])
      PROVE  job'[j].pc = pc /\ job'[j].todo = todo
  <2> DEFINE values == [todo |-> todo]
  <2>1. DOMAIN values = {"todo"} /\ values.todo = todo
    OBVIOUS
  <2> HIDE DEF values
  <2>2. Goto(j, pc, values)
    BY <1>3 DEF values
  <2> QED
    BY <2>1, <2>2, GotoJob
<1>4. CASE ListBudgets(j) \/ RecordBudget(j)
  <2>1. PICK todo : /\ Goto(j, "budgets", [todo |-> todo])
                    /\ \A item \in todo : item[1] \in Budgets /\ BudgetShape(budget[item[1]])
    <3>1. CASE ListBudgets(j)
      <4> DEFINE todo == {<<b, budget[b]>> : b \in {c \in Budgets : Live(budget[c])}}
      <4>1. \A item \in todo : item[1] \in Budgets /\ BudgetShape(budget[item[1]])
        BY DEF Live, TypeOK
      <4> HIDE DEF todo
      <4> QED
        BY <3>1, <4>1 DEF ListBudgets, todo
    <3>2. CASE RecordBudget(j)
      BY <1>2, <3>2 DEF RecordBudget, RecordsBudget, JobFits
    <3> QED
      BY <1>4, <3>1, <3>2
  <2>2. JobFits(job'[j])
    BY <1>3, <2>1, BudgetsFit
  <2> QED
    BY <1>1, <2>1, <2>2 DEF JobPc
<1>5. CASE ReadBudget(j)
  <2>1. PICK item \in job[j].todo :
           Goto(j, "spending", [todo |-> job[j].todo \ {item}, of |-> item[1], listed |-> item[2],
                                row |-> budget[item[1]], day |-> today, read |-> 0,
                                found |-> None])
    BY <1>5 DEF ReadBudget
  <2> DEFINE values == [todo |-> job[j].todo \ {item}, of |-> item[1], listed |-> item[2],
                        row |-> budget[item[1]], day |-> today, read |-> 0, found |-> None]
  <2>2. /\ DOMAIN values = {"todo", "of", "listed", "row", "day", "read", "found"}
        /\ values.todo = job[j].todo \ {item} /\ values.row = budget[item[1]]
        /\ values.day = today /\ values.read = 0
    OBVIOUS
  <2> HIDE DEF values
  <2>3. Goto(j, "spending", values)
    BY <2>1 DEF values
  <2>4. PICK e : e = job'[j]
    OBVIOUS
  <2>5. /\ e.pc = "spending" /\ e.todo = job[j].todo \ {item} /\ e.row = budget[item[1]]
        /\ e.day = today /\ e.read = 0
    BY <2>2, <2>3, <2>4, GotoJob
  <2>6. \A i \in job[j].todo : i[1] \in Budgets /\ BudgetShape(budget[i[1]])
    BY <1>2, <1>5 DEF ReadBudget, JobFits
  <2>6a. today \in Int
    BY PlanningAssumption DEF TypeOK
  <2>7. JobFits(e)
    BY <2>5, <2>6, <2>6a DEF JobFits, RuleTypes
  <2> QED
    BY <1>1, <2>3, <2>4, <2>7 DEF JobPc
<1>5a. CASE ReadSpending(j)
  <2>1. PICK old : old = job[j]
    OBVIOUS
  <2> DEFINE found == [n \in 0..RolloverPeriods |-> IF n < old.read THEN old.found[n] ELSE ledger]
             values == [todo |-> old.todo, of |-> old.of, listed |-> old.listed, row |-> old.row,
                        day |-> old.day, read |-> old.read + 1, found |-> found]
  <2>2. old.pc = "spending" /\ Goto(j, "spending", values)
    BY <1>5a, <2>1 DEF ReadSpending
  <2>3. /\ \A i \in old.todo : i[1] \in Budgets /\ BudgetShape(budget[i[1]])
        /\ BudgetShape(old.row) /\ old.day \in Int /\ old.read \in Nat
        /\ old.read # 0 => FoundFits(old)
    BY <1>2, <2>1, <2>2 DEF JobFits
  <2>4. found \in [0..RolloverPeriods -> Ledgers]
    <3>1. ASSUME NEW n \in 0..RolloverPeriods
          PROVE  (IF n < old.read THEN old.found[n] ELSE ledger) \in Ledgers
      <4>1. n < old.read => old.read # 0
        BY <2>3, RolloverAssumption
      <4>2. n < old.read => old.found[n] \in Ledgers
        BY <2>3, <4>1 DEF FoundFits
      <4> QED
        BY <4>2 DEF TypeOK
    <3> QED
      BY <3>1
  <2> HIDE DEF found
  <2>5. /\ DOMAIN values = {"todo", "of", "listed", "row", "day", "read", "found"}
        /\ values.todo = old.todo /\ values.row = old.row /\ values.day = old.day
        /\ values.read = old.read + 1 /\ values.found = found
    OBVIOUS
  <2> HIDE DEF values
  <2>6. PICK e : e = job'[j]
    OBVIOUS
  <2>7. /\ e.pc = "spending" /\ e.todo = old.todo /\ e.row = old.row /\ e.day = old.day
        /\ e.read = old.read + 1 /\ e.found = found
    BY <2>2, <2>5, <2>6, GotoJob
  <2>8. e.read \in Nat /\ FoundFits(e)
    BY <2>3, <2>4, <2>7 DEF FoundFits
  <2>9. JobFits(e)
    BY <2>3, <2>7, <2>8 DEF JobFits, RuleTypes
  <2> QED
    BY <1>1, <2>2, <2>6, <2>9 DEF JobPc
<1>6. CASE ListStatements(j) \/ RecordStatement(j)
  <2>1. PICK todo : Goto(j, "statements", [todo |-> todo]) /\ todo \subseteq mismatched
    BY <1>2, <1>6 DEF ListStatements, RecordStatement, JobFits
  <2>2. JobFits(job'[j])
    BY <1>3, <2>1, StatementsFit
  <2> QED
    BY <1>1, <2>1, <2>2 DEF JobPc
<1>7. CASE NextStatement(j)
  <2>1. PICK s \in job[j].todo : Goto(j, "statement", [todo |-> job[j].todo \ {s}, of |-> s])
    BY <1>7 DEF NextStatement
  <2> DEFINE values == [todo |-> job[j].todo \ {s}, of |-> s]
  <2>2. DOMAIN values = {"todo", "of"} /\ values.todo = job[j].todo \ {s} /\ values.of = s
    OBVIOUS
  <2> HIDE DEF values
  <2>3. Goto(j, "statement", values)
    BY <2>1 DEF values
  <2>4. PICK e : e = job'[j]
    OBVIOUS
  <2>5. e.pc = "statement" /\ e.todo = job[j].todo \ {s} /\ e.of = s
    BY <2>2, <2>3, <2>4, GotoJob
  <2>6. job[j].todo \subseteq mismatched
    BY <1>2, <1>7 DEF NextStatement, JobFits
  <2>7. JobFits(e)
    BY <2>5, <2>6 DEF JobFits, RuleTypes
  <2> QED
    BY <1>1, <2>3, <2>4, <2>7 DEF JobPc
<1>8. CASE ListRules(j) \/ RecordRule(j)
  <2>1. PICK todo : /\ Goto(j, "rules", [todo |-> todo])
                    /\ \A item \in todo : StoredConfig(item[2])
    <3>1. CASE ListRules(j)
      <4> DEFINE todo == {<<r, rule[r].config>> : r \in {s \in Rules : Live(rule[s])}}
      <4>1. \A item \in todo : StoredConfig(item[2])
        BY DEF Live, RulesFit
      <4> HIDE DEF todo
      <4> QED
        BY <3>1, <4>1 DEF ListRules, todo
    <3>2. CASE RecordRule(j)
      <4>1. job[j].pc \in RuleTypes
        BY <3>2 DEF RecordRule, RecordsDeadline, RuleTypes
      <4>2. \A item \in job[j].todo : StoredConfig(item[2])
        BY <1>2, <4>1 DEF JobFits
      <4> QED
        BY <3>2, <4>2 DEF RecordRule
    <3> QED
      BY <1>8, <3>1, <3>2
  <2>2. JobFits(job'[j])
    BY <1>3, <2>1, RulesListed
  <2> QED
    BY <1>1, <2>1, <2>2 DEF JobPc
<1>9. CASE ReadRule(j)
  <2>1. PICK item : /\ item \in job[j].todo
                    /\ LET config == item[2]
                           follows == config.type # "uncategorized_transactions"
                       IN Goto(j, config.type,
                               [todo |-> job[j].todo \ {item}, config |-> config, day |-> today,
                                row |-> IF follows THEN goal[config.goal] ELSE None,
                                found |-> IF follows THEN None ELSE ledger,
                                left |-> IF config.type = "goal_milestone" THEN config.milestones
                                         ELSE <<>>])
    BY <1>9 DEF ReadRule
  <2>2. \A i \in job[j].todo : StoredConfig(i[2])
    BY <1>2, <1>9 DEF ReadRule, JobFits
  <2>2a. PICK config : config = item[2]
    OBVIOUS
  <2> DEFINE follows == config.type # "uncategorized_transactions"
             row == IF follows THEN goal[config.goal] ELSE None
             found == IF follows THEN None ELSE ledger
             left == IF config.type = "goal_milestone" THEN config.milestones ELSE <<>>
             values == [todo |-> job[j].todo \ {item}, config |-> config, day |-> today,
                        row |-> row, found |-> found, left |-> left]
  <2>3. Goto(j, config.type, values)
    BY <2>1, <2>2a
  <2>4. /\ config \in Configs /\ config.type \in RuleTypes /\ ConfigShape(config)
        /\ follows => GoalShape(goal[config.goal])
    BY <2>1, <2>2, <2>2a, PlanningAssumption DEF StoredConfig
  <2>5. /\ follows => GoalShape(row) /\ found = None
        /\ config.type = "goal_milestone" => left \in Seq(1..100)
    BY <2>4 DEF ConfigShape
  <2> HIDE DEF row, found, left
  <2>6. /\ DOMAIN values = {"todo", "config", "day", "row", "found", "left"}
        /\ values.todo = job[j].todo \ {item} /\ values.config = config /\ values.day = today
        /\ values.row = row /\ values.found = found /\ values.left = left
    OBVIOUS
  <2> HIDE DEF values
  <2>7. PICK e : e = job'[j]
    OBVIOUS
  <2>8. /\ e.pc = config.type /\ e.todo = job[j].todo \ {item} /\ e.config = config
        /\ e.day = today /\ e.row = row /\ e.found = found /\ e.left = left
    BY <2>3, <2>6, <2>7, GotoJob
  <2>9. today \in Int
    BY PlanningAssumption DEF TypeOK
  <2>10. \A i \in e.todo : StoredConfig(i[2])
    BY <2>2, <2>8
  <2>11. e.pc \in {"goal_milestone", "goal_deadline"} => GoalShape(e.row) /\ e.found = None
    BY <2>5, <2>8
  <2>12. JobFits(e)
    BY <2>4, <2>5, <2>8, <2>9, <2>10, <2>11 DEF JobFits, RuleTypes
  <2> QED
    BY <1>1, <2>3, <2>4, <2>7, <2>12 DEF JobPc
<1>9a. CASE ReadBalance(j) \/ RecordMilestone(j)
  <2>1. PICK old : old = job[j]
    OBVIOUS
  <2>2. PICK found, left : /\ Goto(j, old.pc, With([found |-> found, left |-> left], Held(old)))
                           /\ old.pc \in {"goal_milestone", "goal_deadline"}
                           /\ found \in Ledgers \union {None}
                           /\ old.pc = "goal_milestone" => left \in Seq(1..100)
    <3>1. old.pc = "goal_milestone" => old.left \in Seq(1..100)
      BY <1>2, <2>1 DEF JobFits
    <3>2. CASE ReadBalance(j)
      BY <2>1, <3>1, <3>2 DEF ReadBalance, TypeOK
    <3>3. CASE RecordMilestone(j)
      <4>1. /\ old.pc = "goal_milestone" /\ old.left # <<>>
            /\ Goto(j, old.pc, With([found |-> old.found, left |-> Tail(old.left)], Held(old)))
        BY <2>1, <3>3 DEF RecordMilestone, RecordsMilestone
      <4>2. old.found \in Ledgers \union {None}
        BY <1>2, <2>1, <4>1 DEF JobFits
      <4>3. Tail(old.left) \in Seq(1..100)
        BY <3>1, <4>1, RestOf
      <4> QED
        BY <4>1, <4>2, <4>3
    <3> QED
      BY <1>9a, <3>2, <3>3
  <2>3. PICK e : e = job'[j]
    OBVIOUS
  <2>4. /\ e.pc = old.pc /\ e.found = found /\ e.left = left /\ e.todo = old.todo
        /\ e.config = old.config /\ e.day = old.day /\ e.row = old.row
    BY <2>2, <2>3, HeldJob
  <2>5. JobFits(e)
    BY <1>2, <2>1, <2>2, <2>4, GoalFits
  <2> QED
    BY <1>1, <2>2, <2>3, <2>5 DEF JobPc, RuleTypes
<1>10. CASE Finish(j)
  <2>1. NoJob.pc = "none"
    BY DEF NoJob
  <2>2. job'[j] = NoJob /\ DOMAIN job' = Jobs /\ \A i \in Jobs \ {j} : job'[i] = job[i]
    BY <1>10 DEF Finish, JobsOK
  <2>3. JobFits(NoJob)
    BY <2>1 DEF JobFits, RuleTypes
  <2> QED
    BY <2>1, <2>2, <2>3, OneJob DEF JobPc
<1> QED
  BY <1>4, <1>5, <1>5a, <1>6, <1>7, <1>8, <1>9, <1>9a, <1>10 DEF Advance

\* A job is sent, or starts again.
LEMMA QueueStep ==
    ASSUME JobsOK, NEW j \in Jobs, Send(j) \/ Fail(j), UNCHANGED <<budget, goal, mismatched>>
    PROVE  JobsOK'
<1>1. PICK new : /\ job' = [job EXCEPT ![j] = new]
                 /\ new = NoJob \/ \E retries : new = Waiting(retries)
  BY DEF Send, Fail
<1>2. NoJob.pc = "none" /\ \A retries : Waiting(retries).pc = "created"
  BY DEF NoJob, Waiting
<1>3. /\ DOMAIN job' = Jobs /\ \A i \in Jobs \ {j} : job'[i] = job[i]
      /\ job'[j] = new /\ new.pc \in {"none", "created"}
  BY <1>1, <1>2 DEF JobsOK
<1>4. JobFits(new)
  BY <1>3 DEF JobFits, RuleTypes
<1> QED
  BY <1>3, <1>4, OneJob DEF JobPc

------------------------------------------------------------------------------
(* The invariant and what it implies.                                      *)

WorldOK ==
    /\ mismatched \subseteq Statements /\ ledger \in Ledgers
    /\ today \in FirstDay..LastDay /\ edits \in 0..MaxEdits /\ failures \in 0..MaxFailures

\* The invariant, part by part.
LEMMA AlertParts ==
    AlertInv <=> TablesOK /\ EventsOK /\ WorldOK /\ Domains /\ RulesFit /\ RequestsFit /\ JobsOK
  BY DEF AlertInv, TypeOK, TablesOK, EventsOK, WorldOK, Domains, RequestsFit, JobsOK, JobPc

\* The parts, after a step, make the invariant.
LEMMA AlertPartsNext ==
    ASSUME TablesOK', EventsOK', WorldOK', Domains', RulesFit', RequestsFit', JobsOK'
    PROVE  AlertInv'
  BY DEF AlertInv, TypeOK, TablesOK, EventsOK, WorldOK, Domains, RequestsFit, JobsOK, JobPc

\* Without rows, jobs and alerts the invariant holds.
LEMMA AlertStart == Init => AlertInv
<1> SUFFICES ASSUME Init PROVE AlertInv
  OBVIOUS
<1>1. PICK start \in Starts :
         budget = start.budget /\ goal = start.goal /\ rule = start.rule /\ ledger = start.ledger
  BY DEF Init
<1>2. /\ DOMAIN budget = Budgets /\ DOMAIN goal = Goals /\ DOMAIN rule = Rules
      /\ TablesOK /\ ledger \in Ledgers
  BY <1>1, PlanningAssumption DEF TablesOK
<1>2a. RulesFit
  <2>1. ASSUME NEW r \in Rules, rule[r] # None
        PROVE  StoredConfig(rule[r].config)
    <3>1. PICK config : config = rule[r].config
      OBVIOUS
    <3>2. /\ config \in Configs
          /\ config.type # "uncategorized_transactions" => goal[config.goal] # None
      BY <1>1, <2>1, <3>1, PlanningAssumption DEF RuleShape
    <3>3. config.type # "uncategorized_transactions" => config.goal \in Goals
      BY <3>2, PlanningAssumption DEF ConfigShape, RuleTypes
    <3> QED
      BY <1>2, <3>1, <3>2, <3>3 DEF StoredConfig, TablesOK
  <2> QED
    BY <2>1 DEF RulesFit
<1>3. EventsOK
  BY DEF Init, EventsOK
<1>4. WorldOK
  BY <1>2, PlanningAssumption, AlertAssumption DEF Init, WorldOK
<1>5. Domains /\ RequestsFit
  BY <1>2 DEF Init, Domains, RequestsFit, Idle
<1>6. JobsOK
  BY DEF Init, JobsOK, JobsFit, JobFits, JobPc, RuleTypes, NoJob
<1> QED
  BY <1>2, <1>2a, <1>3, <1>4, <1>5, <1>6, AlertParts

\* Every request keeps rows and requests.
LEMMA RequestStep ==
    ASSUME AlertInv, Request
    PROVE  RequestKeeps
<1> USE DEF AlertInv
<1>1. ASSUME NEW k \in DOMAIN event, ActionEvent(k)
      PROVE  RequestKeeps
  BY <1>1, NothingWritten, RequestsKept, RulesKept
     DEF ActionEvent, stored, RequestKeeps, TypeOK, TablesOK, Domains
<1> QED
  BY <1>1, BudgetSteps, BudgetPatchSteps, GoalSteps, GoalPatchSteps, RuleSteps DEF Request

\* A request writes alerts only by an action on one of them.
LEMMA RequestEvents ==
    ASSUME Request
    PROVE  \/ UNCHANGED event
           \/ \E k \in DOMAIN event : ActionEvent(k)
  BY DEF Request, CreateBudget, ActionBudget, CreateGoal, ActionGoal, CreateRule, UpdateRule,
         ActionRule, ReadBudgetPatch, ReadGoalPatch, ReadProgress, WriteBudgetPatch, WriteGoal

\* Nor does it touch the rest of the world; but it counts as an edit.
LEMMA RequestWorld ==
    ASSUME Request
    PROVE  UNCHANGED world /\ (UNCHANGED edits \/ Edit)
  BY DEF Request, CreateBudget, ActionBudget, CreateGoal, ActionGoal, CreateRule, UpdateRule,
         ActionRule, ReadBudgetPatch, ReadGoalPatch, ReadProgress, WriteBudgetPatch, WriteGoal,
         ActionEvent

\* What becomes of the alerts in a step.
EventsKeep ==
    /\ EventsOK' /\ DOMAIN event \subseteq DOMAIN event'
    /\ \A e \in DOMAIN event : event[e].dismissed => event'[e].dismissed
    /\ job' # job => \A e \in DOMAIN event : event'[e] = event[e]

\* Every step inserts alerts or sets their flags.
LEMMA EventsStep ==
    ASSUME AlertInv, [Next]_vars
    PROVE  EventsKeep
<1>1. EventsOK
  BY AlertParts
<1>2. CASE UNCHANGED event
  BY <1>1, <1>2 DEF EventsKeep, EventsOK
<1>3. CASE Request /\ UNCHANGED <<job, failures>>
  <2>1. ASSUME NEW k \in DOMAIN event, ActionEvent(k)
        PROVE  EventsKeep
    BY <1>1, <1>3, <2>1, EventStep DEF EventsKeep
  <2> QED
    BY <1>2, <1>3, <2>1, RequestEvents
<1>4. ASSUME NEW j \in Jobs, Evaluate(j)
      PROVE  EventsKeep
  <2>1. PICK keys \in Inserted(j) : event' = WithEvents(keys)
    BY <1>4 DEF Evaluate
  <2>2. \A k \in keys : k.kind \in Kinds
    BY InsertedKinds
  <2> QED
    BY <1>1, <2>1, <2>2, EventsInserted DEF EventsKeep
<1>5. Elsewhere \/ Sweep \/ (\E j \in Jobs : Enqueue(j) \/ Fail(j)) => UNCHANGED event
  BY DEF Elsewhere, ChangeLedger, ImportMismatch, DayPasses, Sweep, Enqueue, Fail
<1>6. UNCHANGED vars => UNCHANGED event
  BY DEF vars
<1> QED
  BY <1>2, <1>3, <1>4, <1>5, <1>6 DEF Next

\* Every step keeps the invariant.
LEMMA AlertInvStep ==
    ASSUME AlertInv, [Next]_vars
    PROVE  AlertInv'
<1>1. /\ TablesOK /\ EventsOK /\ WorldOK /\ Domains /\ RulesFit /\ RequestsFit /\ JobsOK
      /\ EventsOK'
  BY AlertParts, EventsStep DEF EventsKeep
<1>2. ASSUME UNCHANGED planning, failures' \in 0..MaxFailures, JobsOK'
      PROVE  AlertInv'
  <2>1. TablesOK' /\ RowsKept
    BY <1>1, <1>2, NothingWritten DEF planning
  <2>2. RequestsFit' /\ RulesFit'
    BY <1>1, <1>2, <2>1, RequestsKept, RulesKept DEF planning
  <2> QED
    BY <1>1, <1>2, <2>1, <2>2, AlertPartsNext DEF planning, WorldOK, Domains, JobsOK
<1>3. CASE Request /\ UNCHANGED <<job, failures>>
  <2>1. RequestKeeps
    BY <1>3, RequestStep
  <2>2. WorldOK' /\ UNCHANGED mismatched
    BY <1>1, <1>3, RequestWorld, PlanningAssumption DEF WorldOK, world, Edit
  <2>3. JobsOK'
    BY <1>1, <1>3, <2>1, <2>2, JobsKept DEF RequestKeeps
  <2> QED
    BY <1>1, <2>1, <2>2, <2>3, AlertPartsNext DEF RequestKeeps, Domains, JobsOK
<1>4. CASE Elsewhere /\ UNCHANGED <<job, failures>>
  <2>1. UNCHANGED stored /\ UNCHANGED request
    BY <1>4 DEF Elsewhere, ChangeLedger, ImportMismatch, DayPasses
  <2>2. WorldOK' /\ mismatched \subseteq mismatched'
    BY <1>1, <1>4, PlanningAssumption
       DEF Elsewhere, ChangeLedger, ImportMismatch, DayPasses, WorldOK, Edit
  <2>4. TablesOK' /\ RowsKept
    BY <1>1, <2>1, NothingWritten DEF stored
  <2>3. JobsOK'
    BY <1>1, <1>4, <2>2, <2>4, JobsKept
  <2>5. RequestsFit' /\ RulesFit'
    BY <1>1, <2>1, <2>4, RequestsKept, RulesKept DEF stored
  <2> QED
    BY <1>1, <2>1, <2>2, <2>3, <2>4, <2>5, AlertPartsNext DEF stored, Domains, JobsOK
<1>5. ASSUME NEW j \in Jobs, Evaluate(j)
      PROVE  AlertInv'
  <2>1. UNCHANGED <<budget, goal, mismatched>>
    BY <1>5 DEF Evaluate, planning
  <2>2. JobsOK'
    BY <1>1, <1>5, <2>1, AdvanceStep DEF Evaluate
  <2> QED
    BY <1>1, <1>2, <1>5, <2>2 DEF Evaluate, WorldOK
<1>6. ASSUME NEW j \in Jobs, Send(j), UNCHANGED <<planning, failures>>
      PROVE  AlertInv'
  <2>1. JobsOK'
    BY <1>1, <1>6, QueueStep DEF planning
  <2> QED
    BY <1>1, <1>2, <1>6, <2>1 DEF WorldOK
<1>7. ASSUME NEW j \in Jobs, Fail(j)
      PROVE  AlertInv'
  <2>1. UNCHANGED planning /\ failures' \in 0..MaxFailures
    BY <1>1, <1>7, AlertAssumption DEF Fail, WorldOK
  <2>2. JobsOK'
    BY <1>1, <1>7, <2>1, QueueStep DEF planning
  <2> QED
    BY <1>2, <2>1, <2>2
<1>8. CASE UNCHANGED vars
  <2>1. TablesOK' /\ RowsKept
    BY <1>1, <1>8, NothingWritten DEF vars
  <2>2. JobsOK'
    BY <1>1, <1>8, <2>1, JobsKept DEF vars
  <2> QED
    BY <1>1, <1>2, <1>8, <2>2 DEF vars, planning, WorldOK
<1> QED
  BY <1>3, <1>4, <1>5, <1>6, <1>7, <1>8 DEF Next, Sweep, Enqueue

\* The rows of the planning tables keep to their checks, whatever requests in
\* flight write over each other.
THEOREM AlertTypes == Spec => []TypeOK
<1>1. Spec => []AlertInv
  BY AlertStart, AlertInvStep, PTL DEF Spec
<1>2. AlertInv => TypeOK
  BY DEF AlertInv
<1> QED
  BY <1>1, <1>2, PTL

\* No evaluation loses or rewrites an alert, overlapping or repeated as they may
\* be, and no request takes a dismissal back.
THEOREM AlertsStay == Spec => EventsKept
<1>1. Spec => []AlertInv
  BY AlertStart, AlertInvStep, PTL DEF Spec
<1>2. ASSUME AlertInv, [Next]_vars
      PROVE  [\A k \in DOMAIN event :
                 /\ k \in DOMAIN event'
                 /\ event[k].dismissed => event'[k].dismissed
                 /\ job' # job => event'[k] = event[k]]_vars
  BY <1>2, EventsStep DEF EventsKeep
<1> QED
  BY <1>1, <1>2, PTL DEF Spec, EventsKept

------------------------------------------------------------------------------
(* What a budget has spent, and what it carries over.                      *)

\* Sums of some of the rows are integers.
LEMMA AmountsInt ==
    ASSUME NEW S, IsFiniteSet(S), \A r \in S : r.amount \in Int, NEW T \in SUBSET S
    PROVE  Total(T) \in Int
  BY FS_Subset, TotalInt

\* Without rows nothing is spent.
LEMMA NothingSpent == Total({}) = 0
<1>1. PICK g : Totalled(g, {})
  BY FS_EmptySet, TotalsExist
<1> QED
  BY <1>1 DEF Totalled, Additive

\* A total of the sums by category is the sum of the rows.
LEMMA ByGroup ==
    ASSUME NEW S, IsFiniteSet(S), \A r \in S : r.amount \in Int,
           NEW C, C = {r.category : r \in S},
           NEW by, by = [c \in C |-> Total({r \in S : r.category = c})]
    PROVE  ValuesSum(by, C) = Total(S) /\ Total(S) \in Int
<1>1. PICK group : group = [r \in S |-> r.category]
  OBVIOUS
<1>2. group \in Surjection(S, C)
  BY <1>1 DEF Surjection
<1>3. IsFiniteSet(C)
  BY <1>2, FS_Surjection
<1>4. ASSUME NEW c \in C
      PROVE  by[c] = Total({r \in S : group[r] = c})
  <2>1. {r \in S : group[r] = c} = {r \in S : r.category = c}
    BY <1>1
  <2> QED
    BY <2>1
<1>5. Weighs(by, group, C, S)
  BY <1>1, <1>4 DEF Weighs
<1>6. ValuesSum(by, C) = Total(S)
  BY <1>3, <1>5, ValuesGathered
<1> QED
  BY <1>6, TotalInt

\* The rows a budget counts in a scope: those of its category if it has one.
RowsCounted(l, row, scope) ==
    {a \in RowsOf(Debits(l, row.currency, scope)) :
       row.category # None => a.category = row.category}

\* Spending by category is a sum of the rows of debits.
LEMMA SpendingOf ==
    ASSUME NEW l, NEW currency, NEW scope
    PROVE  LET rows == RowsOf(Debits(l, currency, scope))
               C == {r.category : r \in rows}
               by == [c \in C |-> Total({r \in rows : r.category = c})]
           IN ExpenseSpending(l, currency, scope) = [byCategory |-> by, total |-> ValuesSum(by, C)]
  BY DEF ExpenseSpending, RowsOf, Debits

\* The rows of a ledger's debits are finitely many and have amounts.
LEMMA DebitsFit ==
    ASSUME NEW l, LedgerShape(l), NEW currency, NEW scope
    PROVE  /\ IsFiniteSet(RowsOf(Debits(l, currency, scope)))
           /\ \A r \in RowsOf(Debits(l, currency, scope)) : r.amount \in Int
<1>1. PICK T : T = Debits(l, currency, scope)
  OBVIOUS
<1>2. T \in SUBSET l
  BY <1>1 DEF Debits
<1>3. IsFiniteSet(T)
  BY <1>2, FS_Subset DEF LedgerShape
<1>4. \A t \in T : /\ t.amount \in Int /\ IsFiniteSet(t.splits)
                   /\ \A s \in t.splits : s.amount \in Int
  BY <1>2 DEF LedgerShape
<1>5. RowsFitIn(T)
  BY <1>4 DEF RowsFitIn
<1> QED
  BY <1>1, <1>3, <1>5, RowsFit

\* What the packages compute for a budget, by category and then in total, is the
\* sum of the rows it counts.
LEMMA SpentIsCounted ==
    ASSUME NEW l, LedgerShape(l), NEW row, NEW from, NEW to
    PROVE  LET scope == [from |-> from, to |-> to, account |-> row.account]
           IN /\ SpentInBounds(l, row, from, to) = Total(RowsCounted(l, row, scope))
              /\ Total(RowsCounted(l, row, scope)) \in Int
<1> DEFINE scope == [from |-> from, to |-> to, account |-> row.account]
           rows == RowsOf(Debits(l, row.currency, scope))
           C == {r.category : r \in rows}
           by == [c \in C |-> Total({r \in rows : r.category = c})]
           spending == ExpenseSpending(l, row.currency, scope)
<1>1. spending = [byCategory |-> by, total |-> ValuesSum(by, C)]
  BY SpendingOf
<1>2. IsFiniteSet(rows) /\ \A r \in rows : r.amount \in Int
  BY DebitsFit
<1>3. SpentInBounds(l, row, from, to) =
         IF row.category = None THEN spending.total
         ELSE IF row.category \in DOMAIN spending.byCategory
         THEN spending.byCategory[row.category] ELSE 0
  BY DEF SpentInBounds
<1>4. RowsCounted(l, row, scope) =
         {a \in rows : row.category # None => a.category = row.category}
  BY DEF RowsCounted
<1>5. DOMAIN by = C /\ \A c \in C : by[c] = Total({r \in rows : r.category = c})
  OBVIOUS
<1>6. ValuesSum(by, C) = Total(rows) /\ Total(rows) \in Int
  BY <1>2, ByGroup
<1>7. \A T \in SUBSET rows : Total(T) \in Int
  BY <1>2, AmountsInt
<1>8. Total({}) = 0
  BY NothingSpent
<1> HIDE DEF scope, spending, by
<1>9. /\ SpentInBounds(l, row, from, to) = Total(RowsCounted(l, row, scope))
      /\ Total(RowsCounted(l, row, scope)) \in Int
  <2>1. CASE row.category = None
    <3>1. RowsCounted(l, row, scope) = rows
      BY <1>4, <2>1
    <3> QED
      BY <1>1, <1>3, <1>6, <2>1, <3>1
  <2>2. CASE row.category # None /\ row.category \in C
    <3>1. RowsCounted(l, row, scope) = {r \in rows : r.category = row.category}
      BY <1>4, <2>2
    <3>2. SpentInBounds(l, row, from, to) = by[row.category]
      BY <1>1, <1>3, <1>5, <2>2
    <3> HIDE DEF rows
    <3>3. {r \in rows : r.category = row.category} \in SUBSET rows
      OBVIOUS
    <3> QED
      BY <1>5, <1>7, <2>2, <3>1, <3>2, <3>3
  <2>3. CASE row.category # None /\ row.category \notin C
    <3>1. RowsCounted(l, row, scope) = {}
      BY <1>4, <2>3
    <3> QED
      BY <1>1, <1>3, <1>5, <1>8, <2>3, <3>1
  <2> QED
    BY <2>1, <2>2, <2>3
<1> QED
  BY <1>9 DEF scope

\* A budget counts what a reader of the ledger adds up for it.
LEMMA AddedUpIsCounted ==
    ASSUME NEW l, NEW row, NEW day
    PROVE  AddedUp(l, row, day) = Total(RowsCounted(l, row, Scope(row, day)))
<1>1. {u \in Expenses(l, Scope(row, day)) : u.currency = row.currency}
         = Debits(l, row.currency, Scope(row, day))
  BY DEF Expenses, Debits
<1> QED
  BY <1>1 DEF AddedUp, RowsCounted, RowsOf

\* What periods n to R carry: each what it left, and what is carried to it
\* unless it is one of the last.
AddsUp(h, n, R, left, Final) ==
    \A i \in n..R : h[i] = left[i] + IF i \in Final \/ i = R THEN 0 ELSE h[i + 1]

Carries(h, n, R, left, Final) == h \in [n..R -> Nat] /\ AddsUp(h, n, R, left, Final)

\* Such a list of amounts exists.
LEMMA CarriesExists ==
    ASSUME NEW R \in Nat \ {0}, NEW left \in [1..R -> Nat], NEW Final
    PROVE  \E h : Carries(h, 1, R, left, Final)
<1> DEFINE Lacking(n) == n \in 1..R /\ ~ \E h : Carries(h, n, R, left, Final)
           Bad == {T \in SUBSET (1..R) : \E n \in 1..R : T = n..R /\ Lacking(n)}
<1>1. ASSUME NEW m \in 1..R, Lacking(m)
      PROVE  FALSE
  <2>1. m..R \in Bad
    BY <1>1
  <2>2. PICK T \in Bad : \A U \in SUBSET T : U # T => U \notin Bad
    <3>1. IsFiniteSet(1..R)
      BY FS_Interval
    <3>2. Bad \subseteq SUBSET (1..R) /\ Bad # {}
      BY <2>1
    <3> HIDE DEF Bad
    <3> QED
      BY <3>1, <3>2, LeastSet
  <2>3. PICK n \in 1..R : T = n..R /\ Lacking(n)
    BY <2>2
  <2>4. CASE n = R
    <3> DEFINE h == [i \in n..R |-> left[i]]
    <3>1. Carries(h, n, R, left, Final)
      BY <2>4 DEF Carries, AddsUp
    <3> QED
      BY <2>3, <3>1
  <2>5. CASE n # R
    <3>1. /\ n + 1 \in 1..R /\ (n + 1)..R \in SUBSET T /\ (n + 1)..R # T
          /\ (n + 1)..R \in SUBSET (1..R)
      BY <2>3, <2>5
    <3>2. ~ Lacking(n + 1)
      BY <2>2, <3>1
    <3>3. PICK g : Carries(g, n + 1, R, left, Final)
      BY <3>1, <3>2
    <3> DEFINE h == [i \in n..R |-> IF i = n THEN left[n] + IF n \in Final THEN 0 ELSE g[n + 1]
                                    ELSE g[i]]
    <3>4. \A i \in (n + 1)..R : i # n /\ i \in n..R /\ g[i] \in Nat
      BY <3>3 DEF Carries, AddsUp
    <3>5. g[n + 1] \in Nat /\ left[n] \in Nat
      BY <3>1, <3>4
    <3>6. \A i \in n..R : i = n \/ i \in (n + 1)..R
      OBVIOUS
    <3>7. h \in [n..R -> Nat]
      BY <3>4, <3>5, <3>6
    <3>8. ASSUME NEW i \in n..R
          PROVE  h[i] = left[i] + IF i \in Final \/ i = R THEN 0 ELSE h[i + 1]
      <4>1. CASE i = n
        <5>1. h[n] = left[n] + IF n \in Final THEN 0 ELSE g[n + 1]
          OBVIOUS
        <5>2. h[n + 1] = g[n + 1]
          BY <3>1, <3>4
        <5> HIDE DEF h
        <5> QED
          BY <2>5, <4>1, <5>1, <5>2
      <4>2. CASE i # n
        <5>1. i \in (n + 1)..R
          BY <4>2
        <5>2. g[i] = left[i] + IF i \in Final \/ i = R THEN 0 ELSE g[i + 1]
          BY <3>3, <5>1 DEF Carries, AddsUp
        <5>3. h[i] = g[i]
          BY <4>2
        <5>4. i # R => h[i + 1] = g[i + 1]
          BY <5>1
        <5> HIDE DEF h
        <5> QED
          BY <5>2, <5>3, <5>4
      <4> QED
        BY <4>1, <4>2
    <3> HIDE DEF h
    <3>9. Carries(h, n, R, left, Final)
      BY <3>7, <3>8 DEF Carries, AddsUp
    <3> QED
      BY <2>3, <3>9
  <2> QED
    BY <2>4, <2>5
<1>2. 1 \in 1..R
  OBVIOUS
<1> QED
  BY <1>1, <1>2

\* Every list that is computed so holds natural numbers.
LEMMA CarriedNat ==
    ASSUME NEW R \in Nat \ {0}, NEW left \in [1..R -> Nat], NEW Final,
           NEW f, AddsUp(f, 1, R, left, Final)
    PROVE  f[1] \in Nat
<1> DEFINE Bad == {T \in SUBSET (1..R) : \E n \in 1..R : T = n..R /\ f[n] \notin Nat}
<1>1. ASSUME NEW m \in 1..R, f[m] \notin Nat
      PROVE  FALSE
  <2>1. m..R \in Bad
    BY <1>1
  <2>2. PICK T \in Bad : \A U \in SUBSET T : U # T => U \notin Bad
    <3>1. IsFiniteSet(1..R)
      BY ONLY R \in Nat \ {0}, FS_Interval
    <3>2. Bad \subseteq SUBSET (1..R) /\ Bad # {}
      BY <2>1
    <3> HIDE DEF Bad
    <3> QED
      BY <3>1, <3>2, LeastSet
  <2>3. PICK n \in 1..R : T = n..R /\ f[n] \notin Nat
    BY <2>2
  <2>4. n # R /\ n \notin Final
    BY <2>3 DEF AddsUp
  <2>5. /\ n + 1 \in 1..R /\ (n + 1)..R \in SUBSET T /\ (n + 1)..R # T
        /\ (n + 1)..R \in SUBSET (1..R)
    BY <2>3, <2>4
  <2>6. f[n + 1] \in Nat
    BY <2>2, <2>5
  <2>7. f[n] = left[n] + f[n + 1]
    BY <2>4 DEF AddsUp
  <2> QED
    BY <2>3, <2>6, <2>7
<1>2. 1 \in 1..R
  OBVIOUS
<1> QED
  BY <1>1, <1>2

\* What a budget carries over is never negative: an overspent period adds nothing.
LEMMA CarriedOver ==
    ASSUME NEW found, \A n \in 0..RolloverPeriods : LedgerShape(found[n]),
           NEW row, row.amount \in Int, NEW bounds
    PROVE  RolloverCarried(found, row, bounds) \in Nat
<1> DEFINE prior == PriorPeriods(row, bounds)
           Unused(n) == row.amount - SpentInBounds(found[n], row, prior[n].start, prior[n].end)
           Step(f) ==
             [n \in 1..RolloverPeriods |->
                (IF Unused(n) >= 0 THEN Unused(n) ELSE 0)
                + IF LastPrior(row, prior, n) THEN 0 ELSE f[n + 1]]
           Carried == CHOOSE f : f = Step(f)
<1>1. RolloverCarried(found, row, bounds) = IF Rolls(row) THEN Carried[1] ELSE 0
  BY DEF RolloverCarried
<1> HIDE DEF prior
<1> DEFINE left == [n \in 1..RolloverPeriods |-> IF Unused(n) >= 0 THEN Unused(n) ELSE 0]
           Final == {n \in 1..RolloverPeriods : LastPrior(row, prior, n)}
<1>2. ASSUME NEW n \in 1..RolloverPeriods
      PROVE  Unused(n) \in Int
  <2>1. PICK from, to : from = prior[n].start /\ to = prior[n].end
    OBVIOUS
  <2>2. PICK l : l = found[n]
    OBVIOUS
  <2>3. LedgerShape(l)
    BY <2>2
  <2>4. SpentInBounds(l, row, from, to) \in Int
    BY <2>3, SpentIsCounted
  <2> QED
    BY <2>1, <2>2, <2>4
<1>3. left \in [1..RolloverPeriods -> Nat]
  <2> HIDE DEF Unused
  <2> QED
    BY <1>2
<1>4. RolloverPeriods \in Nat \ {0}
  BY RolloverAssumption
<1> HIDE DEF Unused
<1>5. ASSUME NEW f, NEW n \in 1..RolloverPeriods
      PROVE  Step(f)[n] = left[n] + IF n \in Final \/ n = RolloverPeriods THEN 0 ELSE f[n + 1]
  <2>1. n = RolloverPeriods => LastPrior(row, prior, n)
    BY DEF LastPrior
  <2> QED
    BY <2>1
<1> HIDE DEF left, Final
<1>6. PICK h : Carries(h, 1, RolloverPeriods, left, Final)
  BY <1>3, <1>4, CarriesExists
<1>7. h = Step(h)
  <2> DEFINE step == Step(h)
  <2>1. \A n \in 1..RolloverPeriods : h[n] = step[n]
    BY <1>5, <1>6 DEF Carries, AddsUp
  <2>2. h = [n \in 1..RolloverPeriods |-> h[n]]
    BY <1>6 DEF Carries, AddsUp
  <2>3. step = [n \in 1..RolloverPeriods |-> step[n]]
    OBVIOUS
  <2> HIDE DEF step
  <2>4. h = step
    BY <2>1, <2>2, <2>3
  <2> QED
    BY <2>4 DEF step
<1>8. Carried = Step(Carried)
  <2> HIDE DEF Step
  <2> QED
    BY <1>7
<1> HIDE DEF Carried
<1>9. \A n \in 1..RolloverPeriods :
         Carried[n] = left[n] + IF n \in Final \/ n = RolloverPeriods THEN 0 ELSE Carried[n + 1]
  <2>1. PICK step : step = Step(Carried)
    OBVIOUS
  <2>2. \A n \in 1..RolloverPeriods :
           step[n] = left[n] + IF n \in Final \/ n = RolloverPeriods THEN 0 ELSE Carried[n + 1]
    BY <1>5, <2>1
  <2> QED
    BY <1>8, <2>1, <2>2
<1>10. Carried[1] \in Nat
  <2>1. PICK f : f = Carried
    OBVIOUS
  <2>2. AddsUp(f, 1, RolloverPeriods, left, Final)
    BY <1>9, <2>1 DEF AddsUp
  <2>3. f[1] \in Nat
    BY <1>3, <1>4, <2>2, CarriedNat
  <2> QED
    BY <2>1, <2>3
<1> QED
  BY <1>1, <1>10

------------------------------------------------------------------------------
(* Dates, and the day a period ends on.                                    *)

\* The parts of a date are integers.
LEMMA DateTypes ==
    ASSUME NEW d \in Int
    PROVE  YearOf(d) \in Int /\ MonthOf(d) \in Int
<1>1. OfEra(d) \in Int /\ (d + 719468) \div 146097 \in Int
  BY SMT DEF OfEra
<1>2. \A of \in Int : YearOfEra(of) \in Int
  BY SMT DEF YearOfEra
<1>3. \A of \in Int, y \in Int : MarchDay(of, y) \in Int
  BY SMT DEF MarchDay
<1>4. MarchDay(OfEra(d), YearOfEra(OfEra(d))) \in Int
  BY <1>1, <1>2, <1>3
<1>5. MarchMonth(d) \in Int
  BY <1>4, SMT DEF MarchMonth
<1>6. YearOfEra(OfEra(d)) \in Int
  BY <1>1, <1>2
<1> QED
  BY <1>1, <1>5, <1>6, SMT DEF YearOf, MonthOf

\* The day a period of a budget ends on is one.
LEMMA PeriodEnds ==
    ASSUME NEW row, BudgetShape(row), NEW day \in Int
    PROVE  CurrentPeriodBounds(row.period, day, row.custom).end \in Int
<1>1. /\ row.period \in Periods /\ row.custom \in [start : Int, end : Int] \union {None}
      /\ row.custom = None <=> row.period # "custom"
  BY DEF BudgetShape, BudgetValues, BudgetFields
<1>2. \A year \in Int, month \in Int, n \in Int : DayNumber(year, month, n) \in Int
  BY SMT DEF DayNumber
<1>3. YearOf(day) \in Int /\ MonthOf(day) \in Int
  BY DateTypes
<1>4. CASE row.period = "weekly"
  <2>1. MondayOf(day) + 6 \in Int
    BY SMT DEF MondayOf, DayOfWeek
  <2> QED
    BY <1>4, <2>1 DEF CurrentPeriodBounds, WeeklyBounds
<1>5. CASE row.period = "monthly"
  <2>1. MonthEnd(YearOf(day), MonthOf(day)) \in Int
    BY <1>2, <1>3 DEF MonthEnd
  <2> QED
    BY <1>5, <2>1 DEF CurrentPeriodBounds, MonthlyBounds
<1>6. CASE row.period = "yearly"
  <2>1. DayNumber(YearOf(day), 12, 31) \in Int
    BY <1>2, <1>3
  <2> QED
    BY <1>6, <2>1 DEF CurrentPeriodBounds, YearlyBounds
<1>7. CASE row.period = "custom"
  <2>1. row.custom.end \in Int
    BY <1>1, <1>7
  <2> QED
    BY <1>7, <2>1 DEF CurrentPeriodBounds
<1> QED
  BY <1>1, <1>4, <1>5, <1>6, <1>7 DEF Periods

------------------------------------------------------------------------------
(* The causes of alerts.                                                   *)

\* A share of a larger limit is a share of the amount.
LEMMA LimitReached ==
    ASSUME NEW amount \in Nat \ {0}, NEW carried \in Nat, NEW at \in 1..100, NEW spent \in Int,
           PercentReached(spent, amount + carried, at)
    PROVE  100 * spent >= at * amount
<1>1. spent * 100 >= (amount + carried) * at
  BY DEF PercentReached
<1>2. (amount + carried) * at = amount * at + carried * at
  OBVIOUS
<1>3. carried * at >= 0 /\ amount * at = at * amount /\ amount * at \in Int /\ carried * at \in Int
  OBVIOUS
<1> QED
  BY <1>1, <1>2, <1>3

\* An alert of a budget has a cause in the row, the day and the ledger that were read.
LEMMA BudgetCause ==
    ASSUME NEW e, BudgetShape(e.row), e.day \in Int,
           \A n \in 0..RolloverPeriods : LedgerShape(e.found[n]), NEW b, NEW listed,
           NEW k \in BudgetKeys(b, listed, StatusFound(e.found, e.row, e.day))
    PROVE  Caused(k, e)
<1>0. PICK row, day, found, ledgerRead :
         row = e.row /\ day = e.day /\ found = e.found /\ ledgerRead = e.found[0]
  OBVIOUS
<1>0a. BudgetShape(row) /\ day \in Int /\ LedgerShape(ledgerRead)
  BY <1>0, RolloverAssumption
<1> DEFINE bounds == CurrentPeriodBounds(row.period, day, row.custom)
           spent == SpentInBounds(ledgerRead, row, bounds.start, bounds.end)
           carried == RolloverCarried(found, row, bounds)
           limit == row.amount + carried
           threshold == IF row.threshold = None THEN 80 ELSE row.threshold
           status == StatusFound(found, row, day)
<1>1. /\ status.key = PeriodKey(row.period, bounds)
      /\ status.status = StatusOf(limit, spent, threshold, IsPeriodEnded(day, bounds.end))
  BY <1>0 DEF StatusFound, StatusIn, WarningThreshold, DefaultWarningThreshold
<1>2. row.amount \in Nat \ {0} /\ threshold \in 1..100
  BY <1>0a DEF BudgetShape, BudgetValues, BudgetFields
<1>3. carried \in Nat
  <2>1. row.amount \in Int
    BY <1>2
  <2>2. PICK period : period = bounds
    OBVIOUS
  <2>3. RolloverCarried(found, row, period) \in Nat
    BY <1>0, <2>1, CarriedOver
  <2> QED
    BY <2>2, <2>3
<1>4. bounds.end \in Int
  BY <1>0a, PeriodEnds
<1>5. spent = AddedUp(ledgerRead, row, day) /\ spent \in Int
  <2>1. PICK from, to : from = bounds.start /\ to = bounds.end
    OBVIOUS
  <2>2. PICK scope : scope = [from |-> from, to |-> to, account |-> row.account]
    OBVIOUS
  <2>3. /\ SpentInBounds(ledgerRead, row, from, to) = Total(RowsCounted(ledgerRead, row, scope))
        /\ Total(RowsCounted(ledgerRead, row, scope)) \in Int
    BY <1>0a, <2>2, SpentIsCounted
  <2>4. scope = Scope(row, day)
    BY <2>1, <2>2 DEF Scope
  <2> QED
    BY <2>1, <2>3, <2>4, AddedUpIsCounted
<1>6. \/ k.kind = "exceeded" /\ k.period = status.key /\ status.status = "exceeded"
      \/ k.kind = "approaching" /\ k.period = status.key /\ status.status = "approaching"
  <2>1. ASSUME NEW s, k \in BudgetKeys(b, listed, s)
        PROVE  \/ k.kind = "exceeded" /\ k.period = s.key /\ s.status = "exceeded"
               \/ k.kind = "approaching" /\ k.period = s.key /\ s.status = "approaching"
    BY <2>1 DEF BudgetKeys
  <2> QED
    BY <1>0, <2>1
<1> HIDE DEF bounds, spent, carried, threshold, status
<1>6a. PICK ended : ended = IsPeriodEnded(day, bounds.end)
  OBVIOUS
<1>6b. status.status = StatusOf(limit, spent, threshold, ended)
  BY <1>1, <1>6a
<1>6c. status.status # "complete"
  BY <1>6
<1>7. ~ IsPeriodEnded(day, bounds.end)
  BY <1>6a, <1>6b, <1>6c, Zenon DEF StatusOf
<1>8. day <= Scope(row, day).to
  <2>1. PICK last : last = bounds.end
    OBVIOUS
  <2>2. day <= last
    BY <1>0a, <1>4, <1>7, <2>1 DEF IsPeriodEnded
  <2>3. Scope(row, day).to = last
    BY <2>1 DEF Scope, bounds
  <2> QED
    BY <2>2, <2>3
<1>9. k.period = PeriodKey(row.period, CurrentPeriodBounds(row.period, day, row.custom))
  BY <1>1, <1>6 DEF bounds
<1>10. CASE k.kind = "exceeded"
  <2>1. PercentReached(spent, limit, 100)
    <3>1. status.status = "exceeded"
      BY <1>6, <1>10
    <3> QED
      BY <1>6b, <3>1, Zenon DEF StatusOf
  <2>1a. 100 \in 1..100
    OBVIOUS
  <2>2. 100 * spent >= 100 * row.amount
    BY <1>2, <1>3, <1>5, <2>1, <2>1a, LimitReached
  <2>3. Reached(e, k, 100)
    BY <1>0, <1>5, <1>8, <1>9, <2>2 DEF Reached
  <2> QED
    BY <1>10, <2>3 DEF Caused
<1>11. CASE k.kind = "approaching"
  <2>1. PercentReached(spent, limit, threshold)
    <3>1. status.status = "approaching"
      BY <1>6, <1>11
    <3> QED
      BY <1>6b, <3>1, Zenon DEF StatusOf
  <2>2. 100 * spent >= threshold * row.amount
    BY <1>2, <1>3, <1>5, <2>1, LimitReached
  <2>3. Reached(e, k, threshold)
    BY <1>0, <1>5, <1>8, <1>9, <2>2 DEF Reached
  <2> QED
    BY <1>0, <1>11, <2>3 DEF Caused, threshold
<1> QED
  BY <1>6, <1>10, <1>11

\* What is due by a date is counted to that date and the day itself.
LEMMA DeadlineCause ==
    ASSUME NEW e, GoalShape(e.row), e.day \in Int, NEW progress \in Progresses(e),
           e.config.daysBefore \in 1..365, NEW k \in DeadlineKeys(e.config, progress)
    PROVE  Caused(k, e)
<1>0. PICK row, day, config : row = e.row /\ day = e.day /\ config = e.config
  OBVIOUS
<1>1. progress.daysRemaining = IF row.targetDate = None THEN None
                               ELSE DaysRemaining(day, row.targetDate)
  BY <1>0 DEF Progresses, GoalProgress
<1>2. row.targetDate \in Int \union {None}
  BY <1>0 DEF GoalShape, GoalValues, GoalFields
<1>3. /\ k = [kind |-> "deadline", of |-> config.goal, at |-> config.daysBefore]
      /\ progress.daysRemaining # None /\ progress.daysRemaining <= config.daysBefore
  BY <1>0 DEF DeadlineKeys
<1>4. k.kind = "deadline" /\ k.at = config.daysBefore
  BY <1>3
<1>5. row.targetDate \in Int /\ DaysRemaining(day, row.targetDate) <= config.daysBefore
  BY <1>1, <1>2, <1>3
<1>5a. day \in Int /\ config.daysBefore \in Int
  BY <1>0
<1>6. row.targetDate - day < config.daysBefore
  BY <1>5, <1>5a DEF DaysRemaining
<1> QED
  BY <1>0, <1>4, <1>6 DEF Caused

\* A milestone that is announced is reached by the amount saved, or by a balance
\* the account is known to have.
LEMMA MilestoneCause ==
    ASSUME NEW e, GoalShape(e.row), e.row.account # None => LedgerShape(e.found),
           NEW progress \in Progresses(e), NEW m \in 1..100,
           NEW k \in MilestoneKeys(e.config, e.row, progress, m)
    PROVE  Caused(k, e)
<1>0. PICK row, found, balance :
         /\ row = e.row /\ found = e.found /\ balance \in Balances(e.found, e.row)
         /\ progress = GoalProgress(e.row, balance, e.day)
  BY DEF Progresses
<1>1. progress.current = IF row.mode = "manual" THEN IF row.saved = None THEN 0 ELSE row.saved
                         ELSE IF balance = None THEN None ELSE balance.amount
  BY <1>0 DEF GoalProgress
<1>2. /\ row.target \in Nat \ {0} /\ row.mode \in Modes /\ row.saved \in Nat \union {None}
      /\ row.mode # "manual" => row.account \in Accounts
  BY <1>0 DEF GoalShape, GoalValues, GoalFields
<1>3. /\ k = [kind |-> "milestone", of |-> e.config.goal, at |-> m]
      /\ progress.current # None /\ PercentReached(progress.current, row.target, m)
  BY <1>0 DEF MilestoneKeys
<1>4. /\ k.kind = "milestone" /\ k.at \in 1..100
      /\ progress.current # None /\ PercentReached(progress.current, row.target, k.at)
  BY <1>3
<1>5. ASSUME NEW saved \in Int, PercentReached(saved, row.target, k.at)
      PROVE  100 * saved >= k.at * row.target
  <2>1. saved * 100 >= row.target * k.at
    BY <1>5 DEF PercentReached
  <2>2. row.target * k.at = k.at * row.target /\ row.target * k.at \in Int
    BY <1>2, <1>4
  <2> QED
    BY <2>1, <2>2
<1>6. \E saved \in Saved(e) : 100 * saved >= k.at * row.target
  <2>1. CASE row.mode = "manual"
    <3>1. Saved(e) = {row.saved}
      BY <1>0, <2>1 DEF Saved
    <3>2. CASE row.saved # None
      <4>1. progress.current = row.saved
        BY <1>1, <1>4, <2>1, <3>2
      <4>2. 100 * row.saved >= k.at * row.target
        BY <1>2, <1>4, <1>5, <3>2, <4>1
      <4> QED
        BY <3>1, <4>2
    <3>3. CASE row.saved = None
      <4>1. progress.current = 0
        BY <1>1, <2>1, <3>3
      <4>2. 100 * 0 >= k.at * row.target
        BY <1>4, <1>5, <4>1
      <4>3. k.at * row.target > 0
        BY <1>2, <1>4
      <4> QED
        BY <1>2, <1>4, <4>2, <4>3
    <3> QED
      BY <1>2, <3>2, <3>3
  <2>2. CASE row.mode # "manual"
    <3> DEFINE account == [id |-> row.account, currency |-> AccountCurrency[row.account]]
    <3>1. row.account # None
      BY <1>2, <2>2, PlanningAssumption
    <3>2. balance \in KnownBalances(found, {}, account) /\ account.id = row.account
      BY <1>0, <3>1 DEF Balances
    <3>3. balance # None /\ progress.current = balance.amount
      BY <1>1, <1>4, <2>2
    <3> HIDE DEF account
    <3>4. PICK t \in found : /\ t.account = row.account /\ t.balance # None
                              /\ balance.amount = t.balance
      BY <3>2, <3>3 DEF KnownBalances, Latest
    <3>5. t.balance \in Int
      BY <1>0, <3>1, <3>4 DEF LedgerShape
    <3>6. 100 * t.balance >= k.at * row.target
      BY <1>4, <1>5, <3>3, <3>4, <3>5
    <3>7. t.balance \in Saved(e)
      BY <1>0, <2>2, <3>4 DEF Saved
    <3> QED
      BY <3>6, <3>7
  <2> QED
    BY <2>1, <2>2
<1> QED
  BY <1>0, <1>4, <1>6 DEF Caused

\* A step of an evaluation that inserts alerts takes the evaluation further.
LEMMA AdvanceMoves ==
    ASSUME AlertInv, NEW j \in Jobs, Advance(j), Records(job[j])
    PROVE  job'[j] # job[j]
<1> USE DEF AlertInv
<1>1. ASSUME NEW pc, NEW values, Goto(j, pc, values)
      PROVE  job'[j].pc = pc
  BY <1>1, GotoJob
<1>2. PICK e : e = job[j]
  OBVIOUS
<1>3. CASE RecordsMilestone(e)
  <2>1. RecordMilestone(j)
    BY <1>2, <1>3 DEF Advance, ListBudgets, ReadBudget, ReadSpending, RecordBudget, RecordsBudget,
         ListStatements, NextStatement, RecordStatement, ListRules, ReadRule, ReadBalance,
         RecordRule, RecordsDeadline, RecordsMilestone, Finish
  <2>2. Goto(j, e.pc, With([found |-> e.found, left |-> Tail(e.left)], Held(e)))
    BY <1>2, <2>1 DEF RecordMilestone
  <2>3. job'[j].left = Tail(e.left)
    <3>1. PICK pc, found, left : pc = e.pc /\ found = e.found /\ left = Tail(e.left)
      OBVIOUS
    <3>2. Goto(j, pc, With([found |-> found, left |-> left], Held(e)))
      BY <2>2, <3>1
    <3>3. job'[j].left = left
      BY <3>2, HeldJob
    <3> QED
      BY <3>1, <3>3
  <2>4. e.left \in Seq(1..100) /\ e.left # <<>>
    BY <1>2, <1>3 DEF RecordsMilestone, JobsFit, JobFits
  <2> QED
    BY <1>2, <2>3, <2>4, RestOf
<1>4. CASE ~ RecordsMilestone(e)
  <2>1. e.pc \notin {"budgets", "statements", "rules"}
    BY <1>2, <1>4 DEF Records, RecordsBudget, RecordsDeadline
  <2>2. RecordBudget(j) \/ RecordStatement(j) \/ RecordRule(j)
    BY <1>2, <1>4 DEF Records, Advance, ListBudgets, ReadBudget, ReadSpending, RecordsBudget,
         ListStatements, NextStatement, ListRules, ReadRule, ReadBalance,
         RecordMilestone, RecordsDeadline, Finish
  <2>3. job'[j].pc \in {"budgets", "statements", "rules"}
    BY <1>1, <2>2 DEF RecordBudget, RecordStatement, RecordRule
  <2> QED
    BY <1>2, <2>1, <2>3
<1> QED
  BY <1>3, <1>4

\* An alert that a step inserts has its cause.
LEMMA InsertedCaused ==
    ASSUME AlertInv, NEW j \in Jobs, NEW keys \in Inserted(j), NEW k \in keys
    PROVE  Records(job[j]) /\ Caused(k, job[j])
<1> USE DEF AlertInv
<1>1. \A l \in Ledgers : LedgerShape(l)
  BY PlanningLedgersAssumption
<1>2. PICK e : e = job[j]
  OBVIOUS
<1>3. JobFits(e)
  BY <1>2 DEF JobsFit
<1>4. CASE RecordsBudget(e)
  <2>1. k \in BudgetKeys(e.of, e.listed, StatusFound(e.found, e.row, e.day))
    BY <1>2, <1>4, InsertedBy
  <2>2. BudgetShape(e.row) /\ e.day \in Int /\ FoundFits(e)
    BY <1>3, <1>4 DEF JobFits, RecordsBudget, MoreToRead
  <2>3. \A n \in 0..RolloverPeriods : LedgerShape(e.found[n])
    BY <1>1, <2>2 DEF FoundFits
  <2>4. Caused(k, e)
    BY <2>1, <2>2, <2>3, BudgetCause
  <2> QED
    BY <1>2, <1>4, <2>4 DEF Records
<1>5. CASE e.pc = "statement"
  <2>1. k = [kind |-> "mismatch", of |-> e.of]
    BY <1>2, <1>5, InsertedBy
  <2>2. e.of \in mismatched
    BY <1>3, <1>5 DEF JobFits
  <2> QED
    BY <1>2, <1>5, <2>1, <2>2 DEF Caused, Records
<1>6. CASE e.pc = "uncategorized_transactions"
  <2>1. k \in UncategorizedKeys(e.config, e.found)
    BY <1>2, <1>6, InsertedBy
  <2>2. k.kind = "uncategorized" /\ Uncategorized(e.found) > k.at
    BY <2>1 DEF UncategorizedKeys
  <2> QED
    BY <1>2, <1>6, <2>2 DEF Caused, Records
<1>7. CASE RecordsMilestone(e)
  <2>1. PICK progress \in Progresses(e) :
           k \in MilestoneKeys(e.config, e.row, progress, Head(e.left))
    BY <1>2, <1>7, InsertedBy
  <2>2. /\ GoalShape(e.row) /\ e.left \in Seq(1..100) /\ e.left # <<>>
        /\ e.found \in Ledgers \union {None} /\ ~BalanceToRead(e)
    BY <1>3, <1>7 DEF JobFits, RecordsMilestone
  <2>3. e.row.account # None => LedgerShape(e.found)
    <3>1. e.row.account # None => e.row.mode = "account_balance"
      BY <2>2 DEF GoalShape, GoalValues, GoalFields, Modes
    <3> QED
      BY <1>1, <2>2, <3>1 DEF BalanceToRead
  <2>4. Head(e.left) \in 1..100
    BY <2>2, RestOf
  <2>5. Caused(k, e)
    BY <2>1, <2>2, <2>3, <2>4, MilestoneCause
  <2> QED
    BY <1>2, <1>7, <2>5 DEF Records
<1>8. CASE RecordsDeadline(e)
  <2>1. PICK progress \in Progresses(e) : k \in DeadlineKeys(e.config, progress)
    BY <1>2, <1>8, InsertedBy
  <2>2. GoalShape(e.row) /\ e.day \in Int /\ e.config \in Configs /\ e.config.type = e.pc
    BY <1>3, <1>8 DEF JobFits, RecordsDeadline, RuleTypes
  <2>3. e.config.daysBefore \in 1..365
    BY <1>8, <2>2, PlanningAssumption DEF ConfigShape, RecordsDeadline
  <2>4. Caused(k, e)
    BY <2>1, <2>2, <2>3, DeadlineCause
  <2> QED
    BY <1>2, <1>8, <2>4 DEF Records
<1>9. CASE ~Records(e)
  BY <1>2, <1>9, InsertedBy
<1> QED
  BY <1>4, <1>5, <1>6, <1>7, <1>8, <1>9 DEF Records

\* What a new alert tells of.
NewAlertsCaused ==
    \A k \in DOMAIN event' \ DOMAIN event :
       \E j \in Jobs : job'[j] # job[j] /\ Caused(k, job[j])

\* Only a step of an evaluation makes new alerts.
LEMMA NewAlerts ==
    ASSUME AlertInv, [Next]_vars
    PROVE  NewAlertsCaused
<1> USE DEF AlertInv
<1>1. CASE DOMAIN event' = DOMAIN event
  BY <1>1 DEF NewAlertsCaused
<1>2. CASE Request /\ UNCHANGED <<job, failures>>
  <2>1. EventsOK
    BY AlertParts
  <2>2. DOMAIN event' = DOMAIN event
    BY <1>2, <2>1, RequestEvents, EventStep
  <2> QED
    BY <1>1, <2>2
<1>3. ASSUME NEW j \in Jobs, Evaluate(j)
      PROVE  NewAlertsCaused
  <2>1. PICK keys \in Inserted(j) : event' = WithEvents(keys)
    BY <1>3 DEF Evaluate
  <2>2. DOMAIN event' = DOMAIN event \union keys
    <3> DEFINE new == [k \in keys |-> [read |-> FALSE, dismissed |-> FALSE]]
    <3>1. DOMAIN new = keys
      OBVIOUS
    <3> HIDE DEF new
    <3>2. event' = With(event, new)
      BY <2>1 DEF WithEvents, new
    <3> QED
      BY <3>1, <3>2, WithDomain
  <2>3. ASSUME NEW k \in keys
        PROVE  job'[j] # job[j] /\ Caused(k, job[j])
    <3>1. Records(job[j]) /\ Caused(k, job[j])
      BY InsertedCaused
    <3>2. Advance(j)
      BY <1>3 DEF Evaluate
    <3> QED
      BY <3>1, <3>2, AdvanceMoves
  <2> QED
    BY <2>2, <2>3 DEF NewAlertsCaused
<1>4. Elsewhere \/ Sweep \/ (\E j \in Jobs : Enqueue(j) \/ Fail(j)) => UNCHANGED event
  BY DEF Elsewhere, ChangeLedger, ImportMismatch, DayPasses, Sweep, Enqueue, Fail
<1>5. UNCHANGED vars => UNCHANGED event
  BY DEF vars
<1> QED
  BY <1>1, <1>2, <1>3, <1>4, <1>5 DEF Next

\* No alert is raised without a cause: whatever overlaps, changes meanwhile or is
\* repeated, the row, the day and the ledger its evaluation read do reach what it
\* announces, added up by a reader who knows nothing of carried amounts.
THEOREM AlertsAreJustified == Spec => AlertsJustified
<1>1. Spec => []AlertInv
  BY AlertStart, AlertInvStep, PTL DEF Spec
<1>2. ASSUME AlertInv, [Next]_vars
      PROVE  [\A k \in DOMAIN event' \ DOMAIN event :
                 \E j \in Jobs : job'[j] # job[j] /\ Caused(k, job[j])]_vars
  BY <1>2, NewAlerts DEF NewAlertsCaused
<1> QED
  BY <1>1, <1>2, PTL DEF Spec, AlertsJustified
==============================================================================
