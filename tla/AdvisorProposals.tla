--------------------------- MODULE AdvisorProposals ---------------------------
(***************************************************************************)
(* Changes that the advisor proposes and the user confirms: a stored       *)
(* proposal is read, checked again and executed by the ordinary service,   *)
(* and then marked, each in a step of its own and outside a transaction.   *)
(* A confirmation may be sent twice and may overlap another, the web       *)
(* process may die in it, and meanwhile proposals expire, categories are   *)
(* archived and accounts change.                                           *)
(***************************************************************************)
EXTENDS Integers, FiniteSets

CONSTANTS
    None,             \* SQL null
    Proposals, Confirms, Transactions, Categories, Accounts, Currencies,
    AccountsAtFirst,  \* the accounts a behaviour begins with
    Payloads,         \* [type, category, account, currency, transactions]
    TTL,              \* PROPOSAL_TTL_MS
    MaxClock, MaxChanges, MaxWebCrashes     \* bounds of the model

VARIABLES
    clock, changes, crashes,
    proposal,         \* [Proposals -> None or a row of advisor_proposals]
    confirm,          \* [Confirms -> a confirmation in progress]
    active,           \* the active categories
    account,          \* [Accounts -> status and currency]
    budgets,          \* what createBudget inserted, and for which confirmation
    category,         \* [Transactions -> primary category or None]
    applied           \* the confirmations that set categories

proposalVars == <<clock, changes, crashes, proposal, confirm, active, account, budgets, category,
                  applied>>

Statuses == {"pending", "executed", "expired"}

AccountRows == [status : {"active", "archived"}, currency : Currencies]

\* A row of advisor_proposals: its result is the confirmation that executed it.
Row == [payload : Payloads, status : Statuses, expiresAt : Nat, result : Confirms \union {None}]

Idle == [pc |-> "idle", proposal |-> None, readAt |-> 0, result |-> None]

ProposalsInit ==
    /\ clock = 0 /\ changes = 0 /\ crashes = 0
    /\ proposal = [p \in Proposals |-> None]
    /\ confirm = [c \in Confirms |-> Idle]
    /\ active = Categories
    /\ account = AccountsAtFirst
    /\ budgets = {}
    /\ category = [t \in Transactions |-> None]
    /\ applied = {}

------------------------------------------------------------------------------
(* Checks.                                                                 *)

CategoryFits(payload) == payload.category \in active \union {None}

\* ownedAccountForBudget, and again validateBudgetReferences of createBudget.
BudgetAccountFits(payload) ==
    payload.account # None =>
       account[payload.account] = [status |-> "active", currency |-> payload.currency]

PayloadFits(payload) ==
    CategoryFits(payload) /\ (payload.type = "create_budget" => BudgetAccountFits(payload))

------------------------------------------------------------------------------
(* The proposal.                                                           *)

\* Checked and stored; confirmation repeats the checks, so that what changes
\* between them here changes no outcome.
CreateProposal(p, payload) ==
    /\ proposal[p] = None
    /\ PayloadFits(payload)
    /\ proposal' = [proposal EXCEPT ![p] =
                      [payload |-> payload, status |-> "pending", expiresAt |-> clock + TTL,
                       result |-> None]]
    /\ UNCHANGED <<clock, changes, crashes, confirm, active, account, budgets, category, applied>>

At(c, pc) == confirm' = [confirm EXCEPT ![c].pc = pc]

Payload(c) == proposal[confirm[c].proposal].payload

\* Mutant: the time of the proposal is not compared with its expiry.
ReadAnyPending(c, p) ==
    /\ confirm[c].pc = "idle" /\ proposal[p] # None /\ proposal[p].status = "pending"
    /\ confirm' = [confirm EXCEPT ![c] = [pc |-> "validate", proposal |-> p, readAt |-> clock,
                                          result |-> None]]
    /\ UNCHANGED <<clock, changes, crashes, proposal, active, account, budgets, category, applied>>

\* What a confirmation does is decided by the status it reads.
ReadProposal(c, p) ==
    /\ confirm[c].pc = "idle" /\ proposal[p] # None
    /\ LET read(pc, result) ==
               confirm' = [confirm EXCEPT ![c] = [pc |-> pc, proposal |-> p, readAt |-> clock,
                                                  result |-> result]]
       IN CASE proposal[p].status = "expired"   -> read("stale", None)
            [] proposal[p].status = "executed"  -> read("repeated", proposal[p].result)
            [] /\ proposal[p].status \notin {"expired", "executed"}
               /\ clock > proposal[p].expiresAt -> read("expire", None)
            [] OTHER                            -> read("validate", None)
    /\ UNCHANGED <<clock, changes, crashes, proposal, active, account, budgets, category, applied>>

\* Whatever the status has become since.
MarkExpired(c) ==
    /\ confirm[c].pc = "expire" /\ At(c, "stale")
    /\ proposal' = [proposal EXCEPT ![confirm[c].proposal].status = "expired"]
    /\ UNCHANGED <<clock, changes, crashes, active, account, budgets, category, applied>>

Validate(c) ==
    /\ confirm[c].pc = "validate"
    /\ At(c, IF PayloadFits(Payload(c)) THEN "execute" ELSE "failed")
    /\ UNCHANGED <<clock, changes, crashes, proposal, active, account, budgets, category, applied>>

\* Mutant: a refused budget is reported as executed.
ExecuteUnchecked(c) ==
    /\ confirm[c].pc = "execute"
    /\ confirm' = [confirm EXCEPT ![c].pc = "mark", ![c].result = c]
    /\ IF PayloadFits(Payload(c)) /\ Payload(c).type = "create_budget"
       THEN budgets' = budgets \union {[by |-> c, payload |-> Payload(c)]}
       ELSE UNCHANGED budgets
    /\ UNCHANGED <<clock, changes, crashes, proposal, active, account, category, applied>>

\* createBudget and bulkUpdateTransactions check for themselves what the
\* confirmation has just checked.
Execute(c) ==
    /\ confirm[c].pc = "execute"
    /\ IF ~PayloadFits(Payload(c))
       THEN At(c, "failed") /\ UNCHANGED <<budgets, category, applied>>
       ELSE /\ confirm' = [confirm EXCEPT ![c].pc = "mark", ![c].result = c]
            /\ IF Payload(c).type = "create_budget"
               THEN /\ budgets' = budgets \union {[by |-> c, payload |-> Payload(c)]}
                    /\ UNCHANGED <<category, applied>>
               ELSE /\ category' = [t \in Transactions |->
                                      IF t \in Payload(c).transactions THEN Payload(c).category
                                      ELSE category[t]]
                    /\ applied' = applied \union {c}
                    /\ UNCHANGED budgets
    /\ UNCHANGED <<clock, changes, crashes, proposal, active, account>>

\* Whatever the status has become since.
MarkExecuted(c) ==
    /\ confirm[c].pc = "mark" /\ At(c, "done")
    /\ proposal' = [proposal EXCEPT ![confirm[c].proposal].status = "executed",
                                    ![confirm[c].proposal].result = confirm[c].result]
    /\ UNCHANGED <<clock, changes, crashes, active, account, budgets, category, applied>>

------------------------------------------------------------------------------
(* Everything else.                                                        *)

Ended == {"idle", "stale", "repeated", "failed", "done", "crashed"}

\* A confirmation ends where it is, and nothing resumes it.
WebCrash ==
    /\ crashes < MaxWebCrashes
    /\ \E c \in Confirms : confirm[c].pc \notin Ended
    /\ crashes' = crashes + 1
    /\ confirm' = [c \in Confirms |-> IF confirm[c].pc \in Ended THEN confirm[c]
                                      ELSE [confirm[c] EXCEPT !.pc = "crashed"]]
    /\ UNCHANGED <<clock, changes, proposal, active, account, budgets, category, applied>>

ArchiveCategory(k) ==
    /\ changes < MaxChanges /\ k \in active
    /\ changes' = changes + 1
    /\ active' = active \ {k}
    /\ UNCHANGED <<clock, crashes, proposal, confirm, account, budgets, category, applied>>

ChangeAccount(a, row) ==
    /\ changes < MaxChanges /\ account[a] # row
    /\ changes' = changes + 1
    /\ account' = [account EXCEPT ![a] = row]
    /\ UNCHANGED <<clock, crashes, proposal, confirm, active, budgets, category, applied>>

Pass ==
    /\ clock < MaxClock
    /\ clock' = clock + 1
    /\ UNCHANGED <<changes, crashes, proposal, confirm, active, account, budgets, category, applied>>

ProposalsNext ==
    \/ \E p \in Proposals : \E payload \in Payloads : CreateProposal(p, payload)
    \/ \E c \in Confirms : \E p \in Proposals : ReadProposal(c, p)
    \/ \E c \in Confirms : MarkExpired(c)
    \/ \E c \in Confirms : Validate(c)
    \/ \E c \in Confirms : Execute(c)
    \/ \E c \in Confirms : MarkExecuted(c)
    \/ WebCrash
    \/ \E k \in Categories : ArchiveCategory(k)
    \/ \E a \in Accounts : \E row \in AccountRows : ChangeAccount(a, row)
    \/ Pass

------------------------------------------------------------------------------
(* Properties.                                                             *)

\* The shape of the state.
ProposalsTypeOK ==
    /\ clock \in Nat /\ changes \in Nat /\ crashes \in Nat
    /\ proposal \in [Proposals -> {None} \union Row]
    /\ confirm \in [Confirms ->
                      [pc : Ended \union {"expire", "validate", "execute", "mark"},
                       proposal : Proposals \union {None}, readAt : Nat,
                       result : Confirms \union {None}]]
    /\ active \subseteq Categories
    /\ account \in [Accounts -> AccountRows]
    /\ budgets \subseteq [by : Confirms, payload : Payloads]
    /\ applied \subseteq Confirms

Effect(c, payload) ==
    IF payload.type = "create_budget" THEN [by |-> c, payload |-> payload] \in budgets
    ELSE c \in applied

\* The types hold, and a proposal that is shown as executed was, and so is one whose confirmation is
\* answered again: the stored result is that of a confirmation of this proposal
\* that took effect, however the category or the account changed, or another
\* confirmation failed, in between.
ExecutedHasEffect ==
    /\ ProposalsTypeOK
    /\ \A c \in Confirms : confirm[c].pc = "repeated" =>
          /\ confirm[c].result # None
          /\ Effect(confirm[c].result, Payload(c))
    /\ \A p \in Proposals : proposal[p] # None /\ proposal[p].status = "executed" =>
          /\ proposal[p].result # None
          /\ confirm[proposal[p].result].proposal = p
          /\ Effect(proposal[p].result, proposal[p].payload)

\* Nothing is changed on behalf of a proposal except by a confirmation that
\* read it in its lifetime.
ConfirmedInTime ==
    \A c \in Confirms :
       c \in applied \/ (\E b \in budgets : b.by = c) =>
          LET p == confirm[c].proposal
          IN proposal[p] # None /\ confirm[c].readAt <= proposal[p].expiresAt
=============================================================================
