------------------------------- MODULE Advisor -------------------------------
(***************************************************************************)
(* The advisor as a whole: conversations beside proposals.  They meet in   *)
(* the user interface only, where the draft that comes with an answer is   *)
(* completed and sent back as a proposal, and share no row.                *)
(***************************************************************************)
EXTENDS AdvisorConversations

CONSTANTS
    Proposals, Confirms, Transactions, Categories, Accounts, Currencies, AccountsAtFirst,
    Payloads, TTL, MaxClock, MaxChanges, MaxWebCrashes

VARIABLES clock, changes, crashes, proposal, confirm, active, account, budgets, category, applied

INSTANCE AdvisorProposals

ASSUME ProposalsAssumption ==
    /\ TTL \in Nat
    /\ AccountsAtFirst \in [Accounts -> AccountRows]
    /\ None \notin Proposals /\ None \notin Confirms /\ None \notin Row

proposalState ==
    <<clock, changes, crashes, proposal, confirm, active, account, budgets, category, applied>>

vars == <<conversationVars, proposalState>>

Init == ConversationsInit /\ ProposalsInit

\* Bound: no row is shared, so in a behaviour only one of the two moves.
NothingProposed == clock = 0 /\ changes = 0 /\ \A p \in Proposals : proposal[p] = None

NothingAsked ==
    /\ bucket = None /\ now = 0 /\ edits = 0
    /\ \A t \in Threads : removal[t] = "no"
    /\ \A t \in Existing : thread[t] = "open"

ProposalsRest == NothingProposed /\ UNCHANGED proposalState

ConversationsRest == NothingAsked /\ UNCHANGED conversationVars

Next ==
    \/ \E a \in Asks : \E question \in Questions[a] : AskQuestion(a, question) /\ ProposalsRest
    \/ \E a \in Asks : RunTool(a) /\ ProposalsRest
    \/ \E a \in Asks : CollectFacts(a) /\ ProposalsRest
    \/ \E a \in Asks : \E response \in Responses : Explain(a, response) /\ ProposalsRest
    \/ \E a \in Asks : ProviderFails(a) /\ ProposalsRest
    \/ \E a \in Asks : EnsureThread(a) /\ ProposalsRest
    \/ \E a \in Asks : CheckThread(a) /\ ProposalsRest
    \/ \E a \in Asks : InsertMessage(a) /\ ProposalsRest
    \/ \E t \in Threads : ArchiveThread(t) /\ ProposalsRest
    \/ \E t \in Threads : RestoreThread(t) /\ ProposalsRest
    \/ \E t \in Threads : DeleteMessages(t) /\ ProposalsRest
    \/ \E t \in Threads : DeleteThread(t) /\ ProposalsRest
    \/ EditData /\ ProposalsRest
    \/ Tick /\ ProposalsRest
    \/ \E p \in Proposals : \E payload \in Payloads : CreateProposal(p, payload) /\ ConversationsRest
    \/ \E c \in Confirms : \E p \in Proposals : ReadProposal(c, p) /\ ConversationsRest
    \/ \E c \in Confirms : MarkExpired(c) /\ ConversationsRest
    \/ \E c \in Confirms : Validate(c) /\ ConversationsRest
    \/ \E c \in Confirms : Execute(c) /\ ConversationsRest
    \/ \E c \in Confirms : MarkExecuted(c) /\ ConversationsRest
    \/ WebCrash /\ ConversationsRest
    \/ \E k \in Categories : ArchiveCategory(k) /\ ConversationsRest
    \/ \E a \in Accounts : \E row \in AccountRows : ChangeAccount(a, row) /\ ConversationsRest
    \/ Pass /\ ConversationsRest

Spec == Init /\ [][Next]_vars
=============================================================================
