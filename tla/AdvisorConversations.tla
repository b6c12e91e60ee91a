------------------------- MODULE AdvisorConversations -------------------------
(***************************************************************************)
(* Questions to the advisor, from the request to the stored answer, the    *)
(* conversations they are stored in, and what the user does to either      *)
(* meanwhile: edits of the data that the tools read, and archiving,        *)
(* restoring or deleting a conversation.  Every read or write of the       *)
(* database is a step, since nothing here runs in a transaction.           *)
(***************************************************************************)
EXTENDS AdvisorTools

CONSTANTS
    Asks, Threads,
    Existing,         \* the conversations there are at first
    Questions,        \* [Asks -> set of questions that may be asked]
    Databases,        \* the data that the tools may find
    Today,
    Responses,        \* what the provider may return: None is not an explanation
    MaxRetries,       \* AI_MAX_RETRIES
    MaxToolCalls,     \* AI_MAX_TOOL_CALLS
    RateMax, RateWindow,
    BaseCurrency,     \* preferences.baseCurrency
    MaxTime, MaxEdits \* bounds of the model

VARIABLES
    data,             \* what the database holds
    now, edits,
    bucket,           \* the rate limiter's bucket of the user
    ask,              \* [Asks -> a request in progress]
    thread,           \* [Threads -> "none", "open", "archived" or "deleted"]
    messages,         \* [Threads -> the messages in the order of insertion]
    removal,          \* [Threads -> how far deleteThread got]
    edited            \* the requests during which data changed

ASSUME ConversationsAssumption ==
    /\ MaxRetries \in Nat /\ RateMax \in Nat /\ MaxTime \in Nat /\ MaxEdits \in Nat
    /\ MaxToolCalls \in Nat /\ MaxFacts \in Nat /\ MaxBreakdown \in Nat
    /\ Existing \subseteq Threads
    /\ \A a \in Asks : \A question \in Questions[a] : question.thread \in Threads \union {None}
    /\ None \notin Threads /\ None \notin {"answer", "noData", "unsupported", "clarification"}

\* What a ledger keeps in which no two replacements of splits raced, and finitely
\* many accounts.
ASSUME DatabasesAssumption == \A d \in Databases : Whole(d.ledger) /\ IsFiniteSet(d.accounts)

conversationVars == <<data, now, edits, bucket, ask, thread, messages, removal, edited>>

Texts == {"answer", "noData", "unsupported", "clarification"}

NoAnswer == [text |-> None, cited |-> {}, placeholders |-> {}, drilldowns |-> {}, draft |-> None]

Unasked ==
    [pc |-> "idle", question |-> None, plan |-> None, tools |-> <<>>, facts |-> <<>>,
     attempt |-> 0, thread |-> None, role |-> "user", answer |-> NoAnswer]

ConversationsInit ==
    /\ data \in Databases
    /\ now = 0 /\ edits = 0 /\ bucket = None
    /\ ask = [a \in Asks |-> Unasked]
    /\ thread = [t \in Threads |-> IF t \in Existing THEN "open" ELSE "none"]
    /\ messages = [t \in Threads |-> <<>>]
    /\ removal = [t \in Threads |-> "no"]
    /\ edited = {}

Set(a, record) == ask' = [ask EXCEPT ![a] = record]

Fail(a) == Set(a, [ask[a] EXCEPT !.pc = "failed"])

------------------------------------------------------------------------------
(* The request.                                                            *)

\* check() of the rate limiter: a new window, or one more in the old one.
Bucket == IF bucket = None \/ now - bucket.start >= RateWindow
          THEN [start |-> now, count |-> 0] ELSE bucket

CurrenciesInUse ==
    {a.currency : a \in data.accounts} \union {t.currency : t \in data.ledger}

Asking(question, plan, pc, tools, answer) ==
    [pc |-> pc, question |-> question, plan |-> plan, tools |-> tools, facts |-> <<>>,
     attempt |-> 0, thread |-> question.thread, role |-> "user", answer |-> answer]

\* What follows the plan: a fixed reply, or the tools.
Planned(question, plan) ==
    LET Reply(text) ==
           Asking(question, plan, "thread", <<>>, [NoAnswer EXCEPT !.text = text])
    IN IF plan.needsClarification THEN Reply("clarification")
       ELSE IF plan.topic = "unsupported" THEN Reply("unsupported")
       ELSE Asking(question, plan, "tools", FirstOf(plan.tools, MaxToolCalls), NoAnswer)

\* Over the limit nothing is read; an account that is not the user's is not found.
AskQuestion(a, question) ==
    LET plan == PlanAdvisorRequest(question, Today, CurrenciesInUse)
        owned == question.context.account \in {None} \union {b.id : b \in data.accounts}
    IN /\ ask[a].pc = "idle"
       /\ IF Bucket.count >= RateMax
          THEN bucket' = Bucket /\ Set(a, [Unasked EXCEPT !.pc = "refused"])
          ELSE /\ bucket' = [Bucket EXCEPT !.count = @ + 1]
               /\ Set(a, IF owned THEN Planned(question, plan)
                         ELSE [Unasked EXCEPT !.pc = "refused"])
       /\ UNCHANGED <<data, now, edits, thread, messages, removal, edited>>

RunTool(a) ==
    LET tools == ask[a].tools
        facts == ToolFacts(Head(tools), data, ScopeOf(ask[a].question, ask[a].plan), Today)
    IN /\ ask[a].pc = "tools" /\ tools # <<>>
       /\ Set(a, [ask[a] EXCEPT !.tools = Tail(tools), !.facts = @ \o facts])
       /\ UNCHANGED <<data, now, edits, bucket, thread, messages, removal, edited>>

\* Without facts the provider is not called.
CollectFacts(a) ==
    LET facts == Numbered(ask[a].facts)
        found == [ask[a] EXCEPT !.facts = facts]
    IN /\ ask[a].pc = "tools" /\ ask[a].tools = <<>>
       /\ Set(a, IF facts = <<>>
                 THEN [found EXCEPT !.pc = "thread",
                                    !.answer = [NoAnswer EXCEPT !.text = "noData"]]
                 ELSE [found EXCEPT !.pc = "explain"])
       /\ UNCHANGED <<data, now, edits, bucket, thread, messages, removal, edited>>

\* The budget that the advisor offers to create.
BudgetDraft(question) ==
    [currency |-> IF question.context.currency = None THEN BaseCurrency
                  ELSE question.context.currency,
     category |-> IF question.category \in data.categories THEN question.category ELSE None,
     account |-> question.context.account]

Answered(a, response) ==
    [text |-> "answer", cited |-> response.cited \intersect DOMAIN ask[a].facts,
     placeholders |-> response.placeholders,
     drilldowns |-> Drilldowns(response.cited \intersect DOMAIN ask[a].facts, ask[a].facts),
     draft |-> IF ask[a].plan.proposes THEN BudgetDraft(ask[a].question) ELSE None]

\* One call of the provider: an answer, another attempt or no answer.
Explain(a, response) ==
    /\ ask[a].pc = "explain"
    /\ IF response # None /\ ValidExplanation(response, ask[a].facts)
       THEN Set(a, [ask[a] EXCEPT !.pc = "thread", !.answer = Answered(a, response)])
       ELSE IF ask[a].attempt < MaxRetries THEN Set(a, [ask[a] EXCEPT !.attempt = @ + 1])
       ELSE Fail(a)
    /\ UNCHANGED <<data, now, edits, bucket, thread, messages, removal, edited>>

ProviderFails(a) ==
    /\ ask[a].pc = "explain" /\ Fail(a)
    /\ UNCHANGED <<data, now, edits, bucket, thread, messages, removal, edited>>

\* The conversation the client names is taken as it is, checked later.
EnsureThread(a) ==
    /\ ask[a].pc = "thread"
    /\ IF ask[a].thread # None
       THEN Set(a, [ask[a] EXCEPT !.pc = "check"]) /\ UNCHANGED thread
       ELSE \E t \in Threads :
               /\ thread[t] = "none"
               /\ thread' = [thread EXCEPT ![t] = "open"]
               /\ Set(a, [ask[a] EXCEPT !.pc = "check", !.thread = t])
    /\ UNCHANGED <<data, now, edits, bucket, messages, removal, edited>>

------------------------------------------------------------------------------
(* appendMessage, for the question and then for the answer.                *)

CheckThread(a) ==
    /\ ask[a].pc = "check"
    /\ IF thread[ask[a].thread] = "open" THEN Set(a, [ask[a] EXCEPT !.pc = "insert"]) ELSE Fail(a)
    /\ UNCHANGED <<data, now, edits, bucket, thread, messages, removal, edited>>

Message(a) == [ask |-> a, role |-> ask[a].role]

\* The answer is appended the way the question was.
Appended(a) ==
    IF ask[a].role = "user" THEN [ask[a] EXCEPT !.pc = "check", !.role = "assistant"]
    ELSE [ask[a] EXCEPT !.pc = "done"]

\* Mutant: a message that names no conversation by a foreign key.
InsertUnreferenced(a) ==
    /\ ask[a].pc = "insert"
    /\ messages' = [messages EXCEPT ![ask[a].thread] = Append(@, Message(a))]
    /\ Set(a, Appended(a))
    /\ UNCHANGED <<data, now, edits, bucket, thread, removal, edited>>

\* The foreign key refuses a message of a conversation that is gone.
InsertMessage(a) ==
    /\ ask[a].pc = "insert"
    /\ IF thread[ask[a].thread] \in {"open", "archived"}
       THEN /\ messages' = [messages EXCEPT ![ask[a].thread] = Append(@, Message(a))]
            /\ Set(a, Appended(a))
       ELSE Fail(a) /\ UNCHANGED messages
    /\ UNCHANGED <<data, now, edits, bucket, thread, removal, edited>>

------------------------------------------------------------------------------
(* The user, meanwhile.                                                    *)

ArchiveThread(t) ==
    /\ thread[t] = "open"
    /\ thread' = [thread EXCEPT ![t] = "archived"]
    /\ UNCHANGED <<data, now, edits, bucket, ask, messages, removal, edited>>

RestoreThread(t) ==
    /\ thread[t] = "archived"
    /\ thread' = [thread EXCEPT ![t] = "open"]
    /\ UNCHANGED <<data, now, edits, bucket, ask, messages, removal, edited>>

DeleteMessages(t) ==
    /\ removal[t] = "no" /\ thread[t] \in {"open", "archived"}
    /\ messages' = [messages EXCEPT ![t] = <<>>]
    /\ removal' = [removal EXCEPT ![t] = "messages"]
    /\ UNCHANGED <<data, now, edits, bucket, ask, thread, edited>>

\* A message inserted since then keeps the conversation: the key has no cascade.
DeleteThread(t) ==
    /\ removal[t] = "messages"
    /\ IF messages[t] = <<>>
       THEN /\ thread' = [thread EXCEPT ![t] = "deleted"]
            /\ removal' = [removal EXCEPT ![t] = "done"]
       ELSE removal' = [removal EXCEPT ![t] = "failed"] /\ UNCHANGED thread
    /\ UNCHANGED <<data, now, edits, bucket, ask, messages, edited>>

Running(a) == ask[a].pc \notin {"idle", "done", "failed", "refused"}

EditData ==
    /\ edits < MaxEdits
    /\ \E d \in Databases \ {data} : data' = d
    /\ edits' = edits + 1
    /\ edited' = edited \union {a \in Asks : Running(a)}
    /\ UNCHANGED <<now, bucket, ask, thread, messages, removal>>

Tick ==
    /\ now < MaxTime
    /\ now' = now + 1
    /\ UNCHANGED <<data, edits, bucket, ask, thread, messages, removal, edited>>

------------------------------------------------------------------------------
(* Properties.                                                             *)

\* The shape of the state.
ConversationsTypeOK ==
    /\ data \in Databases /\ now \in 0..MaxTime /\ edits \in 0..MaxEdits
    /\ bucket = None \/ bucket \in [start : 0..now, count : 0..RateMax]
    /\ \A a \in Asks :
          /\ ask[a].pc \in {"idle", "refused", "tools", "explain", "thread", "check", "insert",
                            "done", "failed"}
          /\ ask[a].attempt \in 0..MaxRetries /\ ask[a].role \in {"user", "assistant"}
          /\ ask[a].thread \in Threads \union {None} /\ ask[a].answer.text \in Texts \union {None}
          /\ DOMAIN ask[a].facts \subseteq 1..MaxFacts \/ ask[a].pc = "tools"
    /\ thread \in [Threads -> {"none", "open", "archived", "deleted"}]
    /\ removal \in [Threads -> {"no", "messages", "done", "failed"}]
    /\ edited \subseteq Asks
    /\ \A t \in Threads : \A i \in DOMAIN messages[t] :
          messages[t][i] \in [ask : Asks, role : {"user", "assistant"}]

Positions(a, role) ==
    {i \in DOMAIN messages[ask[a].thread] :
        messages[ask[a].thread][i] = [ask |-> a, role |-> role]}

\* The types hold, a conversation that is gone has no messages, whoever was appending to it, and
\* one that nobody deletes keeps each question once, before its one answer.
ConversationsKept ==
    /\ ConversationsTypeOK
    /\ \A t \in Threads : thread[t] \in {"none", "deleted"} => messages[t] = <<>>
    /\ \A a \in Asks :
          LET t == ask[a].thread
              questions == Positions(a, "user")
              answers == Positions(a, "assistant")
          IN t # None /\ removal[t] = "no" =>
                /\ Cardinality(questions) <= 1 /\ Cardinality(answers) <= 1
                /\ \A i \in answers : \E j \in questions : j < i
                /\ ask[a].pc = "done" => answers # {}

\* An answer refers to facts only, at least to one, links to nothing else, and
\* a period that decides it was named by the question or its context.
AnswersAreGrounded ==
    \A a \in Asks :
       LET question == ask[a].question
           answer == ask[a].answer
       IN answer.text = "answer" =>
            /\ answer.placeholders \union answer.cited # {}
            /\ answer.placeholders \subseteq DOMAIN ask[a].facts
            /\ answer.drilldowns \subseteq {ask[a].facts[i].link : i \in DOMAIN ask[a].facts}
            /\ ask[a].plan.topic \in PeriodSensitive =>
                  question.phrases # {} \/ question.context.range # None

Value(facts, label) ==
    IF \E i \in DOMAIN facts : facts[i].label = label
    THEN facts[CHOOSE i \in DOMAIN facts : facts[i].label = label].value ELSE None

\* What moved one way in a range, straight from the transactions.
MovedIn(ledger, direction, range, scope, currency) ==
    Total({t \in ledger :
             /\ t.status = "confirmed" /\ t.direction = direction /\ t.transfer # "confirmed"
             /\ range.from <= t.date /\ t.date <= range.to /\ t.currency = currency
             /\ scope.account \in {None, t.account}})

\* The facts about a currency: the net is the income less the expenses, a change is
\* against as many days just before.
SumsAgree(facts, ledger, range, scope, currency) ==
    LET days == range.to - range.from + 1
        previous == [from |-> range.from - days, to |-> range.from - 1]
        spent == MovedIn(ledger, "debit", range, scope, currency)
        received == MovedIn(ledger, "credit", range, scope, currency)
        spentBefore == MovedIn(ledger, "debit", previous, scope, currency)
        receivedBefore == MovedIn(ledger, "credit", previous, scope, currency)
        Says(label) == Value(facts, <<label, currency>>)
    IN /\ Says("expenses") \in {None, spent} /\ Says("income") \in {None, received}
       /\ Says("net") \in {None, received - spent}
       /\ Says("expense_change") \in {None, spent - spentBefore}
       /\ Says("income_change") \in {None, received - receivedBefore}

\* Categories add up to the expenses, if neither they nor the facts were cut.
CategoriesAgree(facts, ledger, range, scope, currency) ==
    LET shown == {i \in DOMAIN facts :
                    facts[i].label[1] = "category" /\ facts[i].label[3] = currency}
        amount == [i \in shown |-> facts[i].value]
    IN Len(facts) < MaxFacts /\ Cardinality(shown) \in 1..(MaxBreakdown - 1) =>
          ValuesSum(amount, shown) = MovedIn(ledger, "debit", range, scope, currency)

\* Facts of a question about sums, during which nothing was edited, agree across its
\* tools and with the transactions.
FactsAgree ==
    \A a \in Asks :
       /\ ask[a].pc = "explain" /\ a \notin edited
       /\ ask[a].plan.topic \in {"period_summary", "category_breakdown"}
       => \A c \in {t.currency : t \in data.ledger} :
             LET range == ask[a].plan.range
                 scope == ScopeOf(ask[a].question, ask[a].plan)
             IN /\ SumsAgree(ask[a].facts, data.ledger, range, scope, c)
                /\ CategoriesAgree(ask[a].facts, data.ledger, range, scope, c)
=============================================================================
