------------------------------- MODULE ChatDesk -------------------------------
(***************************************************************************)
(* Conversations, once the gate of Access is passed: sessions and what     *)
(* they remember (solvent/memory.py, chat.py), the tools a turn may use,   *)
(* the operator's commands (ops.py), and the notices of a job on their way *)
(* to the session that ordered it (gateway.on_job_event, notifications.py, *)
(* event_hub.py).  One process answers Telegram and one the dashboard,     *)
(* each a message at a time; events of jobs come from any process.         *)
(***************************************************************************)
EXTENDS Integers, FiniteSets

CONSTANTS Person, Ticket, \* Ticket: jobs that chats may order
          MaxRoundTrips,  \* rounds of _run_chat_loop
          CallBudget,     \* MAX_TOOL_CALLS of a turn
          ChatTurns, MaxNotices  \* bounds: turns, notices of a job

\* screen is the dashboard's chat; the others are Telegram's.
Room == {"private", "group", "screen"}
Desk == {"bot", "web"}
DeskOf(chat) == IF chat = "screen" THEN "web" ELSE "bot"
Role == {"operator", "customer"}
Key  == [role : Role, chat : Room, who : Person]
Nobody == [role |-> "nobody"]
NoTicket == "no ticket"
Quiet == [at |-> "quiet"]

ASSUME ChatAssumption ==
    /\ MaxRoundTrips \in Nat \ {0} /\ CallBudget \in Nat /\ ChatTurns \in Nat /\ MaxNotices \in Nat
    /\ NoTicket \notin Ticket

VARIABLES operators,  \* SOLVENT_OPERATOR_IDS
          sessions,   \* chat_sessions and chat_messages of the keys that exist
          turns,      \* the turn each desk is at
          orders,     \* job_owner_session_id of the jobs
          answers,    \* what was answered: [who, chat, trusted, secret]
          metered,    \* roles whose turns were billed to the treasury
          told,       \* notices sent over Telegram: [ticket, chat, who, notice, secret]
          outbox,     \* chat_outbox.jsonl, by ticket
          screens,    \* notices of each ticket that the dashboard has shown
          raised,     \* notices of each ticket raised in the server, and elsewhere
          begun       \* turns so far

noticeVars == <<told, outbox, screens, raised>>
chatVars == <<operators, sessions, turns, orders, answers, metered, noticeVars, begun>>

ChatTypeOK ==
    /\ operators \subseteq Person /\ DOMAIN sessions \subseteq Key
    /\ \A k \in DOMAIN sessions : /\ sessions[k].pending \in BOOLEAN /\ sessions[k].secret \in BOOLEAN
                                  /\ sessions[k].notify \in Ticket \cup {NoTicket}
    /\ \A d \in Desk : turns[d].at \in {"quiet", "thinking", "calling", "ordered"}
    /\ orders \in [Ticket -> Key \cup {Nobody}] /\ metered \subseteq Role
    /\ outbox \in [Ticket -> Nat] /\ screens \in [Ticket -> Nat]
    /\ raised \in [Ticket -> [server : Nat, elsewhere : Nat]] /\ begun \in 0..ChatTurns

ChatInit ==
    /\ operators \in SUBSET Person /\ sessions = [k \in {} |-> Quiet]
    /\ turns = [d \in Desk |-> Quiet] /\ orders = [t \in Ticket |-> Nobody]
    /\ answers = {} /\ metered = {} /\ told = {}
    /\ outbox = [t \in Ticket |-> 0] /\ screens = [t \in Ticket |-> 0]
    /\ raised = [t \in Ticket |-> [server |-> 0, elsewhere |-> 0]] /\ begun = 0

-----------------------------------------------------------------------------
(* Who speaks.                                                             *)

\* ops.is_operator: the dashboard is the operator's; on Telegram nobody is one
\* in a group.
IsOperator(p, chat) == chat = "screen" \/ (chat = "private" /\ p \in operators)
RoleIn(p, chat) == IF IsOperator(p, chat) THEN "operator" ELSE "customer"

\* telegram_session_key
KeyOf(p, chat) == [role |-> RoleIn(p, chat), chat |-> chat, who |-> p]

NewSession == [pending |-> FALSE, notify |-> NoTicket, secret |-> FALSE]

\* Mutant: the history is a person's, whatever the role.
OpenedByPerson(k) ==
    LET hers == {o \in DOMAIN sessions : o.chat = k.chat /\ o.who = k.who}
    IN  [l \in DOMAIN sessions \cup {k} |->
           IF l \in DOMAIN sessions THEN sessions[l]
           ELSE [NewSession EXCEPT !.secret = \E o \in hers : sessions[o].secret]]

\* get_or_create_chat_session
Opened(k) == IF k \in DOMAIN sessions THEN sessions
             ELSE [l \in DOMAIN sessions \cup {k} |-> IF l = k THEN NewSession ELSE sessions[l]]
Answer(p, chat, secret) ==
    answers' = answers \cup {[who |-> p, chat |-> chat, trusted |-> IsOperator(p, chat), secret |-> secret]}

\* /help, /status, the reports of ops.COMMANDS and /pair qr: the shop's own
\* numbers for the operator, a refusal for anyone else.
Command(p, chat) ==
    /\ turns[DeskOf(chat)] = Quiet /\ begun < ChatTurns /\ begun' = begun + 1
    /\ sessions' = Opened(KeyOf(p, chat)) /\ Answer(p, chat, IsOperator(p, chat))
    /\ UNCHANGED <<operators, turns, orders, metered, noticeVars>>

-----------------------------------------------------------------------------
(* A turn of handle_message.                                               *)

\* The message is stored, with what it says of a brief to be commissioned; the
\* history goes into the prompt.  A customer's model is the offline stub.
Hear(p, chat, says) ==
    LET k == KeyOf(p, chat)
        s == Opened(k)
    IN  /\ turns[DeskOf(chat)] = Quiet /\ begun < ChatTurns /\ begun' = begun + 1
        /\ sessions' = [s EXCEPT ![k].pending = @ \/ says]
        /\ turns' = [turns EXCEPT ![DeskOf(chat)] =
              [at |-> "thinking", key |-> k, calls |-> 0, rounds |-> 0, ticket |-> NoTicket,
               secret |-> s[k].secret]]
        /\ metered' = metered \cup (IF k.role = "operator" THEN {k.role} ELSE {})
        /\ UNCHANGED <<operators, orders, answers, noticeVars>>

\* The model answers without tools, or the rounds are used up.
Reply(d) ==
    LET t == turns[d]
    IN  /\ t.at = "thinking"
        /\ sessions' = [sessions EXCEPT ![t.key].secret = @ \/ t.secret]
        /\ Answer(t.key.who, t.key.chat, t.secret)
        /\ turns' = [turns EXCEPT ![d] = Quiet]
        /\ UNCHANGED <<operators, orders, metered, noticeVars, begun>>

\* It asks for tools: the turn goes through them, until its budget is spent.
AskForTools(d) ==
    /\ turns[d].at = "thinking" /\ turns[d].rounds < MaxRoundTrips
    /\ turns' = [turns EXCEPT ![d] = [turns[d] EXCEPT !.at = "calling", !.rounds = @ + 1]]
    /\ UNCHANGED <<operators, sessions, orders, answers, metered, noticeVars, begun>>

EndRound(d) ==
    /\ turns[d].at = "calling"
    /\ turns' = [turns EXCEPT ![d].at = "thinking"]
    /\ UNCHANGED <<operators, sessions, orders, answers, metered, noticeVars, begun>>

\* treasury_status, job_status and quote_brief tell costs and margins to an
\* operator; a live search is the operator's, and metered.
CallTool(d) ==
    LET t == turns[d]
    IN  /\ t.at = "calling" /\ t.calls < CallBudget
        /\ \E private \in BOOLEAN :
             turns' = [turns EXCEPT ![d] =
                [t EXCEPT !.calls = @ + 1, !.secret = @ \/ (private /\ t.key.role = "operator")]]
        /\ UNCHANGED <<operators, sessions, orders, answers, metered, noticeVars, begun>>

\* submit_brief: the job is the session's; the caller may be declined.
PlaceOrder(d, ticket) ==
    LET t == turns[d]
    IN  /\ t.at = "calling" /\ t.calls < CallBudget /\ orders[ticket] = Nobody
        /\ orders' = [orders EXCEPT ![ticket] = t.key]
        /\ \E accepted \in BOOLEAN :
             turns' = [turns EXCEPT ![d] =
                [t EXCEPT !.calls = @ + 1, !.ticket = ticket,
                          !.at = IF accepted THEN "ordered" ELSE "calling"]]
        /\ UNCHANGED <<operators, sessions, answers, metered, noticeVars, begun>>

\* ... and is watched from then on, instead of the one before.
Watch(d) ==
    LET t == turns[d]
    IN  /\ t.at = "ordered"
        /\ sessions' = [sessions EXCEPT ![t.key] = [@ EXCEPT !.notify = t.ticket, !.pending = FALSE]]
        /\ turns' = [turns EXCEPT ![d].at = "calling"]
        /\ UNCHANGED <<operators, orders, answers, metered, noticeVars, begun>>

\* The operator edits the list and restarts the processes; turns are lost.
Regroup(ops) ==
    /\ operators # ops /\ operators' = ops
    /\ turns' = [d \in Desk |-> Quiet]
    /\ UNCHANGED <<sessions, orders, answers, metered, noticeVars, begun>>

-----------------------------------------------------------------------------
(* Notices.                                                                *)

Watchers(ticket) == {k \in DOMAIN sessions : sessions[k].notify = ticket}

\* format_job_notification and the customer's receipt; the receipt of a refund.
Notice == {"news", "refund"}

\* Only the receipt of a refund gives a reason, error_reason: it may be the
\* failure of a delivery, or a guardrail's refusal with vendor, cost and limit.
Tells(notice, private) == private /\ notice = "refund"

\* on_job_event: to the watchers' chats, whatever their role; what is for the
\* dashboard goes into the outbox, and in the server itself to the screen too.
Tell(ticket, where, notice, private) ==
    LET web == {k \in Watchers(ticket) : k.chat = "screen"}
    IN  /\ Watchers(ticket) # {}
        /\ raised[ticket].server + raised[ticket].elsewhere < MaxNotices
        /\ raised' = [raised EXCEPT ![ticket][where] = @ + 1]
        /\ told' = told \cup
             {[ticket |-> ticket, chat |-> k.chat, who |-> k.who,
               notice |-> notice, secret |-> Tells(notice, private)] : k \in Watchers(ticket) \ web}
        /\ outbox' = [outbox EXCEPT ![ticket] = @ + Cardinality(web)]
        /\ screens' = [screens EXCEPT ![ticket] = @ + (IF where = "server" THEN Cardinality(web) ELSE 0)]
        /\ UNCHANGED <<operators, sessions, turns, orders, answers, metered, begun>>

\* The server polls the outbox: under its lock it is read and emptied.  What a
\* subscriber's queue has no room for is dropped.
Drain ==
    /\ \E t \in Ticket : outbox[t] > 0
    /\ outbox' = [t \in Ticket |-> 0]
    /\ \/ screens' = [t \in Ticket |-> screens[t] + outbox[t]]
       \/ UNCHANGED screens
    /\ UNCHANGED <<operators, sessions, turns, orders, answers, metered, told, raised, begun>>

ChatNext ==
    \/ Drain \/ \E ops \in SUBSET Person : Regroup(ops)
    \/ \E p \in Person, chat \in Room : Command(p, chat) \/ \E says \in BOOLEAN : Hear(p, chat, says)
    \/ \E d \in Desk : \/ Reply(d) \/ AskForTools(d) \/ EndRound(d) \/ CallTool(d) \/ Watch(d)
                       \/ \E t \in Ticket : PlaceOrder(d, t)
    \/ \E t \in Ticket, where \in {"server", "elsewhere"}, notice \in Notice, private \in BOOLEAN :
         Tell(t, where, notice, private)

ChatSpec == ChatInit /\ [][ChatNext]_chatVars

-----------------------------------------------------------------------------
(* Properties.                                                             *)

\* What only the operator may know is said in a chat to nobody who is not one when
\* it is said, whatever the session has heard while he was ("revoking operator
\* access cannot expose an old private reply", memory.telegram_session_key; "a
\* customer is not entitled to the agent's win rate, customer book, or cash
\* position", ops.py); no customer's turn is paid for by the shop; and a notice
\* tells it in one case only, which the code does have: the reason on the receipt
\* of a refund goes to whoever watches the job, a customer as well, though
\* job_status withholds the same error_reason from him.
SecretsHold ==
    /\ \A a \in answers : a.secret => a.trusted
    /\ metered \subseteq {"operator"}
    /\ \A n \in told : n.secret => n.notice = "refund"

\* Notices of a job reach the chat that ordered it and no other, and the
\* dashboard shows each at most once, but those raised in the server itself,
\* which it shows twice (gateway.notify: handler and outbox).
NoticesHold ==
    /\ \A n \in told : orders[n.ticket].chat = n.chat /\ orders[n.ticket].who = n.who
    /\ \A k \in DOMAIN sessions : sessions[k].notify # NoTicket => orders[sessions[k].notify] = k
    /\ \A t \in Ticket : screens[t] + outbox[t] <= 2 * raised[t].server + raised[t].elsewhere

ChatHolds == ChatTypeOK /\ SecretsHold /\ NoticesHold
=============================================================================
