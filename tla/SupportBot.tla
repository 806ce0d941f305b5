----------------------------- MODULE SupportBot -----------------------------
(***************************************************************************)
(* The support bot: the chat of one browser tab, the proxy of the API that *)
(* passes its requests on for at most ten seconds, and the Python service, *)
(* which takes one request at a time from its backlog and keeps one state  *)
(* for each session. A write that an admin asks for is drafted, kept as    *)
(* the session's pending action, and sent to the API when a later request  *)
(* confirms it in words.                                                   *)
(*                                                                         *)
(* The service knows a caller by the header Authorization alone, and the   *)
(* proxy sends the token in the body: whatever comes through the API is    *)
(* nobody's to the bot, gets no draft and confirms none.  The tab's dialog *)
(* of a draft never opens and is left out.  A session is whoever names its *)
(* id, so requests of admins at the bot's own port and nobody's through    *)
(* the API may meet in one.                                                *)
(*                                                                         *)
(* A draft is named by the request that made it: log[i].fate tells what    *)
(* became of the draft of request i, log[i].calls how often the API has    *)
(* carried it out.                                                         *)
(***************************************************************************)
EXTENDS Integers, Sequences

CONSTANTS
    Users, Admins,
    Sessions, TabSession,
    MaxRequests, MaxRestarts,   \* bounds
    Nobody

ASSUME BotAssumption ==
    /\ Admins \subseteq Users /\ Nobody \notin Users
    /\ TabSession \in Sessions
    /\ MaxRequests \in Nat /\ MaxRestarts \in Nat

VARIABLES
    log,         \* every request, in the order in which the bot receives them
    serving,     \* the confirmation whose API call the bot waits for, or 0
    pending,     \* pending[s]: state.pending_action of session s, or 0
    activeIntent, \* activeIntent[s]: state.active_intent of session s
    chat,        \* useBotChat: status
    tabToken,    \* has the tab a token to send?
    restarts

bot == <<serving, pending, activeIntent>>
botVars == <<log, bot, chat, tabToken, restarts>>
------------------------------------------------------------------------------
Messages == {"write", "read", "other"}          \* what the words of a text match
Confirmations == {"explicit", "empty"}
Answers == {"plain", "unavailable"}             \* a reply, 503
ChatStatuses == {"idle", "loading", "error", "requiresAuth"}
Settled == {"replaced", "cancelled", "called", "refused", "lost"}

Served == [user |-> Nobody, kind |-> "served"]

Request ==
    [session : Sessions,
     ask : [user : Users \cup {Nobody}, kind : Messages \cup Confirmations] \cup {Served},
     answer : Answers \cup {"none", "closed"},
     fate : {"none", "pending"} \cup Settled,
     calls : Nat]

BotTypeOK ==
    /\ log \in Seq(Request) /\ Len(log) <= MaxRequests
    /\ serving \in 0 .. Len(log)
    /\ pending \in [Sessions -> 0 .. Len(log)]
    /\ activeIntent \in [Sessions -> {"none", "write", "read", "clarify"}]
    /\ chat \in ChatStatuses
    /\ tabToken \in BOOLEAN
    /\ restarts \in 0 .. MaxRestarts

BotInit ==
    /\ log = << >>
    /\ serving = 0
    /\ pending = [s \in Sessions |-> 0]
    /\ activeIntent = [s \in Sessions |-> "none"]
    /\ chat = "idle"
    /\ tabToken \in BOOLEAN
    /\ restarts = 0

Waits(i) == log[i].answer = "none"
Backlog == {i \in DOMAIN log : log[i].ask # Served /\ i # serving}
Fate(l, i, fate) == IF i = 0 THEN l ELSE [l EXCEPT ![i].fate = fate]
------------------------------------------------------------------------------
(* Requests, and the proxy. A call without a token is refused by the API   *)
(* and the client leaves for the login page.                               *)
Receive(s, u, kind, answer) ==
    /\ Len(log) < MaxRequests
    /\ log' = Append(log, [session |-> s, ask |-> [user |-> u, kind |-> kind],
                           answer |-> answer, fate |-> "none", calls |-> 0])

\* The header that the proxy leaves out takes the place of what its body says.
Proxied(s, kind, answer) == Receive(s, Nobody, kind, answer)

TabSends(kind) ==
    /\ IF tabToken
       THEN chat' = "loading" /\ Proxied(TabSession, kind, "none")
       ELSE chat' = "requiresAuth" /\ UNCHANGED log
    /\ UNCHANGED <<bot, tabToken, restarts>>

\* Programs, at the bot's port or through the API; what they are answered is
\* not modelled.
OthersSend(s, kind) ==
    /\ \/ \E u \in Users : Receive(s, u, kind, "closed")
       \/ Proxied(s, kind, "closed")
    /\ UNCHANGED <<bot, chat, tabToken, restarts>>

\* Ten seconds have passed.  The bot has the request all the same.
ProxyGivesUp(i) ==
    /\ Waits(i)
    /\ log' = [log EXCEPT ![i].answer = "unavailable"]
    /\ UNCHANGED <<bot, chat, tabToken, restarts>>
------------------------------------------------------------------------------
(* The Python service. *)
IsAuthorized(u, name) == name = "write" => u \in Admins

\* The words of a text decide; a text without such words is taken to go on
\* with the last intent of the session.
ClassifyWords(kind, active) == kind
Classify(kind, active) ==
    IF kind # "other" THEN kind ELSE IF active = "none" THEN "clarify" ELSE active

Reply(l, i) ==
    [l EXCEPT ![i].ask = Served, ![i].answer = IF Waits(i) THEN "plain" ELSE @]

DraftIfNone(i, s) ==
    /\ pending' = IF pending[s] = 0 THEN [pending EXCEPT ![s] = i] ELSE pending
    /\ log' = Fate(Reply(log, i), i, "pending")

\* At most one draft of a session waits: a new one takes the place of the last.
Draft(i, s) ==
    /\ pending' = [pending EXCEPT ![s] = i]
    /\ log' = Fate(Fate(Reply(log, i), pending[s], "replaced"), i, "pending")

ProcessMessage(i) ==
    LET s == log[i].session
        name == Classify(log[i].ask.kind, activeIntent[s])
    IN /\ activeIntent' = [activeIntent EXCEPT ![s] = name]
       /\ IF name = "write" /\ IsAuthorized(log[i].ask.user, name)
          THEN Draft(i, s)
          ELSE log' = Reply(log, i) /\ UNCHANGED pending
       /\ UNCHANGED serving

KeepPending(s) == UNCHANGED pending
ClearPending(s) == pending' = [pending EXCEPT ![s] = 0]

\* A confirmation in other words than the five that count cancels.
Cancel(i, s) ==
    /\ ClearPending(s)
    /\ log' = Fate(Reply(log, i), pending[s], "cancelled")

\* The API is called under the token of the confirmation, and carries it out or
\* refuses it.
ExecuteMutation(i, s) ==
    /\ serving' = i
    /\ \/ log' = [log EXCEPT ![pending[s]].fate = "called", ![pending[s]].calls = @ + 1]
       \/ UNCHANGED log

\* Wrong on purpose (mutation): the words are looked at first.
ConfirmWordsFirst(i) ==
    LET s == log[i].session
    IN /\ IF pending[s] # 0 /\ log[i].ask.kind # "explicit"
          THEN Cancel(i, s) /\ UNCHANGED serving
          ELSE IF pending[s] # 0 /\ IsAuthorized(log[i].ask.user, "write")
          THEN ExecuteMutation(i, s) /\ UNCHANGED pending
          ELSE log' = Reply(log, i) /\ UNCHANGED <<serving, pending>>
       /\ UNCHANGED activeIntent

ConfirmAction(i) ==
    LET s == log[i].session
    IN /\ IF pending[s] = 0 \/ ~IsAuthorized(log[i].ask.user, "write")
          THEN log' = Reply(log, i) /\ UNCHANGED <<serving, pending>>
          ELSE IF log[i].ask.kind = "explicit"
               THEN ExecuteMutation(i, s) /\ UNCHANGED pending
               ELSE Cancel(i, s) /\ UNCHANGED serving
       /\ UNCHANGED activeIntent

BotServes ==
    /\ serving = 0
    /\ \E i \in Backlog :
         /\ \A j \in Backlog : i <= j
         /\ IF log[i].ask.kind \in Messages THEN ProcessMessage(i) ELSE ConfirmAction(i)
    /\ UNCHANGED <<chat, tabToken, restarts>>

\* A refusal, too, is told as if the action had been executed, and ends it.
BotFinishes ==
    LET s == log[serving].session
        refused == log[pending[s]].fate = "pending"
    IN /\ serving # 0 /\ serving' = 0
       /\ ClearPending(s)
       /\ log' = IF refused THEN Fate(Reply(log, serving), pending[s], "refused")
                            ELSE Reply(log, serving)
       /\ UNCHANGED <<activeIntent, chat, tabToken, restarts>>

\* The body of a refusal cannot be read: the handler ends there, without an
\* answer, which the proxy tells as 503, and the action is still pending.
BotBreaks ==
    /\ serving # 0 /\ serving' = 0
    /\ log[pending[log[serving].session]].fate = "pending"
    /\ log' = [log EXCEPT ![serving].ask = Served,
                          ![serving].answer = IF Waits(serving) THEN "unavailable" ELSE @]
    /\ UNCHANGED <<pending, activeIntent, chat, tabToken, restarts>>

\* Sessions live in memory; connections break, which the proxy answers with 503.
BotRestarts ==
    /\ restarts < MaxRestarts
    /\ restarts' = restarts + 1
    /\ serving' = 0
    /\ pending' = [s \in Sessions |-> 0]
    /\ activeIntent' = [s \in Sessions |-> "none"]
    /\ log' = [i \in DOMAIN log |->
                [log[i] EXCEPT !.ask = Served,
                               !.answer = IF Waits(i) THEN "unavailable" ELSE @,
                               !.fate = IF @ = "pending" THEN "lost" ELSE @]]
    /\ UNCHANGED <<chat, tabToken>>
------------------------------------------------------------------------------
(* The chat. *)
SendMessage ==
    /\ chat \notin {"loading", "requiresAuth"}
    /\ \E kind \in Messages : TabSends(kind)

\* The session goes on under the same id.
ResetChat ==
    /\ chat' = "idle"
    /\ UNCHANGED <<log, bot, tabToken, restarts>>

ShownOnSuccess(answer) == IF answer = "unavailable" THEN chat ELSE "idle"
ShownAnswer(answer) == IF answer = "unavailable" THEN "error" ELSE "idle"

HandleBotResponse(i) ==
    /\ log[i].answer \in Answers
    /\ chat' = ShownAnswer(log[i].answer)
    /\ log' = [log EXCEPT ![i].answer = "closed"]
    /\ UNCHANGED <<bot, tabToken, restarts>>

\* The page is loaded again, by hand or on the way to the login page: the chat
\* is empty, and answers to the old page go nowhere.
PageLoads ==
    /\ chat' = "idle"
    /\ log' = [i \in DOMAIN log |-> [log[i] EXCEPT !.answer = "closed"]]
    /\ UNCHANGED <<bot, tabToken, restarts>>

LogInOrOut ==
    /\ tabToken' = ~tabToken
    /\ UNCHANGED <<log, bot, chat, restarts>>
------------------------------------------------------------------------------
Tab ==
    \/ SendMessage \/ ResetChat \/ PageLoads \/ LogInOrOut
    \/ \E i \in DOMAIN log : HandleBotResponse(i)

Others == \E s \in Sessions, kind \in Messages \cup Confirmations : OthersSend(s, kind)

BotNext ==
    \/ Tab \/ Others
    \/ BotServes \/ BotFinishes \/ BotBreaks \/ BotRestarts
    \/ \E i \in DOMAIN log : ProxyGivesUp(i)

\* The bot's loop goes on and its own calls give up after ten seconds; the
\* browser handles what arrives, and leaves when it is told to.
BotFairness ==
    /\ WF_botVars(BotServes) /\ WF_botVars(BotFinishes \/ BotBreaks)
    /\ WF_botVars(\E i \in DOMAIN log : HandleBotResponse(i))
    /\ WF_botVars(chat = "requiresAuth" /\ PageLoads)

BotSpec == BotInit /\ [][BotNext]_botVars /\ BotFairness
------------------------------------------------------------------------------
(* What the bot promises. *)

\* The pending action of a session is the one draft of it that still waits, and
\* no later message of the session has drafted another (state.pending_action).
PendingIsLatest ==
    \A s \in Sessions : \A i \in DOMAIN log :
        log[i].session = s /\ log[i].fate = "pending" => pending[s] = i

\* The API carries a draft out at most once, when an admin's explicit
\* confirmation of a later moment in the same session is served, and never after
\* it was replaced, cancelled, refused or lost, whoever confirms and however
\* often: confirm_action calls first and clears the pending action afterwards.
CalledOnce ==
    [][\A i \in DOMAIN log :
          /\ log[i].fate \in Settled => log'[i].fate = log[i].fate
          /\ log'[i].calls # log[i].calls =>
                /\ log[i].calls = 0 /\ log'[i].calls = 1 /\ log[i].fate = "pending"
                /\ \E j \in DOMAIN log :
                      /\ i < j /\ serving' = j /\ log[j].session = log[i].session
                      /\ log[j].ask.kind = "explicit" /\ log[j].ask.user \in Admins]_botVars

\* Only an admin's own request makes, replaces, cancels or executes the pending
\* action of a session, whoever else writes or confirms under its id meanwhile,
\* in whatever words; only a restart of the bot loses one besides.
OnlyAdminsDecide ==
    [][\A s \in Sessions :
          pending'[s] # pending[s] /\ restarts' = restarts =>
              \E i \in DOMAIN log :
                  /\ log[i].session = s /\ log[i].ask.user \in Admins
                  /\ log[i].ask # Served /\ log'[i].ask = Served]_botVars

\* The chat does not stay in "loading": an answer, or the proxy's 503, ends it,
\* or the user starts the page or the conversation anew.
LoadingEnds == (chat = "loading") ~> (chat # "loading")
=============================================================================
