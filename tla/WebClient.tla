------------------------------ MODULE WebClient ------------------------------
(***************************************************************************)
(* The browser side of a session: one tab, the tokens that it shares in    *)
(* localStorage with the other tabs, the axios client that refreshes on a  *)
(* 401, and AuthContext. The API is what it promises: module Sessions      *)
(* shows how its handlers exchange a refresh token at most once; here the  *)
(* exchange is one step, which succeeds or is refused.                     *)
(*                                                                         *)
(* A call is a request of a tab. Its answer is decided by the API and      *)
(* handled by the tab in two steps, so tokens may change in between.       *)
(***************************************************************************)
EXTENDS Accounts

CONSTANTS
    Admins,
    Slots,         \* calls the tab may have open (bound); Tokens are pairs of an
                   \* access and a refresh token, issued together
    Undefined      \* the string "undefined", read from and written to storage

ASSUME WebAssumption ==
    None \notin Users /\ Undefined \notin Tokens \cup {None}

VARIABLES
    owner,         \* owner[n]: sub of the access token issued with n, or None
    live,          \* tokens that have a row in sessions
    begun,         \* tokens that a login or a registration issued (history)
    stale,         \* tokens whose access token has run out
    stored,        \* what localStorage holds under both keys
    mine,          \* TRUE when a login of this tab wrote the tokens that it holds
    page, user, loading,      \* route, AuthContext's user and isLoading
    call,          \* call[i]: what slot i is waiting for
    refresh        \* isRefreshing, and the call that refreshes

authVars == <<owner, live, begun, stale>>
viewVars == <<page, user, loading>>
clientVars == <<authVars, stored, mine, viewVars, call, refresh>>
------------------------------------------------------------------------------
Free == [kind |-> "free"]
NoRefresh == [step |-> "idle"]
Forms == {"login", "register"}
Pages == Forms \cup {"shop", "admin", "leaving"}
Answers == {"ok", "refused", "failed"}      \* 2xx, 401, anything else or none
Stored == Tokens \cup {None, Undefined}

Call == {Free} \cup
    [kind : Forms \cup {"me", "logout", "data"},
     step : {"sent", "queued", "refreshing"} \cup Answers,
     auth : Stored, token : Stored, as : Users \cup {None}, retry : BOOLEAN]
Refresh == {NoRefresh} \cup
    [step : {"sent", "granted", "refused"}, by : Slots, body : Stored \ {None}]

\* The request interceptor attaches the stored access token, which the API does
\* not look at when it answers a form.
Attached(kind, s) == IF kind \in Forms THEN None ELSE s
Sent(kind, token, as) ==
    [kind |-> kind, step |-> "sent", auth |-> Attached(kind, stored), token |-> token,
     as |-> as, retry |-> FALSE]
Put(i, c) == call' = [call EXCEPT ![i] = c]
Has(i, kinds, step) == call[i].kind \in kinds /\ call[i].step = step
Queued == {i \in Slots : call[i] # Free /\ call[i].step = "queued"}
Kinds(I) == {call[i].kind : i \in I}

ClientInit ==
    /\ owner = [n \in Tokens |-> None]
    /\ live = {}
    /\ begun = {}
    /\ stale = {}
    /\ stored = None
    /\ mine = FALSE
    /\ page = "shop"
    /\ user = None
    /\ loading = FALSE
    /\ call = [i \in Slots |-> Free]
    /\ refresh = NoRefresh
------------------------------------------------------------------------------
(* Pages                                                                   *)

\* A document is loaded: module state and React state start anew, and the
\* provider asks who the stored token belongs to.
Open(p) ==
    /\ page = "leaving" => p = "login"
    /\ page' = p
    /\ user' = None
    /\ loading' = (stored # None)
    /\ refresh' = NoRefresh
    /\ \E i \in Slots : call' =
          [j \in Slots |-> IF j = i /\ stored # None THEN Sent("me", None, None) ELSE Free]
    /\ UNCHANGED <<authVars, stored, mine>>

\* Wrong on purpose (mutation): the form is there while /auth/me is asked.
EarlyForm(form) ==
    /\ page = form
    /\ user = None

\* The form is shown when the provider has settled on nobody.  Its button is
\* disabled while its own submission runs, but the link to the other form and
\* the link back mount it anew: nothing keeps a visitor from submitting again.
FormReady(form) ==
    /\ page = form
    /\ ~loading
    /\ user = None

LoginForm == FormReady("login")
RegisterForm == FormReady("register")

SubmitLogin(i, u) ==
    /\ LoginForm
    /\ call[i] = Free
    /\ Put(i, Sent("login", None, u))
    /\ UNCHANGED <<authVars, stored, mine, viewVars, refresh>>

SubmitRegister(i, u) ==
    /\ RegisterForm
    /\ call[i] = Free
    /\ Put(i, Sent("register", None, u))
    /\ UNCHANGED <<authVars, stored, mine, viewVars, refresh>>

\* Navbar and profile: the button is there for whoever is signed in.  The
\* refresh token is read when the request is made.
ClickLogout(i) ==
    /\ user # None
    /\ page # "leaving"
    /\ call[i] = Free
    /\ Put(i, Sent("logout", stored, None))
    /\ UNCHANGED <<authVars, stored, mine, viewVars, refresh>>

\* AdminRoute.
AdminShown == ~loading /\ user \in Admins

\* A protected query or mutation of a page, which is enabled by its user.
RequestData(i) ==
    /\ \/ page = "shop" /\ user # None
       \/ page = "admin" /\ AdminShown
    /\ call[i] = Free
    /\ Put(i, Sent("data", None, None))
    /\ UNCHANGED <<authVars, stored, mine, viewVars, refresh>>

\* The link from one form to the other, which loads no document.
OtherForm(form) == IF form = "login" THEN "register" ELSE "login"
FollowLink(form) ==
    /\ FormReady(form)
    /\ page' = OtherForm(form)
    /\ UNCHANGED <<authVars, stored, mine, user, loading, call, refresh>>

\* AdminRoute sends a visitor to the login page, without loading a document.
RedirectVisitor ==
    /\ page = "admin" /\ ~loading /\ user = None
    /\ page' = "login"
    /\ UNCHANGED <<authVars, stored, mine, user, loading, call, refresh>>
------------------------------------------------------------------------------
(* The API                                                                 *)

\* The answer is on its way; a refused call may have to be sent again.
Answer(i, step, token, as) ==
    /\ Put(i, [call[i] EXCEPT !.step = step, !.auth = None, !.token = token, !.as = as])
    /\ UNCHANGED <<stored, mine, viewVars, refresh>>

Owned == {n \in Tokens : owner[n] # None}

\* generateAuthResponse.
Issue(n, u) ==
    /\ n \notin Owned
    /\ owner' = [owner EXCEPT ![n] = u]

\* JwtAuthGuard: a signature and a date, no look at the sessions table.
Valid(n) == n \in Tokens \ stale

ApiLogin(i) ==
    /\ Has(i, Forms, "sent")
    /\ \E n \in Tokens :
          /\ Issue(n, call[i].as)
          /\ live' = live \cup {n}
          /\ begun' = begun \cup {n}
          /\ Answer(i, "ok", n, call[i].as)
    /\ UNCHANGED stale

\* 401 for wrong credentials; a registration is refused with 409 instead.
ApiRejectsLogin(i) ==
    /\ Has(i, {"login"}, "sent")
    /\ Answer(i, "refused", call[i].token, call[i].as)
    /\ UNCHANGED authVars

ApiGuarded(i) ==
    /\ Has(i, {"me", "data", "logout"}, "sent")
    /\ ~Valid(call[i].auth)
    /\ Answer(i, "refused", call[i].token, call[i].as)
    /\ UNCHANGED authVars

ApiRead(i) ==
    /\ Has(i, {"me", "data"}, "sent")
    /\ Valid(call[i].auth)
    /\ Answer(i, "ok", None, IF call[i].kind = "me" THEN owner[call[i].auth] ELSE None)
    /\ UNCHANGED authVars

ApiLogout(i) ==
    /\ Has(i, {"logout"}, "sent")
    /\ Valid(call[i].auth)
    /\ live' = live \ {call[i].token}
    /\ Answer(i, "ok", None, None)
    /\ UNCHANGED <<owner, begun, stale>>

\* No connection, an error other than 401, or an answer that is lost.
Lose(i) ==
    /\ call[i] # Free
    /\ call[i].step \in {"sent", "ok", "refused"}
    /\ Answer(i, "failed", None, None)
    /\ UNCHANGED authVars

\* Wrong on purpose (mutation): the token stays good after the exchange.
RefreshKeepsRow ==
    /\ refresh.step = "sent"
    /\ refresh.body \in live
    /\ \E n \in Tokens :
          /\ Issue(n, owner[refresh.body])
          /\ live' = live \cup {n}
    /\ refresh' = [refresh EXCEPT !.step = "granted"]
    /\ UNCHANGED <<begun, stale, stored, mine, viewVars, call>>

\* POST /auth/refresh: the row of the token is exchanged for the next one.
ApiRefresh ==
    /\ refresh.step = "sent"
    /\ refresh.body \in live
    /\ \E n \in Tokens :
          /\ Issue(n, owner[refresh.body])
          /\ live' = (live \ {refresh.body}) \cup {n}
    /\ refresh' = [refresh EXCEPT !.step = "granted"]
    /\ UNCHANGED <<begun, stale, stored, mine, viewVars, call>>

\* The token is unknown or expired, the handler fails, or the answer is lost.
RefreshFails ==
    /\ refresh.step \in {"sent", "granted"}
    /\ refresh' = [refresh EXCEPT !.step = "refused"]
    /\ UNCHANGED <<authVars, stored, mine, viewVars, call>>
------------------------------------------------------------------------------
(* The client handles an answer                                            *)

\* clearTokens and setTokens, of what is not a login's answer.
Write(s) == stored' = s /\ mine' = FALSE

\* Calls I end with an error: the provider forgets its user when /auth/me or
\* the logout was among them, the others only show it.
Reject(I) ==
    /\ user' = IF Kinds(I) \cap {"me", "logout"} # {} THEN None ELSE user
    /\ loading' = (loading /\ "me" \notin Kinds(I))
    /\ call' = [i \in Slots |-> IF i \in I THEN Free ELSE call[i]]

LoginSucceeds(i) ==
    /\ Has(i, Forms, "ok")
    /\ stored' = call[i].token
    /\ mine' = TRUE
    /\ user' = call[i].as
    /\ page' = IF page = "leaving" THEN page ELSE "shop"
    /\ Put(i, Free)
    /\ UNCHANGED <<authVars, loading, refresh>>

\* The answer of /auth/me; a form sends whoever is signed in home.
MeSucceeds(i) ==
    /\ Has(i, {"me"}, "ok")
    /\ user' = call[i].as
    /\ loading' = FALSE
    /\ page' = IF page \in Forms THEN "shop" ELSE page
    /\ Put(i, Free)
    /\ UNCHANGED <<authVars, stored, mine, refresh>>

LogoutSucceeds(i) ==
    /\ Has(i, {"logout"}, "ok")
    /\ Write(None)
    /\ user' = None
    /\ Put(i, Free)
    /\ UNCHANGED <<authVars, page, loading, refresh>>

DataArrives(i) ==
    /\ Has(i, {"data"}, "ok")
    /\ Put(i, Free)
    /\ UNCHANGED <<authVars, stored, mine, viewVars, refresh>>

\* An error that is not a 401, or a 401 of a call that was sent again.
ErrorArrives(i) ==
    /\ call[i] # Free
    /\ \/ call[i].step = "failed"
       \/ call[i].step = "refused" /\ call[i].retry
    /\ Reject({i})
    /\ IF call[i].kind \in {"me", "logout"} THEN Write(None) ELSE UNCHANGED <<stored, mine>>
    /\ UNCHANGED <<authVars, page, refresh>>

FirstRefusal(i) == call[i] # Free /\ call[i].step = "refused" /\ ~call[i].retry

\* A refresh is running already: wait for it in failedQueue.
Enqueue(i) ==
    /\ FirstRefusal(i)
    /\ refresh # NoRefresh
    /\ Put(i, [call[i] EXCEPT !.step = "queued"])
    /\ UNCHANGED <<authVars, stored, mine, viewVars, refresh>>

StartRefresh(i) ==
    /\ FirstRefusal(i)
    /\ refresh = NoRefresh
    /\ stored # None
    /\ refresh' = [step |-> "sent", by |-> i, body |-> stored]
    /\ Put(i, [call[i] EXCEPT !.step = "refreshing", !.retry = TRUE])
    /\ UNCHANGED <<authVars, stored, mine, viewVars>>

\* The catch block: calls I are rejected, the tokens go, and the browser is
\* sent to the login page.
SignOut(I) ==
    /\ Reject(I)
    /\ Write(None)
    /\ page' = "leaving"
    /\ refresh' = NoRefresh
    /\ UNCHANGED authVars

\* Wrong on purpose (mutation): the way out without a token leaves isRefreshing set.
KeepRefreshing(i) ==
    /\ FirstRefusal(i)
    /\ refresh = NoRefresh
    /\ stored = None
    /\ Reject({i})
    /\ Write(None)
    /\ page' = "leaving"
    /\ refresh' = [step |-> "done", by |-> i, body |-> Undefined]
    /\ UNCHANGED authVars

NothingToRefresh(i) ==
    /\ FirstRefusal(i)
    /\ refresh = NoRefresh
    /\ stored = None
    /\ SignOut({i})

\* Wrong on purpose (mutation): the catch block forgets the queue.
ForgetQueue ==
    /\ refresh.step = "refused"
    /\ SignOut({refresh.by})

RefreshRefused ==
    /\ refresh.step = "refused"
    /\ SignOut(Queued \cup {refresh.by})

\* The queue and the call that refreshes are sent again.
Resend == call' = [i \in Slots |->
    IF i \in Queued \cup {refresh.by}
    THEN [call[i] EXCEPT !.step = "sent", !.auth = Attached(call[i].kind, stored')]
    ELSE call[i]]

\* The answer holds user and tokens; the client takes accessToken and
\* refreshToken from its top level, where there are none, and stores that.
RefreshGranted ==
    /\ refresh.step = "granted"
    /\ Write(Undefined)
    /\ Resend
    /\ refresh' = NoRefresh
    /\ UNCHANGED <<authVars, viewVars>>
------------------------------------------------------------------------------
(* What happens without the tab                                            *)

\* An access token runs out; of those that nobody can send any more it would
\* make no difference.
InUse == {stored} \cup UNION {{call[i].auth, call[i].token} : i \in {j \in Slots : call[j] # Free}}

ExpireAccess(n) ==
    /\ n \in InUse \cap (Owned \ stale)
    /\ stale' = stale \cup {n}
    /\ UNCHANGED <<owner, live, begun, stored, mine, viewVars, call, refresh>>

\* Another tab of the browser runs the same code; what reaches this tab is
\* what it writes to localStorage.
OtherTab ==
    /\ \/ \E n \in Tokens, u \in Users :          \* signs in
             /\ Issue(n, u) /\ live' = live \cup {n} /\ begun' = begun \cup {n}
             /\ stored' = n
       \/ /\ stored # None                        \* signs out
          /\ live' \in {live, live \ {stored}}
          /\ stored' = None
          /\ UNCHANGED <<owner, begun>>
       \/ /\ stored \in live                      \* refreshes
          /\ \E n \in Tokens :
                Issue(n, owner[stored]) /\ live' = (live \ {stored}) \cup {n}
          /\ stored' = Undefined
          /\ UNCHANGED begun
    /\ mine' = FALSE
    /\ UNCHANGED <<stale, viewVars, call, refresh>>

ApiAnswers(i) ==
    \/ ApiLogin(i) \/ ApiRejectsLogin(i) \/ ApiGuarded(i)
    \/ ApiRead(i) \/ ApiLogout(i) \/ Lose(i)
TabHandles(i) ==
    \/ LoginSucceeds(i) \/ MeSucceeds(i) \/ LogoutSucceeds(i)
    \/ DataArrives(i) \/ ErrorArrives(i) \/ Enqueue(i)
    \/ StartRefresh(i) \/ NothingToRefresh(i)
RefreshRuns ==
    ApiRefresh \/ RefreshFails \/ RefreshRefused \/ RefreshGranted

ClientNext ==
    \/ \E p \in Pages \ {"leaving"} : Open(p)
    \/ \E form \in Forms : FollowLink(form)
    \/ RedirectVisitor \/ RefreshRuns \/ OtherTab
    \/ \E i \in Slots :
          \/ \E u \in Users : SubmitLogin(i, u) \/ SubmitRegister(i, u)
          \/ ClickLogout(i) \/ RequestData(i)
          \/ ApiAnswers(i) \/ TabHandles(i)
    \/ \E n \in Tokens : ExpireAccess(n)

\* A browser ends every request, with an answer or with an error, and runs
\* the handlers that wait for it; the user promises nothing.
ClientFairness ==
    /\ WF_clientVars(RefreshRuns)
    /\ \A i \in Slots : WF_clientVars(ApiAnswers(i) \/ TabHandles(i))

ClientSpec == ClientInit /\ [][ClientNext]_clientVars /\ ClientFairness
------------------------------------------------------------------------------
ClientTypeOK ==
    /\ owner \in [Tokens -> Users \cup {None}]
    /\ live \subseteq Owned /\ begun \subseteq Owned
    /\ stale \subseteq Owned
    /\ stored \in Stored
    /\ mine \in BOOLEAN
    /\ page \in Pages
    /\ user \in Users \cup {None}
    /\ loading \in BOOLEAN
    /\ call \in [Slots -> Call]
    /\ refresh \in Refresh

\* A request waits in failedQueue only while a refresh is running, which will
\* answer it: whatever the order of answers, refusals, reloads and logouts,
\* the queue is never left behind (client.ts).
QueueIsServed == Queued # {} => refresh # NoRefresh

\* Whoever signed in here is shown until somebody else writes the storage,
\* also when an older /auth/me is still on its way (AuthContext, Login).
ShownIsStored ==
    mine /\ stored \in Tokens /\ user # None => user = owner[stored]

\* Every request of a page that is not loaded again is settled, refused and
\* queued ones included (client.ts).
Stays == <>[][\A p \in Pages : ~Open(p)]_clientVars
CallsSettle == Stays => \A i \in Slots : call[i] # Free ~> call[i] = Free

\* "Token expirado se refresca automaticamente": when the API has granted a
\* refresh, the client that handles the answer holds a token that is valid.
RefreshKeepsSession ==
    [][RefreshGranted => stored' \in live]_clientVars
------------------------------------------------------------------------------
Api == INSTANCE TokenExchange
    WITH open <- {[token |-> n, user |-> owner[n]] : n \in live}, drawn <- Owned

\* The API that the tabs of this module talk to does nothing that AuthService
\* does not do: whatever they send, at once or twice, begins, exchanges or ends
\* one session at a time (api/client.ts, auth.service.ts).
ApiSpec == Api!Spec
==============================================================================
