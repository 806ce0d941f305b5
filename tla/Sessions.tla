------------------------------ MODULE Sessions -------------------------------
(***************************************************************************)
(* The refresh tokens of AuthService: login and register open a session,   *)
(* refresh exchanges its token for a new one, logout deletes it.           *)
(*                                                                         *)
(* A refresh is three statements: find the row that is not expired, delete *)
(* it by id, which throws when it is gone, and create the next one.  The   *)
(* sessions table is all that says whether a token is good.                *)
(***************************************************************************)
EXTENDS Accounts

CONSTANT Requests  \* handlers in flight; Tokens are refresh tokens, and each
                   \* is drawn once, a random UUID

VARIABLES
    sessions,      \* rows of sessions: token (its hash) and user
    expired,       \* tokens whose expiresAt is past
    parent,        \* parent[t]: the token t was exchanged for, t itself if by
                   \* login, None while t is not drawn
    revoked,       \* tokens whose row a logout deleted
    req            \* the refresh requests in flight

vars == <<sessions, expired, parent, revoked, req>>
------------------------------------------------------------------------------
Session == [token : Tokens, user : Users]
Idle == [step |-> "idle"]
Request == {Idle} \cup [step : {"delete", "create"}, token : Tokens, user : Users]

Issued == {t \in Tokens : parent[t] # None}
Opened == {t \in Tokens : parent[t] = t}
SessionOf(t) == {s \in sessions : s.token = t}
Goto(r, rec) == req' = [req EXCEPT ![r] = rec]

Init ==
    /\ sessions = {}
    /\ expired = {}
    /\ parent = [t \in Tokens |-> None]
    /\ revoked = {}
    /\ req = [r \in Requests |-> Idle]

\* generateAuthResponse: draw a token and store its row.
CreateSession(t, u, p) ==
    /\ t \in Tokens \ Issued
    /\ sessions' = sessions \cup {[token |-> t, user |-> u]}
    /\ parent' = [parent EXCEPT ![t] = p]

\* POST /auth/login, and the end of POST /auth/register.
Login(u) ==
    /\ \E t \in Tokens : CreateSession(t, u, t)
    /\ UNCHANGED <<expired, revoked, req>>

RefreshFind(r) ==
    /\ req[r] = Idle
    /\ \E s \in sessions :
          /\ s.token \notin expired
          /\ Goto(r, [step |-> "delete", token |-> s.token, user |-> s.user])
    /\ UNCHANGED <<sessions, expired, parent, revoked>>

\* Wrong on purpose (mutation): deleteMany, which does not mind a missing row.
RefreshDeleteMany(r) ==
    /\ req[r].step = "delete"
    /\ sessions' = sessions \ SessionOf(req[r].token)
    /\ Goto(r, [req[r] EXCEPT !.step = "create"])
    /\ UNCHANGED <<expired, parent, revoked>>

\* delete by id: when the row is gone it throws and the handler ends (Leave).
RefreshDelete(r) ==
    /\ req[r].step = "delete"
    /\ SessionOf(req[r].token) # {}
    /\ sessions' = sessions \ SessionOf(req[r].token)
    /\ Goto(r, [req[r] EXCEPT !.step = "create"])
    /\ UNCHANGED <<expired, parent, revoked>>

RefreshCreate(r) ==
    /\ req[r].step = "create"
    /\ \E t \in Tokens : CreateSession(t, req[r].user, req[r].token)
    /\ Goto(r, Idle)
    /\ UNCHANGED <<expired, revoked>>

\* The handler ends without its effect: the delete threw, the database is
\* away, or the process died between two statements.
Leave(r) ==
    /\ req[r] # Idle
    /\ Goto(r, Idle)
    /\ UNCHANGED <<sessions, expired, parent, revoked>>

\* POST /auth/logout: deleteMany by hash, expired or not, there or not.
Logout(t) ==
    /\ sessions' = sessions \ SessionOf(t)
    /\ revoked' = revoked \cup {s.token : s \in SessionOf(t)}
    /\ UNCHANGED <<expired, parent, req>>

\* expiresAt passes.  The row stays.
Expire(t) ==
    /\ SessionOf(t) # {}
    /\ t \notin expired
    /\ expired' = expired \cup {t}
    /\ UNCHANGED <<sessions, parent, revoked, req>>

Next ==
    \/ \E u \in Users : Login(u)
    \/ \E r \in Requests :
          RefreshFind(r) \/ RefreshDelete(r) \/ RefreshCreate(r) \/ Leave(r)
    \/ \E t \in Tokens : Logout(t) \/ Expire(t)

Spec == Init /\ [][Next]_vars
------------------------------------------------------------------------------
TypeOK ==
    /\ sessions \subseteq Session
    /\ expired \subseteq Tokens
    /\ parent \in [Tokens -> Tokens \cup {None}]
    /\ revoked \subseteq Tokens
    /\ req \in [Requests -> Request]

\* A refresh token buys one successor, however many requests present it at
\* once: all of them may find the row, only one deletes it.
TokenBuysOnce ==
    \A s, t \in Issued : parent[s] = parent[t] /\ s # parent[s] /\ t # parent[t] => s = t

\* A token whose row a logout deleted is worth nothing from then on, also to
\* a refresh that found the row before.
LogoutIsFinal ==
    \A t \in revoked : SessionOf(t) = {} /\ \A s \in Issued : parent[s] = t => s = t

\* Refreshing never multiplies sessions: there are no more of them than
\* logins, those in the middle of an exchange included.
Exchanging == {r \in Requests : req[r].step = "create"}
SessionsPerLogin ==
    Cardinality(sessions) + Cardinality(Exchanging) <= Cardinality(Opened)
------------------------------------------------------------------------------
\* A handler that has deleted its row and not created the next one holds the
\* session meanwhile.
Held == {[token |-> req[r].token, user |-> req[r].user] : r \in Exchanging}

Promise == INSTANCE TokenExchange
    WITH open <- sessions \cup Held, drawn <- Issued, begun <- Opened

\* Three statements without a transaction are one exchange all the same: each
\* step of a handler begins, exchanges or ends one session of one user, or
\* changes none, whatever the others do in between, and only a login or a
\* registration begins one (AuthService).
PromiseSpec == Promise!Spec
==============================================================================
