--------------------------- MODULE Sessions_proofs ---------------------------
(***************************************************************************)
(* Refresh tokens are good for one exchange, and for none after a logout:  *)
(* for every number of users, tokens and concurrent handlers.  The browser *)
(* that holds them shows who signed in, and leaves no request behind.      *)
(*                                                                         *)
(* The invariant says that a drawn token is in at most one of four states, *)
(* in a row, in the hands of one handler between delete and create, spent  *)
(* on one successor, or gone, and that it never goes back.  Counting then  *)
(* follows the steps: each adds and takes one row or one exchange.  Both   *)
(* sides implement TokenExchange, the API by its handlers, the browser by  *)
(* what it asks for.                                                       *)
(***************************************************************************)
EXTENDS Sessions, WebClient, UnitCounting

HasRow(t) == \E s \in sessions : s.token = t
InHand(t) == \E r \in Requests : req[r].step = "create" /\ req[r].token = t
Spent(t) == \E s \in Tokens : parent[s] = t /\ s # t

RowsAreDrawn ==
    /\ \A s \in sessions : parent[s.token] # None
    /\ \A r \in Requests : req[r] # Idle => parent[req[r].token] # None
    /\ \A s \in Tokens : parent[s] # None => parent[parent[s]] # None

OneState ==
    /\ \A t \in Tokens : HasRow(t) => ~InHand(t) /\ ~Spent(t)
    /\ \A t \in Tokens : InHand(t) => ~Spent(t)
    /\ \A r, q \in Requests :
          req[r].step = "create" /\ req[q].step = "create" /\ req[r].token = req[q].token
             => r = q
    /\ \A s, t \in Tokens :
          parent[s] # None /\ parent[s] = parent[t] /\ s # parent[s] /\ t # parent[t] => s = t

RevokedIsGone ==
    \A t \in revoked : parent[t] # None /\ ~HasRow(t) /\ ~InHand(t) /\ ~Spent(t)

IInv == TypeOK /\ RowsAreDrawn /\ OneState /\ RevokedIsGone

LEMMA SessionsInit == Init => IInv
BY NoneAssumption DEF Init, IInv, TypeOK, RowsAreDrawn, OneState, RevokedIsGone, HasRow,
   InHand, Spent, Idle, Request, Session

\* A new token with a row, exchanged for p or opened by a login.
LEMMA Drawing ==
    ASSUME IInv, NEW t \in Tokens, NEW u \in Users, NEW p \in Tokens, CreateSession(t, u, p),
           NEW rq, req' = rq, rq \in [Requests -> Request],
           \A r \in Requests : rq[r] = req[r] \/ rq[r] = Idle,
           UNCHANGED <<expired, revoked>>,
           \/ p = t
           \/ /\ parent[p] # None /\ ~HasRow(p) /\ ~Spent(p) /\ p \notin revoked
              /\ \A r \in Requests : ~(rq[r].step = "create" /\ rq[r].token = p)
    PROVE  IInv'
<1> USE NoneAssumption
<1>1. /\ parent[t] = None /\ sessions' = sessions \cup {[token |-> t, user |-> u]}
      /\ parent' \in [Tokens -> Tokens \cup {None}]
      /\ \A s \in Tokens : parent'[s] = IF s = t THEN p ELSE parent[s]
    BY DEF CreateSession, Issued, IInv, TypeOK
<1>2. TypeOK'
    BY <1>1 DEF IInv, TypeOK, Session
<1>3. \A r \in Requests : rq[r] # Idle => rq[r] = req[r] /\ rq[r].token \in Tokens
    BY DEF Request
<1>4. Idle.step # "create"
    BY DEF Idle
<1>5. ~HasRow(t) /\ ~InHand(t) /\ ~Spent(t) /\ t \notin revoked
    <2>1. ~HasRow(t) /\ t \notin revoked
        BY <1>1 DEF IInv, RowsAreDrawn, RevokedIsGone, HasRow
    <2>2. ~InHand(t)
        BY <1>1, <1>4 DEF IInv, RowsAreDrawn, InHand
    <2>3. ~Spent(t)
        BY <1>1 DEF IInv, RowsAreDrawn, Spent
    <2> QED
        BY <2>1, <2>2, <2>3
<1>6. RowsAreDrawn'
    <2>1. \A s \in sessions : s.token \in Tokens /\ parent[s.token] # None
        BY DEF IInv, TypeOK, Session, RowsAreDrawn
    <2>2. \A s \in sessions' : parent'[s.token] # None
        BY <1>1, <2>1
    <2>3. \A r \in Requests : req'[r] # Idle => parent'[req'[r].token] # None
        BY <1>1, <1>3 DEF IInv, RowsAreDrawn
    <2>4. \A s \in Tokens : parent'[s] # None => parent'[parent'[s]] # None
        BY <1>1 DEF IInv, RowsAreDrawn, TypeOK
    <2> QED
        BY <2>2, <2>3, <2>4 DEF RowsAreDrawn
<1>7. /\ \A x \in Tokens : HasRow(x)' => HasRow(x) \/ x = t
      /\ \A x \in Tokens : InHand(x)' => InHand(x) /\ (x = p => p = t)
      /\ \A x \in Tokens : Spent(x)' => Spent(x) \/ (x = p /\ p # t)
    BY <1>1, <1>3, <1>4 DEF HasRow, InHand, Spent
<1>8. OneState'
    <2>1. \A x \in Tokens : HasRow(x)' => ~InHand(x)' /\ ~Spent(x)'
        BY <1>1, <1>5, <1>7 DEF IInv, OneState
    <2>2. \A x \in Tokens : InHand(x)' => ~Spent(x)'
        BY <1>7 DEF IInv, OneState
    <2>3. \A r, q \in Requests :
             req'[r].step = "create" /\ req'[q].step = "create" /\ req'[r].token = req'[q].token
                => r = q
        BY <1>3, <1>4 DEF IInv, OneState
    <2>4. \A x, y \in Tokens :
             parent'[x] # None /\ parent'[x] = parent'[y] /\ x # parent'[x] /\ y # parent'[y]
                => x = y
        <3>1. p # t => \A x \in Tokens : x # p => parent[x] # p
            BY DEF Spent
        <3> QED
            BY <1>1, <1>5, <3>1 DEF IInv, OneState, Spent, TypeOK
    <2> QED
        BY <2>1, <2>2, <2>3, <2>4 DEF OneState
<1>9. RevokedIsGone'
    BY <1>1, <1>5, <1>7 DEF IInv, RevokedIsGone, TypeOK
<1> QED
    BY <1>2, <1>6, <1>8, <1>9 DEF IInv

\* A step that draws nothing and spends nothing.
LEMMA Moving ==
    ASSUME IInv, TypeOK', UNCHANGED parent, sessions' \subseteq sessions, revoked \subseteq revoked',
           \A r \in Requests : req'[r] # Idle => parent[req'[r].token] # None,
           \A r \in Requests : req'[r].step = "create" =>
              \/ req'[r] = req[r]
              \/ \E t \in Tokens : req'[r].token = t /\ HasRow(t) /\ ~HasRow(t)',
           \A r, q \in Requests :
              req'[r].step = "create" /\ req'[q].step = "create" /\ req'[r].token = req'[q].token
                 => r = q,
           \A t \in revoked' \ revoked : HasRow(t) /\ ~HasRow(t)' /\ ~InHand(t)'
    PROVE  IInv'
<1>1. /\ \A x \in Tokens : HasRow(x)' => HasRow(x)
      /\ \A x \in Tokens : InHand(x)' => InHand(x) \/ (HasRow(x) /\ ~HasRow(x)')
      /\ \A x \in Tokens : Spent(x)' <=> Spent(x)
    BY DEF HasRow, InHand, Spent
<1>2. RowsAreDrawn'
    BY DEF IInv, RowsAreDrawn
<1>3. OneState'
    BY <1>1 DEF IInv, OneState
<1>4. RevokedIsGone'
    <2> SUFFICES ASSUME NEW t \in revoked'
                 PROVE  parent'[t] # None /\ ~HasRow(t)' /\ ~InHand(t)' /\ ~Spent(t)'
        BY DEF RevokedIsGone
    <2>0. t \in Tokens
        BY DEF TypeOK
    <2>1. CASE t \in revoked
        BY <1>1, <2>0, <2>1 DEF IInv, RevokedIsGone
    <2>2. CASE t \notin revoked
        BY <1>1, <2>0, <2>2 DEF IInv, OneState, RowsAreDrawn, HasRow
    <2> QED
        BY <2>1, <2>2
<1> QED
    BY <1>2, <1>3, <1>4 DEF IInv

LEMMA SessionsStep == IInv /\ [Next]_vars => IInv'
<1> SUFFICES ASSUME IInv, [Next]_vars PROVE IInv'
    OBVIOUS
<1>i. Idle.step # "create" /\ Idle.step # "delete" /\ Idle \in Request
    BY DEF Idle, Request
<1>a. \A r \in Requests : req[r] # Idle =>
         /\ req[r] \in [step : {"delete", "create"}, token : Tokens, user : Users]
         /\ parent[req[r].token] # None
    BY DEF IInv, TypeOK, Request, RowsAreDrawn
<1>b. \A r, q \in Requests :
         req[r].step = "create" /\ req[q].step = "create" /\ req[r].token = req[q].token
            => r = q
    BY DEF IInv, OneState
<1>1. ASSUME NEW u \in Users, Login(u) PROVE IInv'
    BY <1>1, Drawing DEF Login, IInv, TypeOK
<1>2. ASSUME NEW r \in Requests, RefreshFind(r) PROVE IInv'
    <2>1. PICK s \in sessions :
             req' = [req EXCEPT ![r] = [step |-> "delete", token |-> s.token, user |-> s.user]]
        BY <1>2 DEF RefreshFind, Goto
    <2> DEFINE rec == [step |-> "delete", token |-> s.token, user |-> s.user]
    <2>2. s.token \in Tokens /\ s.user \in Users /\ parent[s.token] # None
        BY DEF IInv, TypeOK, Session, RowsAreDrawn
    <2>3. rec \in Request /\ rec.step = "delete" /\ rec.token = s.token
        BY <2>2 DEF Request
    <2>4. \A q \in Requests : req'[q] = IF q = r THEN rec ELSE req[q]
        BY <2>1 DEF IInv, TypeOK
    <2> HIDE DEF rec
    <2>5. TypeOK' /\ UNCHANGED <<sessions, parent, revoked>>
        BY <1>2, <2>1, <2>3 DEF RefreshFind, Goto, IInv, TypeOK, rec
    <2> QED
        BY <1>a, <1>b, <2>2, <2>3, <2>4, <2>5, Moving
<1>3. ASSUME NEW r \in Requests, RefreshDelete(r) PROVE IInv'
    <2> DEFINE rec == [req[r] EXCEPT !.step = "create"]
    <2>0. PICK t \in Tokens : t = req[r].token
        BY <1>3, <1>a, <1>i DEF RefreshDelete
    <2>1. /\ t \in Tokens /\ parent[t] # None /\ HasRow(t)
          /\ UNCHANGED <<expired, parent, revoked>>
          /\ rec \in Request /\ rec.step = "create" /\ rec.token = t
        BY <1>3, <1>a, <1>i, <2>0 DEF RefreshDelete, Request, HasRow, SessionOf
    <2>2. \A q \in Requests : req'[q] = IF q = r THEN rec ELSE req[q]
        BY <1>3 DEF RefreshDelete, Goto, IInv, TypeOK
    <2>3. TypeOK' /\ sessions' \subseteq sessions /\ ~HasRow(t)'
        BY <1>3, <2>0, <2>1 DEF RefreshDelete, Goto, IInv, TypeOK, SessionOf, HasRow
    <2>4. ~InHand(t)
        BY <2>1 DEF IInv, OneState
    <2> HIDE DEF rec
    <2>5. \A q \in Requests : req'[q] # Idle => parent[req'[q].token] # None
        BY <1>a, <2>1, <2>2
    <2>6. \A q \in Requests : req'[q].step = "create" =>
              \/ req'[q] = req[q]
              \/ \E x \in Tokens : req'[q].token = x /\ HasRow(x) /\ ~HasRow(x)'
        BY <2>1, <2>2, <2>3
    <2>7. \A p, q \in Requests :
              req'[p].step = "create" /\ req'[q].step = "create" /\ req'[p].token = req'[q].token
                 => p = q
        BY <1>b, <2>1, <2>2, <2>4 DEF InHand
    <2> QED
        BY <2>1, <2>3, <2>5, <2>6, <2>7, Moving
<1>4. ASSUME NEW r \in Requests, RefreshCreate(r) PROVE IInv'
    <2>1. /\ req[r] # Idle /\ req[r].token \in Tokens /\ req[r].user \in Users
          /\ InHand(req[r].token) /\ parent[req[r].token] # None
        BY <1>4, <1>a, <1>i DEF RefreshCreate, InHand
    <2>2. PICK t \in Tokens : CreateSession(t, req[r].user, req[r].token)
        BY <1>4 DEF RefreshCreate
    <2> DEFINE rq == [req EXCEPT ![r] = Idle]
    <2>3. /\ req' = rq /\ rq \in [Requests -> Request] /\ UNCHANGED <<expired, revoked>>
          /\ \A q \in Requests : rq[q] = IF q = r THEN Idle ELSE req[q]
        BY <1>4, <1>i DEF RefreshCreate, Goto, IInv, TypeOK
    <2> HIDE DEF rq
    <2>4. \A q \in Requests : ~(rq[q].step = "create" /\ rq[q].token = req[r].token)
        BY <1>4, <1>b, <1>i, <2>3 DEF RefreshCreate
    <2>5. ~HasRow(req[r].token) /\ ~Spent(req[r].token) /\ req[r].token \notin revoked
        BY <2>1 DEF IInv, OneState, RevokedIsGone
    <2> QED
        BY <2>1, <2>2, <2>3, <2>4, <2>5, Drawing
<1>5. ASSUME NEW r \in Requests, Leave(r) PROVE IInv'
    <2>1. /\ UNCHANGED <<sessions, expired, parent, revoked>> /\ TypeOK'
          /\ \A q \in Requests : req'[q] = IF q = r THEN Idle ELSE req[q]
        BY <1>5, <1>i DEF Leave, Goto, IInv, TypeOK
    <2> QED
        BY <1>a, <1>b, <1>i, <2>1, Moving
<1>6. ASSUME NEW t \in Tokens, Logout(t) PROVE IInv'
    <2>1. /\ UNCHANGED <<expired, parent, req>> /\ sessions' \subseteq sessions
          /\ revoked \subseteq revoked'
          /\ \A x \in revoked' \ revoked : x = t /\ HasRow(t)
          /\ ~HasRow(t)'
        BY <1>6 DEF Logout, SessionOf, HasRow
    <2>2. TypeOK'
        BY <1>6, <2>1 DEF SessionOf, Logout, IInv, TypeOK
    <2>3. HasRow(t) => ~InHand(t)'
        BY <2>1 DEF IInv, OneState, InHand
    <2> QED
        BY <1>a, <1>b, <2>1, <2>2, <2>3, Moving
<1>7. ASSUME NEW t \in Tokens, Expire(t) PROVE IInv'
    BY <1>7, <1>a, <1>b, Moving DEF Expire, IInv, TypeOK
<1>8. CASE UNCHANGED vars
    BY <1>8, <1>a, <1>b, Moving DEF vars, IInv, TypeOK
<1> QED
    BY <1>1, <1>2, <1>3, <1>4, <1>5, <1>6, <1>7, <1>8 DEF Next

LEMMA SessionsInvariant == Spec => []IInv
<1> QED
    BY SessionsInit, SessionsStep, PTL DEF Spec

\* No row, token or handler of any execution leaves its type.
THEOREM SessionsTypeCorrect == Spec => []TypeOK
<1>1. IInv => TypeOK
    BY DEF IInv
<1> QED
    BY <1>1, SessionsInvariant, PTL

\* For any number of requests that present the same refresh token at once, at
\* most one gets a new one (auth.service.ts, lines 111 to 131).
THEOREM TokensBuyOnce == Spec => []TokenBuysOnce
<1>1. IInv => TokenBuysOnce
    BY DEF IInv, OneState, TokenBuysOnce, Issued
<1> QED
    BY <1>1, SessionsInvariant, PTL

\* What a logout deleted has no row and no successor, ever
\* (auth.service.ts, lines 133 to 138).
THEOREM LogoutsAreFinal == Spec => []LogoutIsFinal
<1>1. IInv => LogoutIsFinal
    BY DEF IInv, TypeOK, RevokedIsGone, LogoutIsFinal, HasRow, Spent, SessionOf, Issued
<1> QED
    BY <1>1, SessionsInvariant, PTL
------------------------------------------------------------------------------
(***************************************************************************)
(* Counting: the sets are finite because each step adds at most one.       *)
(***************************************************************************)

Counted ==
    /\ IsFiniteSet(sessions) /\ IsFiniteSet(Exchanging) /\ IsFiniteSet(Opened)
    /\ SessionsPerLogin

LEMMA Counts ==
    ASSUME Counted
    PROVE  /\ Cardinality(sessions) \in Nat /\ Cardinality(Exchanging) \in Nat
           /\ Cardinality(Opened) \in Nat
           /\ Cardinality(sessions) + Cardinality(Exchanging) <= Cardinality(Opened)
BY FS_CardinalityType DEF Counted, SessionsPerLogin

\* A login adds a row and an opened token.
LEMMA Opening ==
    ASSUME Counted, NEW x, NEW t, t \notin Opened, sessions' = sessions \cup {x},
           Exchanging' = Exchanging, Opened' = Opened \cup {t}
    PROVE  Counted'
<1>1. /\ IsFiniteSet(sessions') /\ Cardinality(sessions') \in Nat
      /\ Cardinality(sessions') <= Cardinality(sessions) + 1
    BY AddOne DEF Counted
<1>2. /\ IsFiniteSet(Opened') /\ Cardinality(Opened') = Cardinality(Opened) + 1
    BY FS_AddElement DEF Counted
<1>3. IsFiniteSet(Exchanging') /\ Cardinality(Exchanging') = Cardinality(Exchanging)
    BY DEF Counted
<1> QED
    BY <1>1, <1>2, <1>3, Counts DEF Counted, SessionsPerLogin

\* An exchange that deletes takes a row, and one that creates gives it back.
LEMMA Deleting ==
    ASSUME Counted, NEW s \in sessions, NEW r, sessions' \subseteq sessions \ {s},
           Exchanging' = Exchanging \cup {r}, Opened' = Opened
    PROVE  Counted'
<1>1. /\ IsFiniteSet(sessions \ {s}) /\ Cardinality(sessions \ {s}) = Cardinality(sessions) - 1
    BY FS_RemoveElement DEF Counted
<1>2. /\ IsFiniteSet(sessions') /\ Cardinality(sessions') \in Nat
      /\ Cardinality(sessions') <= Cardinality(sessions) - 1
    BY <1>1, FS_Subset, FS_CardinalityType
<1>3. /\ IsFiniteSet(Exchanging') /\ Cardinality(Exchanging') \in Nat
      /\ Cardinality(Exchanging') <= Cardinality(Exchanging) + 1
    BY AddOne DEF Counted
<1>4. IsFiniteSet(Opened') /\ Cardinality(Opened') = Cardinality(Opened)
    BY DEF Counted
<1> QED
    BY <1>2, <1>3, <1>4, Counts DEF Counted, SessionsPerLogin

LEMMA Creating ==
    ASSUME Counted, NEW x, NEW r \in Exchanging, sessions' = sessions \cup {x},
           Exchanging' = Exchanging \ {r}, Opened' = Opened
    PROVE  Counted'
<1>1. /\ IsFiniteSet(sessions') /\ Cardinality(sessions') \in Nat
      /\ Cardinality(sessions') <= Cardinality(sessions) + 1
    BY AddOne DEF Counted
<1>2. IsFiniteSet(Exchanging') /\ Cardinality(Exchanging') = Cardinality(Exchanging) - 1
    BY FS_RemoveElement DEF Counted
<1>3. IsFiniteSet(Opened') /\ Cardinality(Opened') = Cardinality(Opened)
    BY DEF Counted
<1> QED
    BY <1>1, <1>2, <1>3, Counts DEF Counted, SessionsPerLogin

LEMMA Losing ==
    ASSUME Counted, sessions' \subseteq sessions, Exchanging' \subseteq Exchanging,
           Opened' = Opened
    PROVE  Counted'
<1>1. /\ IsFiniteSet(sessions') /\ Cardinality(sessions') \in Nat
      /\ Cardinality(sessions') <= Cardinality(sessions)
    BY FS_Subset, FS_CardinalityType DEF Counted
<1>2. /\ IsFiniteSet(Exchanging') /\ Cardinality(Exchanging') \in Nat
      /\ Cardinality(Exchanging') <= Cardinality(Exchanging)
    BY FS_Subset, FS_CardinalityType DEF Counted
<1>3. IsFiniteSet(Opened') /\ Cardinality(Opened') = Cardinality(Opened)
    BY DEF Counted
<1> QED
    BY <1>1, <1>2, <1>3, Counts DEF Counted, SessionsPerLogin

LEMMA CountedInit == Init => Counted
<1> SUFFICES ASSUME Init PROVE Counted
    OBVIOUS
<1>1. sessions = {} /\ Exchanging = {} /\ Opened = {}
    BY NoneAssumption DEF Init, Exchanging, Opened, Idle
<1> QED
    BY <1>1, FS_EmptySet DEF Counted, SessionsPerLogin

LEMMA CountedStep == IInv /\ Counted /\ [Next]_vars => Counted'
<1> SUFFICES ASSUME IInv, Counted, [Next]_vars PROVE Counted'
    OBVIOUS
<1> USE NoneAssumption
<1>i. Idle.step # "create" /\ Idle.step # "delete"
    BY DEF Idle
<1>t. /\ parent \in [Tokens -> Tokens \cup {None}] /\ req \in [Requests -> Request]
    BY DEF IInv, TypeOK
<1>1. ASSUME NEW u \in Users, Login(u) PROVE Counted'
    <2>1. PICK t \in Tokens : CreateSession(t, u, t)
        BY <1>1 DEF Login
    <2>2. t \notin Opened /\ Opened' = Opened \cup {t}
        BY <1>t, <2>1 DEF CreateSession, Issued, Opened
    <2>3. Exchanging' = Exchanging /\ sessions' = sessions \cup {[token |-> t, user |-> u]}
        BY <1>1, <2>1 DEF Login, CreateSession, Exchanging
    <2> QED
        BY <2>2, <2>3, Opening
<1>2. ASSUME NEW r \in Requests, RefreshFind(r) PROVE Counted'
    <2>1. PICK s \in sessions :
             req' = [req EXCEPT ![r] = [step |-> "delete", token |-> s.token, user |-> s.user]]
        BY <1>2 DEF RefreshFind, Goto
    <2> DEFINE rec == [step |-> "delete", token |-> s.token, user |-> s.user]
    <2>2. rec.step # "create" /\ \A q \in Requests : req'[q] = IF q = r THEN rec ELSE req[q]
        BY <1>t, <2>1
    <2> HIDE DEF rec
    <2>3. Exchanging' \subseteq Exchanging
        BY <2>2 DEF Exchanging
    <2>4. sessions' \subseteq sessions /\ Opened' = Opened
        BY <1>2 DEF RefreshFind, Opened
    <2> QED
        BY <2>3, <2>4, Losing
<1>3. ASSUME NEW r \in Requests, RefreshDelete(r) PROVE Counted'
    <2>1. PICK s \in sessions : s.token = req[r].token
        BY <1>3 DEF RefreshDelete, SessionOf
    <2>2. sessions' \subseteq sessions \ {s} /\ Opened' = Opened
        BY <1>3, <2>1 DEF RefreshDelete, SessionOf, Opened
    <2> DEFINE rec == [req[r] EXCEPT !.step = "create"]
    <2>3. rec.step = "create" /\ \A q \in Requests : req'[q] = IF q = r THEN rec ELSE req[q]
        <3>1. req[r] \in [step : {"delete", "create"}, token : Tokens, user : Users]
            BY <1>3, <1>i, <1>t DEF RefreshDelete, Request
        <3> QED
            BY <1>3, <1>t, <3>1 DEF RefreshDelete, Goto
    <2> HIDE DEF rec
    <2>4. Exchanging' = Exchanging \cup {r}
        BY <2>3 DEF Exchanging
    <2> QED
        BY <2>2, <2>4, Deleting
<1>4. ASSUME NEW r \in Requests, RefreshCreate(r) PROVE Counted'
    <2>1. PICK t \in Tokens : CreateSession(t, req[r].user, req[r].token)
        BY <1>4 DEF RefreshCreate
    <2>2. req[r] # Idle /\ parent[req[r].token] # None
        BY <1>4, <1>i DEF RefreshCreate, IInv, RowsAreDrawn
    <2>3. Opened' = Opened
        BY <1>t, <2>1, <2>2 DEF CreateSession, Issued, Opened
    <2>4. \A q \in Requests : req'[q] = IF q = r THEN Idle ELSE req[q]
        BY <1>4, <1>t DEF RefreshCreate, Goto
    <2>5. r \in Exchanging /\ Exchanging' = Exchanging \ {r}
        BY <1>4, <1>i, <2>4 DEF RefreshCreate, Exchanging
    <2>6. sessions' = sessions \cup {[token |-> t, user |-> req[r].user]}
        BY <2>1 DEF CreateSession
    <2> QED
        BY <2>3, <2>5, <2>6, Creating
<1>5. ASSUME NEW r \in Requests, Leave(r) PROVE Counted'
    <2>1. \A q \in Requests : req'[q] = IF q = r THEN Idle ELSE req[q]
        BY <1>5, <1>t DEF Leave, Goto
    <2>2. Exchanging' \subseteq Exchanging
        BY <1>i, <2>1 DEF Exchanging
    <2> QED
        BY <1>5, <2>2, Losing DEF Leave, Opened
<1>6. ASSUME NEW t \in Tokens, Logout(t) PROVE Counted'
    BY <1>6, Losing DEF Logout, SessionOf, Exchanging, Opened
<1>7. ASSUME NEW t \in Tokens, Expire(t) PROVE Counted'
    BY <1>7, Losing DEF Expire, Exchanging, Opened
<1>8. CASE UNCHANGED vars
    BY <1>8, Losing DEF vars, Exchanging, Opened
<1> QED
    BY <1>1, <1>2, <1>3, <1>4, <1>5, <1>6, <1>7, <1>8 DEF Next

\* Refreshing never multiplies sessions: for any number of users and handlers,
\* rows and exchanges under way are at most as many as logins and
\* registrations (auth.service.ts, lines 111 to 131).
THEOREM LoginsBoundSessions == Spec => []SessionsPerLogin
<1>1. Counted => SessionsPerLogin
    BY DEF Counted
<1> QED
    BY <1>1, SessionsInit, SessionsStep, CountedInit, CountedStep, PTL DEF Spec
------------------------------------------------------------------------------
(***************************************************************************)
(* The promise: each step is one of TokenExchange. The handler that has    *)
(* deleted a row holds the same session, so that deleting changes nothing; *)
(* this needs that a token has one row and one user.                       *)
(***************************************************************************)

OneUser ==
    /\ \A s, x \in sessions : s.token = x.token => s = x
    /\ \A r \in Requests : req[r].step = "delete" =>
          \A s \in sessions : s.token = req[r].token => s.user = req[r].user

LEMMA OneUserInit == Init => OneUser
BY DEF Init, OneUser, Idle

LEMMA OneUserStep == IInv /\ OneUser /\ [Next]_vars => OneUser'
<1> SUFFICES ASSUME IInv, OneUser, [Next]_vars PROVE OneUser'
    OBVIOUS
<1>t. /\ parent \in [Tokens -> Tokens \cup {None}] /\ req \in [Requests -> Request]
      /\ sessions \subseteq Session /\ Idle.step = "idle"
      /\ \A s \in sessions : parent[s.token] # None
      /\ \A r \in Requests : req[r] # Idle => parent[req[r].token] # None
    BY DEF IInv, TypeOK, RowsAreDrawn, Idle
<1>a. ASSUME sessions' \subseteq sessions,
             \A r \in Requests : req'[r].step = "delete" => req'[r] = req[r]
      PROVE  OneUser'
    BY <1>a DEF OneUser
<1>b. ASSUME NEW t \in Tokens, NEW u \in Users, NEW p, CreateSession(t, u, p),
             \A r \in Requests : req'[r].step = "delete" => req'[r] = req[r]
      PROVE  OneUser'
    <2>1. parent[t] = None /\ sessions' = sessions \cup {[token |-> t, user |-> u]}
        BY <1>b DEF CreateSession, Issued
    <2>2. \A s \in sessions : s.token # t
        BY <1>t, <2>1
    <2>3. \A r \in Requests : req'[r].step = "delete" => req'[r].token # t
        BY <1>b, <1>t, <2>1
    <2> QED
        BY <1>b, <2>1, <2>2, <2>3 DEF OneUser
<1>1. ASSUME NEW u \in Users, Login(u) PROVE OneUser'
    BY <1>1, <1>b DEF Login
<1>2. ASSUME NEW r \in Requests, RefreshFind(r) PROVE OneUser'
    <2>1. PICK s \in sessions :
             req' = [req EXCEPT ![r] = [step |-> "delete", token |-> s.token, user |-> s.user]]
        BY <1>2 DEF RefreshFind, Goto
    <2>2. \A q \in Requests : req'[q] = IF q = r
              THEN [step |-> "delete", token |-> s.token, user |-> s.user] ELSE req[q]
        BY <1>t, <2>1
    <2> QED
        BY <1>2, <2>2 DEF RefreshFind, OneUser
<1>3. ASSUME NEW r \in Requests, RefreshDelete(r) PROVE OneUser'
    <2>1. req[r] \in [step : {"delete", "create"}, token : Tokens, user : Users]
        BY <1>3, <1>t DEF RefreshDelete, Request
    <2>2. \A q \in Requests : req'[q].step = "delete" => req'[q] = req[q]
        BY <1>3, <1>t, <2>1 DEF RefreshDelete, Goto
    <2> QED
        BY <1>3, <1>a, <2>2 DEF RefreshDelete
<1>4. ASSUME NEW r \in Requests, RefreshCreate(r) PROVE OneUser'
    <2>1. req[r].user \in Users
        BY <1>4, <1>t DEF RefreshCreate, Request
    <2>2. \A q \in Requests : req'[q].step = "delete" => req'[q] = req[q]
        BY <1>4, <1>t DEF RefreshCreate, Goto
    <2> QED
        BY <1>4, <1>b, <2>1, <2>2 DEF RefreshCreate
<1>5. ASSUME NEW r \in Requests, Leave(r) PROVE OneUser'
    BY <1>5, <1>a, <1>t DEF Leave, Goto
<1>6. ASSUME NEW t \in Tokens, Logout(t) \/ Expire(t) PROVE OneUser'
    BY <1>6, <1>a DEF Logout, Expire
<1>7. CASE UNCHANGED vars
    BY <1>7, <1>a DEF vars
<1> QED
    BY <1>1, <1>2, <1>3, <1>4, <1>5, <1>6, <1>7 DEF Next

\* What handler r holds, from its delete to its create.
Holding(r) == [token |-> req[r].token, user |-> req[r].user]

\* It is in no row, and no other handler's.
LEMMA HeldOnce ==
    ASSUME IInv, NEW r \in Exchanging
    PROVE  /\ Holding(r) \in Held /\ Holding(r) \notin sessions
           /\ req[r].token \in Tokens /\ req[r].user \in Users /\ parent[req[r].token] # None
           /\ \A q \in Exchanging : Holding(q) = Holding(r) => q = r
<1>1. /\ r \in Requests /\ req[r].step = "create" /\ req[r] # Idle
      /\ req[r] \in [step : {"delete", "create"}, token : Tokens, user : Users]
    BY DEF IInv, TypeOK, Request, Exchanging, Idle
<1>2. InHand(req[r].token) /\ ~HasRow(req[r].token)
    BY <1>1 DEF IInv, OneState, InHand
<1>3. Holding(r) \notin sessions
    BY <1>2 DEF HasRow, Holding
<1>4. \A q \in Exchanging : Holding(q) = Holding(r) => q = r
    BY <1>1 DEF IInv, OneState, Exchanging, Holding
<1> QED
    BY <1>1, <1>3, <1>4 DEF Held, Holding, IInv, RowsAreDrawn

LEMMA SessionsKeepPromise ==
    IInv /\ OneUser /\ [Next]_vars => [Promise!Next]_(Promise!exchangeVars)
<1> SUFFICES ASSUME IInv, OneUser, [Next]_vars
             PROVE  Promise!Next \/ UNCHANGED Promise!exchangeVars
    OBVIOUS
<1> USE NoneAssumption
<1>t. /\ parent \in [Tokens -> Tokens \cup {None}] /\ req \in [Requests -> Request]
      /\ sessions \subseteq Session /\ Idle.step = "idle"
    BY DEF IInv, TypeOK, Idle
<1>a. ASSUME UNCHANGED parent
      PROVE  Issued' = Issued /\ Opened' = Opened
    BY <1>a DEF Issued, Opened
\* Handler r is past its create, or ends.
<1>b. ASSUME NEW r \in Requests, req' = [req EXCEPT ![r] = Idle]
      PROVE  Held' = IF r \in Exchanging THEN Held \ {Holding(r)} ELSE Held
    <2>1. \A q \in Requests : req'[q] = IF q = r THEN Idle ELSE req[q]
        BY <1>b, <1>t
    <2>2. Exchanging' = Exchanging \ {r} /\ \A q \in Exchanging' : Holding(q)' = Holding(q)
        BY <1>t, <2>1 DEF Exchanging, Holding
    <2>3. Held = {Holding(q) : q \in Exchanging} /\ Held' = {Holding(q)' : q \in Exchanging'}
        BY DEF Held, Holding
    <2> QED
        BY <2>2, <2>3, HeldOnce
<1>1. ASSUME NEW u \in Users, Login(u) PROVE Promise!Next
    <2>1. PICK t \in Tokens : CreateSession(t, u, t) /\ UNCHANGED req
        BY <1>1 DEF Login
    <2>2. /\ t \notin Issued /\ Issued' = Issued \cup {t} /\ Opened' = Opened \cup {t}
          /\ sessions' = sessions \cup {[token |-> t, user |-> u]}
        BY <1>t, <2>1 DEF CreateSession, Issued, Opened
    <2>3. Held' = Held
        BY <2>1 DEF Held, Exchanging
    <2>4. Promise!Begin(t, u)
        BY <2>2, <2>3 DEF Promise!Begin, Promise!Draw, Promise!Session
    <2> QED
        BY <2>4 DEF Promise!Next
<1>2. ASSUME NEW r \in Requests, RefreshFind(r) PROVE UNCHANGED Promise!exchangeVars
    <2>1. PICK s \in sessions :
             req' = [req EXCEPT ![r] = [step |-> "delete", token |-> s.token, user |-> s.user]]
        BY <1>2 DEF RefreshFind, Goto
    <2>2. \A q \in Requests : req'[q] = IF q = r
              THEN [step |-> "delete", token |-> s.token, user |-> s.user] ELSE req[q]
        BY <1>t, <2>1
    <2>3. Exchanging' = Exchanging /\ \A q \in Exchanging : req'[q] = req[q]
        BY <1>2, <1>t, <2>2 DEF RefreshFind, Exchanging
    <2>4. Held' = Held
        BY <2>3 DEF Held
    <2> QED
        BY <1>2, <1>a, <2>4 DEF RefreshFind, Promise!exchangeVars
<1>3. ASSUME NEW r \in Requests, RefreshDelete(r) PROVE UNCHANGED Promise!exchangeVars
    <2>1. PICK s \in sessions : s.token = req[r].token
        BY <1>3 DEF RefreshDelete, SessionOf
    <2>2. req[r] \in [step : {"delete", "create"}, token : Tokens, user : Users]
        BY <1>3, <1>t DEF RefreshDelete, Request
    <2>3. s = Holding(r) /\ SessionOf(req[r].token) = {s}
        <3>1. s.user = req[r].user /\ s \in Session
            BY <1>3, <1>t, <2>1 DEF RefreshDelete, OneUser
        <3>2. s = Holding(r)
            BY <2>1, <3>1 DEF Session, Holding
        <3> QED
            BY <2>1, <3>2 DEF SessionOf, OneUser
    <2>4. \A q \in Requests : req'[q] = IF q = r THEN [req[r] EXCEPT !.step = "create"] ELSE req[q]
        BY <1>3, <1>t DEF RefreshDelete, Goto
    <2>5. /\ Exchanging' = Exchanging \cup {r} /\ Holding(r)' = Holding(r)
          /\ \A q \in Exchanging \ {r} : Holding(q)' = Holding(q)
        BY <2>2, <2>4 DEF Exchanging, Holding
    <2>6. Held = {Holding(q) : q \in Exchanging} /\ Held' = {Holding(q)' : q \in Exchanging'}
        BY DEF Held, Holding
    <2>7. Held' = Held \cup {s}
        BY <2>3, <2>5, <2>6
    <2>8. sessions' = sessions \ {s}
        BY <1>3, <2>3 DEF RefreshDelete
    <2> QED
        BY <1>3, <1>a, <2>7, <2>8 DEF RefreshDelete, Promise!exchangeVars
<1>4. ASSUME NEW r \in Requests, RefreshCreate(r) PROVE Promise!Next
    <2>1. PICK t \in Tokens : CreateSession(t, req[r].user, req[r].token)
        BY <1>4 DEF RefreshCreate
    <2>2. r \in Exchanging /\ req' = [req EXCEPT ![r] = Idle]
        BY <1>4 DEF RefreshCreate, Exchanging, Goto
    <2>3. Holding(r) \in Held /\ Holding(r) \notin sessions /\ parent[req[r].token] # None
        BY <2>2, HeldOnce
    <2>4. /\ t \notin Issued /\ Issued' = Issued \cup {t} /\ Opened' = Opened
          /\ sessions' = sessions \cup {[token |-> t, user |-> req[r].user]}
        <3>1. req[r].token \in Tokens
            BY <2>2, HeldOnce
        <3> QED
            BY <1>t, <2>1, <2>3, <3>1 DEF CreateSession, Issued, Opened
    <2>5. Held' = Held \ {Holding(r)}
        BY <1>b, <2>2
    <2>6. sessions' \cup Held' = ((sessions \cup Held) \ {Holding(r)})
                                     \cup {[token |-> t, user |-> Holding(r).user]}
        BY <2>3, <2>4, <2>5 DEF Holding
    <2>7. Promise!Exchange(Holding(r), t)
        BY <2>4, <2>6 DEF Promise!Exchange, Promise!Draw, Promise!Session
    <2> QED
        BY <2>3, <2>7 DEF Promise!Next
<1>5. ASSUME NEW r \in Requests, Leave(r) PROVE Promise!Next \/ UNCHANGED Promise!exchangeVars
    <2>1. req' = [req EXCEPT ![r] = Idle] /\ UNCHANGED <<sessions, parent>>
        BY <1>5 DEF Leave, Goto
    <2>2. CASE r \in Exchanging
        <3>1. Holding(r) \in Held /\ Holding(r) \notin sessions /\ Held' = Held \ {Holding(r)}
            BY <1>b, <2>1, <2>2, HeldOnce
        <3>2. sessions' \cup Held' = (sessions \cup Held) \ {Holding(r)}
            BY <2>1, <3>1
        <3>3. Promise!End(Holding(r))
            BY <1>a, <2>1, <3>2 DEF Promise!End
        <3> QED
            BY <3>1, <3>3 DEF Promise!Next
    <2>3. CASE r \notin Exchanging
        BY <1>a, <1>b, <2>1, <2>3 DEF Promise!exchangeVars
    <2> QED
        BY <2>2, <2>3
<1>6. ASSUME NEW t \in Tokens, Logout(t) PROVE Promise!Next \/ UNCHANGED Promise!exchangeVars
    <2>1. /\ sessions' = sessions \ SessionOf(t) /\ UNCHANGED <<parent, req>> /\ Held' = Held
        BY <1>6 DEF Logout, Held, Exchanging
    <2>2. CASE SessionOf(t) = {}
        BY <1>a, <2>1, <2>2 DEF Promise!exchangeVars
    <2>3. CASE SessionOf(t) # {}
        <3>1. PICK s \in sessions : s.token = t
            BY <2>3 DEF SessionOf
        <3>2. SessionOf(t) = {s}
            BY <3>1 DEF SessionOf, OneUser
        <3>3. s \notin Held
            <4>1. \A r \in Exchanging : Holding(r) \notin sessions
                BY HeldOnce
            <4> QED
                BY <4>1 DEF Held, Holding
        <3>4. sessions' \cup Held' = (sessions \cup Held) \ {s}
            BY <2>1, <3>2, <3>3
        <3>5. Promise!End(s)
            BY <1>a, <2>1, <3>4 DEF Promise!End
        <3> QED
            BY <3>5 DEF Promise!Next
    <2> QED
        BY <2>2, <2>3
<1>7. ASSUME NEW t \in Tokens, Expire(t) PROVE UNCHANGED Promise!exchangeVars
    BY <1>7, <1>a DEF Expire, Held, Exchanging, Promise!exchangeVars
<1>8. CASE UNCHANGED vars
    BY <1>8, <1>a DEF vars, Held, Exchanging, Promise!exchangeVars
<1> QED
    BY <1>1, <1>2, <1>3, <1>4, <1>5, <1>6, <1>7, <1>8 DEF Next

\* For any number of users, tokens and handlers, the statements of all requests
\* together exchange tokens one at a time and for the same user
\* (auth.service.ts, lines 71 to 138).
THEOREM ImplementsExchange == Spec => PromiseSpec
<1>1. Init => Promise!Init
    BY NoneAssumption DEF Init, Promise!Init, Held, Exchanging, Issued, Opened, Idle
<1> QED
    BY <1>1, SessionsInvariant, OneUserInit, OneUserStep, SessionsKeepPromise, PTL
       DEF Spec, PromiseSpec, Promise!Spec
------------------------------------------------------------------------------
(***************************************************************************)
(* The browser side: the tab and its calls.                                *)
(*                                                                         *)
(* A shown user can only be wrong through an answer that is older than the *)
(* login.  There is none: a form works only when nobody is asked for any   *)
(* more, and then no /auth/me is open until the page is loaded anew, which *)
(* asks with what the storage holds.                                       *)
(***************************************************************************)

\* The call that refreshes waits for the answer, so the queue is not left alone.
RefreshHasCall ==
    refresh # NoRefresh => call[refresh.by] # Free /\ call[refresh.by].step = "refreshing"

\* A form that was accepted holds a token of the user who filled it in.
FormsSign ==
    \A i \in Slots : call[i].kind \in Forms =>
        /\ call[i].step # "failed" => call[i].as \in Users
        /\ call[i].step = "ok" => call[i].token \in Tokens /\ owner[call[i].token] = call[i].as

\* isLoading is up as long as the tab asks who it is, which it does once ...
AskedAlone ==
    \A i \in Slots : call[i].kind = "me" =>
        loading /\ \A j \in Slots \ {i} : call[j].kind # "me"

\* ... and while it is up there is no form.
FormsWait == loading => \A i \in Slots : call[i].kind \notin Forms

\* A token that is stored was issued to somebody, whom /auth/me will name as
\* long as this tab's login is the last to have written the storage.
StoredIsOwned == stored \in Tokens => owner[stored] # None
AsksForStored ==
    \A i \in Slots : call[i].kind = "me" /\ mine /\ stored \in Tokens =>
        /\ call[i].step = "sent" /\ call[i].auth \in Tokens => call[i].auth = stored
        /\ call[i].step = "ok" => call[i].as = owner[stored]

Calls == RefreshHasCall /\ FormsSign /\ AskedAlone /\ FormsWait /\ AsksForStored
WInv == ClientTypeOK /\ QueueIsServed /\ Calls /\ StoredIsOwned /\ ShownIsStored

\* Fields of a call.
LEMMA Form ==
    \A c \in Call \ {Free} :
        /\ c = [kind |-> c.kind, step |-> c.step, auth |-> c.auth, token |-> c.token,
                as |-> c.as, retry |-> c.retry]
        /\ c.kind \in Forms \cup {"me", "logout", "data"} /\ c.kind # "free"
        /\ c.step \in {"sent", "queued", "refreshing"} \cup Answers
        /\ c.auth \in Stored /\ c.token \in Stored
        /\ c.as \in Users \cup {None} /\ c.retry \in BOOLEAN
    BY DEF Free, Call, Forms

\* A token that is issued belongs to its user, and takes nobody else's.
LEMMA Issuing ==
    ASSUME ClientTypeOK, NEW n \in Tokens, NEW u \in Users, Issue(n, u)
    PROVE  /\ owner' \in [Tokens -> Users \cup {None}] /\ owner'[n] = u /\ u # None
           /\ \A m \in Tokens : owner[m] # None => owner'[m] = owner[m]
           /\ Owned' = Owned \cup {n}
    BY WebAssumption DEF ClientTypeOK, Issue, Owned

\* The tab makes a call.
LEMMA AskStep ==
    ASSUME WInv, NEW i \in Slots, call[i] = Free,
           NEW kind \in Forms \cup {"logout", "data"}, NEW token \in Stored, NEW as \in Users \cup {None},
           kind \in Forms => as \in Users /\ ~loading,
           Put(i, Sent(kind, token, as)),
           UNCHANGED <<authVars, stored, mine, viewVars, refresh>>
    PROVE  WInv'
<1> PICK c : c = Sent(kind, token, as)
    OBVIOUS
<1>0. Attached(kind, stored) \in Stored /\ kind \in Forms \cup {"me", "logout", "data"}
    BY DEF WInv, ClientTypeOK, Attached, Stored
<1>1. /\ c \in Call \ {Free} /\ c.kind = kind /\ c.step = "sent" /\ c.as = as
    BY <1>0 DEF Sent, Call, Free, Forms, Answers
<1>2. call' = [call EXCEPT ![i] = c] /\ call \in [Slots -> Call]
    BY DEF Put, WInv, ClientTypeOK
<1>3. /\ call' \in [Slots -> Call] /\ call'[i] = c
      /\ \A j \in Slots : j # i => call'[j] = call[j]
    BY <1>1, <1>2
<1>4. kind # "me" /\ kind # "free"
    BY DEF Forms
<1>5. ClientTypeOK'
    BY <1>3 DEF WInv, ClientTypeOK, authVars, viewVars, Owned
<1>6. QueueIsServed'
    BY <1>1, <1>3 DEF WInv, QueueIsServed, Queued
<1>7. RefreshHasCall'
    BY <1>3 DEF WInv, ClientTypeOK, Calls, RefreshHasCall, Refresh, NoRefresh
<1>8. FormsSign' /\ FormsWait'
    BY <1>1, <1>3 DEF WInv, Calls, FormsSign, FormsWait, authVars, viewVars
<1>9. AskedAlone'
    BY <1>1, <1>3, <1>4 DEF WInv, Calls, AskedAlone, viewVars
<1>10. AsksForStored'
    BY <1>1, <1>3, <1>4 DEF WInv, Calls, AsksForStored, authVars
<1>11. StoredIsOwned' /\ ShownIsStored'
    BY DEF WInv, StoredIsOwned, ShownIsStored, authVars, viewVars
<1> QED
    BY <1>5, <1>6, <1>7, <1>8, <1>9, <1>10, <1>11 DEF WInv, Calls

\* The API answers call i.
LEMMA AnswerStep ==
    ASSUME WInv, NEW i \in Slots, call[i] # Free, call[i].step \in {"sent", "ok", "refused"},
           NEW step \in Answers, NEW token \in Stored, NEW as \in Users \cup {None},
           Answer(i, step, token, as),
           owner' \in [Tokens -> Users \cup {None}],
           live' \subseteq Owned', begun' \subseteq Owned', stale' \subseteq Owned',
           \A n \in Tokens : owner[n] # None => owner'[n] = owner[n],
           call[i].kind \in Forms => step = "failed" \/ as \in Users,
           call[i].kind \in Forms /\ step = "ok" => token \in Tokens /\ owner'[token] = as,
           call[i].kind = "me" /\ mine /\ stored \in Tokens /\ step = "ok" => as = owner[stored]
    PROVE  WInv'
<1> PICK c : c = [call[i] EXCEPT !.step = step, !.auth = None, !.token = token, !.as = as]
    OBVIOUS
<1>1. call \in [Slots -> Call] /\ call[i] \in Call \ {Free} /\ None \in Stored
    BY DEF WInv, ClientTypeOK, Stored
<1>2. /\ c \in Call \ {Free} /\ c.kind = call[i].kind /\ c.step = step /\ c.auth = None
      /\ c.token = token /\ c.as = as
    <2> PICK o : o = call[i]
        OBVIOUS
    <2>1. /\ o = [kind |-> o.kind, step |-> o.step, auth |-> o.auth, token |-> o.token,
                  as |-> o.as, retry |-> o.retry]
          /\ o.kind \in Forms \cup {"me", "logout", "data"} /\ o.retry \in BOOLEAN
        BY <1>1, Form
    <2>2. c = [kind |-> o.kind, step |-> step, auth |-> None, token |-> token, as |-> as,
               retry |-> o.retry]
        BY <2>1
    <2>3. step \in {"sent", "queued", "refreshing"} \cup Answers /\ None \in Stored
        BY <1>1
    <2>4. c \in Call \ {Free}
        BY <2>1, <2>2, <2>3 DEF Call, Free, Forms
    <2> QED
        BY <2>2, <2>4
<1>3. call' = [call EXCEPT ![i] = c] /\ UNCHANGED <<stored, mine, viewVars, refresh>>
    BY DEF Answer, Put
<1>4. /\ call' \in [Slots -> Call] /\ call'[i] = c
      /\ \A j \in Slots : j # i => call'[j] = call[j]
    BY <1>1, <1>2, <1>3
<1>5. step \notin {"sent", "queued", "refreshing"}
    BY DEF Answers
<1>6. ClientTypeOK'
    BY <1>3, <1>4 DEF WInv, ClientTypeOK, viewVars
<1>7. QueueIsServed'
    BY <1>2, <1>3, <1>4, <1>5 DEF WInv, QueueIsServed, Queued
<1>8. RefreshHasCall'
    BY <1>3, <1>4 DEF WInv, ClientTypeOK, Calls, RefreshHasCall, Refresh, NoRefresh
<1>9. FormsSign'
    <2> SUFFICES ASSUME NEW j \in Slots, call'[j].kind \in Forms
                 PROVE  /\ call'[j].step # "failed" => call'[j].as \in Users
                        /\ call'[j].step = "ok"
                             => call'[j].token \in Tokens /\ owner'[call'[j].token] = call'[j].as
        BY DEF FormsSign
    <2>1. CASE j = i
        BY <1>2, <1>4, <2>1
    <2>2. CASE j # i
        BY <1>4, <2>2, WebAssumption DEF WInv, Calls, FormsSign
    <2> QED
        BY <2>1, <2>2
<1>10. FormsWait' /\ AskedAlone'
    BY <1>2, <1>3, <1>4 DEF WInv, Calls, FormsWait, AskedAlone, viewVars
<1>11. StoredIsOwned'
    BY <1>3 DEF WInv, StoredIsOwned
<1>12. AsksForStored'
    BY <1>2, <1>3, <1>4, <1>5 DEF WInv, Calls, AsksForStored, StoredIsOwned
<1>13. ShownIsStored'
    BY <1>3 DEF WInv, ShownIsStored, StoredIsOwned, viewVars
<1> QED
    BY <1>6, <1>7, <1>8, <1>9, <1>10, <1>11, <1>12, <1>13 DEF WInv, Calls

\* The tab is done with calls.
LEMMA FinishStep ==
    ASSUME WInv, call' \in [Slots -> Call], \A j \in Slots : call'[j] \in {call[j], Free},
           \/ refresh' = refresh /\ (refresh # NoRefresh => call'[refresh.by] = call[refresh.by])
           \/ refresh' = NoRefresh /\ Queued' = {},
           UNCHANGED authVars, stored' \in Stored, mine' \in BOOLEAN,
           page' \in Pages, user' \in Users \cup {None}, loading' \in BOOLEAN,
           loading' = loading \/ (~loading' /\ \A j \in Slots : call'[j].kind # "me"),
           \/ UNCHANGED <<stored, mine>>
           \/ stored' \notin Tokens
           \/ owner[stored'] # None /\ \A j \in Slots : call'[j].kind # "me",
           ShownIsStored'
    PROVE  WInv'
<1>1. Free.kind = "free" /\ "free" \notin Forms \cup {"me"} /\ NoRefresh \in Refresh
    BY DEF Free, Forms, Refresh
<1>2. owner' = owner /\ live' = live /\ begun' = begun /\ stale' = stale
    BY DEF authVars
<1>3. ClientTypeOK'
    BY <1>1, <1>2 DEF WInv, ClientTypeOK, Owned
<1>4. QueueIsServed'
    BY DEF WInv, QueueIsServed, Queued
<1>5. RefreshHasCall'
    BY DEF WInv, ClientTypeOK, Calls, RefreshHasCall, Refresh, NoRefresh
<1>6. FormsSign' /\ FormsWait'
    BY <1>1, <1>2 DEF WInv, Calls, FormsSign, FormsWait
<1>7. AskedAlone'
    BY <1>1 DEF WInv, Calls, AskedAlone
<1>8. AsksForStored' /\ StoredIsOwned'
    BY <1>1, <1>2 DEF WInv, Calls, AsksForStored, StoredIsOwned
<1> QED
    BY <1>3, <1>4, <1>5, <1>6, <1>7, <1>8 DEF WInv, Calls

\* Steps that leave the calls alone.
LEMMA CallsStay ==
    ASSUME WInv, call' = call, loading' = loading, page' \in Pages, user' = user,
           refresh' \in Refresh, refresh' = NoRefresh <=> refresh = NoRefresh,
           refresh # NoRefresh => refresh'.by = refresh.by,
           owner' \in [Tokens -> Users \cup {None}],
           live' \subseteq Owned', begun' \subseteq Owned', stale' \subseteq Owned',
           \A n \in Tokens : owner[n] # None => owner'[n] = owner[n],
           \/ stored' = stored /\ mine' = mine
           \/ stored' \in Stored /\ mine' = FALSE /\ (stored' \in Tokens => owner'[stored'] # None)
    PROVE  WInv'
<1>1. ClientTypeOK'
    BY DEF WInv, ClientTypeOK
<1>2. QueueIsServed'
    BY DEF WInv, QueueIsServed, Queued
<1>3. RefreshHasCall'
    BY DEF WInv, Calls, RefreshHasCall
<1>4. FormsSign'
    BY WebAssumption DEF WInv, Calls, FormsSign
<1>5. FormsWait' /\ AskedAlone'
    BY DEF WInv, Calls, FormsWait, AskedAlone
<1>6. StoredIsOwned'
    BY DEF WInv, StoredIsOwned
<1>7. AsksForStored'
    BY DEF WInv, Calls, AsksForStored, StoredIsOwned
<1>8. ShownIsStored'
    BY DEF WInv, ShownIsStored, StoredIsOwned
<1> QED
    BY <1>1, <1>2, <1>3, <1>4, <1>5, <1>6, <1>7, <1>8 DEF WInv, Calls

\* A document is loaded.
LEMMA OpenStep ==
    ASSUME WInv, NEW p \in Pages, Open(p)
    PROVE  WInv'
<1>1. PICK i \in Slots : call' =
          [j \in Slots |-> IF j = i /\ stored # None THEN Sent("me", None, None) ELSE Free]
    BY DEF Open
<1>2. /\ page' = p /\ user' = None /\ loading' = (stored # None) /\ refresh' = NoRefresh
      /\ UNCHANGED <<owner, live, begun, stale, stored, mine>>
    BY DEF Open, authVars
<1> PICK c : c = Sent("me", None, None)
    OBVIOUS
<1>3. stored \in Stored /\ None \in Stored /\ Attached("me", stored) = stored
    BY DEF WInv, ClientTypeOK, Stored, Attached, Forms
<1>4. /\ c \in Call /\ c.kind = "me" /\ c.step = "sent" /\ c.auth = stored
    BY <1>3 DEF Sent, Call, Free, Forms, Answers
<1>5. /\ Free \in Call /\ Free.kind = "free" /\ "free" \notin Forms \cup {"me"} /\ "me" \notin Forms
    BY DEF Free, Call, Forms
<1>6. /\ call' \in [Slots -> Call]
      /\ \A j \in Slots : call'[j] = Free \/ (j = i /\ stored # None /\ call'[j] = c)
    BY <1>1, <1>4, <1>5
<1>7. loading' \in BOOLEAN /\ (stored # None => loading')
    BY <1>2, Zenon
<1>8. ClientTypeOK'
    BY <1>2, <1>6, <1>7 DEF WInv, ClientTypeOK, Owned, Refresh
<1>9. QueueIsServed' /\ RefreshHasCall'
    BY <1>2, <1>4, <1>6 DEF QueueIsServed, Queued, RefreshHasCall
<1>10. FormsSign' /\ FormsWait' /\ AskedAlone'
    BY <1>4, <1>5, <1>6, <1>7 DEF FormsSign, FormsWait, AskedAlone
<1>11. AsksForStored'
    BY <1>2, <1>4, <1>5, <1>6 DEF AsksForStored
<1>12. StoredIsOwned' /\ ShownIsStored'
    BY <1>2 DEF WInv, StoredIsOwned, ShownIsStored
<1> QED
    BY <1>8, <1>9, <1>10, <1>11, <1>12 DEF WInv, Calls

\* Calls that wait for a refresh, and are sent again after it, keep what they ask.
LEMMA Waiting ==
    ASSUME NEW c \in Call \ {Free}, NEW auth \in Stored
    PROVE  /\ [c EXCEPT !.step = "queued"] \in Call \ {Free}
           /\ [c EXCEPT !.step = "refreshing", !.retry = TRUE] \in Call \ {Free}
           /\ [c EXCEPT !.step = "sent", !.auth = auth] \in Call \ {Free}
<1>1. /\ c = [kind |-> c.kind, step |-> c.step, auth |-> c.auth, token |-> c.token,
              as |-> c.as, retry |-> c.retry]
      /\ c.kind \in Forms \cup {"me", "logout", "data"}
      /\ c.auth \in Stored /\ c.token \in Stored
      /\ c.as \in Users \cup {None} /\ c.retry \in BOOLEAN
    BY Form
<1>2. [c EXCEPT !.step = "queued"] \in Call \ {Free}
    BY <1>1 DEF Call, Free, Forms
<1>3. [c EXCEPT !.step = "refreshing", !.retry = TRUE] \in Call \ {Free}
    BY <1>1 DEF Call, Free, Forms
<1>4. [c EXCEPT !.step = "sent", !.auth = auth] \in Call \ {Free}
    BY <1>1 DEF Call, Free, Forms
<1> QED
    BY <1>2, <1>3, <1>4

\* A refused call waits: in the queue, or as the one that refreshes.
LEMMA WaitStep ==
    ASSUME WInv, NEW i \in Slots, FirstRefusal(i), Enqueue(i) \/ StartRefresh(i)
    PROVE  WInv'
<1>1. call \in [Slots -> Call] /\ call[i] \in Call \ {Free} /\ call[i].step = "refused"
    BY DEF WInv, ClientTypeOK, FirstRefusal
<1> PICK o : o = call[i]
    OBVIOUS
<1> PICK c : \/ refresh # NoRefresh /\ c = [o EXCEPT !.step = "queued"]
             \/ refresh = NoRefresh /\ c = [o EXCEPT !.step = "refreshing", !.retry = TRUE]
    OBVIOUS
<1>2. /\ call' = [call EXCEPT ![i] = c] /\ UNCHANGED <<authVars, stored, mine, viewVars>>
      /\ c.step = "queued" => refresh' = refresh
      /\ c.step = "refreshing"
           => /\ refresh = NoRefresh /\ stored # None
              /\ refresh' = [step |-> "sent", by |-> i, body |-> stored]
    BY <1>1, Form DEF Enqueue, StartRefresh, Put, NoRefresh
<1>3. c \in Call \ {Free}
    BY <1>1, Waiting DEF Stored
<1>4. c.kind = o.kind /\ c.as = o.as /\ c.token = o.token
    BY <1>1, Form
<1>5. c.step \in {"queued", "refreshing"} /\ (c.step = "queued" => refresh # NoRefresh)
    BY <1>1, Form
<1>6. /\ call' \in [Slots -> Call] /\ call'[i] = c
      /\ \A j \in Slots : j # i => call'[j] = call[j]
    BY <1>1, <1>2, <1>3
<1>7. refresh' \in Refresh /\ refresh' # NoRefresh
    BY <1>2, <1>5 DEF WInv, ClientTypeOK, Refresh, NoRefresh
<1>8. ClientTypeOK'
    BY <1>2, <1>6, <1>7 DEF WInv, ClientTypeOK, Owned, authVars, viewVars
<1>9. QueueIsServed'
    BY <1>7 DEF QueueIsServed
<1>10. RefreshHasCall'
    <2>1. CASE c.step = "refreshing"
        BY <1>2, <1>3, <1>6, <2>1 DEF RefreshHasCall
    <2>2. CASE c.step = "queued"
        BY <1>1, <1>2, <1>5, <1>6, <2>2
           DEF WInv, ClientTypeOK, Calls, RefreshHasCall, Refresh, NoRefresh
    <2> QED
        BY <1>5, <2>1, <2>2
<1>11. FormsSign' /\ FormsWait' /\ AskedAlone'
    BY <1>1, <1>2, <1>4, <1>5, <1>6
       DEF WInv, Calls, FormsSign, FormsWait, AskedAlone, authVars, viewVars
<1>12. AsksForStored'
    BY <1>2, <1>5, <1>6 DEF WInv, Calls, AsksForStored, authVars
<1>13. StoredIsOwned' /\ ShownIsStored'
    BY <1>2 DEF WInv, StoredIsOwned, ShownIsStored, authVars, viewVars
<1> QED
    BY <1>8, <1>9, <1>10, <1>11, <1>12, <1>13 DEF WInv, Calls

\* The end of a refresh that was granted: all that waited is sent again.
LEMMA GrantedStep ==
    ASSUME WInv, RefreshGranted
    PROVE  WInv'
<1> PICK I : I = Queued \cup {refresh.by}
    OBVIOUS
<1>1. /\ refresh # NoRefresh /\ stored' = Undefined /\ refresh' = NoRefresh
      /\ mine' = FALSE /\ UNCHANGED <<owner, live, begun, stale, page, user, loading>>
      /\ call' = [i \in Slots |-> IF i \in I
                     THEN [call[i] EXCEPT !.step = "sent",
                                          !.auth = Attached(call[i].kind, Undefined)]
                     ELSE call[i]]
    <2>1. /\ refresh # NoRefresh /\ stored' = Undefined /\ refresh' = NoRefresh
          /\ mine' = FALSE /\ UNCHANGED <<owner, live, begun, stale, page, user, loading>>
        BY DEF RefreshGranted, Write, NoRefresh, authVars, viewVars
    <2>2. call' = [i \in Slots |-> IF i \in Queued \cup {refresh.by}
                     THEN [call[i] EXCEPT !.step = "sent",
                                          !.auth = Attached(call[i].kind, stored')]
                     ELSE call[i]]
        BY DEF RefreshGranted, Resend
    <2> QED
        BY <2>1, <2>2
<1>2. \A i \in I : i \in Slots /\ call[i] \in Call \ {Free} /\ call[i].step # "failed"
    BY <1>1 DEF WInv, ClientTypeOK, Refresh, Calls, RefreshHasCall, Queued
<1>3. /\ Undefined \in Stored /\ Undefined \notin Tokens /\ NoRefresh \in Refresh
      /\ call \in [Slots -> Call]
    BY WebAssumption DEF Stored, Refresh, WInv, ClientTypeOK
<1>4. \A i \in I : /\ call'[i] \in Call \ {Free} /\ call'[i].kind = call[i].kind
                   /\ call'[i].as = call[i].as /\ call'[i].step = "sent"
    <2> TAKE i \in I
    <2> PICK o : o = call[i]
        OBVIOUS
    <2> PICK a : a = Attached(o.kind, Undefined)
        OBVIOUS
    <2> PICK c : c = [o EXCEPT !.step = "sent", !.auth = a]
        OBVIOUS
    <2>0. a \in Stored
        BY DEF Attached, Stored
    <2>1. call'[i] = c /\ o \in Call \ {Free}
        BY <1>1, <1>2
    <2>2. [o EXCEPT !.step = "sent", !.auth = a] \in Call \ {Free}
        BY <1>3, <2>0, <2>1, Waiting
    <2>3. c.kind = o.kind /\ c.as = o.as /\ c.step = "sent"
        BY <2>1, Form
    <2> QED
        BY <2>1, <2>2, <2>3
<1>5. \A i \in Slots \ I : call'[i] = call[i]
    BY <1>1
<1>6. call' \in [Slots -> Call]
    BY <1>1, <1>3, <1>4
<1>7. ClientTypeOK'
    BY <1>1, <1>3, <1>6 DEF WInv, ClientTypeOK, Owned
<1>8. Queued' = {}
    BY <1>4, <1>5 DEF Queued
<1>9. QueueIsServed' /\ RefreshHasCall'
    BY <1>1, <1>8 DEF QueueIsServed, RefreshHasCall
<1>10. FormsSign'
    BY <1>1, <1>2, <1>4, <1>5 DEF WInv, Calls, FormsSign
<1>11. FormsWait' /\ AskedAlone'
    <2>1. \A i \in Slots : call'[i].kind = call[i].kind
        BY <1>4, <1>5
    <2> QED
        BY <1>1, <2>1 DEF WInv, Calls, FormsWait, AskedAlone
<1>12. AsksForStored' /\ StoredIsOwned' /\ ShownIsStored'
    BY <1>1, <1>3 DEF AsksForStored, StoredIsOwned, ShownIsStored
<1> QED
    BY <1>7, <1>9, <1>10, <1>11, <1>12 DEF WInv, Calls

\* The API's answers, one by one.
LEMMA ApiStep ==
    ASSUME WInv, NEW i \in Slots, ApiAnswers(i)
    PROVE  WInv'
<1>1. /\ call \in [Slots -> Call] /\ owner \in [Tokens -> Users \cup {None}]
      /\ live \subseteq Owned /\ begun \subseteq Owned /\ stale \subseteq Owned
    BY DEF WInv, ClientTypeOK
<1>2. call[i] # Free /\ call[i].step \in {"sent", "ok", "refused"}
    BY Form DEF ApiAnswers, ApiLogin, ApiRejectsLogin, ApiGuarded, ApiRead, ApiLogout, Lose, Has,
       Free, Forms
<1>3. /\ call[i].token \in Stored /\ call[i].as \in Users \cup {None} /\ None \in Stored
      /\ call[i].kind \in Forms /\ call[i].step # "failed" => call[i].as \in Users
    BY <1>1, <1>2, Form DEF Stored, WInv, Calls, FormsSign
<1>4. /\ "ok" \in Answers /\ "refused" \in Answers /\ "failed" \in Answers
      /\ {"me", "data", "logout"} \cap Forms = {}
    BY DEF Answers, Forms
<1>5. ASSUME UNCHANGED authVars
      PROVE  /\ owner' = owner /\ owner' \in [Tokens -> Users \cup {None}]
             /\ live' \subseteq Owned' /\ begun' \subseteq Owned' /\ stale' \subseteq Owned'
    BY <1>1, <1>5 DEF authVars, Owned
<1>6. CASE ApiLogin(i)
    <2> PICK n \in Tokens : Issue(n, call[i].as) /\ live' = live \cup {n} /\ begun' = begun \cup {n}
                             /\ Answer(i, "ok", n, call[i].as)
        BY <1>6 DEF ApiLogin
    <2>1. call[i].kind \in Forms /\ call[i].as \in Users /\ stale' = stale /\ n \in Stored
        BY <1>3, <1>6 DEF ApiLogin, Has, Stored
    <2>2. /\ owner' \in [Tokens -> Users \cup {None}] /\ owner'[n] = call[i].as
          /\ \A m \in Tokens : owner[m] # None => owner'[m] = owner[m]
          /\ Owned' = Owned \cup {n}
        BY <2>1, Issuing DEF WInv
    <2>3. live' \subseteq Owned' /\ begun' \subseteq Owned' /\ stale' \subseteq Owned'
        BY <1>1, <2>1, <2>2
    <2>4. call[i].kind # "me"
        BY <2>1 DEF Forms
    <2> QED
        BY <1>2, <1>3, <1>4, <2>1, <2>2, <2>3, <2>4, AnswerStep
<1>7. CASE ApiRejectsLogin(i)
    BY <1>2, <1>3, <1>4, <1>5, <1>7, AnswerStep DEF ApiRejectsLogin, Has
<1>8. CASE ApiGuarded(i)
    BY <1>2, <1>3, <1>4, <1>5, <1>8, AnswerStep DEF ApiGuarded, Has
<1>9. CASE ApiRead(i)
    <2> PICK as : as = IF call[i].kind = "me" THEN owner[call[i].auth] ELSE None
        OBVIOUS
    <2>1. /\ call[i].kind \in {"me", "data"} /\ call[i].step = "sent" /\ call[i].auth \in Tokens
          /\ Answer(i, "ok", None, as) /\ UNCHANGED authVars
        BY <1>9 DEF ApiRead, Has, Valid
    <2>2. as \in Users \cup {None}
        BY <1>1, <2>1
    <2>3. call[i].kind = "me" /\ mine /\ stored \in Tokens => as = owner[stored]
        BY <2>1 DEF WInv, Calls, AsksForStored
    <2>4. call[i].kind \notin Forms
        BY <1>4, <2>1
    <2> QED
        BY <1>2, <1>3, <1>4, <1>5, <2>1, <2>2, <2>3, <2>4, AnswerStep
<1>10. CASE ApiLogout(i)
    <2>1. /\ call[i].kind \notin Forms \cup {"me"} /\ Answer(i, "ok", None, None)
          /\ live' \subseteq live /\ UNCHANGED <<owner, begun, stale>>
        BY <1>4, <1>10 DEF ApiLogout, Has
    <2>2. live' \subseteq Owned' /\ begun' \subseteq Owned' /\ stale' \subseteq Owned'
        BY <1>1, <2>1 DEF Owned
    <2> QED
        BY <1>1, <1>2, <1>3, <1>4, <2>1, <2>2, AnswerStep
<1>11. CASE Lose(i)
    BY <1>2, <1>3, <1>4, <1>5, <1>11, AnswerStep DEF Lose
<1> QED
    BY <1>6, <1>7, <1>8, <1>9, <1>10, <1>11 DEF ApiAnswers

\* Calls that end with an error.
LEMMA Rejecting ==
    ASSUME WInv, NEW I \in SUBSET Slots, Reject(I)
    PROVE  /\ call' \in [Slots -> Call] /\ \A j \in Slots : call'[j] \in {call[j], Free}
           /\ \A j \in Slots \ I : call'[j] = call[j]
           /\ \A j \in I : call'[j] = Free
           /\ user' \in {user, None} /\ loading' \in BOOLEAN
           /\ loading' = loading \/ (~loading' /\ \A j \in Slots : call'[j].kind # "me")
<1>1. Free \in Call /\ Free.kind # "me" /\ call \in [Slots -> Call] /\ loading \in BOOLEAN
    BY DEF Free, Call, WInv, ClientTypeOK
<1>2. call' = [i \in Slots |-> IF i \in I THEN Free ELSE call[i]] /\ user' \in {user, None}
    BY DEF Reject
<1>3. /\ call' \in [Slots -> Call] /\ \A j \in Slots : call'[j] \in {call[j], Free}
      /\ \A j \in Slots \ I : call'[j] = call[j]
      /\ \A j \in I : call'[j] = Free
    BY <1>1, <1>2
<1>4. CASE "me" \in Kinds(I)
    <2>1. loading' = FALSE
        BY <1>4 DEF Reject
    <2>2. PICK i \in I : call[i].kind = "me"
        BY <1>4 DEF Kinds
    <2>3. \A j \in Slots : call'[j].kind # "me"
        BY <1>1, <1>3, <2>2 DEF WInv, Calls, AskedAlone
    <2> QED
        BY <1>2, <1>3, <2>1, <2>3
<1>5. CASE "me" \notin Kinds(I)
    <2>1. loading' = loading
        BY <1>1, <1>5 DEF Reject
    <2> QED
        BY <1>1, <1>2, <1>3, <2>1
<1> QED
    BY <1>4, <1>5

\* What the tab makes of an answer, one handler by one.
LEMMA TabStep ==
    ASSUME WInv, NEW i \in Slots, TabHandles(i)
    PROVE  WInv'
<1>1. /\ call \in [Slots -> Call] /\ stored \in Stored /\ mine \in BOOLEAN
      /\ page \in Pages /\ user \in Users \cup {None} /\ loading \in BOOLEAN
      /\ refresh \in Refresh
    BY DEF WInv, ClientTypeOK
<1>2. /\ Free \in Call /\ Free.kind = "free"
      /\ "free" \notin Forms \cup {"me", "logout", "data"} /\ {"me", "logout", "data"} \cap Forms = {}
      /\ {"shop", "leaving"} \subseteq Pages /\ None \in Stored /\ None \notin Tokens
    BY NoneAssumption DEF Free, Call, Forms, Pages, Stored
<1>3. ASSUME call[i] # Free, call[i].step \in {"ok", "failed", "refused"},
             call' = [call EXCEPT ![i] = Free], UNCHANGED <<authVars, refresh>>
      PROVE  /\ call' \in [Slots -> Call] /\ \A j \in Slots : call'[j] \in {call[j], Free}
             /\ refresh' = refresh /\ (refresh # NoRefresh => call'[refresh.by] = call[refresh.by])
             /\ UNCHANGED authVars
             /\ call[i].kind = "me" => \A j \in Slots : call'[j].kind # "me"
    <2>1. /\ call' \in [Slots -> Call] /\ \A j \in Slots : call'[j] \in {call[j], Free}
          /\ call'[i] = Free /\ \A j \in Slots : j # i => call'[j] = call[j]
        BY <1>1, <1>2, <1>3
    <2>2. refresh # NoRefresh => call'[refresh.by] = call[refresh.by]
        BY <1>1, <1>3, <2>1 DEF WInv, Calls, RefreshHasCall, Refresh, NoRefresh
    <2>3. call[i].kind = "me" => \A j \in Slots : call'[j].kind # "me"
        BY <1>2, <2>1 DEF WInv, Calls, AskedAlone
    <2> QED
        BY <1>3, <2>1, <2>2, <2>3
<1>4. CASE LoginSucceeds(i)
    <2>1. /\ call[i].kind \in Forms /\ call[i].step = "ok" /\ call[i] # Free
          /\ stored' = call[i].token /\ mine' = TRUE /\ user' = call[i].as
          /\ page' \in Pages /\ loading' = loading
          /\ call' = [call EXCEPT ![i] = Free] /\ UNCHANGED <<authVars, refresh>>
        BY <1>1, <1>2, <1>4 DEF LoginSucceeds, Has, Put
    <2>2. /\ call[i].as \in Users /\ call[i].token \in Tokens /\ owner[call[i].token] = call[i].as
          /\ call[i].as # None
        BY <2>1, WebAssumption DEF WInv, Calls, FormsSign
    <2>3. /\ call' \in [Slots -> Call] /\ \A j \in Slots : call'[j] \in {call[j], Free}
          /\ refresh' = refresh /\ (refresh # NoRefresh => call'[refresh.by] = call[refresh.by])
          /\ UNCHANGED authVars
        BY <1>3, <2>1
    <2>4. \A j \in Slots : call'[j].kind # "me"
        BY <1>2, <2>1, <2>3 DEF WInv, Calls, AskedAlone, FormsWait
    <2>5. ShownIsStored' /\ stored' \in Stored /\ owner[stored'] # None
        BY <2>1, <2>2 DEF ShownIsStored, authVars, Stored
    <2>6. user' \in Users \cup {None} /\ mine' \in BOOLEAN /\ loading' \in BOOLEAN
        BY <1>1, <2>1, <2>2
    <2> QED
        BY <2>1, <2>3, <2>4, <2>5, <2>6, FinishStep
<1>5. CASE MeSucceeds(i)
    <2>1. /\ call[i].kind = "me" /\ call[i].step = "ok" /\ call[i] # Free
          /\ UNCHANGED <<stored, mine>> /\ user' = call[i].as
          /\ page' \in Pages /\ loading' = FALSE
          /\ call' = [call EXCEPT ![i] = Free] /\ UNCHANGED <<authVars, refresh>>
        BY <1>1, <1>2, <1>5 DEF MeSucceeds, Has, Put
    <2>2. call[i].as \in Users \cup {None} /\ (mine /\ stored \in Tokens => call[i].as = owner[stored])
        BY <1>1, <2>1, Form DEF WInv, Calls, AsksForStored
    <2>3. /\ call' \in [Slots -> Call] /\ \A j \in Slots : call'[j] \in {call[j], Free}
          /\ refresh' = refresh /\ (refresh # NoRefresh => call'[refresh.by] = call[refresh.by])
          /\ UNCHANGED authVars /\ \A j \in Slots : call'[j].kind # "me"
        BY <1>3, <2>1
    <2>4. ShownIsStored'
        BY <2>1, <2>2 DEF ShownIsStored, authVars
    <2>5. /\ user' \in Users \cup {None} /\ stored' \in Stored
          /\ mine' \in BOOLEAN /\ loading' \in BOOLEAN /\ ~loading'
        BY <1>1, <2>1, <2>2
    <2> QED
        BY <2>1, <2>3, <2>4, <2>5, FinishStep
<1>6. CASE LogoutSucceeds(i)
    <2>1. /\ call[i].kind = "logout" /\ call[i].step = "ok" /\ call[i] # Free
          /\ stored' = None /\ user' = None /\ mine' = FALSE /\ UNCHANGED <<page, loading>>
          /\ call' = [call EXCEPT ![i] = Free] /\ UNCHANGED <<authVars, refresh>>
        BY <1>2, <1>6 DEF LogoutSucceeds, Has, Put, Write
    <2>2. ShownIsStored'
        BY <2>1 DEF ShownIsStored
    <2>3. /\ user' \in Users \cup {None} /\ stored' \in Stored /\ stored' \notin Tokens
          /\ mine' \in BOOLEAN /\ loading' \in BOOLEAN /\ page' \in Pages
        BY <1>1, <1>2, <2>1
    <2> QED
        BY <1>3, <2>1, <2>2, <2>3, FinishStep
<1>7. CASE DataArrives(i)
    <2>1. /\ call[i].step = "ok" /\ call[i] # Free
          /\ UNCHANGED <<stored, mine, page, user, loading>>
          /\ call' = [call EXCEPT ![i] = Free] /\ UNCHANGED <<authVars, refresh>>
        BY <1>2, <1>7 DEF DataArrives, Has, Put, viewVars
    <2>2. ShownIsStored'
        BY <2>1 DEF WInv, ShownIsStored, authVars
    <2>3. /\ user' \in Users \cup {None} /\ stored' \in Stored
          /\ mine' \in BOOLEAN /\ loading' \in BOOLEAN /\ page' \in Pages
        BY <1>1, <2>1
    <2> QED
        BY <1>3, <2>1, <2>2, <2>3, FinishStep
<1>8. CASE ErrorArrives(i)
    <2>1. /\ call[i] # Free /\ call[i].step \in {"failed", "refused"} /\ Reject({i})
          /\ (stored' = None /\ mine' = FALSE) \/ UNCHANGED <<stored, mine>>
          /\ page' = page /\ UNCHANGED <<authVars, refresh>>
        BY <1>8 DEF ErrorArrives, Write
    <2>2. /\ call' \in [Slots -> Call] /\ \A j \in Slots : call'[j] \in {call[j], Free}
          /\ \A j \in Slots \ {i} : call'[j] = call[j]
          /\ user' \in {user, None} /\ loading' \in BOOLEAN
          /\ loading' = loading \/ (~loading' /\ \A j \in Slots : call'[j].kind # "me")
        BY <2>1, Rejecting
    <2>3. refresh # NoRefresh => call'[refresh.by] = call[refresh.by]
        BY <1>1, <2>1, <2>2 DEF WInv, Calls, RefreshHasCall, Refresh, NoRefresh
    <2>4. ShownIsStored'
        BY <1>2, <2>1, <2>2 DEF WInv, ShownIsStored, authVars
    <2>5. /\ user' \in Users \cup {None} /\ stored' \in Stored /\ mine' \in BOOLEAN /\ page' \in Pages
          /\ UNCHANGED <<stored, mine>> \/ stored' \notin Tokens
        BY <1>1, <1>2, <2>1, <2>2
    <2> QED
        BY <2>1, <2>2, <2>3, <2>4, <2>5, FinishStep
<1>9. CASE Enqueue(i) \/ StartRefresh(i)
    BY <1>9, WaitStep DEF Enqueue, StartRefresh
<1>10. CASE NothingToRefresh(i)
    <2>1. /\ refresh = NoRefresh /\ Reject({i}) /\ stored' = None /\ page' = "leaving"
          /\ refresh' = NoRefresh /\ mine' = FALSE /\ UNCHANGED authVars
        BY <1>10 DEF NothingToRefresh, SignOut, Write
    <2>2. /\ call' \in [Slots -> Call] /\ \A j \in Slots : call'[j] \in {call[j], Free}
          /\ user' \in {user, None} /\ loading' \in BOOLEAN
          /\ loading' = loading \/ (~loading' /\ \A j \in Slots : call'[j].kind # "me")
        BY <2>1, Rejecting
    <2>3. ShownIsStored'
        BY <1>2, <2>1 DEF ShownIsStored
    <2>4. /\ user' \in Users \cup {None} /\ stored' \in Stored /\ stored' \notin Tokens
          /\ mine' \in BOOLEAN /\ page' \in Pages
        BY <1>1, <1>2, <2>1, <2>2
    <2> QED
        BY <2>1, <2>2, <2>3, <2>4, FinishStep
<1> QED
    BY <1>4, <1>5, <1>6, <1>7, <1>8, <1>9, <1>10 DEF TabHandles

\* The end of a refresh that was refused.
LEMMA RefusedStep ==
    ASSUME WInv, RefreshRefused
    PROVE  WInv'
<1>1. /\ stored \in Stored /\ mine \in BOOLEAN /\ user \in Users \cup {None} /\ refresh \in Refresh
      /\ None \in Stored /\ None \notin Tokens /\ "leaving" \in Pages
    BY NoneAssumption DEF WInv, ClientTypeOK, Stored, Pages
<1> PICK I : I = Queued \cup {refresh.by}
    OBVIOUS
<1>2. /\ refresh # NoRefresh /\ Reject(I) /\ stored' = None /\ page' = "leaving"
      /\ refresh' = NoRefresh /\ mine' = FALSE /\ UNCHANGED authVars
    BY DEF RefreshRefused, SignOut, Write, NoRefresh
<1>3. I \in SUBSET Slots
    BY <1>1, <1>2 DEF Queued, Refresh
<1>4. /\ call' \in [Slots -> Call] /\ \A j \in Slots : call'[j] \in {call[j], Free}
      /\ \A j \in Slots \ I : call'[j] = call[j]
      /\ \A j \in I : call'[j] = Free
      /\ user' \in {user, None} /\ loading' \in BOOLEAN
      /\ loading' = loading \/ (~loading' /\ \A j \in Slots : call'[j].kind # "me")
    BY <1>2, <1>3, Rejecting
<1>5. Queued' = {}
    BY <1>4 DEF Queued
<1>6. ShownIsStored'
    BY <1>1, <1>2 DEF ShownIsStored
<1>7. /\ user' \in Users \cup {None} /\ stored' \in Stored /\ stored' \notin Tokens
      /\ mine' \in BOOLEAN /\ page' \in Pages
    BY <1>1, <1>2, <1>4
<1> QED
    BY <1>2, <1>4, <1>5, <1>6, <1>7, FinishStep

LEMMA ClientStarts == ClientInit => WInv
<1> SUFFICES ASSUME ClientInit PROVE WInv
    OBVIOUS
<1>1. /\ owner = [n \in Tokens |-> None] /\ live = {} /\ begun = {} /\ stale = {} /\ stored = None
      /\ mine = FALSE /\ page = "shop" /\ user = None /\ loading = FALSE
      /\ call = [i \in Slots |-> Free] /\ refresh = NoRefresh
    BY DEF ClientInit
<1>2. Free \in Call /\ Free.kind = "free" /\ "free" \notin Forms \cup {"me"}
    BY DEF Free, Call, Forms
<1>3. ClientTypeOK
    BY <1>1, <1>2 DEF ClientTypeOK, Stored, Pages, Refresh
<1>4. QueueIsServed /\ RefreshHasCall
    BY <1>1 DEF QueueIsServed, Queued, RefreshHasCall
<1>5. FormsSign /\ AskedAlone /\ FormsWait /\ AsksForStored
    BY <1>1, <1>2 DEF FormsSign, AskedAlone, FormsWait, AsksForStored
<1>6. StoredIsOwned /\ ShownIsStored
    BY <1>1, NoneAssumption DEF StoredIsOwned, ShownIsStored
<1> QED
    BY <1>3, <1>4, <1>5, <1>6 DEF WInv, Calls

\* Every step of the tab, of the API and of the other tabs.
LEMMA ClientStep == WInv /\ [ClientNext]_clientVars => WInv'
<1> SUFFICES ASSUME WInv, [ClientNext]_clientVars PROVE WInv'
    OBVIOUS
<1>1. /\ owner \in [Tokens -> Users \cup {None}]
      /\ live \subseteq Owned /\ begun \subseteq Owned /\ stale \subseteq Owned
      /\ stored \in Stored /\ page \in Pages /\ user \in Users \cup {None} /\ refresh \in Refresh
    BY DEF WInv, ClientTypeOK
<1>2. ASSUME UNCHANGED <<owner, live, begun>>, stale' \subseteq Owned
      PROVE  /\ owner' \in [Tokens -> Users \cup {None}]
             /\ live' \subseteq Owned' /\ begun' \subseteq Owned' /\ stale' \subseteq Owned'
             /\ \A n \in Tokens : owner[n] # None => owner'[n] = owner[n]
    BY <1>1, <1>2 DEF Owned
<1>3. CASE \E p \in Pages \ {"leaving"} : Open(p)
    BY <1>3, OpenStep
<1>4. CASE RedirectVisitor
    <2>1. "login" \in Pages
        BY DEF Pages, Forms
    <2> QED
        BY <1>1, <1>2, <1>4, <2>1, CallsStay DEF RedirectVisitor, authVars
<1>5. CASE ApiRefresh
    <2> PICK n \in Tokens : Issue(n, owner[refresh.body]) /\ live' = (live \ {refresh.body}) \cup {n}
        BY <1>5 DEF ApiRefresh
    <2>1. /\ refresh.step = "sent" /\ refresh.body \in live
          /\ refresh' = [refresh EXCEPT !.step = "granted"]
          /\ UNCHANGED <<begun, stale, stored, mine, page, user, loading, call>>
        BY <1>5 DEF ApiRefresh, viewVars
    <2>2. owner[refresh.body] \in Users
        BY <1>1, <2>1 DEF Owned
    <2>3. /\ owner' \in [Tokens -> Users \cup {None}]
          /\ \A m \in Tokens : owner[m] # None => owner'[m] = owner[m]
          /\ Owned' = Owned \cup {n}
        BY <2>2, Issuing DEF WInv
    <2>4. live' \subseteq Owned' /\ begun' \subseteq Owned' /\ stale' \subseteq Owned'
        BY <1>1, <2>1, <2>3
    <2>5. /\ refresh' \in Refresh /\ refresh # NoRefresh /\ refresh' # NoRefresh
          /\ refresh'.by = refresh.by
        BY <1>1, <2>1 DEF Refresh, NoRefresh
    <2> QED
        BY <1>1, <2>1, <2>3, <2>4, <2>5, CallsStay
<1>6. CASE RefreshFails
    <2>1. /\ refresh.step \in {"sent", "granted"} /\ refresh' = [refresh EXCEPT !.step = "refused"]
          /\ UNCHANGED <<owner, live, begun, stale, stored, mine, page, user, loading, call>>
        BY <1>6 DEF RefreshFails, authVars, viewVars
    <2>2. /\ refresh' \in Refresh /\ refresh # NoRefresh /\ refresh' # NoRefresh
          /\ refresh'.by = refresh.by
        BY <1>1, <2>1 DEF Refresh, NoRefresh
    <2> QED
        BY <1>1, <1>2, <2>1, <2>2, CallsStay
<1>7. CASE RefreshRefused
    BY <1>7, RefusedStep
<1>8. CASE RefreshGranted
    BY <1>8, GrantedStep
<1>9. CASE OtherTab
    <2>1. /\ mine' = FALSE /\ UNCHANGED <<stale, page, user, loading, call, refresh>>
          /\ None \in Stored /\ Undefined \in Stored /\ None \notin Tokens /\ Undefined \notin Tokens
        BY <1>9, NoneAssumption, WebAssumption DEF OtherTab, viewVars, Stored
    <2>2. ASSUME NEW n \in Tokens, NEW u \in Users, Issue(n, u), live' \subseteq live \cup {n},
                 begun' \subseteq begun \cup {n},
                 stored' \in {n, Undefined}
          PROVE  WInv'
        <3>1. /\ owner' \in [Tokens -> Users \cup {None}] /\ owner'[n] = u /\ u # None
              /\ \A m \in Tokens : owner[m] # None => owner'[m] = owner[m]
              /\ Owned' = Owned \cup {n}
            BY <2>2, Issuing DEF WInv
        <3>2. live' \subseteq Owned' /\ begun' \subseteq Owned' /\ stale' \subseteq Owned'
            BY <1>1, <2>1, <2>2, <3>1
        <3>3. stored' \in Stored /\ (stored' \in Tokens => owner'[stored'] # None)
            BY <2>1, <2>2, <3>1 DEF Stored
        <3> QED
            BY <1>1, <2>1, <3>1, <3>2, <3>3, CallsStay
    <2>3. CASE \E n \in Tokens, u \in Users :
               /\ Issue(n, u) /\ live' = live \cup {n} /\ begun' = begun \cup {n}
               /\ stored' = n
        BY <2>2, <2>3
    <2>4. CASE /\ stored # None /\ live' \in {live, live \ {stored}} /\ stored' = None
               /\ UNCHANGED <<owner, begun>>
        <3>1. live' \subseteq Owned' /\ begun' \subseteq Owned' /\ stale' \subseteq Owned'
            BY <1>1, <2>1, <2>4 DEF Owned
        <3> QED
            BY <1>1, <2>1, <2>4, <3>1, CallsStay
    <2>5. CASE /\ stored \in live
               /\ \E n \in Tokens :
                     Issue(n, owner[stored]) /\ live' = (live \ {stored}) \cup {n}
               /\ stored' = Undefined
               /\ UNCHANGED begun
        <3>1. owner[stored] \in Users
            BY <1>1, <2>5 DEF Owned
        <3> QED
            BY <2>2, <2>5, <3>1
    <2> QED
        BY <1>9, <2>3, <2>4, <2>5 DEF OtherTab
<1>10. CASE \E i \in Slots, u \in Users : SubmitLogin(i, u) \/ SubmitRegister(i, u)
    <2> PICK i \in Slots, u \in Users : SubmitLogin(i, u) \/ SubmitRegister(i, u)
        BY <1>10
    <2>1. PICK kind \in Forms : Put(i, Sent(kind, None, u)) /\ FormReady(kind)
        BY DEF SubmitLogin, SubmitRegister, LoginForm, RegisterForm, Forms
    <2>2. call[i] = Free /\ ~loading /\ UNCHANGED <<authVars, stored, mine, viewVars, refresh>>
        BY <2>1 DEF SubmitLogin, SubmitRegister, FormReady
    <2> QED
        BY <2>1, <2>2, AskStep DEF Stored
<1>11. CASE \E i \in Slots : ClickLogout(i)
    BY <1>1, <1>11, AskStep DEF ClickLogout, Forms
<1>12. CASE \E i \in Slots : RequestData(i)
    BY <1>11, <1>12, AskStep DEF RequestData, Forms, Stored
<1>13. CASE \E i \in Slots : ApiAnswers(i) \/ TabHandles(i)
    BY <1>13, ApiStep, TabStep
<1>14. CASE \E n \in Tokens : ExpireAccess(n)
    <2>1. /\ UNCHANGED <<owner, live, begun, stored, mine, page, user, loading, call, refresh>>
          /\ stale' \subseteq Owned
        BY <1>1, <1>14 DEF ExpireAccess, viewVars
    <2> QED
        BY <1>1, <1>2, <2>1, CallsStay
<1>15. CASE UNCHANGED clientVars
    BY <1>1, <1>2, <1>15, CallsStay DEF clientVars, authVars, viewVars
<1>16. CASE \E form \in Forms : FollowLink(form)
    <2>1. PICK form \in Forms : FollowLink(form)
        BY <1>16
    <2>2. OtherForm(form) \in Pages
        BY DEF OtherForm, Pages, Forms
    <2> QED
        BY <1>1, <1>2, <2>1, <2>2, CallsStay DEF FollowLink, authVars
<1> QED
    BY <1>3, <1>4, <1>5, <1>6, <1>7, <1>8, <1>9, <1>10, <1>11, <1>12, <1>13, <1>14, <1>15, <1>16
       DEF ClientNext, RefreshRuns

LEMMA ClientInvariant == ClientSpec => []WInv
BY ClientStarts, ClientStep, PTL DEF ClientSpec

\* The tab's state, its open calls and the refresh keep their types through
\* every order of answers, reloads and other tabs' writes (client.ts).
THEOREM ClientTypeCorrect == ClientSpec => []ClientTypeOK
<1>1. WInv => ClientTypeOK
    BY DEF WInv
<1> QED
    BY <1>1, ClientInvariant, PTL

\* For any number of open calls, one waits in failedQueue only while a refresh
\* is running that will answer it (client.ts, lines 87 to 125).
THEOREM QueueIsNeverLeft == ClientSpec => []QueueIsServed
<1>1. WInv => QueueIsServed
    BY DEF WInv
<1> QED
    BY <1>1, ClientInvariant, PTL

\* For any number of users, tokens and open calls: whoever signed in here is
\* shown until somebody else writes the storage; no older /auth/me puts
\* another name there (AuthContext.tsx, Login.tsx).
THEOREM LoginIsShown == ClientSpec => []ShownIsStored
<1>1. WInv => ShownIsStored
    BY DEF WInv
<1> QED
    BY <1>1, ClientInvariant, PTL
------------------------------------------------------------------------------
(***************************************************************************)
(* The tabs ask of the API nothing but what TokenExchange allows.          *)
(***************************************************************************)

\* The session that token n keeps open.
Row(n) == [token |-> n, user |-> owner[n]]
Rows == {Row(n) : n \in live}

\* Issuing a token leaves the rows of the others as they are.
LEMMA RowsStay ==
    ASSUME WInv, NEW n \in Tokens, NEW u \in Users, Issue(n, u)
    PROVE  /\ n \notin Owned /\ Owned' = Owned \cup {n} /\ Row(n)' = [token |-> n, user |-> u]
           /\ \A m \in live : m \in Tokens /\ m # n /\ Row(m)' = Row(m)
<1>1. /\ owner'[n] = u /\ \A m \in Tokens : owner[m] # None => owner'[m] = owner[m]
      /\ Owned' = Owned \cup {n} /\ n \notin Owned
    BY Issuing DEF WInv, Issue
<1>2. \A m \in live : m \in Tokens /\ owner[m] # None
    BY DEF WInv, ClientTypeOK, Owned
<1> QED
    BY <1>1, <1>2 DEF Row, Owned

LEMMA ApiBegins ==
    ASSUME WInv, NEW n \in Tokens, NEW u \in Users, Issue(n, u),
           live' = live \cup {n}, begun' = begun \cup {n}
    PROVE  Api!Next
<1>1. Rows' = Rows \cup {[token |-> n, user |-> u]}
    BY RowsStay DEF Rows
<1>2. Api!Begin(n, u)
    BY <1>1, RowsStay DEF Api!Begin, Api!Draw, Api!Session, Rows, Row
<1> QED
    BY <1>2 DEF Api!Next

LEMMA ApiExchanges ==
    ASSUME WInv, NEW m \in live, NEW n \in Tokens, Issue(n, owner[m]),
           live' = (live \ {m}) \cup {n}, begun' = begun
    PROVE  Api!Next
<1>0. owner[m] \in Users /\ m \in Tokens
    BY DEF WInv, ClientTypeOK, Owned
<1>1. \A k \in live : Row(k) = Row(m) => k = m
    BY DEF Row
<1>2. Rows' = (Rows \ {Row(m)}) \cup {[token |-> n, user |-> Row(m).user]}
    <2>1. /\ Row(n)' = [token |-> n, user |-> Row(m).user]
          /\ \A k \in live : Row(k)' = Row(k)
        BY <1>0, RowsStay DEF Row
    <2> QED
        BY <1>1, <2>1 DEF Rows
<1>3. Row(m) \in {[token |-> k, user |-> owner[k]] : k \in live}
    BY DEF Row
<1>4. Api!Exchange(Row(m), n)
    BY <1>0, <1>2, RowsStay DEF Api!Exchange, Api!Draw, Api!Session, Rows, Row
<1> QED
    BY <1>3, <1>4 DEF Api!Next

LEMMA ApiEnds ==
    ASSUME NEW m, live' = live \ {m}, UNCHANGED <<owner, begun>>
    PROVE  Api!Next \/ UNCHANGED Api!exchangeVars
<1>1. Owned' = Owned /\ \A k \in live : Row(k)' = Row(k)
    BY DEF Owned, Row
<1>2. CASE m \in live
    <2>1. \A k \in live : Row(k) = Row(m) => k = m
        BY DEF Row
    <2>2. PICK s \in {[token |-> k, user |-> owner[k]] : k \in live} : s = Row(m)
        BY <1>2 DEF Row
    <2>3. Rows' = Rows \ {s}
        BY <1>1, <1>2, <2>1, <2>2 DEF Rows
    <2>4. Api!End(s)
        BY <1>1, <2>3 DEF Api!End, Rows, Row
    <2>5. Api!Next
        BY <2>4 DEF Api!Next
    <2> QED
        BY <2>5
<1>3. CASE m \notin live
    <2>1. Rows' = Rows
        BY <1>1, <1>3 DEF Rows
    <2> QED
        BY <1>1, <2>1 DEF Api!exchangeVars, Rows, Row
<1> QED
    BY <1>2, <1>3

LEMMA TabsUseExchange == WInv /\ [ClientNext]_clientVars => [Api!Next]_(Api!exchangeVars)
<1> SUFFICES ASSUME WInv, [ClientNext]_clientVars
             PROVE  Api!Next \/ UNCHANGED Api!exchangeVars
    OBVIOUS
<1>1. ASSUME UNCHANGED <<owner, live, begun>>
      PROVE  UNCHANGED Api!exchangeVars
    BY <1>1 DEF Owned, Api!exchangeVars
<1>2. CASE \/ \E p \in Pages \ {"leaving"} : Open(p)
           \/ \E form \in Forms : FollowLink(form)
           \/ RedirectVisitor
    BY <1>1, <1>2 DEF Open, FollowLink, RedirectVisitor, authVars
<1>3. CASE ApiRefresh
    BY <1>3, ApiExchanges DEF ApiRefresh
<1>4. CASE RefreshFails \/ RefreshRefused \/ RefreshGranted
    BY <1>1, <1>4 DEF RefreshFails, RefreshRefused, RefreshGranted, SignOut, authVars
<1>5. CASE OtherTab
    <2>1. CASE \E n \in Tokens, u \in Users :
                  Issue(n, u) /\ live' = live \cup {n} /\ begun' = begun \cup {n}
        BY <2>1, ApiBegins
    <2>2. CASE live' \in {live, live \ {stored}} /\ UNCHANGED <<owner, begun>>
        BY <1>1, <2>2, ApiEnds
    <2>3. CASE /\ stored \in live /\ begun' = begun
               /\ \E n \in Tokens : Issue(n, owner[stored]) /\ live' = (live \ {stored}) \cup {n}
        BY <2>3, ApiExchanges
    <2> QED
        BY <1>5, <2>1, <2>2, <2>3 DEF OtherTab
<1>6. ASSUME NEW i \in Slots, NEW u \in Users, SubmitLogin(i, u) \/ SubmitRegister(i, u)
      PROVE  UNCHANGED Api!exchangeVars
    BY <1>1, <1>6 DEF SubmitLogin, SubmitRegister, authVars
<1>7. ASSUME NEW i \in Slots, ClickLogout(i) \/ RequestData(i)
      PROVE  UNCHANGED Api!exchangeVars
    BY <1>1, <1>7 DEF ClickLogout, RequestData, authVars
<1>8. ASSUME NEW i \in Slots, ApiAnswers(i)
      PROVE  Api!Next \/ UNCHANGED Api!exchangeVars
    <2>1. CASE ApiLogin(i)
        <3>1. call[i].as \in Users
            <4>1. call[i].kind \in Forms /\ call[i].step = "sent"
                BY <2>1 DEF ApiLogin, Has
            <4> QED
                BY <4>1 DEF WInv, Calls, FormsSign
        <3> QED
            BY <2>1, <3>1, ApiBegins DEF ApiLogin
    <2>2. CASE ApiLogout(i)
        BY <2>2, ApiEnds DEF ApiLogout
    <2>3. CASE ApiRejectsLogin(i) \/ ApiGuarded(i) \/ ApiRead(i) \/ Lose(i)
        BY <1>1, <2>3 DEF ApiRejectsLogin, ApiGuarded, ApiRead, Lose, authVars
    <2> QED
        BY <1>8, <2>1, <2>2, <2>3 DEF ApiAnswers
<1>9. ASSUME NEW i \in Slots, TabHandles(i)
      PROVE  UNCHANGED Api!exchangeVars
    <2>1. UNCHANGED authVars
        BY <1>9 DEF TabHandles, LoginSucceeds, MeSucceeds, LogoutSucceeds, DataArrives,
           ErrorArrives, Enqueue, StartRefresh, NothingToRefresh, SignOut
    <2> QED
        BY <1>1, <2>1 DEF authVars
<1>10. ASSUME NEW n \in Tokens, ExpireAccess(n)
       PROVE  UNCHANGED Api!exchangeVars
    BY <1>1, <1>10 DEF ExpireAccess
<1>11. CASE UNCHANGED clientVars
    BY <1>1, <1>11 DEF clientVars, authVars
<1> QED
    BY <1>2, <1>3, <1>4, <1>5, <1>6, <1>7, <1>8, <1>9, <1>10, <1>11 DEF ClientNext, RefreshRuns

\* The API that the browser's model takes for granted is the one that AuthService
\* is (ImplementsExchange): the same promise, for any number of tabs and users.
THEOREM BrowserUsesExchange == ClientSpec => ApiSpec
<1>1. ClientInit => Api!Init
    BY DEF ClientInit, Api!Init, Owned
<1> QED
    BY <1>1, ClientInvariant, TabsUseExchange, PTL DEF ClientSpec, ApiSpec, Api!Spec
==============================================================================
