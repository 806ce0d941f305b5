---------------------------- MODULE TokenExchange ----------------------------
(***************************************************************************)
(* What the API promises about refresh tokens, and what the browser takes  *)
(* it for: a session is open under one token at a time. The token can be   *)
(* exchanged for another of the same user, which closes it for good, and a *)
(* session can end. Module Sessions implements this with its handlers,     *)
(* module WebClient uses it.                                               *)
(***************************************************************************)
EXTENDS Accounts

VARIABLES
    open,          \* the open sessions: token and user
    drawn,         \* tokens that were ever given out
    begun          \* those of them that a login or a registration gave out

exchangeVars == <<open, drawn, begun>>

Draw(t) == t \in Tokens \ drawn /\ drawn' = drawn \cup {t}
Session(t, u) == [token |-> t, user |-> u]

Init == open = {} /\ drawn = {} /\ begun = {}

Begin(t, u) ==
    /\ Draw(t) /\ begun' = begun \cup {t}
    /\ open' = open \cup {Session(t, u)}

Exchange(s, t) ==
    /\ Draw(t)
    /\ open' = (open \ {s}) \cup {Session(t, s.user)}
    /\ UNCHANGED begun

End(s) ==
    /\ open' = open \ {s}
    /\ UNCHANGED <<drawn, begun>>

Next ==
    \/ \E t \in Tokens, u \in Users : Begin(t, u)
    \/ \E s \in open : End(s) \/ \E t \in Tokens : Exchange(s, t)

Spec == Init /\ [][Next]_exchangeVars
==============================================================================
