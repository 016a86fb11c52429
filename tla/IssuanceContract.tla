-------------------------- MODULE IssuanceContract --------------------------
(***************************************************************************)
(* What a wallet may rely on when it redeems a credential offer: the code  *)
(* is worth one token, each further token replaces exactly the one in use, *)
(* a replaced token never comes back, and credentials are handed out only  *)
(* after a grant.                                                          *)
(***************************************************************************)
CONSTANTS Tokens, Deliveries, NoToken

VARIABLES
    current,    \* the token in use
    spent,      \* the tokens that were replaced
    delivered   \* the requests answered with a credential

vars == <<current, spent, delivered>>

(* The promise begins with an open offer, or with a token that was granted *)
(* and used before.                                                        *)
Init ==
    /\ current \in Tokens \cup {NoToken}
    /\ spent = {}
    /\ delivered \in SUBSET Deliveries
    /\ current = NoToken => delivered = {}

Redeem(t) ==
    /\ current = NoToken
    /\ current' = t
    /\ UNCHANGED <<spent, delivered>>

Rotate(t) ==
    /\ current # NoToken
    /\ t \notin spent \cup {current}
    /\ current' = t
    /\ spent' = spent \cup {current}
    /\ UNCHANGED delivered

Deliver(d) ==
    /\ current # NoToken
    /\ d \notin delivered
    /\ delivered' = delivered \cup {d}
    /\ UNCHANGED <<current, spent>>

Next ==
    \/ \E t \in Tokens : Redeem(t) \/ Rotate(t)
    \/ \E d \in Deliveries : Deliver(d)

Spec == Init /\ [][Next]_vars

============================================================================
