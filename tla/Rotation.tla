------------------------------ MODULE Rotation ------------------------------
(***************************************************************************)
(* What refresh-token rotation promises, without rows, users or time.      *)
(* Every live token belongs to a family.  A request claims a family by     *)
(* finding one of its tokens live, and may later exchange the claim for    *)
(* one new token of that family, even if the family was retired in the     *)
(* meantime.  A retired token never comes back.                            *)
(***************************************************************************)
CONSTANTS Tokens, Reqs, NoToken

VARIABLES
    born,   \* tokens that were ever issued
    live,   \* the family of each live token, NoToken for any other token
    claim   \* the family that a request has claimed, or NoToken

vars == <<born, live, claim>>

Init ==
    /\ born = {}
    /\ live = [t \in Tokens |-> NoToken]
    /\ claim = [r \in Reqs |-> NoToken]

\* A login founds a family.
Open(t) ==
    /\ t \notin born
    /\ born' = born \cup {t}
    /\ live' = [live EXCEPT ![t] = t]
    /\ UNCHANGED claim

\* A refresh finds the token it was given live.
Claim(r, t) ==
    /\ claim[r] = NoToken
    /\ live[t] # NoToken
    /\ claim' = [claim EXCEPT ![r] = live[t]]
    /\ UNCHANGED <<born, live>>

\* The claim buys one token that was never issued before.
Exchange(r, t) ==
    /\ claim[r] # NoToken
    /\ t \notin born
    /\ born' = born \cup {t}
    /\ live' = [live EXCEPT ![t] = claim[r]]
    /\ claim' = [claim EXCEPT ![r] = NoToken]

\* The request gives up.
Release(r) ==
    /\ claim[r] # NoToken
    /\ claim' = [claim EXCEPT ![r] = NoToken]
    /\ UNCHANGED <<born, live>>

\* Rotation, logout, reuse detection, cleanup or the removal of a user.
Retire(S) ==
    /\ live' = [t \in Tokens |-> IF t \in S THEN NoToken ELSE live[t]]
    /\ UNCHANGED <<born, claim>>

Next ==
    \/ \E t \in Tokens : Open(t)
    \/ \E r \in Reqs :
          \/ \E t \in Tokens : Claim(r, t) \/ Exchange(r, t)
          \/ Release(r)
    \/ \E S \in SUBSET Tokens : Retire(S)

Spec == Init /\ [][Next]_vars

=============================================================================
