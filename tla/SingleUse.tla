------------------------------ MODULE SingleUse ------------------------------
(***************************************************************************)
(* What kernia promises about a one-time token (e-mail verification,       *)
(* password reset, magic link, one-time token, authorization code): a live *)
(* token is claimed by one request, "first racer wins" (kernia/db/         *)
(* with_hooks.py), and only the request that claimed it may act on it.     *)
(* The claim ends in a redemption or is abandoned (expired, wrong          *)
(* endpoint, no such user); either way the token is spent for good.        *)
(***************************************************************************)
CONSTANTS Tokens, Requests, NoRequest

VARIABLES
  phase,      \* phase[t]: where token t is in its life
  holder,     \* holder[t]: the request that claimed t, or NoRequest
  redeemers   \* redeemers[t]: the requests that acted on t

vars == <<phase, holder, redeemers>>

Phases == {"unissued", "live", "claimed", "spent"}

TypeOK ==
  /\ phase \in [Tokens -> Phases]
  /\ holder \in [Tokens -> Requests \cup {NoRequest}]
  /\ redeemers \in [Tokens -> SUBSET Requests]

Init ==
  /\ phase = [t \in Tokens |-> "unissued"]
  /\ holder = [t \in Tokens |-> NoRequest]
  /\ redeemers = [t \in Tokens |-> {}]

Issue(t) ==
  /\ phase[t] = "unissued"
  /\ phase' = [phase EXCEPT ![t] = "live"]
  /\ UNCHANGED <<holder, redeemers>>

Claim(t, r) ==
  /\ phase[t] = "live"
  /\ phase' = [phase EXCEPT ![t] = "claimed"]
  /\ holder' = [holder EXCEPT ![t] = r]
  /\ UNCHANGED redeemers

Redeem(t, r) ==
  /\ phase[t] = "claimed"
  /\ holder[t] = r
  /\ phase' = [phase EXCEPT ![t] = "spent"]
  /\ holder' = [holder EXCEPT ![t] = NoRequest]
  /\ redeemers' = [redeemers EXCEPT ![t] = @ \cup {r}]

Abandon(t, r) ==
  /\ phase[t] = "claimed"
  /\ holder[t] = r
  /\ phase' = [phase EXCEPT ![t] = "spent"]
  /\ holder' = [holder EXCEPT ![t] = NoRequest]
  /\ UNCHANGED redeemers

Next ==
  \E t \in Tokens :
    \/ Issue(t)
    \/ \E r \in Requests : Claim(t, r) \/ Redeem(t, r) \/ Abandon(t, r)

Spec == Init /\ [][Next]_vars
=============================================================================
