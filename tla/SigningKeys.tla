----------------------------- MODULE SigningKeys ------------------------------
(***************************************************************************)
(* The jwt plugin: the keys that tokens are signed with, their rotation,   *)
(* by age or by POST /jwks/rotate, their publication at GET /jwks, and     *)
(* GET /token, which signs a token for the caller's session.               *)
(***************************************************************************)
EXTENDS OAuthState

\* What a token signed with k says; the session token has no provider claims.
\* A lifetime that is a number is taken for the time of expiry itself.
Claims(r, k) ==
  IF signing[r] = "session_token"
  THEN [key |-> k, client |-> None, scope |-> {}, sid |-> None, root |-> None,
        user |-> UserOf[call[r].session],
        expiresAt |-> IF config.seconds THEN TokenTTL ELSE now + TokenTTL]
  ELSE [key |-> k, client |-> held[r].client, user |-> held[r].user,
        scope |-> IF signing[r] = "access_token" THEN held[r].scope ELSE {},
        sid |-> IF signing[r] = "access_token" \/ clients[held[r].client].logout
                THEN held[r].session ELSE None,
        root |-> held[r].root, expiresAt |-> now + AccessTTL]

\* What the request needed the key for: issue_jwt, /token, /jwks, rotate.
UseKey(r, k) ==
  \/ /\ signing[r] \in SignedKinds
     /\ jwts' = [jwts EXCEPT ![signing[r]][r] = Claims(r, k)]
     /\ \/ signing[r] = "access_token" /\ ThenRefresh(r, held[r])
        \/ signing[r] = "id_token" /\ Goto(r, "done") /\ UNCHANGED signing
        \/ signing[r] = "session_token" /\ NeedKey(r, "kid")
     /\ UNCHANGED told
  \/ /\ signing[r] = "jwks"
     /\ Goto(r, "publish")
     /\ UNCHANGED <<jwts, signing, told>>
  \/ /\ signing[r] \in {"kid", "rotate"}
     /\ Goto(r, "done")
     /\ Said(r, TRUE, None, None, {k})
     /\ UNCHANGED <<jwts, signing>>

Rows == {k \in KeyNames : keys[k] # None}
Active == {k \in Rows : keys[k].active}
Newest == {k \in Active : \A j \in Active : keys[j].createdAt <= keys[k].createdAt}
Age(k) == now - keys[k].createdAt

\* Mutant of Due: the age of the key is not looked at.
DueNever(k) == FALSE

\* Whether a fresh key is to be made instead of k.
Due(k) == config.rotates /\ Age(k) >= RotationInterval

\* _get_active_key: the newest active key, unless there is none or it is due.
FindKey(r) ==
  /\ At(r, "find-key")
  /\ \/ /\ \A k \in Newest : Due(k)
        /\ Goto(r, "create-key")
        /\ UNCHANGED <<jwts, signing, told>>
     \/ \E k \in Newest : ~Due(k) /\ UseKey(r, k)
  /\ UNCHANGED <<config, clients, sessions, keys, now, history, tables, call, held>>

CreateKey(r) ==
  LET k == <<r, signing[r]>> IN
  /\ At(r, "create-key")
  /\ keys' = [keys EXCEPT ![k] = [createdAt |-> now, active |-> TRUE]]
  /\ UseKey(r, k)
  /\ UNCHANGED <<config, clients, sessions, now, history, tables, call, held>>

-----------------------------------------------------------------------------
BeginWith(r, c) ==
  /\ At(r, "idle")
  /\ Cardinality({q \in Requests : pc[q] # "idle"}) < config.requests
  /\ call' = [call EXCEPT ![r] = c]
  /\ UNCHANGED <<provider, now, history, tables, held>>

\* GET /token signs, and then reads the active key once more for its id.
GetToken(r, c) ==
  /\ c.op = "get-token" /\ c.session \in LiveSessions
  /\ BeginWith(r, c)
  /\ NeedKey(r, "session_token")

\* POST /jwks/rotate: the service token will do, and so will any session.
RotateKeys(r, c) ==
  /\ c.op = "rotate" /\ (c.secret \/ c.session \in LiveSessions)
  /\ BeginWith(r, c)
  /\ Goto(r, "retire-keys")
  /\ signing' = [signing EXCEPT ![r] = "rotate"]

RetireKeys(r) ==
  /\ At(r, "retire-keys")
  /\ Goto(r, "create-key")
  /\ keys' = [k \in KeyNames |->
       IF k \in Active THEN [keys[k] EXCEPT !.active = FALSE] ELSE keys[k]]
  /\ UNCHANGED <<config, clients, sessions, jwts, told, now, history, tables,
                 call, held, signing>>

\* Keys are published until they are past the interval and the grace period.
Published ==
  {k \in Rows : config.rotates => Age(k) <= RotationInterval + GracePeriod}

GetJwks(r, c) ==
  /\ c.op = "jwks"
  /\ BeginWith(r, c)
  /\ Goto(r, "list-keys")
  /\ UNCHANGED signing

\* GET /jwks makes a key if there is none, and lists the keys again.
ListKeys(r) ==
  /\ At(r, "list-keys") \/ At(r, "publish")
  /\ IF Rows = {} /\ At(r, "list-keys")
     THEN NeedKey(r, "jwks") /\ UNCHANGED told
     ELSE Goto(r, "done") /\ Said(r, TRUE, None, None, Published) /\ UNCHANGED signing
  /\ UNCHANGED <<config, clients, sessions, keys, jwts, now, history, tables,
                 call, held>>

\* verify_local_jwt: published or not, the key of a token is enough.
Verifies(kind, r) ==
  /\ jwts[kind][r] # None
  /\ jwts[kind][r].key \in Rows
  /\ jwts[kind][r].expiresAt >= now
=============================================================================
