----------------------------- MODULE OAuthTokens ------------------------------
(***************************************************************************)
(* Authorization codes, opaque access tokens and rotating refresh tokens,  *)
(* and the endpoints that issue, exchange and revoke them:                 *)
(* /oauth2/authorize, /oauth2/token and /oauth2/revoke.                    *)
(***************************************************************************)
EXTENDS SigningKeys

-----------------------------------------------------------------------------
(* GET /oauth2/authorize                                                    *)

PkceRequired(client, scope) ==
  clients[client].public \/ "offline_access" \in scope \/ clients[client].pkce

\* The consent row it also writes is read by nothing else.
Authorize(g, a) ==
  LET row == [client |-> a.client, user |-> UserOf[a.session], scope |-> a.scope,
              session |-> a.session, challenge |-> a.challenge,
              expiresAt |-> now + CodeTTL, root |-> g] IN
  /\ granted[g] = None
  /\ \A r \in Requests : config.suspends \/ ~InHandler(r)
  /\ clients[a.client] # None /\ a.session \in LiveSessions
  /\ PkceRequired(a.client, a.scope) => a.challenge
  /\ granted' = [granted EXCEPT ![g] = row]
  /\ codes' = [codes EXCEPT ![g] = row]
  /\ UNCHANGED <<provider, now, refresh, access, pc, call, held, signing, redeemed, tornDown>>

-----------------------------------------------------------------------------
(* POST /oauth2/token                                                       *)

\* What may be presented: a code that was handed out, a token that was issued.
Presentable(c) ==
  \/ c.op = "code" /\ c.token \in Grants /\ granted[c.token] # None
  \/ c.op # "code" /\ c.token \in Old
  \/ c.op # "code" /\ c.token \in Requests /\ pc[c.token] = "done"

\* The client exists and, unless it is public, its secret was presented.
Authenticated(c) == clients[c.client] # None /\ (clients[c.client].public \/ c.secret)

\* The scopes that only a user can give.
OfUsers == {"openid", "profile", "email", "offline_access"}

\* What client_credentials issues tokens for.
ForItself(c) ==
  [client |-> c.client, user |-> None, scope |-> IF c.scope = None THEN {} ELSE c.scope,
   session |-> None, expiresAt |-> now, root |-> None]

\* A client that is not authenticated, or disabled, gets no further.
Token(r, c) ==
  LET ok == Authenticated(c) /\ ~clients[c.client].disabled
      itself == /\ ok /\ c.op = "credentials" /\ c.secret
                /\ ~clients[c.client].public /\ ForItself(c).scope \cap OfUsers = {} IN
  /\ c.op \in {"code", "refresh", "credentials"}
  /\ c.op # "credentials" => Presentable(c)
  /\ At(r, "idle")
  /\ Cardinality({q \in Requests : pc[q] # "idle"}) < config.requests
  /\ call' = [call EXCEPT ![r] = c]
  /\ held' = [held EXCEPT ![r] = IF c.op = "credentials" THEN ForItself(c) ELSE None]
  /\ \/ itself /\ IssueTokens(r)
     \/ ok /\ c.op = "code" /\ Goto(r, "consume") /\ UNCHANGED signing
     \/ ok /\ c.op = "refresh" /\ Goto(r, "find") /\ UNCHANGED signing
     \/ ~ok /\ Goto(r, "done") /\ UNCHANGED signing
     \/ ok /\ c.op = "credentials" /\ ~itself /\ Goto(r, "done") /\ UNCHANGED signing
  /\ UNCHANGED <<provider, now, tables, history>>

\* Checked once the code is consumed: a failed exchange burns it.  Where a
\* challenge is required, or was given, its verifier must come, and only then.
CodeAccepted(r, row) ==
  /\ ~Expired(row) /\ row.client = Client(r) /\ call[r].redirect
  /\ PkceRequired(Client(r), row.scope) => row.challenge
  /\ call[r].verifier = IF row.challenge THEN "right" ELSE "none"

\* The code was taken from the table: the request goes on, or answers 400.
Exchange(r, row) ==
  IF CodeAccepted(r, row)
  THEN /\ IssueTokens(r)
       /\ held' = [held EXCEPT ![r] = row]
       /\ redeemed' = [redeemed EXCEPT ![row.root] = @ \cup {r}]
  ELSE Goto(r, "done") /\ UNCHANGED <<held, signing, redeemed>>

ConsumeCode(r) ==
  LET row == codes[call[r].token] IN
  /\ At(r, "consume")
  /\ config.atomic /\ row # None
  /\ Exchange(r, row)
  /\ codes' = [codes EXCEPT ![call[r].token] = None]
  /\ UNCHANGED <<provider, now, granted, refresh, access, call, tornDown>>

CodeNotFound(r) ==
  /\ At(r, "consume")
  /\ codes[call[r].token] = None
  /\ Goto(r, "done")
  /\ UNCHANGED <<provider, signing, now, history, tables, call, held>>

\* SQLAlchemy's consume_one: a SELECT, ...
SelectCode(r) ==
  LET row == codes[call[r].token] IN
  /\ At(r, "consume")
  /\ ~config.atomic /\ row # None
  /\ Goto(r, "remove")
  /\ held' = [held EXCEPT ![r] = row]
  /\ UNCHANGED <<provider, signing, now, granted, tables, call, redeemed, tornDown>>

\* ... and a DELETE.
RemoveCode(r) ==
  /\ At(r, "remove")
  /\ codes' = [codes EXCEPT ![call[r].token] = None]
  /\ Exchange(r, held[r])
  /\ UNCHANGED <<provider, now, granted, refresh, access, call, tornDown>>

\* The scope of the new tokens: the one asked for, or the granted one.
NewScope(r, row) == IF call[r].scope = None THEN row.scope ELSE call[r].scope

Renewed(r, row) ==
  [client |-> Client(r), user |-> row.user, scope |-> NewScope(r, row),
   session |-> row.session, expiresAt |-> now, root |-> row.root]

\* Mutant of FindRefresh: the scope asked for is not compared with the grant.
FindRefreshAnyScope(r) ==
  LET row == refresh[call[r].token]
      mine == row # None /\ row.client = Client(r) IN
  /\ At(r, "find")
  /\ \/ /\ ~mine
        /\ Goto(r, "done") /\ UNCHANGED held
     \/ /\ mine
        /\ held' = [held EXCEPT ![r] = Renewed(r, row)]
        /\ Goto(r, IF row.revoked THEN "tear-down"
                   ELSE IF Expired(row) THEN "done"
                   ELSE "rotate")
  /\ UNCHANGED <<provider, signing, now, granted, tables, call, redeemed, tornDown>>

\* The order of the checks matters: a token of another client tears nothing
\* down, a rotated one does even if it has expired.
FindRefresh(r) ==
  LET row == refresh[call[r].token]
      mine == row # None /\ row.client = Client(r)
      widens == ~(NewScope(r, row) \subseteq row.scope) IN
  /\ At(r, "find")
  /\ \/ /\ ~mine
        /\ Goto(r, "done") /\ UNCHANGED held
     \/ /\ mine
        /\ held' = [held EXCEPT ![r] = Renewed(r, row)]
        /\ Goto(r, IF row.revoked THEN "tear-down"
                   ELSE IF Expired(row) \/ widens THEN "done"
                   ELSE "rotate")
  /\ UNCHANGED <<provider, signing, now, granted, tables, call, redeemed, tornDown>>

\* The update matches nothing, silently, if the row is gone by now.
Rotate(r) ==
  LET n == call[r].token IN
  /\ At(r, "rotate")
  /\ IssueTokens(r)
  /\ refresh' = IF refresh[n] = None THEN refresh
                ELSE [refresh EXCEPT ![n].revoked = TRUE]
  /\ UNCHANGED <<provider, now, history, codes, access, call, held>>

\* The refresh tokens of the client and the user of a row.
Family(row) ==
  {n \in Names : refresh[n] # None /\ refresh[n].client = row.client
                                   /\ refresh[n].user = row.user}

DropRefreshTokens(S) == refresh' = [n \in Names |-> IF n \in S THEN None ELSE refresh[n]]

\* _invalidate_refresh_family
TearDown(r) ==
  /\ At(r, "tear-down")
  /\ Goto(r, "done")
  /\ tornDown' = tornDown \cup {refresh[n].root : n \in Family(held[r])}
  /\ DropRefreshTokens(Family(held[r]))
  /\ UNCHANGED <<provider, signing, now, granted, codes, access, call, held, redeemed>>

\* An opaque access token.
IssueAccess(r) ==
  /\ At(r, "access")
  /\ ThenRefresh(r, held[r])
  /\ access' = [access EXCEPT ![r] =
       [client |-> Client(r), user |-> held[r].user, scope |-> held[r].scope,
        session |-> held[r].session, expiresAt |-> now + AccessTTL, root |-> held[r].root]]
  /\ UNCHANGED <<provider, now, history, codes, refresh, call, held>>

\* The refresh token of a user.
Refreshing(r, user) ==
  [client |-> Client(r), user |-> user, scope |-> held[r].scope, session |-> held[r].session,
   expiresAt |-> now + RefreshTTL, root |-> held[r].root, revoked |-> FALSE]

\* Mutant of MintRefresh: the row does not say whose it is.
MintRefreshUnowned(r) ==
  /\ At(r, "mint")
  /\ ThenIdToken(r, held[r])
  /\ refresh' = [refresh EXCEPT ![r] = Refreshing(r, None)]
  /\ UNCHANGED <<provider, now, history, codes, access, call, held>>

MintRefresh(r) ==
  /\ At(r, "mint")
  /\ ThenIdToken(r, held[r])
  /\ refresh' = [refresh EXCEPT ![r] = Refreshing(r, held[r].user)]
  /\ UNCHANGED <<provider, now, history, codes, access, call, held>>

-----------------------------------------------------------------------------
(* POST /oauth2/revoke                                                      *)

\* The client is authenticated; whether it is disabled is not looked at.
Revoke(r, c) ==
  /\ c.op = "revoke" /\ Presentable(c)
  /\ BeginWith(r, c)
  /\ Goto(r, IF Authenticated(c) THEN "classify" ELSE "done")
  /\ UNCHANGED signing

\* The row of an opaque access token, one that expires now excluded.
Opaque(c) ==
  /\ c.kind = "access_token"
  /\ access[c.token] # None /\ access[c.token].expiresAt > now

\* _is_access_token: any token that we signed is one, an ID token included.
Signed(c) == c.kind \in SignedKinds /\ c.token \in Requests /\ Verifies(c.kind, c.token)
IsAccessToken(c) == Signed(c) \/ Opaque(c)

\* A hint that contradicts what the token is gets an error.
Classify(r) ==
  LET contrary == IF IsAccessToken(call[r]) THEN "refresh_token" ELSE "access_token" IN
  /\ At(r, "classify")
  /\ Goto(r, IF call[r].hint = contrary THEN "done" ELSE "drop-refresh")
  /\ UNCHANGED <<provider, signing, now, history, tables, call, held>>

DropRefresh(r) ==
  /\ At(r, "drop-refresh")
  /\ Goto(r, "drop-access")
  /\ DropRefreshTokens({n \in {call[r].token} :
       /\ call[r].kind = "refresh_token"
       /\ refresh[n] # None /\ refresh[n].client = Client(r)})
  /\ UNCHANGED <<provider, signing, now, history, codes, access, call, held>>

DropAccess(r) ==
  LET n == call[r].token IN
  /\ At(r, "drop-access")
  /\ Goto(r, "done")
  /\ access' = [m \in Names |->
       IF /\ m = n /\ call[r].kind = "access_token"
          /\ access[m] # None /\ access[m].client = Client(r)
       THEN None ELSE access[m]]
  /\ UNCHANGED <<provider, signing, now, history, codes, refresh, call, held>>

Grant(r) ==
  \/ ConsumeCode(r) \/ CodeNotFound(r) \/ SelectCode(r) \/ RemoveCode(r)
  \/ FindRefresh(r) \/ Rotate(r) \/ TearDown(r)
  \/ IssueAccess(r) \/ MintRefresh(r)
  \/ Classify(r) \/ DropRefresh(r) \/ DropAccess(r)
=============================================================================
