------------------------------ MODULE OAuthState ------------------------------
(***************************************************************************)
(* The OAuth provider and the keys it signs with: constants, tables and    *)
(* what SigningKeys, OAuthTokens and OpenIdProvider have in common.        *)
(*                                                                         *)
(* As in VerificationTokens an action is one adapter call with the code up *)
(* to the next.  An adapter call may also fail, which ends the request     *)
(* with a 500 and takes nothing back: no handler uses a transaction.       *)
(*   memory      suspends = FALSE, atomic = TRUE                           *)
(*   MongoDB     suspends = TRUE,  atomic = TRUE                           *)
(*   SQLAlchemy  suspends = TRUE,  atomic = FALSE                          *)
(* A token is named by the request that minted it, or by a grant that was  *)
(* redeemed before the start; tokens are random and stored hashed.         *)
(***************************************************************************)
EXTENDS Naturals, FiniteSets

CONSTANTS
  Requests,    \* calls of the endpoints; each is made once
  Grants,      \* authorizations a user gives, each with one code
  Old,         \* the grants among them that were redeemed before the start
  OldClient, OldSession,  \* whose they are
  Clients,     \* clients, which authenticate with their own credentials
  Sessions,
  Users, UserOf,  \* UserOf[s]: whose session s is
  Scopes,      \* the scopes a client may ask for
  Configs,     \* the configurations that are looked at
  CodeTTL, RefreshTTL, AccessTTL, SessionTTL,
  TokenTTL,    \* jwt: expiration_time, by default access_token_ttl
  RotationInterval, GracePeriod,
  Epoch,       \* the time at the start
  None

Names == Requests \cup Grants

\* What a call presents: `token` names it and `kind` says what it really is,
\* `hint` what the call says it is.  `secret` says whether the client secret
\* (or the service token of /jwks/rotate) is right, `redirect` whether the
\* redirect URI, or the metadata of a registration, is, and `verifier` whether
\* the code verifier is.  `scope` is the parameter, None if it is left out.
Kinds == {"access_token", "refresh_token", "id_token", "session_token"}
Call == [op : {"code", "refresh", "credentials", "revoke", "register", "create-client",
               "userinfo", "introspect", "end-session", "get-token", "rotate", "jwks"},
         client : Clients, secret : BOOLEAN, session : Sessions \cup {None},
         token : Names, kind : Kinds, hint : {"none", "access_token", "refresh_token"},
         redirect : BOOLEAN, verifier : {"none", "right", "wrong"},
         scope : {None} \cup SUBSET Scopes, public : BOOLEAN, pkce : BOOLEAN, logout : BOOLEAN]

\* What a user agrees to; `challenge`: a PKCE challenge is given.
Authorization == [client : Clients, session : Sessions, scope : SUBSET Scopes,
                  challenge : BOOLEAN]

\* A row of oauthClient; `invited` is history: an administrator's code made it.
ClientRow == [public : BOOLEAN, pkce : BOOLEAN, disabled : BOOLEAN,
              logout : BOOLEAN, invited : BOOLEAN]

\* suspends: an adapter call may suspend the handler
\* atomic:   consume_one is one indivisible database operation
\* jwt:      access tokens are signed and not stored
\* rotates:  jwt: rotation_interval and grace_period are set
\* seconds:  jwt: expiration_time is a number, as it is by default
\* clients:  the clients there are at the start
\* asked:    the authorizations that are looked at
\* calls:    the calls of the endpoints that are looked at
\* requests: how many of them are made
\* leaving:  the sessions that may end at any time
\* ticks:    bound on the clock
Config == [suspends : BOOLEAN, atomic : BOOLEAN, jwt : BOOLEAN, rotates : BOOLEAN,
           seconds : BOOLEAN, clients : [Clients -> ClientRow \cup {None}],
           asked : SUBSET Authorization, calls : SUBSET Call, requests : Nat,
           leaving : SUBSET Sessions, ticks : Nat]

ASSUME ConstantsAssumption ==
  /\ Configs \subseteq Config
  /\ Old \subseteq Grants
  /\ Requests \cap Grants = {}
  /\ UserOf \in [Sessions -> Users]
  /\ OldClient \in [Old -> Clients] /\ OldSession \in [Old -> Sessions]
  /\ "offline_access" \in Scopes
  /\ {CodeTTL, RefreshTTL, AccessTTL, SessionTTL, TokenTTL, RotationInterval,
      GracePeriod, Epoch} \subseteq Nat
  /\ TokenTTL < Epoch
  \* The clients there are at the start got their privileges as later ones do.
  /\ \A cfg \in Configs, c \in Clients :
       cfg.clients[c] # None /\ cfg.clients[c].logout => cfg.clients[c].invited

\* What a user agreed to, and from which session; `root` is the grant a token
\* goes back to, or None for the tokens of client_credentials.
CodeRow  == [client : Clients, user : Users, scope : SUBSET Scopes, session : Sessions,
             challenge : BOOLEAN, expiresAt : Nat, root : Grants]
TokenRow == [client : Clients, user : Users \cup {None}, scope : SUBSET Scopes,
             session : Sessions \cup {None}, expiresAt : Nat, root : Grants \cup {None}]
RefreshRow == [client : Clients, user : Users, scope : SUBSET Scopes, session : Sessions,
               expiresAt : Nat, root : Grants, revoked : BOOLEAN]

\* A key is named by the request that made it and by what for.
SignedKinds == Kinds \ {"refresh_token"}
Purposes == SignedKinds \cup {"kid", "jwks", "rotate"}
KeyNames == Requests \X Purposes
KeyRow == [createdAt : Nat, active : BOOLEAN]

\* A signed token, with the claims some endpoint reads.
Jwt == [key : KeyNames, expiresAt : Nat, client : Clients \cup {None},
        user : Users \cup {None}, scope : SUBSET Scopes,
        sid : Sessions \cup {None}, root : Grants \cup {None}]

\* What userinfo, introspect, jwks and rotate answer.
Answer == [active : BOOLEAN, user : Users \cup {None}, sid : Sessions \cup {None},
           keys : SUBSET KeyNames]

ASSUME NoneAssumption ==
  None \notin CodeRow \cup TokenRow \cup RefreshRow \cup Call \cup Users \cup Grants
              \cup Clients \cup Sessions \cup ClientRow \cup KeyRow \cup Jwt \cup Answer

VARIABLES
  config, now,
  clients,    \* clients[c]: the client row, or None
  sessions,   \* the session rows there are
  granted,    \* granted[g]: what grant g was given for, or None (history)
  codes,      \* codes[g]: the authorization code row, or None
  refresh,    \* refresh[n]: the refresh token row, or None
  access,     \* access[n]: the access token row, or None
  keys,       \* keys[k]: the key row, or None
  jwts,       \* jwts[kind][r]: the token that request r signed, or None
  pc, call,
  held,       \* held[r]: what request r is to issue tokens for, or tear down
  signing,    \* signing[r]: what request r needs a key for
  told,       \* told[r]: what request r answered, or None (history)
  redeemed,   \* redeemed[g]: requests that redeemed the code of g (history)
  tornDown    \* grants whose refresh tokens were torn down (history)

tables == <<codes, refresh, access>>
provider == <<config, clients, sessions, keys, jwts, told>>
history == <<granted, redeemed, tornDown>>
vars == <<provider, now, history, tables, pc, call, held, signing>>

PCs == {"idle", "consume", "remove", "find", "rotate", "tear-down", "access", "mint",
        "classify", "drop-refresh", "drop-access", "insert-client", "load-token",
        "load-session", "end-session", "find-key", "create-key", "retire-keys",
        "list-keys", "publish", "done"}

-----------------------------------------------------------------------------
InHandler(r) == pc[r] \notin {"idle", "done"}

\* Without suspension a handler that has started runs before any other.
Scheduled(r) == config.suspends \/ \A q \in Requests \ {r} : ~InHandler(q)

At(r, at) == pc[r] = at /\ Scheduled(r)
Goto(r, to) == pc' = [pc EXCEPT ![r] = to]

Op(r) == call[r].op
Client(r) == call[r].client
Expired(row) == row.expiresAt < now
Live(n) == refresh[n] # None /\ ~refresh[n].revoked

\* The session rows that requests authenticate with.
LiveSessions == IF now <= Epoch + SessionTTL THEN sessions ELSE {}

Said(r, active, user, sid, ks) ==
  told' = [told EXCEPT ![r] = [active |-> active, user |-> user, sid |-> sid, keys |-> ks]]

-----------------------------------------------------------------------------
(* _issue_tokens: an access token, then a refresh token if offline_access   *)
(* was asked for, then an ID token if a user asked for openid.              *)

NeedKey(r, purpose) ==
  /\ Goto(r, "find-key")
  /\ signing' = [signing EXCEPT ![r] = purpose]

ThenIdToken(r, row) ==
  IF "openid" \in row.scope /\ row.root # None
  THEN NeedKey(r, "id_token")
  ELSE Goto(r, "done") /\ UNCHANGED signing

ThenRefresh(r, row) ==
  IF "offline_access" \in row.scope
  THEN Goto(r, "mint") /\ UNCHANGED signing
  ELSE ThenIdToken(r, row)

IssueTokens(r) ==
  IF config.jwt
  THEN NeedKey(r, "access_token")
  ELSE Goto(r, "access") /\ UNCHANGED signing
=============================================================================
