---------------------------- MODULE OpenIdProvider ----------------------------
(***************************************************************************)
(* The whole provider: registration of clients, /oauth2/userinfo,          *)
(* /oauth2/introspect and /oauth2/end-session, together with OAuthTokens   *)
(* and SigningKeys, and what they promise.                                 *)
(***************************************************************************)
EXTENDS OAuthTokens

TypeOK ==
  /\ config \in Configs
  /\ now \in Epoch .. Epoch + config.ticks
  /\ clients \in [Clients -> ClientRow \cup {None}]
  /\ sessions \subseteq Sessions
  /\ granted \in [Grants -> CodeRow \cup {None}]
  /\ codes \in [Grants -> CodeRow \cup {None}]
  /\ refresh \in [Names -> RefreshRow \cup {None}]
  /\ access \in [Names -> TokenRow \cup {None}]
  /\ keys \in [KeyNames -> KeyRow \cup {None}]
  /\ jwts \in [SignedKinds -> [Requests -> Jwt \cup {None}]]
  /\ pc \in [Requests -> PCs]
  /\ call \in [Requests -> Call \cup {None}]
  /\ held \in [Requests -> TokenRow \cup CodeRow \cup {None}]
  /\ signing \in [Requests -> Purposes \cup {None}]
  /\ told \in [Requests -> Answer \cup {None}]
  /\ redeemed \in [Grants -> SUBSET Requests]
  /\ tornDown \subseteq Grants

\* The grants of Old have a refresh token with every scope, and no code.
OldGrant(g) ==
  [client |-> OldClient[g], user |-> UserOf[OldSession[g]], scope |-> Scopes,
   session |-> OldSession[g], challenge |-> TRUE, expiresAt |-> Epoch, root |-> g]

OldRefresh(g) ==
  [client |-> OldClient[g], user |-> UserOf[OldSession[g]], scope |-> Scopes,
   session |-> OldSession[g], expiresAt |-> Epoch + RefreshTTL, root |-> g,
   revoked |-> FALSE]

Init ==
  /\ config \in Configs
  /\ now = Epoch
  /\ clients = config.clients
  /\ sessions = Sessions
  /\ granted = [g \in Grants |-> IF g \in Old THEN OldGrant(g) ELSE None]
  /\ codes = [g \in Grants |-> None]
  /\ refresh = [n \in Names |-> IF n \in Old THEN OldRefresh(n) ELSE None]
  /\ access = [n \in Names |-> None]
  /\ keys = [k \in KeyNames |-> None]
  /\ jwts = [kind \in SignedKinds |-> [r \in Requests |-> None]]
  /\ pc = [r \in Requests |-> "idle"]
  /\ call = [r \in Requests |-> None]
  /\ held = [r \in Requests |-> None]
  /\ signing = [r \in Requests |-> None]
  /\ told = [r \in Requests |-> None]
  /\ redeemed = [g \in Grants |-> {}]
  /\ tornDown = {}

-----------------------------------------------------------------------------
(* POST /oauth2/register, and create_client, which an administrator's code  *)
(* calls                                                                    *)

\* Registration is refused if the metadata contradict each other.
Register(r, c) ==
  /\ c.op \in {"register", "create-client"}
  /\ clients[c.client] = None
  /\ BeginWith(r, c)
  /\ Goto(r, IF c.redirect THEN "insert-client" ELSE "done")
  /\ UNCHANGED signing

NewClient(c) ==
  [public |-> c.public, pkce |-> c.pkce, disabled |-> FALSE, logout |-> c.logout,
   invited |-> c.op = "create-client"]

\* Mutant of Metadata: what the client asks for is stored as it is.
MetadataAsGiven(c) == NewClient(c)

\* A client that registers itself may not have the privilege to end sessions.
Metadata(c) ==
  IF c.op = "register" THEN [NewClient(c) EXCEPT !.logout = FALSE] ELSE NewClient(c)

InsertClient(r) ==
  /\ At(r, "insert-client")
  /\ Goto(r, "done")
  /\ clients' = [clients EXCEPT ![Client(r)] =
       IF @ = None THEN Metadata(call[r]) ELSE @]
  /\ UNCHANGED <<config, sessions, keys, jwts, told, now, history, tables,
                 call, held, signing>>

-----------------------------------------------------------------------------
(* GET /oauth2/userinfo, POST /oauth2/introspect                            *)

UserInfo(r, c) ==
  /\ c.op = "userinfo" /\ Presentable(c)
  /\ BeginWith(r, c)
  /\ Goto(r, "load-token")
  /\ UNCHANGED signing

\* Only a client with a secret may ask, but then about any client's tokens.
Introspect(r, c) ==
  /\ c.op = "introspect" /\ Presentable(c)
  /\ BeginWith(r, c)
  /\ Goto(r, IF Authenticated(c) /\ ~clients[c.client].public THEN "load-token" ELSE "done")
  /\ UNCHANGED signing

\* The claims of a presented access token, signed or not; `sid` names its session.
Presented(c) ==
  IF Signed(c) THEN jwts[c.kind][c.token]
  ELSE LET row == access[c.token] IN
       [client |-> row.client, user |-> row.user, scope |-> row.scope,
        sid |-> row.session, root |-> row.root]

\* Without the openid scope, or a token, there is no answer; client tokens
\* have no user.
LoadUserInfo(r) ==
  LET c == call[r]
      ok == IsAccessToken(c) /\ "openid" \in Presented(c).scope IN
  /\ At(r, "load-token") /\ Op(r) = "userinfo"
  /\ Goto(r, "done")
  /\ IF ok THEN Said(r, TRUE, Presented(c).user, None, {}) ELSE UNCHANGED told
  /\ UNCHANGED <<config, clients, sessions, keys, jwts, now, history, tables,
                 call, held, signing>>

\* A refresh token that is active: one that expires now is not.
Refreshable(c) ==
  /\ c.kind = "refresh_token"
  /\ Live(c.token) /\ refresh[c.token].expiresAt > now

\* The hint decides which kind of token is looked for.
Introspected(c) ==
  IF c.hint # "refresh_token" /\ IsAccessToken(c) THEN "access_token"
  ELSE IF c.hint # "access_token" /\ Refreshable(c) THEN "refresh_token"
  ELSE "none"

SessionOf(c) ==
  IF Introspected(c) = "access_token" THEN Presented(c).sid
  ELSE refresh[c.token].session

\* The token is active, and its session is looked up, or it is not.
LoadIntrospected(r) ==
  LET kind == Introspected(call[r]) IN
  /\ At(r, "load-token") /\ Op(r) = "introspect"
  /\ \/ /\ kind # "none" /\ SessionOf(call[r]) # None
        /\ Goto(r, "load-session")
        /\ Said(r, TRUE, None, SessionOf(call[r]), {})
     \/ /\ kind # "none" /\ SessionOf(call[r]) = None
        /\ Goto(r, "done")
        /\ Said(r, TRUE, None, None, {})
     \/ /\ kind = "none"
        /\ Goto(r, "done")
        /\ Said(r, FALSE, None, None, {})
  /\ UNCHANGED <<config, clients, sessions, keys, jwts, now, history, tables,
                 call, held, signing>>

\* The session is only shown if it is there and has not expired.
LoadSession(r) ==
  LET sid == told[r].sid IN
  /\ At(r, "load-session")
  /\ Goto(r, "done")
  /\ Said(r, TRUE, None, IF sid \in LiveSessions THEN sid ELSE None, {})
  /\ UNCHANGED <<config, clients, sessions, keys, jwts, now, history, tables,
                 call, held, signing>>

-----------------------------------------------------------------------------
(* GET /oauth2/end-session                                                  *)

\* id_token_hint may be any token we signed that names a session, for a client
\* that may end sessions.
EndSession(r, c) ==
  LET ok == /\ Signed(c)
            /\ jwts[c.kind][c.token].client # None
            /\ clients[jwts[c.kind][c.token].client].logout
            /\ jwts[c.kind][c.token].sid # None IN
  /\ c.op = "end-session" /\ Presentable(c)
  /\ BeginWith(r, c)
  /\ Goto(r, IF ok THEN "end-session" ELSE "done")
  /\ UNCHANGED signing

\* Before the redirect URI is looked at: an unregistered one is refused later.
DeleteSession(r) ==
  /\ At(r, "end-session")
  /\ Goto(r, "done")
  /\ sessions' = sessions \ {jwts[call[r].kind][call[r].token].sid}
  /\ UNCHANGED <<config, clients, keys, jwts, told, now, history, tables,
                 call, held, signing>>

-----------------------------------------------------------------------------
\* The user signs out, or an administrator revokes the session.
RevokeSession(s) ==
  /\ \A r \in Requests : config.suspends \/ ~InHandler(r)
  /\ sessions' = sessions \ {s}
  /\ UNCHANGED <<config, clients, keys, jwts, told, now, history, tables,
                 pc, call, held, signing>>

\* An adapter call raises.
Fail(r) ==
  /\ InHandler(r) /\ Scheduled(r)
  /\ Goto(r, "done")
  /\ told' = [told EXCEPT ![r] = None]
  /\ UNCHANGED <<config, clients, sessions, keys, jwts, now, history, tables,
                 call, held, signing>>

Tick ==
  /\ now < Epoch + config.ticks
  /\ now' = now + 1
  /\ UNCHANGED <<provider, history, tables, pc, call, held, signing>>

Begin(r, c) ==
  \/ Token(r, c) \/ Revoke(r, c)
  \/ GetToken(r, c) \/ RotateKeys(r, c) \/ GetJwks(r, c)
  \/ Register(r, c) \/ UserInfo(r, c) \/ Introspect(r, c) \/ EndSession(r, c)

Handle(r) ==
  \/ Grant(r)
  \/ FindKey(r) \/ CreateKey(r) \/ RetireKeys(r) \/ ListKeys(r)
  \/ InsertClient(r) \/ LoadUserInfo(r) \/ LoadIntrospected(r) \/ LoadSession(r)
  \/ DeleteSession(r)

Next ==
  \/ Tick
  \/ \E g \in Grants, a \in config.asked : Authorize(g, a)
  \/ \E r \in Requests : Handle(r) \/ Fail(r)
  \/ \E r \in Requests : \E c \in config.calls : Begin(r, c)
  \/ \E s \in sessions \cap config.leaving : RevokeSession(s)

Spec == Init /\ [][Next]_vars

-----------------------------------------------------------------------------
(* Properties                                                               *)

\* The scope that token n was issued with.
ScopeOf(n) == IF n \in Requests THEN held[n].scope ELSE granted[n].scope

\* The access and refresh tokens that n stands for, stored or signed.
TokensOf(n) ==
  {refresh[n], access[n]} \cup (IF n \in Requests THEN {jwts["access_token"][n]} ELSE {})

\* No chain of exchanges and refreshes, of any clients, gives a token more
\* than its user granted, another client or user or a wider scope, nor a scope
\* back that a refresh before it gave up; and /oauth2/userinfo tells about
\* nobody who did not agree to it.
NothingWidens ==
  /\ \A n \in Names : \A row \in TokensOf(n) \ {None} :
       row.root # None =>
         /\ granted[row.root].client = row.client
         /\ granted[row.root].user = row.user
         /\ row.scope \subseteq granted[row.root].scope
         /\ n \in Requests /\ Op(n) = "refresh" =>
              row.scope \subseteq ScopeOf(call[n].token)
  /\ \A r \in Requests :
       told[r] # None /\ told[r].user # None =>
         \E g \in Grants : /\ granted[g] # None
                           /\ granted[g].user = told[r].user
                           /\ "openid" \in granted[g].scope

\* A code is exchanged by one request, the right client with the right proof,
\* whenever consumption cannot be split: racing, retrying after a failure and
\* presenting it with the wrong proof first included.
CodeExchangedOnce ==
  \A g \in Grants : \A r, q \in redeemed[g] :
    r # q => config.suspends /\ ~config.atomic

\* However often a grant is refreshed, and wherever a refresh fails, at most
\* one of its refresh tokens is usable, as long as handlers do not interleave.
OneUsableRefreshToken ==
  ~config.suspends =>
    \A n, m \in Names :
      Live(n) /\ Live(m) /\ refresh[n].root = refresh[m].root => n = m

\* After the replay of a rotated token nothing that goes back to the same
\* grants refreshes any more, as long as handlers do not interleave.
ReplayEndsFamily ==
  ~config.suspends =>
    \A n \in Names : refresh[n] # None => refresh[n].root \notin tornDown

\* A grant buys one code exchange and one usable refresh token at a time, and
\* nothing after a replay.
GrantsAreSingleUse == CodeExchangedOnce /\ OneUsableRefreshToken /\ ReplayEndsFamily

\* Tokens give what a user granted, and a grant gives them once.
TokensKeepToGrants == NothingWidens /\ GrantsAreSingleUse

\* A usable refresh token is deleted, or used up, only by a call of its own
\* client: another client that presents it, to any endpoint, leaves it alone.
OnlyItsClientSpendsAToken ==
  [][\A n \in Names :
       Live(n) /\ (refresh'[n] = None \/ refresh'[n].revoked) =>
         \E r \in Requests : pc'[r] # pc[r] /\ Client(r) = refresh[n].client]_vars

\* A client ends a session only if an administrator let it end sessions and
\* the user authorized it from that very session: its own registration, other
\* clients' tokens and tokens of other sessions do not get it there.
LogoutIsEarned ==
  [][\A s \in sessions \ sessions', r \in Requests :
       pc[r] = "end-session" /\ pc'[r] = "done" =>
         \E g \in Grants : /\ granted[g] # None
                           /\ granted[g].session = s
                           /\ clients[granted[g].client].invited
                           /\ clients[granted[g].client].logout]_vars

\* A token goes, and a session ends, for the clients they belong to only.
ClientsKeepToTheirOwn == OnlyItsClientSpendsAToken /\ LogoutIsEarned

\* Where tokens live no longer than the grace period, every token that has not
\* expired can be verified with the keys that /jwks publishes: rotation, by age
\* or by hand, at whatever time and by however many at once, strands none.
KeysOutliveTokens ==
  AccessTTL <= GracePeriod /\ TokenTTL <= GracePeriod =>
    \A kind \in SignedKinds, r \in Requests :
      jwts[kind][r] # None /\ jwts[kind][r].expiresAt >= now =>
        jwts[kind][r].key \in Published
=============================================================================
