--------------------------- MODULE MCOpenIdProvider ---------------------------
EXTENDS OpenIdProvider, TLC
CONSTANTS r1, r2, r3, r4, g0, g1, app, site, s1, s2, ann, ben

Order == <<r1, r2, r3, r4>>
MCRequests == {r1, r2, r3, r4}
MCGrants == {g0, g1}
MCOld == {g0}
MCClients == {app, site}
MCSessions == {s1, s2}
MCUserOf == s1 :> ann @@ s2 :> ben
MCOldClient == g0 :> app
MCOldSession == g0 :> s1
MCUsers == {ann, ben}
MCScopes == {"offline_access", "openid"}

\* Requests differ in nothing but their names, so those that arrive may as
\* well arrive in this order.
ArriveInOrder ==
  \A i \in 1 .. 3 : pc[Order[i + 1]] # "idle" => pc[Order[i]] # "idle"

-----------------------------------------------------------------------------
(* Calls                                                                    *)

Make(op, client, token) ==
  [op |-> op, client |-> client, secret |-> TRUE, session |-> None, token |-> token,
   kind |-> "refresh_token", hint |-> "none", redirect |-> TRUE, verifier |-> "right",
   scope |-> None, public |-> FALSE, pkce |-> TRUE, logout |-> FALSE]

\* What is presented at the endpoints that take more than one kind of token.
Present(op, client, token, kind) == [Make(op, client, token) EXCEPT !.kind = kind]
By(c, s) == [c EXCEPT !.session = s]
Hinting(c, hint) == [c EXCEPT !.hint = hint]

\* What a user may agree to, with and without a challenge.
Agree(client, s, scope) ==
  [client |-> client, session |-> s, scope |-> scope, challenge |-> TRUE]
Plainly(a) == [a EXCEPT !.challenge = FALSE]

All == MCScopes
Narrow == {"offline_access"}

Code == Make("code", app, g1)
SiteCode == Make("code", site, g1)
WrongVerifier == [Code EXCEPT !.verifier = "wrong"]
WrongRedirect == [Code EXCEPT !.redirect = FALSE]
Refreshes(names) == {Make("refresh", site, g0)} \cup {Make("refresh", app, n) : n \in names}
Asking(n, s) == [Make("refresh", app, n) EXCEPT !.scope = s]
Credentials == {[Make("credentials", app, g0) EXCEPT !.scope = s] : s \in {{}, {"openid"}}}
Revocations ==
  {Make("revoke", site, g0), Hinting(Make("revoke", app, g0), "access_token")}
  \cup {Hinting(Present("revoke", app, r1, "access_token"), h) : h \in {"none", "refresh_token"}}
  \cup {Make("revoke", app, r1)}
KeyCalls == {By(Make("get-token", app, g0), s1), By(Make("rotate", app, g0), s2)}
Jwks == Make("jwks", app, g0)
Questions(names, kinds) ==
  {Present(op, app, n, k) : op \in {"userinfo", "introspect"}, n \in names, k \in kinds}
Logouts(names) == {Present("end-session", app, n, "id_token") : n \in names}

-----------------------------------------------------------------------------
(* Configurations                                                           *)

Confidential == [public |-> FALSE, pkce |-> FALSE, disabled |-> FALSE,
                 logout |-> FALSE, invited |-> TRUE]
Both == [c \in MCClients |-> Confidential]
OnlyApp == app :> Confidential @@ site :> None

Memory == [suspends |-> FALSE, atomic |-> TRUE, jwt |-> FALSE, rotates |-> FALSE,
           seconds |-> FALSE, clients |-> Both, requests |-> 3, leaving |-> {}, ticks |-> 1,
           asked |-> {Plainly(Agree(app, s2, {"openid"})), Agree(app, s2, Narrow)},
           calls |-> {Code, SiteCode} \cup Refreshes({g0, r1}) \cup Credentials
                     \cup Revocations \cup {Asking(g0, Narrow), Asking(r1, All)}]

Mongo  == [Memory EXCEPT
             !.suspends = TRUE, !.jwt = TRUE, !.ticks = 0, !.asked = {Agree(app, s1, Narrow)},
             !.clients = [Both EXCEPT ![site].disabled = TRUE],
             !.calls = {Code, WrongVerifier, SiteCode, Jwks, Make("refresh", app, g0)}]

SQL    == [Memory EXCEPT
             !.suspends = TRUE, !.atomic = FALSE, !.ticks = 0,
             !.asked = {Agree(app, s1, Narrow)},
             !.calls = {Code, Make("revoke", app, g0)} \cup Refreshes({g0})]

\* Signed tokens, and keys that rotate.
OpenId == [Memory EXCEPT
             !.jwt = TRUE, !.rotates = TRUE, !.seconds = TRUE,
             !.asked = {Agree(app, s2, {"openid"})},
             !.calls = KeyCalls \cup {Jwks, Code, WrongRedirect,
                                      Present("revoke", app, r1, "id_token")}
                       \cup Questions({r1, r2}, {"access_token", "id_token"})]

\* Keys that are made, rotated and used at once.
Rotation == [OpenId EXCEPT !.suspends = TRUE, !.seconds = FALSE, !.ticks = 3,
                        !.asked = {}, !.calls = KeyCalls]

\* Clients come, and end sessions.
Logout == [Memory EXCEPT
             !.clients = OnlyApp, !.asked = {Agree(site, s2, {"openid"})}, !.requests = 4,
             !.leaving = {s2}, !.ticks = 0,
             !.calls = {[Make(op, site, g0) EXCEPT !.public = p, !.pkce = p, !.logout = TRUE] :
                          op \in {"register", "create-client"}, p \in BOOLEAN}
                       \cup {[Make("register", site, g0) EXCEPT !.redirect = FALSE],
                             SiteCode, [SiteCode EXCEPT !.secret = FALSE],
                             [SiteCode EXCEPT !.verifier = "none"]}
                       \cup Questions({r2}, {"access_token"})
                       \cup {Hinting(Make("introspect", app, g0), h) :
                              h \in {"none", "access_token"}}
                       \cup Logouts({r2, r3})]

MCConfigs == {Memory, Mongo, SQL, OpenId, Rotation, Logout}
=============================================================================
