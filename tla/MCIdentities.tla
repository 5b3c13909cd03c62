---------------------------- MODULE MCIdentities ---------------------------
EXTENDS Identities, TLC
CONSTANTS r1, r2, r3, r4, ann, bob, email1, email2, email3, name1, name2, home, work,
          here, there, google, github, gina, hugo, okta, iss1, iss2, corp, org1

MCRequests == {r1, r2, r3, r4}
MCProfile == (gina :> [email |-> email2, verified |-> TRUE])
             @@ (hugo :> [email |-> email3, verified |-> FALSE])
MCDomainOf == [e \in {email1, email2, email3} |-> corp]
Symmetric == Permutations(MCRequests) \cup Permutations({here, there})

\* Ann is an admin, of the application and of the organization; Bob is not.
MCUser == [i \in MCRequests \cup Users |->
  CASE i = ann -> [Plain(email1, TRUE) EXCEPT !.admin = TRUE, !.username = name1]
    [] i = bob -> Plain(email2, FALSE)
    [] OTHER   -> None]

Tables ==
  [user |-> MCUser,
   session |-> {[id |-> u, user |-> u, by |-> None] : u \in Users},
   account |-> {[id |-> u, user |-> u, provider |-> None, subject |-> u, password |-> u] : u \in Users},
   member |-> {[id |-> ann, user |-> ann, org |-> org1, admin |-> TRUE]},
   sso |-> {}, domain |-> {}, started |-> {}, scim |-> {}]

\* Ann uses one browser, Bob the other.
Cookies == (home :> [session |-> ann, admin |-> None, list |-> <<ann>>])
           @@ (work :> [session |-> bob, admin |-> None, list |-> <<bob>>])

C(op, b) == [op |-> op, by |-> b, who |-> None, email |-> None, name |-> None, org |-> None,
             provider |-> None, domain |-> None, subject |-> None, given |-> None, assertion |-> None,
             flag |-> FALSE]

Admins ==
  {[C("ban", home) EXCEPT !.who = u, !.flag = f] : u \in {ann, bob}, f \in BOOLEAN}
  \cup {[C(op, home) EXCEPT !.who = bob] :
          op \in {"unban", "impersonate", "revoke-sessions", "set-password", "remove-user"}}
  \cup {[C("set-role", home) EXCEPT !.who = bob, !.flag = TRUE],
        [C("ban", work) EXCEPT !.who = ann], [C("impersonate", work) EXCEPT !.who = ann],
        [C("create-user", work) EXCEPT !.email = email3],
        [C("create-user", home) EXCEPT !.email = email3, !.flag = TRUE],
        [C("revoke-session", home) EXCEPT !.given = bob],
        [C("sign-in-email", work) EXCEPT !.email = email2, !.given = bob]}
  \cup UNION {{[C("impersonate", b) EXCEPT !.who = q], [C("remove-user", b) EXCEPT !.who = q]}
              : q \in MCRequests, b \in {home}}
  \cup {C("stop-impersonating", home), C("stop-impersonating", work)}
  \cup {[C("sign-in-email", work) EXCEPT !.email = email2, !.given = q] : q \in MCRequests}

\* Admins who act for others, and in turn are promoted, in one browser.
Impersonations ==
  {[C("impersonate", b) EXCEPT !.who = u] : b \in {home, work}, u \in {bob}}
  \cup {[C("set-role", home) EXCEPT !.who = bob, !.flag = f] : f \in BOOLEAN}
  \cup {[C("sign-in-email", b) EXCEPT !.email = e, !.given = u] :
          b \in {home}, <<e, u>> \in {<<email1, ann>>, <<email2, bob>>}}
  \cup {C(op, home) : op \in {"stop-impersonating", "sign-out"}}
  \cup {[C("create-user", home) EXCEPT !.email = email3]}
  \cup {[C("impersonate", home) EXCEPT !.who = q] : q \in MCRequests}

Visits ==
  {C("sign-in-anonymous", home), C("sign-in-anonymous", work), C("delete-anonymous", home),
   C("sign-out", home),
   [C("sign-in-email", home) EXCEPT !.email = email1, !.given = ann],
   [C("sign-in-email", work) EXCEPT !.email = email1, !.given = bob],
   [C("sign-in-email", work) EXCEPT !.email = email2, !.given = bob],
   [C("sign-up-email", home) EXCEPT !.email = email3],
   [C("sign-up-username", home) EXCEPT !.name = name2],
   [C("sign-in-username", home) EXCEPT !.name = name1, !.given = ann],
   [C("update-user", work) EXCEPT !.name = name1], [C("update-user", work) EXCEPT !.name = name2]}

Lists ==
  {[C("sign-in-email", home) EXCEPT !.email = email1, !.given = ann],
   [C("sign-in-email", home) EXCEPT !.email = email2, !.given = bob],
   C("sign-out", home)}
  \cup {[C(op, home) EXCEPT !.given = t] :
          op \in {"switch", "revoke-listed"}, t \in {ann, bob} \cup MCRequests}

Socials ==
  {[C("sign-in-oauth2", home) EXCEPT !.provider = github, !.flag = f] : f \in BOOLEAN}
  \cup {C("link", work), C("link", home),
   C("seal", home), C("sign-in-anonymous", home), C("delete-anonymous", home)}
  \cup UNION {{[C("callback", work) EXCEPT !.given = q, !.provider = google, !.subject = s],
              [C("oauth2-callback", work) EXCEPT !.given = q, !.provider = github, !.subject = s]} :
               q \in MCRequests, s \in Subjects}
  \cup {[C(op, work) EXCEPT !.given = q, !.provider = github, !.subject = gina, !.flag = f] :
          op \in {"proxy", "spa-callback"}, q \in MCRequests, f \in BOOLEAN}
  \cup {[C("unlink", work) EXCEPT !.provider = google]}

Taps ==
  {[C("one-tap", home) EXCEPT !.provider = google, !.subject = s, !.flag = f] :
     s \in Subjects, f \in BOOLEAN}
  \cup {[C("admin-update", home) EXCEPT !.who = bob, !.email = e] : e \in {None, email3}}
  \cup {C("sign-in-social", home), C("link", home), [C("remove-user", home) EXCEPT !.who = bob]}
  \cup {[C("callback", work) EXCEPT !.given = q, !.provider = google, !.subject = s] :
          q \in MCRequests, s \in Subjects}

Federations ==
  {[C("register-provider", home) EXCEPT !.provider = i, !.org = org1, !.flag = TRUE] : i \in Issuers}
  \cup UNION {{[C("oidc-sign-in", work) EXCEPT !.provider = p],
               [C("update-provider", work) EXCEPT !.provider = p, !.org = org1],
               [C("delete-provider", work) EXCEPT !.provider = p]} : p \in {ann} \cup MCRequests}
  \cup {[C("oidc-callback", work) EXCEPT !.given = q, !.provider = p, !.email = e] :
          q \in MCRequests, p \in {ann, bob}, e \in {email2, email3}}

Asserted == [issuer |-> iss2, audience |-> bob, from |-> None, until |-> None, key |-> iss2]
MCAssertions ==
  {Asserted, [Asserted EXCEPT !.until = 0], [Asserted EXCEPT !.from = 1],
   [Asserted EXCEPT !.audience = ann], [Asserted EXCEPT !.key = iss1]}

SamlSignOns ==
  {[C("saml-sign-in", work) EXCEPT !.provider = bob], C("saml-logout", work)}
  \cup {[C(op, home) EXCEPT !.provider = bob, !.org = org1] : op \in {"update-provider", "delete-provider"}}
  \cup {[C("saml-acs", b) EXCEPT !.provider = bob, !.given = q, !.email = email3, !.assertion = a] :
          b \in {work}, q \in {None} \cup MCRequests, a \in MCAssertions}

Ownership ==
  {[C("register-domain", b) EXCEPT !.provider = p, !.domain = corp] :
     b \in {home}, p \in {ann, bob}}
  \cup {[C("verify-domain", work) EXCEPT !.domain = corp, !.given = q] : q \in MCRequests}
  \cup {[C("delete-provider", home) EXCEPT !.provider = ann],
        [C("sign-in-email", work) EXCEPT !.email = email2, !.given = bob]}

Directories ==
  {[C("generate-token", b) EXCEPT !.provider = okta, !.org = o] : b \in {home, work}, o \in {None, org1}}
  \cup {[C("delete-connection", b) EXCEPT !.provider = okta] : b \in {home, work}}
  \cup {[C("scim-create", home) EXCEPT !.given = q, !.email = e, !.subject = s] :
          q \in MCRequests, e \in {email2, email3}, s \in Subjects}
  \cup {[C("scim-update", home) EXCEPT !.given = q, !.who = u, !.email = email3, !.subject = hugo] :
          q \in MCRequests, u \in {bob} \cup MCRequests}
  \cup {[C("scim-delete", home) EXCEPT !.given = q, !.who = u] :
          q \in MCRequests, u \in {bob} \cup MCRequests}

MCCalls == [admins |-> Admins, impersonations |-> Impersonations, visits |-> Visits,
            lists |-> Lists, socials |-> Socials, taps |-> Taps, federations |-> Federations, samls |-> SamlSignOns,
            ownership |-> Ownership, directories |-> Directories]

Sso(i, kind, issuer, org) == [id |-> i, kind |-> kind, issuer |-> issuer, org |-> org]

\* Visitors come without cookies; the sign-on scenarios start with two providers,
\* that of impersonation with two admins.
MCSeeds == [s \in DOMAIN MCCalls |->
  IF s = "impersonations" THEN [Tables EXCEPT !.user[bob].admin = TRUE]
  ELSE IF s \in {"federations", "samls", "ownership"}
  THEN [Tables EXCEPT !.sso = {Sso(ann, "oidc", iss1, org1), Sso(bob, "saml", iss2, None)}]
  ELSE Tables]

MCJars == [s \in DOMAIN MCCalls |->
  IF s = "visits" THEN [Cookies EXCEPT ![home].session = None, ![home].list = <<>>] ELSE Cookies]

\* The clock runs where a ban or a state can lapse.
Scenario(suspends, owned, requests, scenario) ==
  [suspends |-> suspends, owned |-> owned, requests |-> requests, scenario |-> scenario,
   clock |-> IF scenario \in {"admins", "socials", "samls"} THEN 1 ELSE 0]

MCConfigs ==
  {Scenario(FALSE, TRUE, IF s \in {"admins", "samls"} THEN 3 ELSE 4, s) : s \in DOMAIN MCCalls}
  \cup {Scenario(FALSE, FALSE, 3, "directories")}
  \cup {Scenario(TRUE, TRUE, 2, s) : s \in DOMAIN MCCalls \ {"federations"}}
  \cup {Scenario(TRUE, TRUE, 3, "federations")}
=============================================================================
