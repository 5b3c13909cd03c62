---------------------------- MODULE SocialSignIn ---------------------------
(***************************************************************************)
(* Signing in with a social, generic OAuth or proxied provider, linking    *)
(* and unlinking one, and Google's one tap.  A state is signed and kept    *)
(* nowhere: it is good until it expires, however often it is used.         *)
(***************************************************************************)
EXTENDS IdentityState

\* An answer that carries a signed state, or a sealed payload, for a user to link or none.
Signs(r, user) ==
  /\ Goto(r, "done")
  /\ mem' = [mem EXCEPT ![r].user = user, ![r].at = now]
  /\ answer' = [answer EXCEPT ![r] = {"state"}]
  /\ UNCHANGED <<config, now, db, pending, jar, call, links>>

\* /sign-in/social, and the proxy's /authorize.
StartSocial(r) == At(r, "sign-in-social") /\ Signs(r, None)

\* /sign-in/oauth2, whose state tells whether sign-up was asked for.
StartGeneric(r) == At(r, "sign-in-oauth2") /\ Signs(r, None)
SignUpRequested(q) == Op(q) = "sign-in-oauth2" /\ call[q].flag

\* /oauth2/link, for whoever is signed in.
StartLink(r) == At(r, "link") /\ (IF Caller(r) = None THEN Refuse(r) ELSE Signs(r, Caller(r)))

\* The production end of a proxy seals a profile.
Seal(r) == At(r, "seal") /\ Signs(r, None)

Age(q)   == now - mem[q].at
Fresh(q) == Op(q) \in {"sign-in-social", "sign-in-oauth2", "link"} /\ Age(q) < StateLife
LinkTarget(r) ==
  IF Op(r) \in {"callback", "oauth2-callback"} /\ Op(call[r].given) = "link" THEN User(call[r].given) ELSE None

AccountsOf(provider, subject) ==
  {a \in db.account : a.provider = provider /\ a.subject = subject}

\* Who a provider's identity is: the user of its account, the user who asked
\* to link it, the user with its verified address, or a new one.
TrustedBy(r) == Op(r) \in {"proxy", "spa-callback"} \/ call[r].provider \in TrustedProviders

SignUpDisabled(r) ==
  \/ call[r].flag
  \/ /\ Op(r) = "oauth2-callback" /\ call[r].provider \in ExplicitOnly
     /\ ~SignUpRequested(call[r].given)

PickUser(r) ==
  LET profile == Profile[call[r].subject]
      to      == LinkTarget(r)
      holder  == UserWith(profile.email) IN
  \E a \in FindOne(AccountsOf(call[r].provider, call[r].subject)) :
    IF a # None
    THEN IF ~Exists(a.user) \/ (to # None /\ a.user # to) THEN Refuse(r)
         ELSE Reads(r, "refresh", a.user, a.id)
    ELSE IF to # None
    THEN IF Exists(to) THEN Reads(r, "attach", to, None) ELSE Refuse(r)
    ELSE IF profile.verified /\ TrustedBy(r) /\ holder # None
    THEN Reads(r, "attach", holder, None)
    ELSE IF SignUpDisabled(r) THEN Refuse(r)
    ELSE NewUser(r, Plain(profile.email, profile.verified), "attach")

\* The provider is that of the path, whichever the state names.
SocialCallback(r) ==
  /\ At(r, "callback")
  /\ IF Fresh(call[r].given) THEN PickUser(r) ELSE Refuse(r)

\* Nobody is known by the identity or by its address.
IsNewRegistration(r) ==
  /\ AccountsOf(call[r].provider, call[r].subject) = {}
  /\ UserWith(Profile[call[r].subject].email) = None

\* The callback of a generic provider first looks whether it will make a user, to
\* send the client to the page for new ones.
GenericCallback(r) ==
  /\ At(r, "oauth2-callback")
  /\ IF ~Fresh(call[r].given) THEN Refuse(r)
     ELSE /\ Goto(r, "identify")
          /\ mem' = [mem EXCEPT ![r].new = IsNewRegistration(r)]
          /\ UNCHANGED <<config, now, db, pending, jar, call, answer, links>>

Identify(r) == At(r, "identify") /\ PickUser(r)

\* The proxy's callback for single-page applications takes the state's provider,
\* and does not look for a user to link.
SpaCallback(r) ==
  /\ At(r, "spa-callback")
  /\ IF Fresh(call[r].given) /\ call[call[r].given].provider = call[r].provider
     THEN PickUser(r) ELSE Refuse(r)

\* A sealed profile is good to the last second of its life.
ProxyCallback(r) ==
  /\ At(r, "proxy")
  /\ IF Op(call[r].given) = "seal" /\ Age(call[r].given) <= PayloadLife
     THEN PickUser(r) ELSE Refuse(r)

Attach(r) ==
  LET row    == [id |-> r, user |-> User(r), provider |-> call[r].provider,
                 subject |-> call[r].subject, password |-> None]
      tables == [db EXCEPT !.account = @ \cup {row}] IN
  /\ At(r, "attach")
  /\ IF LinkTarget(r) # None THEN Finishes(r, {"ok"}, tables)
     ELSE Writes(r, "session", tables)

\* The tokens of the account are replaced; they are not looked at here.
RefreshAccount(r) ==
  /\ At(r, "refresh")
  /\ IF LinkTarget(r) # None THEN Finishes(r, {"ok"}, db) ELSE Writes(r, "session", db)

Unlink(r) ==
  LET gone == {a \in db.account : a.user = Caller(r) /\ a.provider = call[r].provider} IN
  /\ At(r, "unlink")
  /\ IF Caller(r) = None \/ gone = {} THEN Refuse(r)
     ELSE Finishes(r, {"ok"}, [db EXCEPT !.account = @ \ gone])

-----------------------------------------------------------------------------
(* One tap                                                                  *)

\* One tap goes by the address; an identity new to a user it knows is linked
\* if the address is verified or the provider trusted.
OneTap(r) ==
  LET profile == Profile[call[r].subject]
      holder  == UserWith(profile.email) IN
  /\ At(r, "one-tap")
  /\ IF holder = None
     THEN IF call[r].flag THEN Refuse(r)
          ELSE NewUser(r, Plain(profile.email, profile.verified), "attach")
     ELSE IF AccountsOf(call[r].provider, call[r].subject) # {}
     THEN Reads(r, "session", holder, None)
     ELSE IF db.user[holder].verified /\ (profile.verified \/ call[r].provider \in TrustedProviders)
     THEN Reads(r, "attach", holder, None) ELSE Refuse(r)

SocialStep(r) ==
  \/ StartSocial(r) \/ StartGeneric(r) \/ StartLink(r) \/ Seal(r)
  \/ SocialCallback(r) \/ GenericCallback(r) \/ Identify(r) \/ SpaCallback(r) \/ ProxyCallback(r)
  \/ Attach(r) \/ RefreshAccount(r) \/ Unlink(r) \/ OneTap(r)
=============================================================================
