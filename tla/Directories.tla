----------------------------- MODULE Directories ---------------------------
(***************************************************************************)
(* The directories that a company keeps its users in.                      *)
(*                                                                         *)
(* Single sign-on: providers and the domains that are theirs, signing in   *)
(* by OIDC and SAML, and the organization a provider brings its users      *)
(* into.  What an identity provider answers is taken as it comes: an       *)
(* address, or a refusal.                                                  *)
(*                                                                         *)
(* SCIM: connections and their tokens, and the users a directory creates,  *)
(* changes and deletes with one.                                           *)
(***************************************************************************)
EXTENDS IdentityState

-----------------------------------------------------------------------------
(* Single sign-on                                                           *)

SsoRows(p) == {s \in db.sso : s.id = p}

\* Registering, changing and deleting a provider takes a session, whoever
\* registered it; the issuer is unique.
RegisterProvider(r) ==
  LET row == [id |-> r, kind |-> IF call[r].flag THEN "oidc" ELSE "saml",
              issuer |-> call[r].provider, org |-> call[r].org] IN
  /\ At(r, "register-provider")
  /\ IF Caller(r) = None \/ \E s \in db.sso : s.issuer = row.issuer THEN Refuse(r)
     ELSE Finishes(r, {"ok"}, [db EXCEPT !.sso = @ \cup {row}])

\* Here the organization is what changes.
UpdateProvider(r) ==
  LET mine == SsoRows(call[r].provider) IN
  /\ At(r, "update-provider")
  /\ IF Caller(r) = None \/ call[r].org = None \/ mine = {} THEN Refuse(r)
     ELSE Finishes(r, {"ok"}, [db EXCEPT !.sso =
            (@ \ mine) \cup {[s EXCEPT !.org = call[r].org] : s \in mine}])

DeleteProvider(r) ==
  \/ /\ At(r, "delete-provider")
     /\ IF Caller(r) = None \/ SsoRows(call[r].provider) = {} THEN Refuse(r)
        ELSE Writes(r, "drop-provider",
               [db EXCEPT !.domain = {d \in @ : d.provider # call[r].provider}])
  \/ /\ At(r, "drop-provider")
     /\ Finishes(r, {"ok"}, [db EXCEPT !.sso = @ \ SsoRows(call[r].provider)])

-----------------------------------------------------------------------------
(* Domains                                                                  *)

DomainRows(d) == {row \in db.domain : row.domain = d}

\* Mutant: a domain that was verified stays so when it is registered again.
RegisterDomainVerified(r) ==
  LET old == DomainRows(call[r].domain)
      row == [id |-> CHOOSE i \in IF old = {} THEN {r} ELSE {d.id : d \in old} : TRUE,
              domain |-> call[r].domain, provider |-> call[r].provider,
              verified |-> \E d \in old : d.verified, token |-> r] IN
  /\ At(r, "register-domain")
  /\ IF Caller(r) = None \/ SsoRows(row.provider) = {} THEN Refuse(r)
     ELSE Finishes(r, {"ok"}, [db EXCEPT !.domain = (@ \ old) \cup {row}])

\* A domain that is registered again gets a new token and is to be verified again.
RegisterDomain(r) ==
  LET old == DomainRows(call[r].domain)
      row == [id |-> CHOOSE i \in IF old = {} THEN {r} ELSE {d.id : d \in old} : TRUE,
              domain |-> call[r].domain, provider |-> call[r].provider,
              verified |-> FALSE, token |-> r] IN
  /\ At(r, "register-domain")
  /\ IF Caller(r) = None \/ SsoRows(row.provider) = {} THEN Refuse(r)
     ELSE Finishes(r, {"ok"}, [db EXCEPT !.domain = (@ \ old) \cup {row}])

VerifyDomain(r) ==
  /\ At(r, "verify-domain")
  /\ \E d \in FindOne({d \in DomainRows(call[r].domain) : d.token = call[r].given}) :
       IF Caller(r) = None \/ d = None THEN Refuse(r) ELSE Reads(r, "mark-domain", None, d)

\* The row is marked, whatever it says by now.
MarkDomain(r) ==
  LET rows == {d \in db.domain : d.id = Row(r).id} IN
  /\ At(r, "mark-domain")
  /\ Finishes(r, {"ok"}, [db EXCEPT !.domain =
       (@ \ rows) \cup {[d EXCEPT !.verified = TRUE] : d \in rows}])

-----------------------------------------------------------------------------
(* Signing in                                                               *)

Kind(r) == IF Op(r) = "oidc-sign-in" THEN "oidc" ELSE "saml"

SsoSignIn(r) ==
  /\ At(r, "oidc-sign-in") \/ At(r, "saml-sign-in")
  /\ IF ~\E s \in SsoRows(call[r].provider) : s.kind = Kind(r) THEN Refuse(r)
     ELSE Finishes(r, {"state"},
            [db EXCEPT !.started = @ \cup {[id |-> r, provider |-> call[r].provider]}])

StartedBy(r, op) == {s \in db.started : s.id = call[r].given /\ Op(s.id) = op}

\* The state is consumed in one step, then held against the path.
OidcCallback(r) ==
  /\ At(r, "oidc-callback")
  /\ \E s \in FindOne(StartedBy(r, "oidc-sign-in")) :
       IF s = None THEN Refuse(r)
       ELSE /\ Goto(r, "exchange")
            /\ db' = [db EXCEPT !.started = @ \ {s}]
            /\ mem' = [mem EXCEPT ![r].row = s]
            /\ UNCHANGED <<config, now, pending, jar, call, answer, links>>

Exchange(r) ==
  /\ At(r, "exchange")
  /\ \E p \in FindOne(SsoRows(call[r].provider)) :
       IF p = None \/ Row(r).provider # call[r].provider THEN Refuse(r)
       ELSE Reads(r, "upsert", None, p)

\* The request a SAML response names is forgotten, if it is known.
SamlAcs(r) ==
  /\ At(r, "saml-acs")
  /\ \E p \in FindOne({s \in SsoRows(call[r].provider) : s.kind = "saml"}) :
       IF p = None THEN Refuse(r)
       ELSE /\ Goto(r, "upsert")
            /\ db' = [db EXCEPT !.started = @ \ StartedBy(r, "saml-sign-in")]
            /\ mem' = [mem EXCEPT ![r].row = p]
            /\ UNCHANGED <<config, now, pending, jar, call, answer, links>>

\* Whether a SAML response is to be believed: who issued it, for whom, when, and
\* the certificate it shows.  That it names a request known here is not asked.
Acceptable(r) ==
  LET a == call[r].assertion  p == Row(r) IN
  /\ a.issuer = p.issuer /\ a.audience = p.id
  /\ \A t \in {a.from} \ {None} : t <= now + Skew
  /\ \A t \in {a.until} \ {None} : now <= t + Skew
  /\ a.key = p.issuer

\* The user with the address, or a new one; the address counts as verified.  An
\* OIDC code may be refused by its provider.
Upsert(r) ==
  LET u == UserWith(call[r].email) IN
  /\ At(r, "upsert")
  /\ \/ (Op(r) = "saml-acs" => ~Acceptable(r)) /\ Refuse(r)
     \/ /\ Op(r) = "saml-acs" => Acceptable(r)
        /\ IF u = None THEN NewUser(r, Plain(call[r].email, TRUE), "session")
           ELSE /\ Goto(r, "session")
                /\ db' = [db EXCEPT !.user[u].verified = TRUE]
                /\ mem' = [mem EXCEPT ![r].user = u]
                /\ UNCHANGED <<config, now, pending, jar, call, answer, links>>

Membership(u, org) == {m \in db.member : m.user = u /\ m.org = org}

\* The provider's organization as it was when the provider was read.
Provision(r) ==
  LET signedIn(tables) == Responds(r, {"session"}, tables, [jar[call[r].by] EXCEPT !.session = r]) IN
  \/ /\ At(r, "provision")
     /\ IF Row(r).org = None \/ Membership(User(r), Row(r).org) # {} THEN signedIn(db)
        ELSE Writes(r, "join", db)
  \/ /\ At(r, "join")
     /\ signedIn([db EXCEPT !.member = @ \cup
          {[id |-> r, user |-> User(r), org |-> Row(r).org, admin |-> FALSE]}])

SamlLogout(r) ==
  /\ At(r, "saml-logout")
  /\ IF Caller(r) = None THEN Finishes(r, {"ok"}, db)
     ELSE Responds(r, {"ok"}, [db EXCEPT !.session = {s \in @ : s.id # mem[r].jar.session}],
                   [jar[call[r].by] EXCEPT !.session = None])

SsoStep(r) ==
  \/ RegisterProvider(r) \/ UpdateProvider(r) \/ DeleteProvider(r)
  \/ RegisterDomain(r) \/ VerifyDomain(r) \/ MarkDomain(r)
  \/ SsoSignIn(r) \/ OidcCallback(r) \/ Exchange(r) \/ SamlAcs(r) \/ Upsert(r)
  \/ Provision(r) \/ SamlLogout(r)

-----------------------------------------------------------------------------
(* SCIM                                                                     *)

OrgAdmin(u, org) == \E m \in db.member : m.user = u /\ m.org = org /\ m.admin

\* A connection of an organization is its admins'; another its owner's, if it has one.
MayUse(u, row) ==
  IF row.org # None THEN OrgAdmin(u, row.org) ELSE row.owner \in {None, u}

ConnectionRows(c) == {s \in db.scim : s.connection = c}

\* A new token replaces the connection's: the row goes, and another is made.
GenerateToken(r) ==
  LET c == call[r] IN
  /\ At(r, "generate-token")
  /\ \E row \in FindOne({s \in ConnectionRows(c.provider) : c.org \in {None, s.org}}) :
       IF \/ ~Exists(Caller(r)) \/ (c.org # None /\ ~OrgAdmin(Caller(r), c.org))
          \/ (row # None /\ ~MayUse(Caller(r), row))
       THEN Refuse(r)
       ELSE /\ Goto(r, "store-token")
            /\ db' = [db EXCEPT !.scim = @ \ {row}]
            /\ mem' = [mem EXCEPT ![r].user = Caller(r)]
            /\ UNCHANGED <<config, now, pending, jar, call, answer, links>>

StoreToken(r) ==
  LET c   == call[r]
      row == [id |-> r, connection |-> c.provider, org |-> c.org,
              owner |-> IF config.owned THEN User(r) ELSE None] IN
  /\ At(r, "store-token")
  /\ IF ConnectionRows(c.provider) # {} THEN Refuse(r)   \* providerId is unique
     ELSE Finishes(r, {"ok"}, [db EXCEPT !.scim = @ \cup {row}])

DeleteConnection(r) ==
  LET rows == ConnectionRows(call[r].provider) IN
  /\ At(r, "delete-connection")
  /\ IF Caller(r) = None \/ ~\E s \in rows : MayUse(Caller(r), s) THEN Refuse(r)
     ELSE Finishes(r, {"ok"}, [db EXCEPT !.scim = @ \ rows])

-----------------------------------------------------------------------------
(* The directory's users                                                    *)

\* The connection whose token is presented.
Directory(r) == {s \in db.scim : s.id = call[r].given}

\* A user this connection may look at, and the account it has from it.
Provisioned(row, u) ==
  {a \in db.account : /\ a.user = u /\ a.provider = row.connection /\ Exists(u)
                      /\ row.org # None => \E m \in db.member : m.user = u /\ m.org = row.org}

\* The users it is listed: those it has accounts of, and of them its organization's.
ListedUsers(row) ==
  LET known  == {a.user : a \in {a \in db.account : a.provider = row.connection}}
      joined == {m.user : m \in {m \in db.member : m.org = row.org}} IN
  {u \in IF row.org = None THEN known ELSE known \cap joined : Exists(u)}

ScimCreate(r) ==
  /\ At(r, "scim-create")
  /\ \E row \in FindOne(Directory(r)) :
       IF \/ row = None
          \/ \E a \in db.account : a.provider = row.connection /\ a.subject = call[r].subject
       THEN Refuse(r) ELSE Reads(r, "scim-insert", UserWith(call[r].email), row)

\* User, account and membership are written in one transaction.
ScimInsert(r) ==
  LET u   == IF User(r) = None THEN r ELSE User(r)
      row == Row(r)
      new == Plain(call[r].email, FALSE)
      account == [id |-> r, user |-> u, provider |-> row.connection,
                  subject |-> call[r].subject, password |-> None]
      joins == row.org # None /\ ~\E m \in db.member : m.user = u /\ m.org = row.org IN
  /\ At(r, "scim-insert")
  /\ IF User(r) = None /\ ~Insertable(new) THEN Refuse(r)
     ELSE Finishes(r, {"ok"},
       [db EXCEPT !.user = IF User(r) = None THEN [@ EXCEPT ![r] = new] ELSE @,
                  !.account = @ \cup {account},
                  !.member = IF joins THEN @ \cup {[id |-> r, user |-> u, org |-> row.org,
                                                    admin |-> FALSE]} ELSE @])

\* PUT and PATCH set the address and the directory's id.
ScimUpdate(r) ==
  /\ At(r, "scim-update")
  /\ \E row \in FindOne(Directory(r)) :
       IF row = None THEN Refuse(r)
       ELSE \E a \in FindOne(Provisioned(row, Target(r))) :
              IF a = None THEN Refuse(r) ELSE Reads(r, "scim-write", Target(r), a)

ScimWrite(r) ==
  LET mine == {a \in db.account : a.id = Row(r).id}
      u    == UserWith(call[r].email) IN
  /\ At(r, "scim-write")
  /\ IF u \notin {None, User(r)} THEN Refuse(r)   \* the address is another's
     ELSE Finishes(r, {"ok"},
       [db EXCEPT !.user = IF Exists(User(r)) THEN [@ EXCEPT ![User(r)].email = call[r].email] ELSE @,
                  !.account = (@ \ mine) \cup {[a EXCEPT !.subject = call[r].subject] : a \in mine}])

ScimDelete(r) ==
  /\ At(r, "scim-delete")
  /\ IF \E row \in Directory(r) : Provisioned(row, Target(r)) # {}
     THEN DropSessions(r, Target(r), "drop-accounts") ELSE Refuse(r)

ScimStep(r) ==
  \/ GenerateToken(r) \/ StoreToken(r) \/ DeleteConnection(r)
  \/ ScimCreate(r) \/ ScimInsert(r) \/ ScimUpdate(r) \/ ScimWrite(r) \/ ScimDelete(r)
=============================================================================
