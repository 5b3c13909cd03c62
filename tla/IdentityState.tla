--------------------------- MODULE IdentityState ---------------------------
(***************************************************************************)
(* What the plugins that decide whose identity is whose share: users,      *)
(* accounts, sessions and memberships, the requests that work on them, the *)
(* cookies a browser keeps, and the hooks that run before a handler.       *)
(* SocialSignIn, Directories, Administration and Visitors add their        *)
(* endpoints; Identities puts them together and states what must hold.     *)
(*                                                                         *)
(* A row, and any secret in it, is named by the request that made it; rows *)
(* that are there from the start are named by their user.  Every write is  *)
(* a step; look-ups are a step of their own where what they found is acted *)
(* on later, and part of the first write where a unique column or the      *)
(* adapter call itself settles a race.  Sessions do not expire here:       *)
(* AccountSessions looks at that.                                          *)
(***************************************************************************)
EXTENDS Naturals, FiniteSets, SequencesExt

CONSTANTS
  Requests,       \* calls of an endpoint; each is made once
  Users,          \* the users at the start
  Emails, Names,  \* e-mail addresses and usernames
  Browsers,       \* who calls, with the cookies it was given
  Addresses,      \* memory addresses of request objects
  Providers,      \* social providers; TrustedProviders are trusted to verify e-mails
  TrustedProviders,
  ExplicitOnly,   \* providers that make a user only if sign-up was asked for
  Subjects,       \* identities at a provider, with the e-mail each has there
  Profile,        \* [Subjects -> [email : Emails, verified : BOOLEAN]]
  Connections,    \* provider ids of SCIM connections
  Issuers,        \* issuers of SSO providers
  Assertions,     \* what identity providers assert by SAML
  Domains,        \* e-mail domains
  DomainOf,       \* [Emails -> Domains]
  Orgs,           \* organizations
  Seeds, Jars,    \* the tables and the cookies at the start of each scenario
  Calls,          \* the calls of each scenario
  Configs,        \* the configurations that are looked at
  StateLife,      \* how long a signed state is valid
  PayloadLife,    \* how long a sealed profile is
  BanLife,        \* how long a ban that expires lasts
  Skew,           \* how far the clocks of identity providers may be off
  MaxList,        \* sessions a browser's list keeps
  None

Ids == Requests \cup Users

\* email: an address, or the one made up for the user it names
UserRow == [email : Emails \cup Ids, verified : BOOLEAN, username : Names \cup {None},
            anonymous : BOOLEAN, admin : BOOLEAN, banned : BOOLEAN,
            banExpires : Nat \cup {None}]
\* by: impersonatedBy
SessionRow == [id : Ids, user : Ids, by : Ids \cup {None}]
\* provider None is "credential"; password names who set it
AccountRow == [id : Ids, user : Ids, provider : Providers \cup Connections \cup {None},
               subject : Subjects \cup Ids, password : Ids \cup {None}]
MemberRow == [id : Ids, user : Ids, org : Orgs, admin : BOOLEAN]
\* sso: ssoProvider, with the issuer and the organization; domain: ssoDomain
SsoRow    == [id : Ids, kind : {"oidc", "saml"}, issuer : Issuers, org : Orgs \cup {None}]
\* Who asserts, for which provider here, from when until when, and whose key it bears
Assertion == [issuer : Issuers, audience : Ids, from : Nat \cup {None}, until : Nat \cup {None},
              key : Issuers \cup {None}]
DomainRow == [id : Ids, domain : Domains, provider : Ids, verified : BOOLEAN, token : Ids]
\* started: the verification rows of OIDC and SAML sign-ins, for a provider
StartedRow == [id : Ids, provider : Ids]
ScimRow == [id : Ids, connection : Connections, org : Orgs \cup {None}, owner : Ids \cup {None}]

Jar == [session : Ids \cup {None}, admin : Ids \cup {None}, list : Seq(Ids)]

\* suspends:  an adapter call may suspend the handler
\* owned:     SCIM connections belong to the user who made them
\* clock, requests: bounds on the time and on the requests; scenario: the calls made
Config == [suspends : BOOLEAN, owned : BOOLEAN, clock : Nat, requests : Nat, scenario : DOMAIN Calls]

\* by:       the browser that calls
\* who:      the user, e-mail address or username meant; email, name: from the body
\* provider: the provider, connection or domain meant; org: the organization
\* subject:  the identity the provider reports
\* given:    the state, token, password or session id that is presented
\* assertion: the SAML response posted
\* flag:     sign-up disabled or asked for, a ban that expires, a role
Call == [op : STRING, by : Browsers, who : Ids \cup {None}, email : Emails \cup {None},
         name : Names \cup {None}, org : Orgs \cup {None},
         provider : Providers \cup Connections \cup Ids \cup Issuers \cup {None},
         domain : Domains \cup {None}, subject : Subjects \cup {None},
         given : Ids \cup {None}, assertion : Assertions \cup {None}, flag : BOOLEAN]

ASSUME ConstantsAssumption ==
  /\ Configs \subseteq Config
  /\ \A s \in DOMAIN Calls : Calls[s] \subseteq Call
  /\ StateLife \in Nat /\ PayloadLife \in Nat /\ BanLife \in Nat /\ MaxList \in Nat
  /\ Skew \in Nat /\ Assertions \subseteq Assertion
  /\ TrustedProviders \subseteq Providers /\ ExplicitOnly \subseteq Providers

VARIABLES
  config,    \* the configuration
  now,       \* int(time.time())
  db,        \* the tables
  pending,   \* [Addresses -> the anonymous user noted there]: process memory
  jar,       \* [Browsers -> the cookies it keeps]
  pc, call,  \* what each request does next; its body
  mem,       \* mem[r]: the cookies it was sent with, whose session that was, where
             \*         its request object lies (at link targets), when it signed a state,
             \*         the user and row it has read, and whether it takes that user for new
  answer,    \* answer[r]: what the client got: "session", "state", "ok", "new" page
  links      \* what on_link has been told: [anonymous, user, by]

vars == <<config, now, db, pending, jar, pc, call, mem, answer, links>>

TypeOK ==
  /\ config \in Configs
  /\ now \in 0 .. config.clock
  /\ db.user \in [Ids -> UserRow \cup {None}]
  /\ db.session \subseteq SessionRow /\ db.account \subseteq AccountRow
  /\ db.member \subseteq MemberRow /\ db.sso \subseteq SsoRow
  /\ db.domain \subseteq DomainRow /\ db.started \subseteq StartedRow
  /\ db.scim \subseteq ScimRow
  /\ pending \in [Addresses -> Ids \cup {None}]
  /\ \A b \in Browsers :
       /\ jar[b].session \in Ids \cup {None} /\ jar[b].admin \in Ids \cup {None}
       /\ Len(jar[b].list) <= MaxList /\ IsInjective(jar[b].list)
  /\ \A r \in Requests : call[r] \in Calls[config.scenario] \cup {None}
  /\ answer \in [Requests -> SUBSET {"session", "state", "ok", "new"}]

Init ==
  /\ config \in Configs
  /\ now = 0
  /\ db = Seeds[config.scenario]
  /\ pending = [a \in Addresses |-> None]
  /\ jar = Jars[config.scenario]
  /\ pc = [r \in Requests |-> "idle"]
  /\ call = [r \in Requests |-> None]
  /\ mem = [r \in Requests |-> None]
  /\ answer = [r \in Requests |-> {}]
  /\ links = {}

-----------------------------------------------------------------------------
(* Requests and the adapter                                                 *)

InHandler(r) == pc[r] \notin {"idle", "done"}
Scheduled(r) == config.suspends \/ \A q \in Requests \ {r} : ~InHandler(q)

At(r, at)   == pc[r] = at /\ Scheduled(r)
Goto(r, to) == pc' = [pc EXCEPT ![r] = to]
Op(r)       == call[r].op
User(r)     == mem[r].user
Row(r)      == mem[r].row

FindOne(S)  == IF S = {} THEN {None} ELSE S
UserWith(e) == CHOOSE u \in FindOne({u \in Ids : db.user[u] # None /\ db.user[u].email = e}) : TRUE
Named(n)    == CHOOSE u \in FindOne({u \in Ids : db.user[u] # None /\ db.user[u].username = n}) : TRUE
SessionUser(t) == CHOOSE u \in FindOne({s.user : s \in {s \in db.session : s.id = t}}) : TRUE
Caller(r)   == SessionUser(mem[r].jar.session)
Exists(u)   == u \in Ids /\ db.user[u] # None

\* A handler reads and goes on, is refused, writes and goes on, or answers with cookies.
Reads(r, to, user, row) ==
  /\ Goto(r, to)
  /\ mem' = [mem EXCEPT ![r].user = user, ![r].row = row]
  /\ UNCHANGED <<config, now, db, pending, jar, call, answer, links>>
Refuse(r) == Goto(r, "done") /\ UNCHANGED <<config, now, db, pending, jar, call, mem, answer, links>>
Writes(r, to, tables) ==
  /\ Goto(r, to)
  /\ db' = tables
  /\ UNCHANGED <<config, now, pending, jar, call, mem, answer, links>>
Responds(r, what, tables, cookies) ==
  /\ Goto(r, "done")
  /\ db' = tables
  /\ jar' = [jar EXCEPT ![call[r].by] = cookies]
  /\ answer' = [answer EXCEPT ![r] = what]
  /\ UNCHANGED <<config, now, pending, call, mem, links>>
Finishes(r, what, tables) == Responds(r, what, tables, jar[call[r].by])

\* The e-mail and username columns are unique: a row that repeats one is refused.
Insertable(row) ==
  \A u \in Ids : Exists(u) =>
    db.user[u].email # row.email /\ (row.username = None \/ db.user[u].username # row.username)

NewUser(r, row, to) ==
  IF ~Insertable(row) THEN Refuse(r)
  ELSE /\ Goto(r, to)
       /\ db' = [db EXCEPT !.user[r] = row]
       /\ mem' = [mem EXCEPT ![r].user = r]
       /\ UNCHANGED <<config, now, pending, jar, call, answer, links>>

Plain(email, verified) ==
  [email |-> email, verified |-> verified, username |-> None, anonymous |-> FALSE,
   admin |-> FALSE, banned |-> FALSE, banExpires |-> None]

Credential(r, user) ==
  [id |-> r, user |-> user, provider |-> None, subject |-> user, password |-> r]

\* Paths the hooks tell apart: sign-in paths, those no ban is looked at for, and
\* those an anonymous visit can end at.
SignInPaths == {"sign-in-email", "sign-up-email", "sign-in-username", "sign-up-username",
                "sign-in-anonymous", "sign-in-social", "sign-in-oauth2"}
NotScreened == SignInPaths \cup {"sign-out", "stop-impersonating"}
LinkTargets == {"sign-in-email", "sign-up-email", "sign-in-username", "sign-up-username"}

\* What was handed out earlier can be presented.
Presentable(c) ==
  c.given \in Requests => answer[c.given] # {}

Begin(r, c) ==
  /\ At(r, "idle")
  /\ Cardinality({q \in Requests : pc[q] # "idle"}) < config.requests
  /\ Presentable(c)
  /\ \E a \in IF c.op \in LinkTargets
                THEN Addresses \ {mem[q].address : q \in {q \in Requests : InHandler(q)}}
                ELSE {None} :
       mem' = [mem EXCEPT ![r] = [jar |-> jar[c.by], visitor |-> SessionUser(jar[c.by].session),
                                  address |-> a, at |-> None, user |-> None, row |-> None,
                                  new |-> FALSE]]
  /\ call' = [call EXCEPT ![r] = c]
  /\ Goto(r, "before")
  /\ UNCHANGED <<config, now, db, pending, jar, answer, links>>

-----------------------------------------------------------------------------
(* Hooks before the handler: admin, then anonymous                          *)

\* Whose ban counts: the user of the address that signs in, or of the session.
Screened(r) ==
  IF Op(r) = "sign-in-email" THEN UserWith(call[r].email)
  ELSE IF Op(r) \in NotScreened THEN None ELSE Caller(r)

Lapsed(u) == db.user[u].banExpires # None /\ db.user[u].banExpires < now

Before(r) ==
  LET u    == Screened(r)
      next == IF Op(r) \in LinkTargets THEN "note" ELSE Op(r) IN
  /\ At(r, "before")
  /\ IF ~Exists(u) \/ ~db.user[u].banned THEN Writes(r, next, db)
     ELSE IF ~Lapsed(u) THEN Refuse(r)
     ELSE Writes(r, next, [db EXCEPT !.user[u].banned = FALSE, !.user[u].banExpires = None])

\* An anonymous visitor at an endpoint that can end that is noted, under the
\* address of the request object.
NoteAnonymous(r) ==
  /\ At(r, "note")
  /\ Goto(r, Op(r))
  /\ pending' = IF Exists(Caller(r)) /\ db.user[Caller(r)].anonymous
                THEN [pending EXCEPT ![mem[r].address] = Caller(r)] ELSE pending
  /\ UNCHANGED <<config, now, db, jar, call, mem, answer, links>>

-----------------------------------------------------------------------------
(* Sessions                                                                 *)

\* Where a handler goes once its session has been created.
CreateSession(r) ==
  LET tables == [db EXCEPT !.session = @ \cup {[id |-> r, user |-> User(r), by |-> None]}] IN
  /\ At(r, "session")
  /\ CASE Op(r) \in LinkTargets -> Writes(r, "after", tables)
       [] Op(r) \in {"oidc-callback", "saml-acs"} -> Writes(r, "provision", tables)
       [] Op(r) = "impersonate" -> Writes(r, "mark", tables)
       [] OTHER -> Responds(r, {"session"} \cup IF mem[r].new THEN {"new"} ELSE {}, tables,
                            [jar[call[r].by] EXCEPT !.session = r])

DropSessions(r, u, to) ==
  Writes(r, to, [db EXCEPT !.session = {s \in @ : s.user # u}])

\* A removed user's accounts and row go after the sessions; memberships stay.
Target(r) == call[r].who

RemoveTarget(r) ==
  \/ /\ At(r, "drop-accounts")
     /\ Writes(r, "drop-target", [db EXCEPT !.account = {a \in @ : a.user # Target(r)}])
  \/ /\ At(r, "drop-target")
     /\ Finishes(r, {"ok"}, [db EXCEPT !.user[Target(r)] = None])
=============================================================================
