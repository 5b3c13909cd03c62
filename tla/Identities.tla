----------------------------- MODULE Identities ----------------------------
(***************************************************************************)
(* Social sign-in, single sign-on, directory provisioning, administration  *)
(* and visitors together, on one set of users, accounts and sessions, and  *)
(* what a session and the user directory may be relied on for.             *)
(***************************************************************************)
EXTENDS SocialSignIn, Directories, Administration, Visitors

Tick ==
  /\ now < config.clock
  /\ now' = now + 1
  /\ UNCHANGED <<config, db, pending, jar, pc, call, mem, answer, links>>

Next ==
  \/ Tick
  \/ \E r \in Requests :
       \/ \E c \in Calls[config.scenario] : Begin(r, c)
       \/ Before(r) \/ NoteAnonymous(r) \/ CreateSession(r) \/ RemoveTarget(r)
       \/ SocialStep(r) \/ SsoStep(r) \/ ScimStep(r) \/ AdminStep(r) \/ VisitorStep(r)

Spec == Init /\ [][Next]_vars

-----------------------------------------------------------------------------
(* Properties                                                               *)

InTurn == ~config.suspends
AtRest == InTurn /\ \A r \in Requests : ~InHandler(r)
AtMostOne(S) == Cardinality(S) <= 1
SignedInBy(r) == "session" \in answer[r]

\* Whose session token t was made for, whether the session is still there or not.
OwnerOf(t) == IF t \in Requests THEN User(t) ELSE t

\* A state an identity provider sends back is spent: it signs one browser in, with
\* the provider it was issued for, whatever runs in between.
StatesAreSpent ==
  \A q \in Requests :
    LET callbacks == {r \in Requests : /\ pc[r] # "idle" /\ Op(r) = "oidc-callback"
                                       /\ call[r].given = q /\ SignedInBy(r)} IN
    AtMostOne(callbacks) /\ \A r \in callbacks : call[r].provider = call[q].provider

\* When requests take turns, a banned user has no session from before the ban, and
\* none since that an e-mail address and password were given for.
BansHold ==
  AtRest => \A s \in db.session :
    db.user[s.user].banned => s.id \in Requests /\ Op(s.id) # "sign-in-email"

\* When requests take turns, an admin acting for another user is led back to
\* that admin's own session, however many went on in the browser before.
ImpersonationLeadsBack ==
  InTurn => \A b \in Browsers, s \in db.session :
    jar[b].session = s.id /\ s.by # None /\ jar[b].admin # None => OwnerOf(jar[b].admin) = s.by

\* When requests take turns, a client is sent to the page for new users by the
\* generic sign-in that made its user, and by no other.
NewcomersAreTold ==
  InTurn => \A r \in Requests :
    SignedInBy(r) /\ Op(r) = "oauth2-callback" => ("new" \in answer[r] <=> User(r) = r)

SessionsAreDue == NewcomersAreTold /\ StatesAreSpent /\ BansHold /\ ImpersonationLeadsBack

\* Between requests that take turns, sessions and accounts have users (accounts of
\* anonymous visitors who left aside); an identity at a provider is one user's, one
\* tap aside, which goes by the address; nobody is twice in an organization; a
\* domain is verified by who has its newest token, and for a provider there is; a
\* directory connection has one token, and is listed the users it may look at.
DirectoryIsSound ==
  AtRest =>
    /\ \A s \in db.session : Exists(s.user)
    /\ \A a \in db.account : Exists(a.user) \/ (a.user \in Requests /\ Op(a.user) = "sign-in-anonymous")
    /\ \A a, b \in db.account :
         /\ a # b /\ a.provider = b.provider /\ a.subject = b.subject
         => \/ a.provider \notin Providers
            \/ \E i \in {a.id, b.id} \cap Requests : Op(i) = "one-tap"
    /\ \A m, n \in db.member : m.user = n.user /\ m.org = n.org => m = n
    /\ \A d \in db.domain :
         /\ SsoRows(d.provider) # {}
         /\ d.verified => \E r \in Requests :
              pc[r] = "done" /\ Op(r) = "verify-domain" /\ call[r].given = d.token
    /\ \A c \in Connections : AtMostOne(ConnectionRows(c))
    /\ \A row \in db.scim : ListedUsers(row) = {u \in Ids : Provisioned(row, u) # {}}
=============================================================================
