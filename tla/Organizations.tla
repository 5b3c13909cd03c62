---------------------------- MODULE Organizations ----------------------------
(***************************************************************************)
(* The organization plugin: organizations, members, invitations, teams and *)
(* custom roles, and the pointers sessions keep to an active organization  *)
(* and team.                                                               *)
(*                                                                         *)
(* A request's reads up to its first write are one step, and every write   *)
(* after them is a step.  A configuration says what is behind the adapter, *)
(* as in AccountSessions, and which calls are made.  Rows are named by the *)
(* request that inserted them; the rows of HomeOrg that are there from the *)
(* start are named by their user.  Every user has one session, and an      *)
(* e-mail address stands for its user.                                     *)
(***************************************************************************)
EXTENDS Naturals, FiniteSets

CONSTANTS
  Requests,          \* calls of an endpoint; each is made once
  Users,             \* the users, signed in throughout
  HomeOrg,           \* an organization that exists at the start
  HomeRoles,         \* [Users -> built-in role in HomeOrg, or None]
  Invited,           \* the users with a pending invitation to HomeOrg
  CustomRole,        \* the name of a role that is not built in
  Names,             \* slugs of organizations, names of teams
  HomeSlug,          \* the slug of HomeOrg
  Calls,             \* the calls of each scenario
  Configs,           \* the configurations that are looked at
  InvitationTTL,     \* invitation_expires_in
  MaxTime,           \* bound on the clock
  None

Ids    == Requests \cup Users
OrgIds == Requests \cup {HomeOrg}

\* DEFAULT_STATEMENTS and DEFAULT_ROLES.
Permissions ==
  {"organization.update", "organization.delete", "member.delete",
   "invitation.create", "invitation.cancel", "team.create", "team.update",
   "team.delete", "ac.create", "ac.read", "ac.update", "ac.delete"}

DefaultRoles == [owner  |-> Permissions,
                 admin  |-> Permissions \ {"organization.delete"},
                 member |-> {"ac.read"}]
BuiltIn == DOMAIN DefaultRoles
Roles   == BuiltIn \cup {CustomRole}

\* The endpoints that only read; "get-full" may also clear a pointer.
ReadOperations ==
  {"get", "list-members", "get-invitation", "list-teams", "list-roles",
   "get-active-member", "list-team-members", "has-permission"}

Operations == ReadOperations \cup
  {"create", "update", "delete", "set-active", "invite-member",
   "cancel-invitation", "accept-invitation", "reject-invitation",
   "remove-member", "update-member-role", "leave", "create-team",
   "update-team", "remove-team", "add-team-member", "remove-team-member",
   "set-active-team", "create-role", "update-role", "delete-role", "get-full"}

\* A request: the signed-in user, and what the body names.
Call == [op : Operations, user : Users, org : OrgIds \cup {None},
         item : Ids \cup {None}, who : Users \cup {None},
         name : Names \cup Roles \cup {None}, permissions : SUBSET Permissions]

\* suspends:           an adapter call may suspend the handler
\* enforcesReferences: the database checks foreign keys
\* requests:           how many requests are made
\* scenario:           the calls they may make
Config == [suspends : BOOLEAN, enforcesReferences : BOOLEAN,
           requests : Nat, scenario : DOMAIN Calls]

\* The fields that the model of a body requires; an organization's slug is made
\* from its name when it is left out, and an update is one that sets it.
Complete(c) ==
  /\ c.op \in {"create", "update", "create-team", "update-team"} => c.name \in Names
  /\ c.op = "create-role" => c.name \in Roles
  /\ c.op = "invite-member" => c.who \in Users

ASSUME ConstantsAssumption ==
  /\ \A s \in DOMAIN Calls : \A c \in Calls[s] : c \in Call /\ Complete(c)
  /\ Configs \subseteq Config
  /\ HomeRoles \in [Users -> BuiltIn \cup {None}]
  /\ \E u \in Users : HomeRoles[u] = "owner"
  /\ Invited \subseteq {u \in Users : HomeRoles[u] = None}
  /\ HomeSlug \in Names /\ CustomRole \notin BuiltIn
  /\ InvitationTTL \in Nat /\ MaxTime \in Nat
  /\ IsFiniteSet(Ids) /\ Requests \cap Users = {} /\ HomeOrg \notin Requests

VARIABLES
  config,    \* the configuration
  now,       \* int(time.time())
  db,        \* the tables, each a function from ids to rows or None
  pc, call,  \* what each request does next, and its session and body
  held,      \* held[r]: the member id or the invitation the handler found
  joined,    \* joined[i]: the member rows that invitation i has created
  shown      \* shown[r]: the organization whose rows a read answered with

vars == <<config, now, db, pc, call, held, joined, shown>>

MemberRow     == [org : OrgIds, user : Users, role : Roles]
InvitationRow == [org : OrgIds, user : Users, role : Roles, expiresAt : Nat,
                  status : {"pending", "accepted", "cancelled", "rejected", "expired"}]
TeamRow       == [org : OrgIds, name : Names]
TeamMemberRow == [team : Requests, user : Users]
RoleRow       == [org : OrgIds, role : Roles, permissions : SUBSET Permissions]

ASSUME NoneAssumption ==
  None \notin Ids \cup OrgIds \cup Names \cup Roles \cup Call \cup MemberRow
              \cup InvitationRow \cup TeamRow \cup TeamMemberRow \cup RoleRow

Tables ==
  [orgs        : [OrgIds -> Names \cup {None}],
   members     : [Ids -> MemberRow \cup {None}],
   invitations : [Ids -> InvitationRow \cup {None}],
   teams       : [Requests -> TeamRow \cup {None}],
   teamMembers : [Requests -> TeamMemberRow \cup {None}],
   roles       : [Requests -> RoleRow \cup {None}],
   active      : [Users -> OrgIds \cup {None}],
   activeTeam  : [Users -> Requests \cup {None}]]

\* An operation, what follows it, and the statuses that are still to be written.
PCs == Operations \cup
  {"idle", "create-org", "create-owner", "activate", "write-org",
   "members", "invitations", "teamMembers", "teams", "roles", "orgs", "deactivate",
   "insert-invitation", "join", "accepted", "cancelled", "rejected", "expired",
   "delete-member", "write-role", "insert-team", "write-team", "empty-team",
   "delete-team", "insert-team-member", "activate-team",
   "insert-role", "write-permissions", "drop-role", "done"}

TypeOK ==
  /\ config \in Configs
  /\ now \in 0 .. MaxTime
  /\ db \in Tables
  /\ pc \in [Requests -> PCs]
  /\ call \in [Requests -> Calls[config.scenario] \cup {None}]
  /\ held \in [Requests -> Ids \cup InvitationRow \cup {None}]
  /\ joined \in [Ids -> SUBSET Requests]
  /\ shown \in [Requests -> OrgIds \cup {None}]

Empty(S) == [s \in S |-> None]

HomeDb ==
  [orgs |-> [o \in OrgIds |-> IF o = HomeOrg THEN HomeSlug ELSE None],
   members |-> [i \in Ids |->
     IF i \in Users /\ HomeRoles[i] # None
     THEN [org |-> HomeOrg, user |-> i, role |-> HomeRoles[i]] ELSE None],
   invitations |-> [i \in Ids |->
     IF i \in Invited
     THEN [org |-> HomeOrg, user |-> i, role |-> "member",
           expiresAt |-> InvitationTTL, status |-> "pending"] ELSE None],
   teams |-> Empty(Requests), teamMembers |-> Empty(Requests),
   roles |-> Empty(Requests),
   active |-> [u \in Users |-> IF HomeRoles[u] = None THEN None ELSE HomeOrg],
   activeTeam |-> Empty(Users)]

Init ==
  /\ config \in Configs
  /\ now = 0
  /\ db = HomeDb
  /\ pc = [r \in Requests |-> "idle"]
  /\ call = Empty(Requests)
  /\ held = Empty(Requests)
  /\ joined = [i \in Ids |-> {}]
  /\ shown = Empty(Requests)

-----------------------------------------------------------------------------
(* Requests and the adapter                                                 *)

InHandler(r) == pc[r] \notin {"idle", "done"}
Scheduled(r) == config.suspends \/ \A q \in Requests \ {r} : ~InHandler(q)

At(r, at)   == pc[r] = at /\ Scheduled(r)
Goto(r, to) == pc' = [pc EXCEPT ![r] = to]
Finish(r)   == Goto(r, "done")

Op(r)  == call[r].op
Me(r)  == call[r].user
Org(r) == call[r].org
Item(r) == call[r].item

Rows(t) == {i \in DOMAIN db[t] : db[t][i] # None}
In(t, o) == {i \in Rows(t) : db[t][i].org = o}

\* find_one: any row that matches, or nothing.
FindOne(S) == IF S = {} THEN {None} ELSE S

MembersOf(o, u) == {i \in In("members", o) : db.members[i].user = u}
Owners(o)       == {i \in In("members", o) : db.members[i].role = "owner"}
TeamMembersOf(o) == {i \in Rows("teamMembers") : db.teamMembers[i].team \in In("teams", o)}

\* What a row refers to is there.
References(t, row) ==
  IF t = "teamMembers" THEN db.teams[row.team] # None ELSE db.orgs[row.org] # None

\* An insert that breaks a foreign key ends the request with a 500.
Insert(r, t, row, to) ==
  IF config.enforcesReferences /\ ~References(t, row)
  THEN Finish(r) /\ UNCHANGED db
  ELSE Goto(r, to) /\ db' = [db EXCEPT ![t][r] = row]

\* delete_many and delete.
Without(t, gone) ==
  [db EXCEPT ![t] = [i \in DOMAIN db[t] |-> IF i \in gone THEN None ELSE db[t][i]]]

\* The permission sets a role stands for; custom roles are layered on top.
Grants(o, role) ==
  IF role \in BuiltIn THEN {DefaultRoles[role]}
  ELSE {db.roles[i].permissions : i \in {j \in In("roles", o) : db.roles[j].role = role}}

RoleTable(o) == BuiltIn \cup {db.roles[i].role : i \in In("roles", o)}

\* The outcomes of _enforce_permission, the membership gate included.
Authorized(r, o, p) ==
  LET answers == {(p \in g) : g \in UNION {Grants(o, db.members[i].role) :
                                            i \in MembersOf(o, Me(r))}}
  IN IF answers = {} THEN {FALSE} ELSE answers

\* The first step of an operation: authorized and ok, or a 4xx.
Check(r, op, o, p, ok, to) ==
  /\ At(r, op)
  /\ \E allowed \in Authorized(r, o, p) :
       Goto(r, IF allowed /\ ok THEN to ELSE "done")
  /\ UNCHANGED <<config, now, db, call, held, joined, shown>>

Quiet == UNCHANGED <<config, now, call, held, joined, shown>>

-----------------------------------------------------------------------------
(* Organizations                                                            *)

Begin(r, c) ==
  /\ pc[r] = "idle" /\ Scheduled(r)
  /\ Cardinality({q \in Requests : pc[q] # "idle"}) < config.requests
  /\ c \in Calls[config.scenario]
  /\ Goto(r, c.op)
  /\ call' = [call EXCEPT ![r] = c]
  /\ UNCHANGED <<config, now, db, held, joined, shown>>

SlugTaken(name) == \E o \in OrgIds : db.orgs[o] = name

CreateOrganization(r) ==
  /\ At(r, "create")
  /\ Goto(r, IF SlugTaken(call[r].name) THEN "done" ELSE "create-org")
  /\ UNCHANGED db /\ Quiet

\* organization.slug is unique.
InsertOrganization(r) ==
  /\ At(r, "create-org")
  /\ IF SlugTaken(call[r].name)
     THEN Finish(r) /\ UNCHANGED db
     ELSE Goto(r, "create-owner") /\ db' = [db EXCEPT !.orgs[r] = call[r].name]
  /\ Quiet

InsertOwner(r) ==
  /\ At(r, "create-owner")
  /\ Insert(r, "members", [org |-> r, user |-> Me(r), role |-> "owner"], "activate")
  /\ Quiet

\* _set_active_organization, of the new organization or of the one named.
\* keepCurrentActiveOrganization leaves the pointer alone.
Activate(r) ==
  /\ At(r, "activate")
  /\ Finish(r)
  /\ \/ db' = [db EXCEPT !.active[Me(r)] = IF Op(r) = "create" THEN r ELSE Org(r)]
     \/ Op(r) = "create" /\ UNCHANGED db
  /\ Quiet

SetActive(r) ==
  /\ At(r, "set-active")
  /\ Goto(r, IF Org(r) = None \/ MembersOf(Org(r), Me(r)) # {} THEN "activate" ELSE "done")
  /\ UNCHANGED db /\ Quiet

UpdateOrganization(r) ==
  Check(r, "update", Org(r), "organization.update",
        ~SlugTaken(call[r].name), "write-org")

WriteOrganization(r) ==
  /\ At(r, "write-org")
  /\ Finish(r)
  /\ db' = IF db.orgs[Org(r)] = None \/ SlugTaken(call[r].name) THEN db
           ELSE [db EXCEPT !.orgs[Org(r)] = call[r].name]
  /\ Quiet

DeleteOrganization(r) ==
  Check(r, "delete", Org(r), "organization.delete", TRUE, "members")

\* The tables the deletion goes through, in the code's order.
AfterTable == [members |-> "invitations", invitations |-> "teamMembers",
               teamMembers |-> "teams", teams |-> "roles", roles |-> "orgs"]

\* Mutant of Cascaded: team memberships are left to the teams.
CascadedButTeamMembers(t, o) == IF t = "teamMembers" THEN {} ELSE In(t, o)

Cascaded(t, o) == IF t = "teamMembers" THEN TeamMembersOf(o) ELSE In(t, o)

\* A delete of a team that a membership still names is refused.
Cascade(r, t) ==
  /\ At(r, t)
  /\ IF t = "teams" /\ config.enforcesReferences /\ TeamMembersOf(Org(r)) # {}
     THEN Finish(r) /\ UNCHANGED db
     ELSE Goto(r, AfterTable[t]) /\ db' = Without(t, Cascaded(t, Org(r)))
  /\ Quiet

DropOrganization(r) ==
  LET referenced == \E t \in DOMAIN AfterTable \ {"teamMembers"} : In(t, Org(r)) # {} IN
  /\ At(r, "orgs")
  /\ IF config.enforcesReferences /\ referenced
     THEN Finish(r) /\ UNCHANGED db
     ELSE Goto(r, "deactivate") /\ db' = Without("orgs", {Org(r)})
  /\ Quiet

\* Deleting clears every session that points at the organization, leaving
\* and get-full-organization only the caller's.
Deactivate(r) ==
  LET pointing == {u \in Users : db.active[u] = Org(r)} IN
  /\ At(r, "deactivate")
  /\ Finish(r)
  /\ db' = Without("active", IF Op(r) = "delete" THEN pointing ELSE pointing \cap {Me(r)})
  /\ Quiet

-----------------------------------------------------------------------------
(* Invitations                                                              *)

Pending(i) == db.invitations[i].status = "pending"

\* Mutant of InviteMember: any name passes for a role.
InviteWithAnyRole(r) ==
  Check(r, "invite-member", Org(r), "invitation.create",
        MembersOf(Org(r), call[r].who) = {}, "insert-invitation")

InviteMember(r) ==
  Check(r, "invite-member", Org(r), "invitation.create",
        /\ call[r].name \in RoleTable(Org(r))
        /\ ~\E i \in In("invitations", Org(r)) :
              db.invitations[i].user = call[r].who /\ Pending(i)
        /\ MembersOf(Org(r), call[r].who) = {},
        "insert-invitation")

InsertInvitation(r) ==
  /\ At(r, "insert-invitation")
  /\ Insert(r, "invitations",
            [org |-> Org(r), user |-> call[r].who, role |-> call[r].name,
             expiresAt |-> now + InvitationTTL, status |-> "pending"], "done")
  /\ Quiet

\* Neither cancelling nor rejecting looks at the status.
CancelInvitation(r) ==
  /\ pc[r] = "cancel-invitation" /\ Item(r) \in Rows("invitations")
  /\ Check(r, "cancel-invitation", db.invitations[Item(r)].org,
           "invitation.cancel", TRUE, "cancelled")

RejectInvitation(r) ==
  /\ At(r, "reject-invitation")
  /\ Goto(r, IF Item(r) \in Rows("invitations") /\ db.invitations[Item(r)].user = Me(r)
             THEN "rejected" ELSE "done")
  /\ UNCHANGED db /\ Quiet

\* Mutant of Acceptable: like the other decisions, no look at the status.
AcceptableAnyway(r) == Item(r) \in Rows("invitations")

\* The invitation exists and is pending.
Acceptable(r) == Item(r) \in Rows("invitations") /\ Pending(Item(r))

AcceptInvitation(r) ==
  LET invite == db.invitations[Item(r)] IN
  /\ At(r, "accept-invitation")
  /\ Goto(r,
       IF ~Acceptable(r) THEN "done"
       ELSE IF invite.expiresAt < now THEN "expired"
       ELSE IF invite.user # Me(r) THEN "done"
       ELSE IF MembersOf(invite.org, Me(r)) # {} THEN "accepted"
       ELSE "join")
  /\ held' = [held EXCEPT ![r] = IF Acceptable(r) THEN invite ELSE None]
  /\ UNCHANGED <<config, now, db, call, joined, shown>>

\* member(organizationId, userId) has no unique index.
Join(r) ==
  /\ At(r, "join")
  /\ Insert(r, "members",
            [org |-> held[r].org, user |-> Me(r), role |-> held[r].role], "accepted")
  /\ joined' = [joined EXCEPT ![Item(r)] = IF pc'[r] = "done" THEN @ ELSE @ \cup {r}]
  /\ UNCHANGED <<config, now, call, held, shown>>

\* A decision is written over whatever status the row has by then.
WriteStatus(r) ==
  LET status == pc[r] IN
  /\ status \in {"accepted", "cancelled", "rejected", "expired"} /\ Scheduled(r)
  /\ Finish(r)
  /\ db' = IF Item(r) \in Rows("invitations")
           THEN [db EXCEPT !.invitations[Item(r)].status = status] ELSE db
  /\ Quiet

InvitationNotFound(r) ==
  /\ At(r, "cancel-invitation")
  /\ Item(r) \notin Rows("invitations")
  /\ Finish(r)
  /\ UNCHANGED db /\ Quiet

-----------------------------------------------------------------------------
(* Members                                                                  *)

\* Mutant of LastOwner: an organization may lose its last owner.
LastOwnerIgnored(i) == FALSE

\* _count_owners(organization) <= 1, for a target that is an owner.
LastOwner(i) ==
  /\ db.members[i].role = "owner"
  /\ Cardinality(Owners(db.members[i].org)) <= 1

Found(r, i, to) ==
  /\ Goto(r, to)
  /\ held' = [held EXCEPT ![r] = i]
  /\ UNCHANGED <<config, now, db, call, joined, shown>>

\* The member is named by its id, or by the user's e-mail address.
RemoveMember(r) ==
  /\ At(r, "remove-member")
  /\ \E i \in FindOne(In("members", Org(r)) \cap
                      ({Item(r)} \cup MembersOf(Org(r), call[r].who))),
        allowed \in Authorized(r, Org(r), "member.delete") :
       Found(r, i, IF i = None \/ ~allowed THEN "done"
                   ELSE IF LastOwner(i) THEN "done" ELSE "delete-member")

LeaveOrganization(r) ==
  /\ At(r, "leave")
  /\ \E i \in FindOne(MembersOf(Org(r), Me(r))) :
       Found(r, i, IF i = None THEN "done"
                   ELSE IF LastOwner(i) THEN "done" ELSE "delete-member")

DeleteMember(r) ==
  /\ At(r, "delete-member")
  /\ Goto(r, IF Op(r) = "leave" THEN "deactivate" ELSE "done")
  /\ db' = Without("members", {held[r]})
  /\ Quiet

\* Only an owner changes roles, and only to one in the table.
UpdateMemberRole(r) ==
  /\ At(r, "update-member-role")
  /\ \E i \in FindOne(In("members", Org(r)) \cap {Item(r)}),
        m \in FindOne(MembersOf(Org(r), Me(r))) :
       Found(r, i,
         IF i = None \/ m = None THEN "done"
         ELSE IF \/ db.members[m].role # "owner"
                 \/ call[r].name \notin RoleTable(Org(r))
                 \/ call[r].name # "owner" /\ LastOwner(i)
              THEN "done" ELSE "write-role")

WriteMemberRole(r) ==
  /\ At(r, "write-role")
  /\ Finish(r)
  /\ db' = IF held[r] \in Rows("members")
           THEN [db EXCEPT !.members[held[r]].role = call[r].name] ELSE db
  /\ Quiet

-----------------------------------------------------------------------------
(* Teams                                                                    *)

CreateTeam(r) ==
  Check(r, "create-team", Org(r), "team.create",
        ~\E t \in In("teams", Org(r)) : db.teams[t].name = call[r].name, "insert-team")

InsertTeam(r) ==
  /\ At(r, "insert-team")
  /\ Insert(r, "teams", [org |-> Org(r), name |-> call[r].name], "done")
  /\ Quiet

UpdateTeam(r) == Check(r, "update-team", Org(r), "team.update", TRUE, "write-team")

\* The name is not looked up again.
WriteTeam(r) ==
  /\ At(r, "write-team")
  /\ Finish(r)
  /\ db' = IF Item(r) \in In("teams", Org(r))
           THEN [db EXCEPT !.teams[Item(r)].name = call[r].name] ELSE db
  /\ Quiet

RemoveTeam(r) == Check(r, "remove-team", Org(r), "team.delete", TRUE, "empty-team")

\* The memberships are found by the team's id alone, the team also by its
\* organization.
EmptyTeam(r) ==
  /\ At(r, "empty-team")
  /\ Goto(r, IF Op(r) = "remove-team" THEN "delete-team" ELSE "done")
  /\ db' = Without("teamMembers",
             {i \in Rows("teamMembers") :
                /\ db.teamMembers[i].team = Item(r)
                /\ Op(r) = "remove-team" \/ db.teamMembers[i].user = call[r].who})
  /\ Quiet

DeleteTeam(r) ==
  LET named == \E i \in Rows("teamMembers") : db.teamMembers[i].team = Item(r) IN
  /\ At(r, "delete-team")
  /\ Finish(r)
  /\ db' = IF config.enforcesReferences /\ named THEN db
           ELSE Without("teams", {Item(r)} \cap In("teams", Org(r)))
  /\ Quiet

\* The user must be a member of the organization.
AddTeamMember(r) ==
  Check(r, "add-team-member", Org(r), "team.update",
        /\ Item(r) \in In("teams", Org(r))
        /\ MembersOf(Org(r), call[r].who) # {}, "insert-team-member")

InsertTeamMember(r) ==
  /\ At(r, "insert-team-member")
  /\ Insert(r, "teamMembers", [team |-> Item(r), user |-> call[r].who], "done")
  /\ Quiet

RemoveTeamMember(r) ==
  Check(r, "remove-team-member", Org(r), "team.update", TRUE, "empty-team")

InTeam(t, u) ==
  \E i \in Rows("teamMembers") : db.teamMembers[i] = [team |-> t, user |-> u]

\* The team must be one of the active organization, and the user in it.
SetActiveTeam(r) ==
  LET t == Item(r) IN
  /\ At(r, "set-active-team")
  /\ Goto(r, IF t = None THEN "activate-team"
             ELSE IF /\ db.active[Me(r)] # None
                     /\ t \in In("teams", db.active[Me(r)])
                     /\ InTeam(t, Me(r)) THEN "activate-team" ELSE "done")
  /\ UNCHANGED db /\ Quiet

ActivateTeam(r) ==
  /\ At(r, "activate-team")
  /\ Finish(r)
  /\ db' = [db EXCEPT !.activeTeam[Me(r)] = Item(r)]
  /\ Quiet

-----------------------------------------------------------------------------
(* Custom roles                                                             *)

RolesNamed(o, name) == {i \in In("roles", o) : db.roles[i].role = name}

CreateRole(r) ==
  Check(r, "create-role", Org(r), "ac.create",
        call[r].name \notin RoleTable(Org(r)), "insert-role")

InsertRole(r) ==
  /\ At(r, "insert-role")
  /\ Insert(r, "roles", [org |-> Org(r), role |-> call[r].name,
                         permissions |-> call[r].permissions], "done")
  /\ Quiet

UpdateRole(r) == Check(r, "update-role", Org(r), "ac.update", TRUE, "write-permissions")

WritePermissions(r) ==
  /\ At(r, "write-permissions")
  /\ Finish(r)
  /\ \E i \in FindOne(RolesNamed(Org(r), call[r].name)) :
       db' = IF i = None THEN db
             ELSE [db EXCEPT !.roles[i].permissions = call[r].permissions]
  /\ Quiet

\* Members that have the role keep its name.
DeleteRole(r) ==
  Check(r, "delete-role", Org(r), "ac.delete",
        call[r].name \notin BuiltIn, "drop-role")

DropRole(r) ==
  /\ At(r, "drop-role")
  /\ Finish(r)
  /\ \E i \in FindOne(RolesNamed(Org(r), call[r].name)) : db' = Without("roles", {i})
  /\ Quiet

-----------------------------------------------------------------------------
(* Reads                                                                    *)

Answer(r, o) ==
  /\ Finish(r)
  /\ shown' = [shown EXCEPT ![r] = o]
  /\ UNCHANGED <<config, now, db, call, held, joined>>

\* The organization a read answers about, None for an error.
Visible(r) ==
  LET o == IF Op(r) = "get-active-member" THEN db.active[Me(r)] ELSE Org(r)
      t == IF Item(r) = None THEN db.activeTeam[Me(r)] ELSE Item(r) IN
  CASE Op(r) = "get-invitation" ->
         IF /\ Item(r) \in Rows("invitations") /\ Pending(Item(r))
            /\ db.invitations[Item(r)].expiresAt >= now
            /\ db.invitations[Item(r)].user = Me(r)
         THEN db.invitations[Item(r)].org ELSE None
    [] Op(r) = "list-team-members" ->
         IF t \in Rows("teams") /\ InTeam(t, Me(r)) THEN db.teams[t].org ELSE None
    [] OTHER -> IF MembersOf(o, Me(r)) # {} THEN o ELSE None

Read(r) ==
  /\ pc[r] \in ReadOperations /\ Scheduled(r)
  /\ Answer(r, Visible(r))

\* get-full-organization, of the organization named or of the active one,
\* clears the pointer of a caller who is no member.
GetFullOrganization(r) ==
  LET o == IF Org(r) = None THEN db.active[Me(r)] ELSE Org(r) IN
  /\ At(r, "get-full")
  /\ \/ /\ o \in Rows("orgs") => MembersOf(o, Me(r)) # {}
        /\ Answer(r, IF o \in Rows("orgs") THEN o ELSE None)
     \/ /\ o \in Rows("orgs") /\ MembersOf(o, Me(r)) = {}
        /\ Finish(r)
        /\ db' = Without("active", {Me(r)})
        /\ Quiet

-----------------------------------------------------------------------------
Tick ==
  /\ now < MaxTime
  /\ now' = now + 1
  /\ UNCHANGED <<config, db, pc, call, held, joined, shown>>

Handle(r) ==
  \/ CreateOrganization(r) \/ InsertOrganization(r) \/ InsertOwner(r)
  \/ Activate(r) \/ SetActive(r)
  \/ UpdateOrganization(r) \/ WriteOrganization(r)
  \/ DeleteOrganization(r)
  \/ \E t \in DOMAIN AfterTable : Cascade(r, t)
  \/ DropOrganization(r) \/ Deactivate(r)
  \/ InviteMember(r) \/ InsertInvitation(r)
  \/ CancelInvitation(r) \/ InvitationNotFound(r) \/ RejectInvitation(r)
  \/ AcceptInvitation(r) \/ Join(r) \/ WriteStatus(r)
  \/ RemoveMember(r) \/ LeaveOrganization(r) \/ DeleteMember(r)
  \/ UpdateMemberRole(r) \/ WriteMemberRole(r)
  \/ CreateTeam(r) \/ InsertTeam(r) \/ UpdateTeam(r) \/ WriteTeam(r)
  \/ RemoveTeam(r) \/ EmptyTeam(r) \/ DeleteTeam(r)
  \/ AddTeamMember(r) \/ InsertTeamMember(r) \/ RemoveTeamMember(r)
  \/ SetActiveTeam(r) \/ ActivateTeam(r)
  \/ CreateRole(r) \/ InsertRole(r) \/ UpdateRole(r) \/ WritePermissions(r)
  \/ DeleteRole(r) \/ DropRole(r)
  \/ Read(r) \/ GetFullOrganization(r)

Next ==
  \/ Tick
  \/ \E r \in Requests : Handle(r) \/ \E c \in Calls[config.scenario] : Begin(r, c)

Spec == Init /\ [][Next]_vars

-----------------------------------------------------------------------------
(* Properties                                                               *)

\* Requests that are creating or deleting organization o.
Working(o) ==
  {r \in Requests : /\ InHandler(r)
                    /\ Op(r) \in {"create", "delete"}
                    /\ o = IF Op(r) = "create" THEN r ELSE Org(r)}

\* Where a handler is not interrupted, no sequence of leaving, removing,
\* demoting and joining leaves an organization without an owner.
OwnersRemain ==
  ~config.suspends =>
    \A o \in Rows("orgs") : Working(o) # {} \/ Owners(o) # {}

\* An invitation lets its recipient in once, also after he left, whatever is
\* accepted, cancelled or rejected again, and never makes a second row of the
\* same member.  The row it makes belongs to somebody an organization invited.
InvitationsAdmitOnce ==
  ~config.suspends =>
    /\ \A i \in Ids : Cardinality(joined[i]) <= 1
    /\ \A o \in OrgIds, u \in Users : Cardinality(MembersOf(o, u)) <= 1

\* Deleting an organization leaves no row that names it and no session that
\* points at it, where handlers are not interrupted; where they are, foreign
\* keys still keep every member, invitation, team and role to a living one.
NothingLeftBehind ==
  /\ (~config.suspends \/ config.enforcesReferences) =>
       \A t \in {"members", "invitations", "teams", "roles"} :
         \A i \in Rows(t) : db.orgs[db[t][i].org] # None
  /\ (~config.suspends \/ config.enforcesReferences) =>
       \A i \in Rows("teamMembers") : db.teams[db.teamMembers[i].team] # None
  /\ ~config.suspends =>
       \A u \in Users : db.active[u] # None /\ Working(db.active[u]) = {}
                        => db.orgs[db.active[u]] # None

OnceMember(o, u) ==
  \/ o = HomeOrg /\ HomeRoles[u] # None
  \/ \E r \in Requests : /\ call[r] # None /\ Me(r) = u
                        /\ \/ o = r /\ Op(r) = "create"
                           \/ (\E i \in Ids : r \in joined[i]) /\ held[r].org = o

\* An organization's members, teams and roles are shown only to somebody who
\* is or has been a member of it.  (Team memberships outlive the member's row,
\* so that one who was removed still reads his team.)
ShownToMembers ==
  \A r \in Requests :
    shown[r] # None /\ Op(r) # "get-invitation" => OnceMember(shown[r], Me(r))

\* Nobody is in an organization, or shown one, but by an invitation that was
\* used once, by founding it, or by having been there from the start.
MembershipIsEarned == InvitationsAdmitOnce /\ ShownToMembers
=============================================================================
