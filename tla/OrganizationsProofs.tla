------------------------- MODULE OrganizationsProofs -------------------------
(***************************************************************************)
(* Proofs about Organizations, for all requests, users, organizations,     *)
(* scenarios of calls and configurations.                                  *)
(***************************************************************************)
EXTENDS Organizations, FiniteSetTheorems, TLAPS

-----------------------------------------------------------------------------
(* The inductive invariant                                                  *)

Asked(r) == call[r] \in Call /\ Complete(call[r])

\* Where a handler is tells what it was called for, and of what it asked that
\* it was checked.
HandlerOK(r) ==
  /\ pc[r] = "idle" => call[r] = None
  /\ pc[r] # "idle" => Asked(r)
  /\ pc[r] \in Operations => Op(r) = pc[r]
  /\ pc[r] \in {"create-org", "create-owner"} => Op(r) = "create"
  /\ pc[r] = "activate" => Op(r) \in {"create", "set-active"}
  /\ pc[r] = "write-org" => Op(r) = "update" /\ Org(r) \in OrgIds
  /\ pc[r] \in DOMAIN AfterTable \cup {"orgs"} => Op(r) = "delete" /\ Org(r) \in OrgIds
  /\ pc[r] = "deactivate" => Op(r) = "leave" \/ (Op(r) = "delete" /\ Org(r) \in OrgIds)
  /\ pc[r] = "insert-invitation" =>
       /\ Op(r) = "invite-member" /\ Org(r) \in OrgIds /\ call[r].name \in Roles
  /\ pc[r] \in {"join", "accepted", "expired"} => Op(r) = "accept-invitation"
  /\ pc[r] = "join" => held[r] \in InvitationRow /\ Item(r) \in Ids
  /\ pc[r] = "cancelled" => Op(r) = "cancel-invitation"
  /\ pc[r] = "rejected" => Op(r) = "reject-invitation"
  /\ pc[r] = "delete-member" => Op(r) \in {"remove-member", "leave"} /\ held[r] \in Ids
  /\ pc[r] = "write-role" => Op(r) = "update-member-role" /\ call[r].name \in Roles
  /\ pc[r] = "insert-team" => Op(r) = "create-team" /\ Org(r) \in OrgIds
  /\ pc[r] = "write-team" => Op(r) = "update-team"
  /\ pc[r] = "empty-team" => Op(r) \in {"remove-team", "remove-team-member"}
  /\ pc[r] = "delete-team" => Op(r) = "remove-team"
  /\ pc[r] = "insert-team-member" =>
       /\ Op(r) = "add-team-member" /\ Org(r) \in OrgIds
       /\ Item(r) \in Requests /\ call[r].who \in Users
  /\ pc[r] = "activate-team" => Op(r) = "set-active-team" /\ Item(r) \in Requests \cup {None}
  /\ pc[r] = "insert-role" => Op(r) = "create-role" /\ Org(r) \in OrgIds
  /\ pc[r] = "write-permissions" => Op(r) = "update-role"
  /\ pc[r] = "drop-role" => Op(r) = "delete-role"

HandlersOK == \A r \in Requests : HandlerOK(r)

\* A request inserts one row, of its own name, and has inserted it when it has
\* come this far.
Inserted(r, t) ==
  pc[r] \in CASE t = "orgs"    -> {"create-owner", "activate", "done"}
              [] t = "members" -> {"activate", "accepted", "done"}
              [] OTHER         -> {"done"}

RowsAreFresh ==
  \A r \in Requests :
    /\ \A t \in {"orgs", "members", "invitations", "teams", "teamMembers", "roles"} :
         db[t][r] # None => Inserted(r, t)
    /\ joined[r] # {} => pc[r] = "done"
    /\ pc[r] = "join" /\ Item(r) \in Requests => pc[Item(r)] = "done"

\* An organization has its first owner before any row names it.
Founded(o) == o = HomeOrg \/ pc[o] \in {"activate", "done"}

NamedOrgsAreFounded ==
  /\ \A i \in Rows("members") : Founded(db.members[i].org)
  /\ \A i \in Rows("invitations") : Founded(db.invitations[i].org)
  /\ \A r \in Requests : pc[r] = "insert-invitation" => Founded(Org(r))
  /\ \A r \in Requests : pc[r] = "join" => Founded(held[r].org)

\* Who has a member or team member row earned it; a team is of the organization
\* that its members were checked for, and is not inserted again.
MembersEarned ==
  /\ \A i \in Rows("members") : OnceMember(db.members[i].org, db.members[i].user)
  /\ \A i \in Rows("teamMembers") :
       LET m == db.teamMembers[i] IN
       /\ pc[m.team] = "done"
       /\ db.teams[m.team] # None => OnceMember(db.teams[m.team].org, m.user)
  /\ \A r \in Requests : pc[r] = "insert-team-member" =>
       /\ pc[Item(r)] = "done"
       /\ OnceMember(Org(r), call[r].who)
       /\ db.teams[Item(r)] # None => db.teams[Item(r)].org = Org(r)
  /\ \A i \in Ids : \A r \in joined[i] :
       /\ pc[r] \in {"accepted", "done"} /\ Item(r) = i
  /\ \A r \in Requests : shown[r] # None => pc[r] = "done"

\* How far request r has got with deleting organization o.
Deleting(r, o) == pc[r] \in DOMAIN AfterTable \cup {"orgs"} /\ Org(r) = o

Alone == \A r, q \in Requests : InHandler(r) /\ InHandler(q) => r = q

Staffed ==
  \A o \in Rows("orgs") :
    \/ Owners(o) # {}
    \/ \E r \in Requests : (pc[r] = "create-owner" /\ o = r) \/ Deleting(r, o)

\* What a handler that is alone is about to do leaves an owner.
StaysStaffed ==
  \A r \in Requests :
    /\ pc[r] = "create-owner" => db.orgs[r] # None
    /\ pc[r] = "activate" /\ Op(r) = "create" => Owners(r) # {} /\ db.orgs[r] # None
    /\ pc[r] = "delete-member" \/ (pc[r] = "write-role" /\ call[r].name # "owner") =>
         \A o \in Rows("orgs") : Owners(o) \ {held[r]} # {}

\* One row for each member, and no way in that was used.
OneRowEach ==
  \A i, j \in Rows("members") :
    /\ db.members[i].org = db.members[j].org
    /\ db.members[i].user = db.members[j].user
    => i = j

UsedUp ==
  /\ \A i \in Ids : joined[i] = {} \/ \E r \in Requests : joined[i] = {r}
  /\ \A i \in Rows("invitations") :
       Pending(i) /\ joined[i] # {} => \E r \in Requests : pc[r] = "accepted" /\ Item(r) = i
  /\ \A r \in Requests : pc[r] = "join" =>
       joined[Item(r)] = {} /\ MembersOf(held[r].org, Me(r)) = {}

\* The tables that are empty of the organization when the next is dealt with.
Emptied ==
  [members |-> {}, invitations |-> {"members"},
   teamMembers |-> {"members", "invitations"},
   teams |-> {"members", "invitations"},
   roles |-> {"members", "invitations", "teams"},
   orgs |-> {"members", "invitations", "teams", "roles"}]

OrgTables == {"members", "invitations", "teams", "roles"}

DeletesAll ==
  \A r \in Requests :
    /\ pc[r] \in DOMAIN Emptied => \A t \in Emptied[pc[r]] : In(t, Org(r)) = {}
    /\ pc[r] = "teams" => TeamMembersOf(Org(r)) = {}
    /\ pc[r] = "delete-team" =>
         \A i \in Rows("teamMembers") : db.teamMembers[i].team # Item(r)
    /\ pc[r] \in {"insert-invitation", "insert-team", "insert-role"} => db.orgs[Org(r)] # None
    /\ pc[r] = "join" => db.orgs[held[r].org] # None
    /\ pc[r] = "insert-team-member" => db.teams[Item(r)] # None
    /\ pc[r] = "activate" /\ Op(r) = "set-active" => Org(r) = None \/ db.orgs[Org(r)] # None

OrgsThere == \A t \in OrgTables : \A i \in Rows(t) : db.orgs[db[t][i].org] # None
TeamsThere == \A i \in Rows("teamMembers") : db.teams[db.teamMembers[i].team] # None

ActiveThere ==
  \A u \in Users : db.active[u] # None =>
    \/ db.orgs[db.active[u]] # None
    \/ \E r \in Requests : pc[r] = "deactivate" /\ Op(r) = "delete" /\ Org(r) = db.active[u]

InTurn ==
  ~config.suspends =>
    /\ Alone /\ Staffed /\ StaysStaffed /\ OneRowEach /\ UsedUp /\ DeletesAll /\ ActiveThere

ReferencesOK ==
  ~config.suspends \/ config.enforcesReferences => OrgsThere /\ TeamsThere

IInv ==
  /\ TypeOK /\ HandlersOK /\ RowsAreFresh /\ NamedOrgsAreFounded /\ MembersEarned
  /\ ShownToMembers /\ InTurn /\ ReferencesOK

-----------------------------------------------------------------------------
(* Tables                                                                   *)

TableNames ==
  {"orgs", "members", "invitations", "teams", "teamMembers", "roles", "active", "activeTeam"}

\* The tables and their rows.
LEMMA TableTypes ==
  ASSUME TypeOK
  PROVE  /\ db.orgs \in [OrgIds -> Names \cup {None}]
         /\ db.members \in [Ids -> MemberRow \cup {None}]
         /\ db.invitations \in [Ids -> InvitationRow \cup {None}]
         /\ db.teams \in [Requests -> TeamRow \cup {None}]
         /\ db.teamMembers \in [Requests -> TeamMemberRow \cup {None}]
         /\ db.roles \in [Requests -> RoleRow \cup {None}]
         /\ db.active \in [Users -> OrgIds \cup {None}]
         /\ db.activeTeam \in [Users -> Requests \cup {None}]
         /\ DOMAIN db = TableNames
PROOF BY Zenon DEF TypeOK, Tables, TableNames

\* A write of a table leaves the others alone.
LEMMA Written ==
  ASSUME TypeOK, NEW t \in TableNames, NEW f, db' = [db EXCEPT ![t] = f]
  PROVE  db'[t] = f /\ \A u \in TableNames \ {t} : db'[u] = db[u]
PROOF BY TableTypes, Zenon

\* The rows of a table, by name.
LEMMA RowsOf ==
  ASSUME TypeOK
  PROVE  /\ Rows("orgs") = {o \in OrgIds : db.orgs[o] # None}
         /\ Rows("members") = {i \in Ids : db.members[i] # None}
         /\ Rows("invitations") = {i \in Ids : db.invitations[i] # None}
         /\ Rows("teams") = {i \in Requests : db.teams[i] # None}
         /\ Rows("teamMembers") = {i \in Requests : db.teamMembers[i] # None}
         /\ Rows("roles") = {i \in Requests : db.roles[i] # None}
PROOF
  <1>1. /\ DOMAIN db.orgs = OrgIds /\ DOMAIN db.members = Ids /\ DOMAIN db.invitations = Ids
        /\ DOMAIN db.teams = Requests /\ DOMAIN db.teamMembers = Requests
        /\ DOMAIN db.roles = Requests
    BY TableTypes
  <1> QED BY <1>1 DEF Rows

\* A check ends a request, or lets it go on for a member of the organization.
Passed(r, op, o, to) ==
  /\ At(r, op)
  /\ UNCHANGED <<config, now, db, call, held, joined, shown>>
  /\ Goto(r, "done") \/ (Goto(r, to) /\ o \in OrgIds /\ MembersOf(o, Me(r)) # {})

\* What the checks that come before the writes of a handler establish.
LEMMA Checks ==
  ASSUME TypeOK, NEW r \in Requests
  PROVE  /\ UpdateOrganization(r) => Passed(r, "update", Org(r), "write-org")
         /\ DeleteOrganization(r) => Passed(r, "delete", Org(r), "members")
         /\ InviteMember(r) => Passed(r, "invite-member", Org(r), "insert-invitation")
         /\ CancelInvitation(r) =>
              Passed(r, "cancel-invitation", db.invitations[Item(r)].org, "cancelled")
         /\ CreateTeam(r) => Passed(r, "create-team", Org(r), "insert-team")
         /\ UpdateTeam(r) => Passed(r, "update-team", Org(r), "write-team")
         /\ RemoveTeam(r) => Passed(r, "remove-team", Org(r), "empty-team")
         /\ AddTeamMember(r) => Passed(r, "add-team-member", Org(r), "insert-team-member")
         /\ RemoveTeamMember(r) => Passed(r, "remove-team-member", Org(r), "empty-team")
         /\ CreateRole(r) => Passed(r, "create-role", Org(r), "insert-role")
         /\ UpdateRole(r) => Passed(r, "update-role", Org(r), "write-permissions")
         /\ DeleteRole(r) => Passed(r, "delete-role", Org(r), "drop-role")
         /\ InviteMember(r) => Goto(r, "done") \/ call[r].name \in RoleTable(Org(r))
         /\ AddTeamMember(r) =>
              \/ Goto(r, "done")
              \/ /\ Item(r) \in In("teams", Org(r))
                 /\ MembersOf(Org(r), call[r].who) # {}
PROOF
  <1>1. ASSUME NEW o, NEW p, NEW allowed \in Authorized(r, o, p), allowed
        PROVE  o \in OrgIds /\ MembersOf(o, Me(r)) # {}
    <2>1. Authorized(r, o, p) # {FALSE}
      BY <1>1
    <2>2. MembersOf(o, Me(r)) # {}
      BY <2>1 DEF Authorized
    <2>3. PICK i \in Rows("members") : db.members[i].org = o
      BY <2>2, Zenon DEF MembersOf, In
    <2>4. db.members[i] \in MemberRow
      BY <2>3, TableTypes, RowsOf
    <2> QED BY <2>2, <2>3, <2>4 DEF MemberRow
  <1>2. UpdateOrganization(r) => Passed(r, "update", Org(r), "write-org")
    BY <1>1 DEF UpdateOrganization, Check, Passed
  <1>3. DeleteOrganization(r) => Passed(r, "delete", Org(r), "members")
    BY <1>1 DEF DeleteOrganization, Check, Passed
  <1>4. InviteMember(r) => Passed(r, "invite-member", Org(r), "insert-invitation")
    BY <1>1 DEF InviteMember, Check, Passed
  <1>5. CancelInvitation(r) =>
          Passed(r, "cancel-invitation", db.invitations[Item(r)].org, "cancelled")
    BY <1>1 DEF CancelInvitation, Check, Passed
  <1>6. CreateTeam(r) => Passed(r, "create-team", Org(r), "insert-team")
    BY <1>1 DEF CreateTeam, Check, Passed
  <1>7. UpdateTeam(r) => Passed(r, "update-team", Org(r), "write-team")
    BY <1>1 DEF UpdateTeam, Check, Passed
  <1>8. RemoveTeam(r) => Passed(r, "remove-team", Org(r), "empty-team")
    BY <1>1 DEF RemoveTeam, Check, Passed
  <1>9. AddTeamMember(r) => Passed(r, "add-team-member", Org(r), "insert-team-member")
    BY <1>1 DEF AddTeamMember, Check, Passed
  <1>10. RemoveTeamMember(r) => Passed(r, "remove-team-member", Org(r), "empty-team")
    BY <1>1 DEF RemoveTeamMember, Check, Passed
  <1>11. CreateRole(r) => Passed(r, "create-role", Org(r), "insert-role")
    BY <1>1 DEF CreateRole, Check, Passed
  <1>12. UpdateRole(r) => Passed(r, "update-role", Org(r), "write-permissions")
    BY <1>1 DEF UpdateRole, Check, Passed
  <1>13. DeleteRole(r) => Passed(r, "delete-role", Org(r), "drop-role")
    BY <1>1 DEF DeleteRole, Check, Passed
  <1>14. InviteMember(r) => Goto(r, "done") \/ call[r].name \in RoleTable(Org(r))
    BY DEF InviteMember, Check
  <1>15. AddTeamMember(r) =>
           \/ Goto(r, "done")
           \/ /\ Item(r) \in In("teams", Org(r))
              /\ MembersOf(Org(r), call[r].who) # {}
    BY DEF AddTeamMember, Check
  <1> QED
    BY <1>2, <1>3, <1>4, <1>5, <1>6, <1>7, <1>8, <1>9, <1>10, <1>11, <1>12, <1>13, <1>14, <1>15

-----------------------------------------------------------------------------
(* Steps                                                                    *)

\* Request r begins, or goes on.
StepOf(r) == Handle(r) \/ \E c \in Calls[config.scenario] : Begin(r, c)

\* A step writes no table but t.
Touches(t) == db' = db \/ \E f : db' = [db EXCEPT ![t] = f]

\* A step that writes one table leaves the others as they are.
LEMMA Untouched ==
  ASSUME TypeOK, NEW t \in TableNames, Touches(t)
  PROVE  \A u \in TableNames \ {t} : db'[u] = db[u]
PROOF BY Written, Zenon DEF Touches

\* The steps that read only.
Reading(r) ==
  \/ CreateOrganization(r) \/ SetActive(r) \/ UpdateOrganization(r) \/ DeleteOrganization(r)
  \/ InviteMember(r) \/ CancelInvitation(r) \/ InvitationNotFound(r) \/ RejectInvitation(r)
  \/ AcceptInvitation(r) \/ RemoveMember(r) \/ LeaveOrganization(r) \/ UpdateMemberRole(r)
  \/ CreateTeam(r) \/ UpdateTeam(r) \/ RemoveTeam(r) \/ AddTeamMember(r)
  \/ RemoveTeamMember(r) \/ SetActiveTeam(r) \/ CreateRole(r) \/ UpdateRole(r)
  \/ DeleteRole(r) \/ Read(r)

LEMMA ReadingOnly ==
  ASSUME TypeOK, NEW r \in Requests, Reading(r)
  PROVE  db' = db /\ joined' = joined
PROOF
  <1>1. CASE \/ CreateOrganization(r) \/ SetActive(r) \/ InvitationNotFound(r)
             \/ RejectInvitation(r) \/ AcceptInvitation(r) \/ RemoveMember(r)
             \/ LeaveOrganization(r) \/ UpdateMemberRole(r) \/ SetActiveTeam(r) \/ Read(r)
    BY <1>1, Zenon DEF CreateOrganization, SetActive, InvitationNotFound, RejectInvitation,
       AcceptInvitation, RemoveMember, LeaveOrganization, UpdateMemberRole, SetActiveTeam,
       Read, Quiet, Found, Answer
  <1>2. CASE \/ UpdateOrganization(r) \/ DeleteOrganization(r) \/ InviteMember(r)
             \/ CancelInvitation(r) \/ CreateTeam(r) \/ UpdateTeam(r) \/ RemoveTeam(r)
             \/ AddTeamMember(r) \/ RemoveTeamMember(r) \/ CreateRole(r) \/ UpdateRole(r)
             \/ DeleteRole(r)
    BY <1>2, Checks, Zenon DEF Passed
  <1> QED BY <1>1, <1>2, Zenon DEF Reading

\* Which table a step of a request writes.
LEMMA Writes ==
  ASSUME TypeOK, NEW r \in Requests, Handle(r)
  PROVE  \/ Reading(r)
         \/ /\ Touches("orgs")
            /\ InsertOrganization(r) \/ WriteOrganization(r) \/ DropOrganization(r)
         \/ /\ Touches("members")
            /\ \/ InsertOwner(r) \/ Join(r) \/ Cascade(r, "members")
               \/ DeleteMember(r) \/ WriteMemberRole(r)
         \/ /\ Touches("invitations")
            /\ InsertInvitation(r) \/ Cascade(r, "invitations") \/ WriteStatus(r)
         \/ /\ Touches("teams")
            /\ InsertTeam(r) \/ WriteTeam(r) \/ Cascade(r, "teams") \/ DeleteTeam(r)
         \/ /\ Touches("teamMembers")
            /\ InsertTeamMember(r) \/ EmptyTeam(r) \/ Cascade(r, "teamMembers")
         \/ /\ Touches("roles")
            /\ InsertRole(r) \/ WritePermissions(r) \/ Cascade(r, "roles") \/ DropRole(r)
         \/ Touches("active") /\ (Activate(r) \/ Deactivate(r) \/ GetFullOrganization(r))
         \/ Touches("activeTeam") /\ ActivateTeam(r)
PROOF
  <1>0. DOMAIN AfterTable = {"members", "invitations", "teamMembers", "teams", "roles"}
    BY DEF AfterTable
  <1>1. InsertOrganization(r) \/ WriteOrganization(r) \/ DropOrganization(r) => Touches("orgs")
    BY Zenon DEF InsertOrganization, WriteOrganization, DropOrganization, Without, Touches
  <1>2. InsertOwner(r) \/ Join(r) \/ DeleteMember(r) \/ WriteMemberRole(r) => Touches("members")
    BY Zenon DEF InsertOwner, Join, Insert, DeleteMember, WriteMemberRole, Without, Touches
  <1>3. InsertInvitation(r) \/ WriteStatus(r) => Touches("invitations")
    BY Zenon DEF InsertInvitation, WriteStatus, Insert, Touches
  <1>4. InsertTeam(r) \/ WriteTeam(r) \/ DeleteTeam(r) => Touches("teams")
    BY Zenon DEF InsertTeam, WriteTeam, DeleteTeam, Insert, Without, Touches
  <1>5. InsertTeamMember(r) \/ EmptyTeam(r) => Touches("teamMembers")
    BY Zenon DEF InsertTeamMember, EmptyTeam, Insert, Without, Touches
  <1>6. InsertRole(r) \/ WritePermissions(r) \/ DropRole(r) => Touches("roles")
    BY Zenon DEF InsertRole, WritePermissions, DropRole, Insert, Without, Touches
  <1>7. Activate(r) \/ Deactivate(r) \/ GetFullOrganization(r) => Touches("active")
    BY Zenon DEF Activate, Deactivate, GetFullOrganization, Answer, Without, Touches
  <1>8. ActivateTeam(r) => Touches("activeTeam")
    BY Zenon DEF ActivateTeam, Touches
  <1>9. ASSUME NEW t, Cascade(r, t)
        PROVE  Touches(t)
    BY <1>9, Zenon DEF Cascade, Without, Touches
  <1> QED
    BY <1>0, <1>1, <1>2, <1>3, <1>4, <1>5, <1>6, <1>7, <1>8, <1>9, Zenon DEF Handle, Reading

\* A request moves on by itself, and only while it has the turn; its call is
\* recorded when it begins and stays.
LEMMA Moves ==
  ASSUME TypeOK, NEW r \in Requests, StepOf(r)
  PROVE  /\ Scheduled(r) /\ config' = config /\ now' = now
         /\ pc[r] # "done" /\ \E to \in PCs \ {"idle"} : pc' = [pc EXCEPT ![r] = to]
         /\ call' = call \/ \E c : Begin(r, c)
         /\ pc[r] # "idle" => call' = call
         /\ Handle(r) => pc[r] # "idle"
PROOF
  <1> USE DEF At, Goto, Finish, PCs, Operations, ReadOperations
  <1>1. ASSUME NEW c, Begin(r, c)
        PROVE  /\ Scheduled(r) /\ config' = config /\ now' = now /\ pc[r] = "idle"
               /\ pc' = [pc EXCEPT ![r] = c.op]
    BY <1>1, Zenon DEF Begin
  <1>2. ASSUME NEW c \in Calls[config.scenario]
        PROVE  c.op \in PCs \ {"idle"}
    <2>1. c \in Call
      BY ConstantsAssumption DEF TypeOK, Config
    <2> QED BY <2>1, SMT DEF Call
  <1>3. CASE Reading(r)
    <2>1. CASE \/ CreateOrganization(r) \/ SetActive(r) \/ InvitationNotFound(r)
               \/ RejectInvitation(r) \/ AcceptInvitation(r) \/ RemoveMember(r)
      BY <2>1, SMT DEF CreateOrganization, SetActive, InvitationNotFound, RejectInvitation,
         AcceptInvitation, RemoveMember, Quiet, Found
    <2>2. CASE LeaveOrganization(r) \/ UpdateMemberRole(r) \/ SetActiveTeam(r) \/ Read(r)
      BY <2>2, SMT DEF LeaveOrganization, UpdateMemberRole, SetActiveTeam, Read, Quiet, Found,
         Answer, ReadOperations
    <2>3. CASE \/ UpdateOrganization(r) \/ DeleteOrganization(r) \/ InviteMember(r)
               \/ CancelInvitation(r) \/ CreateTeam(r) \/ UpdateTeam(r) \/ RemoveTeam(r)
               \/ AddTeamMember(r) \/ RemoveTeamMember(r) \/ CreateRole(r) \/ UpdateRole(r)
               \/ DeleteRole(r)
      BY <2>3, Checks, SMT DEF Passed
    <2> QED BY <1>3, <2>1, <2>2, <2>3, Zenon DEF Reading
  <1>4. CASE \/ InsertOrganization(r) \/ WriteOrganization(r) \/ DropOrganization(r)
             \/ InsertOwner(r) \/ Join(r) \/ DeleteMember(r) \/ WriteMemberRole(r)
    BY <1>4, SMT DEF InsertOrganization, WriteOrganization, DropOrganization, InsertOwner, Join,
       DeleteMember, WriteMemberRole, Insert, Quiet
  <1>5. CASE \/ InsertInvitation(r) \/ WriteStatus(r) \/ InsertTeam(r) \/ WriteTeam(r)
             \/ DeleteTeam(r) \/ InsertTeamMember(r) \/ EmptyTeam(r)
    BY <1>5, SMT DEF InsertInvitation, WriteStatus, InsertTeam, WriteTeam, DeleteTeam,
       InsertTeamMember, EmptyTeam, Insert, Quiet
  <1>6. CASE \/ InsertRole(r) \/ WritePermissions(r) \/ DropRole(r)
             \/ Activate(r) \/ Deactivate(r) \/ GetFullOrganization(r) \/ ActivateTeam(r)
    BY <1>6, SMT DEF InsertRole, WritePermissions, DropRole, Activate, Deactivate,
       GetFullOrganization, ActivateTeam, Insert, Quiet, Answer
  <1>7. ASSUME NEW t \in DOMAIN AfterTable, Cascade(r, t)
        PROVE  /\ Scheduled(r) /\ config' = config /\ now' = now /\ pc[r] = t /\ call' = call
               /\ t \notin {"done", "idle"}
               /\ \E to \in PCs \ {"idle"} : pc' = [pc EXCEPT ![r] = to]
    BY <1>7, SMT DEF Cascade, AfterTable, Quiet
  <1>8. CASE Handle(r)
    BY <1>3, <1>4, <1>5, <1>6, <1>7, <1>8, Zenon DEF Handle, Reading
  <1> QED
    <2>1. CASE ~Handle(r)
      BY <1>1, <1>2, <2>1, SMT DEF StepOf
    <2> QED BY <1>8, <2>1

\* Where a handler is says which step it takes next.
LEMMA Where ==
  ASSUME TypeOK, NEW r \in Requests, Handle(r)
  PROVE
    /\ pc[r] = "create" => CreateOrganization(r)
    /\ pc[r] = "create-org" => InsertOrganization(r)
    /\ pc[r] = "create-owner" => InsertOwner(r)
    /\ pc[r] = "activate" => Activate(r)
    /\ pc[r] = "set-active" => SetActive(r)
    /\ pc[r] = "update" => UpdateOrganization(r)
    /\ pc[r] = "write-org" => WriteOrganization(r)
    /\ pc[r] = "delete" => DeleteOrganization(r)
    /\ pc[r] = "orgs" => DropOrganization(r)
    /\ pc[r] = "deactivate" => Deactivate(r)
    /\ pc[r] = "invite-member" => InviteMember(r)
    /\ pc[r] = "insert-invitation" => InsertInvitation(r)
    /\ pc[r] = "reject-invitation" => RejectInvitation(r)
    /\ pc[r] = "accept-invitation" => AcceptInvitation(r)
    /\ pc[r] = "join" => Join(r)
    /\ pc[r] = "remove-member" => RemoveMember(r)
    /\ pc[r] = "leave" => LeaveOrganization(r)
    /\ pc[r] = "delete-member" => DeleteMember(r)
    /\ pc[r] = "update-member-role" => UpdateMemberRole(r)
    /\ pc[r] = "write-role" => WriteMemberRole(r)
    /\ pc[r] = "create-team" => CreateTeam(r)
    /\ pc[r] = "insert-team" => InsertTeam(r)
    /\ pc[r] = "update-team" => UpdateTeam(r)
    /\ pc[r] = "write-team" => WriteTeam(r)
    /\ pc[r] = "remove-team" => RemoveTeam(r)
    /\ pc[r] = "empty-team" => EmptyTeam(r)
    /\ pc[r] = "delete-team" => DeleteTeam(r)
    /\ pc[r] = "add-team-member" => AddTeamMember(r)
    /\ pc[r] = "insert-team-member" => InsertTeamMember(r)
    /\ pc[r] = "remove-team-member" => RemoveTeamMember(r)
    /\ pc[r] = "set-active-team" => SetActiveTeam(r)
    /\ pc[r] = "activate-team" => ActivateTeam(r)
    /\ pc[r] = "create-role" => CreateRole(r)
    /\ pc[r] = "insert-role" => InsertRole(r)
    /\ pc[r] = "update-role" => UpdateRole(r)
    /\ pc[r] = "write-permissions" => WritePermissions(r)
    /\ pc[r] = "delete-role" => DeleteRole(r)
    /\ pc[r] = "drop-role" => DropRole(r)
    /\ pc[r] = "get-full" => GetFullOrganization(r)
    /\ pc[r] = "cancel-invitation" => CancelInvitation(r) \/ InvitationNotFound(r)
    /\ pc[r] \in {"accepted", "cancelled", "rejected", "expired"} => WriteStatus(r)
    /\ pc[r] \in DOMAIN AfterTable => Cascade(r, pc[r])
    /\ pc[r] \in ReadOperations => Read(r)
PROOF
  <1>1. /\ CreateOrganization(r) => pc[r] = "create"
        /\ InsertOrganization(r) => pc[r] = "create-org"
        /\ InsertOwner(r) => pc[r] = "create-owner"
        /\ Activate(r) => pc[r] = "activate"
        /\ SetActive(r) => pc[r] = "set-active"
        /\ WriteOrganization(r) => pc[r] = "write-org"
        /\ DropOrganization(r) => pc[r] = "orgs"
        /\ Deactivate(r) => pc[r] = "deactivate"
        /\ InsertInvitation(r) => pc[r] = "insert-invitation"
        /\ RejectInvitation(r) => pc[r] = "reject-invitation"
        /\ AcceptInvitation(r) => pc[r] = "accept-invitation"
        /\ Join(r) => pc[r] = "join"
        /\ RemoveMember(r) => pc[r] = "remove-member"
        /\ LeaveOrganization(r) => pc[r] = "leave"
        /\ DeleteMember(r) => pc[r] = "delete-member"
        /\ UpdateMemberRole(r) => pc[r] = "update-member-role"
        /\ WriteMemberRole(r) => pc[r] = "write-role"
        /\ InsertTeam(r) => pc[r] = "insert-team"
        /\ WriteTeam(r) => pc[r] = "write-team"
        /\ EmptyTeam(r) => pc[r] = "empty-team"
        /\ DeleteTeam(r) => pc[r] = "delete-team"
        /\ InsertTeamMember(r) => pc[r] = "insert-team-member"
        /\ SetActiveTeam(r) => pc[r] = "set-active-team"
        /\ ActivateTeam(r) => pc[r] = "activate-team"
        /\ InsertRole(r) => pc[r] = "insert-role"
        /\ WritePermissions(r) => pc[r] = "write-permissions"
        /\ DropRole(r) => pc[r] = "drop-role"
        /\ GetFullOrganization(r) => pc[r] = "get-full"
    BY Zenon DEF At, CreateOrganization, InsertOrganization, InsertOwner, Activate,
       SetActive, WriteOrganization, DropOrganization, Deactivate, InsertInvitation,
       RejectInvitation, AcceptInvitation, Join, RemoveMember, LeaveOrganization,
       DeleteMember, UpdateMemberRole, WriteMemberRole, InsertTeam, WriteTeam, EmptyTeam,
       DeleteTeam, InsertTeamMember, SetActiveTeam, ActivateTeam, InsertRole,
       WritePermissions, DropRole, GetFullOrganization
  <1>2. /\ UpdateOrganization(r) => pc[r] = "update"
        /\ DeleteOrganization(r) => pc[r] = "delete"
        /\ InviteMember(r) => pc[r] = "invite-member"
        /\ CreateTeam(r) => pc[r] = "create-team"
        /\ UpdateTeam(r) => pc[r] = "update-team"
        /\ RemoveTeam(r) => pc[r] = "remove-team"
        /\ AddTeamMember(r) => pc[r] = "add-team-member"
        /\ RemoveTeamMember(r) => pc[r] = "remove-team-member"
        /\ CreateRole(r) => pc[r] = "create-role"
        /\ UpdateRole(r) => pc[r] = "update-role"
        /\ DeleteRole(r) => pc[r] = "delete-role"
    BY Checks, Zenon DEF At, Passed
  <1>3. /\ CancelInvitation(r) \/ InvitationNotFound(r) => pc[r] = "cancel-invitation"
        /\ WriteStatus(r) => pc[r] \in {"accepted", "cancelled", "rejected", "expired"}
        /\ \A t : Cascade(r, t) => pc[r] = t
        /\ Read(r) => pc[r] \in ReadOperations
    BY Zenon DEF At, CancelInvitation, InvitationNotFound, WriteStatus, Cascade, Read
  <1> QED BY <1>1, <1>2, <1>3, SMT DEF Handle, ReadOperations, AfterTable

\* What a request holds and was shown is its own, and stays from there on.
LEMMA Holds ==
  ASSUME TypeOK, NEW r \in Requests, StepOf(r)
  PROVE  /\ \/ held' = held
            \/ /\ pc[r] \in {"accept-invitation", "remove-member", "leave", "update-member-role"}
               /\ \E x : held' = [held EXCEPT ![r] = x]
         /\ \/ shown' = shown
            \/ pc'[r] = "done" /\ \E o : shown' = [shown EXCEPT ![r] = o]
         /\ joined' = joined \/ Join(r)
PROOF
  <1> USE DEF At
  <1>1. held' = held \/ AcceptInvitation(r) \/ \E i, to : Found(r, i, to) /\
           pc[r] \in {"remove-member", "leave", "update-member-role"}
    <2>1. ASSUME NEW c, Begin(r, c)
          PROVE  held' = held
      BY <2>1, Zenon DEF Begin
    <2>2. CASE Reading(r)
      BY <2>2, Checks, Zenon DEF Reading, Passed, CreateOrganization, SetActive,
         InvitationNotFound, RejectInvitation, RemoveMember, LeaveOrganization,
         UpdateMemberRole, SetActiveTeam, Read, Answer, Quiet
    <2>3. CASE Handle(r) /\ ~Reading(r)
      BY <2>3, Writes, Zenon DEF InsertOrganization, WriteOrganization, DropOrganization,
         InsertOwner, Join, Cascade, DeleteMember, WriteMemberRole, InsertInvitation,
         WriteStatus, InsertTeam, WriteTeam, DeleteTeam, InsertTeamMember, EmptyTeam, InsertRole,
         WritePermissions, DropRole, Activate, Deactivate, GetFullOrganization, ActivateTeam,
         Answer, Quiet
    <2> QED BY <2>1, <2>2, <2>3, Zenon DEF StepOf
  <1>2. shown' = shown \/ \E o : Answer(r, o)
    <2>1. ASSUME NEW c, Begin(r, c)
          PROVE  shown' = shown
      BY <2>1, Zenon DEF Begin
    <2>2. CASE Reading(r)
      BY <2>2, Checks, Zenon DEF Reading, Passed, CreateOrganization, SetActive,
         InvitationNotFound, RejectInvitation, AcceptInvitation, RemoveMember,
         LeaveOrganization, UpdateMemberRole, SetActiveTeam, Read, Found, Quiet
    <2>3. CASE Handle(r) /\ ~Reading(r)
      BY <2>3, Writes, Zenon DEF InsertOrganization, WriteOrganization, DropOrganization,
         InsertOwner, Join, Cascade, DeleteMember, WriteMemberRole, InsertInvitation,
         WriteStatus, InsertTeam, WriteTeam, DeleteTeam, InsertTeamMember, EmptyTeam, InsertRole,
         WritePermissions, DropRole, Activate, Deactivate, GetFullOrganization, ActivateTeam,
         Quiet
    <2> QED BY <2>1, <2>2, <2>3, Zenon DEF StepOf
  <1>3. joined' = joined \/ Join(r)
    <2>1. ASSUME NEW c, Begin(r, c)
          PROVE  joined' = joined
      BY <2>1, Zenon DEF Begin
    <2>3. CASE Handle(r) /\ ~Reading(r)
      BY <2>3, Writes, Zenon DEF InsertOrganization, WriteOrganization, DropOrganization,
         InsertOwner, Cascade, DeleteMember, WriteMemberRole, InsertInvitation,
         WriteStatus, InsertTeam, WriteTeam, DeleteTeam, InsertTeamMember, EmptyTeam, InsertRole,
         WritePermissions, DropRole, Activate, Deactivate, GetFullOrganization, ActivateTeam,
         Answer, Quiet
    <2> QED BY <2>1, <2>3, ReadingOnly, Zenon DEF StepOf
  <1>4. /\ AcceptInvitation(r) =>
             pc[r] = "accept-invitation" /\ \E x : held' = [held EXCEPT ![r] = x]
        /\ \A i, to : Found(r, i, to) => \E x : held' = [held EXCEPT ![r] = x]
        /\ \A o : Answer(r, o) => shown' = [shown EXCEPT ![r] = o] /\ pc'[r] = "done"
    BY Zenon DEF AcceptInvitation, Found, Answer, Finish, Goto, TypeOK
  <1> QED BY <1>1, <1>2, <1>3, <1>4, Zenon

-----------------------------------------------------------------------------
(* What handlers know                                                       *)

\* The members of an organization are users.
LEMMA MemberFacts ==
  ASSUME TypeOK, NEW o, NEW u, MembersOf(o, u) # {}
  PROVE  o \in OrgIds /\ u \in Users
PROOF
  <1>1. PICK i \in Rows("members") : db.members[i].org = o /\ db.members[i].user = u
    BY Zenon DEF MembersOf, In
  <1>2. db.members[i] \in MemberRow
    BY <1>1, TableTypes, RowsOf
  <1> QED BY <1>1, <1>2 DEF MemberRow

\* Roles that an organization knows are roles.
LEMMA KnownRoles ==
  ASSUME TypeOK, NEW o
  PROVE  RoleTable(o) \subseteq Roles
PROOF BY TableTypes, RowsOf DEF RoleTable, In, Roles, RoleRow

\* Where a handler goes from where it is.
Follows(from, to) ==
  \/ to = "done"
  \/ from = "create" /\ to = "create-org"
  \/ from = "create-org" /\ to = "create-owner"
  \/ from \in {"create-owner", "set-active"} /\ to = "activate"
  \/ from = "update" /\ to = "write-org"
  \/ from = "delete" /\ to = "members"
  \/ from = "members" /\ to = "invitations"
  \/ from = "invitations" /\ to = "teamMembers"
  \/ from = "teamMembers" /\ to = "teams"
  \/ from = "teams" /\ to = "roles"
  \/ from = "roles" /\ to = "orgs"
  \/ from \in {"orgs", "delete-member"} /\ to = "deactivate"
  \/ from = "invite-member" /\ to = "insert-invitation"
  \/ from = "cancel-invitation" /\ to = "cancelled"
  \/ from = "reject-invitation" /\ to = "rejected"
  \/ from = "accept-invitation" /\ to \in {"expired", "accepted", "join"}
  \/ from = "join" /\ to = "accepted"
  \/ from \in {"remove-member", "leave"} /\ to = "delete-member"
  \/ from = "update-member-role" /\ to = "write-role"
  \/ from = "create-team" /\ to = "insert-team"
  \/ from = "update-team" /\ to = "write-team"
  \/ from \in {"remove-team", "remove-team-member"} /\ to = "empty-team"
  \/ from = "empty-team" /\ to = "delete-team"
  \/ from = "add-team-member" /\ to = "insert-team-member"
  \/ from = "set-active-team" /\ to = "activate-team"
  \/ from = "create-role" /\ to = "insert-role"
  \/ from = "update-role" /\ to = "write-permissions"
  \/ from = "delete-role" /\ to = "drop-role"

\* A handler follows its stages in order.
LEMMA Followed ==
  ASSUME TypeOK, NEW r \in Requests, Handle(r)
  PROVE  Follows(pc[r], pc'[r])
PROOF
  <1>1. pc \in [Requests -> PCs]
    BY DEF TypeOK
  <1>2. ASSUME NEW op, NEW o, NEW to, Passed(r, op, o, to)
        PROVE  pc[r] = op /\ (pc'[r] = to \/ pc'[r] = "done")
    BY <1>1, <1>2, Zenon DEF Passed, At, Goto
  <1> USE DEF At, Goto, Finish, Follows
  <1>3. CASE \/ UpdateOrganization(r) \/ DeleteOrganization(r) \/ InviteMember(r)
             \/ CancelInvitation(r) \/ CreateTeam(r) \/ UpdateTeam(r) \/ RemoveTeam(r)
             \/ AddTeamMember(r) \/ RemoveTeamMember(r) \/ CreateRole(r) \/ UpdateRole(r)
             \/ DeleteRole(r)
    BY <1>2, <1>3, Checks, ZenonT(60)
  <1>4. CASE \/ CreateOrganization(r) \/ InsertOrganization(r) \/ InsertOwner(r) \/ Activate(r)
             \/ SetActive(r) \/ WriteOrganization(r) \/ DropOrganization(r) \/ Deactivate(r)
    BY <1>1, <1>4, SMT DEF CreateOrganization, InsertOrganization, InsertOwner, Activate,
       SetActive, WriteOrganization, DropOrganization, Deactivate, Insert
  <1>5. CASE \E t \in DOMAIN AfterTable : Cascade(r, t)
    BY <1>1, <1>5, SMT DEF Cascade, AfterTable
  <1>6. CASE \/ InsertInvitation(r) \/ InvitationNotFound(r) \/ RejectInvitation(r)
             \/ AcceptInvitation(r) \/ Join(r) \/ WriteStatus(r)
    BY <1>1, <1>6, SMT DEF InsertInvitation, InvitationNotFound, RejectInvitation,
       AcceptInvitation, Join, WriteStatus, Insert
  <1>7. CASE RemoveMember(r) \/ LeaveOrganization(r) \/ UpdateMemberRole(r)
    BY <1>1, <1>7, SMT DEF RemoveMember, LeaveOrganization, UpdateMemberRole, Found
  <1>8. CASE DeleteMember(r) \/ WriteMemberRole(r) \/ InsertTeam(r) \/ WriteTeam(r)
    BY <1>1, <1>8, SMT DEF DeleteMember, WriteMemberRole, InsertTeam, WriteTeam, Insert
  <1>9. CASE \/ EmptyTeam(r) \/ DeleteTeam(r) \/ InsertTeamMember(r) \/ ActivateTeam(r)
             \/ SetActiveTeam(r)
    BY <1>1, <1>9, SMT DEF EmptyTeam, DeleteTeam, InsertTeamMember, ActivateTeam,
       SetActiveTeam, Insert
  <1>10. CASE \/ InsertRole(r) \/ WritePermissions(r) \/ DropRole(r)
              \/ Read(r) \/ GetFullOrganization(r)
    BY <1>1, <1>10, SMT DEF InsertRole, WritePermissions, DropRole, Read, GetFullOrganization,
       Insert, Answer
  <1> QED
    BY <1>3, <1>4, <1>5, <1>6, <1>7, <1>8, <1>9, <1>10, Zenon DEF Handle

\* Wherever a step takes a request, what it knows there is so.
LEMMA HandlerStep ==
  ASSUME TypeOK, HandlersOK, NEW r \in Requests, StepOf(r)
  PROVE  HandlerOK(r)'
PROOF
  <1>1. pc \in [Requests -> PCs]
    BY DEF TypeOK
  <1>2. HandlerOK(r) /\ pc'[r] # "idle"
    BY <1>1, Moves, Zenon DEF HandlersOK
  <1>3. ASSUME NEW c \in Calls[config.scenario], Begin(r, c)
        PROVE  HandlerOK(r)'
    <2>1. c \in Call /\ Complete(c)
      BY ConstantsAssumption DEF TypeOK, Config
    <2>2. c.op \in Operations
      BY <2>1 DEF Call
    <2>3. call'[r] = c /\ pc'[r] = c.op
      BY <1>1, <1>3, Zenon DEF Begin, Goto, TypeOK
    <2>4. Asked(r)' /\ Op(r)' = c.op
      BY <2>1, <2>3 DEF Asked, Op
    <2> QED BY <2>2, <2>3, <2>4, SMT DEF HandlerOK, Operations, ReadOperations, AfterTable
  <1>4. ASSUME Handle(r)
        PROVE  HandlerOK(r)'
    <2>1. /\ call' = call /\ pc[r] # "idle" /\ Follows(pc[r], pc'[r])
          /\ pc[r] \notin {"accept-invitation", "remove-member", "leave", "update-member-role"}
               => held' = held
      BY <1>4, Moves, Holds, Followed DEF StepOf
    <2>2. /\ Asked(r)' /\ (Asked(r)' <=> Asked(r)) /\ Op(r)' = Op(r) /\ Org(r)' = Org(r)
          /\ Item(r)' = Item(r)
      BY <1>2, <2>1 DEF HandlerOK, Asked, Op, Org, Item
    <2>3. pc[r] \in Operations => Op(r) = pc[r]
      BY <1>2 DEF HandlerOK
    <2>4. ASSUME NEW op, NEW o, NEW to, Passed(r, op, o, to), pc'[r] # "done"
          PROVE  o \in OrgIds
      BY <1>1, <2>4, Zenon DEF Passed, Goto
    <2>5. pc'[r] \in {"write-org", "members", "insert-invitation", "insert-team",
                      "insert-team-member", "insert-role"} => Org(r) \in OrgIds
      <3>1. pc'[r] \in {"write-org", "members", "insert-invitation", "insert-team",
                        "insert-team-member", "insert-role"}
            => pc[r] \in {"update", "delete", "invite-member", "create-team",
                          "add-team-member", "create-role"}
        BY <2>1, SMT DEF Follows
      <3> QED BY <1>4, <2>4, <3>1, Where, Checks, SMT
    <2>6. pc'[r] = "insert-invitation" => call[r].name \in Roles
      <3>1. pc'[r] = "insert-invitation" => pc[r] = "invite-member"
        BY <2>1, SMT DEF Follows
      <3> QED BY <1>1, <1>4, <3>1, Where, Checks, KnownRoles, SMT DEF Goto
    <2>7. pc'[r] = "join" => held'[r] \in InvitationRow /\ Item(r) \in Ids
      <3> SUFFICES ASSUME pc'[r] = "join"
                   PROVE  held'[r] \in InvitationRow /\ Item(r) \in Ids
        OBVIOUS
      <3>1. AcceptInvitation(r)
        BY <1>4, <2>1, Where, SMT DEF Follows
      <3>2. Acceptable(r) /\ held'[r] = db.invitations[Item(r)]
        BY <1>1, <3>1, SMT DEF AcceptInvitation, Goto, TypeOK
      <3> QED BY <3>2, RowsOf, TableTypes DEF Acceptable
    <2>8. pc'[r] = "delete-member" => held'[r] \in Ids
      <3> SUFFICES ASSUME pc'[r] = "delete-member"
                   PROVE  held'[r] \in Ids
        OBVIOUS
      <3>1. pc[r] \in {"remove-member", "leave"} /\ (RemoveMember(r) \/ LeaveOrganization(r))
        BY <1>4, <2>1, Where, SMT DEF Follows
      <3>2. ASSUME NEW S, S \subseteq Rows("members"), NEW i \in FindOne(S), i # None
            PROVE  i \in Ids
        BY <3>2, RowsOf DEF FindOne
      <3>3. \E i \in Ids : Found(r, i, "delete-member")
        <4>1. CASE RemoveMember(r)
          <5>1. PICK i \in FindOne(In("members", Org(r)) \cap
                          ({Item(r)} \cup MembersOf(Org(r), call[r].who))) :
                  \E to : Found(r, i, to) /\ (i = None => to = "done")
            BY <4>1, Zenon DEF RemoveMember
          <5>2. i # None /\ Found(r, i, "delete-member")
            BY <1>1, <5>1, Zenon DEF Found, Goto
          <5> QED BY <3>2, <5>1, <5>2, Zenon DEF In
        <4>2. CASE LeaveOrganization(r)
          <5>1. PICK i \in FindOne(MembersOf(Org(r), Me(r))) :
                  \E to : Found(r, i, to) /\ (i = None => to = "done")
            BY <4>2, Zenon DEF LeaveOrganization
          <5>2. i # None /\ Found(r, i, "delete-member")
            BY <1>1, <5>1, Zenon DEF Found, Goto
          <5> QED BY <3>2, <5>1, <5>2, Zenon DEF In, MembersOf
        <4> QED BY <3>1, <4>1, <4>2
      <3> QED BY <3>3, Zenon DEF Found, TypeOK
    <2>9. pc'[r] = "write-role" => call[r].name \in Roles
      <3> SUFFICES ASSUME pc'[r] = "write-role"
                   PROVE  call[r].name \in Roles
        OBVIOUS
      <3>1. UpdateMemberRole(r)
        BY <1>4, <2>1, Where, SMT DEF Follows
      <3>2. call[r].name \in RoleTable(Org(r))
        BY <1>1, <3>1, SMT DEF UpdateMemberRole, Found, Goto
      <3> QED BY <3>2, KnownRoles
    <2>10. pc'[r] = "insert-team-member" => Item(r) \in Requests /\ call[r].who \in Users
      <3>1. pc'[r] = "insert-team-member" => pc[r] = "add-team-member"
        BY <2>1, SMT DEF Follows
      <3>2. pc'[r] = "insert-team-member" =>
              Item(r) \in In("teams", Org(r)) /\ MembersOf(Org(r), call[r].who) # {}
        BY <1>1, <1>4, <3>1, Where, Checks, SMT DEF Goto
      <3> QED BY <3>2, RowsOf, MemberFacts, Zenon DEF In
    <2>11. pc'[r] = "activate-team" => Item(r) \in Requests \cup {None}
      <3> SUFFICES ASSUME pc'[r] = "activate-team"
                   PROVE  Item(r) \in Requests \cup {None}
        OBVIOUS
      <3>1. SetActiveTeam(r)
        BY <1>4, <2>1, Where, SMT DEF Follows
      <3>2. Item(r) = None \/ Item(r) \in In("teams", db.active[Me(r)])
        BY <1>1, <3>1, SMT DEF SetActiveTeam, Goto
      <3> QED BY <3>2, RowsOf DEF In
    <2>12. /\ pc[r] = "delete-member" /\ pc'[r] = "deactivate" => Op(r) = "leave"
           /\ pc[r] = "empty-team" /\ pc'[r] = "delete-team" => Op(r) = "remove-team"
      <3>1. DeleteMember(r) /\ pc'[r] = "deactivate" => Op(r) = "leave"
        BY <1>1, SMT DEF DeleteMember, Goto
      <3>2. EmptyTeam(r) /\ pc'[r] = "delete-team" => Op(r) = "remove-team"
        BY <1>1, SMT DEF EmptyTeam, Goto
      <3> QED BY <1>4, <3>1, <3>2, Where
    <2>13. pc'[r] \notin Operations /\ pc'[r] # "idle"
      BY <1>2, <2>1, SMT DEF Follows, Operations, ReadOperations
    <2>14. /\ pc[r] \in {"create", "create-org", "create-owner"} => Op(r) = "create"
           /\ pc[r] = "set-active" => Op(r) = "set-active"
           /\ pc[r] = "update" => Op(r) = "update"
           /\ pc[r] = "delete" => Op(r) = "delete"
           /\ pc[r] \in DOMAIN AfterTable \cup {"orgs"} => Op(r) = "delete" /\ Org(r) \in OrgIds
           /\ pc[r] = "invite-member" => Op(r) = "invite-member"
           /\ pc[r] \in {"join", "accept-invitation"} => Op(r) = "accept-invitation"
           /\ pc[r] = "cancel-invitation" => Op(r) = "cancel-invitation"
           /\ pc[r] = "reject-invitation" => Op(r) = "reject-invitation"
      BY <1>2, <2>3, SMT DEF HandlerOK, Operations
    <2>15. /\ pc[r] = "remove-member" => Op(r) = "remove-member"
           /\ pc[r] = "leave" => Op(r) = "leave"
           /\ pc[r] = "update-member-role" => Op(r) = "update-member-role"
           /\ pc[r] = "create-team" => Op(r) = "create-team"
           /\ pc[r] = "update-team" => Op(r) = "update-team"
           /\ pc[r] = "remove-team" => Op(r) = "remove-team"
           /\ pc[r] = "remove-team-member" => Op(r) = "remove-team-member"
           /\ pc[r] = "add-team-member" => Op(r) = "add-team-member"
           /\ pc[r] = "set-active-team" => Op(r) = "set-active-team"
           /\ pc[r] = "create-role" => Op(r) = "create-role"
           /\ pc[r] = "update-role" => Op(r) = "update-role"
           /\ pc[r] = "delete-role" => Op(r) = "delete-role"
      BY <2>3, SMT DEF Operations
    <2>16. /\ pc'[r] \in {"create-org", "create-owner"} => Op(r) = "create"
           /\ pc'[r] = "activate" => Op(r) \in {"create", "set-active"}
           /\ pc'[r] = "write-org" => Op(r) = "update" /\ Org(r) \in OrgIds
           /\ pc'[r] \in DOMAIN AfterTable \cup {"orgs"} => Op(r) = "delete" /\ Org(r) \in OrgIds
           /\ pc'[r] = "deactivate" => Op(r) = "leave" \/ (Op(r) = "delete" /\ Org(r) \in OrgIds)
      BY <2>1, <2>5, <2>12, <2>14, SMT DEF Follows, AfterTable
    <2>17. /\ pc'[r] = "insert-invitation" => Op(r) = "invite-member" /\ Org(r) \in OrgIds
           /\ pc'[r] \in {"join", "accepted", "expired"} => Op(r) = "accept-invitation"
           /\ pc'[r] = "cancelled" => Op(r) = "cancel-invitation"
           /\ pc'[r] = "rejected" => Op(r) = "reject-invitation"
           /\ pc'[r] = "delete-member" => Op(r) \in {"remove-member", "leave"}
           /\ pc'[r] = "write-role" => Op(r) = "update-member-role"
      BY <2>1, <2>5, <2>14, <2>15, SMT DEF Follows
    <2>18. /\ pc'[r] = "insert-team" => Op(r) = "create-team" /\ Org(r) \in OrgIds
           /\ pc'[r] = "write-team" => Op(r) = "update-team"
           /\ pc'[r] = "empty-team" => Op(r) \in {"remove-team", "remove-team-member"}
           /\ pc'[r] = "delete-team" => Op(r) = "remove-team"
           /\ pc'[r] = "insert-team-member" => Op(r) = "add-team-member" /\ Org(r) \in OrgIds
           /\ pc'[r] = "activate-team" => Op(r) = "set-active-team"
           /\ pc'[r] = "insert-role" => Op(r) = "create-role" /\ Org(r) \in OrgIds
           /\ pc'[r] = "write-permissions" => Op(r) = "update-role"
           /\ pc'[r] = "drop-role" => Op(r) = "delete-role"
      BY <2>1, <2>5, <2>12, <2>15, SMT DEF Follows
    <2> QED BY <2>1, <2>2, <2>6, <2>7, <2>8, <2>9, <2>10, <2>11, <2>13, <2>16, <2>17, <2>18, Zenon
            DEF HandlerOK
  <1> QED BY <1>3, <1>4, Zenon DEF StepOf

-----------------------------------------------------------------------------
(* Rows                                                                     *)

\* What a step does not move stays with every other request.
LEMMA Others ==
  ASSUME TypeOK, NEW r \in Requests, StepOf(r)
  PROVE  /\ \A q \in Requests \ {r} :
              pc'[q] = pc[q] /\ call'[q] = call[q] /\ held'[q] = held[q] /\ shown'[q] = shown[q]
         /\ pc[r] # "idle" => call'[r] = call[r]
         /\ pc'[r] # "idle" /\ pc[r] # "done"
PROOF
  <1>1. pc' = pc \/ \E x : pc' = [pc EXCEPT ![r] = x]
    BY Moves
  <1>2. call' = call \/ \E x : call' = [call EXCEPT ![r] = x]
    BY Moves, Zenon DEF Begin
  <1>3. held' = held \/ \E x : held' = [held EXCEPT ![r] = x]
    BY Holds
  <1>4. shown' = shown \/ \E x : shown' = [shown EXCEPT ![r] = x]
    BY Holds
  <1>5. ASSUME NEW f, NEW g, NEW q \in Requests \ {r}, DOMAIN f = Requests,
               g = f \/ \E x : g = [f EXCEPT ![r] = x]
        PROVE  g[q] = f[q]
    BY <1>5, Zenon
  <1>6. /\ DOMAIN pc = Requests /\ DOMAIN call = Requests /\ DOMAIN held = Requests
        /\ DOMAIN shown = Requests
    BY DEF TypeOK
  <1>7. pc'[r] # "idle"
    BY Moves, Zenon DEF TypeOK
  <1> QED BY <1>1, <1>2, <1>3, <1>4, <1>5, <1>6, <1>7, Moves

\* The tables and who writes them.
LEMMA WhoWrites ==
  ASSUME TypeOK, NEW r \in Requests, StepOf(r)
  PROVE
    /\ \/ db'.orgs = db.orgs
       \/ InsertOrganization(r) \/ WriteOrganization(r) \/ DropOrganization(r)
    /\ \/ db'.members = db.members
       \/ InsertOwner(r) \/ Join(r) \/ Cascade(r, "members")
       \/ DeleteMember(r) \/ WriteMemberRole(r)
    /\ \/ db'.invitations = db.invitations
       \/ InsertInvitation(r) \/ Cascade(r, "invitations") \/ WriteStatus(r)
    /\ \/ db'.teams = db.teams
       \/ InsertTeam(r) \/ WriteTeam(r) \/ Cascade(r, "teams") \/ DeleteTeam(r)
    /\ \/ db'.teamMembers = db.teamMembers
       \/ InsertTeamMember(r) \/ EmptyTeam(r) \/ Cascade(r, "teamMembers")
    /\ \/ db'.roles = db.roles
       \/ InsertRole(r) \/ WritePermissions(r) \/ Cascade(r, "roles") \/ DropRole(r)
    /\ db'.active = db.active \/ Activate(r) \/ Deactivate(r) \/ GetFullOrganization(r)
    /\ db'.activeTeam = db.activeTeam \/ ActivateTeam(r)
PROOF
  <1>1. ASSUME NEW c, Begin(r, c)
        PROVE  db' = db
    BY <1>1, Zenon DEF Begin
  <1>2. Reading(r) => db' = db
    BY ReadingOnly
  <1>3. ASSUME NEW t \in TableNames, Touches(t)
        PROVE  \A u \in TableNames \ {t} : db'[u] = db[u]
    BY <1>3, Untouched
  <1>4. CASE Handle(r) /\ ~Reading(r)
    BY <1>3, <1>4, Writes, SMT DEF TableNames
  <1> QED BY <1>1, <1>2, <1>4, Zenon DEF StepOf

\* A table that is written is a table.
LEMMA Retyped ==
  ASSUME NEW d \in Tables, NEW f
  PROVE  /\ f \in [OrgIds -> Names \cup {None}] => [d EXCEPT !.orgs = f] \in Tables
         /\ f \in [Ids -> MemberRow \cup {None}] => [d EXCEPT !.members = f] \in Tables
         /\ f \in [Ids -> InvitationRow \cup {None}] => [d EXCEPT !.invitations = f] \in Tables
         /\ f \in [Requests -> TeamRow \cup {None}] => [d EXCEPT !.teams = f] \in Tables
         /\ f \in [Requests -> TeamMemberRow \cup {None}] => [d EXCEPT !.teamMembers = f] \in Tables
         /\ f \in [Requests -> RoleRow \cup {None}] => [d EXCEPT !.roles = f] \in Tables
         /\ f \in [Users -> OrgIds \cup {None}] => [d EXCEPT !.active = f] \in Tables
         /\ f \in [Users -> Requests \cup {None}] => [d EXCEPT !.activeTeam = f] \in Tables
PROOF BY Zenon DEF Tables

\* What the body of a request holds.
LEMMA Bodies ==
  ASSUME TypeOK, NEW r \in Requests, Asked(r)
  PROVE  /\ Me(r) \in Users /\ Org(r) \in OrgIds \cup {None} /\ Item(r) \in Ids \cup {None}
         /\ call[r].permissions \subseteq Permissions
         /\ Op(r) \in {"create", "update", "create-team", "update-team"} => call[r].name \in Names
         /\ Op(r) = "create-role" => call[r].name \in Roles
         /\ Op(r) = "invite-member" => call[r].who \in Users
PROOF BY SMT DEF Asked, Call, Complete, Me, Org, Item, Op

\* An insert adds a row of the request's name, or is refused.
LEMMA Inserts ==
  ASSUME TypeOK, NEW t \in TableNames, NEW r \in Requests, NEW row, NEW to,
         Insert(r, t, row, to)
  PROVE  \/ db' = db /\ pc'[r] = "done" /\ config.enforcesReferences
         \/ /\ pc'[r] = to /\ (config.enforcesReferences => References(t, row))
            /\ db' = [db EXCEPT ![t] = [db[t] EXCEPT ![r] = row]]
            /\ db'[t] = [db[t] EXCEPT ![r] = row]
PROOF
  <1>1. DOMAIN pc = Requests /\ DOMAIN db = TableNames
    BY TableTypes DEF TypeOK
  <1> QED BY <1>1, Zenon DEF Insert, Goto, Finish

\* A deletion takes rows away.
LEMMA Removes ==
  ASSUME TypeOK, NEW t \in TableNames, NEW gone, db' = Without(t, gone)
  PROVE  db'[t] = [i \in DOMAIN db[t] |-> IF i \in gone THEN None ELSE db[t][i]]
PROOF BY TableTypes, Zenon DEF Without

\* What a step of request r does to the members.
MembersMove(r) ==
  /\ db'.members \in [Ids -> MemberRow \cup {None}]
  /\ \A i \in Ids : db'.members[i] # None =>
       \/ /\ db.members[i] # None
          /\ db'.members[i].org = db.members[i].org
          /\ db'.members[i].user = db.members[i].user
          /\ \/ db'.members[i].role = db.members[i].role
             \/ pc[r] = "write-role" /\ i = held[r] /\ db'.members[i].role = call[r].name
       \/ /\ i = r /\ pc[r] = "create-owner" /\ pc'[r] = "activate"
          /\ db'.members[i] = [org |-> r, user |-> Me(r), role |-> "owner"]
          /\ config.enforcesReferences => db.orgs[r] # None
       \/ /\ i = r /\ pc[r] = "join" /\ pc'[r] = "accepted"
          /\ db'.members[i] = [org |-> held[r].org, user |-> Me(r), role |-> held[r].role]
          /\ config.enforcesReferences => db.orgs[held[r].org] # None
  /\ \A i \in Ids : db.members[i] # None /\ db'.members[i] = None =>
       \/ pc[r] = "delete-member" /\ i = held[r]
       \/ pc[r] = "members" /\ db.members[i].org = Org(r)
  /\ pc[r] = "members" =>
       \A i \in Ids : db'.members[i] # None => db'.members[i].org # Org(r)
  /\ pc[r] = "create-owner" /\ pc'[r] = "activate" =>
       db'.members[r] = [org |-> r, user |-> Me(r), role |-> "owner"]
  /\ pc[r] = "create-owner" /\ db.orgs[r] # None => pc'[r] = "activate"

\* Every step moves the members so.
LEMMA MembersStep ==
  ASSUME TypeOK, HandlersOK, NEW r \in Requests, StepOf(r)
  PROVE  MembersMove(r)
PROOF
  <1>1. /\ db.members \in [Ids -> MemberRow \cup {None}] /\ DOMAIN db.members = Ids
        /\ r \in Ids /\ r \in OrgIds /\ "members" \in TableNames
        /\ \A x \in MemberRow : x # None
    BY TableTypes, NoneAssumption DEF Ids, OrgIds, TableNames
  <1>2. HandlerOK(r)
    BY DEF HandlersOK
  <1>3. ASSUME NEW row \in MemberRow, db'.members = [db.members EXCEPT ![r] = row],
               \/ /\ pc[r] = "create-owner" /\ pc'[r] = "activate"
                  /\ row = [org |-> r, user |-> Me(r), role |-> "owner"]
                  /\ config.enforcesReferences => db.orgs[r] # None
               \/ /\ pc[r] = "join" /\ pc'[r] = "accepted"
                  /\ row = [org |-> held[r].org, user |-> Me(r), role |-> held[r].role]
                  /\ config.enforcesReferences => db.orgs[held[r].org] # None
        PROVE  MembersMove(r)
    BY <1>1, <1>3 DEF MembersMove
  <1>4. CASE InsertOwner(r)
    <2> DEFINE row == [org |-> r, user |-> Me(r), role |-> "owner"]
    <2>1. Insert(r, "members", row, "activate") /\ pc[r] = "create-owner"
      BY <1>4, Zenon DEF InsertOwner, At
    <2>2. row \in MemberRow /\ row.org = r
      BY <1>1, <1>2, <2>1, Bodies, SMT DEF HandlerOK, MemberRow, Roles, BuiltIn, DefaultRoles
    <2>3. References("members", row) <=> db.orgs[r] # None
      BY <2>2, Zenon DEF References
    <2> HIDE DEF row
    <2>6. \/ pc'[r] = "activate"
          \/ pc'[r] = "done" /\ config.enforcesReferences /\ db.orgs[r] = None
      BY <2>1, <2>3, Zenon DEF Insert, Finish, Goto, TypeOK
    <2>4. \/ db'.members = db.members /\ pc'[r] = "done"
          \/ /\ pc'[r] = "activate" /\ (config.enforcesReferences => db.orgs[r] # None)
             /\ db'.members = [db.members EXCEPT ![r] = row]
      BY <1>1, <2>1, <2>3, Inserts, SMT
    <2>5. CASE db'.members = db.members /\ pc'[r] = "done"
      BY <1>1, <2>1, <2>5, <2>6 DEF MembersMove
    <2> QED BY <1>3, <2>1, <2>2, <2>4, <2>5 DEF row
  <1>5. CASE Join(r)
    <2> DEFINE row == [org |-> held[r].org, user |-> Me(r), role |-> held[r].role]
    <2>1. Insert(r, "members", row, "accepted") /\ pc[r] = "join"
      BY <1>5, Zenon DEF Join, At
    <2>2. row \in MemberRow /\ row.org = held[r].org
      BY <1>1, <1>2, <2>1, Bodies, SMT DEF HandlerOK, MemberRow, InvitationRow
    <2>3. References("members", row) <=> db.orgs[held[r].org] # None
      BY <2>2, Zenon DEF References
    <2> HIDE DEF row
    <2>4. \/ db'.members = db.members /\ pc'[r] = "done"
          \/ /\ pc'[r] = "accepted" /\ (config.enforcesReferences => db.orgs[held[r].org] # None)
             /\ db'.members = [db.members EXCEPT ![r] = row]
      BY <1>1, <2>1, <2>3, Inserts, SMT
    <2>5. CASE db'.members = db.members /\ pc'[r] = "done"
      BY <1>1, <2>1, <2>5 DEF MembersMove
    <2> QED BY <1>3, <2>1, <2>2, <2>4, <2>5 DEF row
  <1>6. CASE Cascade(r, "members")
    <2>1. pc[r] = "members" /\ db' = Without("members", In("members", Org(r)))
      BY <1>6 DEF Cascade, At, Cascaded
    <2>2. db'.members = [i \in Ids |-> IF i \in In("members", Org(r)) THEN None ELSE db.members[i]]
      BY <1>1, <2>1, Removes, SMT
    <2>3. In("members", Org(r)) = {i \in Ids : db.members[i] # None /\ db.members[i].org = Org(r)}
      BY RowsOf, Zenon DEF In
    <2> QED BY <1>1, <2>1, <2>2, <2>3 DEF MembersMove
  <1>7. CASE DeleteMember(r)
    <2>1. pc[r] = "delete-member" /\ db' = Without("members", {held[r]})
      BY <1>7, Zenon DEF DeleteMember, At
    <2>2. db'.members = [i \in Ids |-> IF i \in {held[r]} THEN None ELSE db.members[i]]
      BY <1>1, <2>1, Removes, SMT
    <2> QED BY <1>1, <2>1, <2>2 DEF MembersMove
  <1>8. CASE WriteMemberRole(r)
    <2>1. /\ pc[r] = "write-role" /\ call[r].name \in Roles
          /\ pc'[r] = "done"
      BY <1>2, <1>8, Zenon DEF WriteMemberRole, At, HandlerOK, Finish, Goto, TypeOK
    <2>2. CASE held[r] \notin Rows("members")
      BY <1>1, <1>8, <2>1, <2>2 DEF WriteMemberRole, MembersMove
    <2>3. CASE held[r] \in Rows("members")
      <3>1. held[r] \in Ids /\ db.members[held[r]] \in MemberRow
        BY <1>1, <2>3, RowsOf
      <3> DEFINE row == [db.members[held[r]] EXCEPT !.role = call[r].name]
      <3>2. db'.members = [db.members EXCEPT ![held[r]] = row]
        BY <1>8, <2>3, TableTypes, Zenon DEF WriteMemberRole, TableNames
      <3>3. row \in MemberRow
        BY <2>1, <3>1, Zenon DEF MemberRow
      <3>4. row.org = db.members[held[r]].org /\ row.user = db.members[held[r]].user
            /\ row.role = call[r].name
        BY <3>1, SMT DEF MemberRow
      <3> HIDE DEF row
      <3> QED BY <1>1, <2>1, <3>1, <3>2, <3>3, <3>4 DEF MembersMove
    <2> QED BY <2>2, <2>3
  <1>9. CASE /\ db'.members = db.members
             /\ ~(InsertOwner(r) \/ Cascade(r, "members"))
    <2>1. pc[r] # "members"
      <3>1. pc[r] = "members" => Handle(r)
        BY Zenon DEF StepOf, Begin
      <3> QED BY <1>9, <3>1, Where DEF AfterTable
    <2>2. pc[r] # "create-owner"
      <3>1. pc[r] = "create-owner" => Handle(r)
        BY Zenon DEF StepOf, Begin
      <3> QED BY <1>9, <3>1, Where
    <2> QED BY <1>1, <1>9, <2>1, <2>2 DEF MembersMove
  <1> QED BY <1>4, <1>5, <1>6, <1>7, <1>8, <1>9, WhoWrites, Zenon

\* A handler that is somewhere takes a step from there.
LEMMA Handles ==
  ASSUME TypeOK, NEW r \in Requests, StepOf(r), pc[r] # "idle"
  PROVE  Handle(r)
PROOF BY Zenon DEF StepOf, Begin

\* What a cascade does.
LEMMA Cascades ==
  ASSUME TypeOK, NEW r \in Requests, NEW t \in DOMAIN AfterTable, Cascade(r, t)
  PROVE  /\ pc[r] = t
         /\ \/ /\ t = "teams" /\ config.enforcesReferences /\ TeamMembersOf(Org(r)) # {}
               /\ db' = db /\ pc'[r] = "done"
            \/ /\ ~(t = "teams" /\ config.enforcesReferences /\ TeamMembersOf(Org(r)) # {})
               /\ pc'[r] = AfterTable[t]
               /\ db'[t] = [i \in DOMAIN db[t] |->
                              IF i \in Cascaded(t, Org(r)) THEN None ELSE db[t][i]]
PROOF
  <1>1. DOMAIN pc = Requests /\ t \in TableNames
    BY DEF TypeOK, AfterTable, TableNames
  <1> QED BY <1>1, Removes, Zenon DEF Cascade, At, Goto, Finish

\* What a step of request r does to the invitations.
InvitationsMove(r) ==
  /\ db'.invitations \in [Ids -> InvitationRow \cup {None}]
  /\ \A i \in Ids : db'.invitations[i] # None =>
       \/ /\ db.invitations[i] # None
          /\ db'.invitations[i].org = db.invitations[i].org
          /\ \/ db'.invitations[i].status = db.invitations[i].status
             \/ db'.invitations[i].status # "pending"
       \/ /\ i = r /\ pc[r] = "insert-invitation" /\ pc'[r] = "done"
          /\ db'.invitations[i].org = Org(r)
          /\ config.enforcesReferences => db.orgs[Org(r)] # None
  /\ pc[r] = "invitations" =>
       \A i \in Ids : db'.invitations[i] # None => db'.invitations[i].org # Org(r)
  /\ pc[r] \in {"accepted", "cancelled", "rejected", "expired"} =>
       \A i \in Ids : i = Item(r) /\ db'.invitations[i] # None =>
         db'.invitations[i].status # "pending"

\* Every step moves the invitations so.
LEMMA InvitationsStep ==
  ASSUME TypeOK, HandlersOK, NEW r \in Requests, StepOf(r)
  PROVE  InvitationsMove(r)
PROOF
  <1>1. /\ db.invitations \in [Ids -> InvitationRow \cup {None}] /\ DOMAIN db.invitations = Ids
        /\ r \in Ids /\ r \in OrgIds /\ "invitations" \in TableNames
        /\ \A x \in InvitationRow : x # None
    BY TableTypes, NoneAssumption DEF Ids, OrgIds, TableNames
  <1>2. HandlerOK(r)
    BY DEF HandlersOK
  <1>3. CASE InsertInvitation(r)
    <2> DEFINE row == [org |-> Org(r), user |-> call[r].who, role |-> call[r].name,
                       expiresAt |-> now + InvitationTTL, status |-> "pending"]
    <2>1. Insert(r, "invitations", row, "done") /\ pc[r] = "insert-invitation"
      BY <1>3, Zenon DEF InsertInvitation, At
    <2>2. now + InvitationTTL \in Nat
      BY ConstantsAssumption DEF TypeOK
    <2>3. row \in InvitationRow /\ row.org = Org(r)
      BY <1>1, <1>2, <2>1, <2>2, Bodies, SMT DEF HandlerOK, InvitationRow
    <2>4. References("invitations", row) <=> db.orgs[Org(r)] # None
      BY <2>3, Zenon DEF References
    <2> HIDE DEF row
    <2>5. pc'[r] = "done"
      BY <2>1, Zenon DEF Insert, Goto, Finish, TypeOK
    <2>6. \/ db'.invitations = db.invitations
          \/ /\ config.enforcesReferences => db.orgs[Org(r)] # None
             /\ db'.invitations = [db.invitations EXCEPT ![r] = row]
      BY <1>1, <2>1, <2>4, Inserts, SMT
    <2> QED BY <1>1, <2>1, <2>3, <2>5, <2>6 DEF InvitationsMove
  <1>4. CASE Cascade(r, "invitations")
    <2>1. /\ pc[r] = "invitations"
          /\ db'.invitations = [i \in Ids |-> IF i \in In("invitations", Org(r)) THEN None
                                              ELSE db.invitations[i]]
      BY <1>1, <1>4, Cascades, SMT DEF Cascaded, AfterTable
    <2>2. In("invitations", Org(r)) =
            {i \in Ids : db.invitations[i] # None /\ db.invitations[i].org = Org(r)}
      BY RowsOf, Zenon DEF In
    <2> QED BY <1>1, <2>1, <2>2 DEF InvitationsMove
  <1>5. CASE WriteStatus(r)
    <2>1. pc[r] \in {"accepted", "cancelled", "rejected", "expired"}
      BY <1>5, Zenon DEF WriteStatus
    <2>2. CASE Item(r) \notin Rows("invitations")
      <3>1. db'.invitations = db.invitations
        BY <1>5, <2>2, Zenon DEF WriteStatus
      <3>2. \A i \in Ids : i = Item(r) => db'.invitations[i] = None
        BY <2>2, <3>1, RowsOf
      <3> QED BY <1>1, <2>1, <3>1, <3>2 DEF InvitationsMove
    <2>3. CASE Item(r) \in Rows("invitations")
      <3>1. Item(r) \in Ids /\ db.invitations[Item(r)] \in InvitationRow
        BY <1>1, <2>3, RowsOf
      <3> DEFINE row == [db.invitations[Item(r)] EXCEPT !.status = pc[r]]
      <3>2. db'.invitations = [db.invitations EXCEPT ![Item(r)] = row]
        BY <1>5, <2>3, TableTypes, Zenon DEF WriteStatus, TableNames
      <3>3. pc[r] \in {"pending", "accepted", "cancelled", "rejected", "expired"}
            /\ pc[r] # "pending"
        BY <2>1
      <3>4. row \in InvitationRow
        BY <3>1, <3>3, Zenon DEF InvitationRow
      <3>5. row.org = db.invitations[Item(r)].org /\ row.status # "pending"
        BY <3>1, <3>3, SMT DEF InvitationRow
      <3> HIDE DEF row
      <3> QED BY <1>1, <2>1, <3>1, <3>2, <3>4, <3>5 DEF InvitationsMove
    <2> QED BY <2>2, <2>3
  <1>6. CASE db'.invitations = db.invitations /\ ~Cascade(r, "invitations") /\ ~WriteStatus(r)
    <2>1. pc[r] \notin {"invitations", "accepted", "cancelled", "rejected", "expired"}
      BY <1>6, Handles, Where, SMT DEF AfterTable
    <2> QED BY <1>1, <1>6, <2>1 DEF InvitationsMove
  <1> QED BY <1>3, <1>4, <1>5, <1>6, WhoWrites, Zenon

\* What a step of request r does to the teams.
TeamsMove(r) ==
  /\ db'.teams \in [Requests -> TeamRow \cup {None}]
  /\ \A i \in Requests : db'.teams[i] # None =>
       \/ db.teams[i] # None /\ db'.teams[i].org = db.teams[i].org
       \/ /\ i = r /\ pc[r] = "insert-team" /\ pc'[r] = "done" /\ db'.teams[i].org = Org(r)
          /\ config.enforcesReferences => db.orgs[Org(r)] # None
  /\ \A i \in Requests : db.teams[i] # None /\ db'.teams[i] = None =>
       \/ /\ pc[r] = "teams" /\ db.teams[i].org = Org(r)
          /\ config.enforcesReferences => TeamMembersOf(Org(r)) = {}
       \/ /\ pc[r] = "delete-team" /\ i = Item(r)
          /\ config.enforcesReferences =>
               \A j \in Rows("teamMembers") : db.teamMembers[j].team # i
  /\ pc[r] = "teams" /\ pc'[r] # "done" =>
       \A i \in Requests : db'.teams[i] # None => db'.teams[i].org # Org(r)
  /\ pc[r] = "teams" /\ TeamMembersOf(Org(r)) = {} => pc'[r] = "roles"

\* Every step moves the teams so.
LEMMA TeamsStep ==
  ASSUME TypeOK, HandlersOK, NEW r \in Requests, StepOf(r)
  PROVE  TeamsMove(r)
PROOF
  <1>1. /\ db.teams \in [Requests -> TeamRow \cup {None}] /\ DOMAIN db.teams = Requests
        /\ "teams" \in TableNames /\ DOMAIN db = TableNames
        /\ \A x \in TeamRow : x # None
    BY TableTypes, NoneAssumption DEF TableNames
  <1>2. HandlerOK(r)
    BY DEF HandlersOK
  <1>3. In("teams", Org(r)) = {i \in Requests : db.teams[i] # None /\ db.teams[i].org = Org(r)}
    BY RowsOf, Zenon DEF In
  <1>4. CASE InsertTeam(r)
    <2> DEFINE row == [org |-> Org(r), name |-> call[r].name]
    <2>1. Insert(r, "teams", row, "done") /\ pc[r] = "insert-team"
      BY <1>4, Zenon DEF InsertTeam, At
    <2>2. row \in TeamRow /\ row.org = Org(r)
      BY <1>1, <1>2, <2>1, Bodies, SMT DEF HandlerOK, TeamRow
    <2>3. References("teams", row) <=> db.orgs[Org(r)] # None
      BY <2>2, Zenon DEF References
    <2> HIDE DEF row
    <2>4. pc'[r] = "done"
      BY <2>1, Zenon DEF Insert, Goto, Finish, TypeOK
    <2>5. \/ db'.teams = db.teams
          \/ /\ config.enforcesReferences => db.orgs[Org(r)] # None
             /\ db'.teams = [db.teams EXCEPT ![r] = row]
      BY <1>1, <2>1, <2>3, Inserts, SMT
    <2> QED BY <1>1, <2>1, <2>2, <2>4, <2>5 DEF TeamsMove
  <1>5. CASE WriteTeam(r)
    <2>1. pc[r] = "write-team" /\ Op(r) = "update-team"
      BY <1>2, <1>5, Zenon DEF WriteTeam, At, HandlerOK
    <2>4. call[r].name \in Names
      BY <1>2, <2>1, Bodies, SMT DEF HandlerOK
    <2>2. CASE Item(r) \notin In("teams", Org(r))
      BY <1>1, <1>5, <2>1, <2>2 DEF WriteTeam, TeamsMove
    <2>3. CASE Item(r) \in In("teams", Org(r))
      <3>1. Item(r) \in Requests /\ db.teams[Item(r)] \in TeamRow
        BY <1>1, <1>3, <2>3
      <3> DEFINE row == [db.teams[Item(r)] EXCEPT !.name = call[r].name]
      <3>2. db'.teams = [db.teams EXCEPT ![Item(r)] = row]
        BY <1>5, <2>3, <1>1, Zenon DEF WriteTeam, TableNames
      <3>3. row.org = db.teams[Item(r)].org
        BY <3>1, SMT DEF TeamRow
      <3>4. row \in TeamRow
        BY <2>4, <3>1, Zenon DEF TeamRow
      <3> HIDE DEF row
      <3> QED BY <1>1, <2>1, <2>3, <1>3, <3>1, <3>2, <3>3, <3>4 DEF TeamsMove
    <2> QED BY <2>2, <2>3
  <1>6. CASE Cascade(r, "teams")
    <2>1. pc[r] = "teams"
      BY <1>6, Cascades DEF AfterTable
    <2>2. \/ db' = db /\ pc'[r] = "done" /\ TeamMembersOf(Org(r)) # {}
          \/ /\ pc'[r] = "roles"
             /\ config.enforcesReferences => TeamMembersOf(Org(r)) = {}
             /\ db'.teams = [i \in Requests |-> IF i \in In("teams", Org(r)) THEN None
                                                ELSE db.teams[i]]
      BY <1>1, <1>6, Cascades, SMT DEF Cascaded, AfterTable
    <2> QED BY <1>1, <1>3, <2>1, <2>2 DEF TeamsMove
  <1>7. CASE DeleteTeam(r)
    <2>1. pc[r] = "delete-team"
      BY <1>7, Zenon DEF DeleteTeam, At
    <2>2. \/ db' = db
          \/ /\ config.enforcesReferences =>
                  \A j \in Rows("teamMembers") : db.teamMembers[j].team # Item(r)
             /\ db' = Without("teams", {Item(r)} \cap In("teams", Org(r)))
      BY <1>7, Zenon DEF DeleteTeam
    <2>3. db' = Without("teams", {Item(r)} \cap In("teams", Org(r))) =>
            db'.teams = [i \in Requests |-> IF i \in {Item(r)} \cap In("teams", Org(r)) THEN None
                                            ELSE db.teams[i]]
      BY <1>1, Removes, SMT
    <2> QED BY <1>1, <1>3, <2>1, <2>2, <2>3 DEF TeamsMove
  <1>8. CASE db'.teams = db.teams /\ ~Cascade(r, "teams")
    <2>1. pc[r] # "teams"
      BY <1>8, Handles, Where, SMT DEF AfterTable
    <2> QED BY <1>1, <1>8, <2>1 DEF TeamsMove
  <1> QED BY <1>4, <1>5, <1>6, <1>7, <1>8, WhoWrites, Zenon

\* What a step of request r does to the team members.
TeamMembersMove(r) ==
  /\ db'.teamMembers \in [Requests -> TeamMemberRow \cup {None}]
  /\ \A i \in Requests : db'.teamMembers[i] # None =>
       \/ db.teamMembers[i] # None /\ db'.teamMembers[i] = db.teamMembers[i]
       \/ /\ i = r /\ pc[r] = "insert-team-member" /\ pc'[r] = "done"
          /\ db'.teamMembers[i] = [team |-> Item(r), user |-> call[r].who]
          /\ config.enforcesReferences => db.teams[Item(r)] # None
  /\ pc[r] = "teamMembers" =>
       \A i \in Requests : db'.teamMembers[i] # None =>
         db'.teamMembers[i].team \notin In("teams", Org(r))
  /\ pc[r] = "empty-team" /\ Op(r) = "remove-team" =>
       \A i \in Requests : db'.teamMembers[i] # None => db'.teamMembers[i].team # Item(r)

\* Every step moves the team members so.
LEMMA TeamMembersStep ==
  ASSUME TypeOK, HandlersOK, NEW r \in Requests, StepOf(r)
  PROVE  TeamMembersMove(r)
PROOF
  <1>1. /\ db.teamMembers \in [Requests -> TeamMemberRow \cup {None}]
        /\ DOMAIN db.teamMembers = Requests
        /\ "teamMembers" \in TableNames /\ DOMAIN db = TableNames
        /\ \A x \in TeamMemberRow : x # None
    BY TableTypes, NoneAssumption DEF TableNames
  <1>2. HandlerOK(r)
    BY DEF HandlersOK
  <1>3. Rows("teamMembers") = {i \in Requests : db.teamMembers[i] # None}
    BY RowsOf
  <1>4. CASE InsertTeamMember(r)
    <2> DEFINE row == [team |-> Item(r), user |-> call[r].who]
    <2>1. Insert(r, "teamMembers", row, "done") /\ pc[r] = "insert-team-member"
      BY <1>4, Zenon DEF InsertTeamMember, At
    <2>2. row \in TeamMemberRow /\ row.team = Item(r)
      BY <1>2, <2>1, SMT DEF HandlerOK, TeamMemberRow
    <2>3. References("teamMembers", row) <=> db.teams[Item(r)] # None
      BY <2>2, Zenon DEF References
    <2>4. row = [team |-> Item(r), user |-> call[r].who]
      OBVIOUS
    <2> HIDE DEF row
    <2>5. pc'[r] = "done"
      BY <2>1, Zenon DEF Insert, Goto, Finish, TypeOK
    <2>6. \/ db'.teamMembers = db.teamMembers
          \/ /\ config.enforcesReferences => db.teams[Item(r)] # None
             /\ db'.teamMembers = [db.teamMembers EXCEPT ![r] = row]
      BY <1>1, <2>1, <2>3, Inserts, SMT
    <2> QED BY <1>1, <2>1, <2>2, <2>4, <2>5, <2>6 DEF TeamMembersMove
  <1>5. CASE EmptyTeam(r)
    <2>1. pc[r] = "empty-team"
      BY <1>5, Zenon DEF EmptyTeam, At
    <2> DEFINE gone == {i \in Rows("teamMembers") :
                          /\ db.teamMembers[i].team = Item(r)
                          /\ Op(r) = "remove-team" \/ db.teamMembers[i].user = call[r].who}
    <2>2. db' = Without("teamMembers", gone)
      BY <1>5, Zenon DEF EmptyTeam
    <2>3. Op(r) = "remove-team" =>
            \A i \in Requests : db.teamMembers[i] # None /\ db.teamMembers[i].team = Item(r)
                                => i \in gone
      BY <1>3
    <2> HIDE DEF gone
    <2>4. db'.teamMembers = [i \in Requests |-> IF i \in gone THEN None ELSE db.teamMembers[i]]
      BY <1>1, <2>2, Removes, SMT
    <2> QED BY <1>1, <2>1, <2>3, <2>4 DEF TeamMembersMove
  <1>6. CASE Cascade(r, "teamMembers")
    <2>1. /\ pc[r] = "teamMembers"
          /\ db'.teamMembers = [i \in Requests |-> IF i \in TeamMembersOf(Org(r)) THEN None
                                                   ELSE db.teamMembers[i]]
      BY <1>1, <1>6, Cascades, SMT DEF Cascaded, AfterTable
    <2>2. \A i \in Requests : db.teamMembers[i] # None /\ i \notin TeamMembersOf(Org(r))
                              => db.teamMembers[i].team \notin In("teams", Org(r))
      BY <1>3 DEF TeamMembersOf
    <2> QED BY <1>1, <2>1, <2>2 DEF TeamMembersMove
  <1>7. CASE db'.teamMembers = db.teamMembers /\ ~EmptyTeam(r) /\ ~Cascade(r, "teamMembers")
    <2>1. pc[r] \notin {"empty-team", "teamMembers"}
      BY <1>7, Handles, Where, SMT DEF AfterTable
    <2> QED BY <1>1, <1>7, <2>1 DEF TeamMembersMove
  <1> QED BY <1>4, <1>5, <1>6, <1>7, WhoWrites, Zenon

\* What a step of request r does to the roles.
RolesMove(r) ==
  /\ db'.roles \in [Requests -> RoleRow \cup {None}]
  /\ \A i \in Requests : db'.roles[i] # None =>
       \/ db.roles[i] # None /\ db'.roles[i].org = db.roles[i].org
       \/ /\ i = r /\ pc[r] = "insert-role" /\ pc'[r] = "done" /\ db'.roles[i].org = Org(r)
          /\ config.enforcesReferences => db.orgs[Org(r)] # None
  /\ pc[r] = "roles" =>
       \A i \in Requests : db'.roles[i] # None => db'.roles[i].org # Org(r)

\* Every step moves the roles so.
LEMMA RolesStep ==
  ASSUME TypeOK, HandlersOK, NEW r \in Requests, StepOf(r)
  PROVE  RolesMove(r)
PROOF
  <1>1. /\ db.roles \in [Requests -> RoleRow \cup {None}] /\ DOMAIN db.roles = Requests
        /\ "roles" \in TableNames /\ DOMAIN db = TableNames
        /\ \A x \in RoleRow : x # None
    BY TableTypes, NoneAssumption DEF TableNames
  <1>2. HandlerOK(r)
    BY DEF HandlersOK
  <1>3. ASSUME NEW o
        PROVE  In("roles", o) = {i \in Requests : db.roles[i] # None /\ db.roles[i].org = o}
    BY RowsOf, Zenon DEF In
  <1>4. CASE InsertRole(r)
    <2> DEFINE row == [org |-> Org(r), role |-> call[r].name,
                       permissions |-> call[r].permissions]
    <2>1. Insert(r, "roles", row, "done") /\ pc[r] = "insert-role"
      BY <1>4, Zenon DEF InsertRole, At
    <2>2. row \in RoleRow /\ row.org = Org(r)
      BY <1>2, <2>1, Bodies, SMT DEF HandlerOK, RoleRow
    <2>3. References("roles", row) <=> db.orgs[Org(r)] # None
      BY <2>2, Zenon DEF References
    <2> HIDE DEF row
    <2>4. pc'[r] = "done"
      BY <2>1, Zenon DEF Insert, Goto, Finish, TypeOK
    <2>5. \/ db'.roles = db.roles
          \/ /\ config.enforcesReferences => db.orgs[Org(r)] # None
             /\ db'.roles = [db.roles EXCEPT ![r] = row]
      BY <1>1, <2>1, <2>3, Inserts, SMT
    <2> QED BY <1>1, <2>1, <2>2, <2>4, <2>5 DEF RolesMove
  <1>5. CASE WritePermissions(r)
    <2>1. pc[r] = "write-permissions" /\ call[r].permissions \subseteq Permissions
      BY <1>2, <1>5, Bodies, SMT DEF WritePermissions, At, HandlerOK
    <2>2. PICK i \in FindOne(RolesNamed(Org(r), call[r].name)) :
            db' = IF i = None THEN db
                  ELSE [db EXCEPT !.roles[i].permissions = call[r].permissions]
      BY <1>5, Zenon DEF WritePermissions
    <2>3. CASE i = None
      BY <1>1, <2>1, <2>2, <2>3 DEF RolesMove
    <2>4. CASE i # None
      <3>1. i \in Requests /\ db.roles[i] \in RoleRow
        BY <1>1, <1>3, <2>2, <2>4 DEF FindOne, RolesNamed
      <3> DEFINE row == [db.roles[i] EXCEPT !.permissions = call[r].permissions]
      <3>2. db'.roles = [db.roles EXCEPT ![i] = row]
        BY <1>1, <2>2, <2>4, Zenon
      <3>3. row.org = db.roles[i].org
        BY <3>1, SMT DEF RoleRow
      <3>4. row \in RoleRow
        BY <2>1, <3>1, Zenon DEF RoleRow
      <3> HIDE DEF row
      <3> QED BY <1>1, <2>1, <3>1, <3>2, <3>3, <3>4 DEF RolesMove
    <2> QED BY <2>3, <2>4
  <1>6. CASE Cascade(r, "roles")
    <2>1. /\ pc[r] = "roles"
          /\ db'.roles =
               [i \in Requests |-> IF i \in In("roles", Org(r)) THEN None ELSE db.roles[i]]
      BY <1>1, <1>6, Cascades, SMT DEF Cascaded, AfterTable
    <2> QED BY <1>1, <1>3, <2>1 DEF RolesMove
  <1>7. CASE DropRole(r)
    <2>1. pc[r] = "drop-role" /\ \E i : db' = Without("roles", {i})
      BY <1>7, Zenon DEF DropRole, At
    <2>2. PICK i : db' = Without("roles", {i})
      BY <2>1
    <2>3. db'.roles = [j \in Requests |-> IF j \in {i} THEN None ELSE db.roles[j]]
      BY <1>1, <2>2, Removes, SMT
    <2> QED BY <1>1, <2>1, <2>3 DEF RolesMove
  <1>8. CASE db'.roles = db.roles /\ ~Cascade(r, "roles")
    <2>1. pc[r] # "roles"
      BY <1>8, Handles, Where, SMT DEF AfterTable
    <2> QED BY <1>1, <1>8, <2>1 DEF RolesMove
  <1> QED BY <1>4, <1>5, <1>6, <1>7, <1>8, WhoWrites, Zenon

\* What a step of request r does to the organizations.
OrgsMove(r) ==
  /\ db'.orgs \in [OrgIds -> Names \cup {None}]
  /\ \A o \in OrgIds : db'.orgs[o] # None =>
       db.orgs[o] # None \/ (o = r /\ pc[r] = "create-org" /\ pc'[r] = "create-owner")
  /\ \A o \in OrgIds : db.orgs[o] # None /\ db'.orgs[o] = None =>
       /\ pc[r] = "orgs" /\ o = Org(r) /\ pc'[r] = "deactivate"
       /\ config.enforcesReferences => \A t \in OrgTables : In(t, Org(r)) = {}
  /\ pc[r] = "create-org" /\ pc'[r] = "create-owner" => db'.orgs[r] # None
  /\ pc[r] = "orgs" /\ (\A t \in OrgTables : In(t, Org(r)) = {}) =>
       pc'[r] = "deactivate" /\ (Org(r) \in OrgIds => db'.orgs[Org(r)] = None)

\* Every step moves the organizations so.
LEMMA OrgsStep ==
  ASSUME TypeOK, HandlersOK, NEW r \in Requests, StepOf(r)
  PROVE  OrgsMove(r)
PROOF
  <1>1. /\ db.orgs \in [OrgIds -> Names \cup {None}] /\ DOMAIN db.orgs = OrgIds
        /\ "orgs" \in TableNames /\ DOMAIN db = TableNames /\ DOMAIN pc = Requests
        /\ r \in OrgIds /\ \A x \in Names : x # None
    BY TableTypes, NoneAssumption DEF TableNames, OrgIds, TypeOK
  <1>2. HandlerOK(r)
    BY DEF HandlersOK
  <1>3. CASE InsertOrganization(r)
    <2>1. pc[r] = "create-org" /\ call[r].name \in Names
      BY <1>2, <1>3, Bodies, SMT DEF InsertOrganization, At, HandlerOK
    <2>2. \/ db' = db /\ pc'[r] = "done"
          \/ /\ pc'[r] = "create-owner"
             /\ db'.orgs = [db.orgs EXCEPT ![r] = call[r].name]
      BY <1>1, <1>3, Zenon DEF InsertOrganization, Finish, Goto
    <2> QED BY <1>1, <2>1, <2>2 DEF OrgsMove
  <1>4. CASE WriteOrganization(r)
    <2>1. pc[r] = "write-org" /\ call[r].name \in Names
      BY <1>2, <1>4, Bodies, SMT DEF WriteOrganization, At, HandlerOK
    <2>2. \/ db' = db
          \/ /\ db.orgs[Org(r)] # None
             /\ db'.orgs = [db.orgs EXCEPT ![Org(r)] = call[r].name]
      BY <1>1, <1>4, Zenon DEF WriteOrganization
    <2> QED BY <1>1, <2>1, <2>2 DEF OrgsMove
  <1>5. CASE DropOrganization(r)
    <2>1. pc[r] = "orgs"
      BY <1>5, Zenon DEF DropOrganization, At
    <2>2. \/ db' = db /\ \E t \in DOMAIN AfterTable \ {"teamMembers"} : In(t, Org(r)) # {}
          \/ /\ pc'[r] = "deactivate" /\ db' = Without("orgs", {Org(r)})
             /\ config.enforcesReferences =>
                  ~\E t \in DOMAIN AfterTable \ {"teamMembers"} : In(t, Org(r)) # {}
      BY <1>1, <1>5, Zenon DEF DropOrganization, Goto
    <2>3. OrgTables = DOMAIN AfterTable \ {"teamMembers"}
      BY DEF OrgTables, AfterTable
    <2>4. db' = Without("orgs", {Org(r)}) =>
            db'.orgs = [o \in OrgIds |-> IF o \in {Org(r)} THEN None ELSE db.orgs[o]]
      BY <1>1, Removes, SMT
    <2> QED BY <1>1, <2>1, <2>2, <2>3, <2>4 DEF OrgsMove
  <1>6. CASE db'.orgs = db.orgs /\ ~InsertOrganization(r) /\ ~DropOrganization(r)
    <2>1. pc[r] # "create-org" /\ pc[r] # "orgs"
      BY <1>6, Handles, Where, SMT
    <2> QED BY <1>1, <1>6, <2>1 DEF OrgsMove
  <1> QED BY <1>3, <1>4, <1>5, <1>6, WhoWrites, Zenon

\* What a step of request r does to the pointers of sessions.
ActiveMove(r) ==
  /\ db'.active \in [Users -> OrgIds \cup {None}]
  /\ db'.activeTeam \in [Users -> Requests \cup {None}]
  /\ \A u \in Users : db'.active[u] # None =>
       \/ db'.active[u] = db.active[u]
       \/ pc[r] = "activate" /\ db'.active[u] = (IF Op(r) = "create" THEN r ELSE Org(r))
  /\ pc[r] = "deactivate" /\ Op(r) = "delete" =>
       \A u \in Users : db'.active[u] # None => db'.active[u] # Org(r)

\* Every step moves the pointers so.
LEMMA ActiveStep ==
  ASSUME TypeOK, HandlersOK, NEW r \in Requests, StepOf(r)
  PROVE  ActiveMove(r)
PROOF
  <1>1. /\ db.active \in [Users -> OrgIds \cup {None}] /\ DOMAIN db.active = Users
        /\ db.activeTeam \in [Users -> Requests \cup {None}] /\ DOMAIN db.activeTeam = Users
        /\ "active" \in TableNames /\ "activeTeam" \in TableNames /\ DOMAIN db = TableNames
        /\ r \in OrgIds
    BY TableTypes DEF TableNames, OrgIds
  <1>2. HandlerOK(r)
    BY DEF HandlersOK
  <1>3. db'.activeTeam \in [Users -> Requests \cup {None}]
    <2>1. CASE ActivateTeam(r)
      <3>1. Item(r) \in Requests \cup {None}
        BY <1>2, <2>1, SMT DEF ActivateTeam, At, HandlerOK
      <3>2. db'.activeTeam = [db.activeTeam EXCEPT ![Me(r)] = Item(r)]
        BY <1>1, <2>1, Zenon DEF ActivateTeam
      <3> QED BY <1>1, <3>1, <3>2
    <2> QED BY <1>1, <2>1, WhoWrites
  <1>4. CASE Activate(r)
    <2>1. pc[r] = "activate" /\ Org(r) \in OrgIds \cup {None}
      BY <1>2, <1>4, Bodies, SMT DEF Activate, At, HandlerOK
    <2>2. \/ db' = db
          \/ db'.active = [db.active EXCEPT ![Me(r)] = IF Op(r) = "create" THEN r ELSE Org(r)]
      BY <1>1, <1>4, Zenon DEF Activate
    <2> QED BY <1>1, <1>3, <2>1, <2>2 DEF ActiveMove
  <1>5. CASE Deactivate(r)
    <2> DEFINE pointing == {u \in Users : db.active[u] = Org(r)}
               gone == IF Op(r) = "delete" THEN pointing ELSE pointing \cap {Me(r)}
    <2>1. pc[r] = "deactivate" /\ db' = Without("active", gone)
      BY <1>5, Zenon DEF Deactivate, At
    <2>2. Op(r) = "delete" => \A u \in Users : u \notin gone => db.active[u] # Org(r)
      OBVIOUS
    <2> HIDE DEF gone
    <2>3. db'.active = [u \in Users |-> IF u \in gone THEN None ELSE db.active[u]]
      BY <1>1, <2>1, Removes, SMT
    <2> QED BY <1>1, <1>3, <2>1, <2>2, <2>3 DEF ActiveMove
  <1>6. CASE GetFullOrganization(r)
    <2>1. pc[r] = "get-full" /\ (db' = db \/ db' = Without("active", {Me(r)}))
      BY <1>6, Zenon DEF GetFullOrganization, At, Answer
    <2>2. db' = Without("active", {Me(r)}) =>
            db'.active = [u \in Users |-> IF u \in {Me(r)} THEN None ELSE db.active[u]]
      BY <1>1, Removes, SMT
    <2> QED BY <1>1, <1>3, <2>1, <2>2 DEF ActiveMove
  <1>7. CASE db'.active = db.active /\ ~Deactivate(r)
    <2>1. pc[r] # "deactivate"
      BY <1>7, Handles, Where, SMT
    <2> QED BY <1>1, <1>3, <1>7, <2>1 DEF ActiveMove
  <1> QED BY <1>4, <1>5, <1>6, <1>7, WhoWrites, Zenon

\* Steps keep types.
LEMMA TypeStep ==
  ASSUME TypeOK, HandlersOK, NEW r \in Requests, StepOf(r)
  PROVE  TypeOK'
PROOF
  <1>1. /\ MembersMove(r) /\ InvitationsMove(r) /\ TeamsMove(r) /\ TeamMembersMove(r)
        /\ RolesMove(r) /\ OrgsMove(r) /\ ActiveMove(r)
    BY MembersStep, InvitationsStep, TeamsStep, TeamMembersStep, RolesStep, OrgsStep, ActiveStep
  <1>2. db' \in Tables
    <2>1. ASSUME NEW t \in TableNames, Touches(t)
          PROVE  db' \in Tables
      <3>1. db' = db \/ db' = [db EXCEPT ![t] = db'[t]]
        BY <2>1, Written, Zenon DEF Touches
      <3>2. /\ db'.orgs \in [OrgIds -> Names \cup {None}]
            /\ db'.members \in [Ids -> MemberRow \cup {None}]
            /\ db'.invitations \in [Ids -> InvitationRow \cup {None}]
            /\ db'.teams \in [Requests -> TeamRow \cup {None}]
            /\ db'.teamMembers \in [Requests -> TeamMemberRow \cup {None}]
            /\ db'.roles \in [Requests -> RoleRow \cup {None}]
            /\ db'.active \in [Users -> OrgIds \cup {None}]
            /\ db'.activeTeam \in [Users -> Requests \cup {None}]
        BY <1>1, Zenon DEF MembersMove, InvitationsMove, TeamsMove, TeamMembersMove, RolesMove,
           OrgsMove, ActiveMove
      <3>3. db \in Tables
        BY DEF TypeOK
      <3>4. /\ [db EXCEPT !.orgs = db'.orgs] \in Tables
            /\ [db EXCEPT !.members = db'.members] \in Tables
            /\ [db EXCEPT !.invitations = db'.invitations] \in Tables
            /\ [db EXCEPT !.teams = db'.teams] \in Tables
            /\ [db EXCEPT !.teamMembers = db'.teamMembers] \in Tables
            /\ [db EXCEPT !.roles = db'.roles] \in Tables
            /\ [db EXCEPT !.active = db'.active] \in Tables
            /\ [db EXCEPT !.activeTeam = db'.activeTeam] \in Tables
        BY <3>2, <3>3, Retyped, Zenon
      <3> QED BY <3>1, <3>3, <3>4, SMT DEF TableNames
    <2>2. db' = db \/ \E t \in TableNames : Touches(t)
      <3>1. CASE Handle(r)
        BY <3>1, ReadingOnly, Writes, SMT DEF TableNames
      <3>2. CASE \E c : Begin(r, c)
        BY <3>2, Zenon DEF Begin
      <3> QED BY <3>1, <3>2, Zenon DEF StepOf
    <2> QED BY <2>1, <2>2 DEF TypeOK
  <1>3. config' = config /\ now' = now
    BY Moves
  <1>4. pc' \in [Requests -> PCs]
    <2>1. PICK to \in PCs : pc' = [pc EXCEPT ![r] = to]
      BY Moves
    <2> QED BY <2>1 DEF TypeOK
  <1>5. call' \in [Requests -> Calls[config.scenario] \cup {None}]
    <2>1. call' = call \/ \E c \in Calls[config.scenario] : call' = [call EXCEPT ![r] = c]
      BY Moves, Zenon DEF StepOf, Begin
    <2>2. call \in [Requests -> Calls[config.scenario] \cup {None}]
      BY DEF TypeOK
    <2> HIDE DEF TypeOK
    <2> QED BY <2>1, <2>2, Zenon
  <1>6. held' \in [Requests -> Ids \cup InvitationRow \cup {None}]
    <2>1. held \in [Requests -> Ids \cup InvitationRow \cup {None}]
      BY DEF TypeOK
    <2>2. ASSUME NEW x \in Ids \cup InvitationRow \cup {None}, held' = [held EXCEPT ![r] = x]
          PROVE  held' \in [Requests -> Ids \cup InvitationRow \cup {None}]
      BY <2>1, <2>2, Zenon
    <2>3. CASE AcceptInvitation(r)
      <3>1. Acceptable(r) => db.invitations[Item(r)] \in InvitationRow
        BY RowsOf, TableTypes DEF Acceptable
      <3> QED BY <2>2, <2>3, <3>1 DEF AcceptInvitation
    <2>4. ASSUME NEW S, S \subseteq Rows("members"), NEW i \in FindOne(S), NEW to, Found(r, i, to)
          PROVE  held' \in [Requests -> Ids \cup InvitationRow \cup {None}]
      BY <2>2, <2>4, RowsOf DEF Found, FindOne
    <2>5. CASE RemoveMember(r)
      BY <2>4, <2>5, Zenon DEF RemoveMember, In
    <2>6. CASE LeaveOrganization(r)
      BY <2>4, <2>6, Zenon DEF LeaveOrganization, MembersOf, In
    <2>7. CASE UpdateMemberRole(r)
      BY <2>4, <2>7, Zenon DEF UpdateMemberRole, In
    <2>8. CASE held' = held
      BY <2>1, <2>8
    <2>9. held' = held \/
            pc[r] \in {"accept-invitation", "remove-member", "leave", "update-member-role"}
      BY Holds
    <2> QED BY <2>3, <2>5, <2>6, <2>7, <2>8, <2>9, Handles, Where, SMT
  <1>7. joined' \in [Ids -> SUBSET Requests]
    <2>1. joined \in [Ids -> SUBSET Requests]
      BY DEF TypeOK
    <2>2. joined' = joined \/ \E S \in SUBSET {r} :
            joined' = [joined EXCEPT ![Item(r)] = @ \cup S]
      <3>1. CASE Join(r) /\ pc'[r] = "done"
        BY <2>1, <3>1 DEF Join
      <3>2. CASE Join(r) /\ pc'[r] # "done"
        BY <2>1, <3>2 DEF Join
      <3> QED BY <3>1, <3>2, Holds
    <2> QED BY <2>1, <2>2
  <1>8. shown' \in [Requests -> OrgIds \cup {None}]
    <2>1. shown \in [Requests -> OrgIds \cup {None}]
      BY DEF TypeOK
    <2>2. ASSUME NEW o, Answer(r, o), o \in OrgIds \cup {None}
          PROVE  shown' \in [Requests -> OrgIds \cup {None}]
      BY <2>1, <2>2, Zenon DEF Answer
    <2>3. ASSUME NEW o, o \in Rows("orgs")
          PROVE  o \in OrgIds
      BY <2>3, RowsOf
    <2>4. CASE Read(r)
      <3>1. Visible(r) \in OrgIds \cup {None}
        <4>1. Item(r) \in Rows("invitations") => db.invitations[Item(r)].org \in OrgIds
          BY RowsOf, TableTypes DEF InvitationRow
        <4>2. ASSUME NEW t, t \in Rows("teams")
              PROVE  db.teams[t].org \in OrgIds
          BY <4>2, RowsOf, TableTypes DEF TeamRow
        <4>3. ASSUME NEW o, MembersOf(o, Me(r)) # {}
              PROVE  o \in OrgIds
          BY <4>3, MemberFacts
        <4> QED BY <4>1, <4>2, <4>3 DEF Visible
      <3> QED BY <2>2, <2>4, <3>1, Zenon DEF Read
    <2>5. CASE GetFullOrganization(r)
      <3>1. \/ \E o : Answer(r, o) /\ (o \in Rows("orgs") \/ o = None)
            \/ shown' = shown
        BY <2>5, Zenon DEF GetFullOrganization, Quiet
      <3> QED BY <2>1, <2>2, <2>3, <3>1
    <2>6. shown' = shown \/ Read(r) \/ GetFullOrganization(r)
      <3>1. CASE Reading(r)
        BY <3>1, Checks, Zenon DEF Reading, Passed, CreateOrganization, SetActive,
           InvitationNotFound, RejectInvitation, AcceptInvitation, RemoveMember,
           LeaveOrganization, UpdateMemberRole, SetActiveTeam, Found, Quiet
      <3>2. CASE Handle(r) /\ ~Reading(r)
        BY <3>2, Writes, Zenon DEF InsertOrganization, WriteOrganization, DropOrganization,
           InsertOwner, Join, Cascade, DeleteMember, WriteMemberRole, InsertInvitation,
           WriteStatus, InsertTeam, WriteTeam, DeleteTeam, InsertTeamMember, EmptyTeam,
           InsertRole, WritePermissions, DropRole, Activate, Deactivate, ActivateTeam, Quiet
      <3>3. ASSUME NEW c, Begin(r, c)
            PROVE  shown' = shown
        BY <3>3, Zenon DEF Begin
      <3> QED BY <3>1, <3>2, <3>3, Zenon DEF StepOf
    <2> QED BY <2>1, <2>4, <2>5, <2>6
  <1> QED BY <1>2, <1>3, <1>4, <1>5, <1>6, <1>7, <1>8 DEF TypeOK

-----------------------------------------------------------------------------
(* What steps learn                                                         *)

\* The rows of the tables after a step.
LEMMA RowsThen ==
  ASSUME TypeOK'
  PROVE  /\ Rows("orgs")' = {o \in OrgIds : db'.orgs[o] # None}
         /\ Rows("members")' = {i \in Ids : db'.members[i] # None}
         /\ Rows("invitations")' = {i \in Ids : db'.invitations[i] # None}
         /\ Rows("teams")' = {i \in Requests : db'.teams[i] # None}
         /\ Rows("teamMembers")' = {i \in Requests : db'.teamMembers[i] # None}
         /\ Rows("roles")' = {i \in Requests : db'.roles[i] # None}
PROOF
  <1>1. /\ DOMAIN db'.orgs = OrgIds /\ DOMAIN db'.members = Ids /\ DOMAIN db'.invitations = Ids
        /\ DOMAIN db'.teams = Requests /\ DOMAIN db'.teamMembers = Requests
        /\ DOMAIN db'.roles = Requests
    BY Zenon DEF TypeOK, Tables
  <1> QED BY <1>1 DEF Rows

\* An invitation lets in the request that inserts a member for it.
LEMMA JoinedStep ==
  ASSUME TypeOK, HandlersOK, NEW r \in Requests, StepOf(r)
  PROVE  /\ \A i \in Ids :
              \/ joined'[i] = joined[i]
              \/ /\ pc[r] = "join" /\ pc'[r] = "accepted" /\ i = Item(r)
                 /\ joined'[i] = joined[i] \cup {r}
         /\ pc[r] = "join" /\ pc'[r] = "accepted" => r \in joined'[Item(r)]
PROOF
  <1>1. joined \in [Ids -> SUBSET Requests]
    BY DEF TypeOK
  <1>2. CASE Join(r)
    <2>1. pc[r] = "join" /\ Item(r) \in Ids
      BY <1>2, SMT DEF Join, At, HandlersOK, HandlerOK
    <2>2. pc'[r] \in {"done", "accepted"}
      BY <1>2, Zenon DEF Join, Insert, Finish, Goto, TypeOK
    <2>3. joined' = [joined EXCEPT ![Item(r)] = IF pc'[r] = "done" THEN @ ELSE @ \cup {r}]
      BY <1>2 DEF Join
    <2> QED BY <1>1, <2>1, <2>2, <2>3
  <1>3. CASE joined' = joined /\ ~Join(r)
    <2>1. pc[r] # "join"
      BY <1>3, Handles, Where, SMT
    <2> QED BY <1>3, <2>1
  <1> QED BY <1>2, <1>3, Holds

\* Who follows an invitation into an organization was invited and not a member.
LEMMA AcceptStep ==
  ASSUME TypeOK, HandlersOK, NEW r \in Requests, StepOf(r), pc'[r] = "join"
  PROVE  /\ pc[r] = "accept-invitation" /\ db' = db /\ joined' = joined
         /\ Item(r) \in Ids /\ db.invitations[Item(r)] # None /\ Pending(Item(r))
         /\ held'[r] = db.invitations[Item(r)]
         /\ MembersOf(db.invitations[Item(r)].org, Me(r)) = {}
PROOF
  <1>1. pc \in [Requests -> PCs] /\ DOMAIN held = Requests
    BY DEF TypeOK
  <1>2. Handle(r)
    <2>1. ASSUME NEW c \in Calls[config.scenario], Begin(r, c)
          PROVE  FALSE
      <3>1. c \in Call
        BY ConstantsAssumption DEF TypeOK, Config
      <3>2. pc'[r] = c.op /\ c.op \in Operations
        BY <1>1, <2>1, <3>1, Zenon DEF Begin, Goto, Call
      <3> QED BY <3>2, SMT DEF Operations, ReadOperations
    <2> QED BY <2>1 DEF StepOf
  <1>3. pc[r] = "accept-invitation"
    BY <1>2, Followed, SMT DEF Follows
  <1>4. AcceptInvitation(r)
    BY <1>2, <1>3, Where
  <1>5. /\ Acceptable(r) /\ db' = db /\ joined' = joined
        /\ MembersOf(db.invitations[Item(r)].org, Me(r)) = {}
        /\ held'[r] = db.invitations[Item(r)]
    BY <1>1, <1>4, SMT DEF AcceptInvitation, Goto
  <1> QED BY <1>3, <1>5, RowsOf DEF Acceptable

\* Where a handler begins.
LEMMA Begins ==
  ASSUME TypeOK, NEW r \in Requests, StepOf(r), pc'[r] \notin Operations
  PROVE  Handle(r) /\ pc[r] # "idle"
PROOF
  <1>1. ASSUME NEW c \in Calls[config.scenario], Begin(r, c)
        PROVE  FALSE
    <2>1. c \in Call
      BY ConstantsAssumption DEF TypeOK, Config
    <2>2. pc'[r] = c.op /\ c.op \in Operations
      BY <1>1, <2>1, Zenon DEF Begin, Goto, Call, TypeOK
    <2> QED BY <2>2
  <1> QED BY <1>1, Moves DEF StepOf

\* Who may insert into an organization, or delete it, is a member of it.
LEMMA MemberStep ==
  ASSUME TypeOK, HandlersOK, NEW r \in Requests, StepOf(r),
         pc'[r] \in {"members", "insert-invitation", "insert-team", "insert-role",
                     "insert-team-member"}
  PROVE  /\ db' = db /\ MembersOf(Org(r), Me(r)) # {}
         /\ pc'[r] = "insert-team-member" =>
              Item(r) \in In("teams", Org(r)) /\ MembersOf(Org(r), call[r].who) # {}
PROOF
  <1>1. pc \in [Requests -> PCs] /\ Handle(r)
    BY Begins, SMT DEF Operations, ReadOperations, TypeOK
  <1>2. \/ pc'[r] = "members" /\ DeleteOrganization(r)
        \/ pc'[r] = "insert-invitation" /\ InviteMember(r)
        \/ pc'[r] = "insert-team" /\ CreateTeam(r)
        \/ pc'[r] = "insert-role" /\ CreateRole(r)
        \/ pc'[r] = "insert-team-member" /\ AddTeamMember(r)
    BY <1>1, Followed, Where, SMT DEF Follows
  <1>3. ASSUME NEW op, NEW to, Passed(r, op, Org(r), to)
        PROVE  db' = db /\ MembersOf(Org(r), Me(r)) # {}
    <2>1. ~Goto(r, "done")
      BY <1>1, SMT DEF Goto
    <2> QED BY <1>3, <2>1, Zenon DEF Passed
  <1>4. ~Goto(r, "done")
    BY <1>1, SMT DEF Goto
  <1>5. db' = db /\ MembersOf(Org(r), Me(r)) # {}
    BY <1>2, <1>3, Checks, Zenon
  <1>6. pc'[r] = "insert-team-member" =>
          Item(r) \in In("teams", Org(r)) /\ MembersOf(Org(r), call[r].who) # {}
    BY <1>2, <1>4, Checks, SMT
  <1> QED BY <1>5, <1>6

\* Who is made inactive in an organization is not its last owner.
LEMMA OwnerStep ==
  ASSUME TypeOK, HandlersOK, NEW r \in Requests, StepOf(r),
         pc'[r] = "delete-member" \/ (pc'[r] = "write-role" /\ call[r].name # "owner")
  PROVE  /\ db' = db /\ held'[r] \in Rows("members") /\ ~LastOwner(held'[r])
         /\ pc[r] \in {"remove-member", "leave", "update-member-role"}
PROOF
  <1>1. pc \in [Requests -> PCs] /\ DOMAIN held = Requests /\ Handle(r)
    BY Begins, SMT DEF Operations, ReadOperations, TypeOK
  <1>2. \/ pc'[r] = "delete-member" /\ RemoveMember(r) /\ pc[r] = "remove-member"
        \/ pc'[r] = "delete-member" /\ LeaveOrganization(r) /\ pc[r] = "leave"
        \/ pc'[r] = "write-role" /\ UpdateMemberRole(r) /\ pc[r] = "update-member-role"
    BY <1>1, Followed, Where, SMT DEF Follows
  <1>7. pc[r] \in {"remove-member", "leave", "update-member-role"}
    BY <1>2, Zenon
  <1>3. ASSUME NEW i \in Rows("members"), NEW to, Found(r, i, to), ~LastOwner(i)
        PROVE  db' = db /\ held'[r] \in Rows("members") /\ ~LastOwner(held'[r])
    <2>1. db' = db /\ held'[r] = i
      BY <1>1, <1>3, Zenon DEF Found
    <2> QED BY <1>3, <2>1
  <1>4. CASE pc'[r] = "delete-member" /\ RemoveMember(r)
    <2>1. PICK i \in FindOne(In("members", Org(r)) \cap
                    ({Item(r)} \cup MembersOf(Org(r), call[r].who))) :
            \E to : Found(r, i, to) /\ (i = None \/ LastOwner(i) => to = "done")
      BY <1>4, Zenon DEF RemoveMember
    <2>2. i # None /\ ~LastOwner(i)
      BY <1>1, <1>4, <2>1, Zenon DEF Found, Goto
    <2>3. i \in Rows("members")
      BY <2>1, <2>2 DEF In, FindOne
    <2> QED BY <1>3, <1>7, <2>1, <2>2, <2>3, Zenon
  <1>5. CASE pc'[r] = "delete-member" /\ LeaveOrganization(r)
    <2>1. PICK i \in FindOne(MembersOf(Org(r), Me(r))) :
            \E to : Found(r, i, to) /\ (i = None \/ LastOwner(i) => to = "done")
      BY <1>5, Zenon DEF LeaveOrganization
    <2>2. i # None /\ ~LastOwner(i)
      BY <1>1, <1>5, <2>1, Zenon DEF Found, Goto
    <2>3. i \in Rows("members")
      BY <2>1, <2>2 DEF MembersOf, In, FindOne
    <2> QED BY <1>3, <1>7, <2>1, <2>2, <2>3, Zenon
  <1>6. CASE pc'[r] = "write-role" /\ UpdateMemberRole(r)
    <2>1. call[r].name # "owner"
      BY <1>6
    <2>2. PICK i \in FindOne(In("members", Org(r)) \cap {Item(r)}) :
            \E to : Found(r, i, to) /\ (i = None \/ LastOwner(i) => to = "done")
      BY <1>6, <2>1, Zenon DEF UpdateMemberRole
    <2>3. i # None /\ ~LastOwner(i)
      BY <1>1, <1>6, <2>2, Zenon DEF Found, Goto
    <2>4. i \in Rows("members")
      BY <2>2, <2>3 DEF In, FindOne
    <2> QED BY <1>3, <1>7, <2>2, <2>3, <2>4, Zenon
  <1> QED BY <1>2, <1>4, <1>5, <1>6

\* What a request is shown it sees as a member, or as one of a team.
LEMMA ShownStep ==
  ASSUME TypeOK, HandlersOK, NEW r \in Requests, StepOf(r), shown'[r] # shown[r],
         shown'[r] # None, Op(r) # "get-invitation"
  PROVE  \/ MembersOf(shown'[r], Me(r)) # {}
         \/ \E i \in Rows("teamMembers") :
              /\ db.teamMembers[i].user = Me(r)
              /\ db.teamMembers[i].team \in Rows("teams")
              /\ db.teams[db.teamMembers[i].team].org = shown'[r]
PROOF
  <1>1. DOMAIN shown = Requests
    BY DEF TypeOK
  <1>2. ASSUME NEW o, Answer(r, o)
        PROVE  shown'[r] = o
    BY <1>1, <1>2, Zenon DEF Answer
  <1>3. CASE Read(r)
    <2>1. shown'[r] = Visible(r)
      BY <1>2, <1>3, Zenon DEF Read
    <2>2. CASE Op(r) = "list-team-members"
      <3> DEFINE t == IF Item(r) = None THEN db.activeTeam[Me(r)] ELSE Item(r)
      <3>1. t \in Rows("teams") /\ InTeam(t, Me(r)) /\ shown'[r] = db.teams[t].org
        BY <2>1, <2>2 DEF Visible
      <3> HIDE DEF t
      <3>2. PICK i \in Rows("teamMembers") : db.teamMembers[i] = [team |-> t, user |-> Me(r)]
        BY <3>1 DEF InTeam
      <3> QED BY <3>1, <3>2
    <2>3. CASE Op(r) # "list-team-members"
      BY <2>1, <2>3 DEF Visible
    <2> QED BY <2>2, <2>3
  <1>4. CASE GetFullOrganization(r)
    <2>1. \/ \E o : Answer(r, o) /\ (o # None => MembersOf(o, Me(r)) # {})
          \/ shown' = shown
      BY <1>4, Zenon DEF GetFullOrganization, Quiet
    <2> QED BY <1>2, <2>1
  <1>5. shown' = shown \/ Read(r) \/ GetFullOrganization(r)
    <2>1. CASE Reading(r)
      BY <2>1, Checks, Zenon DEF Reading, Passed, CreateOrganization, SetActive,
         InvitationNotFound, RejectInvitation, AcceptInvitation, RemoveMember,
         LeaveOrganization, UpdateMemberRole, SetActiveTeam, Found, Quiet
    <2>2. CASE Handle(r) /\ ~Reading(r)
      BY <2>2, Writes, Zenon DEF InsertOrganization, WriteOrganization, DropOrganization,
         InsertOwner, Join, Cascade, DeleteMember, WriteMemberRole, InsertInvitation,
         WriteStatus, InsertTeam, WriteTeam, DeleteTeam, InsertTeamMember, EmptyTeam,
         InsertRole, WritePermissions, DropRole, Activate, Deactivate, ActivateTeam, Quiet
    <2>3. ASSUME NEW c, Begin(r, c)
          PROVE  shown' = shown
      BY <2>3, Zenon DEF Begin
    <2> QED BY <2>1, <2>2, <2>3, Zenon DEF StepOf
  <1> QED BY <1>3, <1>4, <1>5

-----------------------------------------------------------------------------
(* Handlers and rows                                                        *)

\* Every request's handler knows after a step what it needs to.
LEMMA HandlersStep ==
  ASSUME TypeOK, HandlersOK, NEW r \in Requests, StepOf(r)
  PROVE  HandlersOK'
PROOF
  <1>1. ASSUME NEW q \in Requests \ {r}
        PROVE  HandlerOK(q)'
    <2>1. HandlerOK(q) /\ pc'[q] = pc[q] /\ call'[q] = call[q] /\ held'[q] = held[q]
      BY Others DEF HandlersOK
    <2>2. /\ (Asked(q)' <=> Asked(q)) /\ Op(q)' = Op(q) /\ Org(q)' = Org(q)
          /\ Item(q)' = Item(q)
      BY <2>1 DEF Asked, Op, Org, Item
    <2> QED BY <2>1, <2>2, Zenon DEF HandlerOK
  <1> QED BY <1>1, HandlerStep DEF HandlersOK

\* Rows bear the names of those that inserted them, once.
LEMMA FreshStep ==
  ASSUME TypeOK, HandlersOK, RowsAreFresh, NEW r \in Requests, StepOf(r)
  PROVE  RowsAreFresh'
PROOF
  <1> DEFINE Fresh(q, t) == db[t][q] # None => Inserted(q, t)
  <1>1. /\ MembersMove(r) /\ InvitationsMove(r) /\ TeamsMove(r) /\ TeamMembersMove(r)
        /\ RolesMove(r) /\ OrgsMove(r)
    BY MembersStep, InvitationsStep, TeamsStep, TeamMembersStep, RolesStep, OrgsStep
  <1>2. pc[r] # "idle" => Follows(pc[r], pc'[r])
    BY Followed, Handles
  <1>3. /\ \A q \in Requests : q \in Ids /\ q \in OrgIds
        /\ \A q \in Requests \ {r} : pc'[q] = pc[q] /\ Item(q)' = Item(q)
        /\ pc[r] # "done" /\ (pc[r] # "idle" => Item(r)' = Item(r))
    BY Others, Zenon DEF Ids, OrgIds, Item
  <1>4. ASSUME NEW q \in Requests
        PROVE  /\ db'.orgs[q] # None =>
                    (db.orgs[q] # None) \/ (q = r /\ pc'[r] = "create-owner")
               /\ db'.members[q] # None =>
                    (db.members[q] # None) \/ (q = r /\ pc'[r] \in {"activate", "accepted"})
               /\ db'.invitations[q] # None =>
                    (db.invitations[q] # None) \/ (q = r /\ pc'[r] = "done")
               /\ db'.teams[q] # None => (db.teams[q] # None) \/ (q = r /\ pc'[r] = "done")
               /\ db'.teamMembers[q] # None =>
                    (db.teamMembers[q] # None) \/ (q = r /\ pc'[r] = "done")
               /\ db'.roles[q] # None => (db.roles[q] # None) \/ (q = r /\ pc'[r] = "done")
    BY <1>1, <1>3 DEF MembersMove, InvitationsMove, TeamsMove, TeamMembersMove, RolesMove, OrgsMove
  <1>5. ASSUME NEW q \in Requests
        PROVE  /\ db.orgs[q] # None => pc[q] \in {"create-owner", "activate", "done"}
               /\ db.members[q] # None => pc[q] \in {"activate", "accepted", "done"}
               /\ db.invitations[q] # None => pc[q] = "done"
               /\ db.teams[q] # None => pc[q] = "done"
               /\ db.teamMembers[q] # None => pc[q] = "done"
               /\ db.roles[q] # None => pc[q] = "done"
    BY SMT DEF RowsAreFresh, Inserted
  <1>6. ASSUME NEW q \in Requests
        PROVE  /\ pc[q] = "done" => pc'[q] = "done"
               /\ pc[q] \in {"create-owner", "activate", "done"} =>
                    pc'[q] \in {"create-owner", "activate", "done"}
               /\ pc[q] \in {"activate", "accepted", "done"} =>
                    pc'[q] \in {"activate", "accepted", "done"}
    BY <1>2, <1>3, SMT DEF Follows
  <1>7. ASSUME NEW q \in Requests
        PROVE  /\ db'.orgs[q] # None => pc'[q] \in {"create-owner", "activate", "done"}
               /\ db'.members[q] # None => pc'[q] \in {"activate", "accepted", "done"}
               /\ db'.invitations[q] # None => pc'[q] = "done"
               /\ db'.teams[q] # None => pc'[q] = "done"
               /\ db'.teamMembers[q] # None => pc'[q] = "done"
               /\ db'.roles[q] # None => pc'[q] = "done"
    BY <1>4, <1>5, <1>6
  <1>8. ASSUME NEW q \in Requests,
               NEW t \in {"orgs", "members", "invitations", "teams", "teamMembers", "roles"},
               db'[t][q] # None
        PROVE  Inserted(q, t)'
    BY <1>7, <1>8, SMT DEF Inserted
  <1>9. ASSUME NEW q \in Requests, joined'[q] # {}
        PROVE  pc'[q] = "done"
    <2>1. joined[q] # {} \/ (pc[r] = "join" /\ Item(r) = q)
      BY <1>3, <1>9, JoinedStep
    <2> QED BY <1>6, <2>1 DEF RowsAreFresh
  <1>10. ASSUME NEW q \in Requests, pc'[q] = "join", Item(q)' \in Requests
         PROVE  pc'[Item(q)'] = "done"
    <2>1. CASE q # r
      BY <1>3, <1>6, <1>10, <2>1 DEF RowsAreFresh
    <2>2. CASE q = r
      <3>1. pc[r] # "idle" /\ db.invitations[Item(r)] # None
        BY <1>10, <2>2, AcceptStep
      <3>2. Item(r)' = Item(r)
        BY <1>3, <3>1
      <3>3. pc[Item(r)] = "done"
        BY <1>5, <1>10, <2>2, <3>1, <3>2
      <3> QED BY <1>6, <1>10, <2>2, <3>2, <3>3
    <2> QED BY <2>1, <2>2
  <1> QED BY <1>8, <1>9, <1>10, Zenon DEF RowsAreFresh

\* Who founded an organization has founded it.
LEMMA FoundedStays ==
  ASSUME TypeOK, NEW r \in Requests, StepOf(r), NEW o \in OrgIds, Founded(o)
  PROVE  Founded(o)'
PROOF
  <1>1. pc[r] # "idle" => Follows(pc[r], pc'[r])
    BY Followed, Handles
  <1>2. CASE o \in Requests \ {r}
    BY <1>2, Others DEF Founded
  <1>3. CASE o = r
    BY <1>1, <1>3, Others, SMT DEF Founded, Follows
  <1> QED BY <1>2, <1>3 DEF Founded, OrgIds

\* Organizations have their first owner before rows name them.
LEMMA FoundedStep ==
  ASSUME TypeOK, HandlersOK, NamedOrgsAreFounded, NEW r \in Requests, StepOf(r)
  PROVE  NamedOrgsAreFounded'
PROOF
  <1>1. TypeOK' /\ MembersMove(r) /\ InvitationsMove(r)
    BY TypeStep, MembersStep, InvitationsStep
  <1>2. \A i \in Ids : db'.members[i] # None => db'.members[i].org \in OrgIds
    BY <1>1 DEF MembersMove, MemberRow
  <1>3. \A i \in Ids : db'.invitations[i] # None => db'.invitations[i].org \in OrgIds
    BY <1>1 DEF InvitationsMove, InvitationRow
  <1>4. ASSUME NEW i \in Rows("members")', NEW o, o = db'.members[i].org
        PROVE  Founded(o)'
    <2>1. i \in Ids /\ db'.members[i] # None /\ o \in OrgIds
      BY <1>1, <1>2, <1>4, RowsThen
    <2>2. CASE db.members[i] # None /\ o = db.members[i].org
      <3>1. Founded(o)
        BY <2>1, <2>2, RowsOf DEF NamedOrgsAreFounded
      <3> QED BY <2>1, <3>1, FoundedStays
    <2>3. CASE pc'[r] = "activate" /\ o = r
      BY <2>3 DEF Founded
    <2>4. CASE pc[r] = "join" /\ o = held[r].org
      BY <2>1, <2>4, FoundedStays DEF NamedOrgsAreFounded
    <2> QED BY <1>1, <1>4, <2>1, <2>2, <2>3, <2>4 DEF MembersMove
  <1>5. ASSUME NEW i \in Rows("invitations")', NEW o, o = db'.invitations[i].org
        PROVE  Founded(o)'
    <2>1. i \in Ids /\ db'.invitations[i] # None /\ o \in OrgIds
      BY <1>1, <1>3, <1>5, RowsThen
    <2>2. CASE db.invitations[i] # None /\ o = db.invitations[i].org
      <3>1. Founded(o)
        BY <2>1, <2>2, RowsOf DEF NamedOrgsAreFounded
      <3> QED BY <2>1, <3>1, FoundedStays
    <2>3. CASE pc[r] = "insert-invitation" /\ o = Org(r)
      BY <2>1, <2>3, FoundedStays DEF NamedOrgsAreFounded
    <2> QED BY <1>1, <1>5, <2>1, <2>2, <2>3 DEF InvitationsMove
  <1>6. ASSUME NEW q \in Requests, pc'[q] = "insert-invitation", NEW o, o = Org(q)'
        PROVE  Founded(o)'
    <2>1. o \in OrgIds
      BY <1>6, HandlersStep DEF HandlersOK, HandlerOK
    <2>2. CASE q # r
      <3>1. pc[q] = "insert-invitation" /\ o = Org(q)
        BY <1>6, <2>2, Others DEF Org
      <3> QED BY <2>1, <3>1, FoundedStays DEF NamedOrgsAreFounded
    <2>3. CASE q = r
      <3>1. MembersOf(Org(r), Me(r)) # {}
        BY <1>6, <2>3, MemberStep
      <3>2. Founded(Org(r))
        BY <3>1 DEF MembersOf, In, NamedOrgsAreFounded
      <3>3. pc'[r] \notin Operations
        BY <1>6, <2>3, SMT DEF Operations, ReadOperations
      <3>4. o = Org(r)
        BY <1>6, <2>3, <3>3, Begins, Others DEF Org
      <3> QED BY <2>1, <3>2, <3>4, FoundedStays
    <2> QED BY <2>2, <2>3
  <1>7. ASSUME NEW q \in Requests, pc'[q] = "join", NEW o, o = held'[q].org
        PROVE  Founded(o)'
    <2>1. o \in OrgIds
      BY <1>7, HandlersStep DEF HandlersOK, HandlerOK, InvitationRow
    <2>2. CASE q # r
      <3>1. pc[q] = "join" /\ held'[q] = held[q]
        BY <1>7, <2>2, Others
      <3> QED BY <1>7, <2>1, <3>1, FoundedStays DEF NamedOrgsAreFounded
    <2>3. CASE q = r
      <3>1. held'[r] = db.invitations[Item(r)] /\ Item(r) \in Rows("invitations")
        BY <1>7, <2>3, AcceptStep, RowsOf
      <3>2. Founded(o)
        BY <1>7, <2>3, <3>1 DEF NamedOrgsAreFounded
      <3> QED BY <2>1, <3>2, FoundedStays
    <2> QED BY <2>2, <2>3
  <1> QED BY <1>4, <1>5, <1>6, <1>7, Zenon DEF NamedOrgsAreFounded, Founded

-----------------------------------------------------------------------------
(* Who has been a member                                                    *)

\* Who has earned a membership has earned it.
LEMMA OnceStays ==
  ASSUME TypeOK, HandlersOK, MembersEarned, NEW r \in Requests, StepOf(r), NEW o, NEW u,
         OnceMember(o, u)
  PROVE  OnceMember(o, u)'
PROOF
  <1>1. CASE o = HomeOrg /\ HomeRoles[u] # None
    BY <1>1 DEF OnceMember
  <1>2. ASSUME NEW q \in Requests, call[q] # None
        PROVE  call'[q] = call[q]
    BY <1>2, Others DEF HandlersOK, HandlerOK
  <1>3. CASE \E q \in Requests : call[q] # None /\ Me(q) = u /\ o = q /\ Op(q) = "create"
    BY <1>2, <1>3 DEF OnceMember, Me, Op
  <1>4. ASSUME NEW q \in Requests, call[q] # None, Me(q) = u, NEW i \in Ids, q \in joined[i],
               held[q].org = o
        PROVE  OnceMember(o, u)'
    <2>1. pc[q] \in {"accepted", "done"}
      BY <1>4 DEF MembersEarned
    <2>2. held'[q] = held[q]
      BY <2>1, Others, Holds, SMT
    <2>3. q \in joined'[i]
      BY <1>4, JoinedStep
    <2> QED BY <1>2, <1>4, <2>2, <2>3 DEF OnceMember, Me
  <1> QED BY <1>1, <1>3, <1>4 DEF OnceMember

\* Nobody is a member who has not earned it.
LEMMA EarnedStep ==
  ASSUME TypeOK, HandlersOK, RowsAreFresh, MembersEarned, NEW r \in Requests, StepOf(r)
  PROVE  MembersEarned'
PROOF
  <1>1. /\ TypeOK' /\ HandlersOK' /\ MembersMove(r) /\ TeamsMove(r) /\ TeamMembersMove(r)
    BY TypeStep, HandlersStep, MembersStep, TeamsStep, TeamMembersStep
  <1>2. /\ \A q \in Requests \ {r} : /\ pc'[q] = pc[q] /\ call'[q] = call[q]
                                     /\ shown'[q] = shown[q]
        /\ pc[r] # "idle" => call'[r] = call[r]
        /\ pc[r] # "done"
    BY Others
  <1>3. HandlerOK(r)
    BY DEF HandlersOK
  <1>4. \A q \in Requests : pc[q] = "done" => pc'[q] = "done" /\ q # r
    BY <1>2
  <1>5. ASSUME NEW t \in Requests, db.teams[t] # None
        PROVE  pc[t] = "done"
    BY <1>5, SMT DEF RowsAreFresh, Inserted
  <1>6. ASSUME NEW t \in Requests, pc[t] = "done", db'.teams[t] # None
        PROVE  db.teams[t] # None /\ db'.teams[t].org = db.teams[t].org
    BY <1>1, <1>4, <1>6 DEF TeamsMove
  <1>7. ASSUME NEW i \in Rows("members")', NEW o, NEW u,
               o = db'.members[i].org, u = db'.members[i].user
        PROVE  OnceMember(o, u)'
    <2>1. i \in Ids /\ db'.members[i] # None
      BY <1>1, <1>7, RowsThen
    <2>2. CASE db.members[i] # None /\ o = db.members[i].org /\ u = db.members[i].user
      BY <2>1, <2>2, RowsOf, OnceStays DEF MembersEarned
    <2>3. CASE pc[r] = "create-owner" /\ o = r /\ u = Me(r)
      <3>1. call[r] # None /\ Op(r) = "create"
        BY <1>3, <2>3, NoneAssumption, SMT DEF HandlerOK, Asked
      <3> QED BY <2>3, <3>1, OnceStays DEF OnceMember
    <2>4. CASE pc[r] = "join" /\ pc'[r] = "accepted" /\ o = held[r].org /\ u = Me(r)
      <3>1. call[r] # None /\ call'[r] = call[r] /\ Item(r) \in Ids
        BY <1>2, <1>3, <2>4, NoneAssumption, SMT DEF HandlerOK, Asked
      <3>2. held'[r] = held[r] /\ r \in joined'[Item(r)]
        BY <2>4, Holds, JoinedStep, SMT
      <3> QED BY <2>4, <3>1, <3>2 DEF OnceMember, Me
    <2>5. \/ db.members[i] # None /\ o = db.members[i].org /\ u = db.members[i].user
          \/ pc[r] = "create-owner" /\ o = r /\ u = Me(r)
          \/ pc[r] = "join" /\ pc'[r] = "accepted" /\ o = held[r].org /\ u = Me(r)
      BY <1>1, <1>7, <2>1 DEF MembersMove
    <2> QED BY <2>2, <2>3, <2>4, <2>5
  <1>8. ASSUME NEW i \in Rows("teamMembers")', NEW m, m = db'.teamMembers[i]
        PROVE  /\ pc'[m.team] = "done" /\ m.team \in Requests
               /\ db'.teams[m.team] # None =>
                    \A o : o = db'.teams[m.team].org => OnceMember(o, m.user)'
    <2>1. i \in Requests /\ m # None /\ m \in TeamMemberRow
      BY <1>1, <1>8, RowsThen DEF TeamMembersMove
    <2>2. m.team \in Requests
      BY <2>1 DEF TeamMemberRow
    <2>3. CASE db.teamMembers[i] # None /\ m = db.teamMembers[i]
      <3>1. /\ pc[m.team] = "done"
            /\ db.teams[m.team] # None => OnceMember(db.teams[m.team].org, m.user)
        BY <2>1, <2>3, RowsOf DEF MembersEarned
      <3> QED BY <1>4, <1>6, <2>2, <3>1, OnceStays
    <2>4. CASE pc[r] = "insert-team-member" /\ m = [team |-> Item(r), user |-> call[r].who]
      <3>1. /\ pc[m.team] = "done" /\ OnceMember(Org(r), m.user)
            /\ db.teams[m.team] # None => db.teams[m.team].org = Org(r)
        BY <2>4 DEF MembersEarned
      <3> QED BY <1>4, <1>6, <2>2, <3>1, OnceStays
    <2> QED BY <1>1, <1>8, <2>1, <2>3, <2>4 DEF TeamMembersMove
  <1>9. ASSUME NEW q \in Requests, pc'[q] = "insert-team-member",
               NEW o, o = Org(q)', NEW u, u = call'[q].who, NEW t, t = Item(q)'
        PROVE  /\ pc'[t] = "done" /\ OnceMember(o, u)'
               /\ db'.teams[t] # None => db'.teams[t].org = o
    <2>1. t \in Requests
      BY <1>1, <1>9 DEF HandlersOK, HandlerOK
    <2>2. CASE q # r
      <3>1. pc[q] = "insert-team-member" /\ o = Org(q) /\ u = call[q].who /\ t = Item(q)
        BY <1>2, <1>9, <2>2 DEF Org, Item
      <3>2. /\ pc[t] = "done" /\ OnceMember(o, u)
            /\ db.teams[t] # None => db.teams[t].org = o
        BY <3>1 DEF MembersEarned
      <3> QED BY <1>4, <1>6, <2>1, <3>2, OnceStays
    <2>3. CASE q = r
      <3>1. Item(r) \in In("teams", Org(r)) /\ MembersOf(Org(r), call[r].who) # {}
        BY <1>9, <2>3, MemberStep
      <3>2. pc'[r] \notin Operations
        BY <1>9, <2>3, SMT DEF Operations, ReadOperations
      <3>3. call'[r] = call[r]
        BY <1>2, <3>2, Begins
      <3>4. o = Org(r) /\ u = call[r].who /\ t = Item(r)
        BY <1>9, <2>3, <3>3 DEF Org, Item
      <3>5. PICK i \in Rows("members") : db.members[i].org = o /\ db.members[i].user = u
        BY <3>1, <3>4, Zenon DEF MembersOf, In
      <3>6. OnceMember(o, u)
        BY <3>5 DEF MembersEarned
      <3>7. db.teams[t] # None /\ db.teams[t].org = o
        BY <3>1, <3>4, RowsOf DEF In
      <3> QED BY <1>4, <1>5, <1>6, <2>1, <3>6, <3>7, OnceStays
    <2> QED BY <2>2, <2>3
  <1>10. ASSUME NEW i \in Ids, NEW q \in joined'[i]
         PROVE  pc'[q] \in {"accepted", "done"} /\ Item(q)' = i
    <2>1. q \in Requests
      BY <1>1 DEF TypeOK
    <2>2. CASE q \in joined[i]
      <3>1. pc[q] \in {"accepted", "done"} /\ Item(q) = i
        BY <2>2 DEF MembersEarned
      <3>2. Item(q)' = Item(q)
        BY <1>2, <2>1, <3>1 DEF Item
      <3>3. pc[r] = "accepted" => pc'[r] = "done"
        BY Handles, Followed, SMT DEF Follows
      <3> QED BY <1>2, <2>1, <3>1, <3>2, <3>3
    <2>3. CASE q = r /\ pc[r] = "join" /\ pc'[r] = "accepted" /\ i = Item(r)
      BY <1>2, <2>3 DEF Item
    <2> QED BY <2>2, <2>3, JoinedStep
  <1>11. ASSUME NEW q \in Requests, shown'[q] # None
         PROVE  pc'[q] = "done"
    <2>1. CASE shown'[q] = shown[q]
      BY <1>4, <1>11, <2>1 DEF MembersEarned
    <2>2. CASE shown'[q] # shown[q]
      BY <1>2, <2>2, Holds
    <2> QED BY <2>1, <2>2
  <1> QED
    <2>1. ASSUME NEW i \in Rows("members")'
          PROVE  OnceMember(db.members[i].org, db.members[i].user)'
      <3>1. PICK o, u : o = db'.members[i].org /\ u = db'.members[i].user
        OBVIOUS
      <3>2. OnceMember(o, u)'
        BY <1>7, <2>1, <3>1
      <3> QED BY <3>1, <3>2, SMT DEF OnceMember, Me, Op
    <2>2. ASSUME NEW i \in Rows("teamMembers")'
          PROVE  /\ pc'[db'.teamMembers[i].team] = "done"
                 /\ db'.teams[db'.teamMembers[i].team] # None =>
                      OnceMember(db.teams[db.teamMembers[i].team].org, db.teamMembers[i].user)'
      <3>1. PICK m : m = db'.teamMembers[i]
        OBVIOUS
      <3>2. PICK o : o = db'.teams[m.team].org
        OBVIOUS
      <3>3. pc'[m.team] = "done" /\ (db'.teams[m.team] # None => OnceMember(o, m.user)')
        BY <1>8, <2>2, <3>1, <3>2
      <3> QED BY <3>1, <3>2, <3>3, SMT DEF OnceMember, Me, Op
    <2>3. ASSUME NEW q \in Requests, pc'[q] = "insert-team-member"
          PROVE  /\ pc'[Item(q)'] = "done"
                 /\ OnceMember(Org(q), call[q].who)'
                 /\ db'.teams[Item(q)'] # None => db'.teams[Item(q)'].org = Org(q)'
      <3>1. PICK o, u, t : o = Org(q)' /\ u = call'[q].who /\ t = Item(q)'
        OBVIOUS
      <3>2. /\ pc'[t] = "done" /\ OnceMember(o, u)'
            /\ db'.teams[t] # None => db'.teams[t].org = o
        BY <1>9, <2>3, <3>1
      <3>3. OnceMember(Org(q), call[q].who)'
        BY <3>1, <3>2, SMT DEF OnceMember, Me, Op
      <3> QED BY <3>1, <3>2, <3>3
    <2> QED BY <1>10, <1>11, <2>1, <2>2, <2>3, Zenon DEF MembersEarned

\* An organization's rows are shown to who has been a member.
LEMMA ShowsStep ==
  ASSUME TypeOK, HandlersOK, MembersEarned, ShownToMembers, NEW r \in Requests, StepOf(r)
  PROVE  ShownToMembers'
PROOF
  <1>1. ASSUME NEW q \in Requests, NEW o, o = shown'[q], NEW u, u = Me(q)', o # None,
               Op(q)' # "get-invitation"
        PROVE  OnceMember(o, u)'
    <2>1. CASE shown'[q] = shown[q]
      <3>1. pc[q] = "done"
        BY <1>1, <2>1 DEF MembersEarned
      <3>2. Op(q)' = Op(q) /\ Me(q)' = Me(q)
        BY <3>1, Others DEF Op, Me
      <3> QED BY <1>1, <2>1, <3>2, OnceStays DEF ShownToMembers
    <2>2. CASE shown'[q] # shown[q]
      <3>1. q = r
        BY <2>2, Others
      <3>2. pc[r] # "idle"
        <4>1. ASSUME NEW c, Begin(r, c)
              PROVE  FALSE
          BY <2>2, <4>1, <3>1, Zenon DEF Begin
        <4> QED BY <4>1, Moves, Zenon DEF StepOf
      <3>3. Op(r)' = Op(r) /\ Me(r)' = Me(r)
        BY <3>2, Others DEF Op, Me
      <3>4. OnceMember(o, u)
        BY <1>1, <2>2, <3>1, <3>3, ShownStep, RowsOf DEF MembersEarned, MembersOf, In
      <3> QED BY <3>4, OnceStays
    <2> QED BY <2>1, <2>2
  <1>2. ASSUME NEW q \in Requests, shown'[q] # None, Op(q)' # "get-invitation"
        PROVE  OnceMember(shown[q], Me(q))'
    <2>1. PICK o, u : o = shown'[q] /\ u = Me(q)'
      OBVIOUS
    <2>2. OnceMember(o, u)'
      BY <1>1, <1>2, <2>1
    <2> QED BY <2>1, <2>2, SMT DEF OnceMember, Me, Op
  <1> QED BY <1>2, Zenon DEF ShownToMembers

-----------------------------------------------------------------------------
(* Handlers that are not interrupted                                        *)

\* An owner who is not the last one leaves another.
LEMMA AnotherOwner ==
  ASSUME TypeOK, NEW i \in Rows("members"), ~LastOwner(i), NEW o, Owners(o) # {}
  PROVE  Owners(o) \ {i} # {}
PROOF
  <1>1. CASE i \notin Owners(o)
    BY <1>1
  <1>2. CASE i \in Owners(o)
    <2>1. db.members[i].org = o /\ db.members[i].role = "owner"
      BY <1>2 DEF Owners, In
    <2>2. ~(Cardinality(Owners(o)) <= 1)
      BY <2>1 DEF LastOwner
    <2>3. Owners(o) # {i}
      <3>1. Cardinality({i}) = 1
        BY FS_Singleton
      <3> QED BY <2>2, <3>1
    <2> QED BY <1>2, <2>3
  <1> QED BY <1>1, <1>2

\* While one handler is in turn, no other is under way, before or after.
LEMMA AloneStep ==
  ASSUME TypeOK, ~config.suspends, NEW r \in Requests, StepOf(r)
  PROVE  /\ \A q \in Requests \ {r} : pc[q] \in {"idle", "done"} /\ pc'[q] = pc[q]
         /\ Alone'
PROOF
  <1>1. \A q \in Requests \ {r} : ~InHandler(q)
    BY Moves DEF Scheduled
  <1>2. \A q \in Requests \ {r} : pc'[q] = pc[q]
    BY Others
  <1> QED BY <1>1, <1>2 DEF Alone, InHandler

\* An organization keeps an owner, or is on its way in or out.
LEMMA StaffedStep ==
  ASSUME TypeOK, HandlersOK, RowsAreFresh, ~config.suspends, Staffed, StaysStaffed, DeletesAll,
         NEW r \in Requests, StepOf(r)
  PROVE  Staffed'
PROOF
  <1>1. /\ TypeOK' /\ MembersMove(r) /\ OrgsMove(r) /\ TeamsMove(r)
        /\ \A q \in Requests \ {r} : pc[q] \in {"idle", "done"}
    BY TypeStep, MembersStep, OrgsStep, TeamsStep, AloneStep
  <1>2. /\ HandlerOK(r) /\ (pc[r] # "idle" => Org(r)' = Org(r) /\ call'[r] = call[r])
        /\ r \in Ids
    BY Others DEF HandlersOK, Org, Ids
  <1>3. pc[r] # "idle" => Follows(pc[r], pc'[r])
    BY Followed, Handles
  <1> SUFFICES ASSUME NEW o \in Rows("orgs")'
               PROVE  \/ Owners(o)' # {}
                      \/ \E q \in Requests : (pc'[q] = "create-owner" /\ o = q) \/ Deleting(q, o)'
    BY Zenon DEF Staffed
  <1>4. o \in OrgIds /\ db'.orgs[o] # None
    BY <1>1, RowsThen
  <1>5. ASSUME NEW i \in Ids, db'.members[i] # None, db'.members[i].org = o,
               db'.members[i].role = "owner"
        PROVE  Owners(o)' # {}
    BY <1>1, <1>5, RowsThen DEF Owners, In
  <1>6. CASE db.orgs[o] = None
    BY <1>1, <1>4, <1>6 DEF OrgsMove
  <1>7. CASE pc[r] = "create-owner" /\ o = r
    <2>1. pc'[r] = "activate" /\ db'.members[r] = [org |-> r, user |-> Me(r), role |-> "owner"]
      BY <1>1, <1>7 DEF StaysStaffed, MembersMove
    <2>2. db'.members[r] # None
      <3>1. Me(r) \in Users /\ r \in OrgIds
        BY <1>2, <1>7, Bodies, SMT DEF HandlerOK, OrgIds
      <3>2. [org |-> r, user |-> Me(r), role |-> "owner"] \in MemberRow
        BY <3>1, SMT DEF MemberRow, Roles, BuiltIn, DefaultRoles
      <3> QED BY <2>1, <3>2, NoneAssumption
    <2> QED BY <1>2, <1>5, <1>7, <2>1, <2>2
  <1>8. CASE Deleting(r, o)
    <2>1. pc[r] \in {"members", "invitations", "teamMembers", "teams", "roles", "orgs"}
          /\ Org(r) = o
      BY <1>8, SMT DEF Deleting, AfterTable
    <2>2. pc[r] # "orgs"
      <3>1. pc[r] = "orgs" => \A t \in OrgTables : In(t, Org(r)) = {}
        BY SMT DEF DeletesAll, Emptied, OrgTables
      <3> QED BY <1>1, <1>4, <2>1, <3>1 DEF OrgsMove
    <2>3. pc'[r] # "done"
      <3>2. CASE pc[r] = "teams"
        BY <1>1, <3>2, SMT DEF DeletesAll, TeamsMove
      <3>3. CASE pc[r] # "teams"
        <4>1. pc[r] \in DOMAIN AfterTable /\ Cascade(r, pc[r])
          BY <2>1, <2>2, Handles, Where, SMT DEF AfterTable
        <4>2. pc'[r] = AfterTable[pc[r]]
          BY <3>3, <4>1, Cascades, Zenon
        <4>3. \A t \in DOMAIN AfterTable : AfterTable[t] # "done"
          BY SMT DEF AfterTable
        <4> QED BY <4>1, <4>2, <4>3, Zenon
      <3> QED BY <3>2, <3>3
    <2>4. pc'[r] \in {"invitations", "teamMembers", "teams", "roles", "orgs"}
      BY <1>3, <2>1, <2>2, <2>3, SMT DEF Follows
    <2>5. Deleting(r, o)'
      BY <1>2, <2>1, <2>4, SMT DEF Deleting, AfterTable
    <2> QED BY <2>5
  <1>9. CASE db.orgs[o] # None /\ Owners(o) # {} /\ ~Deleting(r, o)
    <2>1. ASSUME NEW i \in Owners(o), ~(pc[r] = "delete-member" /\ i = held[r]),
                 ~(pc[r] = "write-role" /\ i = held[r] /\ call[r].name # "owner")
          PROVE  Owners(o)' # {}
      <3>1. i \in Ids /\ db.members[i] # None /\ db.members[i].org = o
            /\ db.members[i].role = "owner"
        BY RowsOf DEF Owners, In
      <3>2. ~(pc[r] = "members" /\ Org(r) = o)
        BY <1>9, SMT DEF Deleting, AfterTable
      <3>3. pc[r] \in {"create-owner", "join"} => i # r
        BY <3>1, SMT DEF RowsAreFresh, Inserted
      <3>4. db'.members[i] # None
        BY <1>1, <2>1, <3>1, <3>2 DEF MembersMove
      <3>5. /\ db'.members[i].org = o
            /\ \/ db'.members[i].role = "owner"
               \/ pc[r] = "write-role" /\ i = held[r] /\ db'.members[i].role = call[r].name
        BY <1>1, <3>1, <3>3, <3>4, SMT DEF MembersMove
      <3> QED BY <1>5, <2>1, <3>1, <3>4, <3>5
    <2>2. CASE pc[r] = "delete-member" \/ (pc[r] = "write-role" /\ call[r].name # "owner")
      <3>1. Owners(o) \ {held[r]} # {}
        BY <1>4, <1>9, <2>2, RowsOf DEF StaysStaffed
      <3> QED BY <2>1, <3>1
    <2>3. CASE ~(pc[r] = "delete-member" \/ (pc[r] = "write-role" /\ call[r].name # "owner"))
      BY <1>9, <2>1, <2>3
    <2> QED BY <2>2, <2>3
  <1>10. CASE db.orgs[o] # None
    <2>1. o \in Rows("orgs")
      BY <1>4, <1>10, RowsOf
    <2>2. \A q \in Requests : (pc[q] = "create-owner" /\ o = q) \/ Deleting(q, o) => q = r
      BY <1>1, SMT DEF Deleting, AfterTable
    <2> QED BY <1>7, <1>8, <1>9, <1>10, <2>1, <2>2 DEF Staffed
  <1> QED BY <1>6, <1>10

\* What a handler is about to do leaves an owner.
LEMMA StaysStaffedStep ==
  ASSUME TypeOK, HandlersOK, RowsAreFresh, ~config.suspends, Staffed, StaysStaffed,
         NEW r \in Requests, StepOf(r)
  PROVE  StaysStaffed'
PROOF
  <1>1. /\ TypeOK' /\ HandlersOK' /\ MembersMove(r) /\ OrgsMove(r)
        /\ \A q \in Requests \ {r} :
             pc[q] \in {"idle", "done"} /\ pc'[q] \in {"idle", "done"}
        /\ r \in Ids /\ r \in OrgIds
    BY TypeStep, HandlersStep, MembersStep, OrgsStep, AloneStep DEF Ids, OrgIds
  <1>2. /\ HandlerOK(r)
        /\ pc[r] # "idle" => Org(r)' = Org(r) /\ Op(r)' = Op(r) /\ call'[r] = call[r]
    BY Others DEF HandlersOK, Org, Op
  <1>3. pc'[r] \notin Operations => Handle(r) /\ pc[r] # "idle" /\ Follows(pc[r], pc'[r])
    BY Begins, Followed
  <1>4. ASSUME NEW q \in Requests, pc'[q] \notin {"idle", "done"}
        PROVE  q = r
    BY <1>1, <1>4
  <1>5. ASSUME pc'[r] = "create-owner"
        PROVE  db'.orgs[r] # None
    <2>1. pc[r] = "create-org"
      BY <1>3, <1>5, SMT DEF Follows, Operations, ReadOperations
    <2> QED BY <1>1, <1>5, <2>1 DEF OrgsMove
  <1>6. ASSUME pc'[r] = "activate", Op(r)' = "create"
        PROVE  Owners(r)' # {} /\ db'.orgs[r] # None
    <2>1. pc[r] \in {"create-owner", "set-active"}
      BY <1>3, <1>6, SMT DEF Follows, Operations, ReadOperations
    <2>2. pc[r] = "create-owner"
      BY <1>2, <1>6, <2>1, SMT DEF HandlerOK, Operations
    <2>3. db'.orgs[r] # None
      BY <1>1, <2>2, SMT DEF OrgsMove, StaysStaffed
    <2>4. db'.members[r] = [org |-> r, user |-> Me(r), role |-> "owner"]
      BY <1>1, <1>6, <2>2 DEF MembersMove
    <2>5. db'.members[r] # None
      <3>1. Me(r) \in Users
        BY <1>2, <2>2, Bodies, SMT DEF HandlerOK
      <3>2. [org |-> r, user |-> Me(r), role |-> "owner"] \in MemberRow
        BY <1>1, <3>1, SMT DEF MemberRow, Roles, BuiltIn, DefaultRoles
      <3> QED BY <2>4, <3>2, NoneAssumption
    <2>6. r \in Owners(r)'
      BY <1>1, <2>4, <2>5, RowsThen DEF Owners, In
    <2> QED BY <2>3, <2>6
  <1>7. ASSUME pc'[r] = "delete-member" \/ (pc'[r] = "write-role" /\ call'[r].name # "owner")
        PROVE  \A o \in Rows("orgs")' : Owners(o)' \ {held'[r]} # {}
    <2>1. pc'[r] \notin Operations
      BY <1>7, SMT DEF Operations, ReadOperations
    <2>2. call'[r] = call[r]
      BY <1>2, <1>3, <2>1
    <2>3. /\ db' = db /\ held'[r] \in Rows("members") /\ ~LastOwner(held'[r])
          /\ pc[r] \in {"remove-member", "leave", "update-member-role"}
      BY <1>7, <2>2, OwnerStep
    <2>4. Rows("orgs")' = Rows("orgs") /\ \A o : Owners(o)' = Owners(o)
      BY <2>3 DEF Rows, Owners, In
    <2>5. ASSUME NEW o \in Rows("orgs")
          PROVE  Owners(o) # {}
      <3>1. \A q \in Requests : ~((pc[q] = "create-owner" /\ o = q) \/ Deleting(q, o))
        BY <1>1, <2>3, SMT DEF Deleting, AfterTable
      <3> QED BY <3>1 DEF Staffed
    <2> QED BY <2>3, <2>4, <2>5, AnotherOwner
  <1> QED
    <2>1. ASSUME NEW q \in Requests
          PROVE  /\ pc'[q] = "create-owner" => db'.orgs[q] # None
                 /\ pc'[q] = "activate" /\ Op(q)' = "create" =>
                      Owners(q)' # {} /\ db'.orgs[q] # None
                 /\ \/ pc'[q] = "delete-member"
                    \/ (pc'[q] = "write-role" /\ call'[q].name # "owner")
                    =>
                      \A o \in Rows("orgs")' : Owners(o)' \ {held'[q]} # {}
      <3>1. CASE pc'[q] \in {"idle", "done"}
        BY <3>1
      <3>2. CASE q = r
        BY <1>5, <1>6, <1>7, <3>2, Zenon
      <3> QED BY <1>4, <3>1, <3>2
    <2> QED BY <2>1, Zenon DEF StaysStaffed

\* A member has one row.
LEMMA OneRowStep ==
  ASSUME TypeOK, HandlersOK, RowsAreFresh, NamedOrgsAreFounded, OneRowEach, UsedUp,
         NEW r \in Requests, StepOf(r)
  PROVE  OneRowEach'
PROOF
  <1>1. TypeOK' /\ MembersMove(r)
    BY TypeStep, MembersStep
  <1>2. ASSUME NEW i \in Ids, NEW j \in Ids, db'.members[i] # None, db'.members[j] # None,
               db'.members[i].org = db'.members[j].org, db'.members[i].user = db'.members[j].user,
               j # r
        PROVE  i = j
    <2>1. /\ db.members[j] # None /\ db'.members[j].org = db.members[j].org
          /\ db'.members[j].user = db.members[j].user
      BY <1>1, <1>2 DEF MembersMove
    <2>2. CASE /\ db.members[i] # None /\ db'.members[i].org = db.members[i].org
               /\ db'.members[i].user = db.members[i].user
      BY <1>2, <2>1, <2>2, RowsOf DEF OneRowEach
    <2>3. ~(pc[r] = "create-owner" /\ db'.members[i].org = r)
      <3>1. Founded(db.members[j].org)
        BY <1>2, <2>1, RowsOf DEF NamedOrgsAreFounded
      <3>2. pc[r] = "create-owner" => ~Founded(r)
        BY ConstantsAssumption, SMT DEF Founded
      <3> QED BY <1>2, <2>1, <3>1, <3>2
    <2>4. ~(pc[r] = "join" /\ db'.members[i].org = held[r].org /\ db'.members[i].user = Me(r))
      <3>1. pc[r] = "join" => MembersOf(held[r].org, Me(r)) = {}
        BY DEF UsedUp
      <3> QED BY <1>2, <2>1, <3>1, RowsOf DEF MembersOf, In
    <2>5. \/ /\ db.members[i] # None /\ db'.members[i].org = db.members[i].org
             /\ db'.members[i].user = db.members[i].user
          \/ pc[r] = "create-owner" /\ db'.members[i].org = r
          \/ pc[r] = "join" /\ db'.members[i].org = held[r].org /\ db'.members[i].user = Me(r)
      BY <1>1, <1>2 DEF MembersMove
    <2> QED BY <2>2, <2>3, <2>4, <2>5
  <1>3. ASSUME NEW i \in Rows("members")', NEW j \in Rows("members")',
               db'.members[i].org = db'.members[j].org, db'.members[i].user = db'.members[j].user
        PROVE  i = j
    <2>1. /\ i \in Ids /\ j \in Ids /\ db'.members[i] # None /\ db'.members[j] # None
      BY <1>1, RowsThen
    <2> QED BY <1>2, <1>3, <2>1
  <1> QED BY <1>3, Zenon DEF OneRowEach

\* An invitation is used once.
LEMMA UsedStep ==
  ASSUME TypeOK, HandlersOK, RowsAreFresh, UsedUp, ~config.suspends,
         NEW r \in Requests, StepOf(r)
  PROVE  UsedUp'
PROOF
  <1>1. /\ TypeOK' /\ HandlersOK' /\ InvitationsMove(r)
        /\ \A q \in Requests \ {r} :
             pc[q] \in {"idle", "done"} /\ pc'[q] \in {"idle", "done"}
    BY TypeStep, HandlersStep, InvitationsStep, AloneStep
  <1>2. pc[r] # "idle" => Item(r)' = Item(r) /\ Me(r)' = Me(r)
    BY Others DEF Item, Me
  <1>3. ASSUME NEW i \in Ids
        PROVE  joined'[i] = {} \/ \E q \in Requests : joined'[i] = {q}
    <2>1. pc[r] = "join" => joined[Item(r)] = {}
      BY DEF UsedUp
    <2> QED BY <2>1, JoinedStep DEF UsedUp
  <1>4. ASSUME NEW i \in Rows("invitations")', db'.invitations[i].status = "pending",
               joined'[i] # {}
        PROVE  \E q \in Requests : pc'[q] = "accepted" /\ Item(q)' = i
    <2>1. i \in Ids /\ db'.invitations[i] # None
      BY <1>1, RowsThen
    <2>2. CASE joined'[i] = joined[i]
      <3>1. ~(i = r)
        BY <1>4, <2>2, Others DEF RowsAreFresh
      <3>2. db.invitations[i] # None /\ db.invitations[i].status = "pending"
        BY <1>1, <1>4, <2>1, <3>1 DEF InvitationsMove
      <3>3. PICK q \in Requests : pc[q] = "accepted" /\ Item(q) = i
        BY <1>4, <2>1, <2>2, <3>2, RowsOf DEF UsedUp, Pending
      <3>4. q = r
        BY <1>1, <3>3
      <3> QED BY <1>1, <1>4, <2>1, <3>3, <3>4, SMT DEF InvitationsMove
    <2>3. CASE pc'[r] = "accepted" /\ i = Item(r) /\ pc[r] = "join"
      BY <1>2, <2>3
    <2> QED BY <2>1, <2>2, <2>3, JoinedStep
  <1>5. ASSUME NEW q \in Requests, pc'[q] = "join"
        PROVE  joined'[Item(q)'] = {} /\ MembersOf(held[q].org, Me(q))' = {}
    <2>1. q = r
      BY <1>1, <1>5
    <2>2. /\ pc[r] = "accept-invitation" /\ db' = db /\ joined' = joined
          /\ Item(r) \in Rows("invitations") /\ Pending(Item(r))
          /\ held'[r] = db.invitations[Item(r)] /\ Item(r) \in Ids
          /\ MembersOf(db.invitations[Item(r)].org, Me(r)) = {}
      BY <1>5, <2>1, AcceptStep, RowsOf
    <2>3. \A p \in Requests : pc[p] # "accepted"
      BY <1>1, <2>2
    <2>4. joined[Item(r)] = {}
      BY <2>2, <2>3 DEF UsedUp
    <2>5. MembersOf(held[r].org, Me(r))' = MembersOf(db.invitations[Item(r)].org, Me(r))
      BY <1>2, <2>2 DEF MembersOf, In, Rows
    <2> QED BY <1>2, <2>1, <2>2, <2>4, <2>5
  <1> QED BY <1>3, <1>4, <1>5, Zenon DEF UsedUp, Pending

\* Tables that were emptied of an organization stay so until it is dropped.
LEMMA DeletesStep ==
  ASSUME TypeOK, HandlersOK, ~config.suspends, OrgsThere, DeletesAll,
         NEW r \in Requests, StepOf(r)
  PROVE  DeletesAll'
PROOF
  <1>1. /\ TypeOK' /\ HandlersOK' /\ MembersMove(r) /\ InvitationsMove(r) /\ TeamsMove(r)
        /\ TeamMembersMove(r) /\ RolesMove(r)
        /\ \A q \in Requests \ {r} :
             pc[q] \in {"idle", "done"} /\ pc'[q] \in {"idle", "done"}
    BY TypeStep, HandlersStep, MembersStep, InvitationsStep, TeamsStep, TeamMembersStep,
       RolesStep, AloneStep
  <1>2. /\ HandlerOK(r)
        /\ pc[r] # "idle" => /\ Org(r)' = Org(r) /\ Op(r)' = Op(r) /\ Item(r)' = Item(r)
                             /\ call'[r] = call[r]
    BY Others DEF HandlersOK, Org, Op, Item
  <1>3. pc'[r] \notin Operations => Handle(r) /\ pc[r] # "idle" /\ Follows(pc[r], pc'[r])
    BY Begins, Followed
  <1>4. ASSUME NEW o, o \in OrgIds
        PROVE  /\ In("members", o) = {} <=>
                    \A i \in Ids : db.members[i] # None => db.members[i].org # o
               /\ In("invitations", o) = {} <=>
                    \A i \in Ids : db.invitations[i] # None => db.invitations[i].org # o
               /\ In("teams", o) = {} <=>
                    \A i \in Requests : db.teams[i] # None => db.teams[i].org # o
               /\ In("members", o)' = {} <=>
                    \A i \in Ids : db'.members[i] # None => db'.members[i].org # o
               /\ In("invitations", o)' = {} <=>
                    \A i \in Ids : db'.invitations[i] # None => db'.invitations[i].org # o
               /\ In("teams", o)' = {} <=>
                    \A i \in Requests : db'.teams[i] # None => db'.teams[i].org # o
               /\ In("roles", o)' = {} <=>
                    \A i \in Requests : db'.roles[i] # None => db'.roles[i].org # o
    BY <1>1, RowsOf, RowsThen, Zenon DEF In
  <1>5. ASSUME NEW o \in OrgIds, pc[r] \in DOMAIN AfterTable, Org(r) = o
        PROVE  /\ In("members", o) = {} \/ pc[r] = "members" => In("members", o)' = {}
               /\ In("invitations", o) = {} \/ pc[r] = "invitations" => In("invitations", o)' = {}
               /\ In("teams", o) = {} \/ (pc[r] = "teams" /\ pc'[r] # "done") =>
                   In("teams", o)' = {}
               /\ pc[r] = "roles" => In("roles", o)' = {}
    <2>1. pc[r] \notin {"create-owner", "join", "insert-invitation", "insert-team", "insert-role"}
      BY <1>5, SMT DEF AfterTable
    <2>2. In("members", o) = {} \/ pc[r] = "members" => In("members", o)' = {}
      BY <1>1, <1>4, <1>5, <2>1 DEF MembersMove
    <2>3. In("invitations", o) = {} \/ pc[r] = "invitations" => In("invitations", o)' = {}
      BY <1>1, <1>4, <1>5, <2>1 DEF InvitationsMove
    <2>4. In("teams", o) = {} \/ (pc[r] = "teams" /\ pc'[r] # "done") => In("teams", o)' = {}
      BY <1>1, <1>4, <1>5, <2>1 DEF TeamsMove
    <2>5. pc[r] = "roles" => In("roles", o)' = {}
      BY <1>1, <1>4, <1>5, <2>1 DEF RolesMove
    <2> QED BY <2>2, <2>3, <2>4, <2>5
  <1>6. ASSUME pc'[r] \in {"invitations", "teamMembers", "teams", "roles", "orgs"}
        PROVE  \A t \in Emptied[pc'[r]] : In(t, Org(r))' = {}
    <2>1. \/ pc[r] = "members" /\ pc'[r] = "invitations"
          \/ pc[r] = "invitations" /\ pc'[r] = "teamMembers"
          \/ pc[r] = "teamMembers" /\ pc'[r] = "teams"
          \/ pc[r] = "teams" /\ pc'[r] = "roles"
          \/ pc[r] = "roles" /\ pc'[r] = "orgs"
      BY <1>3, <1>6, SMT DEF Follows, Operations, ReadOperations
    <2>2. pc[r] \in DOMAIN AfterTable /\ Org(r) \in OrgIds /\ Org(r)' = Org(r)
      BY <1>2, <2>1, SMT DEF AfterTable, HandlerOK
    <2>3. \A t \in Emptied[pc[r]] : In(t, Org(r)) = {}
      BY <2>1, SMT DEF DeletesAll, Emptied
    <2>4. PICK o \in OrgIds : o = Org(r)
      BY <2>2
    <2>5. \A t \in Emptied[pc'[r]] : In(t, o)' = {}
      BY <1>5, <2>1, <2>2, <2>3, <2>4, SMT DEF Emptied
    <2>6. \A t : In(t, Org(r))' = In(t, o)'
      BY <2>2, <2>4 DEF In
    <2> QED BY <2>5, <2>6
  <1>7. ASSUME pc'[r] = "teams"
        PROVE  TeamMembersOf(Org(r))' = {}
    <2>1. pc[r] = "teamMembers" /\ Org(r) \in OrgIds /\ Org(r)' = Org(r)
      BY <1>2, <1>3, <1>7, SMT DEF Follows, Operations, ReadOperations, HandlerOK, AfterTable
    <2>2. \A i \in Requests : db'.teamMembers[i] # None =>
            db'.teamMembers[i].team \notin In("teams", Org(r))
      BY <1>1, <2>1 DEF TeamMembersMove
    <2>3. In("teams", Org(r))' \subseteq In("teams", Org(r))
      <3>1. \A i \in Requests : db'.teams[i] # None =>
              db.teams[i] # None /\ db'.teams[i].org = db.teams[i].org
        BY <1>1, <2>1 DEF TeamsMove
      <3> QED BY <1>1, <2>1, <3>1, RowsOf, RowsThen DEF In
    <2> QED BY <1>1, <2>1, <2>2, <2>3, RowsThen DEF TeamMembersOf
  <1>8. ASSUME pc'[r] = "delete-team"
        PROVE  \A i \in Rows("teamMembers")' : db'.teamMembers[i].team # Item(r)'
    <2>1. pc[r] = "empty-team"
      BY <1>3, <1>8, SMT DEF Follows, Operations, ReadOperations
    <2>2. Op(r) = "remove-team" /\ Item(r)' = Item(r)
      BY <1>1, <1>2, <1>8, <2>1, SMT DEF HandlersOK, HandlerOK
    <2> QED BY <1>1, <2>1, <2>2, RowsThen DEF TeamMembersMove
  <1>9. ASSUME pc'[r] \in {"insert-invitation", "insert-team", "insert-role"}
        PROVE  db'.orgs[Org(r)'] # None
    <2>1. db' = db /\ MembersOf(Org(r), Me(r)) # {}
      BY <1>9, MemberStep
    <2>2. Org(r)' = Org(r)
      BY <1>2, <1>3, <1>9, SMT DEF Operations, ReadOperations
    <2>3. db.orgs[Org(r)] # None
      BY <2>1, Zenon DEF MembersOf, In, OrgsThere, OrgTables
    <2> QED BY <2>1, <2>2, <2>3
  <1>10. ASSUME pc'[r] = "join"
         PROVE  db'.orgs[held'[r].org] # None
    <2>1. db' = db /\ Item(r) \in Rows("invitations") /\ held'[r] = db.invitations[Item(r)]
      BY <1>10, AcceptStep, RowsOf
    <2> QED BY <2>1 DEF OrgsThere, OrgTables
  <1>11. ASSUME pc'[r] = "insert-team-member"
         PROVE  db'.teams[Item(r)'] # None
    <2>1. db' = db /\ Item(r) \in In("teams", Org(r))
      BY <1>11, MemberStep
    <2>2. Item(r)' = Item(r)
      BY <1>2, <1>3, <1>11, SMT DEF Operations, ReadOperations
    <2> QED BY <2>1, <2>2, RowsOf DEF In
  <1>12. ASSUME pc'[r] = "activate", Op(r)' = "set-active"
         PROVE  Org(r)' = None \/ db'.orgs[Org(r)'] # None
    <2>1. /\ pc[r] # "idle" /\ Handle(r) /\ Org(r)' = Org(r) /\ Op(r) = "set-active"
          /\ pc[r] \in {"create-owner", "set-active"}
      BY <1>2, <1>3, <1>12, SMT DEF Follows, Operations, ReadOperations
    <2>2. pc[r] = "set-active"
      BY <1>2, <2>1, SMT DEF HandlerOK
    <2>3. SetActive(r)
      BY <2>1, <2>2, Where
    <2>4. db' = db /\ (Org(r) = None \/ MembersOf(Org(r), Me(r)) # {})
      BY <1>12, <2>3, SMT DEF SetActive, Goto, TypeOK
    <2>5. MembersOf(Org(r), Me(r)) # {} => db.orgs[Org(r)] # None
      BY Zenon DEF MembersOf, In, OrgsThere, OrgTables
    <2> QED BY <2>1, <2>4, <2>5
  <1> DEFINE Goal(q) ==
         /\ pc[q] \in DOMAIN Emptied => \A t \in Emptied[pc[q]] : In(t, Org(q)) = {}
         /\ pc[q] = "teams" => TeamMembersOf(Org(q)) = {}
         /\ pc[q] = "delete-team" =>
              \A i \in Rows("teamMembers") : db.teamMembers[i].team # Item(q)
         /\ pc[q] \in {"insert-invitation", "insert-team", "insert-role"} => db.orgs[Org(q)] # None
         /\ pc[q] = "join" => db.orgs[held[q].org] # None
         /\ pc[q] = "insert-team-member" => db.teams[Item(q)] # None
         /\ pc[q] = "activate" /\ Op(q) = "set-active" => Org(q) = None \/ db.orgs[Org(q)] # None
  <1>13. pc'[r] \in DOMAIN Emptied => \A t \in Emptied[pc'[r]] : In(t, Org(r))' = {}
    <2>1. Emptied["members"] = {}
      BY DEF Emptied
    <2>2. DOMAIN Emptied = {"members", "invitations", "teamMembers", "teams", "roles", "orgs"}
      BY DEF Emptied
    <2> QED BY <1>6, <2>1, <2>2
  <1>14. Goal(r)'
    BY <1>7, <1>8, <1>9, <1>10, <1>11, <1>12, <1>13, Zenon
  <1>15. ASSUME NEW q \in Requests \ {r}
         PROVE  Goal(q)'
    BY <1>1, SMT DEF Emptied
  <1> HIDE DEF Goal
  <1>16. \A q \in Requests : Goal(q)'
    BY <1>14, <1>15
  <1> QED BY <1>16, Zenon DEF DeletesAll, Goal

\* A session points at an organization that is there, or is being dropped.
LEMMA ActiveThereStep ==
  ASSUME TypeOK, HandlersOK, ~config.suspends, StaysStaffed, DeletesAll, ActiveThere,
         NEW r \in Requests, StepOf(r)
  PROVE  ActiveThere'
PROOF
  <1>1. /\ TypeOK' /\ OrgsMove(r) /\ ActiveMove(r)
        /\ \A q \in Requests \ {r} : pc[q] \in {"idle", "done"}
    BY TypeStep, OrgsStep, ActiveStep, AloneStep
  <1>2. /\ HandlerOK(r) /\ r \in OrgIds
        /\ pc[r] # "idle" => Org(r)' = Org(r) /\ Op(r)' = Op(r)
    BY Others DEF HandlersOK, Org, Op, OrgIds
  <1>3. ASSUME NEW o \in OrgIds, db.orgs[o] # None
        PROVE  \/ db'.orgs[o] # None
               \/ pc'[r] = "deactivate" /\ Op(r)' = "delete" /\ Org(r)' = o
    <2>1. CASE db'.orgs[o] = None
      <3>1. pc[r] = "orgs" /\ o = Org(r) /\ pc'[r] = "deactivate"
        BY <1>1, <1>3, <2>1 DEF OrgsMove
      <3>2. Op(r) = "delete"
        BY <1>2, <3>1, SMT DEF HandlerOK
      <3> QED BY <1>2, <3>1, <3>2
    <2> QED BY <2>1
  <1>4. ASSUME NEW u \in Users, NEW o, o = db'.active[u], o # None
        PROVE  \/ db'.orgs[o] # None
               \/ \E q \in Requests : pc'[q] = "deactivate" /\ Op(q)' = "delete" /\ Org(q)' = o
    <2>1. o \in OrgIds
      BY <1>1, <1>4 DEF ActiveMove
    <2>2. CASE o = db.active[u]
      <3>1. CASE db.orgs[o] # None
        BY <1>3, <2>1, <3>1
      <3>2. CASE \E q \in Requests : pc[q] = "deactivate" /\ Op(q) = "delete" /\ Org(q) = o
        <4>1. pc[r] = "deactivate" /\ Op(r) = "delete" /\ Org(r) = o
          BY <1>1, <3>2
        <4> QED BY <1>1, <1>4, <4>1 DEF ActiveMove
      <3> QED BY <1>4, <2>2, <3>1, <3>2 DEF ActiveThere
    <2>3. CASE pc[r] = "activate" /\ o = (IF Op(r) = "create" THEN r ELSE Org(r))
      <3>1. db.orgs[o] # None
        BY <1>2, <1>4, <2>3, SMT DEF HandlerOK, StaysStaffed, DeletesAll
      <3> QED BY <1>3, <2>1, <3>1
    <2> QED BY <1>1, <1>4, <2>2, <2>3 DEF ActiveMove
  <1> QED BY <1>4, Zenon DEF ActiveThere

\* Rows name organizations and teams that are there.
LEMMA ReferencesStep ==
  ASSUME TypeOK, HandlersOK, RowsAreFresh, OrgsThere, TeamsThere, NEW r \in Requests, StepOf(r),
         config.enforcesReferences \/ (StaysStaffed /\ DeletesAll)
  PROVE  OrgsThere' /\ TeamsThere'
PROOF
  <1>1. /\ TypeOK' /\ MembersMove(r) /\ InvitationsMove(r) /\ TeamsMove(r)
        /\ TeamMembersMove(r) /\ RolesMove(r) /\ OrgsMove(r) /\ HandlerOK(r)
    BY TypeStep, MembersStep, InvitationsStep, TeamsStep, TeamMembersStep,
       RolesStep, OrgsStep DEF HandlersOK
  <1>2. ASSUME NEW o \in OrgIds, db.orgs[o] # None, db'.orgs[o] = None
        PROVE  pc[r] = "orgs" /\ \A t \in OrgTables : In(t, o) = {}
    <2>1. /\ pc[r] = "orgs" /\ o = Org(r)
          /\ config.enforcesReferences => \A t \in OrgTables : In(t, Org(r)) = {}
      BY <1>1, <1>2 DEF OrgsMove
    <2>2. DeletesAll => \A t \in OrgTables : In(t, Org(r)) = {}
      BY <2>1, SMT DEF DeletesAll, Emptied, OrgTables
    <2> QED BY <2>1, <2>2
  <1>3. ASSUME NEW i \in Ids, db'.members[i] # None
        PROVE  db'.orgs[db'.members[i].org] # None
    <2>1. db'.members[i].org \in OrgIds
      BY <1>1, <1>3 DEF MembersMove, MemberRow
    <2>2. CASE db.members[i] # None /\ db'.members[i].org = db.members[i].org
      <3>1. db.orgs[db.members[i].org] # None /\ i \in In("members", db.members[i].org)
        BY <2>2, RowsOf DEF OrgsThere, OrgTables, In
      <3> QED BY <1>2, <2>1, <2>2, <3>1 DEF OrgTables
    <2>3. CASE pc[r] = "create-owner" /\ db'.members[i].org = r
                /\ (config.enforcesReferences => db.orgs[r] # None)
      <3>1. db.orgs[r] # None
        BY <2>3 DEF StaysStaffed
      <3> QED BY <1>2, <2>1, <2>3, <3>1
    <2>4. CASE pc[r] = "join" /\ db'.members[i].org = held[r].org
                /\ (config.enforcesReferences => db.orgs[held[r].org] # None)
      <3>1. db.orgs[held[r].org] # None
        BY <2>4 DEF DeletesAll
      <3> QED BY <1>2, <2>1, <2>4, <3>1
    <2> QED BY <1>1, <1>3, <2>2, <2>3, <2>4 DEF MembersMove
  <1>4. ASSUME NEW i \in Ids, db'.invitations[i] # None
        PROVE  db'.orgs[db'.invitations[i].org] # None
    <2>1. db'.invitations[i].org \in OrgIds
      BY <1>1, <1>4 DEF InvitationsMove, InvitationRow
    <2>2. CASE db.invitations[i] # None /\ db'.invitations[i].org = db.invitations[i].org
      <3>1. /\ db.orgs[db.invitations[i].org] # None
            /\ i \in In("invitations", db.invitations[i].org)
        BY <2>2, RowsOf DEF OrgsThere, OrgTables, In
      <3> QED BY <1>2, <2>1, <2>2, <3>1 DEF OrgTables
    <2>3. CASE pc[r] = "insert-invitation" /\ db'.invitations[i].org = Org(r)
                /\ (config.enforcesReferences => db.orgs[Org(r)] # None)
      <3>1. db.orgs[Org(r)] # None
        BY <2>3 DEF DeletesAll
      <3> QED BY <1>2, <2>1, <2>3, <3>1
    <2> QED BY <1>1, <1>4, <2>2, <2>3 DEF InvitationsMove
  <1>5. ASSUME NEW i \in Requests, db'.teams[i] # None
        PROVE  db'.orgs[db'.teams[i].org] # None
    <2>1. db'.teams[i].org \in OrgIds
      BY <1>1, <1>5 DEF TeamsMove, TeamRow
    <2>2. CASE db.teams[i] # None /\ db'.teams[i].org = db.teams[i].org
      <3>1. db.orgs[db.teams[i].org] # None /\ i \in In("teams", db.teams[i].org)
        BY <2>2, RowsOf DEF OrgsThere, OrgTables, In
      <3> QED BY <1>2, <2>1, <2>2, <3>1 DEF OrgTables
    <2>3. CASE pc[r] = "insert-team" /\ db'.teams[i].org = Org(r)
                /\ (config.enforcesReferences => db.orgs[Org(r)] # None)
      <3>1. db.orgs[Org(r)] # None
        BY <2>3 DEF DeletesAll
      <3> QED BY <1>2, <2>1, <2>3, <3>1
    <2> QED BY <1>1, <1>5, <2>2, <2>3 DEF TeamsMove
  <1>6. ASSUME NEW i \in Requests, db'.roles[i] # None
        PROVE  db'.orgs[db'.roles[i].org] # None
    <2>1. db'.roles[i].org \in OrgIds
      BY <1>1, <1>6 DEF RolesMove, RoleRow
    <2>2. CASE db.roles[i] # None /\ db'.roles[i].org = db.roles[i].org
      <3>1. db.orgs[db.roles[i].org] # None /\ i \in In("roles", db.roles[i].org)
        BY <2>2, RowsOf DEF OrgsThere, OrgTables, In
      <3> QED BY <1>2, <2>1, <2>2, <3>1 DEF OrgTables
    <2>3. CASE pc[r] = "insert-role" /\ db'.roles[i].org = Org(r)
                /\ (config.enforcesReferences => db.orgs[Org(r)] # None)
      <3>1. db.orgs[Org(r)] # None
        BY <2>3 DEF DeletesAll
      <3> QED BY <1>2, <2>1, <2>3, <3>1
    <2> QED BY <1>1, <1>6, <2>2, <2>3 DEF RolesMove
  <1>7. OrgsThere'
    BY <1>1, <1>3, <1>4, <1>5, <1>6, RowsThen, SMT DEF OrgsThere, OrgTables
  <1>8. ASSUME NEW t \in Requests, db.teams[t] # None, db'.teams[t] = None
        PROVE  /\ pc[r] \in {"teams", "delete-team"}
               /\ \A j \in Rows("teamMembers") : db.teamMembers[j].team # t
    <2>1. CASE /\ pc[r] = "teams" /\ db.teams[t].org = Org(r)
               /\ config.enforcesReferences => TeamMembersOf(Org(r)) = {}
      <3>1. TeamMembersOf(Org(r)) = {}
        BY <2>1 DEF DeletesAll
      <3>2. t \in In("teams", Org(r))
        BY <1>8, <2>1, RowsOf DEF In
      <3> QED BY <2>1, <3>1, <3>2 DEF TeamMembersOf
    <2>2. CASE /\ pc[r] = "delete-team" /\ t = Item(r)
               /\ config.enforcesReferences =>
                    \A j \in Rows("teamMembers") : db.teamMembers[j].team # t
      BY <2>2 DEF DeletesAll
    <2> QED BY <1>1, <1>8, <2>1, <2>2 DEF TeamsMove
  <1>9. ASSUME NEW i \in Requests, db'.teamMembers[i] # None
        PROVE  db'.teams[db'.teamMembers[i].team] # None
    <2>1. db'.teamMembers[i].team \in Requests
      BY <1>1, <1>9 DEF TeamMembersMove, TeamMemberRow
    <2>2. CASE db.teamMembers[i] # None /\ db'.teamMembers[i] = db.teamMembers[i]
      <3>1. i \in Rows("teamMembers") /\ db.teams[db.teamMembers[i].team] # None
        BY <2>2, RowsOf DEF TeamsThere
      <3> QED BY <1>8, <2>1, <2>2, <3>1
    <2>3. CASE pc[r] = "insert-team-member" /\ db'.teamMembers[i].team = Item(r)
                /\ (config.enforcesReferences => db.teams[Item(r)] # None)
      <3>1. db.teams[Item(r)] # None
        BY <2>3 DEF DeletesAll
      <3> QED BY <1>8, <2>1, <2>3, <3>1
    <2>4. \/ db.teamMembers[i] # None /\ db'.teamMembers[i] = db.teamMembers[i]
          \/ pc[r] = "insert-team-member" /\ db'.teamMembers[i].team = Item(r)
                /\ (config.enforcesReferences => db.teams[Item(r)] # None)
      BY <1>1, <1>9 DEF TeamMembersMove
    <2> QED BY <2>2, <2>3, <2>4
  <1>10. TeamsThere'
    BY <1>1, <1>9, RowsThen, SMT DEF TeamsThere
  <1> QED BY <1>7, <1>10

-----------------------------------------------------------------------------
(* The invariant is inductive                                               *)

\* The initial states satisfy the invariant.
LEMMA InitIInv == Init => IInv
PROOF
  <1> SUFFICES ASSUME Init
               PROVE  IInv
    OBVIOUS
  <1>1. /\ config \in Configs /\ Configs \subseteq Config /\ now = 0 /\ db = HomeDb
        /\ pc = [r \in Requests |-> "idle"] /\ call = [r \in Requests |-> None]
        /\ held = [r \in Requests |-> None] /\ joined = [i \in Ids |-> {}]
        /\ shown = [r \in Requests |-> None]
    BY ConstantsAssumption DEF Init, Empty
  <1>2. /\ db.orgs = [o \in OrgIds |-> IF o = HomeOrg THEN HomeSlug ELSE None]
        /\ db.members = [i \in Ids |->
             IF i \in Users /\ HomeRoles[i] # None
             THEN [org |-> HomeOrg, user |-> i, role |-> HomeRoles[i]] ELSE None]
        /\ db.invitations = [i \in Ids |->
             IF i \in Invited
             THEN [org |-> HomeOrg, user |-> i, role |-> "member",
                   expiresAt |-> InvitationTTL, status |-> "pending"] ELSE None]
        /\ db.teams = [r \in Requests |-> None] /\ db.teamMembers = [r \in Requests |-> None]
        /\ db.roles = [r \in Requests |-> None]
        /\ db.active = [u \in Users |-> IF HomeRoles[u] = None THEN None ELSE HomeOrg]
        /\ db.activeTeam = [u \in Users |-> None]
    BY <1>1 DEF HomeDb, Empty
  <1>3. /\ HomeOrg \in OrgIds /\ Users \subseteq Ids /\ Requests \subseteq Ids
        /\ HomeSlug \in Names /\ HomeRoles \in [Users -> BuiltIn \cup {None}]
        /\ Invited \subseteq Users /\ InvitationTTL \in Nat /\ MaxTime \in Nat
        /\ Requests \cap Users = {}
        /\ BuiltIn = {"owner", "admin", "member"} /\ BuiltIn \subseteq Roles
    BY ConstantsAssumption DEF OrgIds, Ids, BuiltIn, DefaultRoles, Roles
  <1>4. ASSUME NEW u \in Users, HomeRoles[u] # None
        PROVE  [org |-> HomeOrg, user |-> u, role |-> HomeRoles[u]] \in MemberRow
    BY <1>3, <1>4 DEF MemberRow
  <1>5. ASSUME NEW i \in Invited
        PROVE  [org |-> HomeOrg, user |-> i, role |-> "member",
                expiresAt |-> InvitationTTL, status |-> "pending"] \in InvitationRow
    BY <1>3, SMT DEF InvitationRow
  <1>6. db \in Tables
    <2>1. /\ db.orgs \in [OrgIds -> Names \cup {None}]
          /\ db.active \in [Users -> OrgIds \cup {None}]
      BY <1>2, <1>3
    <2>2. db.members \in [Ids -> MemberRow \cup {None}]
      BY <1>2, <1>4
    <2>3. db.invitations \in [Ids -> InvitationRow \cup {None}]
      BY <1>2, <1>5
    <2>4. /\ db.teams \in [Requests -> TeamRow \cup {None}]
          /\ db.teamMembers \in [Requests -> TeamMemberRow \cup {None}]
          /\ db.roles \in [Requests -> RoleRow \cup {None}]
          /\ db.activeTeam \in [Users -> Requests \cup {None}]
      BY <1>2
    <2>5. db = [orgs |-> db.orgs, members |-> db.members, invitations |-> db.invitations,
                teams |-> db.teams, teamMembers |-> db.teamMembers, roles |-> db.roles,
                active |-> db.active, activeTeam |-> db.activeTeam]
      BY <1>1 DEF HomeDb
    <2> HIDE <1>1, <1>2
    <2> QED BY <2>1, <2>2, <2>3, <2>4, <2>5 DEF Tables
  <1>7. TypeOK
    <2>1. pc \in [Requests -> PCs]
      BY <1>1, SMT DEF PCs
    <2> QED BY <1>1, <1>3, <1>6, <2>1 DEF TypeOK
  <1>8. \A r \in Requests : pc[r] = "idle" /\ call[r] = None /\ shown[r] = None
    BY <1>1
  <1>9. HandlersOK
    <2>1. ASSUME NEW r \in Requests
          PROVE  HandlerOK(r)
      BY <1>8, SMT DEF HandlerOK, Operations, ReadOperations, AfterTable
    <2> QED BY <2>1 DEF HandlersOK
  <1>10. \A r \in Requests :
           /\ db.orgs[r] = None /\ db.members[r] = None /\ db.invitations[r] = None
           /\ db.teams[r] = None /\ db.teamMembers[r] = None /\ db.roles[r] = None
           /\ joined[r] = {}
    BY <1>1, <1>2, <1>3, ConstantsAssumption DEF OrgIds
  <1>11. RowsAreFresh
    BY <1>8, <1>10, SMT DEF RowsAreFresh
  <1>12. /\ \A i \in Rows("members") : /\ i \in Users /\ HomeRoles[i] # None
                                       /\ db.members[i].org = HomeOrg /\ db.members[i].user = i
         /\ \A i \in Rows("invitations") : db.invitations[i].org = HomeOrg
         /\ Rows("teams") = {} /\ Rows("teamMembers") = {} /\ Rows("roles") = {}
         /\ \A i \in Ids : joined[i] = {}
    <2>1. ASSUME NEW i \in Rows("members")
          PROVE  /\ i \in Users /\ HomeRoles[i] # None
                 /\ db.members[i].org = HomeOrg /\ db.members[i].user = i
      <3>1. i \in Ids /\ db.members[i] # None
        BY <1>7, RowsOf
      <3> QED BY <1>2, <3>1
    <2>2. ASSUME NEW i \in Rows("invitations")
          PROVE  db.invitations[i].org = HomeOrg
      <3>1. i \in Ids /\ db.invitations[i] # None
        BY <1>7, RowsOf
      <3> QED BY <1>2, <3>1
    <2>3. Rows("teams") = {} /\ Rows("teamMembers") = {} /\ Rows("roles") = {}
      BY <1>2, <1>7, RowsOf
    <2> QED BY <1>1, <2>1, <2>2, <2>3
  <1>13. NamedOrgsAreFounded
    BY <1>8, <1>12, SMT DEF NamedOrgsAreFounded, Founded
  <1>14. MembersEarned
    <2>1. \A i \in Rows("members") : OnceMember(db.members[i].org, db.members[i].user)
      BY <1>12 DEF OnceMember
    <2> QED BY <1>8, <1>12, <2>1, SMT DEF MembersEarned
  <1>15. ShownToMembers
    BY <1>8 DEF ShownToMembers
  <1>16. db.orgs[HomeOrg] # None
    BY <1>2, <1>3, NoneAssumption
  <1>17. InTurn
    <2>1. Alone
      BY <1>8 DEF Alone, InHandler
    <2>2. Staffed
      <3>1. PICK u \in Users : HomeRoles[u] = "owner"
        BY ConstantsAssumption
      <3>2. HomeRoles[u] # None
        BY <1>3, <3>1, NoneAssumption
      <3>3. u \in Owners(HomeOrg)
        <4>1. db.members[u] = [org |-> HomeOrg, user |-> u, role |-> "owner"]
          BY <1>2, <1>3, <3>1, <3>2
        <4>2. db.members[u] # None
          BY <1>2, <1>3, <1>4, <3>1, <3>2, <4>1, NoneAssumption
        <4> QED BY <1>3, <1>7, <4>1, <4>2, RowsOf DEF Owners, In
      <3>4. \A o \in Rows("orgs") : o = HomeOrg
        <4>1. Rows("orgs") = {o \in OrgIds : db.orgs[o] # None}
          BY <1>7, RowsOf, Zenon
        <4> QED BY <1>2, <4>1, ZenonT(30)
      <3> QED BY <3>3, <3>4 DEF Staffed
    <2>3. StaysStaffed
      BY <1>8, SMT DEF StaysStaffed
    <2>4. OneRowEach
      BY <1>12 DEF OneRowEach
    <2>5. UsedUp
      <3>1. Rows("invitations") \subseteq Ids
        BY <1>7, RowsOf
      <3> QED BY <1>8, <1>12, <3>1, SMT DEF UsedUp
    <2>6. DeletesAll
      BY <1>8, SMT DEF DeletesAll, Emptied
    <2>7. ActiveThere
      BY <1>2, <1>16 DEF ActiveThere
    <2> QED BY <2>1, <2>2, <2>3, <2>4, <2>5, <2>6, <2>7 DEF InTurn
  <1>18. ReferencesOK
    BY <1>12, <1>16, SMT DEF ReferencesOK, OrgsThere, TeamsThere, OrgTables
  <1> QED BY <1>7, <1>9, <1>11, <1>13, <1>14, <1>15, <1>17, <1>18 DEF IInv

\* A step of a request keeps the invariant.
LEMMA RequestIInv ==
  ASSUME IInv, NEW r \in Requests, StepOf(r)
  PROVE  IInv'
PROOF
  <1>1. /\ TypeOK /\ HandlersOK /\ RowsAreFresh /\ NamedOrgsAreFounded /\ MembersEarned
        /\ ShownToMembers /\ InTurn /\ ReferencesOK
    BY DEF IInv
  <1>2. TypeOK' /\ HandlersOK' /\ RowsAreFresh' /\ NamedOrgsAreFounded' /\ config' = config
    BY <1>1, TypeStep, HandlersStep, FreshStep, FoundedStep, Moves
  <1>3. MembersEarned' /\ ShownToMembers'
    BY <1>1, EarnedStep, ShowsStep
  <1>4. ~config.suspends =>
          Alone /\ Staffed /\ StaysStaffed /\ OneRowEach /\ UsedUp /\ DeletesAll /\ ActiveThere
    BY <1>1 DEF InTurn
  <1>5. ~config.suspends \/ config.enforcesReferences => OrgsThere /\ TeamsThere
    BY <1>1 DEF ReferencesOK
  <1>6. ~config.suspends => Alone' /\ Staffed' /\ StaysStaffed'
    BY <1>1, <1>4, AloneStep, StaffedStep, StaysStaffedStep
  <1>7. ~config.suspends => OneRowEach' /\ UsedUp'
    BY <1>1, <1>4, OneRowStep, UsedStep
  <1>8. ~config.suspends => DeletesAll' /\ ActiveThere'
    BY <1>1, <1>4, <1>5, DeletesStep, ActiveThereStep
  <1>9. ~config.suspends \/ config.enforcesReferences => OrgsThere' /\ TeamsThere'
    BY <1>1, <1>4, <1>5, ReferencesStep
  <1>10. InTurn' /\ ReferencesOK'
    BY <1>2, <1>6, <1>7, <1>8, <1>9 DEF InTurn, ReferencesOK
  <1> QED BY <1>2, <1>3, <1>10 DEF IInv

\* The clock and idling keep the invariant.
LEMMA IdleIInv ==
  ASSUME IInv, now' \in 0 .. MaxTime, UNCHANGED <<config, db, pc, call, held, joined, shown>>
  PROVE  IInv'
PROOF
  <1>1. TypeOK'
    BY DEF IInv, TypeOK
  <1>2. /\ config' = config /\ db' = db /\ pc' = pc /\ call' = call /\ held' = held
        /\ joined' = joined /\ shown' = shown
    OBVIOUS
  <1> USE <1>2 DEF IInv, Rows, In, Op, Me, Org, Item
  <1>3. HandlersOK' /\ RowsAreFresh'
    <2>1. HandlersOK'
      BY SMT DEF HandlersOK, HandlerOK, Asked
    <2>2. RowsAreFresh'
      BY SMT DEF RowsAreFresh, Inserted
    <2> QED BY <2>1, <2>2
  <1>4. NamedOrgsAreFounded' /\ MembersEarned' /\ ShownToMembers'
    <2>1. NamedOrgsAreFounded'
      BY SMT DEF NamedOrgsAreFounded, Founded
    <2>2. MembersEarned'
      BY SMT DEF MembersEarned, OnceMember
    <2>3. ShownToMembers'
      BY SMT DEF ShownToMembers, OnceMember
    <2> QED BY <2>1, <2>2, <2>3
  <1>5. InTurn'
    <2>1. /\ Alone' <=> Alone
          /\ Staffed' <=> Staffed
          /\ StaysStaffed' <=> StaysStaffed
      BY SMT DEF Alone, InHandler, Staffed, StaysStaffed, Owners, Deleting
    <2>2. OneRowEach' <=> OneRowEach
      BY SMT DEF OneRowEach
    <2>3. UsedUp' <=> UsedUp
      BY SMT DEF UsedUp, Pending, MembersOf
    <2>4. DeletesAll' <=> DeletesAll
      BY SMT DEF DeletesAll, TeamMembersOf
    <2>5. ActiveThere' <=> ActiveThere
      BY SMT DEF ActiveThere
    <2> QED BY <2>1, <2>2, <2>3, <2>4, <2>5 DEF InTurn
  <1>6. ReferencesOK'
    BY Zenon DEF ReferencesOK, OrgsThere, TeamsThere
  <1> QED BY <1>1, <1>3, <1>4, <1>5, <1>6 DEF IInv

\* Every step keeps the invariant.
LEMMA NextIInv == IInv /\ [Next]_vars => IInv'
PROOF
  <1> SUFFICES ASSUME IInv, [Next]_vars
               PROVE  IInv'
    OBVIOUS
  <1>1. CASE Tick
    <2>1. now' \in 0 .. MaxTime
      BY <1>1, ConstantsAssumption DEF Tick, IInv, TypeOK
    <2> QED BY <1>1, <2>1, IdleIInv DEF Tick
  <1>2. CASE \E r \in Requests : StepOf(r)
    BY <1>2, RequestIInv
  <1>3. CASE UNCHANGED vars
    <2>1. now' \in 0 .. MaxTime
      BY <1>3 DEF vars, IInv, TypeOK
    <2> QED BY <1>3, <2>1, IdleIInv DEF vars
  <1> QED BY <1>1, <1>2, <1>3 DEF Next, StepOf

\* The invariant holds throughout.
LEMMA Invariance == Spec => []IInv
PROOF BY InitIInv, NextIInv, PTL DEF Spec

-----------------------------------------------------------------------------
(* What the plugin promises                                                 *)

\* Tables hold rows of their kind, whatever is called in whatever order.
THEOREM TypeCorrect == Spec => []TypeOK
PROOF
  <1>1. IInv => TypeOK
    BY DEF IInv
  <1> QED BY <1>1, Invariance, PTL

\* Where handlers are not interrupted, no organization loses its last owner,
\* unless it is being deleted.
THEOREM OwnersStay == Spec => []OwnersRemain
PROOF
  <1>1. IInv => OwnersRemain
    <2> SUFFICES ASSUME IInv, ~config.suspends, NEW o \in Rows("orgs"), Owners(o) = {}
                 PROVE  Working(o) # {}
      BY Zenon DEF OwnersRemain
    <2>1. TypeOK /\ HandlersOK /\ Staffed
      BY DEF IInv, InTurn
    <2>2. PICK r \in Requests : (pc[r] = "create-owner" /\ o = r) \/ Deleting(r, o)
      BY <2>1 DEF Staffed
    <2>3. HandlerOK(r)
      BY <2>1 DEF HandlersOK
    <2>4. r \in Working(o)
      BY <2>2, <2>3, SMT DEF Working, Deleting, HandlerOK, InHandler, AfterTable
    <2> QED BY <2>4
  <1> QED BY <1>1, Invariance, PTL

\* Nobody becomes a member, or is shown an organization's rows, but by
\* founding it, by one invitation used once, or by having been there before;
\* the first of these for handlers that are not interrupted.
THEOREM MembershipEarned == Spec => []MembershipIsEarned
PROOF
  <1>1. IInv => MembershipIsEarned
    <2> SUFFICES ASSUME IInv
                 PROVE  InvitationsAdmitOnce
      BY DEF MembershipIsEarned, IInv
    <2>1. TypeOK
      BY DEF IInv
    <2>2. ASSUME NEW S, S = {} \/ \E x : S = {x}
          PROVE  Cardinality(S) <= 1
      <3>1. CASE S = {}
        <4>1. Cardinality({}) = 0
          BY FS_EmptySet
        <4> QED BY <3>1, <4>1
      <3>2. CASE \E x : S = {x}
        <4>1. PICK x : S = {x}
          BY <3>2
        <4>2. Cardinality({x}) = 1
          BY FS_Singleton
        <4> QED BY <4>1, <4>2
      <3> QED BY <2>2, <3>1, <3>2
    <2> SUFFICES ASSUME ~config.suspends
                 PROVE  /\ \A i \in Ids : Cardinality(joined[i]) <= 1
                        /\ \A o \in OrgIds, u \in Users : Cardinality(MembersOf(o, u)) <= 1
      BY DEF InvitationsAdmitOnce
    <2>3. UsedUp /\ OneRowEach
      BY DEF IInv, InTurn
    <2>4. \A i \in Ids : Cardinality(joined[i]) <= 1
      BY <2>2, <2>3 DEF UsedUp
    <2>5. ASSUME NEW o \in OrgIds, NEW u \in Users
          PROVE  Cardinality(MembersOf(o, u)) <= 1
      <3>1. \A i, j \in MembersOf(o, u) : i = j
        BY <2>3 DEF OneRowEach, MembersOf, In
      <3>2. MembersOf(o, u) = {} \/ \E x : MembersOf(o, u) = {x}
        BY <3>1
      <3> QED BY <2>2, <3>2
    <2> QED BY <2>4, <2>5
  <1> QED BY <1>1, Invariance, PTL

\* A deleted organization leaves nothing behind: no row that names it, where
\* handlers are not interrupted or the database checks foreign keys, and no
\* session that points at it, where they are not interrupted.
THEOREM NothingLeft == Spec => []NothingLeftBehind
PROOF
  <1>1. IInv => NothingLeftBehind
    <2> SUFFICES ASSUME IInv
                 PROVE  NothingLeftBehind
      OBVIOUS
    <2>1. TypeOK /\ HandlersOK
      BY DEF IInv
    <2>2. ~config.suspends \/ config.enforcesReferences => OrgsThere /\ TeamsThere
      BY DEF IInv, ReferencesOK
    <2>3. ASSUME ~config.suspends, NEW u \in Users, db.active[u] # None,
                 Working(db.active[u]) = {}
          PROVE  db.orgs[db.active[u]] # None
      <3>1. ActiveThere
        BY <2>3 DEF IInv, InTurn
      <3>2. ASSUME NEW r \in Requests, pc[r] = "deactivate", Op(r) = "delete",
                   Org(r) = db.active[u]
            PROVE  r \in Working(db.active[u])
        BY <3>2, SMT DEF Working, InHandler
      <3> QED BY <2>3, <3>1, <3>2 DEF ActiveThere
    <2> QED BY <2>2, <2>3, Zenon DEF NothingLeftBehind, OrgsThere, TeamsThere, OrgTables
  <1> QED BY <1>1, Invariance, PTL
=============================================================================
