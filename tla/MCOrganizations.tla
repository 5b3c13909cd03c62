-------------------------- MODULE MCOrganizations --------------------------
EXTENDS Organizations, TLC
CONSTANTS r1, r2, r3, r4, ann, bob, eve, auditor, acme, other

MCRequests == {r1, r2, r3, r4}
MCUsers == {ann, bob, eve}
MCHomeRoles == (ann :> "owner") @@ (bob :> "owner") @@ (eve :> None)
MCNames == {acme, other}
Symmetric == Permutations(MCRequests)

C(op, user, org, item, who, name) ==
  [op |-> op, user |-> user, org |-> org, item |-> item, who |-> who,
   name |-> name, permissions |-> {}]

\* Owners leaving, removing and demoting each other; a member who rejoins.
Membership ==
  UNION {{C("leave", u, HomeOrg, None, None, None),
          C("remove-member", u, HomeOrg, None, v, None),
          C("update-member-role", u, HomeOrg, v, None, "member"),
          C("get-full", u, None, None, None, None)} : u, v \in {ann, bob}}

Invitations ==
  UNION {{C("invite-member", ann, HomeOrg, None, eve, "admin"),
          C("invite-member", ann, HomeOrg, None, eve, other),
          C("cancel-invitation", ann, HomeOrg, i, None, None),
          C("accept-invitation", eve, None, i, None, None),
          C("reject-invitation", eve, None, i, None, None),
          C("leave", eve, HomeOrg, None, None, None),
          C("get-invitation", eve, None, i, None, None)} : i \in {eve} \cup MCRequests}

Lifecycle ==
  UNION {{C("create", ann, None, None, None, n),
          C("update", bob, HomeOrg, None, None, n)} : n \in MCNames}
  \cup UNION {{C("delete", ann, o, None, None, None),
               C("set-active", ann, o, None, None, None),
               C("set-active", bob, o, None, None, None),
               C("accept-invitation", eve, None, eve, None, None)} :
                 o \in {HomeOrg} \cup MCRequests}

\* A user who joins, is put in a team, and is removed.
TeamReads ==
  {C("create-team", ann, HomeOrg, None, None, acme),
   C("accept-invitation", eve, None, eve, None, None),
   C("remove-member", bob, HomeOrg, None, eve, None)}
  \cup UNION {{C("add-team-member", ann, HomeOrg, t, eve, None),
               C("list-team-members", eve, None, t, None, None)} : t \in MCRequests}

Teams ==
  {C("create-team", ann, HomeOrg, None, None, acme),
   C("get-active-member", bob, None, None, None, None),
   C("delete", ann, HomeOrg, None, None, None)}
  \cup UNION {{C("update-team", ann, HomeOrg, t, None, other),
               C("add-team-member", bob, HomeOrg, t, ann, None),
               C("remove-team-member", ann, HomeOrg, t, ann, None),
               C("set-active-team", ann, None, t, None, None),
               C("remove-team", bob, HomeOrg, t, None, None)} : t \in MCRequests}

CustomRoles ==
  {[C(op, ann, HomeOrg, None, None, auditor) EXCEPT !.permissions = p] :
     op \in {"create-role", "update-role", "delete-role"},
     p \in {{"member.delete"}, {}}}
  \cup {C("update-member-role", ann, HomeOrg, bob, None, auditor),
        C("remove-member", bob, HomeOrg, None, ann, None),
        C("delete", ann, HomeOrg, None, None, None)}

MCCalls == [membership |-> Membership, invitations |-> Invitations,
            lifecycle |-> Lifecycle, teams |-> Teams, teamReads |-> TeamReads, roles |-> CustomRoles]

Scenario(suspends, refs, requests, scenario) ==
  [suspends |-> suspends, enforcesReferences |-> refs,
   requests |-> requests, scenario |-> scenario]

MCConfigs ==
  {Scenario(FALSE, FALSE, 4, s) : s \in {"invitations", "teamReads", "teams"}}
  \cup {Scenario(FALSE, FALSE, 3, s) : s \in {"membership", "lifecycle", "roles"}}
  \cup {Scenario(TRUE, TRUE, 2, s) : s \in DOMAIN MCCalls \ {"teams", "teamReads"}}
  \cup {Scenario(TRUE, TRUE, 3, "teams")}

=============================================================================
