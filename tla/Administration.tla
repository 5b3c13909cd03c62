--------------------------- MODULE Administration --------------------------
(***************************************************************************)
(* The admin plugin: creating, promoting, banning and removing users, their *)
(* sessions and passwords, and acting in their name.                       *)
(***************************************************************************)
EXTENDS IdentityState

\* Whether the caller's role permits what is asked: every permission but
\* that to impersonate admins comes with the admin role.
Administers(r) == Exists(Caller(r)) /\ db.user[Caller(r)].admin

\* Without a session, /admin/create-user is taken for a call of the server's own.
AdminCreate(r) ==
  LET row == [Plain(call[r].email, FALSE) EXCEPT !.admin = call[r].flag] IN
  /\ At(r, "create-user")
  /\ IF Caller(r) # None /\ ~Administers(r) THEN Refuse(r)
     ELSE \E to \in {"credential", "created"} : NewUser(r, row, to)   \* with a password or without

CreatedWithoutPassword(r) == At(r, "created") /\ Finishes(r, {"ok"}, db)

SetRole(r) ==
  /\ At(r, "set-role")
  /\ IF ~Administers(r) \/ ~Exists(Target(r)) THEN Refuse(r)
     ELSE Finishes(r, {"ok"}, [db EXCEPT !.user[Target(r)].admin = call[r].flag])

\* /admin/update-user writes what it is given: here a role, or an address.
AdminUpdate(r) ==
  LET u      == Target(r)
      others == {v \in Ids \ {u} : Exists(v) /\ db.user[v].email = call[r].email} IN
  /\ At(r, "admin-update")
  /\ IF ~Administers(r) \/ ~Exists(u) \/ others # {} THEN Refuse(r)
     ELSE IF call[r].email = None
     THEN Finishes(r, {"ok"}, [db EXCEPT !.user[u].admin = call[r].flag])
     ELSE Finishes(r, {"ok"}, [db EXCEPT !.user[u].email = call[r].email])

Ban(r) ==
  /\ At(r, "ban")
  /\ IF ~Administers(r) \/ ~Exists(Target(r)) \/ Target(r) = Caller(r) THEN Refuse(r)
     ELSE Writes(r, "revoke", [db EXCEPT !.user[Target(r)].banned = TRUE,
            !.user[Target(r)].banExpires = IF call[r].flag THEN now + BanLife ELSE None])

Unban(r) ==
  /\ At(r, "unban")
  /\ IF ~Administers(r) \/ ~Exists(Target(r)) THEN Refuse(r)
     ELSE Finishes(r, {"ok"},
            [db EXCEPT !.user[Target(r)].banned = FALSE, !.user[Target(r)].banExpires = None])

\* The last step of a ban, or /admin/revoke-user-sessions.
RevokeSessions(r) ==
  LET tables == [db EXCEPT !.session = {s \in @ : s.user # Target(r)}] IN
  \/ At(r, "revoke") /\ Finishes(r, {"ok"}, tables)
  \/ At(r, "revoke-sessions") /\ (IF Administers(r) THEN Finishes(r, {"ok"}, tables) ELSE Refuse(r))

RevokeSession(r) ==
  /\ At(r, "revoke-session")
  /\ IF ~Administers(r) THEN Refuse(r)
     ELSE Finishes(r, {"ok"}, [db EXCEPT !.session = {s \in @ : s.id # call[r].given}])

SetUserPassword(r) ==
  LET mine == {a \in db.account : a.user = Target(r) /\ a.provider = None} IN
  /\ At(r, "set-password")
  /\ IF ~Administers(r) THEN Refuse(r)
     ELSE Finishes(r, {"ok"}, [db EXCEPT !.account =
            (@ \ mine) \cup {[a EXCEPT !.password = r] : a \in mine}])

RemoveUser(r) ==
  /\ At(r, "remove-user")
  /\ IF ~Administers(r) \/ Target(r) = Caller(r) \/ ~Exists(Target(r)) THEN Refuse(r)
     ELSE DropSessions(r, Target(r), "drop-accounts")

-----------------------------------------------------------------------------
(* Impersonation                                                            *)

Impersonate(r) ==
  /\ At(r, "impersonate")
  /\ IF ~Administers(r) \/ ~Exists(Target(r)) THEN Refuse(r)
     ELSE IF db.user[Target(r)].admin THEN Refuse(r)
     ELSE Reads(r, "session", Target(r), Caller(r))

\* Mutant: an admin's token that is put aside already is kept.
MarkImpersonatedOnce(r) ==
  LET mine == {s \in db.session : s.id = r}
      old  == mem[r].jar.admin IN
  /\ At(r, "mark")
  /\ Responds(r, {"session"},
       [db EXCEPT !.session = (@ \ mine) \cup {[s EXCEPT !.by = Row(r)] : s \in mine}],
       [jar[call[r].by] EXCEPT !.session = r,
                               !.admin = IF old = None THEN mem[r].jar.session ELSE old])

\* The session that was created is marked, and the admin's own token is put aside.
MarkImpersonated(r) ==
  LET mine == {s \in db.session : s.id = r} IN
  /\ At(r, "mark")
  /\ Responds(r, {"session"},
       [db EXCEPT !.session = (@ \ mine) \cup {[s EXCEPT !.by = Row(r)] : s \in mine}],
       [jar[call[r].by] EXCEPT !.session = r, !.admin = mem[r].jar.session])

\* The admin's token comes back as it is; without one, the browser is signed out.
StopImpersonating(r) ==
  LET mine == mem[r].jar.session IN
  /\ At(r, "stop-impersonating")
  /\ IF ~\E s \in db.session : s.id = mine /\ s.by # None THEN Refuse(r)
     ELSE Responds(r, {"ok"}, [db EXCEPT !.session = {s \in @ : s.id # mine}],
            [jar[call[r].by] EXCEPT !.session = mem[r].jar.admin, !.admin = None])

AdminStep(r) ==
  \/ AdminCreate(r) \/ CreatedWithoutPassword(r) \/ SetRole(r) \/ AdminUpdate(r) \/ Ban(r) \/ Unban(r)
  \/ RevokeSessions(r) \/ RevokeSession(r)
  \/ SetUserPassword(r) \/ RemoveUser(r) \/ Impersonate(r) \/ MarkImpersonated(r)
  \/ StopImpersonating(r)
=============================================================================
