------------------------------ MODULE Visitors -----------------------------
(***************************************************************************)
(* Signing up and in by e-mail address and by username, anonymous visitors *)
(* and what becomes of them, signing out, and several sessions in one      *)
(* browser.                                                                *)
(***************************************************************************)
EXTENDS IdentityState

\* A verified domain sends its addresses to single sign-on.
Redirected(email) ==
  \E d \in db.domain : d.domain = DomainOf[email] /\ d.verified /\ \E p \in db.sso : p.id = d.provider

\* Sign-up takes an address and a username nobody has; both are looked up first.
SignUp(r) ==
  LET c   == call[r]
      row == [Plain(IF c.email = None THEN r ELSE c.email, FALSE) EXCEPT
                !.username = IF Op(r) = "sign-up-username" THEN c.name ELSE None] IN
  /\ At(r, "sign-up-email") \/ At(r, "sign-up-username")
  /\ NewUser(r, row, "credential")

\* The user's account is created; admins' creations end here.
CreateCredential(r) ==
  LET tables == [db EXCEPT !.account = @ \cup {Credential(r, User(r))}] IN
  /\ At(r, "credential")
  /\ IF Op(r) = "create-user" THEN Finishes(r, {"ok"}, tables) ELSE Writes(r, "session", tables)

SignIn(r) ==
  LET c    == call[r]
      user == IF Op(r) = "sign-in-email" THEN UserWith(c.email) ELSE Named(c.name) IN
  /\ At(r, "sign-in-email") \/ At(r, "sign-in-username")
  /\ IF /\ Op(r) = "sign-in-email" => ~Redirected(c.email)
        /\ \E a \in db.account : a.user = user /\ a.provider = None /\ a.password = c.given
     THEN Reads(r, "session", user, None) ELSE Refuse(r)

\* /update-user: the plugin's hook writes the username, then the handler the rest.
UpdateUser(r) ==
  LET u == Caller(r) IN
  /\ At(r, "update-user")
  /\ IF u = None \/ Named(call[r].name) \notin {None, u} THEN Refuse(r)
     ELSE Finishes(r, {"ok"}, IF Exists(u) THEN [db EXCEPT !.user[u].username = call[r].name] ELSE db)

-----------------------------------------------------------------------------
(* Anonymous visitors                                                       *)

SignInAnonymous(r) ==
  /\ At(r, "sign-in-anonymous")
  /\ IF Exists(Caller(r)) /\ db.user[Caller(r)].anonymous THEN Refuse(r)
     ELSE NewUser(r, [Plain(r, FALSE) EXCEPT !.anonymous = TRUE], "session")

DeleteAnonymous(r) ==
  LET u == Caller(r) IN
  /\ At(r, "delete-anonymous")
  /\ IF ~Exists(u) \/ ~db.user[u].anonymous THEN Refuse(r)
     ELSE /\ Goto(r, "drop-user")
          /\ db' = [db EXCEPT !.session = {s \in @ : s.user # u}]
          /\ mem' = [mem EXCEPT ![r].user = u]
          /\ UNCHANGED <<config, now, pending, jar, call, answer, links>>

\* Mutant: the list grows without bound.
RememberedAll(r) ==
  LET cookies == [jar[call[r].by] EXCEPT !.session = r] IN
  IF Op(r) \in {"sign-in-email", "sign-up-email"} /\ SessionUser(r) # None
  THEN [cookies EXCEPT !.list = <<r>> \o Remove(mem[r].jar.list, r)] ELSE cookies

\* The cookie of the new session, and its place in the browser's list.
Remembered(r) ==
  LET cookies == [jar[call[r].by] EXCEPT !.session = r] IN
  IF Op(r) \in {"sign-in-email", "sign-up-email"} /\ SessionUser(r) # None
  THEN [cookies EXCEPT !.list =
          SubSeq(<<r>> \o Remove(mem[r].jar.list, r), 1,
                 IF Len(mem[r].jar.list) < MaxList THEN Len(mem[r].jar.list) + 1 ELSE MaxList)]
  ELSE cookies

\* After a sign-in or sign-up: who was noted at this address is handed to
\* on_link, and goes.
AfterSignIn(r) ==
  LET a    == mem[r].address
      anon == pending[a] IN
  /\ At(r, "after")
  /\ pending' = [pending EXCEPT ![a] = None]
  /\ IF anon \in {None, User(r)}
     THEN /\ Goto(r, "done")
          /\ jar' = [jar EXCEPT ![call[r].by] = Remembered(r)]
          /\ answer' = [answer EXCEPT ![r] = {"session"}]
          /\ UNCHANGED <<mem, links>>
     ELSE /\ Goto(r, "merge")
          /\ mem' = [mem EXCEPT ![r].row = anon]
          /\ links' = links \cup {[anonymous |-> anon, user |-> User(r), by |-> r]}
          /\ UNCHANGED <<jar, answer>>
  /\ UNCHANGED <<config, now, db, call>>

Merge(r) ==
  \/ At(r, "merge") /\ DropSessions(r, Row(r), "bury")
  \/ /\ At(r, "bury")
     /\ Responds(r, {"session"}, [db EXCEPT !.user[Row(r)] = None], Remembered(r))

DropUser(r) ==
  /\ At(r, "drop-user")
  /\ Finishes(r, {"ok"}, [db EXCEPT !.user[User(r)] = None])

-----------------------------------------------------------------------------
(* Signing out, and several sessions                                        *)

\* The head of the list becomes the browser's session, whether it lives or not.
Promoted(r, list) ==
  [jar[call[r].by] EXCEPT !.list = list, !.session = IF list = <<>> THEN None ELSE Head(list)]

SignOut(r) ==
  /\ At(r, "sign-out")
  /\ IF Caller(r) = None THEN Refuse(r)
     ELSE LET mine == mem[r].jar.session IN
          Responds(r, {"ok"}, [db EXCEPT !.session = {s \in @ : s.id # mine}],
                   Promoted(r, Remove(mem[r].jar.list, mine)))

SwitchSession(r) ==
  LET list == mem[r].jar.list
      want == call[r].given
      rest == Remove(list, want) IN
  /\ At(r, "switch")
  /\ IF ~Contains(list, want) THEN Refuse(r)
     ELSE IF SessionUser(want) = None
     THEN Responds(r, {}, db, [jar[call[r].by] EXCEPT !.list = rest])
     ELSE Responds(r, {"ok"}, db, Promoted(r, <<want>> \o rest))

RevokeListed(r) ==
  LET list == mem[r].jar.list
      want == call[r].given
      rest == Remove(list, want) IN
  /\ At(r, "revoke-listed")
  /\ IF ~Contains(list, want) THEN Refuse(r)
     ELSE Responds(r, {"ok"}, [db EXCEPT !.session = {s \in @ : s.id # want}],
            IF want = mem[r].jar.session THEN Promoted(r, rest)
            ELSE [jar[call[r].by] EXCEPT !.list = rest])

VisitorStep(r) ==
  \/ SignUp(r) \/ CreateCredential(r) \/ SignIn(r) \/ UpdateUser(r)
  \/ SignInAnonymous(r) \/ DeleteAnonymous(r) \/ DropUser(r) \/ AfterSignIn(r) \/ Merge(r)
  \/ SignOut(r) \/ SwitchSession(r) \/ RevokeListed(r)
=============================================================================
