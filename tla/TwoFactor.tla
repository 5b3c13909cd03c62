----------------------------- MODULE TwoFactor -----------------------------
(***************************************************************************)
(* The two-factor plugin.  A hook after the password sign-ins takes back   *)
(* the session of a user who has two factor on, unless the device is       *)
(* trusted, and answers with a challenge; a second factor turns the        *)
(* challenge into a session, or, for who is signed in, enrols.             *)
(***************************************************************************)
EXTENDS SignInState

FactorsOf(user) == {f \in db.twoFactor : f.user = user}
TrustRow(q)     == Rows(<<"trust", q>>)

SetFlag(user, on) == [db EXCEPT !.user[user].twoFactor = on]
UpdateFactor(id, Patch(_)) ==
  [db EXCEPT !.twoFactor = {IF f.id = id THEN Patch(f) ELSE f : f \in @}]

-----------------------------------------------------------------------------
(* The hook on /sign-in/email, /sign-in/username and /sign-in/phone-number  *)

\* A right password; AccountSessions models these endpoints themselves.
SignIn(r) ==
  /\ At(r, "sign-in")
  /\ Reads(r, "session", call[r].who, None)

\* The record behind the trusted-device cookie is this user's and still valid.
Trusted(r) ==
  \E v \in TrustRow(call[r].trust) : v.holder = User(r) /\ v.expiresAt > now

Intercept(r) ==
  /\ At(r, "intercept")
  /\ IF ~db.user[User(r)].twoFactor THEN Finishes(r, {"session"}, db)
     ELSE Reads(r, IF Trusted(r) THEN "rotate" ELSE "tear-down", User(r), None)

Rotate(r) ==
  /\ At(r, "rotate")
  /\ Writes(r, "trust", [db EXCEPT !.verification = @ \ TrustRow(call[r].trust)])

IssueTrustDevice(r) ==
  /\ At(r, "trust")
  /\ Finishes(r, {"session", "trust"},
       [db EXCEPT !.verification = @ \cup {NewRow(r, <<"trust", r>>, User(r))}])

TearDown(r) ==
  /\ At(r, "tear-down")
  /\ Writes(r, "challenge", [db EXCEPT !.session = {s \in @ : s.id # r}])

Challenge(r) ==
  /\ At(r, "challenge")
  /\ Finishes(r, {"challenge"},
       [db EXCEPT !.verification = @ \cup {NewRow(r, <<"2fa", r>>, User(r))}])

-----------------------------------------------------------------------------
(* Second factors                                                           *)

\* _verify_two_factor: the user who is signed in, or whose challenge it is;
\* the challenge's expiry is not looked at.
Challenged(r) ==
  IF call[r].session # None THEN SignedIn(r)
  ELSE {v.holder : v \in Rows(<<"2fa", call[r].cookie>>)}

VerifyTotpOf(r, user) ==
  \E factor \in FindOne(FactorsOf(user)) :
    IF \/ factor = None
       \/ call[r].session = None /\ ~factor.verified
       \/ call[r].code # factor.id
    THEN Refuse(r)
    ELSE Reads(r, IF factor.verified THEN "valid"
                  ELSE IF db.user[user].twoFactor THEN "verified" ELSE "flag",
               user, factor)

VerifyBackupOf(r, user) ==
  \E factor \in FindOne(FactorsOf(user)) :
    IF factor = None \/ <<call[r].code, call[r].item>> \notin factor.backup
    THEN Refuse(r) ELSE Reads(r, "strike", user, factor)

SecondFactor(r) ==
  /\ pc[r] \in SecondFactors \cup {"send-otp"} /\ Scheduled(r)
  /\ IF Challenged(r) = {} \/ (Op(r) = "send-otp" /\ ~config.otp) THEN Refuse(r)
     ELSE \E user \in Challenged(r) :
       CASE Op(r) = "verify-totp"   -> VerifyTotpOf(r, user)
         [] Op(r) = "verify-backup" -> VerifyBackupOf(r, user)
         [] Op(r) = "verify-otp"    -> CheckCode(r, user)
         [] Op(r) = "send-otp"      -> Reads(r, "clear", user, None)

\* The code is taken off the list that was read, and that list is written.
StrikeBackup(r) ==
  LET left == mem[r].row.backup \ {<<call[r].code, call[r].item>>}
      tables == UpdateFactor(mem[r].row.id, LAMBDA f : [f EXCEPT !.backup = left]) IN
  /\ At(r, "strike")
  /\ IF call[r].silent THEN Finishes(r, {"ok"}, tables) ELSE Writes(r, "valid", tables)

\* Enrolment: the user's flag, then the row.
RaiseFlag(r) ==
  /\ At(r, "flag")
  /\ Writes(r, CASE Op(r) = "enable"      -> "existing"
                 [] Op(r) = "verify-totp" -> "verified"
                 [] Op(r) = "verify-otp"  -> "valid", SetFlag(User(r), TRUE))

MarkVerified(r) ==
  /\ At(r, "verified")
  /\ Writes(r, "valid", UpdateFactor(mem[r].row.id, LAMBDA f : [f EXCEPT !.verified = TRUE]))

\* _valid: who is signed in gets an echo; a challenge gets a session, is
\* deleted, and may make the device trusted.
Valid(r) ==
  /\ At(r, "valid")
  /\ IF call[r].session # None THEN Finishes(r, {"ok"}, db)
     ELSE Goto(r, "session") /\ UNCHANGED <<config, now, db, call, mem, answer>>

-----------------------------------------------------------------------------
(* Turning two factor on and off                                            *)

\* The endpoints that a session and its password open.
Manage(r) ==
  /\ pc[r] \in {"enable", "disable", "generate-backup"} /\ Scheduled(r)
  /\ IF SignedIn(r) = {} \/ ~call[r].right THEN Refuse(r)
     ELSE \E user \in SignedIn(r) :
       CASE Op(r) = "enable"  -> Reads(r, IF config.skips THEN "flag" ELSE "existing", user, None)
         [] Op(r) = "disable" -> Reads(r, "lower", user, None)
         [] Op(r) = "generate-backup" ->
              \E factor \in FindOne(FactorsOf(user)) :
                IF factor = None \/ ~db.user[user].twoFactor THEN Refuse(r)
                ELSE Reads(r, "renew", user, factor)

FindExisting(r) ==
  /\ At(r, "existing")
  /\ \E factor \in FindOne(FactorsOf(User(r))) : Reads(r, "replace", User(r), factor)

DropFactors(r) ==
  /\ pc[r] \in {"replace", "drop-factor"} /\ Scheduled(r)
  /\ LET tables == [db EXCEPT !.twoFactor = @ \ FactorsOf(User(r))] IN
     IF pc[r] = "replace" THEN Writes(r, "enrol", tables)
     ELSE IF call[r].trust # None THEN Writes(r, "revoke", tables)
     ELSE Finishes(r, {"ok"}, tables)

\* Mutant of Enrol: a new secret starts out unverified, whatever was before.
EnrolUnverified(r) ==
  /\ At(r, "enrol")
  /\ Finishes(r, {"ok"}, [db EXCEPT !.twoFactor = @ \cup
       {[id |-> r, user |-> User(r), verified |-> config.skips, backup |-> {r} \X Items]}])

\* A new secret is verified if the one it replaces was.
Enrol(r) ==
  LET existing == mem[r].row IN
  /\ At(r, "enrol")
  /\ Finishes(r, {"ok"}, [db EXCEPT !.twoFactor = @ \cup
       {[id |-> r, user |-> User(r), backup |-> {r} \X Items,
         verified |-> config.skips \/ (existing # None /\ existing.verified)]}])

LowerFlag(r) ==
  /\ At(r, "lower")
  /\ Writes(r, "drop-factor", SetFlag(User(r), FALSE))

\* Only the record of the cookie that was sent is revoked.
RevokeTrust(r) ==
  /\ At(r, "revoke")
  /\ Finishes(r, {"ok"}, [db EXCEPT !.verification = @ \ TrustRow(call[r].trust)])

RenewBackup(r) ==
  /\ At(r, "renew")
  /\ Finishes(r, {"ok"}, UpdateFactor(mem[r].row.id, LAMBDA f : [f EXCEPT !.backup = {r} \X Items]))

TwoFactorStep(r) ==
  \/ SignIn(r) \/ Intercept(r) \/ Rotate(r) \/ IssueTrustDevice(r) \/ TearDown(r) \/ Challenge(r)
  \/ SecondFactor(r) \/ StrikeBackup(r) \/ RaiseFlag(r) \/ MarkVerified(r) \/ Valid(r)
  \/ Manage(r) \/ FindExisting(r) \/ DropFactors(r) \/ Enrol(r) \/ LowerFlag(r)
  \/ RevokeTrust(r) \/ RenewBackup(r)
=============================================================================
