---------------------------- MODULE PhoneNumber ----------------------------
(***************************************************************************)
(* The phone-number plugin: signing in with a number and a password,       *)
(* one-time codes that sign in or sign up, and password resets.            *)
(***************************************************************************)
EXTENDS SignInState

Holders(phone) == {u \in Ids : db.user[u] # None /\ db.user[u].phone = phone}

Credentials(user) == {a \in db.account : a.user = user /\ a.wallet = None}

\* A user with an unverified number is sent a code instead of a session.
PhoneSignIn(r) ==
  /\ At(r, "phone-sign-in")
  /\ \E user \in FindOne(Holders(call[r].who)) :
       IF user = None THEN Refuse(r)
       ELSE IF config.checksPhone /\ ~db.user[user].phoneVerified
       THEN Reads(r, "clear", user, None)
       ELSE IF \E a \in Credentials(user) : a.password = call[r].code
       THEN Reads(r, "session", user, None)
       ELSE Refuse(r)

\* A reset is only sent to a number that somebody has.
PhoneSend(r) ==
  /\ pc[r] \in {"phone-send", "phone-request-reset"} /\ Scheduled(r)
  /\ IF Op(r) = "phone-request-reset" /\ Holders(call[r].who) = {} THEN Refuse(r)
     ELSE Reads(r, "clear", None, None)

PhoneCode(r) ==
  /\ pc[r] \in {"phone-verify", "phone-reset"} /\ Scheduled(r)
  /\ CheckCode(r, None)

AfterPhone(r) == IF call[r].silent THEN "echo" ELSE "session"

\* The number's holder, who may have to be created.
ResolvePhone(r) ==
  /\ At(r, "resolve-phone")
  /\ \E user \in FindOne(Holders(call[r].who)) :
       Reads(r, IF user = None THEN "sign-up"
                ELSE IF db.user[user].phoneVerified THEN AfterPhone(r) ELSE "verify-phone",
             user, None)

\* Numbers are unique: a database that checks it refuses the second user.
PhoneSignUp(r) ==
  LET row == [twoFactor |-> FALSE, phone |-> call[r].who, phoneVerified |-> TRUE] IN
  /\ At(r, "sign-up")
  /\ \/ Holders(call[r].who) # {} /\ Refuse(r)
     \/ /\ Goto(r, AfterPhone(r))
        /\ db' = [db EXCEPT !.user[r] = row]
        /\ mem' = [mem EXCEPT ![r].user = r]
        /\ UNCHANGED <<config, now, call, answer>>

VerifyPhone(r) ==
  /\ At(r, "verify-phone")
  /\ Writes(r, AfterPhone(r), [db EXCEPT !.user[User(r)].phoneVerified = TRUE])

PhoneEcho(r) == At(r, "echo") /\ Finishes(r, {"ok"}, db)

FindAccount(r) ==
  /\ At(r, "find-account")
  /\ \E user \in FindOne(Holders(call[r].who)) :
       IF user = None THEN Refuse(r)
       ELSE \E account \in FindOne(Credentials(user)) : Reads(r, "set-password", user, account)

\* The account that was found is updated, or one is created.
SetPassword(r) ==
  LET account == mem[r].row
      new     == [id |-> r, user |-> User(r), wallet |-> None, password |-> r]
      tables  == IF account = None THEN [db EXCEPT !.account = @ \cup {new}]
                 ELSE [db EXCEPT !.account =
                        {IF a.id = account.id THEN [a EXCEPT !.password = r] ELSE a : a \in @}] IN
  /\ At(r, "set-password")
  /\ Finishes(r, {"ok"}, tables)

PhoneStep(r) ==
  \/ PhoneSignIn(r) \/ PhoneSend(r) \/ PhoneCode(r) \/ ResolvePhone(r) \/ PhoneSignUp(r)
  \/ VerifyPhone(r) \/ PhoneEcho(r) \/ FindAccount(r) \/ SetPassword(r)
=============================================================================
