------------------------------ MODULE SignIns ------------------------------
(***************************************************************************)
(* The sign-in plugins together, on one set of users, sessions and         *)
(* verification rows, and what a session, a code and an enrolment may be   *)
(* relied on for.                                                          *)
(***************************************************************************)
EXTENDS TwoFactor, PhoneNumber, SignedChallenges, DeviceCodes

Tick ==
  /\ now < MaxTime
  /\ now' = now + 1
  /\ UNCHANGED <<config, db, pc, call, mem, answer>>

SharedStep(r) ==
  \/ CreateSession(r) \/ Consume(r) \/ ClearCodes(r) \/ MintCode(r)
  \/ DropCode(r) \/ CountFailure(r) \/ SpendCode(r)

Next ==
  \/ Tick
  \/ \E r \in Requests :
       \/ \E c \in Calls[config.scenario] : Begin(r, c)
       \/ SharedStep(r) \/ TwoFactorStep(r) \/ PhoneStep(r) \/ WalletStep(r)
       \/ DeviceStep(r) \/ PasskeyStep(r)

Spec == Init /\ [][Next]_vars

-----------------------------------------------------------------------------
(* Properties                                                               *)

\* r was answered that it succeeded; with a session, in particular.
Succeeded(r) == answer[r] \cap {"session", "ok"} # {}
SignedInBy(r) == "session" \in answer[r]

\* The user and phone number that request or seed q was about.
UserOf(q) == IF q \in Users THEN q ELSE mem[q].user

\* Two factor has been on for u from the start, and nobody turned it off.
AlwaysProtected(u) ==
  /\ u \in Users /\ Seeds[config.scenario].user[u].twoFactor
  /\ \A q \in Requests : ~(pc[q] # "idle" /\ Op(q) = "disable" /\ User(q) = u)

SessionOps ==
  PasswordSignIns \cup SecondFactors
  \cup {"phone-verify", "siwe-verify", "passkey-authenticate", "device-token"}

\* What must have happened before r was given a session for u.
Earned(r, u) ==
  LET c == call[r] IN
  /\ c.op \in SessionOps
  /\ c.op \in PasswordSignIns =>
       IF "trust" \in answer[r] THEN UserOf(c.trust) = u ELSE ~AlwaysProtected(u)
  /\ c.op \in SecondFactors =>
       c.cookie # None /\ Op(c.cookie) \in PasswordSignIns /\ UserOf(c.cookie) = u
  /\ c.op = "device-token" =>
       \A op \in {"device-verify", "device-approve"} : \E q \in Requests :
         /\ pc[q] = "done" /\ Op(q) = op
         /\ call[q].device = c.device /\ UserOf(q) = u
  /\ c.op = "siwe-verify" =>
       /\ Op(c.code) = "siwe-nonce" /\ call[c.code].who = c.who
       /\ \E w \in db.wallet : AddressOf[w.wallet] = AddressOf[c.who] /\ w.user = u
  /\ c.op = "passkey-authenticate" => UserOf(c.device) = u
  /\ c.op = "phone-verify" =>
       /\ Op(c.code) \in {"phone-send", "phone-sign-in"} /\ call[c.code].who = c.who
       /\ db.user[u].phone = c.who

\* Whoever is given a session has the factor for it: the second factor of the user
\* whose password was given, or on a device that user made trusted; with a code
\* sent to the number; with a nonce of the wallet; with a passkey of the user;
\* and a device gets the session of the user who claimed and approved its code.
\* A sign-in that was turned into a challenge leaves no session behind.
SessionsHaveFactors ==
  \A r \in Requests :
    /\ SignedInBy(r) => Earned(r, User(r))
    /\ "challenge" \in answer[r] => \A s \in db.session : s.id # r

InTurn == ~config.suspends
AtMostOne(S) == Cardinality(S) <= 1

CookieOps == SecondFactors \cup {"passkey-authenticate"}
CodeOps   == {"verify-otp", "phone-verify", "phone-reset", "siwe-verify"}

\* When requests take turns, no challenge, device code, one-time code, nonce,
\* backup code or trusted-device cookie is accepted twice.
SpentOnce ==
  InTurn => \A q \in Ids :
    /\ AtMostOne({r \in Requests : SignedInBy(r) /\ Op(r) \in CookieOps /\ call[r].cookie = q})
    /\ AtMostOne({r \in Requests : SignedInBy(r) /\ Op(r) = "device-token" /\ call[r].device = q})
    /\ AtMostOne({r \in Requests : Succeeded(r) /\ Op(r) \in CodeOps /\ call[r].code = q})
    /\ AtMostOne({r \in Requests :
         "trust" \in answer[r] /\ Op(r) \in PasswordSignIns /\ call[r].trust = q})
    /\ \A i \in Items : AtMostOne({r \in Requests :
         Succeeded(r) /\ Op(r) = "verify-backup" /\ call[r].code = q /\ call[r].item = i})

\* A session is earned, and with something that earns no other.
SessionsAreEarned == SessionsHaveFactors /\ SpentOnce

\* Between requests that take turns, a user with two factor on has one verified
\* secret (codes by e-mail or SMS aside, which enrol without one), and an address or a
\* phone number leads to one user only.
AccountsStayUsable ==
  InTurn /\ (\A r \in Requests : ~InHandler(r)) =>
    /\ \A u \in Ids : db.user[u] # None =>
         /\ AtMostOne(FactorsOf(u))
         /\ db.user[u].twoFactor /\ ~config.otp => \E f \in FactorsOf(u) : f.verified
    /\ \A w, v \in db.wallet : AddressOf[w.wallet] = AddressOf[v.wallet] => w.user = v.user
    /\ \A p \in Phones : AtMostOne(Holders(p))
=============================================================================
