----------------------------- MODULE MCSignIns -----------------------------
EXTENDS SignIns, TLC
CONSTANTS r1, r2, r3, r4, ann, bob, phone1, phone2, main, side

MCRequests == {r1, r2, r3, r4}
MCAddressOf == [w \in {main, side} |-> "address"]
Symmetric == Permutations(MCRequests)

\* Ann has two factor on, a passkey and a phone number; Bob has neither.
MCUser == [i \in MCRequests \cup Users |->
  CASE i = ann -> [twoFactor |-> TRUE, phone |-> phone1, phoneVerified |-> TRUE]
    [] i = bob -> [twoFactor |-> FALSE, phone |-> None, phoneVerified |-> FALSE]
    [] OTHER   -> None]

Tables ==
  [user |-> MCUser,
   session |-> {[id |-> u, user |-> u] : u \in Users},
   verification |-> {},
   twoFactor |-> {[id |-> ann, user |-> ann, verified |-> TRUE, backup |-> {ann} \X Items]},
   passkey |-> {[id |-> ann, user |-> ann, counter |-> 0]},
   wallet |-> {},
   account |-> {[id |-> ann, user |-> ann, wallet |-> None, password |-> ann]},
   device |-> {}]

C(op) == [op |-> op, who |-> None, session |-> None, cookie |-> None, trust |-> None,
          device |-> None, code |-> None, item |-> 1, count |-> 0,
          remember |-> FALSE, silent |-> FALSE, right |-> TRUE]

\* Signing in with two factor, and trusting a device.
Challenges2 ==
  {[C("sign-in") EXCEPT !.who = ann], [C("sign-in") EXCEPT !.who = bob]}
  \cup UNION {{[C("sign-in") EXCEPT !.who = ann, !.trust = q],
               [C("sign-in") EXCEPT !.who = bob, !.trust = q],
               [C("verify-totp") EXCEPT !.cookie = q, !.code = ann, !.remember = TRUE],
               [C("verify-backup") EXCEPT !.cookie = q, !.code = ann],
               [C("disable") EXCEPT !.session = ann, !.trust = q]} : q \in MCRequests}

\* Enrolling, and codes that are sent.
Enrolment ==
  {[C("enable") EXCEPT !.session = u] : u \in Users}
  \cup {[C("disable") EXCEPT !.session = u] : u \in Users}
  \cup {[C("send-otp") EXCEPT !.session = bob], [C("enable") EXCEPT !.session = bob, !.right = FALSE],
        [C("generate-backup") EXCEPT !.session = ann],
        [C("verify-backup") EXCEPT !.session = ann, !.code = ann, !.silent = TRUE],
        [C("sign-in") EXCEPT !.who = bob]}
  \cup UNION {{[C("verify-totp") EXCEPT !.session = u, !.code = q] : u \in Users} : q \in MCRequests}
  \cup UNION {{[C("verify-otp") EXCEPT !.session = bob, !.code = q],
               [C("verify-backup") EXCEPT !.session = ann, !.code = q]} : q \in MCRequests}
  \cup {[C("verify-otp") EXCEPT !.session = bob]}

PhoneCalls ==
  {[C("phone-sign-in") EXCEPT !.who = phone1, !.code = ann],
   [C("phone-request-reset") EXCEPT !.who = phone1]}
  \cup {[C(op) EXCEPT !.who = p] : op \in {"phone-send", "phone-verify"}, p \in {phone1, phone2}}
  \cup UNION {{[C("phone-verify") EXCEPT !.who = p, !.code = q] : p \in {phone1, phone2}} : q \in MCRequests}
  \cup UNION {{[C("phone-verify") EXCEPT !.who = phone2, !.code = q, !.silent = TRUE],
               [C("phone-reset") EXCEPT !.who = phone1, !.code = q],
               [C("phone-sign-in") EXCEPT !.who = phone1, !.code = q]} : q \in MCRequests}

WalletCalls ==
  {[C("siwe-nonce") EXCEPT !.who = w] : w \in Wallets}
  \cup {[C("siwe-verify") EXCEPT !.who = w, !.code = q] : w \in Wallets, q \in MCRequests}

DeviceCalls ==
  {C("device-code")}
  \cup {[C(op) EXCEPT !.session = u, !.device = q] :
          op \in {"device-verify", "device-approve", "device-deny"}, u \in Users, q \in MCRequests}
  \cup {[C("device-token") EXCEPT !.device = q] : q \in MCRequests}

PasskeyCalls ==
  {C("passkey-authenticate-options"), [C("passkey-register-options") EXCEPT !.session = bob],
   [C("passkey-delete") EXCEPT !.session = ann, !.device = ann],
   [C("passkey-update") EXCEPT !.session = bob, !.device = ann]}
  \cup {[C("passkey-authenticate") EXCEPT !.cookie = q, !.code = q, !.device = ann, !.count = n] :
          q \in MCRequests, n \in 0 .. 1}
  \cup {[C("passkey-authenticate") EXCEPT !.cookie = q, !.code = q, !.device = p] :
          q \in MCRequests, p \in MCRequests}
  \cup {[C("passkey-register") EXCEPT !.cookie = q, !.code = q, !.session = u] :
          q \in MCRequests, u \in Users}

MCCalls == [challenges |-> Challenges2, enrolment |-> Enrolment, phone |-> PhoneCalls,
            wallets |-> WalletCalls, devices |-> DeviceCalls, passkeys |-> PasskeyCalls]

\* In the phone scenario nobody has two factor on.
MCSeeds == [s \in DOMAIN MCCalls |->
  IF s = "phone" THEN [Tables EXCEPT !.user[ann].twoFactor = FALSE, !.user[ann].phoneVerified = FALSE]
  ELSE Tables]

Scenario(suspends, flags, requests, scenario) ==
  [suspends |-> suspends, otp |-> flags, skips |-> flags, checksPhone |-> flags,
   requests |-> requests, scenario |-> scenario]

MCConfigs ==
  {Scenario(FALSE, FALSE, 4, s) : s \in DOMAIN MCCalls}
  \cup {Scenario(FALSE, TRUE, 3, s) : s \in {"enrolment", "phone"}}
  \cup {Scenario(TRUE, FALSE, 3, s) : s \in {"challenges", "wallets", "devices", "passkeys"}}
  \cup {Scenario(TRUE, TRUE, 2, s) : s \in {"enrolment", "phone"}}
=============================================================================
