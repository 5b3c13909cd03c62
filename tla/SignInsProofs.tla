--------------------------- MODULE SignInsProofs ---------------------------
(***************************************************************************)
(* Proofs about SignIns, for all requests, users, phone numbers, wallets,  *)
(* scenarios of calls and configurations.                                  *)
(***************************************************************************)
EXTENDS SignIns, FiniteSetTheorems, TLAPS

-----------------------------------------------------------------------------
(* The inductive invariant                                                  *)

Known(u) == u \in Ids /\ db.user[u] # None

Replies == {{}, {"session"}, {"session", "trust"}, {"challenge"}, {"code"}, {"ok"}}

\* The call of a request is recorded when it begins, and what it sends along
\* was handed out before; nothing is answered before the end.
CallOK(r) ==
  /\ pc[r] # "idle" => call[r] # None /\ Presentable(call[r])
  /\ answer[r] \in Replies
  /\ pc[r] # "done" => answer[r] = {}

CodeSenders   == {"send-otp", "phone-sign-in", "phone-send", "phone-request-reset"}
CodeSpenders  == {"verify-otp", "phone-verify", "phone-reset"}
PasskeyOffers == {"passkey-register-options", "passkey-authenticate-options"}
DeviceWait    == {"poll", "session", "drop-device"}

\* Where a handler is tells which endpoint it serves.
RouteOK(r) ==
  /\ pc[r] \in Operations => Op(r) = pc[r]
  /\ pc[r] = "session" => Op(r) \in SessionOps
  /\ pc[r] \in {"intercept", "rotate", "tear-down", "challenge"} => Op(r) \in PasswordSignIns
  /\ pc[r] = "trust" => Op(r) \in PasswordSignIns \cup SecondFactors
  /\ pc[r] = "consume" => Op(r) \in CookieOps \cup {"passkey-register"}
  /\ pc[r] \in {"clear", "mint"} =>
       /\ Op(r) \in CodeSenders /\ (Op(r) = "send-otp" => config.otp)
       /\ Purpose(r) \in Purposes \X (Ids \cup Phones \cup Wallets)
  /\ pc[r] \in {"drop-code", "miscount", "spend"} => Op(r) \in CodeSpenders
  /\ pc[r] \in {"spend", "flag", "valid"} /\ Op(r) = "verify-otp" => config.otp
  /\ pc[r] = "strike" => Op(r) = "verify-backup"
  /\ pc[r] = "flag" =>
       Op(r) \in {"enable", "verify-totp", "verify-otp"} /\ (Op(r) = "enable" => config.skips)
  /\ pc[r] = "verified" => Op(r) = "verify-totp"
  /\ pc[r] = "valid" => Op(r) \in SecondFactors
  /\ pc[r] \in {"existing", "replace", "enrol"} => Op(r) = "enable"
  /\ pc[r] \in {"lower", "drop-factor", "revoke"} => Op(r) = "disable"
  /\ pc[r] = "renew" => Op(r) = "generate-backup"
  /\ pc[r] \in {"resolve-phone", "sign-up", "verify-phone", "echo"} => Op(r) = "phone-verify"
  /\ pc[r] \in {"find-account", "set-password"} => Op(r) = "phone-reset"
  /\ pc[r] \in {"burn", "resolve-wallet", "wallet-user", "wallet-row", "wallet-account"} =>
       Op(r) = "siwe-verify"
  /\ pc[r] = "passkey-row" => Op(r) = "passkey-register"
  /\ pc[r] = "counter" => Op(r) = "passkey-authenticate"
  /\ pc[r] = "drop-passkey" => Op(r) = "passkey-delete"
  /\ pc[r] \in {"poll", "drop-device"} => Op(r) = "device-token"
  /\ pc[r] = "claim" => Op(r) = "device-verify"
  /\ pc[r] = "decide" => Op(r) \in {"device-approve", "device-deny"}

\* Where a handler acts for a user it has found one, who exists.
Identified ==
  {"session", "intercept", "rotate", "trust", "tear-down", "challenge", "consume", "strike",
   "flag", "verified", "valid", "existing", "replace", "enrol", "lower", "drop-factor", "renew",
   "counter", "verify-phone", "echo", "wallet-row", "wallet-account", "set-password", "passkey-row",
   "claim", "decide"}

UserFound(r) ==
  /\ User(r) # None => Known(User(r))
  /\ pc[r] \in Identified => User(r) # None
  /\ pc[r] = "spend" /\ Op(r) = "verify-otp" => User(r) # None
  /\ pc[r] \in {"idle"} \cup Operations => User(r) = None

\* user has been through endpoint op for the device.
HasDone(op, device, user) ==
  \E q \in Requests :
    pc[q] = "done" /\ Op(q) = op /\ call[q].device = device /\ User(q) = user

\* A device code has the user who claimed it, and is approved by that user.
DeviceOK(d) ==
  /\ d.user # None => Known(d.user) /\ HasDone("device-verify", d.id, d.user)
  /\ d.status = "approved" => d.user # None /\ HasDone("device-approve", d.id, d.user)

HasSession(r) == \E s \in db.session : s.id = r

\* The row that a handler has at hand.
HeldOK(r) ==
  LET row == mem[r].row IN
  /\ pc[r] \in {"strike", "verified", "renew"} => row \in TwoFactorRow
  /\ pc[r] = "flag" /\ Op(r) = "verify-totp" => row \in TwoFactorRow
  /\ pc[r] \in {"replace", "enrol"} => row \in TwoFactorRow \cup {None}
  /\ pc[r] \in {"spend", "miscount", "burn"} => row \in VerificationRow
  /\ pc[r] \in {"spend", "burn"} => row.id = call[r].code
  /\ pc[r] = "spend" => row.identifier = Purpose(r)
  /\ pc[r] = "burn" => row.identifier = <<"siwe", call[r].who>>
  /\ pc[r] = "set-password" => row \in AccountRow \cup {None}
  /\ pc[r] \in DeviceWait /\ Op(r) = "device-token" =>
       /\ row \in DeviceRow /\ row.id = call[r].device /\ row.user = User(r) /\ DeviceOK(row)
       /\ pc[r] = "session" \/ HasSession(r) => row.status = "approved"

\* The request whose code or nonce r sends along was about the same thing.
SentBy(r, ops) ==
  LET q == call[r].code IN
  q \in Requests /\ Op(q) \in ops /\ call[q].who = call[r].who

\* What has been checked on the way to a session: a challenge was met, ...
Met(r) ==
  LET q == call[r].cookie IN
  q \in Requests /\ Op(q) \in PasswordSignIns /\ User(q) = User(r)

ChallengeDue(r) ==
  Op(r) \in SecondFactors =>
    /\ pc[r] \notin {"idle", "done"} \cup SecondFactors /\ call[r].session = None => Met(r)
    /\ pc[r] \in {"session", "consume", "trust"} => call[r].session = None

\* ... or the device is trusted, ...
Vouched(r) == call[r].trust \in Ids /\ UserOf(call[r].trust) = User(r)

TrustDue(r) == Op(r) \in PasswordSignIns /\ pc[r] \in {"rotate", "trust"} => Vouched(r)

\* ... a nonce was issued for the wallet, which is the user's, ...
HoldsWallet(r) ==
  \E w \in db.wallet : AddressOf[w.wallet] = AddressOf[call[r].who] /\ w.user = User(r)

WalletDue(r) ==
  Op(r) = "siwe-verify" =>
    /\ pc[r] \notin {"idle", "done", "siwe-verify"} => SentBy(r, {"siwe-nonce"})
    /\ pc[r] \in {"wallet-account", "session"} => HoldsWallet(r)

\* ... the passkey is the user's, ...
HoldsPasskey(r) ==
  LET c == call[r] IN
  /\ c.device \in Ids /\ UserOf(c.device) = User(r)
  /\ c.cookie \in Requests /\ Op(c.cookie) \in PasskeyOffers

PasskeyDue(r) ==
  Op(r) = "passkey-authenticate" /\ pc[r] \in {"counter", "session", "consume"} =>
    HoldsPasskey(r)

\* ... a code was sent to the number, which is the user's, ...
HoldsNumber(r) == db.user[User(r)].phone = call[r].who

PhoneDue(r) ==
  Op(r) = "phone-verify" =>
    /\ pc[r] \notin {"idle", "done", "phone-verify", "drop-code", "miscount"} =>
         SentBy(r, {"phone-send", "phone-sign-in"})
    /\ pc[r] \in {"verify-phone", "echo", "session"} => HoldsNumber(r)

\* ... or the device code was claimed by who decides on it.
DecisionDue(r) ==
  pc[r] = "decide" => HasDone("device-verify", call[r].device, User(r))

DueOK(r) ==
  /\ ChallengeDue(r) /\ TrustDue(r) /\ WalletDue(r) /\ PasskeyDue(r) /\ PhoneDue(r)
  /\ DecisionDue(r)

HandlerOK(r) ==
  CallOK(r) /\ RouteOK(r) /\ UserFound(r) /\ HeldOK(r) /\ DueOK(r)

HandlersOK == \A r \in Requests : HandlerOK(r)

\* A user is there from the start, or was signed up by a request of that name.
UsersOK ==
  /\ \A u \in Users : db.user[u] # None
  /\ \A r \in Requests : db.user[r] # None =>
       /\ pc[r] \in {"echo", "session", "wallet-row", "wallet-account", "done"}
       /\ Op(r) \in {"phone-verify", "siwe-verify"}
  /\ \A u \in Users : AlwaysProtected(u) => db.user[u].twoFactor

SessionsOK ==
  \A s \in db.session :
    /\ Known(s.user)
    /\ s.id \in Requests =>
         /\ pc[s.id] \in {"intercept", "rotate", "trust", "tear-down", "consume",
                          "drop-device", "done"}
         /\ "challenge" \notin answer[s.id]

\* A verification row tells what its request has answered, and for whom.
Minted(v, q) ==
  \/ /\ answer[q] = {"challenge"} /\ Op(q) \in PasswordSignIns
     /\ v.identifier = <<"2fa", q>> /\ v.holder = User(q) /\ User(q) # None
  \/ /\ "trust" \in answer[q]
     /\ v.identifier = <<"trust", q>> /\ v.holder = User(q) /\ User(q) # None
  \/ /\ answer[q] = {"code"} /\ Op(q) \in CodeSenders
     /\ v.identifier = Purpose(q) /\ (Op(q) = "send-otp" => config.otp)
  \/ /\ answer[q] = {"code"} /\ Op(q) = "siwe-nonce"
     /\ v.identifier = <<"siwe", call[q].who>>
  \/ /\ answer[q] = {"challenge"} /\ Op(q) \in PasskeyOffers
     /\ v.identifier = <<"passkey", q>> /\ (v.holder # None => Known(v.holder))

VerificationsOK ==
  \A v \in db.verification :
    /\ v.id \in Users => v.identifier = <<"trust", v.id>> /\ v.holder = v.id
    /\ v.id \in Requests => pc[v.id] = "done" /\ Minted(v, v.id)

PasskeysOK ==
  \A p \in db.passkey :
    /\ Known(p.user) /\ p.user = UserOf(p.id)
    /\ p.id \in Requests => pc[p.id] \in {"consume", "done"} /\ Op(p.id) = "passkey-register"

RowsOK ==
  /\ UsersOK /\ SessionsOK /\ VerificationsOK /\ PasskeysOK
  /\ \A w \in db.wallet : Known(w.user)
  /\ \A d \in db.device : d.id \in Requests /\ pc[d.id] = "done" /\ DeviceOK(d)

\* A session was earned, and with what requests or seeds gave.
EarnedOK(r) ==
  LET c == call[r] IN
  SignedInBy(r) =>
    /\ Known(User(r)) /\ Earned(r, User(r))
    /\ Op(r) \in PasswordSignIns /\ "trust" \in answer[r] => c.trust \in Ids
    /\ Op(r) \in SecondFactors => c.cookie \in Requests
    /\ Op(r) \in {"siwe-verify", "phone-verify"} => c.code \in Requests
    /\ Op(r) = "passkey-authenticate" => c.device \in Ids

AllEarned == \A r \in Requests : EarnedOK(r)

-----------------------------------------------------------------------------
(* When requests take turns                                                 *)

Alone == \A r, q \in Requests : InHandler(r) /\ InHandler(q) => r = q

\* What may be taken once: what is left of it, and who has taken it.
Kinds == {"cookie", "code", "trust", "device", "backup"}

Left(kind, q, i) ==
  CASE kind = "device" -> \E d \in db.device : d.id = q
    [] kind = "backup" -> \E f \in db.twoFactor : <<q, i>> \in f.backup
    [] OTHER           -> \E v \in db.verification : v.id = q

Took(r, kind, q, i) ==
  /\ pc[r] # "idle"
  /\ \/ /\ kind = "cookie" /\ call[r].cookie = q
        /\ Op(r) \in CookieOps /\ (pc[r] = "trust" \/ SignedInBy(r))
     \/ /\ kind = "trust" /\ call[r].trust = q
        /\ Op(r) \in PasswordSignIns /\ (pc[r] = "trust" \/ "trust" \in answer[r])
     \/ /\ kind = "code" /\ call[r].code = q
        /\ Op(r) \in CodeOps
        /\ pc[r] \notin CodeOps \cup {"drop-code", "miscount", "spend", "burn"}
        /\ pc[r] = "done" => Succeeded(r)
     \/ /\ kind = "device" /\ call[r].device = q
        /\ Op(r) = "device-token" /\ SignedInBy(r)
     \/ /\ kind = "backup" /\ call[r].code = q /\ call[r].item = i
        /\ Op(r) = "verify-backup" /\ pc[r] \notin {"verify-backup", "strike"}
        /\ pc[r] = "done" => Succeeded(r)

TakenOnce ==
  \A r, s \in Requests, kind \in Kinds, q \in Ids, i \in Items :
    Took(r, kind, q, i) =>
      /\ ~Left(kind, q, i)
      /\ Took(s, kind, q, i) => r = s

\* What a handler that is alone has found is still there.
StillThere(r) ==
  LET c == call[r] IN
  /\ pc[r] \notin {"idle", "done", "verify-totp", "verify-otp", "verify-backup", "trust"}
       /\ Op(r) \in SecondFactors /\ c.session = None => Left("cookie", c.cookie, 1)
  /\ pc[r] \in {"counter", "session", "consume"} /\ Op(r) = "passkey-authenticate" =>
       Left("cookie", c.cookie, 1)
  /\ pc[r] \in {"spend", "burn"} => mem[r].row \in db.verification
  /\ pc[r] = "rotate" => Left("trust", c.trust, 1)
  /\ pc[r] \in DeviceWait /\ Op(r) = "device-token" => Left("device", c.device, 1)
  /\ pc[r] \in {"strike", "renew", "verified"} => mem[r].row \in db.twoFactor
  /\ pc[r] = "strike" => <<c.code, c.item>> \in mem[r].row.backup
  /\ pc[r] \in {"flag", "verified"} /\ Op(r) = "verify-totp" =>
       mem[r].row \in FactorsOf(User(r))
  /\ pc[r] = "enrol" => FactorsOf(User(r)) = {}
  /\ pc[r] \in {"replace", "enrol"} /\ ~config.otp /\ db.user[User(r)].twoFactor =>
       config.skips \/ (mem[r].row # None /\ mem[r].row.verified)
  /\ pc[r] = "drop-factor" => ~db.user[User(r)].twoFactor
  /\ pc[r] = "sign-up" => Holders(c.who) = {}
  /\ pc[r] = "wallet-user" => WalletsOf(AddressOf[c.who]) = {}
  /\ pc[r] = "wallet-row" => \A w \in WalletsOf(AddressOf[c.who]) : w.user = User(r)

\* One secret for each user, and each backup code on one list.
FactorsOK ==
  /\ \A f, g \in db.twoFactor :
       f.user = g.user \/ f.id = g.id \/ f.backup \cap g.backup # {} => f = g
  /\ \A f \in db.twoFactor :
       /\ f.id \in Requests => pc[f.id] = "done"
       /\ \A b \in f.backup : b[1] \in Requests => pc[b[1]] = "done"

\* A secret is about to be verified, or to be replaced by a verified one.
Pending(r, u) ==
  /\ User(r) = u
  /\ \/ pc[r] = "existing" /\ config.skips
     \/ pc[r] \in {"replace", "enrol"} /\ (config.skips \/ (mem[r].row # None /\ mem[r].row.verified))
     \/ pc[r] = "verified"

FlagsOK ==
  ~config.otp => \A u \in Ids : db.user[u] # None /\ db.user[u].twoFactor =>
    \/ \E f \in FactorsOf(u) : f.verified
    \/ \E r \in Requests : Pending(r, u)

\* A request makes one verification row.
OneRowEach == \A v, w \in db.verification : v.id = w.id /\ v.id \in Requests => v = w

OneOfEach ==
  /\ OneRowEach
  /\ \A w, v \in db.wallet : AddressOf[w.wallet] = AddressOf[v.wallet] => w.user = v.user
  /\ \A u, v \in Ids :
       db.user[u] # None /\ db.user[v] # None /\ db.user[u].phone = db.user[v].phone =>
         u = v \/ db.user[u].phone = None

TurnsOK ==
  InTurn =>
    /\ Alone /\ TakenOnce /\ (\A r \in Requests : StillThere(r))
    /\ FactorsOK /\ FlagsOK /\ OneOfEach

IInv == TypeOK /\ HandlersOK /\ RowsOK /\ AllEarned /\ TurnsOK

-----------------------------------------------------------------------------
(* Types                                                                    *)

LEMMA Types ==
  ASSUME TypeOK
  PROVE  /\ config \in Config /\ config.scenario \in DOMAIN Calls
         /\ config.suspends \in BOOLEAN /\ config.otp \in BOOLEAN /\ config.skips \in BOOLEAN
         /\ db.user \in [Ids -> UserRow \cup {None}]
         /\ db.session \subseteq SessionRow /\ db.verification \subseteq VerificationRow
         /\ db.twoFactor \subseteq TwoFactorRow /\ db.passkey \subseteq PasskeyRow
         /\ db.wallet \subseteq WalletRow /\ db.account \subseteq AccountRow
         /\ db.device \subseteq DeviceRow
         /\ now \in Nat
PROOF
  <1>1. config \in Config
    BY ConstantsAssumption DEF TypeOK
  <1>2. now \in Nat
    BY ConstantsAssumption DEF TypeOK, Times
  <1> QED BY <1>1, <1>2 DEF TypeOK, Database, Config

\* What a request was called with.
LEMMA Calling ==
  ASSUME TypeOK, NEW r \in Requests, call[r] # None
  PROVE  /\ call[r] \in Call /\ Named(call[r])
         /\ call[r] \in Calls[config.scenario] /\ Op(r) \in Operations
PROOF
  <1>1. call[r] \in Calls[config.scenario]
    BY DEF TypeOK
  <1>2. call[r] \in Call /\ Named(call[r])
    BY <1>1, Types, ConstantsAssumption
  <1> QED BY <1>1, <1>2 DEF Call, Op

\* What a call names.
LEMMA Naming ==
  ASSUME NEW c \in Call, Named(c)
  PROVE  /\ c.op = "sign-in" => c.who \in Users
         /\ c.op \in PhoneOps => c.who \in Phones
         /\ c.op \in WalletOps => c.who \in Wallets
PROOF
  <1>1. c.op = "sign-in" => c.op \notin PhoneOps \cup WalletOps
    BY DEF PhoneOps, WalletOps
  <1>2. c.op \in PhoneOps => c.op \notin WalletOps
    BY DEF PhoneOps, WalletOps
  <1> QED BY <1>1, <1>2 DEF Named

LEMMA NoneApart ==
  /\ None \notin Requests /\ None \notin Users /\ None \notin Ids
  /\ None \notin Phones /\ None \notin Wallets /\ None \notin Nat
  /\ None \notin UserRow /\ None \notin Call /\ None \notin Rememberable
  /\ None \notin VerificationRow /\ None \notin TwoFactorRow /\ None \notin DeviceRow
  /\ None \notin PasskeyRow /\ None \notin AccountRow /\ None \notin WalletRow
PROOF BY NoneAssumption, Zenon DEF Ids, Rememberable

-----------------------------------------------------------------------------
(* Steps                                                                    *)

\* The step of a handler.
Handle(r) ==
  \/ SharedStep(r) \/ TwoFactorStep(r) \/ PhoneStep(r) \/ WalletStep(r)
  \/ DeviceStep(r) \/ PasskeyStep(r)

\* A handler goes from one place to another, and answers at the end.
Went(r) ==
  /\ UNCHANGED <<config, now, call>>
  /\ pc' = [pc EXCEPT ![r] = pc'[r]]
  /\ mem' = [mem EXCEPT ![r] = mem'[r]]
  /\ answer' = [answer EXCEPT ![r] = answer'[r]]
  /\ IF pc'[r] = "done" THEN mem'[r] = mem[r] ELSE answer'[r] = answer[r]

LEMMA Forms ==
  ASSUME TypeOK, NEW r \in Requests
  PROVE  /\ \A to, user, row : to # "done" /\ Reads(r, to, user, row) => Went(r) /\ db' = db
         /\ Refuse(r) => Went(r) /\ db' = db
         /\ \A to, tables : Writes(r, to, tables) => Went(r) /\ db' = tables
         /\ \A what, tables : Finishes(r, what, tables) => Went(r) /\ db' = tables
PROOF
  <1> USE DEF Goto, Answers, Reads, Refuse, Writes, Finishes, Went
  <1>1. /\ DOMAIN pc = Requests /\ DOMAIN mem = Requests /\ DOMAIN answer = Requests
        /\ mem = [mem EXCEPT ![r] = mem[r]] /\ answer = [answer EXCEPT ![r] = answer[r]]
    BY DEF TypeOK
  <1>2. ASSUME NEW to, NEW user, NEW row, to # "done", Reads(r, to, user, row)
        PROVE  Went(r) /\ db' = db
    BY <1>1, <1>2
  <1>3. ASSUME Refuse(r)
        PROVE  Went(r) /\ db' = db
    BY <1>1, <1>3, SMTT(30)
  <1>4. ASSUME NEW to, NEW tables, Writes(r, to, tables)
        PROVE  Went(r) /\ db' = tables
    BY <1>1, <1>4
  <1>5. ASSUME NEW what, NEW tables, Finishes(r, what, tables)
        PROVE  Went(r) /\ db' = tables
    BY <1>1, <1>5, SMTT(30)
  <1> QED BY <1>2, <1>3, <1>4, <1>5

\* Where each step is taken.
LEMMA Places ==
  ASSUME NEW r
  PROVE
    /\ CreateSession(r) => pc[r] = "session"
    /\ Consume(r) => pc[r] = "consume"
    /\ ClearCodes(r) => pc[r] = "clear"
    /\ MintCode(r) => pc[r] = "mint"
    /\ DropCode(r) => pc[r] = "drop-code"
    /\ CountFailure(r) => pc[r] = "miscount"
    /\ SpendCode(r) => pc[r] = "spend"
    /\ SignIn(r) => pc[r] = "sign-in"
    /\ Intercept(r) => pc[r] = "intercept"
    /\ Rotate(r) => pc[r] = "rotate"
    /\ IssueTrustDevice(r) => pc[r] = "trust"
    /\ TearDown(r) => pc[r] = "tear-down"
    /\ Challenge(r) => pc[r] = "challenge"
    /\ SecondFactor(r) => pc[r] \in {"verify-totp", "verify-otp", "verify-backup", "send-otp"}
    /\ StrikeBackup(r) => pc[r] = "strike"
    /\ RaiseFlag(r) => pc[r] = "flag"
    /\ MarkVerified(r) => pc[r] = "verified"
    /\ Valid(r) => pc[r] = "valid"
    /\ Manage(r) => pc[r] \in {"enable", "disable", "generate-backup"}
    /\ FindExisting(r) => pc[r] = "existing"
    /\ DropFactors(r) => pc[r] \in {"replace", "drop-factor"}
    /\ Enrol(r) => pc[r] = "enrol"
    /\ LowerFlag(r) => pc[r] = "lower"
    /\ RevokeTrust(r) => pc[r] = "revoke"
    /\ RenewBackup(r) => pc[r] = "renew"
    /\ PhoneSignIn(r) => pc[r] = "phone-sign-in"
    /\ PhoneSend(r) => pc[r] \in {"phone-send", "phone-request-reset"}
    /\ PhoneCode(r) => pc[r] \in {"phone-verify", "phone-reset"}
    /\ ResolvePhone(r) => pc[r] = "resolve-phone"
    /\ PhoneSignUp(r) => pc[r] = "sign-up"
    /\ VerifyPhone(r) => pc[r] = "verify-phone"
    /\ PhoneEcho(r) => pc[r] = "echo"
    /\ FindAccount(r) => pc[r] = "find-account"
    /\ SetPassword(r) => pc[r] = "set-password"
    /\ IssueNonce(r) => pc[r] = "siwe-nonce"
    /\ VerifyWallet(r) => pc[r] = "siwe-verify"
    /\ BurnNonce(r) => pc[r] = "burn"
    /\ ResolveWallet(r) => pc[r] = "resolve-wallet"
    /\ WalletUser(r) => pc[r] = "wallet-user"
    /\ WalletRowFor(r) => pc[r] = "wallet-row"
    /\ WalletAccount(r) => pc[r] = "wallet-account"
    /\ DeviceCode(r) => pc[r] = "device-code"
    /\ DeviceToken(r) => pc[r] = "device-token"
    /\ Poll(r) => pc[r] = "poll"
    /\ DropDevice(r) => pc[r] = "drop-device"
    /\ DeviceVerify(r) => pc[r] = "device-verify"
    /\ Claim(r) => pc[r] = "claim"
    /\ SetStatus(r) => pc[r] \in {"device-approve", "device-deny"}
    /\ Decide(r) => pc[r] = "decide"
    /\ PasskeyOptions(r) => pc[r] \in {"passkey-register-options", "passkey-authenticate-options"}
    /\ RegisterPasskey(r) => pc[r] = "passkey-register"
    /\ InsertPasskey(r) => pc[r] = "passkey-row"
    /\ Authenticate(r) => pc[r] = "passkey-authenticate"
    /\ WriteCounter(r) => pc[r] = "counter"
    /\ ManagePasskey(r) => pc[r] \in {"passkey-delete", "passkey-update"}
    /\ DropPasskey(r) => pc[r] = "drop-passkey"
PROOF
  <1>1. /\ CreateSession(r) => pc[r] = "session"
        /\ Consume(r) => pc[r] = "consume"
        /\ ClearCodes(r) => pc[r] = "clear"
        /\ MintCode(r) => pc[r] = "mint"
        /\ DropCode(r) => pc[r] = "drop-code"
        /\ CountFailure(r) => pc[r] = "miscount"
    BY Zenon DEF At, CreateSession, Consume, ClearCodes, MintCode, DropCode, CountFailure
  <1>2. /\ SpendCode(r) => pc[r] = "spend"
    BY Zenon DEF At, SpendCode
  <1>3. /\ SignIn(r) => pc[r] = "sign-in"
        /\ Intercept(r) => pc[r] = "intercept"
        /\ Rotate(r) => pc[r] = "rotate"
        /\ IssueTrustDevice(r) => pc[r] = "trust"
        /\ TearDown(r) => pc[r] = "tear-down"
        /\ Challenge(r) => pc[r] = "challenge"
    BY Zenon DEF At, SignIn, Intercept, Rotate, IssueTrustDevice, TearDown, Challenge
  <1>4. /\ SecondFactor(r) => pc[r] \in {"verify-totp", "verify-otp", "verify-backup", "send-otp"}
        /\ StrikeBackup(r) => pc[r] = "strike"
        /\ RaiseFlag(r) => pc[r] = "flag"
        /\ MarkVerified(r) => pc[r] = "verified"
        /\ Valid(r) => pc[r] = "valid"
        /\ Manage(r) => pc[r] \in {"enable", "disable", "generate-backup"}
    BY Zenon DEF At, SecondFactor, StrikeBackup, RaiseFlag, MarkVerified, Valid, Manage, SecondFactors
  <1>5. /\ FindExisting(r) => pc[r] = "existing"
        /\ DropFactors(r) => pc[r] \in {"replace", "drop-factor"}
        /\ Enrol(r) => pc[r] = "enrol"
        /\ LowerFlag(r) => pc[r] = "lower"
        /\ RevokeTrust(r) => pc[r] = "revoke"
        /\ RenewBackup(r) => pc[r] = "renew"
    BY Zenon DEF At, FindExisting, DropFactors, Enrol, LowerFlag, RevokeTrust, RenewBackup
  <1>6. /\ PhoneSignIn(r) => pc[r] = "phone-sign-in"
        /\ PhoneSend(r) => pc[r] \in {"phone-send", "phone-request-reset"}
        /\ PhoneCode(r) => pc[r] \in {"phone-verify", "phone-reset"}
        /\ ResolvePhone(r) => pc[r] = "resolve-phone"
        /\ PhoneSignUp(r) => pc[r] = "sign-up"
        /\ VerifyPhone(r) => pc[r] = "verify-phone"
    BY Zenon DEF At, PhoneSignIn, PhoneSend, PhoneCode, ResolvePhone, PhoneSignUp, VerifyPhone
  <1>7. /\ PhoneEcho(r) => pc[r] = "echo"
        /\ FindAccount(r) => pc[r] = "find-account"
        /\ SetPassword(r) => pc[r] = "set-password"
    BY Zenon DEF At, PhoneEcho, FindAccount, SetPassword
  <1>8. /\ IssueNonce(r) => pc[r] = "siwe-nonce"
        /\ VerifyWallet(r) => pc[r] = "siwe-verify"
        /\ BurnNonce(r) => pc[r] = "burn"
        /\ ResolveWallet(r) => pc[r] = "resolve-wallet"
        /\ WalletUser(r) => pc[r] = "wallet-user"
        /\ WalletRowFor(r) => pc[r] = "wallet-row"
    BY Zenon DEF At, IssueNonce, VerifyWallet, BurnNonce, ResolveWallet, WalletUser, WalletRowFor
  <1>9. /\ WalletAccount(r) => pc[r] = "wallet-account"
    BY Zenon DEF At, WalletAccount
  <1>10. /\ DeviceCode(r) => pc[r] = "device-code"
         /\ DeviceToken(r) => pc[r] = "device-token"
         /\ Poll(r) => pc[r] = "poll"
         /\ DropDevice(r) => pc[r] = "drop-device"
         /\ DeviceVerify(r) => pc[r] = "device-verify"
         /\ Claim(r) => pc[r] = "claim"
    BY Zenon DEF At, DeviceCode, DeviceToken, Poll, DropDevice, DeviceVerify, Claim
  <1>11. /\ SetStatus(r) => pc[r] \in {"device-approve", "device-deny"}
         /\ Decide(r) => pc[r] = "decide"
    BY Zenon DEF At, SetStatus, Decide
  <1>12. /\ PasskeyOptions(r) => pc[r] \in {"passkey-register-options", "passkey-authenticate-options"}
         /\ RegisterPasskey(r) => pc[r] = "passkey-register"
         /\ InsertPasskey(r) => pc[r] = "passkey-row"
         /\ Authenticate(r) => pc[r] = "passkey-authenticate"
         /\ WriteCounter(r) => pc[r] = "counter"
         /\ ManagePasskey(r) => pc[r] \in {"passkey-delete", "passkey-update"}
    BY Zenon DEF At, PasskeyOptions, RegisterPasskey, InsertPasskey, Authenticate, WriteCounter, ManagePasskey
  <1>13. /\ DropPasskey(r) => pc[r] = "drop-passkey"
    BY Zenon DEF At, DropPasskey
  <1> QED BY <1>1, <1>2, <1>3, <1>4, <1>5, <1>6, <1>7, <1>8, <1>9, <1>10, <1>11, <1>12, <1>13, Zenon

\* Where a handler is says which step it takes next.
LEMMA Where ==
  ASSUME NEW r, Handle(r)
  PROVE
    /\ pc[r] = "session" => CreateSession(r)
    /\ pc[r] = "consume" => Consume(r)
    /\ pc[r] = "clear" => ClearCodes(r)
    /\ pc[r] = "mint" => MintCode(r)
    /\ pc[r] = "drop-code" => DropCode(r)
    /\ pc[r] = "miscount" => CountFailure(r)
    /\ pc[r] = "spend" => SpendCode(r)
    /\ pc[r] = "sign-in" => SignIn(r)
    /\ pc[r] = "intercept" => Intercept(r)
    /\ pc[r] = "rotate" => Rotate(r)
    /\ pc[r] = "trust" => IssueTrustDevice(r)
    /\ pc[r] = "tear-down" => TearDown(r)
    /\ pc[r] = "challenge" => Challenge(r)
    /\ pc[r] = "verify-totp" => SecondFactor(r)
    /\ pc[r] = "verify-otp" => SecondFactor(r)
    /\ pc[r] = "verify-backup" => SecondFactor(r)
    /\ pc[r] = "send-otp" => SecondFactor(r)
    /\ pc[r] = "strike" => StrikeBackup(r)
    /\ pc[r] = "flag" => RaiseFlag(r)
    /\ pc[r] = "verified" => MarkVerified(r)
    /\ pc[r] = "valid" => Valid(r)
    /\ pc[r] = "enable" => Manage(r)
    /\ pc[r] = "disable" => Manage(r)
    /\ pc[r] = "generate-backup" => Manage(r)
    /\ pc[r] = "existing" => FindExisting(r)
    /\ pc[r] = "replace" => DropFactors(r)
    /\ pc[r] = "drop-factor" => DropFactors(r)
    /\ pc[r] = "enrol" => Enrol(r)
    /\ pc[r] = "lower" => LowerFlag(r)
    /\ pc[r] = "revoke" => RevokeTrust(r)
    /\ pc[r] = "renew" => RenewBackup(r)
    /\ pc[r] = "phone-sign-in" => PhoneSignIn(r)
    /\ pc[r] = "phone-send" => PhoneSend(r)
    /\ pc[r] = "phone-request-reset" => PhoneSend(r)
    /\ pc[r] = "phone-verify" => PhoneCode(r)
    /\ pc[r] = "phone-reset" => PhoneCode(r)
    /\ pc[r] = "resolve-phone" => ResolvePhone(r)
    /\ pc[r] = "sign-up" => PhoneSignUp(r)
    /\ pc[r] = "verify-phone" => VerifyPhone(r)
    /\ pc[r] = "echo" => PhoneEcho(r)
    /\ pc[r] = "find-account" => FindAccount(r)
    /\ pc[r] = "set-password" => SetPassword(r)
    /\ pc[r] = "siwe-nonce" => IssueNonce(r)
    /\ pc[r] = "siwe-verify" => VerifyWallet(r)
    /\ pc[r] = "burn" => BurnNonce(r)
    /\ pc[r] = "resolve-wallet" => ResolveWallet(r)
    /\ pc[r] = "wallet-user" => WalletUser(r)
    /\ pc[r] = "wallet-row" => WalletRowFor(r)
    /\ pc[r] = "wallet-account" => WalletAccount(r)
    /\ pc[r] = "device-code" => DeviceCode(r)
    /\ pc[r] = "device-token" => DeviceToken(r)
    /\ pc[r] = "poll" => Poll(r)
    /\ pc[r] = "drop-device" => DropDevice(r)
    /\ pc[r] = "device-verify" => DeviceVerify(r)
    /\ pc[r] = "claim" => Claim(r)
    /\ pc[r] = "device-approve" => SetStatus(r)
    /\ pc[r] = "device-deny" => SetStatus(r)
    /\ pc[r] = "decide" => Decide(r)
    /\ pc[r] = "passkey-register-options" => PasskeyOptions(r)
    /\ pc[r] = "passkey-authenticate-options" => PasskeyOptions(r)
    /\ pc[r] = "passkey-register" => RegisterPasskey(r)
    /\ pc[r] = "passkey-row" => InsertPasskey(r)
    /\ pc[r] = "passkey-authenticate" => Authenticate(r)
    /\ pc[r] = "counter" => WriteCounter(r)
    /\ pc[r] = "passkey-delete" => ManagePasskey(r)
    /\ pc[r] = "passkey-update" => ManagePasskey(r)
    /\ pc[r] = "drop-passkey" => DropPasskey(r)
PROOF
  <1>1. \/ CreateSession(r) \/ Consume(r) \/ ClearCodes(r) \/ MintCode(r)
        \/ DropCode(r) \/ CountFailure(r) \/ SpendCode(r) \/ SignIn(r)
        \/ Intercept(r) \/ Rotate(r) \/ IssueTrustDevice(r) \/ TearDown(r)
        \/ Challenge(r) \/ SecondFactor(r) \/ StrikeBackup(r) \/ RaiseFlag(r)
        \/ MarkVerified(r) \/ Valid(r) \/ Manage(r) \/ FindExisting(r)
        \/ DropFactors(r) \/ Enrol(r) \/ LowerFlag(r) \/ RevokeTrust(r)
        \/ RenewBackup(r) \/ PhoneSignIn(r) \/ PhoneSend(r) \/ PhoneCode(r)
        \/ ResolvePhone(r) \/ PhoneSignUp(r) \/ VerifyPhone(r) \/ PhoneEcho(r)
        \/ FindAccount(r) \/ SetPassword(r) \/ IssueNonce(r) \/ VerifyWallet(r)
        \/ BurnNonce(r) \/ ResolveWallet(r) \/ WalletUser(r) \/ WalletRowFor(r)
        \/ WalletAccount(r) \/ DeviceCode(r) \/ DeviceToken(r) \/ Poll(r)
        \/ DropDevice(r) \/ DeviceVerify(r) \/ Claim(r) \/ SetStatus(r)
        \/ Decide(r) \/ PasskeyOptions(r) \/ RegisterPasskey(r) \/ InsertPasskey(r)
        \/ Authenticate(r) \/ WriteCounter(r) \/ ManagePasskey(r) \/ DropPasskey(r)
    BY Zenon DEF Handle, SharedStep, TwoFactorStep, PhoneStep, WalletStep, DeviceStep, PasskeyStep
  <1>2. /\ pc[r] = "session" => CreateSession(r)
        /\ pc[r] = "consume" => Consume(r)
        /\ pc[r] = "clear" => ClearCodes(r)
        /\ pc[r] = "mint" => MintCode(r)
        /\ pc[r] = "drop-code" => DropCode(r)
        /\ pc[r] = "miscount" => CountFailure(r)
        /\ pc[r] = "spend" => SpendCode(r)
        /\ pc[r] = "sign-in" => SignIn(r)
    BY <1>1, Places, SMT
  <1>3. /\ pc[r] = "intercept" => Intercept(r)
        /\ pc[r] = "rotate" => Rotate(r)
        /\ pc[r] = "trust" => IssueTrustDevice(r)
        /\ pc[r] = "tear-down" => TearDown(r)
        /\ pc[r] = "challenge" => Challenge(r)
        /\ pc[r] = "verify-totp" => SecondFactor(r)
        /\ pc[r] = "verify-otp" => SecondFactor(r)
        /\ pc[r] = "verify-backup" => SecondFactor(r)
    BY <1>1, Places, SMT
  <1>4. /\ pc[r] = "send-otp" => SecondFactor(r)
        /\ pc[r] = "strike" => StrikeBackup(r)
        /\ pc[r] = "flag" => RaiseFlag(r)
        /\ pc[r] = "verified" => MarkVerified(r)
        /\ pc[r] = "valid" => Valid(r)
        /\ pc[r] = "enable" => Manage(r)
        /\ pc[r] = "disable" => Manage(r)
        /\ pc[r] = "generate-backup" => Manage(r)
    BY <1>1, Places, SMT
  <1>5. /\ pc[r] = "existing" => FindExisting(r)
        /\ pc[r] = "replace" => DropFactors(r)
        /\ pc[r] = "drop-factor" => DropFactors(r)
        /\ pc[r] = "enrol" => Enrol(r)
        /\ pc[r] = "lower" => LowerFlag(r)
        /\ pc[r] = "revoke" => RevokeTrust(r)
        /\ pc[r] = "renew" => RenewBackup(r)
        /\ pc[r] = "phone-sign-in" => PhoneSignIn(r)
    BY <1>1, Places, SMT
  <1>6. /\ pc[r] = "phone-send" => PhoneSend(r)
        /\ pc[r] = "phone-request-reset" => PhoneSend(r)
        /\ pc[r] = "phone-verify" => PhoneCode(r)
        /\ pc[r] = "phone-reset" => PhoneCode(r)
        /\ pc[r] = "resolve-phone" => ResolvePhone(r)
        /\ pc[r] = "sign-up" => PhoneSignUp(r)
        /\ pc[r] = "verify-phone" => VerifyPhone(r)
        /\ pc[r] = "echo" => PhoneEcho(r)
    BY <1>1, Places, SMT
  <1>7. /\ pc[r] = "find-account" => FindAccount(r)
        /\ pc[r] = "set-password" => SetPassword(r)
        /\ pc[r] = "siwe-nonce" => IssueNonce(r)
        /\ pc[r] = "siwe-verify" => VerifyWallet(r)
        /\ pc[r] = "burn" => BurnNonce(r)
        /\ pc[r] = "resolve-wallet" => ResolveWallet(r)
        /\ pc[r] = "wallet-user" => WalletUser(r)
        /\ pc[r] = "wallet-row" => WalletRowFor(r)
    BY <1>1, Places, SMT
  <1>8. /\ pc[r] = "wallet-account" => WalletAccount(r)
        /\ pc[r] = "device-code" => DeviceCode(r)
        /\ pc[r] = "device-token" => DeviceToken(r)
        /\ pc[r] = "poll" => Poll(r)
        /\ pc[r] = "drop-device" => DropDevice(r)
        /\ pc[r] = "device-verify" => DeviceVerify(r)
        /\ pc[r] = "claim" => Claim(r)
        /\ pc[r] = "device-approve" => SetStatus(r)
    BY <1>1, Places, SMT
  <1>9. /\ pc[r] = "device-deny" => SetStatus(r)
        /\ pc[r] = "decide" => Decide(r)
        /\ pc[r] = "passkey-register-options" => PasskeyOptions(r)
        /\ pc[r] = "passkey-authenticate-options" => PasskeyOptions(r)
        /\ pc[r] = "passkey-register" => RegisterPasskey(r)
        /\ pc[r] = "passkey-row" => InsertPasskey(r)
        /\ pc[r] = "passkey-authenticate" => Authenticate(r)
        /\ pc[r] = "counter" => WriteCounter(r)
    BY <1>1, Places, SMT
  <1>10. /\ pc[r] = "passkey-delete" => ManagePasskey(r)
         /\ pc[r] = "passkey-update" => ManagePasskey(r)
         /\ pc[r] = "drop-passkey" => DropPasskey(r)
    BY <1>1, Places, SMT
  <1> QED BY <1>2, <1>3, <1>4, <1>5, <1>6, <1>7, <1>8, <1>9, <1>10, Zenon

\* A handler moves on by itself, and only while it has the turn.
LEMMA Moves ==
  ASSUME TypeOK, HandlersOK, NEW r \in Requests, Handle(r)
  PROVE  Scheduled(r) /\ Went(r)
PROOF
  <1> USE DEF At
  <1>1. RouteOK(r)
    BY DEF HandlersOK, HandlerOK
  <1>2. CASE CreateSession(r)
    BY <1>2, Forms, SMT DEF CreateSession
  <1>3. CASE Consume(r)
    BY <1>3, Forms, SMT DEF Consume
  <1>4. CASE ClearCodes(r)
    BY <1>4, Forms, SMT DEF ClearCodes
  <1>5. CASE MintCode(r)
    BY <1>5, Forms, SMT DEF MintCode
  <1>6. CASE DropCode(r)
    BY <1>6, Forms, SMT DEF DropCode
  <1>7. CASE CountFailure(r)
    BY <1>7, Forms, SMT DEF CountFailure
  <1>8. CASE SpendCode(r)
    BY <1>8, <1>1, Forms, SMT DEF SpendCode, AfterSpending, RouteOK, CodeSpenders
  <1>9. CASE SignIn(r)
    BY <1>9, Forms, SMT DEF SignIn
  <1>10. CASE Intercept(r)
    BY <1>10, Forms, SMT DEF Intercept
  <1>11. CASE Rotate(r)
    BY <1>11, Forms, SMT DEF Rotate
  <1>12. CASE IssueTrustDevice(r)
    BY <1>12, Forms, SMT DEF IssueTrustDevice
  <1>13. CASE TearDown(r)
    BY <1>13, Forms, SMT DEF TearDown
  <1>14. CASE Challenge(r)
    BY <1>14, Forms, SMT DEF Challenge
  <1>15. CASE SecondFactor(r)
    <2>1. Op(r) = pc[r] /\ pc[r] \in {"verify-totp", "verify-otp", "verify-backup", "send-otp"}
      BY <1>15, <1>1, Places, Zenon DEF RouteOK, Operations, SecondFactors
    <2>2. CASE Op(r) = "verify-totp"
      BY <1>15, <2>2, Forms, SMT DEF SecondFactor, VerifyTotpOf
    <2>3. CASE Op(r) = "verify-otp"
      BY <1>15, <2>3, Forms, SMT DEF SecondFactor, CheckCode
    <2>4. CASE Op(r) = "verify-backup"
      BY <1>15, <2>4, Forms, SMT DEF SecondFactor, VerifyBackupOf
    <2>5. CASE Op(r) = "send-otp"
      BY <1>15, <2>5, Forms, SMT DEF SecondFactor
    <2> QED BY <2>1, <2>2, <2>3, <2>4, <2>5, Zenon
  <1>16. CASE StrikeBackup(r)
    BY <1>16, Forms, SMT DEF StrikeBackup
  <1>17. CASE RaiseFlag(r)
    BY <1>17, <1>1, Forms, SMT DEF RaiseFlag, SetFlag, RouteOK, CodeSpenders
  <1>18. CASE MarkVerified(r)
    BY <1>18, Forms, SMT DEF MarkVerified
  <1>19. CASE Valid(r)
    BY <1>19, Forms, SMT DEF Valid, Goto, Went, TypeOK
  <1>20. CASE Manage(r)
    <2>1. Op(r) = pc[r] /\ pc[r] \in {"enable", "disable", "generate-backup"}
      BY <1>20, <1>1, Places, Zenon DEF RouteOK, Operations, SecondFactors
    <2>2. CASE Op(r) = "enable"
      BY <1>20, <2>2, Forms, SMT DEF Manage
    <2>3. CASE Op(r) = "disable"
      BY <1>20, <2>3, Forms, SMT DEF Manage
    <2>4. CASE Op(r) = "generate-backup"
      BY <1>20, <2>4, Forms, SMT DEF Manage
    <2> QED BY <2>1, <2>2, <2>3, <2>4, Zenon
  <1>21. CASE FindExisting(r)
    BY <1>21, Forms, SMT DEF FindExisting
  <1>22. CASE DropFactors(r)
    BY <1>22, Forms, SMT DEF DropFactors
  <1>23. CASE Enrol(r)
    BY <1>23, Forms, SMT DEF Enrol
  <1>24. CASE LowerFlag(r)
    BY <1>24, Forms, SMT DEF LowerFlag, SetFlag
  <1>25. CASE RevokeTrust(r)
    BY <1>25, Forms, SMT DEF RevokeTrust
  <1>26. CASE RenewBackup(r)
    BY <1>26, Forms, SMT DEF RenewBackup
  <1>27. CASE PhoneSignIn(r)
    BY <1>27, Forms, SMT DEF PhoneSignIn
  <1>28. CASE PhoneSend(r)
    BY <1>28, Forms, SMT DEF PhoneSend
  <1>29. CASE PhoneCode(r)
    BY <1>29, Forms, SMT DEF PhoneCode, CheckCode
  <1>30. CASE ResolvePhone(r)
    BY <1>30, Forms, SMT DEF ResolvePhone, AfterPhone
  <1>31. CASE PhoneSignUp(r)
    BY <1>31, Forms, SMT DEF PhoneSignUp, AfterPhone, Goto, Went, TypeOK
  <1>32. CASE VerifyPhone(r)
    BY <1>32, Forms, SMT DEF VerifyPhone, AfterPhone
  <1>33. CASE PhoneEcho(r)
    BY <1>33, Forms, SMT DEF PhoneEcho
  <1>34. CASE FindAccount(r)
    BY <1>34, Forms, SMT DEF FindAccount
  <1>35. CASE SetPassword(r)
    BY <1>35, Forms, SMT DEF SetPassword
  <1>36. CASE IssueNonce(r)
    BY <1>36, Forms, SMT DEF IssueNonce
  <1>37. CASE VerifyWallet(r)
    BY <1>37, Forms, SMT DEF VerifyWallet
  <1>38. CASE BurnNonce(r)
    BY <1>38, Forms, SMT DEF BurnNonce
  <1>39. CASE ResolveWallet(r)
    BY <1>39, Forms, SMT DEF ResolveWallet
  <1>40. CASE WalletUser(r)
    BY <1>40, Forms, SMT DEF WalletUser, Goto, Went, TypeOK
  <1>41. CASE WalletRowFor(r)
    BY <1>41, Forms, SMT DEF WalletRowFor
  <1>42. CASE WalletAccount(r)
    BY <1>42, Forms, SMT DEF WalletAccount
  <1>43. CASE DeviceCode(r)
    BY <1>43, Forms, SMT DEF DeviceCode
  <1>44. CASE DeviceToken(r)
    BY <1>44, Forms, SMT DEF DeviceToken
  <1>45. CASE Poll(r)
    BY <1>45, Forms, SMT DEF Poll
  <1>46. CASE DropDevice(r)
    BY <1>46, Forms, SMT DEF DropDevice
  <1>47. CASE DeviceVerify(r)
    BY <1>47, Forms, SMT DEF DeviceVerify
  <1>48. CASE Claim(r)
    BY <1>48, Forms, SMT DEF Claim
  <1>49. CASE SetStatus(r)
    BY <1>49, Forms, SMT DEF SetStatus
  <1>50. CASE Decide(r)
    BY <1>50, Forms, SMT DEF Decide
  <1>51. CASE PasskeyOptions(r)
    BY <1>51, Forms, SMT DEF PasskeyOptions, Refuse, Finishes
  <1>52. CASE RegisterPasskey(r)
    BY <1>52, Forms, SMT DEF RegisterPasskey
  <1>53. CASE InsertPasskey(r)
    BY <1>53, Forms, SMT DEF InsertPasskey
  <1>54. CASE Authenticate(r)
    BY <1>54, Forms, SMT DEF Authenticate
  <1>55. CASE WriteCounter(r)
    BY <1>55, Forms, SMT DEF WriteCounter
  <1>56. CASE ManagePasskey(r)
    BY <1>56, Forms, SMT DEF ManagePasskey
  <1>57. CASE DropPasskey(r)
    BY <1>57, Forms, SMT DEF DropPasskey
  <1> QED BY <1>2, <1>3, <1>4, <1>5, <1>6, <1>7, <1>8, <1>9, <1>10, <1>11, <1>12, <1>13, <1>14,
             <1>15, <1>16, <1>17, <1>18, <1>19, <1>20, <1>21, <1>22, <1>23, <1>24, <1>25, <1>26,
             <1>27, <1>28, <1>29, <1>30, <1>31, <1>32, <1>33, <1>34, <1>35, <1>36, <1>37, <1>38,
             <1>39, <1>40, <1>41, <1>42, <1>43, <1>44, <1>45, <1>46, <1>47, <1>48, <1>49, <1>50,
             <1>51, <1>52, <1>53, <1>54, <1>55, <1>56, <1>57, Zenon DEF Handle, SharedStep, TwoFactorStep, PhoneStep, WalletStep, DeviceStep, PasskeyStep

-----------------------------------------------------------------------------
(* Tables                                                                   *)

\* The steps that read only.
Reading(r) ==
  \/ SignIn(r) \/ Intercept(r) \/ SecondFactor(r) \/ Valid(r)
  \/ Manage(r) \/ FindExisting(r) \/ PhoneSignIn(r) \/ PhoneSend(r)
  \/ PhoneCode(r) \/ ResolvePhone(r) \/ PhoneEcho(r) \/ FindAccount(r)
  \/ VerifyWallet(r) \/ ResolveWallet(r) \/ DeviceToken(r) \/ DeviceVerify(r)
  \/ SetStatus(r) \/ RegisterPasskey(r) \/ Authenticate(r) \/ ManagePasskey(r)

\* A step leaves the tables alone, or all but t.
Keeps(t) ==
  /\ db' = [db EXCEPT ![t] = db'[t]]
  /\ t # "user" => db'.user = db.user
  /\ t # "session" => db'.session = db.session
  /\ t # "verification" => db'.verification = db.verification
  /\ t # "twoFactor" => db'.twoFactor = db.twoFactor
  /\ t # "passkey" => db'.passkey = db.passkey
  /\ t # "wallet" => db'.wallet = db.wallet
  /\ t # "account" => db'.account = db.account
  /\ t # "device" => db'.device = db.device

LEMMA ReadingOnly ==
  ASSUME TypeOK, HandlersOK, NEW r \in Requests, Reading(r)
  PROVE  db' = db
PROOF
  <1> USE DEF At
  <1>1. RouteOK(r)
    BY DEF HandlersOK, HandlerOK
  <1>2. CASE SignIn(r)
    BY <1>2, Forms, SMT DEF SignIn
  <1>3. CASE Intercept(r)
    BY <1>3, Forms, SMT DEF Intercept
  <1>4. CASE SecondFactor(r)
    <2>1. Op(r) = pc[r] /\ pc[r] \in {"verify-totp", "verify-otp", "verify-backup", "send-otp"}
      BY <1>4, <1>1, Places, Zenon DEF RouteOK, Operations, SecondFactors
    <2>2. CASE Op(r) = "verify-totp"
      BY <1>4, <2>2, Forms, SMT DEF SecondFactor, VerifyTotpOf
    <2>3. CASE Op(r) = "verify-otp"
      BY <1>4, <2>3, Forms, SMT DEF SecondFactor, CheckCode
    <2>4. CASE Op(r) = "verify-backup"
      BY <1>4, <2>4, Forms, SMT DEF SecondFactor, VerifyBackupOf
    <2>5. CASE Op(r) = "send-otp"
      BY <1>4, <2>5, Forms, SMT DEF SecondFactor
    <2> QED BY <2>1, <2>2, <2>3, <2>4, <2>5, Zenon
  <1>5. CASE Valid(r)
    BY <1>5, Forms, SMT DEF Valid
  <1>6. CASE Manage(r)
    <2>1. Op(r) = pc[r] /\ pc[r] \in {"enable", "disable", "generate-backup"}
      BY <1>6, <1>1, Places, Zenon DEF RouteOK, Operations, SecondFactors
    <2>2. CASE Op(r) = "enable"
      BY <1>6, <2>2, Forms, SMT DEF Manage
    <2>3. CASE Op(r) = "disable"
      BY <1>6, <2>3, Forms, SMT DEF Manage
    <2>4. CASE Op(r) = "generate-backup"
      BY <1>6, <2>4, Forms, SMT DEF Manage
    <2> QED BY <2>1, <2>2, <2>3, <2>4, Zenon
  <1>7. CASE FindExisting(r)
    BY <1>7, Forms, SMT DEF FindExisting
  <1>8. CASE PhoneSignIn(r)
    BY <1>8, Forms, SMT DEF PhoneSignIn
  <1>9. CASE PhoneSend(r)
    BY <1>9, Forms, SMT DEF PhoneSend
  <1>10. CASE PhoneCode(r)
    BY <1>10, Forms, SMT DEF PhoneCode, CheckCode
  <1>11. CASE ResolvePhone(r)
    BY <1>11, Forms, SMT DEF ResolvePhone, AfterPhone
  <1>12. CASE PhoneEcho(r)
    BY <1>12, Forms, SMT DEF PhoneEcho
  <1>13. CASE FindAccount(r)
    BY <1>13, Forms, SMT DEF FindAccount
  <1>14. CASE VerifyWallet(r)
    BY <1>14, Forms, SMT DEF VerifyWallet
  <1>15. CASE ResolveWallet(r)
    BY <1>15, Forms, SMT DEF ResolveWallet
  <1>16. CASE DeviceToken(r)
    BY <1>16, Forms, SMT DEF DeviceToken
  <1>17. CASE DeviceVerify(r)
    BY <1>17, Forms, SMT DEF DeviceVerify
  <1>18. CASE SetStatus(r)
    BY <1>18, Forms, SMT DEF SetStatus
  <1>19. CASE RegisterPasskey(r)
    BY <1>19, Forms, SMT DEF RegisterPasskey
  <1>20. CASE Authenticate(r)
    BY <1>20, Forms, SMT DEF Authenticate
  <1>21. CASE ManagePasskey(r)
    BY <1>21, Forms, SMT DEF ManagePasskey
  <1> QED BY <1>2, <1>3, <1>4, <1>5, <1>6, <1>7, <1>8, <1>9, <1>10, <1>11, <1>12, <1>13,
             <1>14, <1>15, <1>16, <1>17, <1>18, <1>19, <1>20, <1>21, Zenon DEF Reading

\* Which table a step of a handler writes.
LEMMA Writing ==
  ASSUME TypeOK, HandlersOK, NEW r \in Requests, Handle(r)
  PROVE  \/ db' = db /\ Reading(r)
         \/ /\ Keeps("user")
            /\ \/ RaiseFlag(r) \/ LowerFlag(r) \/ PhoneSignUp(r) \/ VerifyPhone(r)
               \/ WalletUser(r)
         \/ Keeps("session") /\ (CreateSession(r) \/ TearDown(r))
         \/ /\ Keeps("verification")
            /\ \/ Consume(r) \/ ClearCodes(r) \/ MintCode(r) \/ DropCode(r)
               \/ CountFailure(r) \/ SpendCode(r) \/ Rotate(r) \/ IssueTrustDevice(r)
               \/ Challenge(r) \/ RevokeTrust(r) \/ IssueNonce(r) \/ BurnNonce(r)
               \/ PasskeyOptions(r)
         \/ /\ Keeps("twoFactor")
            /\ \/ StrikeBackup(r) \/ MarkVerified(r) \/ DropFactors(r) \/ Enrol(r)
               \/ RenewBackup(r)
         \/ Keeps("passkey") /\ (InsertPasskey(r) \/ WriteCounter(r) \/ DropPasskey(r))
         \/ Keeps("wallet") /\ WalletRowFor(r)
         \/ Keeps("account") /\ (SetPassword(r) \/ WalletAccount(r))
         \/ /\ Keeps("device")
            /\ \/ DeviceCode(r) \/ Poll(r) \/ DropDevice(r) \/ Claim(r)
               \/ Decide(r)
PROOF
  <1>0. /\ DOMAIN db = {"user", "session", "verification", "twoFactor", "passkey", "wallet", "account", "device"}
        /\ db = [t \in DOMAIN db |-> db[t]]
    BY DEF TypeOK, Database
  <1>1. ASSUME RaiseFlag(r)
        PROVE  Keeps("user")
    <2>1. db' = [db EXCEPT !.user[User(r)].twoFactor = TRUE]
      BY <1>1, Zenon DEF RaiseFlag, SetFlag, Writes
    <2> QED BY <1>0, <2>1 DEF Keeps
  <1>2. ASSUME LowerFlag(r)
        PROVE  Keeps("user")
    BY <1>0, <1>2, Forms, SMT DEF LowerFlag, SetFlag, Keeps
  <1>3. ASSUME PhoneSignUp(r)
        PROVE  Keeps("user")
    <2>1. CASE Refuse(r)
      BY <1>0, <2>1, Forms DEF Keeps
    <2>2. CASE ~Refuse(r)
      <3>1. db' = [db EXCEPT !.user[r] = [twoFactor |-> FALSE, phone |-> call[r].who, phoneVerified |-> TRUE]]
        BY <1>3, <2>2 DEF PhoneSignUp
      <3> QED BY <1>0, <3>1 DEF Keeps
    <2> QED BY <2>1, <2>2
  <1>4. ASSUME VerifyPhone(r)
        PROVE  Keeps("user")
    BY <1>0, <1>4, Forms, SMT DEF VerifyPhone, Keeps
  <1>5. ASSUME WalletUser(r)
        PROVE  Keeps("user")
    <2>1. CASE Refuse(r)
      BY <1>0, <2>1, Forms DEF Keeps
    <2>2. CASE ~Refuse(r)
      <3>1. db' = [db EXCEPT !.user[r] = [twoFactor |-> FALSE, phone |-> None, phoneVerified |-> FALSE]]
        BY <1>5, <2>2 DEF WalletUser
      <3> QED BY <1>0, <3>1 DEF Keeps
    <2> QED BY <2>1, <2>2
  <1>6. ASSUME CreateSession(r)
        PROVE  Keeps("session")
    BY <1>0, <1>6, Forms, SMT DEF CreateSession, Keeps
  <1>7. ASSUME TearDown(r)
        PROVE  Keeps("session")
    BY <1>0, <1>7, Forms, SMT DEF TearDown, Keeps
  <1>8. ASSUME Consume(r)
        PROVE  Keeps("verification")
    BY <1>0, <1>8, Forms, SMT DEF Consume, Keeps
  <1>9. ASSUME ClearCodes(r)
        PROVE  Keeps("verification")
    BY <1>0, <1>9, Forms, SMT DEF ClearCodes, Keeps
  <1>10. ASSUME MintCode(r)
        PROVE  Keeps("verification")
    BY <1>0, <1>10, Forms, SMT DEF MintCode, Keeps
  <1>11. ASSUME DropCode(r)
        PROVE  Keeps("verification")
    BY <1>0, <1>11, Forms, SMT DEF DropCode, Keeps
  <1>12. ASSUME CountFailure(r)
        PROVE  Keeps("verification")
    <2>1. PICK hit \in Matched(Rows(Purpose(r))) :
            db' = [db EXCEPT !.verification =
              (@ \ hit) \cup {[v EXCEPT !.tries = mem[r].row.tries + 1] : v \in hit}]
      BY <1>12, Zenon DEF CountFailure, Finishes
    <2> DEFINE written == {[v EXCEPT !.tries = mem[r].row.tries + 1] : v \in hit}
    <2>2. db' = [db EXCEPT !.verification = (@ \ hit) \cup written]
      BY <2>1
    <2> HIDE DEF written
    <2> QED BY <1>0, <2>2 DEF Keeps
  <1>13. ASSUME SpendCode(r)
        PROVE  Keeps("verification")
    BY <1>0, <1>13, Forms, SMT DEF SpendCode, Keeps
  <1>14. ASSUME Rotate(r)
        PROVE  Keeps("verification")
    BY <1>0, <1>14, Forms, SMT DEF Rotate, Keeps
  <1>15. ASSUME IssueTrustDevice(r)
        PROVE  Keeps("verification")
    BY <1>0, <1>15, Forms, SMT DEF IssueTrustDevice, Keeps
  <1>16. ASSUME Challenge(r)
        PROVE  Keeps("verification")
    BY <1>0, <1>16, Forms, SMT DEF Challenge, Keeps
  <1>17. ASSUME RevokeTrust(r)
        PROVE  Keeps("verification")
    BY <1>0, <1>17, Forms, SMT DEF RevokeTrust, Keeps
  <1>18. ASSUME IssueNonce(r)
        PROVE  Keeps("verification")
    BY <1>0, <1>18, Forms, SMT DEF IssueNonce, Keeps
  <1>19. ASSUME BurnNonce(r)
        PROVE  Keeps("verification")
    <2>1. PICK hit : db' = [db EXCEPT !.verification = @ \ hit]
      BY <1>19, Zenon DEF BurnNonce, Writes
    <2> QED BY <1>0, <2>1 DEF Keeps
  <1>20. ASSUME PasskeyOptions(r)
        PROVE  Keeps("verification")
    <2>1. CASE Refuse(r)
      BY <1>0, <2>1, Forms DEF Keeps
    <2>2. CASE ~Refuse(r)
      <3>1. PICK user : db' = [db EXCEPT !.verification = @ \cup {NewRow(r, <<"passkey", r>>, user)}]
        BY <1>20, <2>2, Zenon DEF PasskeyOptions, Finishes
      <3> QED BY <1>0, <3>1 DEF Keeps
    <2> QED BY <2>1, <2>2
  <1>21. ASSUME StrikeBackup(r)
        PROVE  Keeps("twoFactor")
    BY <1>0, <1>21, Forms, SMT DEF StrikeBackup, UpdateFactor, Keeps
  <1>22. ASSUME MarkVerified(r)
        PROVE  Keeps("twoFactor")
    BY <1>0, <1>22, Forms, SMT DEF MarkVerified, UpdateFactor, Keeps
  <1>23. ASSUME DropFactors(r)
        PROVE  Keeps("twoFactor")
    BY <1>0, <1>23, Forms, SMT DEF DropFactors, Keeps
  <1>24. ASSUME Enrol(r)
        PROVE  Keeps("twoFactor")
    BY <1>0, <1>24, Forms, SMT DEF Enrol, Keeps
  <1>25. ASSUME RenewBackup(r)
        PROVE  Keeps("twoFactor")
    BY <1>0, <1>25, Forms, SMT DEF RenewBackup, UpdateFactor, Keeps
  <1>26. ASSUME InsertPasskey(r)
        PROVE  Keeps("passkey")
    BY <1>0, <1>26, Forms, SMT DEF InsertPasskey, Keeps
  <1>27. ASSUME WriteCounter(r)
        PROVE  Keeps("passkey")
    BY <1>0, <1>27, Forms, SMT DEF WriteCounter, Keeps
  <1>28. ASSUME DropPasskey(r)
        PROVE  Keeps("passkey")
    BY <1>0, <1>28, Forms, SMT DEF DropPasskey, Keeps
  <1>29. ASSUME WalletRowFor(r)
        PROVE  Keeps("wallet")
    BY <1>0, <1>29, Forms, SMT DEF WalletRowFor, Keeps
  <1>30. ASSUME SetPassword(r)
        PROVE  Keeps("account")
    BY <1>0, <1>30, Forms, SMT DEF SetPassword, Keeps
  <1>31. ASSUME WalletAccount(r)
        PROVE  Keeps("account")
    BY <1>0, <1>31, Forms, SMT DEF WalletAccount, Keeps
  <1>32. ASSUME DeviceCode(r)
        PROVE  Keeps("device")
    BY <1>0, <1>32, Forms, SMT DEF DeviceCode, Keeps
  <1>33. ASSUME Poll(r)
        PROVE  Keeps("device")
    BY <1>0, <1>33, Forms, SMT DEF Poll, UpdateDevice, Keeps
  <1>34. ASSUME DropDevice(r)
        PROVE  Keeps("device")
    BY <1>0, <1>34, Forms, SMT DEF DropDevice, Keeps
  <1>35. ASSUME Claim(r)
        PROVE  Keeps("device")
    BY <1>0, <1>35, Forms, SMT DEF Claim, UpdateDevice, Keeps
  <1>36. ASSUME Decide(r)
        PROVE  Keeps("device")
    <2> DEFINE written == {IF d.id = call[r].device THEN Decided(r, d) ELSE d : d \in db.device}
    <2>1. db' = [db EXCEPT !.device = written]
      BY <1>0, <1>36 DEF Decide, Finishes, UpdateDevice
    <2> HIDE DEF written
    <2> QED BY <1>0, <2>1 DEF Keeps
  <1> QED
    BY <1>1, <1>2, <1>3, <1>4, <1>5, <1>6, <1>7, <1>8, <1>9, <1>10, <1>11, <1>12, <1>13,
       <1>14, <1>15, <1>16, <1>17, <1>18, <1>19, <1>20, <1>21, <1>22, <1>23, <1>24, <1>25,
       <1>26, <1>27, <1>28, <1>29, <1>30, <1>31, <1>32, <1>33, <1>34, <1>35, <1>36,
       ReadingOnly,
       ZenonT(30) DEF Handle, Reading, SharedStep, TwoFactorStep, PhoneStep, WalletStep, DeviceStep, PasskeyStep

\* What a step of r leaves as it is.
LEMMA OthersStay ==
  ASSUME TypeOK, HandlersOK, NEW r \in Requests, Handle(r)
  PROVE  /\ \A q \in Requests \ {r} :
              pc'[q] = pc[q] /\ mem'[q] = mem[q] /\ answer'[q] = answer[q]
         /\ call' = call /\ config' = config /\ now' = now
         /\ pc'[r] # "done" => answer'[r] = answer[r]
         /\ pc[r] \notin {"idle", "done"} /\ Scheduled(r)
PROOF
  <1>1. Scheduled(r) /\ Went(r)
    BY Moves
  <1>2. pc[r] \notin {"idle", "done"}
    <2>1. pc[r] \notin {"idle"}
      BY Places, SMTT(30) DEF Handle, SharedStep, TwoFactorStep, PhoneStep, WalletStep, DeviceStep,
         PasskeyStep
    <2>2. pc[r] \notin {"done"}
      BY Places, SMTT(30) DEF Handle, SharedStep, TwoFactorStep, PhoneStep, WalletStep, DeviceStep,
         PasskeyStep
    <2> QED BY <2>1, <2>2
  <1>3. /\ DOMAIN pc = Requests /\ DOMAIN mem = Requests /\ DOMAIN answer = Requests
    BY DEF TypeOK
  <1> QED BY <1>1, <1>2, <1>3 DEF Went

\* How the tables change.
SessionMove(r) ==
  \/ pc[r] \notin {"session", "tear-down"} /\ db'.session = db.session
  \/ pc[r] = "session" /\ db'.session = db.session \cup {[id |-> r, user |-> User(r)]}
  \/ pc[r] = "tear-down" /\ db'.session = {s \in db.session : s.id # r}

LEMMA SessionTable ==
  ASSUME TypeOK, HandlersOK, NEW r \in Requests, Handle(r)
  PROVE  SessionMove(r)
PROOF
  <1>0. "session" \in DOMAIN db
    BY DEF TypeOK, Database
  <1>1. CASE CreateSession(r)
    BY <1>0, <1>1, Forms, SMT DEF CreateSession, SessionMove, At
  <1>2. CASE TearDown(r)
    BY <1>0, <1>2, Forms, SMT DEF TearDown, SessionMove, At
  <1>3. CASE ~CreateSession(r) /\ ~TearDown(r)
    <2>1. pc[r] \notin {"session", "tear-down"}
      BY <1>3, Where
    <2>2. db'.session = db.session
      BY <1>3, Writing, SMTT(30) DEF Keeps
    <2> QED BY <2>1, <2>2 DEF SessionMove
  <1> QED BY <1>1, <1>2, <1>3

UserMove(r) ==
  /\ db'.user \in [Ids -> UserRow \cup {None}]
  /\ \A u \in Ids : db.user[u] # None =>
       /\ db'.user[u] # None /\ db'.user[u].phone = db.user[u].phone
       /\ \/ db'.user[u].twoFactor = db.user[u].twoFactor
          \/ u = User(r) /\ pc[r] = "flag" /\ db'.user[u].twoFactor
          \/ u = User(r) /\ pc[r] = "lower" /\ ~db'.user[u].twoFactor
  /\ \A u \in Ids : db.user[u] = None /\ db'.user[u] # None =>
       /\ u = r /\ ~db'.user[u].twoFactor /\ mem'[r].user = r
       /\ \/ pc[r] = "sign-up" /\ pc'[r] \in {"echo", "session"} /\ db'.user[u].phone = call[r].who
          \/ pc[r] = "wallet-user" /\ pc'[r] = "wallet-row" /\ db'.user[u].phone = None

\* What a write to a user does to the table.
LEMMA UserEdits ==
  ASSUME TypeOK, NEW u \in Ids, db.user[u] # None
  PROVE  /\ \A on \in BOOLEAN : [db EXCEPT !.user[u].twoFactor = on].user =
              [db.user EXCEPT ![u] = [db.user[u] EXCEPT !.twoFactor = on]]
         /\ [db EXCEPT !.user[u].phoneVerified = TRUE].user =
              [db.user EXCEPT ![u] = [db.user[u] EXCEPT !.phoneVerified = TRUE]]
         /\ db.user[u] \in UserRow
PROOF
  <1>1. "user" \in DOMAIN db /\ db.user \in [Ids -> UserRow \cup {None}]
    BY DEF TypeOK, Database
  <1> QED BY <1>1

LEMMA UserTable ==
  ASSUME TypeOK, HandlersOK, UsersOK, NEW r \in Requests, Handle(r)
  PROVE  UserMove(r)
PROOF
  <1>0. /\ "user" \in DOMAIN db /\ db.user \in [Ids -> UserRow \cup {None}] /\ r \in Ids
        /\ mem \in [Requests -> [user : Ids \cup {None}, row : Rememberable \cup {None},
                                 enrolled : BOOLEAN]]
        /\ DOMAIN pc = Requests
    BY DEF TypeOK, Database, Ids
  <1>1. pc[r] \in Identified => User(r) \in Ids /\ db.user[User(r)] # None
    BY DEF HandlersOK, HandlerOK, UserFound, Known
  <1>2. db'.user = db.user => UserMove(r)
    BY <1>0 DEF UserMove
  <1>10. ASSUME NEW row \in UserRow, pc[r] \in Identified,
                db'.user = [db.user EXCEPT ![User(r)] = row],
                row.phone = db.user[User(r)].phone,
                \/ row.twoFactor = db.user[User(r)].twoFactor
                \/ pc[r] = "flag" /\ row.twoFactor
                \/ pc[r] = "lower" /\ ~row.twoFactor
         PROVE  UserMove(r)
    BY <1>0, <1>1, <1>10, NoneApart DEF UserMove
  <1>3. ASSUME pc[r] \in {"flag", "lower"}, pc[r] \in Identified,
               db' = SetFlag(User(r), pc[r] = "flag")
        PROVE  UserMove(r)
    <2>1. (pc[r] = "flag") \in BOOLEAN
      OBVIOUS
    <2>2. db'.user = [db.user EXCEPT ![User(r)] =
                        [db.user[User(r)] EXCEPT !.twoFactor = (pc[r] = "flag")]]
      BY <1>1, <1>3, <2>1, UserEdits DEF SetFlag
    <2>3. db.user[User(r)] \in UserRow
      BY <1>1, <1>3, UserEdits
    <2> DEFINE row == [db.user[User(r)] EXCEPT !.twoFactor = (pc[r] = "flag")]
    <2>4. /\ row \in UserRow /\ row.phone = db.user[User(r)].phone
          /\ row.twoFactor = (pc[r] = "flag")
      BY <2>1, <2>3 DEF UserRow
    <2> HIDE DEF row
    <2>5. db'.user = [db.user EXCEPT ![User(r)] = row]
      BY <2>2 DEF row
    <2> QED BY <1>3, <1>10, <2>4, <2>5
  <1>4. CASE RaiseFlag(r)
    <2>1. pc[r] = "flag" /\ db' = SetFlag(User(r), TRUE)
      BY <1>4 DEF RaiseFlag, At, Writes
    <2> QED BY <1>3, <2>1 DEF Identified
  <1>5. CASE LowerFlag(r)
    <2>1. pc[r] = "lower" /\ db' = SetFlag(User(r), FALSE)
      BY <1>5 DEF LowerFlag, At, Writes
    <2>2. (pc[r] = "flag") = FALSE
      BY <2>1
    <2> QED BY <1>3, <2>1, <2>2 DEF Identified
  <1>6. CASE VerifyPhone(r)
    <2>1. pc[r] = "verify-phone" /\ db' = [db EXCEPT !.user[User(r)].phoneVerified = TRUE]
      BY <1>6 DEF VerifyPhone, At, Writes
    <2>2. User(r) \in Ids /\ db.user[User(r)] # None
      BY <1>1, <2>1 DEF Identified
    <2>3. db'.user = [db.user EXCEPT ![User(r)] =
                        [db.user[User(r)] EXCEPT !.phoneVerified = TRUE]]
      BY <2>1, <2>2, UserEdits
    <2>4. db.user[User(r)] \in UserRow
      BY <2>2, UserEdits
    <2> DEFINE row == [db.user[User(r)] EXCEPT !.phoneVerified = TRUE]
    <2>5. /\ row \in UserRow /\ row.phone = db.user[User(r)].phone
          /\ row.twoFactor = db.user[User(r)].twoFactor
      BY <2>4 DEF UserRow
    <2> HIDE DEF row
    <2>6. db'.user = [db.user EXCEPT ![User(r)] = row]
      BY <2>3 DEF row
    <2> QED BY <1>10, <2>1, <2>5, <2>6 DEF Identified
  <1>7. CASE PhoneSignUp(r)
    <2>1. pc[r] = "sign-up" /\ db.user[r] = None
      BY <1>7 DEF PhoneSignUp, At, UsersOK
    <2>2. CASE Refuse(r)
      BY <1>2, <2>2, Forms
    <2>3. CASE ~Refuse(r)
      <3> DEFINE row == [twoFactor |-> FALSE, phone |-> call[r].who, phoneVerified |-> TRUE]
      <3>1. /\ pc' = [pc EXCEPT ![r] = AfterPhone(r)] /\ db' = [db EXCEPT !.user[r] = row]
            /\ mem' = [mem EXCEPT ![r].user = r]
        BY <1>7, <2>3 DEF PhoneSignUp, Goto
      <3>2. row \in UserRow
        <4>1. Op(r) = "phone-verify" /\ call[r] # None
          BY <2>1 DEF HandlersOK, HandlerOK, RouteOK, CallOK
        <4>2. call[r].who \in Phones
          BY <4>1, Calling, Naming DEF PhoneOps, Op
        <4> QED BY <4>2 DEF UserRow
      <3>3. pc'[r] \in {"echo", "session"} /\ mem'[r].user = r
        BY <1>0, <3>1 DEF AfterPhone
      <3>4. db'.user = [db.user EXCEPT ![r] = row]
        BY <1>0, <3>1
      <3> HIDE DEF row
      <3>5. row # None /\ row.twoFactor = FALSE /\ row.phone = call[r].who
        BY <3>2, NoneApart DEF row
      <3> QED BY <1>0, <2>1, <3>2, <3>3, <3>4, <3>5 DEF UserMove
    <2> QED BY <2>2, <2>3
  <1>8. CASE WalletUser(r)
    <2>1. pc[r] = "wallet-user" /\ db.user[r] = None
      BY <1>8 DEF WalletUser, At, UsersOK
    <2>2. CASE Refuse(r)
      BY <1>2, <2>2, Forms
    <2>3. CASE ~Refuse(r)
      <3> DEFINE row == [twoFactor |-> FALSE, phone |-> None, phoneVerified |-> FALSE]
      <3>1. /\ pc' = [pc EXCEPT ![r] = "wallet-row"] /\ db' = [db EXCEPT !.user[r] = row]
            /\ mem' = [mem EXCEPT ![r].user = r]
        BY <1>8, <2>3 DEF WalletUser, Goto
      <3>2. row \in UserRow
        BY DEF UserRow
      <3>3. pc'[r] = "wallet-row" /\ mem'[r].user = r
        BY <1>0, <3>1
      <3>4. db'.user = [db.user EXCEPT ![r] = row]
        BY <1>0, <3>1
      <3> HIDE DEF row
      <3>5. row # None /\ row.twoFactor = FALSE /\ row.phone = None
        BY <3>2, NoneApart DEF row
      <3> QED BY <1>0, <2>1, <3>2, <3>3, <3>4, <3>5 DEF UserMove
    <2> QED BY <2>2, <2>3
  <1>9. CASE ~(\/ RaiseFlag(r) \/ LowerFlag(r) \/ PhoneSignUp(r) \/ VerifyPhone(r)
               \/ WalletUser(r))
    <2>1. db'.user = db.user
      BY <1>9, Writing, SMT DEF Keeps
    <2> QED BY <1>2, <2>1
  <1> QED BY <1>4, <1>5, <1>6, <1>7, <1>8, <1>9

\* Rows are deleted, counted on, or one is added at the end.
Counted(r, v) == [v EXCEPT !.tries = mem[r].row.tries + 1]

VerificationMove(r) ==
  \/ db'.verification \subseteq db.verification
  \/ /\ pc[r] = "miscount" /\ mem[r].row.tries + 1 \in Nat
     /\ \E hit \in SUBSET Rows(Purpose(r)) :
          db'.verification = (db.verification \ hit) \cup {Counted(r, v) : v \in hit}
  \/ /\ pc'[r] = "done"
     /\ \E v \in VerificationRow :
          v.id = r /\ Minted(v, r)' /\ db'.verification = db.verification \cup {v}

LEMMA VerificationTable ==
  ASSUME TypeOK, HandlersOK, SessionsOK, NEW r \in Requests, Handle(r)
  PROVE  VerificationMove(r)
PROOF
  <1>0. /\ "verification" \in DOMAIN db /\ db.verification \subseteq VerificationRow /\ r \in Ids
        /\ mem \in [Requests -> [user : Ids \cup {None}, row : Rememberable \cup {None},
                                 enrolled : BOOLEAN]]
        /\ DOMAIN pc = Requests /\ now \in Nat /\ CodeLife \in Nat
        /\ DOMAIN answer = Requests
    BY Types, ConstantsAssumption DEF TypeOK, Database, Ids
  <1>1. HandlerOK(r)
    BY DEF HandlersOK
  <1>2. ASSUME db'.verification \subseteq db.verification
        PROVE  VerificationMove(r)
    BY <1>2 DEF VerificationMove
  <1>3. ASSUME NEW identifier \in Purposes \X (Ids \cup Phones \cup Wallets),
               NEW holder \in Ids \cup {None}
        PROVE  LET v == NewRow(r, identifier, holder) IN
               /\ v \in VerificationRow /\ v.id = r /\ v.identifier = identifier
               /\ v.holder = holder
    BY <1>0 DEF NewRow, VerificationRow
  <1>4. ASSUME NEW v \in VerificationRow, v.id = r, pc'[r] = "done", Minted(v, r)',
               db'.verification = db.verification \cup {v}
        PROVE  VerificationMove(r)
    BY <1>4, Zenon DEF VerificationMove
  <1>5. CASE Consume(r)
    <2>1. db'.verification \subseteq db.verification
      BY <1>0, <1>5, Forms, SMT DEF Consume
    <2> QED BY <1>2, <2>1
  <1>6. CASE ClearCodes(r) \/ DropCode(r) \/ SpendCode(r) \/ Rotate(r) \/ RevokeTrust(r)
    <2>1. db'.verification \subseteq db.verification
      BY <1>0, <1>6, Forms, SMT DEF ClearCodes, DropCode, SpendCode, Rotate, RevokeTrust
    <2> QED BY <1>2, <2>1
  <1>7. CASE BurnNonce(r)
    <2>1. PICK hit : db' = [db EXCEPT !.verification = @ \ hit]
      BY <1>7, Zenon DEF BurnNonce, Writes
    <2>2. db'.verification \subseteq db.verification
      BY <1>0, <2>1
    <2> QED BY <1>2, <2>2
  <1>8. CASE CountFailure(r)
    <2>1. PICK hit \in Matched(Rows(Purpose(r))) :
            db' = [db EXCEPT !.verification =
              (@ \ hit) \cup {[v EXCEPT !.tries = mem[r].row.tries + 1] : v \in hit}]
      BY <1>8 DEF CountFailure, Finishes
    <2>2. hit \in SUBSET Rows(Purpose(r))
      BY <2>1 DEF Matched
    <2>3. pc[r] = "miscount" /\ mem[r].row \in VerificationRow
      BY <1>1, <1>8 DEF CountFailure, At, HandlerOK, HeldOK
    <2>4. mem[r].row.tries + 1 \in Nat
      BY <2>3 DEF VerificationRow
    <2>5. db'.verification = (db.verification \ hit) \cup {Counted(r, v) : v \in hit}
      BY <1>0, <2>1 DEF Counted
    <2> QED BY <2>2, <2>3, <2>4, <2>5, Zenon DEF VerificationMove
  <1>9. CASE MintCode(r)
    <2> DEFINE row == NewRow(r, Purpose(r), None)
    <2>1. /\ pc[r] = "mint" /\ pc' = [pc EXCEPT ![r] = "done"]
          /\ answer' = [answer EXCEPT ![r] = {"code"}]
          /\ db' = [db EXCEPT !.verification = @ \cup {row}]
          /\ config' = config /\ call' = call
      BY <1>9 DEF MintCode, At, Finishes, Answers, Goto
    <2>2. /\ Op(r) \in CodeSenders /\ (Op(r) = "send-otp" => config.otp)
          /\ Purpose(r) \in Purposes \X (Ids \cup Phones \cup Wallets)
      BY <1>1, <2>1 DEF HandlerOK, RouteOK
    <2>3. row \in VerificationRow /\ row.id = r /\ row.identifier = Purpose(r)
      BY <1>3, <2>2
    <2> HIDE DEF row
    <2>4. PICK v \in VerificationRow :
            /\ v.id = r /\ v.identifier = Purpose(r)
            /\ db'.verification = db.verification \cup {v}
      BY <1>0, <2>1, <2>3
    <2>5. pc'[r] = "done" /\ answer'[r] = {"code"}
      BY <1>0, <2>1
    <2>6. Op(r)' = Op(r) /\ Purpose(r)' = Purpose(r)
      BY <2>1 DEF Op, Purpose
    <2>7. Minted(v, r)'
      BY <2>1, <2>2, <2>4, <2>5, <2>6 DEF Minted
    <2> QED BY <1>4, <2>4, <2>5, <2>7
  <1>10. ASSUME NEW kind \in {"trust", "2fa"}, NEW what,
                db' = [db EXCEPT !.verification = @ \cup {NewRow(r, <<kind, r>>, User(r))}],
                pc' = [pc EXCEPT ![r] = "done"], answer' = [answer EXCEPT ![r] = what],
                pc[r] \in Identified, call' = call, mem' = mem,
                \/ kind = "trust" /\ "trust" \in what
                \/ kind = "2fa" /\ what = {"challenge"} /\ Op(r) \in PasswordSignIns
         PROVE  VerificationMove(r)
    <2> DEFINE row == NewRow(r, <<kind, r>>, User(r))
    <2>1. User(r) \in Ids /\ User(r) # None
      BY <1>0, <1>1, <1>10 DEF HandlerOK, UserFound, User
    <2>2. /\ row \in VerificationRow /\ row.id = r /\ row.identifier = <<kind, r>>
          /\ row.holder = User(r)
      <3>1. <<kind, r>> \in Purposes \X (Ids \cup Phones \cup Wallets)
        <4>1. kind \in Purposes /\ r \in Ids \cup Phones \cup Wallets
          BY <1>0, <1>10 DEF Purposes
        <4> QED BY <4>1, Zenon
      <3> QED BY <1>3, <2>1, <3>1
    <2>3. db' = [db EXCEPT !.verification = @ \cup {row}]
      BY <1>10
    <2> HIDE DEF row
    <2>4. PICK v \in VerificationRow :
            /\ v.id = r /\ v.identifier = <<kind, r>> /\ v.holder = User(r)
            /\ db'.verification = db.verification \cup {v}
      BY <1>0, <2>2, <2>3
    <2>5. pc'[r] = "done" /\ answer'[r] = what /\ Op(r)' = Op(r) /\ User(r)' = User(r)
      BY <1>0, <1>10 DEF Op, User
    <2>6. Minted(v, r)'
      BY <1>10, <2>1, <2>4, <2>5 DEF Minted
    <2> QED BY <1>4, <2>4, <2>5, <2>6
  <1>14. CASE IssueTrustDevice(r)
    BY <1>10, <1>14 DEF IssueTrustDevice, At, Finishes, Answers, Goto, Identified
  <1>15. CASE Challenge(r)
    <2>1. pc[r] = "challenge" /\ Op(r) \in PasswordSignIns
      BY <1>1, <1>15 DEF Challenge, At, HandlerOK, RouteOK
    <2> QED BY <1>10, <1>15, <2>1 DEF Challenge, Finishes, Answers, Goto, Identified
  <1>11. CASE IssueNonce(r)
    <2> DEFINE row == NewRow(r, <<"siwe", call[r].who>>, None)
    <2>1. /\ pc[r] = "siwe-nonce" /\ pc' = [pc EXCEPT ![r] = "done"]
          /\ answer' = [answer EXCEPT ![r] = {"code"}]
          /\ db' = [db EXCEPT !.verification = @ \cup {row}]
          /\ config' = config /\ call' = call
      BY <1>11 DEF IssueNonce, At, Finishes, Answers, Goto
    <2>2. Op(r) = "siwe-nonce" /\ call[r] # None
      BY <1>1, <2>1 DEF HandlerOK, RouteOK, CallOK, Operations, WalletOps
    <2>3. call[r].who \in Wallets
      BY <2>2, Calling, Naming DEF WalletOps, Op
    <2>4. row \in VerificationRow /\ row.id = r /\ row.identifier = <<"siwe", call[r].who>>
      <3>1. <<"siwe", call[r].who>> \in Purposes \X (Ids \cup Phones \cup Wallets)
        <4>1. "siwe" \in Purposes /\ call[r].who \in Ids \cup Phones \cup Wallets
          BY <2>3 DEF Purposes
        <4> QED BY <4>1, Zenon
      <3> QED BY <1>3, <3>1
    <2> HIDE DEF row
    <2>5. PICK v \in VerificationRow :
            /\ v.id = r /\ v.identifier = <<"siwe", call[r].who>>
            /\ db'.verification = db.verification \cup {v}
      BY <1>0, <2>1, <2>4
    <2>6. pc'[r] = "done" /\ answer'[r] = {"code"} /\ Op(r)' = Op(r)
      BY <1>0, <2>1 DEF Op
    <2>7. Minted(v, r)'
      BY <2>1, <2>2, <2>5, <2>6 DEF Minted
    <2> QED BY <1>4, <2>5, <2>6, <2>7
  <1>12. CASE PasskeyOptions(r)
    <2>1. CASE Refuse(r)
      <3>1. db'.verification = db.verification
        BY <2>1, Forms
      <3> QED BY <1>2, <3>1
    <2>2. CASE ~Refuse(r)
      <3>1. PICK user \in FindOne(SignedIn(r)) :
              Finishes(r, {"challenge"},
                [db EXCEPT !.verification = @ \cup {NewRow(r, <<"passkey", r>>, user)}])
        BY <1>12, <2>2, Zenon DEF PasskeyOptions
      <3> DEFINE row == NewRow(r, <<"passkey", r>>, user)
      <3>2. /\ pc' = [pc EXCEPT ![r] = "done"]
            /\ answer' = [answer EXCEPT ![r] = {"challenge"}]
            /\ db' = [db EXCEPT !.verification = @ \cup {row}]
            /\ config' = config /\ call' = call
        BY <3>1 DEF Finishes, Answers, Goto
      <3>3. pc[r] \in PasskeyOffers /\ Op(r) = pc[r]
        BY <1>1, <1>12 DEF PasskeyOptions, PasskeyOffers, HandlerOK, RouteOK, Operations
      <3>4. user # None => user \in Ids /\ db.user[user] # None
        BY <3>1 DEF FindOne, SignedIn, SessionsOK, Known
      <3>5. /\ row \in VerificationRow /\ row.id = r /\ row.identifier = <<"passkey", r>>
            /\ row.holder = user
        <4>1. <<"passkey", r>> \in Purposes \X (Ids \cup Phones \cup Wallets)
          <5>1. "passkey" \in Purposes /\ r \in Ids \cup Phones \cup Wallets
            BY <1>0 DEF Purposes
          <5> QED BY <5>1, Zenon
        <4>2. user \in Ids \cup {None}
          BY <3>4
        <4> QED BY <1>3, <4>1, <4>2
      <3> HIDE DEF row
      <3>6. PICK v \in VerificationRow :
              /\ v.id = r /\ v.identifier = <<"passkey", r>> /\ v.holder = user
              /\ db'.verification = db.verification \cup {v}
        BY <1>0, <3>2, <3>5
      <3>9. db'.user = db.user
        BY <3>2 DEF TypeOK, Database
      <3>7. pc'[r] = "done" /\ answer'[r] = {"challenge"} /\ Op(r)' = Op(r)
        BY <1>0, <3>2 DEF Op
      <3>8. Minted(v, r)'
        BY <3>3, <3>4, <3>6, <3>7, <3>9 DEF Minted, Known
      <3> QED BY <1>4, <3>6, <3>7, <3>8
    <2> QED BY <2>1, <2>2
  <1>13. CASE ~(\/ Consume(r) \/ ClearCodes(r) \/ MintCode(r) \/ DropCode(r)
                \/ CountFailure(r) \/ SpendCode(r) \/ Rotate(r) \/ IssueTrustDevice(r)
                \/ Challenge(r) \/ RevokeTrust(r) \/ IssueNonce(r) \/ BurnNonce(r)
                \/ PasskeyOptions(r))
    <2>1. db'.verification = db.verification
      BY <1>13, Writing, SMT DEF Keeps
    <2> QED BY <1>2, <2>1
  <1> QED
    BY <1>5, <1>6, <1>7, <1>8, <1>9, <1>11, <1>12, <1>13, <1>14, <1>15, Zenon

\* Where the rows after a step come from.
LEMMA VerificationRows ==
  ASSUME TypeOK, HandlersOK, SessionsOK, NEW r \in Requests, Handle(r), NEW v \in db'.verification
  PROVE  /\ v \in VerificationRow
         /\ \/ v \in db.verification
            \/ \E w \in db.verification :
                 v.id = w.id /\ v.identifier = w.identifier /\ v.holder = w.holder
            \/ pc'[r] = "done" /\ v.id = r /\ Minted(v, r)'
PROOF
  <1>0. db.verification \subseteq VerificationRow
    BY Types
  <1>1. CASE db'.verification \subseteq db.verification
    BY <1>0, <1>1
  <1>2. ASSUME mem[r].row.tries + 1 \in Nat, NEW hit \in SUBSET Rows(Purpose(r)),
               db'.verification = (db.verification \ hit) \cup {Counted(r, w) : w \in hit}
        PROVE  /\ v \in VerificationRow
               /\ \E w \in db.verification :
                    v.id = w.id /\ v.identifier = w.identifier /\ v.holder = w.holder
    <2>1. CASE v \in db.verification
      BY <1>0, <2>1
    <2>2. CASE v \notin db.verification
      <3>1. PICK w \in hit : v = Counted(r, w)
        BY <1>2, <2>2
      <3>2. w \in db.verification /\ w \in VerificationRow
        BY <1>0 DEF Rows
      <3> QED BY <1>2, <3>1, <3>2 DEF Counted, VerificationRow
    <2> QED BY <2>1, <2>2
  <1>3. ASSUME pc'[r] = "done", NEW w \in VerificationRow, w.id = r, Minted(w, r)',
               db'.verification = db.verification \cup {w}
        PROVE  /\ v \in VerificationRow
               /\ v \in db.verification \/ (pc'[r] = "done" /\ v.id = r /\ Minted(v, r)')
    BY <1>0, <1>3
  <1> QED BY <1>1, <1>2, <1>3, VerificationTable DEF VerificationMove

LEMMA OneRowEachStays ==
  ASSUME TypeOK, HandlersOK, SessionsOK, VerificationsOK, OneRowEach,
         NEW r \in Requests, Handle(r)
  PROVE  OneRowEach'
PROOF
  <1>0. db.verification \subseteq VerificationRow
    BY Types
  <1>1. CASE db'.verification \subseteq db.verification
    BY <1>1 DEF OneRowEach
  <1>2. ASSUME mem[r].row.tries + 1 \in Nat, NEW hit \in SUBSET Rows(Purpose(r)),
               db'.verification = (db.verification \ hit) \cup {Counted(r, w) : w \in hit}
        PROVE  OneRowEach'
    <2>1. ASSUME NEW v \in db'.verification
          PROVE  \E w \in db.verification :
                   v.id = w.id /\ (v = IF w \in hit THEN Counted(r, w) ELSE w)
      <3>1. CASE v \in db.verification \ hit
        BY <3>1
      <3>2. CASE v \notin db.verification \ hit
        <4>1. PICK w \in hit : v = Counted(r, w)
          BY <1>2, <3>2
        <4>2. w \in db.verification /\ w \in VerificationRow
          BY <1>0 DEF Rows
        <4>3. v.id = w.id
          BY <4>1, <4>2 DEF Counted, VerificationRow
        <4> QED BY <4>1, <4>2, <4>3
      <3> QED BY <3>1, <3>2
    <2> SUFFICES ASSUME NEW v \in db'.verification, NEW w \in db'.verification,
                        v.id = w.id, v.id \in Requests
                 PROVE  v = w
      BY DEF OneRowEach
    <2>2. PICK a \in db.verification :
            v.id = a.id /\ (v = IF a \in hit THEN Counted(r, a) ELSE a)
      BY <2>1
    <2>3. PICK b \in db.verification :
            w.id = b.id /\ (w = IF b \in hit THEN Counted(r, b) ELSE b)
      BY <2>1
    <2>4. a = b
      BY <2>2, <2>3 DEF OneRowEach
    <2> QED BY <2>2, <2>3, <2>4
  <1>3. ASSUME NEW w \in VerificationRow, w.id = r,
               db'.verification = db.verification \cup {w}
        PROVE  OneRowEach'
    <2>1. pc[r] # "done"
      BY OthersStay
    <2>2. \A v \in db.verification : v.id # r
      BY <2>1 DEF VerificationsOK
    <2> QED BY <1>3, <2>2 DEF OneRowEach
  <1> QED BY <1>1, <1>2, <1>3, VerificationTable DEF VerificationMove

\* The wallets, accounts and passkeys.
LEMMA WalletTable ==
  ASSUME TypeOK, HandlersOK, NEW r \in Requests, Handle(r)
  PROVE  \/ db'.wallet = db.wallet
         \/ /\ pc[r] = "wallet-row" /\ pc'[r] = "wallet-account"
            /\ db'.wallet = db.wallet \cup {[id |-> r, wallet |-> call[r].who, user |-> User(r)]}
PROOF
  <1>0. "wallet" \in DOMAIN db /\ DOMAIN pc = Requests
    BY DEF TypeOK, Database
  <1>1. CASE WalletRowFor(r)
    BY <1>0, <1>1 DEF WalletRowFor, At, Writes, Goto
  <1>2. CASE ~WalletRowFor(r)
    BY <1>2, Writing, SMT DEF Keeps
  <1> QED BY <1>1, <1>2

LEMMA AccountTable ==
  ASSUME TypeOK, HandlersOK, NEW r \in Requests, Handle(r)
  PROVE  db'.account \subseteq AccountRow
PROOF
  <1>0. /\ "account" \in DOMAIN db /\ db.account \subseteq AccountRow /\ r \in Ids
        /\ mem \in [Requests -> [user : Ids \cup {None}, row : Rememberable \cup {None},
                                 enrolled : BOOLEAN]]
    BY DEF TypeOK, Database, Ids
  <1>1. HandlerOK(r)
    BY DEF HandlersOK
  <1>2. pc[r] \in Identified => User(r) \in Ids
    BY <1>0, <1>1 DEF HandlerOK, UserFound, User
  <1>3. CASE SetPassword(r)
    <2> DEFINE new == [id |-> r, user |-> User(r), wallet |-> None, password |-> r]
    <2>1. /\ pc[r] = "set-password"
          /\ db' = IF mem[r].row = None THEN [db EXCEPT !.account = @ \cup {new}]
                   ELSE [db EXCEPT !.account =
                     {IF a.id = mem[r].row.id THEN [a EXCEPT !.password = r] ELSE a : a \in @}]
      BY <1>3 DEF SetPassword, At, Finishes
    <2>2. new \in AccountRow
      BY <1>0, <1>2, <2>1 DEF AccountRow, Identified
    <2>3. \A a \in db.account : [a EXCEPT !.password = r] \in AccountRow
      BY <1>0 DEF AccountRow
    <2> HIDE DEF new
    <2>4. CASE mem[r].row = None
      BY <1>0, <2>1, <2>2, <2>4
    <2>5. CASE mem[r].row # None
      BY <1>0, <2>1, <2>3, <2>5
    <2> QED BY <2>4, <2>5
  <1>4. CASE WalletAccount(r)
    <2> DEFINE new == [id |-> r, user |-> User(r), wallet |-> call[r].who, password |-> None]
    <2>1. pc[r] = "wallet-account" /\ db' = [db EXCEPT !.account = @ \cup {new}]
      BY <1>4 DEF WalletAccount, At, Writes
    <2>2. Op(r) = "siwe-verify" /\ call[r] # None
      BY <1>1, <2>1 DEF HandlerOK, RouteOK, CallOK
    <2>3. call[r].who \in Wallets
      BY <2>2, Calling, Naming DEF WalletOps, Op
    <2>4. new \in AccountRow
      BY <1>0, <1>2, <2>1, <2>3 DEF AccountRow, Identified
    <2> HIDE DEF new
    <2> QED BY <1>0, <2>1, <2>4
  <1>5. CASE ~SetPassword(r) /\ ~WalletAccount(r)
    <2>1. db'.account = db.account
      BY <1>5, Writing, SMT DEF Keeps
    <2> QED BY <1>0, <2>1
  <1> QED BY <1>3, <1>4, <1>5

PasskeyMove(r) ==
  \A p \in db'.passkey :
    /\ p \in PasskeyRow
    /\ \/ \E old \in db.passkey : p.id = old.id /\ p.user = old.user
       \/ pc[r] = "passkey-row" /\ pc'[r] = "consume" /\ p.id = r /\ p.user = User(r)

LEMMA PasskeyTable ==
  ASSUME TypeOK, HandlersOK, NEW r \in Requests, Handle(r)
  PROVE  PasskeyMove(r)
PROOF
  <1>0. /\ "passkey" \in DOMAIN db /\ db.passkey \subseteq PasskeyRow /\ r \in Ids
        /\ mem \in [Requests -> [user : Ids \cup {None}, row : Rememberable \cup {None},
                                 enrolled : BOOLEAN]]
        /\ DOMAIN pc = Requests
    BY DEF TypeOK, Database, Ids
  <1>1. HandlerOK(r)
    BY DEF HandlersOK
  <1>2. CASE InsertPasskey(r)
    <2> DEFINE new == [id |-> r, user |-> User(r), counter |-> 0]
    <2>1. /\ pc[r] = "passkey-row" /\ db' = [db EXCEPT !.passkey = @ \cup {new}]
          /\ pc' = [pc EXCEPT ![r] = "consume"]
      BY <1>2 DEF InsertPasskey, At, Writes, Goto
    <2>2. User(r) \in Ids
      BY <1>0, <1>1, <2>1 DEF HandlerOK, UserFound, Identified, User
    <2>3. new \in PasskeyRow /\ new.id = r /\ new.user = User(r)
      BY <1>0, <2>2 DEF PasskeyRow
    <2> HIDE DEF new
    <2> QED BY <1>0, <2>1, <2>3 DEF PasskeyMove
  <1>3. CASE WriteCounter(r)
    <2>1. /\ pc[r] = "counter"
          /\ db' = [db EXCEPT !.passkey =
               {IF p.id = call[r].device THEN [p EXCEPT !.counter = call[r].count] ELSE p : p \in @}]
      BY <1>3 DEF WriteCounter, At, Writes
    <2>2. call[r] \in Call
      BY <1>1, <2>1, Calling DEF HandlerOK, CallOK
    <2>3. \A p \in db.passkey :
            LET q == [p EXCEPT !.counter = call[r].count] IN
            q \in PasskeyRow /\ q.id = p.id /\ q.user = p.user
      BY <1>0, <2>2 DEF PasskeyRow, Call
    <2>4. db'.passkey =
            {IF p.id = call[r].device THEN [p EXCEPT !.counter = call[r].count] ELSE p : p \in db.passkey}
      BY <1>0, <2>1
    <2>5. ASSUME NEW p \in db'.passkey
          PROVE  p \in PasskeyRow /\ \E old \in db.passkey : p.id = old.id /\ p.user = old.user
      <3>1. PICK old \in db.passkey :
              p = IF old.id = call[r].device THEN [old EXCEPT !.counter = call[r].count] ELSE old
        BY <2>4
      <3>2. CASE old.id = call[r].device
        BY <2>3, <3>1, <3>2
      <3>3. CASE old.id # call[r].device
        <4>1. p = old
          BY <3>1, <3>3
        <4> QED BY <1>0, <4>1
      <3> QED BY <3>2, <3>3
    <2> QED BY <2>5 DEF PasskeyMove
  <1>4. CASE DropPasskey(r)
    <2>1. db'.passkey = {p \in db.passkey : p.id # call[r].device}
      BY <1>0, <1>4 DEF DropPasskey, Finishes
    <2> QED BY <1>0, <2>1 DEF PasskeyMove
  <1>5. CASE ~InsertPasskey(r) /\ ~WriteCounter(r) /\ ~DropPasskey(r)
    <2>1. db'.passkey = db.passkey
      BY <1>5, Writing, SMT DEF Keeps
    <2> QED BY <1>0, <2>1 DEF PasskeyMove
  <1> QED BY <1>2, <1>3, <1>4, <1>5

\* The device codes.
DeviceMove(r) ==
  \A d \in db'.device :
    /\ d \in DeviceRow
    /\ \/ \E old \in db.device :
            /\ d.id = old.id
            /\ \/ d.user = old.user /\ d.status = old.status
               \/ /\ pc[r] = "claim" /\ pc'[r] = "done" /\ old.id = call[r].device
                  /\ d.user = User(r) /\ d.status = "pending"
               \/ /\ pc[r] = "decide" /\ pc'[r] = "done" /\ old.id = call[r].device
                  /\ d.user = User(r) /\ (d.status = "approved" => Op(r) = "device-approve")
       \/ d.id = r /\ pc'[r] = "done" /\ d.user = None /\ d.status = "pending"

LEMMA DeviceTable ==
  ASSUME TypeOK, HandlersOK, NEW r \in Requests, Handle(r)
  PROVE  DeviceMove(r)
PROOF
  <1>0. /\ "device" \in DOMAIN db /\ db.device \subseteq DeviceRow /\ r \in Ids
        /\ mem \in [Requests -> [user : Ids \cup {None}, row : Rememberable \cup {None},
                                 enrolled : BOOLEAN]]
        /\ DOMAIN pc = Requests /\ now \in Nat /\ CodeLife \in Nat
    BY Types, ConstantsAssumption DEF TypeOK, Database, Ids
  <1>1. HandlerOK(r)
    BY DEF HandlersOK
  <1>2. pc[r] \in Identified => User(r) \in Ids
    BY <1>0, <1>1 DEF HandlerOK, UserFound, User
  <1>3. CASE DeviceCode(r)
    <2> DEFINE new == [id |-> r, user |-> None, status |-> "pending", lastPolled |-> None,
                       expiresAt |-> now + CodeLife]
    <2>1. pc' = [pc EXCEPT ![r] = "done"] /\ db' = [db EXCEPT !.device = @ \cup {new}]
      BY <1>3 DEF DeviceCode, Finishes, Answers, Goto
    <2>2. new \in DeviceRow /\ new.id = r /\ new.user = None /\ new.status = "pending"
      BY <1>0 DEF DeviceRow
    <2> HIDE DEF new
    <2> QED BY <1>0, <2>1, <2>2 DEF DeviceMove
  <1>4. CASE Poll(r)
    <2>1. db' = [db EXCEPT !.device =
             {IF d.id = call[r].device THEN [d EXCEPT !.lastPolled = now] ELSE d : d \in @}]
      BY <1>4 DEF Poll, Writes, Finishes, UpdateDevice
    <2>2. \A d \in db.device :
            LET e == [d EXCEPT !.lastPolled = now] IN
            e \in DeviceRow /\ e.id = d.id /\ e.user = d.user /\ e.status = d.status
      BY <1>0 DEF DeviceRow
    <2>3. db'.device =
            {IF d.id = call[r].device THEN [d EXCEPT !.lastPolled = now] ELSE d : d \in db.device}
      BY <1>0, <2>1
    <2>4. ASSUME NEW d \in db'.device
          PROVE  /\ d \in DeviceRow
                 /\ \E old \in db.device : d.id = old.id /\ d.user = old.user /\ d.status = old.status
      <3>1. PICK old \in db.device :
              d = IF old.id = call[r].device THEN [old EXCEPT !.lastPolled = now] ELSE old
        BY <2>3
      <3>2. CASE old.id = call[r].device
        BY <2>2, <3>1, <3>2
      <3>3. CASE old.id # call[r].device
        <4>1. d = old
          BY <3>1, <3>3
        <4> QED BY <1>0, <4>1
      <3> QED BY <3>2, <3>3
    <2> QED BY <2>4 DEF DeviceMove
  <1>5. CASE DropDevice(r)
    <2>1. db'.device = db.device \ CodeRows(r)
      BY <1>0, <1>5 DEF DropDevice, Finishes
    <2> QED BY <1>0, <2>1 DEF DeviceMove
  <1>6. CASE Claim(r)
    <2>1. /\ pc[r] = "claim" /\ pc' = [pc EXCEPT ![r] = "done"]
          /\ db' = [db EXCEPT !.device =
               {IF d.id = call[r].device
                THEN IF d.status = "pending" /\ d.user = None THEN [d EXCEPT !.user = User(r)] ELSE d
                ELSE d : d \in @}]
      BY <1>6 DEF Claim, At, Finishes, Answers, Goto, UpdateDevice
    <2>2. User(r) \in Ids
      BY <1>2, <2>1 DEF Identified
    <2>3. \A d \in db.device :
            LET e == [d EXCEPT !.user = User(r)] IN
            e \in DeviceRow /\ e.id = d.id /\ e.user = User(r) /\ e.status = d.status
      BY <1>0, <2>2 DEF DeviceRow
    <2>4. db'.device =
            {IF d.id = call[r].device
             THEN IF d.status = "pending" /\ d.user = None THEN [d EXCEPT !.user = User(r)] ELSE d
             ELSE d : d \in db.device}
      BY <1>0, <2>1
    <2>5. ASSUME NEW d \in db'.device
          PROVE  /\ d \in DeviceRow
                 /\ \E old \in db.device :
                      /\ d.id = old.id
                      /\ \/ d.user = old.user /\ d.status = old.status
                         \/ old.id = call[r].device /\ d.user = User(r) /\ d.status = "pending"
      <3>1. PICK old \in db.device :
              d = IF old.id = call[r].device
                  THEN IF old.status = "pending" /\ old.user = None
                       THEN [old EXCEPT !.user = User(r)] ELSE old
                  ELSE old
        BY <2>4
      <3>2. CASE old.id = call[r].device /\ old.status = "pending" /\ old.user = None
        BY <2>3, <3>1, <3>2
      <3>3. CASE ~(old.id = call[r].device /\ old.status = "pending" /\ old.user = None)
        <4>1. d = old
          BY <3>1, <3>3
        <4> QED BY <1>0, <4>1
      <3> QED BY <3>2, <3>3
    <2>6. pc'[r] = "done"
      BY <1>0, <2>1
    <2> QED BY <2>1, <2>5, <2>6 DEF DeviceMove
  <1>7. CASE Decide(r)
    <2>1. /\ pc[r] = "decide" /\ pc' = [pc EXCEPT ![r] = "done"]
          /\ db' = [db EXCEPT !.device =
               {IF d.id = call[r].device THEN Decided(r, d) ELSE d : d \in @}]
      BY <1>7 DEF Decide, At, Finishes, Answers, Goto, UpdateDevice
    <2>2. User(r) \in Ids
      BY <1>2, <2>1 DEF Identified
    <2>3. ASSUME NEW d \in db.device
          PROVE  /\ Decided(r, d) \in DeviceRow /\ Decided(r, d).id = d.id
                 /\ Decided(r, d).user = User(r)
                 /\ Decided(r, d).status = "approved" => Op(r) = "device-approve"
      BY <1>0, <2>2 DEF Decided, DeviceRow
    <2>4. db'.device = {IF d.id = call[r].device THEN Decided(r, d) ELSE d : d \in db.device}
      BY <1>0, <2>1
    <2> QED BY <1>0, <2>1, <2>3, <2>4 DEF DeviceMove
  <1>8. CASE ~(DeviceCode(r) \/ Poll(r) \/ DropDevice(r) \/ Claim(r) \/ Decide(r))
    <2>1. db'.device = db.device
      BY <1>8, Writing, SMT DEF Keeps
    <2> QED BY <1>0, <2>1 DEF DeviceMove
  <1> QED BY <1>3, <1>4, <1>5, <1>6, <1>7, <1>8

\* Where a handler is says which tables it leaves alone.
LEMMA Untouched ==
  ASSUME TypeOK, HandlersOK, NEW r \in Requests, Handle(r)
  PROVE
    /\ pc[r] \notin {"flag", "lower", "sign-up", "verify-phone", "wallet-user"} =>
         db'.user = db.user
    /\ pc[r] \notin {"consume", "clear", "mint", "drop-code", "miscount", "spend", "rotate",
                      "trust", "challenge", "revoke", "siwe-nonce", "burn",
                      "passkey-register-options", "passkey-authenticate-options"} =>
         db'.verification = db.verification
    /\ pc[r] \notin {"strike", "verified", "replace", "drop-factor", "enrol", "renew"} =>
         db'.twoFactor = db.twoFactor
    /\ pc[r] \notin {"passkey-row", "counter", "drop-passkey"} => db'.passkey = db.passkey
    /\ pc[r] \notin {"wallet-row"} => db'.wallet = db.wallet
    /\ pc[r] \notin {"device-code", "poll", "drop-device", "claim", "decide"} =>
         db'.device = db.device
PROOF
  <1>1. ASSUME pc[r] \notin {"flag", "lower", "sign-up", "verify-phone", "wallet-user"}
        PROVE  db'.user = db.user
    <2>1. ~(\/ RaiseFlag(r) \/ LowerFlag(r) \/ PhoneSignUp(r) \/ VerifyPhone(r)
            \/ WalletUser(r))
      BY <1>1, Places, SMT
    <2> QED BY <2>1, Writing, SMT DEF Keeps
  <1>2. ASSUME pc[r] \notin {"consume", "clear", "mint", "drop-code", "miscount", "spend",
                             "rotate", "trust", "challenge", "revoke", "siwe-nonce", "burn",
                             "passkey-register-options", "passkey-authenticate-options"}
        PROVE  db'.verification = db.verification
    <2>1. ~(\/ Consume(r) \/ ClearCodes(r) \/ MintCode(r) \/ DropCode(r)
            \/ CountFailure(r) \/ SpendCode(r) \/ Rotate(r) \/ IssueTrustDevice(r)
            \/ Challenge(r) \/ RevokeTrust(r) \/ IssueNonce(r) \/ BurnNonce(r)
            \/ PasskeyOptions(r))
      BY <1>2, Places, SMT
    <2> QED BY <2>1, Writing, SMT DEF Keeps
  <1>3. ASSUME pc[r] \notin {"strike", "verified", "replace", "drop-factor", "enrol", "renew"}
        PROVE  db'.twoFactor = db.twoFactor
    <2>1. ~(\/ StrikeBackup(r) \/ MarkVerified(r) \/ DropFactors(r) \/ Enrol(r)
            \/ RenewBackup(r))
      BY <1>3, Places, SMT
    <2> QED BY <2>1, Writing, SMT DEF Keeps
  <1>4. ASSUME pc[r] \notin {"passkey-row", "counter", "drop-passkey"}
        PROVE  db'.passkey = db.passkey
    <2>1. ~(InsertPasskey(r) \/ WriteCounter(r) \/ DropPasskey(r))
      BY <1>4, Places, SMT
    <2> QED BY <2>1, Writing, SMT DEF Keeps
  <1>5. ASSUME pc[r] \notin {"wallet-row"}
        PROVE  db'.wallet = db.wallet
    <2>1. ~(WalletRowFor(r))
      BY <1>5, Places, SMT
    <2> QED BY <2>1, Writing, SMT DEF Keeps
  <1>6. ASSUME pc[r] \notin {"device-code", "poll", "drop-device", "claim", "decide"}
        PROVE  db'.device = db.device
    <2>1. ~(\/ DeviceCode(r) \/ Poll(r) \/ DropDevice(r) \/ Claim(r)
            \/ Decide(r))
      BY <1>6, Places, SMT
    <2> QED BY <2>1, Writing, SMT DEF Keeps
  <1> QED BY <1>1, <1>2, <1>3, <1>4, <1>5, <1>6, Zenon

\* The secrets for second factors.
LEMMA FactorRows ==
  ASSUME TypeOK, HandlersOK, NEW r \in Requests, Handle(r)
  PROVE  db'.twoFactor \subseteq TwoFactorRow
PROOF
  <1>0. /\ "twoFactor" \in DOMAIN db /\ db.twoFactor \subseteq TwoFactorRow /\ r \in Ids
        /\ mem \in [Requests -> [user : Ids \cup {None}, row : Rememberable \cup {None},
                                 enrolled : BOOLEAN]]
        /\ config.skips \in BOOLEAN
    BY Types DEF TypeOK, Database, Ids
  <1>1. HandlerOK(r)
    BY DEF HandlersOK
  <1>2. {r} \X Items \in SUBSET (Ids \X Items)
    BY <1>0
  <1>3. CASE StrikeBackup(r)
    <2> DEFINE left == mem[r].row.backup \ {<<call[r].code, call[r].item>>}
    <2>1. /\ pc[r] = "strike"
          /\ db' = [db EXCEPT !.twoFactor =
               {IF f.id = mem[r].row.id THEN [f EXCEPT !.backup = left] ELSE f : f \in @}]
      BY <1>3 DEF StrikeBackup, At, Writes, Finishes, UpdateFactor
    <2>2. left \in SUBSET (Ids \X Items)
      BY <1>1, <2>1 DEF HandlerOK, HeldOK, TwoFactorRow
    <2> HIDE DEF left
    <2>3. \A f \in db.twoFactor : [f EXCEPT !.backup = left] \in TwoFactorRow
      BY <1>0, <2>2 DEF TwoFactorRow
    <2> QED BY <1>0, <2>1, <2>3
  <1>4. CASE MarkVerified(r)
    <2>1. db' = [db EXCEPT !.twoFactor =
             {IF f.id = mem[r].row.id THEN [f EXCEPT !.verified = TRUE] ELSE f : f \in @}]
      BY <1>4 DEF MarkVerified, Writes, UpdateFactor
    <2>2. \A f \in db.twoFactor : [f EXCEPT !.verified = TRUE] \in TwoFactorRow
      BY <1>0 DEF TwoFactorRow
    <2> QED BY <1>0, <2>1, <2>2
  <1>5. CASE RenewBackup(r)
    <2> DEFINE codes == {r} \X Items
    <2>1. db' = [db EXCEPT !.twoFactor =
             {IF f.id = mem[r].row.id THEN [f EXCEPT !.backup = codes] ELSE f : f \in @}]
      BY <1>5 DEF RenewBackup, Finishes, UpdateFactor
    <2>2. codes \in SUBSET (Ids \X Items)
      BY <1>2
    <2> HIDE DEF codes
    <2>3. \A f \in db.twoFactor : [f EXCEPT !.backup = codes] \in TwoFactorRow
      BY <1>0, <2>2 DEF TwoFactorRow
    <2> QED BY <1>0, <2>1, <2>3
  <1>6. CASE DropFactors(r)
    <2>1. db'.twoFactor \subseteq db.twoFactor
      BY <1>0, <1>6, Forms, SMT DEF DropFactors
    <2> QED BY <1>0, <2>1
  <1>7. CASE Enrol(r)
    <2> DEFINE checked == config.skips \/ (mem[r].row # None /\ mem[r].row.verified)
               codes == {r} \X Items
               new == [id |-> r, user |-> User(r), backup |-> codes, verified |-> checked]
    <2>1. pc[r] = "enrol" /\ db' = [db EXCEPT !.twoFactor = @ \cup {new}]
      BY <1>7 DEF Enrol, At, Finishes
    <2>2. checked \in BOOLEAN /\ codes \in SUBSET (Ids \X Items)
      BY <1>2
    <2> HIDE DEF checked, codes
    <2>3. User(r) \in Ids
      BY <1>0, <1>1, <2>1 DEF HandlerOK, UserFound, Identified, User
    <2>4. new \in TwoFactorRow
      BY <1>0, <2>2, <2>3 DEF TwoFactorRow
    <2> HIDE DEF new
    <2> QED BY <1>0, <2>1, <2>4
  <1>8. CASE ~(\/ StrikeBackup(r) \/ MarkVerified(r) \/ DropFactors(r) \/ Enrol(r)
               \/ RenewBackup(r))
    <2>1. db'.twoFactor = db.twoFactor
      BY <1>8, Writing, SMT DEF Keeps
    <2> QED BY <1>0, <2>1
  <1> QED BY <1>3, <1>4, <1>5, <1>6, <1>7, <1>8

\* A secret is replaced by one with a code less, verified, or with new codes.
Patched(r, new) ==
  LET old == mem[r].row IN
  /\ new \in TwoFactorRow /\ new.id = old.id /\ new.user = old.user
  /\ \/ /\ pc[r] = "strike" /\ new.verified = old.verified
        /\ new.backup = old.backup \ {<<call[r].code, call[r].item>>}
     \/ pc[r] = "verified" /\ new.verified /\ new.backup = old.backup
     \/ /\ pc[r] = "renew" /\ pc'[r] = "done" /\ new.verified = old.verified
        /\ new.backup = {r} \X Items

FactorMove(r) ==
  \/ /\ pc[r] \notin {"strike", "verified", "renew", "replace", "drop-factor", "enrol"}
     /\ db'.twoFactor = db.twoFactor
  \/ /\ pc[r] \in {"replace", "drop-factor"}
     /\ db'.twoFactor = db.twoFactor \ FactorsOf(User(r))
  \/ /\ pc[r] = "enrol" /\ pc'[r] = "done"
     /\ \E new \in TwoFactorRow :
          /\ new.id = r /\ new.user = User(r) /\ new.backup = {r} \X Items
          /\ new.verified = (config.skips \/ (mem[r].row # None /\ mem[r].row.verified))
          /\ db'.twoFactor = db.twoFactor \cup {new}
  \/ \E new \in TwoFactorRow :
       /\ Patched(r, new)
       /\ db'.twoFactor = (db.twoFactor \ {mem[r].row}) \cup {new}

LEMMA FactorTable ==
  ASSUME TypeOK, HandlersOK, FactorsOK, NEW r \in Requests, Handle(r), StillThere(r)
  PROVE  FactorMove(r)
PROOF
  <1>0. /\ "twoFactor" \in DOMAIN db /\ db.twoFactor \subseteq TwoFactorRow /\ r \in Ids
        /\ mem \in [Requests -> [user : Ids \cup {None}, row : Rememberable \cup {None},
                                 enrolled : BOOLEAN]]
        /\ config.skips \in BOOLEAN /\ DOMAIN pc = Requests
    BY Types DEF TypeOK, Database, Ids
  <1>1. HandlerOK(r)
    BY DEF HandlersOK
  <1>2. {r} \X Items \in SUBSET (Ids \X Items)
    BY <1>0
  <1> DEFINE row == mem[r].row
  <1>3. ASSUME NEW new \in TwoFactorRow, Patched(r, new), row \in db.twoFactor,
               db'.twoFactor = {IF f.id = row.id THEN new ELSE f : f \in db.twoFactor}
        PROVE  FactorMove(r)
    <2>1. \A f \in db.twoFactor : f.id = row.id <=> f = row
      BY <1>3 DEF FactorsOK
    <2>2. db'.twoFactor = (db.twoFactor \ {row}) \cup {new}
      BY <1>3, <2>1
    <2> QED BY <1>3, <2>2, Zenon DEF FactorMove
  <1>4. pc[r] \in {"strike", "renew", "verified"} => row \in db.twoFactor /\ row \in TwoFactorRow
    BY <1>0 DEF StillThere
  <1>5. CASE StrikeBackup(r)
    <2> DEFINE left == row.backup \ {<<call[r].code, call[r].item>>}
               new == [row EXCEPT !.backup = left]
    <2>1. /\ pc[r] = "strike"
          /\ db' = [db EXCEPT !.twoFactor =
               {IF f.id = row.id THEN [f EXCEPT !.backup = left] ELSE f : f \in @}]
      BY <1>5 DEF StrikeBackup, At, Writes, Finishes, UpdateFactor
    <2>2. row \in db.twoFactor /\ row \in TwoFactorRow
      BY <1>4, <2>1
    <2>3. left \in SUBSET (Ids \X Items)
      BY <2>2 DEF TwoFactorRow
    <2> HIDE DEF left
    <2>4. /\ new \in TwoFactorRow /\ new.id = row.id /\ new.user = row.user
          /\ new.verified = row.verified /\ new.backup = left
      BY <2>2, <2>3 DEF TwoFactorRow
    <2>5. \A f \in db.twoFactor : f.id = row.id => [f EXCEPT !.backup = left] = new
      BY <2>2 DEF FactorsOK
    <2> HIDE DEF new
    <2>8. db'.twoFactor =
            {IF f.id = row.id THEN [f EXCEPT !.backup = left] ELSE f : f \in db.twoFactor}
      BY <1>0, <2>1
    <2>6. db'.twoFactor = {IF f.id = row.id THEN new ELSE f : f \in db.twoFactor}
      BY <2>5, <2>8
    <2>7. Patched(r, new)
      BY <2>1, <2>4 DEF Patched, left
    <2> QED BY <1>3, <2>2, <2>4, <2>6, <2>7
  <1>6. CASE MarkVerified(r)
    <2> DEFINE new == [row EXCEPT !.verified = TRUE]
    <2>1. /\ pc[r] = "verified"
          /\ db' = [db EXCEPT !.twoFactor =
               {IF f.id = row.id THEN [f EXCEPT !.verified = TRUE] ELSE f : f \in @}]
      BY <1>6 DEF MarkVerified, At, Writes, UpdateFactor
    <2>2. row \in db.twoFactor /\ row \in TwoFactorRow
      BY <1>4, <2>1
    <2>4. /\ new \in TwoFactorRow /\ new.id = row.id /\ new.user = row.user
          /\ new.verified /\ new.backup = row.backup
      BY <2>2 DEF TwoFactorRow
    <2>5. \A f \in db.twoFactor : f.id = row.id => [f EXCEPT !.verified = TRUE] = new
      BY <2>2 DEF FactorsOK
    <2> HIDE DEF new
    <2>8. db'.twoFactor =
            {IF f.id = row.id THEN [f EXCEPT !.verified = TRUE] ELSE f : f \in db.twoFactor}
      BY <1>0, <2>1
    <2>6. db'.twoFactor = {IF f.id = row.id THEN new ELSE f : f \in db.twoFactor}
      BY <2>5, <2>8
    <2>7. Patched(r, new)
      BY <2>1, <2>4 DEF Patched
    <2> QED BY <1>3, <2>2, <2>4, <2>6, <2>7
  <1>7. CASE RenewBackup(r)
    <2> DEFINE codes == {r} \X Items
               new == [row EXCEPT !.backup = codes]
    <2>1. /\ pc[r] = "renew" /\ pc' = [pc EXCEPT ![r] = "done"]
          /\ db' = [db EXCEPT !.twoFactor =
               {IF f.id = row.id THEN [f EXCEPT !.backup = codes] ELSE f : f \in @}]
      BY <1>7 DEF RenewBackup, At, Finishes, Answers, Goto, UpdateFactor
    <2>2. row \in db.twoFactor /\ row \in TwoFactorRow
      BY <1>4, <2>1
    <2>3. codes \in SUBSET (Ids \X Items)
      BY <1>2
    <2> HIDE DEF codes
    <2>4. /\ new \in TwoFactorRow /\ new.id = row.id /\ new.user = row.user
          /\ new.verified = row.verified /\ new.backup = codes
      BY <2>2, <2>3 DEF TwoFactorRow
    <2>5. \A f \in db.twoFactor : f.id = row.id => [f EXCEPT !.backup = codes] = new
      BY <2>2 DEF FactorsOK
    <2> HIDE DEF new
    <2>8. db'.twoFactor =
            {IF f.id = row.id THEN [f EXCEPT !.backup = codes] ELSE f : f \in db.twoFactor}
      BY <1>0, <2>1
    <2>6. db'.twoFactor = {IF f.id = row.id THEN new ELSE f : f \in db.twoFactor}
      BY <2>5, <2>8
    <2>7. Patched(r, new)
      BY <1>0, <2>1, <2>4 DEF Patched, codes
    <2> QED BY <1>3, <2>2, <2>4, <2>6, <2>7
  <1>8. CASE DropFactors(r)
    <2>1. db'.twoFactor = db.twoFactor \ FactorsOf(User(r))
      BY <1>0, <1>8, Forms, SMT DEF DropFactors
    <2>2. pc[r] \in {"replace", "drop-factor"}
      BY <1>8 DEF DropFactors
    <2> QED BY <2>1, <2>2 DEF FactorMove
  <1>9. CASE Enrol(r)
    <2> DEFINE checked == config.skips \/ (mem[r].row # None /\ mem[r].row.verified)
               codes == {r} \X Items
               new == [id |-> r, user |-> User(r), backup |-> codes, verified |-> checked]
    <2>1. /\ pc[r] = "enrol" /\ db' = [db EXCEPT !.twoFactor = @ \cup {new}]
          /\ pc' = [pc EXCEPT ![r] = "done"]
      BY <1>9 DEF Enrol, At, Finishes, Answers, Goto
    <2>2. checked \in BOOLEAN /\ codes \in SUBSET (Ids \X Items)
      BY <1>2
    <2> HIDE DEF checked, codes
    <2>3. User(r) \in Ids
      BY <1>0, <1>1, <2>1 DEF HandlerOK, UserFound, Identified, User
    <2>4. /\ new \in TwoFactorRow /\ new.id = r /\ new.user = User(r) /\ new.backup = codes
          /\ new.verified = checked
      BY <1>0, <2>2, <2>3 DEF TwoFactorRow
    <2> HIDE DEF new
    <2>5. db'.twoFactor = db.twoFactor \cup {new} /\ pc'[r] = "done"
      BY <1>0, <2>1
    <2> QED BY <2>1, <2>4, <2>5, Zenon DEF FactorMove, checked, codes
  <1>10. CASE ~(\/ StrikeBackup(r) \/ MarkVerified(r) \/ DropFactors(r) \/ Enrol(r)
                \/ RenewBackup(r))
    <2>1. db'.twoFactor = db.twoFactor
      BY <1>10, Writing, SMT DEF Keeps
    <2>2. pc[r] \notin {"strike", "verified", "renew", "replace", "drop-factor", "enrol"}
      BY <1>10, Where
    <2> QED BY <2>1, <2>2 DEF FactorMove
  <1> QED BY <1>5, <1>6, <1>7, <1>8, <1>9, <1>10

-----------------------------------------------------------------------------
(* What the steps of one request leave true of the others                   *)

\* What a request sends along comes from requests that are done.
LEMMA Presented ==
  ASSUME TypeOK, HandlersOK, NEW q \in Requests, pc[q] # "idle"
  PROVE  LET c == call[q] IN
         \A x \in {c.session, c.cookie, c.trust, c.code, c.device} \cap Requests : pc[x] = "done"
PROOF
  <1>1. call[q] # None /\ Presentable(call[q])
    BY DEF HandlersOK, HandlerOK, CallOK
  <1>2. \A x \in Requests : pc[x] # "done" => answer[x] = {}
    BY DEF HandlersOK, HandlerOK, CallOK
  <1> QED BY <1>1, <1>2 DEF Presentable, Got

\* A step that disturbs no request but r, and takes nothing away from a user.
Gentle(r) ==
  /\ config' = config
  /\ \A q \in Requests \ {r} :
       /\ pc'[q] = pc[q] /\ call'[q] = call[q] /\ mem'[q] = mem[q] /\ answer'[q] = answer[q]
       /\ HasSession(q)' => HasSession(q)
  /\ r \in Requests => pc[r] # "done"
  /\ \A u : Known(u) => Known(u)' /\ db'.user[u].phone = db.user[u].phone
  /\ \A u : AlwaysProtected(u)' => AlwaysProtected(u)
  /\ db.wallet \subseteq db'.wallet

LEMMA DoneStays ==
  ASSUME NEW r, Gentle(r)
  PROVE  /\ \A op, device, user : HasDone(op, device, user) => HasDone(op, device, user)'
         /\ \A d : DeviceOK(d) => DeviceOK(d)'
         /\ \A q \in Requests : \A v : pc[q] = "done" /\ Minted(v, q) => Minted(v, q)'
PROOF
  <1>1. ASSUME NEW q \in Requests, pc[q] = "done"
        PROVE  /\ q # r /\ pc'[q] = "done" /\ call'[q] = call[q] /\ Op(q)' = Op(q)
               /\ User(q)' = User(q) /\ answer'[q] = answer[q]
    BY <1>1 DEF Gentle, Op, User
  <1>2. ASSUME NEW op, NEW device, NEW user, HasDone(op, device, user)
        PROVE  HasDone(op, device, user)'
    BY <1>1, <1>2 DEF HasDone
  <1>3. ASSUME NEW d, DeviceOK(d)
        PROVE  DeviceOK(d)'
    BY <1>2, <1>3 DEF DeviceOK, Gentle
  <1>4. ASSUME NEW q \in Requests, NEW v, pc[q] = "done", Minted(v, q)
        PROVE  Minted(v, q)'
    <2>1. Purpose(q)' = Purpose(q)
      BY <1>1, <1>4 DEF Purpose
    <2>2. v.holder # None /\ Known(v.holder) => Known(v.holder)'
      BY DEF Gentle
    <2>3. config' = config
      BY DEF Gentle
    <2> QED BY <1>1, <1>4, <2>1, <2>2, <2>3 DEF Minted
  <1> QED BY <1>2, <1>3, <1>4

LEMMA OthersOK ==
  ASSUME TypeOK, HandlersOK, NEW r, Gentle(r), NEW q \in Requests \ {r}
  PROVE  HandlerOK(q)'
PROOF
  <1>1. /\ pc'[q] = pc[q] /\ call'[q] = call[q] /\ mem'[q] = mem[q] /\ answer'[q] = answer[q]
        /\ Op(q)' = Op(q) /\ User(q)' = User(q) /\ Purpose(q)' = Purpose(q) /\ config' = config
    BY DEF Gentle, Op, User, Purpose
  <1>2. HandlerOK(q)
    BY DEF HandlersOK
  <1>3. ASSUME NEW x \in Requests, pc[x] = "done"
        PROVE  /\ x # r /\ pc'[x] = "done" /\ call'[x] = call[x] /\ Op(x)' = Op(x)
               /\ User(x)' = User(x) /\ answer'[x] = answer[x]
    BY <1>3 DEF Gentle, Op, User
  <1>4. pc[q] # "idle" => LET c == call[q] IN
          \A x \in {c.session, c.cookie, c.trust, c.code, c.device} \cap Requests : pc[x] = "done"
    BY Presented
  <1>5. CallOK(q)'
    <2>1. pc[q] # "idle" => call[q] # None /\ Presentable(call[q])
      BY <1>2 DEF HandlerOK, CallOK
    <2>2. pc[q] # "idle" => Presentable(call[q])'
      BY <1>1, <1>3, <1>4, <2>1 DEF Presentable, Got
    <2> QED BY <1>1, <1>2, <2>1, <2>2 DEF HandlerOK, CallOK
  <1>6. RouteOK(q)'
    BY <1>1, <1>2 DEF HandlerOK, RouteOK
  <1>7. UserFound(q)'
    BY <1>1, <1>2 DEF HandlerOK, UserFound, Gentle
  <1>8. HeldOK(q)'
    <2>1. \A d : DeviceOK(d) => DeviceOK(d)'
      BY DoneStays
    <2>2. HasSession(q)' => HasSession(q)
      BY DEF Gentle
    <2> QED BY <1>1, <1>2, <2>1, <2>2 DEF HandlerOK, HeldOK
  <1>9. DueOK(q)'
    <2> DEFINE c == call[q]
    <2>1. pc[q] # "idle" => c \in Call
      BY <1>2, Calling DEF HandlerOK, CallOK
    <2>2. \A x \in {c.cookie, c.trust, c.device} : pc[q] # "idle" /\ x \in Ids => UserOf(x)' = UserOf(x)
      BY <1>3, <1>4 DEF UserOf, User, Ids
    <2>3. ASSUME NEW ops, pc[q] # "idle", SentBy(q, ops)
          PROVE  SentBy(q, ops)'
      <3>1. call[q].code \in Requests /\ pc[call[q].code] = "done"
        BY <1>4, <2>3 DEF SentBy
      <3> QED BY <1>1, <1>3, <2>3, <3>1 DEF SentBy
    <2>4. pc[q] # "idle" /\ c.cookie \in Requests =>
            Op(c.cookie)' = Op(c.cookie) /\ User(c.cookie)' = User(c.cookie)
      BY <1>1, <1>3, <1>4 DEF Op, User
    <2>5. User(q) # None => db'.user[User(q)].phone = db.user[User(q)].phone
      BY <1>2 DEF HandlerOK, UserFound, Gentle
    <2>6. \A op, device, user : HasDone(op, device, user) => HasDone(op, device, user)'
      BY DoneStays
    <2>7. \A w \in db.wallet : w \in db'.wallet
      BY DEF Gentle
    <2>8. DueOK(q) /\ UserFound(q)
      BY <1>2 DEF HandlerOK
    <2> HIDE DEF c
    <2>9. ChallengeDue(q)'
      BY <1>1, <2>4, <2>8 DEF DueOK, ChallengeDue, Met, c
    <2>10. TrustDue(q)' /\ PasskeyDue(q)'
      BY <1>1, <2>2, <2>4, <2>8 DEF DueOK, TrustDue, Vouched, PasskeyDue, HoldsPasskey, c
    <2>11. WalletDue(q)'
      BY <1>1, <2>3, <2>7, <2>8 DEF DueOK, WalletDue, HoldsWallet, c
    <2>12. PhoneDue(q)'
      BY <1>1, <2>3, <2>5, <2>8 DEF DueOK, PhoneDue, HoldsNumber, UserFound, Identified, c
    <2>13. DecisionDue(q)'
      BY <1>1, <2>6, <2>8 DEF DueOK, DecisionDue
    <2> QED BY <2>9, <2>10, <2>11, <2>12, <2>13 DEF DueOK
  <1> QED BY <1>5, <1>6, <1>7, <1>8, <1>9 DEF HandlerOK

LEMMA EarnedStays ==
  ASSUME TypeOK, HandlersOK, NEW r, Gentle(r), NEW q \in Requests \ {r}, EarnedOK(q)
  PROVE  EarnedOK(q)'
PROOF
  <1>1. /\ pc'[q] = pc[q] /\ call'[q] = call[q] /\ answer'[q] = answer[q] /\ config' = config
        /\ Op(q)' = Op(q) /\ User(q)' = User(q) /\ SignedInBy(q)' = SignedInBy(q)
    BY DEF Gentle, Op, User, SignedInBy
  <1>2. SUFFICES ASSUME SignedInBy(q)
                 PROVE  EarnedOK(q)'
    BY <1>1 DEF EarnedOK
  <1>11. PICK c : c = call[q]
    OBVIOUS
  <1>12. PICK u : u = User(q)
    OBVIOUS
  <1>3. pc[q] # "idle" /\ c \in Call /\ Op(q) = c.op
    <2>1. pc[q] = "done"
      BY <1>2 DEF HandlersOK, HandlerOK, CallOK, SignedInBy
    <2> QED BY <1>11, <2>1, Calling DEF HandlersOK, HandlerOK, CallOK, Op
  <1>4. ASSUME NEW x \in Requests, pc[x] = "done"
        PROVE  /\ x # r /\ pc'[x] = "done" /\ call'[x] = call[x] /\ Op(x)' = Op(x)
               /\ User(x)' = User(x) /\ UserOf(x)' = UserOf(x)
    BY <1>4 DEF Gentle, Op, User, UserOf
  <1>5. \A x \in {c.cookie, c.trust, c.code, c.device} \cap Requests : pc[x] = "done"
    BY <1>3, <1>11, Presented
  <1>6. \A x \in {c.cookie, c.trust, c.device} \cap Ids : UserOf(x)' = UserOf(x)
    BY <1>4, <1>5 DEF UserOf, Ids
  <1>7. /\ Known(u) /\ Earned(q, u)
        /\ Op(q) \in PasswordSignIns /\ "trust" \in answer[q] => c.trust \in Ids
        /\ Op(q) \in SecondFactors => c.cookie \in Requests
        /\ Op(q) \in {"siwe-verify", "phone-verify"} => c.code \in Requests
        /\ Op(q) = "passkey-authenticate" => c.device \in Ids
    BY <1>2, <1>11, <1>12 DEF EarnedOK
  <1>8. Known(u)' /\ db'.user[u].phone = db.user[u].phone
    BY <1>7 DEF Gentle
  <1>9. (~AlwaysProtected(u) => ~AlwaysProtected(u)') /\ db.wallet \subseteq db'.wallet
    BY DEF Gentle
  <1>10. Earned(q, u)'
    <2>1. c.op \in PasswordSignIns =>
            IF "trust" \in answer[q] THEN UserOf(c.trust)' = u ELSE ~AlwaysProtected(u)'
      BY <1>3, <1>6, <1>7, <1>9, <1>11 DEF Earned
    <2>2. c.op \in SecondFactors =>
            /\ c.cookie # None /\ Op(c.cookie)' \in PasswordSignIns /\ UserOf(c.cookie)' = u
      BY <1>3, <1>4, <1>5, <1>7, <1>11 DEF Earned
    <2>3. ASSUME c.op = "device-token", NEW op \in {"device-verify", "device-approve"}
          PROVE  \E x \in Requests :
                   /\ pc'[x] = "done" /\ Op(x)' = op
                   /\ call'[x].device = c.device /\ UserOf(x)' = u
      <3>1. PICK x \in Requests :
              pc[x] = "done" /\ Op(x) = op /\ call[x].device = c.device /\ UserOf(x) = u
        BY <1>7, <2>3, <1>11 DEF Earned
      <3> QED BY <1>4, <3>1
    <2>4. c.op \in {"siwe-verify", "phone-verify"} =>
            Op(c.code)' = Op(c.code) /\ call'[c.code] = call[c.code]
      BY <1>3, <1>4, <1>5, <1>7
    <2>5. c.op = "siwe-verify" =>
            /\ Op(c.code)' = "siwe-nonce" /\ call'[c.code].who = c.who
            /\ \E w \in db'.wallet : AddressOf[w.wallet] = AddressOf[c.who] /\ w.user = u
      BY <1>7, <1>9, <2>4, <1>11 DEF Earned
    <2>6. c.op = "passkey-authenticate" => UserOf(c.device)' = u
      BY <1>3, <1>6, <1>7, <1>11 DEF Earned
    <2>7. c.op = "phone-verify" =>
            /\ Op(c.code)' \in {"phone-send", "phone-sign-in"} /\ call'[c.code].who = c.who
            /\ db'.user[u].phone = c.who
      BY <1>7, <1>8, <2>4, <1>11 DEF Earned
    <2>8. c.op \in SessionOps
      BY <1>7, <1>11 DEF Earned
    <2> QED BY <1>1, <1>11, <2>1, <2>2, <2>3, <2>5, <2>6, <2>7, <2>8 DEF Earned
  <1> QED BY <1>1, <1>7, <1>8, <1>10, <1>11, <1>12 DEF EarnedOK

-----------------------------------------------------------------------------
(* Where a step leads, and what it answers                                  *)

LEMMA Leads ==
  ASSUME TypeOK, HandlersOK, NEW r \in Requests
  PROVE
    /\ CreateSession(r) =>
         /\ pc'[r] \in {"intercept", "consume", "drop-device", "done"}
         /\ pc'[r] = "done" => answer'[r] = {"session"}
    /\ Consume(r) =>
         /\ pc'[r] \in {"trust", "done"}
         /\ pc'[r] = "done" => answer'[r] \in {{"ok"}, {"session"}}
    /\ ClearCodes(r) => pc'[r] = "mint"
    /\ MintCode(r) =>
         /\ pc'[r] = "done"
         /\ answer'[r] = {"code"}
    /\ DropCode(r) =>
         /\ pc'[r] = "done"
         /\ answer'[r] = {}
    /\ CountFailure(r) =>
         /\ pc'[r] = "done"
         /\ answer'[r] = {}
    /\ SpendCode(r) => pc'[r] \in {"valid", "flag", "resolve-phone", "find-account"}
    /\ SignIn(r) => pc'[r] = "session"
    /\ Intercept(r) =>
         /\ pc'[r] \in {"done", "rotate", "tear-down"}
         /\ pc'[r] = "done" => answer'[r] = {"session"}
    /\ Rotate(r) => pc'[r] = "trust"
    /\ IssueTrustDevice(r) =>
         /\ pc'[r] = "done"
         /\ answer'[r] = {"session", "trust"}
    /\ TearDown(r) => pc'[r] = "challenge"
    /\ Challenge(r) =>
         /\ pc'[r] = "done"
         /\ answer'[r] = {"challenge"}
    /\ SecondFactor(r) =>
         /\ pc'[r] \in {"done", "valid", "verified", "flag", "strike", "drop-code", "spend", "miscount", "clear"}
         /\ pc'[r] = "done" => answer'[r] = {}
    /\ StrikeBackup(r) =>
         /\ pc'[r] \in {"done", "valid"}
         /\ pc'[r] = "done" => answer'[r] = {"ok"}
    /\ RaiseFlag(r) => pc'[r] \in {"existing", "verified", "valid"}
    /\ MarkVerified(r) => pc'[r] = "valid"
    /\ Valid(r) =>
         /\ pc'[r] \in {"done", "session"}
         /\ pc'[r] = "done" => answer'[r] = {"ok"}
    /\ Manage(r) =>
         /\ pc'[r] \in {"done", "flag", "existing", "lower", "renew"}
         /\ pc'[r] = "done" => answer'[r] = {}
    /\ FindExisting(r) => pc'[r] = "replace"
    /\ DropFactors(r) =>
         /\ pc'[r] \in {"enrol", "revoke", "done"}
         /\ pc'[r] = "done" => answer'[r] = {"ok"}
    /\ Enrol(r) =>
         /\ pc'[r] = "done"
         /\ answer'[r] = {"ok"}
    /\ LowerFlag(r) => pc'[r] = "drop-factor"
    /\ RevokeTrust(r) =>
         /\ pc'[r] = "done"
         /\ answer'[r] = {"ok"}
    /\ RenewBackup(r) =>
         /\ pc'[r] = "done"
         /\ answer'[r] = {"ok"}
    /\ PhoneSignIn(r) =>
         /\ pc'[r] \in {"done", "clear", "session"}
         /\ pc'[r] = "done" => answer'[r] = {}
    /\ PhoneSend(r) =>
         /\ pc'[r] \in {"done", "clear"}
         /\ pc'[r] = "done" => answer'[r] = {}
    /\ PhoneCode(r) =>
         /\ pc'[r] \in {"done", "drop-code", "spend", "miscount"}
         /\ pc'[r] = "done" => answer'[r] = {}
    /\ ResolvePhone(r) => pc'[r] \in {"sign-up", "echo", "session", "verify-phone"}
    /\ PhoneSignUp(r) =>
         /\ pc'[r] \in {"done", "echo", "session"}
         /\ pc'[r] = "done" => answer'[r] = {}
    /\ VerifyPhone(r) => pc'[r] \in {"echo", "session"}
    /\ PhoneEcho(r) =>
         /\ pc'[r] = "done"
         /\ answer'[r] = {"ok"}
    /\ FindAccount(r) =>
         /\ pc'[r] \in {"done", "set-password"}
         /\ pc'[r] = "done" => answer'[r] = {}
    /\ SetPassword(r) =>
         /\ pc'[r] = "done"
         /\ answer'[r] = {"ok"}
    /\ IssueNonce(r) =>
         /\ pc'[r] = "done"
         /\ answer'[r] = {"code"}
    /\ VerifyWallet(r) =>
         /\ pc'[r] \in {"done", "burn"}
         /\ pc'[r] = "done" => answer'[r] = {}
    /\ BurnNonce(r) => pc'[r] = "resolve-wallet"
    /\ ResolveWallet(r) => pc'[r] \in {"session", "wallet-user", "wallet-row"}
    /\ WalletUser(r) =>
         /\ pc'[r] \in {"done", "wallet-row"}
         /\ pc'[r] = "done" => answer'[r] = {}
    /\ WalletRowFor(r) => pc'[r] = "wallet-account"
    /\ WalletAccount(r) => pc'[r] = "session"
    /\ DeviceCode(r) =>
         /\ pc'[r] = "done"
         /\ answer'[r] = {"code"}
    /\ DeviceToken(r) =>
         /\ pc'[r] \in {"done", "poll"}
         /\ pc'[r] = "done" => answer'[r] = {}
    /\ Poll(r) =>
         /\ pc'[r] \in {"drop-device", "session", "done"}
         /\ pc'[r] = "done" => answer'[r] = {}
    /\ DropDevice(r) =>
         /\ pc'[r] = "done"
         /\ answer'[r] \in {{"session"}, {}}
    /\ DeviceVerify(r) =>
         /\ pc'[r] \in {"done", "claim"}
         /\ pc'[r] = "done" => answer'[r] = {}
    /\ Claim(r) =>
         /\ pc'[r] = "done"
         /\ answer'[r] = {}
    /\ SetStatus(r) =>
         /\ pc'[r] \in {"done", "decide"}
         /\ pc'[r] = "done" => answer'[r] = {}
    /\ Decide(r) =>
         /\ pc'[r] = "done"
         /\ answer'[r] = {"ok"}
    /\ PasskeyOptions(r) =>
         /\ pc'[r] = "done"
         /\ answer'[r] \in {{}, {"challenge"}}
    /\ RegisterPasskey(r) =>
         /\ pc'[r] \in {"done", "passkey-row"}
         /\ pc'[r] = "done" => answer'[r] = {}
    /\ InsertPasskey(r) => pc'[r] = "consume"
    /\ Authenticate(r) =>
         /\ pc'[r] \in {"done", "counter"}
         /\ pc'[r] = "done" => answer'[r] = {}
    /\ WriteCounter(r) => pc'[r] = "session"
    /\ ManagePasskey(r) =>
         /\ pc'[r] \in {"done", "drop-passkey"}
         /\ pc'[r] = "done" => answer'[r] \in {{}, {"ok"}}
    /\ DropPasskey(r) =>
         /\ pc'[r] = "done"
         /\ answer'[r] = {"ok"}
PROOF
  <1> USE DEF At, Goto, Answers, Reads, Writes, Finishes, Refuse
  <1>0. DOMAIN pc = Requests /\ DOMAIN answer = Requests
    BY DEF TypeOK
  <1>1. RouteOK(r) /\ (pc[r] # "done" => answer[r] = {})
    BY DEF HandlersOK, HandlerOK, CallOK
  <1>2. \A op : pc[r] = op /\ op \in Operations => Op(r) = op
    BY <1>1 DEF RouteOK
  <1>3. ASSUME CreateSession(r)
        PROVE  /\ pc'[r] \in {"intercept", "consume", "drop-device", "done"}
               /\ pc'[r] = "done" => answer'[r] = {"session"}
    BY <1>0, <1>1, <1>3 DEF CreateSession
  <1>4. ASSUME Consume(r)
        PROVE  /\ pc'[r] \in {"trust", "done"}
               /\ pc'[r] = "done" => answer'[r] \in {{"ok"}, {"session"}}
    BY <1>0, <1>1, <1>4 DEF Consume
  <1>5. ASSUME ClearCodes(r)
        PROVE  pc'[r] = "mint"
    BY <1>0, <1>1, <1>5 DEF ClearCodes
  <1>6. ASSUME MintCode(r)
        PROVE  /\ pc'[r] = "done"
               /\ answer'[r] = {"code"}
    BY <1>0, <1>1, <1>6 DEF MintCode
  <1>7. ASSUME DropCode(r)
        PROVE  /\ pc'[r] = "done"
               /\ answer'[r] = {}
    BY <1>0, <1>1, <1>7 DEF DropCode
  <1>8. ASSUME CountFailure(r)
        PROVE  /\ pc'[r] = "done"
               /\ answer'[r] = {}
    BY <1>0, <1>1, <1>8 DEF CountFailure
  <1>9. ASSUME SpendCode(r)
        PROVE  pc'[r] \in {"valid", "flag", "resolve-phone", "find-account"}
    BY <1>0, <1>1, <1>9 DEF SpendCode, AfterSpending, RouteOK, CodeSpenders
  <1>10. ASSUME SignIn(r)
         PROVE  pc'[r] = "session"
    BY <1>0, <1>1, <1>10 DEF SignIn
  <1>11. ASSUME Intercept(r)
         PROVE  /\ pc'[r] \in {"done", "rotate", "tear-down"}
                /\ pc'[r] = "done" => answer'[r] = {"session"}
    BY <1>0, <1>1, <1>11 DEF Intercept
  <1>12. ASSUME Rotate(r)
         PROVE  pc'[r] = "trust"
    BY <1>0, <1>1, <1>12 DEF Rotate
  <1>13. ASSUME IssueTrustDevice(r)
         PROVE  /\ pc'[r] = "done"
                /\ answer'[r] = {"session", "trust"}
    BY <1>0, <1>1, <1>13 DEF IssueTrustDevice
  <1>14. ASSUME TearDown(r)
         PROVE  pc'[r] = "challenge"
    BY <1>0, <1>1, <1>14 DEF TearDown
  <1>15. ASSUME Challenge(r)
         PROVE  /\ pc'[r] = "done"
                /\ answer'[r] = {"challenge"}
    BY <1>0, <1>1, <1>15 DEF Challenge
  <1>16. ASSUME SecondFactor(r)
         PROVE  /\ pc'[r] \in {"done", "valid", "verified", "flag", "strike", "drop-code", "spend", "miscount", "clear"}
                /\ pc'[r] = "done" => answer'[r] = {}
    <2>1. Op(r) = pc[r] /\ pc[r] \in {"verify-totp", "verify-otp", "verify-backup", "send-otp"}
      BY <1>16, <1>1, Places, Zenon DEF RouteOK, Operations, SecondFactors
    <2>2. CASE Op(r) = "verify-totp"
      BY <1>0, <1>1, <1>16, <2>1, <2>2 DEF SecondFactor, VerifyTotpOf
    <2>3. CASE Op(r) = "verify-otp"
      BY <1>0, <1>1, <1>16, <2>1, <2>3 DEF SecondFactor, CheckCode
    <2>4. CASE Op(r) = "verify-backup"
      BY <1>0, <1>1, <1>16, <2>1, <2>4 DEF SecondFactor, VerifyBackupOf
    <2>5. CASE Op(r) = "send-otp"
      BY <1>0, <1>1, <1>16, <2>1, <2>5 DEF SecondFactor
    <2> QED BY <2>1, <2>2, <2>3, <2>4, <2>5, Zenon
  <1>17. ASSUME StrikeBackup(r)
         PROVE  /\ pc'[r] \in {"done", "valid"}
                /\ pc'[r] = "done" => answer'[r] = {"ok"}
    BY <1>0, <1>1, <1>17 DEF StrikeBackup
  <1>18. ASSUME RaiseFlag(r)
         PROVE  pc'[r] \in {"existing", "verified", "valid"}
    BY <1>0, <1>1, <1>18 DEF RaiseFlag, RouteOK
  <1>19. ASSUME MarkVerified(r)
         PROVE  pc'[r] = "valid"
    BY <1>0, <1>1, <1>19 DEF MarkVerified
  <1>20. ASSUME Valid(r)
         PROVE  /\ pc'[r] \in {"done", "session"}
                /\ pc'[r] = "done" => answer'[r] = {"ok"}
    BY <1>0, <1>1, <1>20 DEF Valid
  <1>21. ASSUME Manage(r)
         PROVE  /\ pc'[r] \in {"done", "flag", "existing", "lower", "renew"}
                /\ pc'[r] = "done" => answer'[r] = {}
    <2>1. Op(r) = pc[r] /\ pc[r] \in {"enable", "disable", "generate-backup"}
      BY <1>21, <1>1, Places, Zenon DEF RouteOK, Operations, SecondFactors
    <2>2. CASE Op(r) = "enable"
      BY <1>0, <1>1, <1>21, <2>1, <2>2 DEF Manage
    <2>3. CASE Op(r) = "disable"
      BY <1>0, <1>1, <1>21, <2>1, <2>3 DEF Manage
    <2>4. CASE Op(r) = "generate-backup"
      BY <1>0, <1>1, <1>21, <2>1, <2>4 DEF Manage
    <2> QED BY <2>1, <2>2, <2>3, <2>4, Zenon
  <1>22. ASSUME FindExisting(r)
         PROVE  pc'[r] = "replace"
    BY <1>0, <1>1, <1>22 DEF FindExisting
  <1>23. ASSUME DropFactors(r)
         PROVE  /\ pc'[r] \in {"enrol", "revoke", "done"}
                /\ pc'[r] = "done" => answer'[r] = {"ok"}
    BY <1>0, <1>1, <1>23 DEF DropFactors
  <1>24. ASSUME Enrol(r)
         PROVE  /\ pc'[r] = "done"
                /\ answer'[r] = {"ok"}
    BY <1>0, <1>1, <1>24 DEF Enrol
  <1>25. ASSUME LowerFlag(r)
         PROVE  pc'[r] = "drop-factor"
    BY <1>0, <1>1, <1>25 DEF LowerFlag
  <1>26. ASSUME RevokeTrust(r)
         PROVE  /\ pc'[r] = "done"
                /\ answer'[r] = {"ok"}
    BY <1>0, <1>1, <1>26 DEF RevokeTrust
  <1>27. ASSUME RenewBackup(r)
         PROVE  /\ pc'[r] = "done"
                /\ answer'[r] = {"ok"}
    BY <1>0, <1>1, <1>27 DEF RenewBackup
  <1>28. ASSUME PhoneSignIn(r)
         PROVE  /\ pc'[r] \in {"done", "clear", "session"}
                /\ pc'[r] = "done" => answer'[r] = {}
    BY <1>0, <1>1, <1>28 DEF PhoneSignIn
  <1>29. ASSUME PhoneSend(r)
         PROVE  /\ pc'[r] \in {"done", "clear"}
                /\ pc'[r] = "done" => answer'[r] = {}
    BY <1>0, <1>1, <1>29 DEF PhoneSend
  <1>30. ASSUME PhoneCode(r)
         PROVE  /\ pc'[r] \in {"done", "drop-code", "spend", "miscount"}
                /\ pc'[r] = "done" => answer'[r] = {}
    BY <1>0, <1>1, <1>30 DEF PhoneCode, CheckCode
  <1>31. ASSUME ResolvePhone(r)
         PROVE  pc'[r] \in {"sign-up", "echo", "session", "verify-phone"}
    BY <1>0, <1>1, <1>31 DEF ResolvePhone, AfterPhone
  <1>32. ASSUME PhoneSignUp(r)
         PROVE  /\ pc'[r] \in {"done", "echo", "session"}
                /\ pc'[r] = "done" => answer'[r] = {}
    BY <1>0, <1>1, <1>32 DEF PhoneSignUp, AfterPhone
  <1>33. ASSUME VerifyPhone(r)
         PROVE  pc'[r] \in {"echo", "session"}
    BY <1>0, <1>1, <1>33 DEF VerifyPhone, AfterPhone
  <1>34. ASSUME PhoneEcho(r)
         PROVE  /\ pc'[r] = "done"
                /\ answer'[r] = {"ok"}
    BY <1>0, <1>1, <1>34 DEF PhoneEcho
  <1>35. ASSUME FindAccount(r)
         PROVE  /\ pc'[r] \in {"done", "set-password"}
                /\ pc'[r] = "done" => answer'[r] = {}
    BY <1>0, <1>1, <1>35 DEF FindAccount
  <1>36. ASSUME SetPassword(r)
         PROVE  /\ pc'[r] = "done"
                /\ answer'[r] = {"ok"}
    BY <1>0, <1>1, <1>36 DEF SetPassword
  <1>37. ASSUME IssueNonce(r)
         PROVE  /\ pc'[r] = "done"
                /\ answer'[r] = {"code"}
    BY <1>0, <1>1, <1>37 DEF IssueNonce
  <1>38. ASSUME VerifyWallet(r)
         PROVE  /\ pc'[r] \in {"done", "burn"}
                /\ pc'[r] = "done" => answer'[r] = {}
    BY <1>0, <1>1, <1>38 DEF VerifyWallet
  <1>39. ASSUME BurnNonce(r)
         PROVE  pc'[r] = "resolve-wallet"
    BY <1>0, <1>1, <1>39 DEF BurnNonce
  <1>40. ASSUME ResolveWallet(r)
         PROVE  pc'[r] \in {"session", "wallet-user", "wallet-row"}
    BY <1>0, <1>1, <1>40 DEF ResolveWallet
  <1>41. ASSUME WalletUser(r)
         PROVE  /\ pc'[r] \in {"done", "wallet-row"}
                /\ pc'[r] = "done" => answer'[r] = {}
    BY <1>0, <1>1, <1>41 DEF WalletUser
  <1>42. ASSUME WalletRowFor(r)
         PROVE  pc'[r] = "wallet-account"
    BY <1>0, <1>1, <1>42 DEF WalletRowFor
  <1>43. ASSUME WalletAccount(r)
         PROVE  pc'[r] = "session"
    BY <1>0, <1>1, <1>43 DEF WalletAccount
  <1>44. ASSUME DeviceCode(r)
         PROVE  /\ pc'[r] = "done"
                /\ answer'[r] = {"code"}
    BY <1>0, <1>1, <1>44 DEF DeviceCode
  <1>45. ASSUME DeviceToken(r)
         PROVE  /\ pc'[r] \in {"done", "poll"}
                /\ pc'[r] = "done" => answer'[r] = {}
    BY <1>0, <1>1, <1>45 DEF DeviceToken
  <1>46. ASSUME Poll(r)
         PROVE  /\ pc'[r] \in {"drop-device", "session", "done"}
                /\ pc'[r] = "done" => answer'[r] = {}
    BY <1>0, <1>1, <1>46 DEF Poll
  <1>47. ASSUME DropDevice(r)
         PROVE  /\ pc'[r] = "done"
                /\ answer'[r] \in {{"session"}, {}}
    BY <1>0, <1>1, <1>47 DEF DropDevice
  <1>48. ASSUME DeviceVerify(r)
         PROVE  /\ pc'[r] \in {"done", "claim"}
                /\ pc'[r] = "done" => answer'[r] = {}
    BY <1>0, <1>1, <1>48 DEF DeviceVerify
  <1>49. ASSUME Claim(r)
         PROVE  /\ pc'[r] = "done"
                /\ answer'[r] = {}
    BY <1>0, <1>1, <1>49 DEF Claim
  <1>50. ASSUME SetStatus(r)
         PROVE  /\ pc'[r] \in {"done", "decide"}
                /\ pc'[r] = "done" => answer'[r] = {}
    BY <1>0, <1>1, <1>50 DEF SetStatus
  <1>51. ASSUME Decide(r)
         PROVE  /\ pc'[r] = "done"
                /\ answer'[r] = {"ok"}
    BY <1>0, <1>1, <1>51 DEF Decide
  <1>52. ASSUME PasskeyOptions(r)
         PROVE  /\ pc'[r] = "done"
                /\ answer'[r] \in {{}, {"challenge"}}
    BY <1>0, <1>1, <1>52 DEF PasskeyOptions
  <1>53. ASSUME RegisterPasskey(r)
         PROVE  /\ pc'[r] \in {"done", "passkey-row"}
                /\ pc'[r] = "done" => answer'[r] = {}
    BY <1>0, <1>1, <1>53 DEF RegisterPasskey
  <1>54. ASSUME InsertPasskey(r)
         PROVE  pc'[r] = "consume"
    BY <1>0, <1>1, <1>54 DEF InsertPasskey
  <1>55. ASSUME Authenticate(r)
         PROVE  /\ pc'[r] \in {"done", "counter"}
                /\ pc'[r] = "done" => answer'[r] = {}
    BY <1>0, <1>1, <1>55 DEF Authenticate
  <1>56. ASSUME WriteCounter(r)
         PROVE  pc'[r] = "session"
    BY <1>0, <1>1, <1>56 DEF WriteCounter
  <1>57. ASSUME ManagePasskey(r)
         PROVE  /\ pc'[r] \in {"done", "drop-passkey"}
                /\ pc'[r] = "done" => answer'[r] \in {{}, {"ok"}}
    BY <1>0, <1>1, <1>57 DEF ManagePasskey
  <1>58. ASSUME DropPasskey(r)
         PROVE  /\ pc'[r] = "done"
                /\ answer'[r] = {"ok"}
    BY <1>0, <1>1, <1>58 DEF DropPasskey
  <1> QED BY <1>3, <1>4, <1>5, <1>6, <1>7, <1>8, <1>9, <1>10, <1>11, <1>12, <1>13, <1>14,
             <1>15, <1>16, <1>17, <1>18, <1>19, <1>20, <1>21, <1>22, <1>23, <1>24, <1>25,
             <1>26, <1>27, <1>28, <1>29, <1>30, <1>31, <1>32, <1>33, <1>34, <1>35, <1>36,
             <1>37, <1>38, <1>39, <1>40, <1>41, <1>42, <1>43, <1>44, <1>45, <1>46, <1>47,
             <1>48, <1>49, <1>50, <1>51, <1>52, <1>53, <1>54, <1>55, <1>56, <1>57, <1>58, Zenon

LEMMA DisableStages ==
  ASSUME TypeOK, NEW r \in Requests, RouteOK(r), Op(r) = "disable", pc[r] \notin {"idle", "done"}
  PROVE  pc[r] \in {"disable", "lower", "drop-factor", "revoke"}
PROOF
  <1>1. pc[r] \in Operations \cup Stages
    BY DEF TypeOK
  <1>2. CASE pc[r] \in Operations
    BY <1>2 DEF RouteOK
  <1>3. CASE pc[r] \in Stages
    BY <1>3 DEF RouteOK, Stages, SessionOps, PasswordSignIns, SecondFactors, CookieOps, CodeSenders,
       CodeSpenders
  <1> QED BY <1>1, <1>2, <1>3

LEMMA HandleGentle ==
  ASSUME TypeOK, HandlersOK, UsersOK, NEW r \in Requests, Handle(r)
  PROVE  Gentle(r)
PROOF
  <1>1. /\ \A q \in Requests \ {r} :
             pc'[q] = pc[q] /\ mem'[q] = mem[q] /\ answer'[q] = answer[q] /\ call'[q] = call[q]
        /\ call' = call /\ config' = config /\ pc[r] \notin {"idle", "done"}
    BY OthersStay
  <1>2. ASSUME NEW q \in Requests \ {r}, HasSession(q)'
        PROVE  HasSession(q)
    BY <1>2, SessionTable DEF SessionMove, HasSession
  <1>3. ASSUME NEW u, Known(u)
        PROVE  Known(u)' /\ db'.user[u].phone = db.user[u].phone
    BY <1>3, UserTable DEF UserMove, Known
  <1>4. ASSUME NEW u, AlwaysProtected(u)'
        PROVE  AlwaysProtected(u)
    <2>1. u \in Users /\ Seeds[config.scenario].user[u].twoFactor
      BY <1>1, <1>4 DEF AlwaysProtected
    <2>2. \A q \in Requests \ {r} : ~(pc[q] # "idle" /\ Op(q) = "disable" /\ User(q) = u)
      BY <1>1, <1>4 DEF AlwaysProtected, Op, User
    <2>3. ASSUME Op(r) = "disable", User(r) = u
          PROVE  FALSE
      <3>1. RouteOK(r) /\ UserFound(r)
        BY DEF HandlersOK, HandlerOK
      <3>2. User(r) # None
        BY <2>1, <2>3, NoneApart
      <3>3. pc[r] \in {"lower", "drop-factor", "revoke"}
        BY <1>1, <2>3, <3>1, <3>2, DisableStages DEF UserFound, Operations
      <3>4. LowerFlag(r) \/ DropFactors(r) \/ RevokeTrust(r)
        BY <3>3, Where
      <3>5. mem' = mem
        BY <3>4 DEF LowerFlag, DropFactors, RevokeTrust, Writes, Finishes
      <3>6. pc'[r] # "idle"
        BY <3>4, Leads
      <3> QED BY <1>1, <1>4, <2>3, <3>5, <3>6 DEF AlwaysProtected, Op, User
    <2> QED BY <2>1, <2>2, <2>3 DEF AlwaysProtected
  <1>5. db.wallet \subseteq db'.wallet
    BY WalletTable
  <1> QED BY <1>1, <1>2, <1>3, <1>4, <1>5 DEF Gentle

LEMMA BeginGentle ==
  ASSUME TypeOK, HandlersOK, NEW r \in Requests, NEW c \in Calls[config.scenario], Begin(r, c)
  PROVE  Gentle(r)
PROOF
  <1>1. /\ pc[r] = "idle" /\ pc' = [pc EXCEPT ![r] = c.op] /\ call' = [call EXCEPT ![r] = c]
        /\ config' = config /\ db' = db /\ mem' = mem /\ answer' = answer
        /\ DOMAIN pc = Requests /\ DOMAIN call = Requests
    BY DEF Begin, At, Goto, TypeOK
  <1>2. \A q \in Requests \ {r} :
          pc'[q] = pc[q] /\ mem'[q] = mem[q] /\ answer'[q] = answer[q] /\ call'[q] = call[q]
    BY <1>1
  <1>3. /\ \A q : HasSession(q)' => HasSession(q)
        /\ \A u : Known(u) => Known(u)'
    BY <1>1 DEF HasSession, Known
  <1>4. ASSUME NEW u, AlwaysProtected(u)'
        PROVE  AlwaysProtected(u)
    <2>1. u \in Users /\ Seeds[config.scenario].user[u].twoFactor
      BY <1>1, <1>4 DEF AlwaysProtected
    <2>2. \A q \in Requests \ {r} : ~(pc[q] # "idle" /\ Op(q) = "disable" /\ User(q) = u)
      BY <1>1, <1>2, <1>4 DEF AlwaysProtected, Op, User
    <2> QED BY <1>1, <2>1, <2>2 DEF AlwaysProtected
  <1> QED BY <1>1, <1>2, <1>3, <1>4 DEF Gentle

\* Time passes for nobody in particular.
LEMMA TickGentle ==
  ASSUME UNCHANGED <<config, db, pc, call, mem, answer>>
  PROVE  Gentle(None)
PROOF
  <1>1. None \notin Requests
    BY NoneApart
  <1>2. /\ \A q : HasSession(q)' = HasSession(q)
        /\ \A u : Known(u)' = Known(u)
        /\ \A u : AlwaysProtected(u)' = AlwaysProtected(u)
    BY DEF HasSession, Known, AlwaysProtected, Op, User
  <1> QED BY <1>1, <1>2 DEF Gentle

-----------------------------------------------------------------------------
(* The tables after a step of a handler                                     *)

LEMMA UsersStay ==
  ASSUME TypeOK, HandlersOK, UsersOK, NEW r \in Requests, Handle(r)
  PROVE  UsersOK'
PROOF
  <1>1. Gentle(r) /\ UserMove(r) /\ RouteOK(r) /\ pc[r] \notin {"idle", "done"}
    BY HandleGentle, UserTable, OthersStay DEF HandlersOK, HandlerOK
  <1>2. \A u \in Users : db'.user[u] # None
    BY <1>1 DEF UsersOK, UserMove, Ids
  <1>3. ASSUME NEW q \in Requests, db'.user[q] # None
        PROVE  /\ pc'[q] \in {"echo", "session", "wallet-row", "wallet-account", "done"}
               /\ Op(q)' \in {"phone-verify", "siwe-verify"}
    <2>1. call' = call
      BY OthersStay
    <2>2. CASE q # r
      <3>1. db.user[q] # None /\ pc'[q] = pc[q]
        BY <1>1, <1>3, <2>2 DEF UserMove, Gentle, Ids
      <3> QED BY <2>1, <3>1 DEF UsersOK, Op
    <2>3. CASE q = r /\ db.user[r] = None
      <3>1. \/ pc[r] = "sign-up" /\ pc'[r] \in {"echo", "session"}
            \/ pc[r] = "wallet-user" /\ pc'[r] = "wallet-row"
        BY <1>1, <1>3, <2>3 DEF UserMove, Ids
      <3> QED BY <1>1, <2>1, <2>3, <3>1 DEF RouteOK, Op
    <2>4. CASE q = r /\ db.user[r] # None
      <3>1. /\ pc[r] \in {"echo", "session", "wallet-row", "wallet-account"}
            /\ Op(r) \in {"phone-verify", "siwe-verify"}
        BY <1>1, <2>4 DEF UsersOK
      <3>2. CASE pc[r] = "session"
        <4>1. CreateSession(r)
          BY <3>2, Where
        <4>2. Op(r) \notin PasswordSignIns \cup SecondFactors \cup {"passkey-authenticate", "device-token"}
          BY <3>1 DEF PasswordSignIns, SecondFactors
        <4>3. pc' = [pc EXCEPT ![r] = "done"]
          BY <4>1, <4>2 DEF CreateSession, Finishes, Answers, Goto
        <4>4. pc'[r] = "done"
          BY <4>3 DEF TypeOK
        <4> QED BY <2>1, <2>4, <3>1, <4>4 DEF Op
      <3>3. CASE pc[r] # "session"
        <4>1. PhoneEcho(r) \/ WalletRowFor(r) \/ WalletAccount(r)
          BY <3>1, <3>3, Where
        <4> QED BY <2>1, <2>4, <3>1, <4>1, Leads DEF Op
      <3> QED BY <3>2, <3>3
    <2> QED BY <2>2, <2>3, <2>4
  <1>4. ASSUME NEW u \in Users, AlwaysProtected(u)'
        PROVE  db'.user[u].twoFactor
    <2>1. AlwaysProtected(u) /\ db.user[u] # None /\ db.user[u].twoFactor
      BY <1>1, <1>4 DEF Gentle, UsersOK
    <2>2. ~(u = User(r) /\ pc[r] = "lower")
      BY <1>1, <2>1 DEF AlwaysProtected, RouteOK
    <2> QED BY <1>1, <2>1, <2>2 DEF UserMove, Ids
  <1> QED BY <1>2, <1>3, <1>4 DEF UsersOK

LEMMA SessionsStay ==
  ASSUME TypeOK, HandlersOK, UsersOK, SessionsOK, NEW r \in Requests, Handle(r)
  PROVE  SessionsOK' /\ db'.session \subseteq SessionRow
PROOF
  <1>0. r \in Ids /\ db.session \subseteq SessionRow /\ User(r) \in Ids \cup {None}
    BY Types DEF Ids, TypeOK, User
  <1>1. /\ Gentle(r) /\ SessionMove(r) /\ HandlerOK(r) /\ pc[r] \notin {"idle", "done"}
    BY HandleGentle, SessionTable, OthersStay DEF HandlersOK
  <1>2. pc[r] = "session" => Known(User(r))
    BY <1>1 DEF HandlerOK, UserFound, Identified
  <1>3. db'.session \subseteq SessionRow
    BY <1>0, <1>1, <1>2 DEF SessionMove, SessionRow, Known
  <1>4. ASSUME NEW s \in db'.session
        PROVE  Known(s.user)'
    <2>1. Known(s.user)
      BY <1>1, <1>2 DEF SessionMove, SessionsOK
    <2> QED BY <1>1, <2>1 DEF Gentle
  <1>5. ASSUME NEW s \in db'.session, s.id \in Requests
        PROVE  /\ pc'[s.id] \in {"intercept", "rotate", "trust", "tear-down", "consume",
                                 "drop-device", "done"}
               /\ "challenge" \notin answer'[s.id]
    <2>1. CASE s.id # r
      <3>1. s \in db.session
        BY <1>1, <2>1 DEF SessionMove
      <3> QED BY <1>1, <1>5, <2>1, <3>1 DEF Gentle, SessionsOK
    <2>2. CASE s.id = r
      <3>1. pc[r] \in {"session", "intercept", "rotate", "trust", "consume", "drop-device"}
        <4>1. pc[r] # "tear-down"
          BY <1>1, <2>2 DEF SessionMove
        <4>2. pc[r] # "session" => s \in db.session
          BY <1>1, <4>1 DEF SessionMove
        <4> QED BY <1>1, <2>2, <4>1, <4>2 DEF SessionsOK
      <3>2. \/ CreateSession(r) \/ Intercept(r) \/ Rotate(r) \/ IssueTrustDevice(r)
            \/ Consume(r) \/ DropDevice(r)
        BY <3>1, Where
      <3>3. pc'[r] # "done" => answer'[r] = {}
        BY <1>1, OthersStay DEF HandlerOK, CallOK
      <3>4. pc'[r] \in {"intercept", "rotate", "trust", "tear-down", "consume", "drop-device", "done"}
        BY <3>2, Leads
      <3>5. pc'[r] = "done" => "challenge" \notin answer'[r]
        BY <3>2, Leads
      <3> QED BY <2>2, <3>3, <3>4, <3>5
    <2> QED BY <2>1, <2>2
  <1> QED BY <1>3, <1>4, <1>5 DEF SessionsOK

LEMMA VerificationsStay ==
  ASSUME TypeOK, HandlersOK, UsersOK, SessionsOK, VerificationsOK, NEW r \in Requests, Handle(r)
  PROVE  VerificationsOK' /\ db'.verification \subseteq VerificationRow
PROOF
  <1>1. Gentle(r) /\ pc[r] # "done"
    BY HandleGentle, OthersStay
  <1>2. db'.verification \subseteq VerificationRow
    BY VerificationRows
  <1>3. ASSUME NEW w \in db.verification, w.id \in Requests
        PROVE  w.id # r /\ pc'[w.id] = "done" /\ Minted(w, w.id)'
    <2>1. pc[w.id] = "done" /\ Minted(w, w.id)
      BY <1>3 DEF VerificationsOK
    <2>2. Minted(w, w.id)'
      BY <1>1, <1>3, <2>1, DoneStays
    <2> QED BY <1>1, <1>3, <2>1, <2>2 DEF Gentle
  <1>4. ASSUME NEW v \in db'.verification
        PROVE  /\ v.id \in Users => v.identifier = <<"trust", v.id>> /\ v.holder = v.id
               /\ v.id \in Requests => pc'[v.id] = "done" /\ Minted(v, v.id)'
    <2>1. CASE v \in db.verification
      BY <1>3, <2>1 DEF VerificationsOK
    <2>2. ASSUME NEW w \in db.verification,
                 v.id = w.id, v.identifier = w.identifier, v.holder = w.holder
          PROVE  /\ v.id \in Users => v.identifier = <<"trust", v.id>> /\ v.holder = v.id
                 /\ v.id \in Requests => pc'[v.id] = "done" /\ Minted(v, v.id)'
      <3>1. w.id \in Users => w.identifier = <<"trust", w.id>> /\ w.holder = w.id
        BY DEF VerificationsOK
      <3>2. w.id \in Requests => Minted(v, w.id)'
        BY <1>3, <2>2 DEF Minted
      <3> QED BY <1>3, <2>2, <3>1, <3>2
    <2>3. CASE pc'[r] = "done" /\ v.id = r /\ Minted(v, r)'
      BY <2>3, ConstantsAssumption
    <2> QED BY <2>1, <2>2, <2>3, VerificationRows
  <1> QED BY <1>2, <1>4 DEF VerificationsOK

LEMMA PasskeysStay ==
  ASSUME TypeOK, HandlersOK, UsersOK, PasskeysOK, NEW r \in Requests, Handle(r)
  PROVE  PasskeysOK' /\ db'.passkey \subseteq PasskeyRow
PROOF
  <1>0. r \notin Users /\ \A u \in Users : u \notin Requests
    BY ConstantsAssumption
  <1>1. /\ Gentle(r) /\ PasskeyMove(r) /\ HandlerOK(r) /\ pc[r] \notin {"idle", "done"}
        /\ db.passkey \subseteq PasskeyRow
    BY HandleGentle, PasskeyTable, OthersStay, Types DEF HandlersOK
  <1>2. call' = call
    BY OthersStay
  <1>3. ASSUME NEW p \in db.passkey
        PROVE  /\ Known(p.user)' /\ p.user = UserOf(p.id)'
               /\ p.id \in Requests => pc'[p.id] \in {"consume", "done"} /\ Op(p.id)' = "passkey-register"
    <2>1. Known(p.user)'
      BY <1>1 DEF PasskeysOK, Gentle
    <2>2. CASE p.id \in Users
      BY <1>0, <2>1, <2>2 DEF PasskeysOK, UserOf
    <2>3. CASE p.id \in Requests \ {r}
      BY <1>0, <1>1, <1>2, <2>1, <2>3 DEF PasskeysOK, UserOf, Gentle, Op
    <2>4. CASE p.id = r
      <3>1. pc[r] = "consume" /\ Op(r) = "passkey-register"
        BY <1>1, <2>4 DEF PasskeysOK
      <3>2. Consume(r)
        BY <3>1, Where
      <3>3. mem' = mem /\ pc' = [pc EXCEPT ![r] = "done"]
        BY <3>1, <3>2 DEF Consume, Finishes, Answers, Goto
      <3>4. pc'[r] = "done"
        BY <3>3 DEF TypeOK
      <3> QED BY <1>0, <1>2, <2>1, <2>4, <3>1, <3>3, <3>4 DEF PasskeysOK, UserOf, Op
    <2> QED BY <1>1, <2>2, <2>3, <2>4 DEF PasskeyRow, Ids
  <1>4. ASSUME pc[r] = "passkey-row", pc'[r] = "consume"
        PROVE  /\ Known(User(r))' /\ User(r) = UserOf(r)' /\ Op(r)' = "passkey-register"
    <2>1. InsertPasskey(r) /\ Known(User(r)) /\ Op(r) = "passkey-register"
      BY <1>1, <1>4, Where DEF HandlerOK, UserFound, Identified, RouteOK
    <2>2. mem' = mem
      BY <2>1 DEF InsertPasskey, Writes
    <2>3. Known(User(r))' /\ UserOf(r)' = User(r)
      BY <1>0, <1>1, <2>1, <2>2 DEF Gentle, UserOf, User, Known
    <2> QED BY <1>2, <2>1, <2>3 DEF Op
  <1>5. ASSUME NEW p \in db'.passkey
        PROVE  /\ p \in PasskeyRow /\ Known(p.user)' /\ p.user = UserOf(p.id)'
               /\ p.id \in Requests => pc'[p.id] \in {"consume", "done"} /\ Op(p.id)' = "passkey-register"
    <2>1. CASE \E old \in db.passkey : p.id = old.id /\ p.user = old.user
      BY <1>1, <1>3, <2>1 DEF PasskeyMove
    <2>2. CASE pc[r] = "passkey-row" /\ pc'[r] = "consume" /\ p.id = r /\ p.user = User(r)
      <3>1. Known(p.user)'
        <4>1. Known(p.user)
          BY <1>1, <2>2 DEF HandlerOK, UserFound, Identified
        <4> QED BY <1>1, <4>1 DEF Gentle
      <3> QED BY <1>1, <1>4, <2>2, <3>1 DEF PasskeyMove
    <2> QED BY <1>1, <2>1, <2>2 DEF PasskeyMove
  <1> QED BY <1>5 DEF PasskeysOK

LEMMA WalletsStay ==
  ASSUME TypeOK, HandlersOK, UsersOK, \A w \in db.wallet : Known(w.user),
         NEW r \in Requests, Handle(r)
  PROVE  (\A w \in db'.wallet : Known(w.user)') /\ db'.wallet \subseteq WalletRow
PROOF
  <1>0. r \in Ids /\ db.wallet \subseteq WalletRow
    BY Types DEF Ids
  <1>1. Gentle(r) /\ HandlerOK(r)
    BY HandleGentle DEF HandlersOK
  <1>2. \A w \in db.wallet : Known(w.user)'
    BY <1>1 DEF Gentle
  <1>3. CASE db'.wallet = db.wallet
    BY <1>0, <1>2, <1>3
  <1>4. CASE pc[r] = "wallet-row" /\ db'.wallet =
               db.wallet \cup {[id |-> r, wallet |-> call[r].who, user |-> User(r)]}
    <2>1. Known(User(r)) /\ Op(r) = "siwe-verify" /\ call[r] # None
      BY <1>1, <1>4 DEF HandlerOK, UserFound, Identified, RouteOK, CallOK
    <2>2. call[r].who \in Wallets
      BY <2>1, Calling, Naming DEF WalletOps, Op
    <2> DEFINE new == [id |-> r, wallet |-> call[r].who, user |-> User(r)]
    <2>3. new \in WalletRow /\ new.user = User(r)
      BY <1>0, <2>1, <2>2 DEF WalletRow, Known
    <2>4. PICK u : u = User(r)
      OBVIOUS
    <2>5. Known(u)'
      BY <1>1, <2>1, <2>4 DEF Gentle
    <2> HIDE DEF new
    <2>6. db'.wallet = db.wallet \cup {new}
      BY <1>4 DEF new
    <2> QED BY <1>0, <1>2, <2>3, <2>4, <2>5, <2>6
  <1> QED BY <1>3, <1>4, WalletTable

LEMMA DevicesStay ==
  ASSUME TypeOK, HandlersOK, UsersOK, NEW r \in Requests, Handle(r),
         \A d \in db.device : d.id \in Requests /\ pc[d.id] = "done" /\ DeviceOK(d)
  PROVE  /\ \A d \in db'.device : d.id \in Requests /\ pc'[d.id] = "done" /\ DeviceOK(d)'
         /\ db'.device \subseteq DeviceRow
PROOF
  <1>1. /\ Gentle(r) /\ HandlerOK(r) /\ DeviceMove(r) /\ call' = call
        /\ db.device \subseteq DeviceRow
    BY HandleGentle, DeviceTable, OthersStay, Types DEF HandlersOK
  <1>2. db'.device \subseteq DeviceRow
    BY <1>1 DEF DeviceMove
  <1>3. ASSUME NEW old \in db.device
        PROVE  old.id \in Requests /\ pc'[old.id] = "done" /\ DeviceOK(old)'
    BY <1>1, DoneStays DEF Gentle
  <1>4. ASSUME NEW d \in db'.device
        PROVE  d.id \in Requests /\ pc'[d.id] = "done" /\ DeviceOK(d)'
    <2>1. ASSUME NEW old \in db.device, d.id = old.id, d.user = old.user, d.status = old.status
          PROVE  d.id \in Requests /\ pc'[d.id] = "done" /\ DeviceOK(d)'
      BY <1>3, <2>1 DEF DeviceOK
    <2>2. ASSUME NEW old \in db.device, d.id = old.id, pc[r] = "claim", pc'[r] = "done",
                 old.id = call[r].device, d.user = User(r), d.status = "pending"
          PROVE  d.id \in Requests /\ pc'[d.id] = "done" /\ DeviceOK(d)'
      <3>1. Claim(r) /\ Known(User(r)) /\ Op(r) = "device-verify"
        BY <1>1, <2>2, Where DEF HandlerOK, UserFound, Identified, RouteOK
      <3>2. mem' = mem
        BY <3>1 DEF Claim, Finishes
      <3>3. HasDone("device-verify", d.id, d.user)'
        BY <1>1, <2>2, <3>1, <3>2 DEF HasDone, Op, User
      <3>4. Known(d.user)'
        BY <1>1, <2>2, <3>1 DEF Gentle
      <3> QED BY <1>3, <2>2, <3>3, <3>4 DEF DeviceOK
    <2>3. ASSUME NEW old \in db.device, d.id = old.id, pc[r] = "decide", pc'[r] = "done",
                 old.id = call[r].device, d.user = User(r),
                 d.status = "approved" => Op(r) = "device-approve"
          PROVE  d.id \in Requests /\ pc'[d.id] = "done" /\ DeviceOK(d)'
      <3>1. Decide(r) /\ Known(User(r)) /\ HasDone("device-verify", d.id, d.user)
        BY <1>1, <2>3, Where DEF HandlerOK, UserFound, Identified, DueOK, DecisionDue
      <3>2. mem' = mem
        BY <3>1 DEF Decide, Finishes
      <3>3. d.status = "approved" => HasDone("device-approve", d.id, d.user)'
        BY <1>1, <2>3, <3>2 DEF HasDone, Op, User
      <3>4. Known(d.user)' /\ HasDone("device-verify", d.id, d.user)' /\ d.user # None
        BY <1>1, <2>3, <3>1, DoneStays, NoneApart DEF Gentle, Known
      <3> QED BY <1>3, <2>3, <3>3, <3>4 DEF DeviceOK
    <2>4. CASE d.id = r /\ pc'[r] = "done" /\ d.user = None /\ d.status = "pending"
      BY <2>4 DEF DeviceOK
    <2>5. CASE \E old \in db.device :
            /\ d.id = old.id
            /\ \/ d.user = old.user /\ d.status = old.status
               \/ /\ pc[r] = "claim" /\ pc'[r] = "done" /\ old.id = call[r].device
                  /\ d.user = User(r) /\ d.status = "pending"
               \/ /\ pc[r] = "decide" /\ pc'[r] = "done" /\ old.id = call[r].device
                  /\ d.user = User(r) /\ (d.status = "approved" => Op(r) = "device-approve")
      <3>1. PICK old \in db.device :
              /\ d.id = old.id
              /\ \/ d.user = old.user /\ d.status = old.status
                 \/ /\ pc[r] = "claim" /\ pc'[r] = "done" /\ old.id = call[r].device
                    /\ d.user = User(r) /\ d.status = "pending"
                 \/ /\ pc[r] = "decide" /\ pc'[r] = "done" /\ old.id = call[r].device
                    /\ d.user = User(r) /\ (d.status = "approved" => Op(r) = "device-approve")
        BY <2>5
      <3> QED BY <2>1, <2>2, <2>3, <3>1, Zenon
    <2> QED BY <1>1, <2>4, <2>5, Zenon DEF DeviceMove
  <1> QED BY <1>2, <1>4

LEMMA HandleRows ==
  ASSUME TypeOK, HandlersOK, RowsOK, NEW r \in Requests, Handle(r)
  PROVE  RowsOK'
PROOF BY UsersStay, SessionsStay, VerificationsStay, PasskeysStay, WalletsStay, DevicesStay DEF RowsOK

-----------------------------------------------------------------------------
(* The handler that takes the step                                          *)

LEMMA Answered ==
  ASSUME TypeOK, HandlersOK, NEW r \in Requests, Handle(r)
  PROVE  answer'[r] \in Replies /\ pc'[r] \in {"done"} \cup Stages
PROOF
  <1>1. pc'[r] # "done" => answer'[r] = {}
    BY OthersStay DEF HandlersOK, HandlerOK, CallOK
  <1>2. (pc'[r] = "done" => answer'[r] \in Replies) /\ pc'[r] \in {"done"} \cup Stages
    <2>1. CASE CreateSession(r)
      BY <2>1, Leads DEF Replies, Stages
    <2>2. CASE Consume(r)
      BY <2>2, Leads DEF Replies, Stages
    <2>3. CASE ClearCodes(r)
      BY <2>3, Leads DEF Replies, Stages
    <2>4. CASE MintCode(r)
      BY <2>4, Leads DEF Replies, Stages
    <2>5. CASE DropCode(r)
      BY <2>5, Leads DEF Replies, Stages
    <2>6. CASE CountFailure(r)
      BY <2>6, Leads DEF Replies, Stages
    <2>7. CASE SpendCode(r)
      BY <2>7, Leads DEF Replies, Stages
    <2>8. CASE SignIn(r)
      BY <2>8, Leads DEF Replies, Stages
    <2>9. CASE Intercept(r)
      BY <2>9, Leads DEF Replies, Stages
    <2>10. CASE Rotate(r)
      BY <2>10, Leads DEF Replies, Stages
    <2>11. CASE IssueTrustDevice(r)
      BY <2>11, Leads DEF Replies, Stages
    <2>12. CASE TearDown(r)
      BY <2>12, Leads DEF Replies, Stages
    <2>13. CASE Challenge(r)
      BY <2>13, Leads DEF Replies, Stages
    <2>14. CASE SecondFactor(r)
      BY <2>14, Leads DEF Replies, Stages
    <2>15. CASE StrikeBackup(r)
      BY <2>15, Leads DEF Replies, Stages
    <2>16. CASE RaiseFlag(r)
      BY <2>16, Leads DEF Replies, Stages
    <2>17. CASE MarkVerified(r)
      BY <2>17, Leads DEF Replies, Stages
    <2>18. CASE Valid(r)
      BY <2>18, Leads DEF Replies, Stages
    <2>19. CASE Manage(r)
      BY <2>19, Leads DEF Replies, Stages
    <2>20. CASE FindExisting(r)
      BY <2>20, Leads DEF Replies, Stages
    <2>21. CASE DropFactors(r)
      BY <2>21, Leads DEF Replies, Stages
    <2>22. CASE Enrol(r)
      BY <2>22, Leads DEF Replies, Stages
    <2>23. CASE LowerFlag(r)
      BY <2>23, Leads DEF Replies, Stages
    <2>24. CASE RevokeTrust(r)
      BY <2>24, Leads DEF Replies, Stages
    <2>25. CASE RenewBackup(r)
      BY <2>25, Leads DEF Replies, Stages
    <2>26. CASE PhoneSignIn(r)
      BY <2>26, Leads DEF Replies, Stages
    <2>27. CASE PhoneSend(r)
      BY <2>27, Leads DEF Replies, Stages
    <2>28. CASE PhoneCode(r)
      BY <2>28, Leads DEF Replies, Stages
    <2>29. CASE ResolvePhone(r)
      BY <2>29, Leads DEF Replies, Stages
    <2>30. CASE PhoneSignUp(r)
      BY <2>30, Leads DEF Replies, Stages
    <2>31. CASE VerifyPhone(r)
      BY <2>31, Leads DEF Replies, Stages
    <2>32. CASE PhoneEcho(r)
      BY <2>32, Leads DEF Replies, Stages
    <2>33. CASE FindAccount(r)
      BY <2>33, Leads DEF Replies, Stages
    <2>34. CASE SetPassword(r)
      BY <2>34, Leads DEF Replies, Stages
    <2>35. CASE IssueNonce(r)
      BY <2>35, Leads DEF Replies, Stages
    <2>36. CASE VerifyWallet(r)
      BY <2>36, Leads DEF Replies, Stages
    <2>37. CASE BurnNonce(r)
      BY <2>37, Leads DEF Replies, Stages
    <2>38. CASE ResolveWallet(r)
      BY <2>38, Leads DEF Replies, Stages
    <2>39. CASE WalletUser(r)
      BY <2>39, Leads DEF Replies, Stages
    <2>40. CASE WalletRowFor(r)
      BY <2>40, Leads DEF Replies, Stages
    <2>41. CASE WalletAccount(r)
      BY <2>41, Leads DEF Replies, Stages
    <2>42. CASE DeviceCode(r)
      BY <2>42, Leads DEF Replies, Stages
    <2>43. CASE DeviceToken(r)
      BY <2>43, Leads DEF Replies, Stages
    <2>44. CASE Poll(r)
      BY <2>44, Leads DEF Replies, Stages
    <2>45. CASE DropDevice(r)
      BY <2>45, Leads DEF Replies, Stages
    <2>46. CASE DeviceVerify(r)
      BY <2>46, Leads DEF Replies, Stages
    <2>47. CASE Claim(r)
      BY <2>47, Leads DEF Replies, Stages
    <2>48. CASE SetStatus(r)
      BY <2>48, Leads DEF Replies, Stages
    <2>49. CASE Decide(r)
      BY <2>49, Leads DEF Replies, Stages
    <2>50. CASE PasskeyOptions(r)
      BY <2>50, Leads DEF Replies, Stages
    <2>51. CASE RegisterPasskey(r)
      BY <2>51, Leads DEF Replies, Stages
    <2>52. CASE InsertPasskey(r)
      BY <2>52, Leads DEF Replies, Stages
    <2>53. CASE Authenticate(r)
      BY <2>53, Leads DEF Replies, Stages
    <2>54. CASE WriteCounter(r)
      BY <2>54, Leads DEF Replies, Stages
    <2>55. CASE ManagePasskey(r)
      BY <2>55, Leads DEF Replies, Stages
    <2>56. CASE DropPasskey(r)
      BY <2>56, Leads DEF Replies, Stages
    <2> QED BY <2>1, <2>2, <2>3, <2>4, <2>5, <2>6, <2>7, <2>8, <2>9, <2>10, <2>11, <2>12,
               <2>13, <2>14, <2>15, <2>16, <2>17, <2>18, <2>19, <2>20, <2>21, <2>22, <2>23,
               <2>24, <2>25, <2>26, <2>27, <2>28, <2>29, <2>30, <2>31, <2>32, <2>33, <2>34,
               <2>35, <2>36, <2>37, <2>38, <2>39, <2>40, <2>41, <2>42, <2>43, <2>44, <2>45,
               <2>46, <2>47, <2>48, <2>49, <2>50, <2>51, <2>52, <2>53, <2>54, <2>55, <2>56, Zenon DEF Handle, SharedStep, TwoFactorStep, PhoneStep, WalletStep, DeviceStep, PasskeyStep
  <1> QED BY <1>1, <1>2 DEF Replies

\* What a handler knows when it takes a step.
LEMMA Here ==
  ASSUME TypeOK, HandlersOK, UsersOK, NEW r \in Requests, Handle(r)
  PROVE  /\ HandlerOK(r) /\ Gentle(r) /\ pc[r] \notin {"idle", "done"} /\ r \in Ids
         /\ call[r] \in Call /\ Named(call[r]) /\ Op(r) = call[r].op /\ Op(r) \in Operations
         /\ call' = call /\ config' = config /\ Op(r)' = Op(r) /\ Purpose(r)' = Purpose(r)
         /\ DOMAIN pc = Requests /\ DOMAIN mem = Requests
PROOF
  <1>1. HandlerOK(r) /\ Gentle(r) /\ pc[r] \notin {"idle", "done"} /\ call' = call /\ config' = config
    BY HandleGentle, OthersStay DEF HandlersOK
  <1>2. call[r] # None
    BY <1>1 DEF HandlerOK, CallOK
  <1> QED BY <1>1, <1>2, Calling DEF Op, Purpose, TypeOK, Ids

LEMMA HereToo ==
  ASSUME TypeOK, HandlersOK, UsersOK, NEW r \in Requests, Handle(r)
  PROVE  LET c == call[r] IN
         /\ \A x \in {c.session, c.cookie, c.trust, c.code, c.device} \cap Requests :
              x # r /\ pc[x] = "done" /\ pc'[x] = "done" /\ answer'[x] = answer[x]
         /\ \A x \in {c.cookie, c.trust, c.device} \cap Ids : UserOf(x)' = UserOf(x)
         /\ c.cookie \in Requests =>
              Op(c.cookie)' = Op(c.cookie) /\ User(c.cookie)' = User(c.cookie)
         /\ \A ops : SentBy(r, ops) => SentBy(r, ops)'
PROOF
  <1> DEFINE sent == {call[r].session, call[r].cookie, call[r].trust, call[r].code, call[r].device}
  <1>1. Gentle(r) /\ pc[r] \notin {"idle", "done"} /\ call' = call
    BY Here
  <1>2. ASSUME NEW x \in sent \cap Requests
        PROVE  /\ x # r /\ pc[x] = "done" /\ pc'[x] = "done" /\ answer'[x] = answer[x]
               /\ User(x)' = User(x) /\ Op(x)' = Op(x)
    <2>1. pc[x] = "done"
      BY <1>1, Presented
    <2> QED BY <1>1, <2>1 DEF Gentle, User, Op
  <1>3. ASSUME NEW x \in {call[r].cookie, call[r].trust, call[r].device} \cap Ids
        PROVE  UserOf(x)' = UserOf(x)
    BY <1>2 DEF UserOf, User, Ids
  <1>4. ASSUME NEW ops, SentBy(r, ops)
        PROVE  SentBy(r, ops)'
    <2>1. PICK q : q = call[r].code
      OBVIOUS
    <2>2. q \in Requests /\ Op(q) \in ops /\ call[q].who = call[r].who
      BY <1>4, <2>1 DEF SentBy
    <2>3. Op(q)' = Op(q)
      BY <1>2, <2>1, <2>2
    <2> QED BY <1>1, <2>1, <2>2, <2>3 DEF SentBy
  <1>5. call[r].cookie \in Requests =>
          Op(call[r].cookie)' = Op(call[r].cookie) /\ User(call[r].cookie)' = User(call[r].cookie)
    <2>1. PICK q : q = call[r].cookie
      OBVIOUS
    <2>2. q \in Requests => User(q)' = User(q) /\ Op(q)' = Op(q)
      BY <1>2, <2>1
    <2> QED BY <1>1, <2>1, <2>2 DEF User, Op
  <1>6. \A x \in sent \cap Requests :
          x # r /\ pc[x] = "done" /\ pc'[x] = "done" /\ answer'[x] = answer[x]
    BY <1>2
  <1>7. \A x \in {call[r].cookie, call[r].trust, call[r].device} \cap Ids : UserOf(x)' = UserOf(x)
    BY <1>3
  <1>8. \A ops : SentBy(r, ops) => SentBy(r, ops)'
    BY <1>4
  <1> QED BY <1>5, <1>6, <1>7, <1>8, Zenon

\* A handler that answers is through.
LEMMA Through ==
  ASSUME TypeOK, HandlersOK, UsersOK, NEW r \in Requests, Handle(r)
  PROVE  /\ CallOK(r)'
         /\ pc'[r] = "done" => HandlerOK(r)'
PROOF
  <1>1. PICK c : c = call[r]
    OBVIOUS
  <1>2. /\ HandlerOK(r) /\ Gentle(r) /\ pc[r] \notin {"idle", "done"}
        /\ call[r] \in Call /\ call' = call /\ User(r) \in Ids \cup {None}
    BY Here DEF TypeOK, User
  <1>3. CallOK(r)'
    <2>1. c # None /\ Presentable(c)
      BY <1>1, <1>2 DEF HandlerOK, CallOK
    <2>2. Presentable(c)'
      BY <1>1, <2>1, HereToo DEF Presentable, Got
    <2>3. answer'[r] \in Replies /\ (pc'[r] # "done" => answer'[r] = {})
      BY <1>2, Answered, OthersStay DEF HandlerOK, CallOK
    <2> QED BY <1>1, <1>2, <2>1, <2>2, <2>3 DEF CallOK
  <1>4. ASSUME pc'[r] = "done"
        PROVE  HandlerOK(r)'
    <2>1. mem'[r] = mem[r]
      BY <1>4, Moves DEF Went
    <2>2. UserFound(r)'
      BY <1>2, <1>4, <2>1 DEF HandlerOK, UserFound, Identified, Operations, User, Gentle,
         SecondFactors, PhoneOps, WalletOps
    <2>3. RouteOK(r)' /\ HeldOK(r)'
      BY <1>4 DEF RouteOK, HeldOK, DeviceWait, Operations, SecondFactors, PhoneOps, WalletOps
    <2>4. DueOK(r)'
      BY <1>4 DEF DueOK, ChallengeDue, TrustDue, WalletDue, PasskeyDue, PhoneDue, DecisionDue
    <2> QED BY <1>3, <2>2, <2>3, <2>4 DEF HandlerOK
  <1> QED BY <1>3, <1>4

-----------------------------------------------------------------------------
(* Where the handler goes with what it has                                  *)

\* A handler that goes on with what it has read: what it still relies on holds.
LEMMA Relied ==
  ASSUME TypeOK, HandlersOK, UsersOK, NEW r \in Requests, Handle(r), mem'[r] = mem[r]
  PROVE  /\ User(r)' = User(r) /\ User(r) \in Ids \cup {None}
         /\ User(r) # None => Known(User(r)) /\ Known(User(r))'
         /\ User(r) # None => db'.user[User(r)].phone = db.user[User(r)].phone
         /\ \A w \in db.wallet : w \in db'.wallet
         /\ DeviceOK(mem[r].row) => DeviceOK(mem[r].row)'
         /\ (Met(r) => Met(r)') /\ (Vouched(r) => Vouched(r)')
         /\ (HoldsWallet(r) => HoldsWallet(r)') /\ (HoldsPasskey(r) => HoldsPasskey(r)')
         /\ (HoldsNumber(r) /\ User(r) # None => HoldsNumber(r)')
         /\ \A ops : SentBy(r, ops) => SentBy(r, ops)'
PROOF
  <1>1. Gentle(r) /\ HandlerOK(r) /\ call' = call
    BY Here
  <1>2. User(r)' = User(r) /\ User(r) \in Ids \cup {None}
    BY DEF User, TypeOK
  <1>3. User(r) # None => /\ Known(User(r)) /\ Known(User(r))'
                          /\ db'.user[User(r)].phone = db.user[User(r)].phone
    BY <1>1, <1>2 DEF HandlerOK, UserFound, Gentle
  <1>4. DeviceOK(mem[r].row) => DeviceOK(mem[r].row)'
    <2>1. PICK d : d = mem[r].row
      OBVIOUS
    <2>2. DeviceOK(d) => DeviceOK(d)'
      BY <1>1, DoneStays
    <2> QED BY <2>1, <2>2 DEF DeviceOK
  <1>5. (HoldsWallet(r) => HoldsWallet(r)') /\ \A w \in db.wallet : w \in db'.wallet
    BY <1>1, <1>2 DEF HoldsWallet, Gentle
  <1>6. HoldsNumber(r) /\ User(r) # None => HoldsNumber(r)'
    BY <1>1, <1>2, <1>3 DEF HoldsNumber
  <1>7. Met(r) => Met(r)'
    BY <1>1, <1>2, HereToo DEF Met
  <1>8. Vouched(r) => Vouched(r)'
    BY <1>1, <1>2, HereToo DEF Vouched
  <1>9. HoldsPasskey(r) => HoldsPasskey(r)'
    BY <1>1, <1>2, HereToo DEF HoldsPasskey
  <1>10. \A ops : SentBy(r, ops) => SentBy(r, ops)'
    BY HereToo
  <1> QED BY <1>2, <1>3, <1>4, <1>5, <1>6, <1>7, <1>8, <1>9, <1>10

LEMMA WritersKeep ==
  ASSUME TypeOK, HandlersOK, NEW r \in Requests, Handle(r)
  PROVE
    /\ CreateSession(r) => mem' = mem
    /\ Consume(r) => mem' = mem
    /\ ClearCodes(r) => mem' = mem
    /\ SpendCode(r) => mem' = mem
    /\ Rotate(r) => mem' = mem
    /\ TearDown(r) => mem' = mem
    /\ StrikeBackup(r) => mem' = mem
    /\ RaiseFlag(r) => mem' = mem
    /\ MarkVerified(r) => mem' = mem
    /\ Valid(r) => mem' = mem
    /\ DropFactors(r) => mem' = mem
    /\ LowerFlag(r) => mem' = mem
    /\ VerifyPhone(r) => mem' = mem
    /\ BurnNonce(r) => mem' = mem
    /\ WalletRowFor(r) => mem' = mem
    /\ WalletAccount(r) => mem' = mem
    /\ Poll(r) => mem' = mem
    /\ InsertPasskey(r) => mem' = mem
    /\ WriteCounter(r) => mem' = mem
PROOF
  <1>1. CreateSession(r) => mem' = mem
    BY DEF CreateSession, Writes, Finishes, Answers
  <1>2. Consume(r) => mem' = mem
    BY DEF Consume, Writes, Finishes, Answers
  <1>3. ClearCodes(r) => mem' = mem
    BY DEF ClearCodes, Writes, Finishes, Answers
  <1>4. SpendCode(r) => mem' = mem
    BY DEF SpendCode, Writes, Finishes, Answers
  <1>5. Rotate(r) => mem' = mem
    BY DEF Rotate, Writes, Finishes, Answers
  <1>6. TearDown(r) => mem' = mem
    BY DEF TearDown, Writes, Finishes, Answers
  <1>7. StrikeBackup(r) => mem' = mem
    BY DEF StrikeBackup, Writes, Finishes, Answers
  <1>8. RaiseFlag(r) => mem' = mem
    BY DEF RaiseFlag, Writes, Finishes, Answers
  <1>9. MarkVerified(r) => mem' = mem
    BY DEF MarkVerified, Writes, Finishes, Answers
  <1>10. Valid(r) => mem' = mem
    BY DEF Valid, Writes, Finishes, Answers
  <1>11. DropFactors(r) => mem' = mem
    BY DEF DropFactors, Writes, Finishes, Answers
  <1>12. LowerFlag(r) => mem' = mem
    BY DEF LowerFlag, Writes, Finishes, Answers
  <1>13. VerifyPhone(r) => mem' = mem
    BY DEF VerifyPhone, Writes, Finishes, Answers
  <1>14. BurnNonce(r) => mem' = mem
    BY DEF BurnNonce, Writes, Finishes, Answers
  <1>15. WalletRowFor(r) => mem' = mem
    BY DEF WalletRowFor, Writes, Finishes, Answers
  <1>16. WalletAccount(r) => mem' = mem
    BY DEF WalletAccount, Writes, Finishes, Answers
  <1>17. Poll(r) => mem' = mem
    BY DEF Poll, Writes, Finishes, Answers
  <1>18. InsertPasskey(r) => mem' = mem
    BY DEF InsertPasskey, Writes, Finishes, Answers
  <1>19. WriteCounter(r) => mem' = mem
    BY DEF WriteCounter, Writes, Finishes, Answers
  <1> QED BY <1>1, <1>2, <1>3, <1>4, <1>5, <1>6, <1>7, <1>8, <1>9, <1>10, <1>11, <1>12, <1>13,
             <1>14, <1>15, <1>16, <1>17, <1>18, <1>19

\* Which endpoint goes where.
LEMMA Branches ==
  ASSUME TypeOK, HandlersOK, NEW r \in Requests
  PROVE
    /\ CreateSession(r) =>
         /\ pc'[r] = "intercept" => Op(r) \in PasswordSignIns
         /\ pc'[r] = "consume" => Op(r) \in CookieOps
         /\ pc'[r] = "drop-device" => Op(r) = "device-token"
         /\ pc'[r] = "done" => Op(r) \in {"phone-verify", "siwe-verify"}
    /\ Consume(r) =>
         /\ pc'[r] = "trust" => Op(r) \in SecondFactors
         /\ pc'[r] = "done" => answer'[r] = {"ok"} \/ Op(r) \in CookieOps
    /\ SpendCode(r) =>
         /\ pc'[r] \in {"valid", "flag"} => Op(r) = "verify-otp"
         /\ pc'[r] = "resolve-phone" => Op(r) = "phone-verify"
         /\ pc'[r] = "find-account" => Op(r) = "phone-reset"
    /\ RaiseFlag(r) =>
         /\ pc'[r] = "existing" => Op(r) = "enable"
         /\ pc'[r] = "verified" => Op(r) = "verify-totp"
         /\ pc'[r] = "valid" => Op(r) = "verify-otp"
    /\ Valid(r) => (pc'[r] = "session" => call[r].session = None)
    /\ DropFactors(r) =>
         /\ pc'[r] = "enrol" => pc[r] = "replace"
         /\ pc'[r] = "revoke" => pc[r] = "drop-factor"
    /\ Poll(r) => (pc'[r] = "session" => mem[r].row.status = "approved")
PROOF
  <1> USE DEF At, Goto, Answers, Reads, Writes, Finishes, Refuse
  <1>0. DOMAIN pc = Requests /\ DOMAIN answer = Requests
    BY DEF TypeOK
  <1>1. RouteOK(r)
    BY DEF HandlersOK, HandlerOK
  <1>2. ASSUME CreateSession(r)
       PROVE  /\ pc'[r] = "intercept" => Op(r) \in PasswordSignIns
              /\ pc'[r] = "consume" => Op(r) \in CookieOps
              /\ pc'[r] = "drop-device" => Op(r) = "device-token"
              /\ pc'[r] = "done" => Op(r) \in {"phone-verify", "siwe-verify"}
    <2>1. Op(r) \in SessionOps
      BY <1>1, <1>2, Places DEF RouteOK
    <2> QED BY <1>0, <1>2, <2>1 DEF CreateSession, SessionOps, PasswordSignIns, SecondFactors, CookieOps
  <1>3. ASSUME Consume(r)
       PROVE  /\ pc'[r] = "trust" => Op(r) \in SecondFactors
              /\ pc'[r] = "done" => answer'[r] = {"ok"} \/ Op(r) \in CookieOps
    <2>1. Op(r) \in CookieOps \cup {"passkey-register"}
      BY <1>1, <1>3, Places DEF RouteOK
    <2> QED BY <1>0, <1>3, <2>1 DEF Consume, CookieOps, SecondFactors
  <1>4. ASSUME SpendCode(r)
       PROVE  /\ pc'[r] \in {"valid", "flag"} => Op(r) = "verify-otp"
              /\ pc'[r] = "resolve-phone" => Op(r) = "phone-verify"
              /\ pc'[r] = "find-account" => Op(r) = "phone-reset"
    <2>1. /\ Op(r) \in CodeSpenders
          /\ (Op(r) = "verify-otp" => config.otp)
      BY <1>1, <1>4, Places DEF RouteOK
    <2> QED BY <1>0, <1>4, <2>1 DEF SpendCode, AfterSpending, CodeSpenders
  <1>5. ASSUME RaiseFlag(r)
       PROVE  /\ pc'[r] = "existing" => Op(r) = "enable"
              /\ pc'[r] = "verified" => Op(r) = "verify-totp"
              /\ pc'[r] = "valid" => Op(r) = "verify-otp"
    <2>1. /\ Op(r) \in {"enable", "verify-totp", "verify-otp"}
          /\ (Op(r) = "verify-otp" => config.otp)
          /\ (Op(r) = "enable" => config.skips)
      BY <1>1, <1>5, Places DEF RouteOK
    <2> QED BY <1>0, <1>5, <2>1 DEF RaiseFlag
  <1>6. ASSUME Valid(r)
       PROVE  pc'[r] = "session" => call[r].session = None
    <2>1. /\ Op(r) \in SecondFactors
          /\ (Op(r) = "verify-otp" => config.otp)
      BY <1>1, <1>6, Places DEF RouteOK
    <2> QED BY <1>0, <1>6, <2>1 DEF Valid
  <1>7. ASSUME DropFactors(r)
       PROVE  /\ pc'[r] = "enrol" => pc[r] = "replace"
              /\ pc'[r] = "revoke" => pc[r] = "drop-factor"
    <2>1. Op(r) \in {"enable", "disable"}
      BY <1>1, <1>7, Places DEF RouteOK
    <2> QED BY <1>0, <1>7, <2>1 DEF DropFactors
  <1>8. ASSUME Poll(r)
       PROVE  pc'[r] = "session" => mem[r].row.status = "approved"
    <2>1. Op(r) = "device-token"
      BY <1>1, <1>8, Places DEF RouteOK
    <2> QED BY <1>0, <1>8, <2>1 DEF Poll
  <1> QED BY <1>2, <1>3, <1>4, <1>5, <1>6, <1>7, <1>8, Zenon

Onward(r) ==
  \/ CreateSession(r) \/ Consume(r) \/ ClearCodes(r) \/ SpendCode(r) \/ Rotate(r)
  \/ TearDown(r) \/ StrikeBackup(r) \/ RaiseFlag(r) \/ MarkVerified(r) \/ Valid(r)
  \/ DropFactors(r) \/ LowerFlag(r) \/ VerifyPhone(r) \/ BurnNonce(r) \/ WalletRowFor(r)
  \/ WalletAccount(r) \/ Poll(r) \/ InsertPasskey(r) \/ WriteCounter(r)

LEMMA StagesApart ==
  ASSUME NEW s \in Stages
  PROVE  s \notin {"idle", "done"} \cup Operations
PROOF BY DEF Stages, Operations, SecondFactors, PhoneOps, WalletOps

\* A handler that writes and goes on still has what it needs.
LEMMA WritersGoOn ==
  ASSUME TypeOK, HandlersOK, RowsOK, NEW r \in Requests, Handle(r), pc'[r] # "done",
         mem'[r] = mem[r], Onward(r)
  PROVE  RouteOK(r)' /\ UserFound(r)' /\ HeldOK(r)' /\ DueOK(r)'
PROOF
  <1>1. Op(r)' = Op(r) /\ call' = call /\ config' = config /\ Purpose(r)' = Purpose(r)
    BY Here DEF RowsOK
  <1>2. User(r)' = User(r) /\ (User(r) # None => Known(User(r))')
    BY Relied DEF RowsOK
  <1>3. DeviceOK(mem[r].row) => DeviceOK(mem[r].row)'
    BY Relied DEF RowsOK
  <1>4. /\ (Met(r) => Met(r)') /\ (Vouched(r) => Vouched(r)')
        /\ (HoldsWallet(r) => HoldsWallet(r)') /\ (HoldsPasskey(r) => HoldsPasskey(r)')
        /\ (HoldsNumber(r) /\ User(r) # None => HoldsNumber(r)')
        /\ \A ops : SentBy(r, ops) => SentBy(r, ops)'
    BY Relied DEF RowsOK
  <1>5. HandlerOK(r)
    BY Here DEF RowsOK
  <1>6. RouteOK(r) /\ UserFound(r) /\ HeldOK(r)
    BY <1>5 DEF HandlerOK
  <1>7. /\ ChallengeDue(r) /\ TrustDue(r) /\ WalletDue(r)
        /\ PasskeyDue(r) /\ PhoneDue(r) /\ DecisionDue(r)
    BY <1>5 DEF HandlerOK, DueOK
  <1>8. pc'[r] \notin {"idle"} \cup Operations
    BY Answered, StagesApart
  <1>9. CASE CreateSession(r)
    <2>1. pc[r] = "session" /\ pc'[r] \in {"intercept", "consume", "drop-device", "done"}
      BY <1>9, Places, Leads
    <2>2. Op(r) \in SessionOps
      BY <1>6, <2>1 DEF RouteOK
    <2>3. User(r) # None
      BY <1>6, <2>1 DEF UserFound, Identified
    <2>4. CASE pc'[r] = "intercept"
      <3>1. Op(r) \in PasswordSignIns
        BY <2>2, <2>4, <1>9, Branches
      <3>2. RouteOK(r)'
        BY <1>1, <1>8, <2>4, <3>1 DEF RouteOK
      <3>3. UserFound(r)'
        BY <1>1, <1>2, <1>8, <2>3, <2>4, <3>1 DEF UserFound, Identified
      <3>4. HeldOK(r)'
        BY <1>1, <2>2, <2>4, <3>1 DEF HeldOK, DeviceWait, SessionOps
      <3>5. ChallengeDue(r)'
        BY <1>1, <2>2, <2>4, <3>1 DEF ChallengeDue, PasswordSignIns, SecondFactors, SessionOps
      <3>6. TrustDue(r)'
        BY <1>1, <1>4, <1>7, <2>1, <2>2, <2>4, <3>1 DEF TrustDue, PasswordSignIns, SecondFactors
      <3>7. WalletDue(r)'
        BY <1>1, <1>4, <1>7, <2>1, <2>2, <2>4, <3>1 DEF WalletDue, SecondFactors, PasswordSignIns
      <3>8. PasskeyDue(r)'
        BY <1>1, <1>4, <1>7, <2>1, <2>2, <2>4, <3>1 DEF PasskeyDue, SecondFactors, PasswordSignIns
      <3>9. PhoneDue(r)'
        BY <1>1, <1>4, <1>7, <2>1, <2>2, <2>3, <2>4, <3>1 DEF PhoneDue, SecondFactors, PasswordSignIns
      <3>10. DecisionDue(r)'
        BY <2>4 DEF DecisionDue
      <3> QED BY <3>2, <3>3, <3>4, <3>5, <3>6, <3>7, <3>8, <3>9, <3>10 DEF DueOK
    <2>5. CASE pc'[r] = "consume"
      <3>1. Op(r) \in CookieOps \cup {"passkey-register"}
        BY <2>2, <2>5, <1>9, Branches DEF SessionOps, PasswordSignIns, SecondFactors, CookieOps
      <3>2. RouteOK(r)'
        BY <1>1, <1>8, <2>5, <3>1 DEF RouteOK
      <3>3. UserFound(r)'
        BY <1>1, <1>2, <1>8, <2>3, <2>5, <3>1 DEF UserFound, Identified
      <3>4. HeldOK(r)'
        BY <1>1, <2>2, <2>5, <3>1 DEF HeldOK, DeviceWait, SessionOps
      <3>5. ChallengeDue(r)'
        <4>1. Met(r)' \/ call[r].session # None \/ Op(r) \notin SecondFactors
          BY <1>4, <1>7, <2>1 DEF ChallengeDue, SecondFactors
        <4>2. Op(r) \in SecondFactors => call[r].session = None
          BY <1>7, <2>1 DEF ChallengeDue
        <4> QED BY <1>1, <2>5, <4>1, <4>2 DEF ChallengeDue
      <3>6. TrustDue(r)'
        BY <1>1, <1>4, <1>7, <2>1, <2>2, <2>5, <3>1 DEF TrustDue, PasswordSignIns, SecondFactors
      <3>7. WalletDue(r)'
        BY <1>1, <1>4, <1>7, <2>1, <2>2, <2>5, <3>1 DEF WalletDue, SecondFactors, PasswordSignIns
      <3>8. PasskeyDue(r)'
        BY <1>1, <1>4, <1>7, <2>1, <2>2, <2>5, <3>1 DEF PasskeyDue, SecondFactors, PasswordSignIns
      <3>9. PhoneDue(r)'
        BY <1>1, <1>4, <1>7, <2>1, <2>2, <2>3, <2>5, <3>1 DEF PhoneDue, SecondFactors, PasswordSignIns
      <3>10. DecisionDue(r)'
        BY <2>5 DEF DecisionDue
      <3> QED BY <3>2, <3>3, <3>4, <3>5, <3>6, <3>7, <3>8, <3>9, <3>10 DEF DueOK
    <2>6. CASE pc'[r] = "drop-device"
      <3>1. Op(r) = "device-token"
        BY <2>2, <2>6, <1>9, Branches
      <3>2. RouteOK(r)'
        BY <1>1, <1>8, <2>6, <3>1 DEF RouteOK
      <3>3. UserFound(r)'
        BY <1>1, <1>2, <1>8, <2>3, <2>6, <3>1 DEF UserFound, Identified
      <3>4. HeldOK(r)'
        <4>1. /\ mem[r].row \in DeviceRow /\ mem[r].row.id = call[r].device
              /\ mem[r].row.user = User(r) /\ DeviceOK(mem[r].row)
          BY <1>6, <2>1, <2>2, <3>1 DEF HeldOK, DeviceWait
        <4>2. TRUE => mem[r].row.status = "approved"
          BY <1>6, <2>1, <3>1 DEF HeldOK, DeviceWait
        <4> QED BY <1>1, <1>2, <1>3, <2>6, <4>1, <4>2 DEF HeldOK, DeviceWait
      <3>5. ChallengeDue(r)'
        BY <1>1, <2>2, <2>6, <3>1 DEF ChallengeDue, SecondFactors, SessionOps
      <3>6. TrustDue(r)'
        BY <1>1, <1>4, <1>7, <2>1, <2>2, <2>6, <3>1 DEF TrustDue, PasswordSignIns, SecondFactors
      <3>7. WalletDue(r)'
        BY <1>1, <1>4, <1>7, <2>1, <2>2, <2>6, <3>1 DEF WalletDue, SecondFactors, PasswordSignIns
      <3>8. PasskeyDue(r)'
        BY <1>1, <1>4, <1>7, <2>1, <2>2, <2>6, <3>1 DEF PasskeyDue, SecondFactors, PasswordSignIns
      <3>9. PhoneDue(r)'
        BY <1>1, <1>4, <1>7, <2>1, <2>2, <2>3, <2>6, <3>1 DEF PhoneDue, SecondFactors, PasswordSignIns
      <3>10. DecisionDue(r)'
        BY <2>6 DEF DecisionDue
      <3> QED BY <3>2, <3>3, <3>4, <3>5, <3>6, <3>7, <3>8, <3>9, <3>10 DEF DueOK
    <2> QED BY <2>1, <2>4, <2>5, <2>6
  <1>10. CASE Consume(r)
    <2>1. pc[r] = "consume" /\ pc'[r] \in {"trust", "done"}
      BY <1>10, Places, Leads
    <2>2. Op(r) \in CookieOps \cup {"passkey-register"}
      BY <1>6, <2>1 DEF RouteOK
    <2>3. User(r) # None
      BY <1>6, <2>1 DEF UserFound, Identified
    <2>4. CASE pc'[r] = "trust"
      <3>1. Op(r) \in SecondFactors
        BY <2>2, <2>4, <1>10, Branches DEF SessionOps, PasswordSignIns, SecondFactors, CookieOps
      <3>2. RouteOK(r)'
        BY <1>1, <1>8, <2>4, <3>1 DEF RouteOK
      <3>3. UserFound(r)'
        BY <1>1, <1>2, <1>8, <2>3, <2>4, <3>1 DEF UserFound, Identified
      <3>4. HeldOK(r)'
        BY <1>1, <2>2, <2>4, <3>1 DEF HeldOK, DeviceWait, CookieOps
      <3>5. ChallengeDue(r)'
        <4>1. Met(r)' \/ call[r].session # None \/ Op(r) \notin SecondFactors
          BY <1>4, <1>7, <2>1 DEF ChallengeDue, SecondFactors
        <4>2. Op(r) \in SecondFactors => call[r].session = None
          BY <1>7, <2>1 DEF ChallengeDue
        <4> QED BY <1>1, <2>4, <4>1, <4>2 DEF ChallengeDue
      <3>6. TrustDue(r)'
        BY <1>1, <1>4, <1>7, <2>1, <2>2, <2>4, <3>1 DEF TrustDue, PasswordSignIns, SecondFactors
      <3>7. WalletDue(r)'
        BY <1>1, <1>4, <1>7, <2>1, <2>2, <2>4, <3>1 DEF WalletDue, SecondFactors, PasswordSignIns
      <3>8. PasskeyDue(r)'
        BY <1>1, <1>4, <1>7, <2>1, <2>2, <2>4, <3>1 DEF PasskeyDue, SecondFactors, PasswordSignIns
      <3>9. PhoneDue(r)'
        BY <1>1, <1>4, <1>7, <2>1, <2>2, <2>3, <2>4, <3>1 DEF PhoneDue, SecondFactors, PasswordSignIns
      <3>10. DecisionDue(r)'
        BY <2>4 DEF DecisionDue
      <3> QED BY <3>2, <3>3, <3>4, <3>5, <3>6, <3>7, <3>8, <3>9, <3>10 DEF DueOK
    <2> QED BY <2>1, <2>4
  <1>11. CASE ClearCodes(r)
    <2>1. pc[r] = "clear" /\ pc'[r] = "mint"
      BY <1>11, Places, Leads
    <2>2. /\ Op(r) \in CodeSenders
          /\ (Op(r) = "send-otp" => config.otp)
          /\ Purpose(r) \in Purposes \X (Ids \cup Phones \cup Wallets)
      BY <1>6, <2>1 DEF RouteOK
    <2>3. CASE pc'[r] = "mint"
      <3>1. /\ Op(r) \in CodeSenders
            /\ (Op(r) = "send-otp" => config.otp)
            /\ Purpose(r) \in Purposes \X (Ids \cup Phones \cup Wallets)
        BY <2>2, <2>3
      <3>2. RouteOK(r)'
        BY <1>1, <1>8, <2>3, <3>1 DEF RouteOK
      <3>3. UserFound(r)'
        BY <1>1, <1>2, <1>8, <2>3, <3>1 DEF UserFound, Identified
      <3>4. HeldOK(r)'
        BY <1>1, <2>2, <2>3, <3>1 DEF HeldOK, DeviceWait, CodeSenders
      <3>5. ChallengeDue(r)'
        BY <1>1, <2>2, <2>3, <3>1 DEF ChallengeDue, CodeSenders, SecondFactors
      <3>6. TrustDue(r)'
        BY <1>1, <1>4, <1>7, <2>1, <2>2, <2>3, <3>1 DEF TrustDue, PasswordSignIns, SecondFactors
      <3>7. WalletDue(r)'
        BY <1>1, <1>4, <1>7, <2>1, <2>2, <2>3, <3>1 DEF WalletDue, SecondFactors, PasswordSignIns
      <3>8. PasskeyDue(r)'
        BY <1>1, <1>4, <1>7, <2>1, <2>2, <2>3, <3>1 DEF PasskeyDue, SecondFactors, PasswordSignIns
      <3>9. PhoneDue(r)'
        BY <1>1, <1>4, <1>7, <2>1, <2>2, <2>3, <3>1 DEF PhoneDue, SecondFactors, PasswordSignIns
      <3>10. DecisionDue(r)'
        BY <2>3 DEF DecisionDue
      <3> QED BY <3>2, <3>3, <3>4, <3>5, <3>6, <3>7, <3>8, <3>9, <3>10 DEF DueOK
    <2> QED BY <2>1, <2>3
  <1>12. CASE SpendCode(r)
    <2>1. pc[r] = "spend" /\ pc'[r] \in {"valid", "flag", "resolve-phone", "find-account"}
      BY <1>12, Places, Leads
    <2>2. /\ Op(r) \in CodeSpenders
          /\ (Op(r) = "verify-otp" => config.otp)
      BY <1>6, <2>1 DEF RouteOK
    <2>3. Op(r) = "verify-otp" => User(r) # None
      BY <1>6, <2>1 DEF UserFound
    <2>4. CASE pc'[r] = "valid"
      <3>1. /\ Op(r) = "verify-otp"
            /\ config.otp
        BY <2>2, <2>4, <1>12, Branches DEF SessionOps, PasswordSignIns, SecondFactors, CookieOps
      <3>2. RouteOK(r)'
        BY <1>1, <1>8, <2>4, <3>1 DEF RouteOK, SecondFactors
      <3>3. UserFound(r)'
        BY <1>1, <1>2, <1>8, <2>3, <2>4, <3>1 DEF UserFound, Identified
      <3>4. HeldOK(r)'
        BY <1>1, <2>2, <2>4, <3>1 DEF HeldOK, DeviceWait, CodeSpenders
      <3>5. ChallengeDue(r)'
        <4>1. Met(r)' \/ call[r].session # None \/ Op(r) \notin SecondFactors
          BY <1>4, <1>7, <2>1 DEF ChallengeDue, SecondFactors
        <4> QED BY <1>1, <2>4, <4>1 DEF ChallengeDue
      <3>6. TrustDue(r)'
        BY <1>1, <1>4, <1>7, <2>1, <2>2, <2>4, <3>1 DEF TrustDue, PasswordSignIns, SecondFactors
      <3>7. WalletDue(r)'
        BY <1>1, <1>4, <1>7, <2>1, <2>2, <2>4, <3>1 DEF WalletDue, SecondFactors, PasswordSignIns
      <3>8. PasskeyDue(r)'
        BY <1>1, <1>4, <1>7, <2>1, <2>2, <2>4, <3>1 DEF PasskeyDue, SecondFactors, PasswordSignIns
      <3>9. PhoneDue(r)'
        BY <1>1, <1>4, <1>7, <2>1, <2>2, <2>3, <2>4, <3>1 DEF PhoneDue, SecondFactors, PasswordSignIns
      <3>10. DecisionDue(r)'
        BY <2>4 DEF DecisionDue
      <3> QED BY <3>2, <3>3, <3>4, <3>5, <3>6, <3>7, <3>8, <3>9, <3>10 DEF DueOK
    <2>5. CASE pc'[r] = "flag"
      <3>1. /\ Op(r) = "verify-otp"
            /\ config.otp
        BY <2>2, <2>5, <1>12, Branches
      <3>2. RouteOK(r)'
        BY <1>1, <1>8, <2>5, <3>1 DEF RouteOK, SecondFactors
      <3>3. UserFound(r)'
        BY <1>1, <1>2, <1>8, <2>3, <2>5, <3>1 DEF UserFound, Identified
      <3>4. HeldOK(r)'
        BY <1>1, <2>2, <2>5, <3>1 DEF HeldOK, DeviceWait, CodeSpenders
      <3>5. ChallengeDue(r)'
        <4>1. Met(r)' \/ call[r].session # None \/ Op(r) \notin SecondFactors
          BY <1>4, <1>7, <2>1 DEF ChallengeDue, SecondFactors
        <4> QED BY <1>1, <2>5, <4>1 DEF ChallengeDue
      <3>6. TrustDue(r)'
        BY <1>1, <1>4, <1>7, <2>1, <2>2, <2>5, <3>1 DEF TrustDue, PasswordSignIns, SecondFactors
      <3>7. WalletDue(r)'
        BY <1>1, <1>4, <1>7, <2>1, <2>2, <2>5, <3>1 DEF WalletDue, SecondFactors, PasswordSignIns
      <3>8. PasskeyDue(r)'
        BY <1>1, <1>4, <1>7, <2>1, <2>2, <2>5, <3>1 DEF PasskeyDue, SecondFactors, PasswordSignIns
      <3>9. PhoneDue(r)'
        BY <1>1, <1>4, <1>7, <2>1, <2>2, <2>3, <2>5, <3>1 DEF PhoneDue, SecondFactors, PasswordSignIns
      <3>10. DecisionDue(r)'
        BY <2>5 DEF DecisionDue
      <3> QED BY <3>2, <3>3, <3>4, <3>5, <3>6, <3>7, <3>8, <3>9, <3>10 DEF DueOK
    <2>6. CASE pc'[r] = "resolve-phone"
      <3>1. Op(r) = "phone-verify"
        BY <2>2, <2>6, <1>12, Branches
      <3>2. RouteOK(r)'
        BY <1>1, <1>8, <2>6, <3>1 DEF RouteOK, SecondFactors
      <3>3. UserFound(r)'
        BY <1>1, <1>2, <1>8, <2>3, <2>6, <3>1 DEF UserFound, Identified
      <3>4. HeldOK(r)'
        BY <1>1, <2>2, <2>6, <3>1 DEF HeldOK, DeviceWait, CodeSpenders
      <3>5. ChallengeDue(r)'
        BY <1>1, <2>2, <2>6, <3>1 DEF ChallengeDue, CodeSpenders, SecondFactors
      <3>6. TrustDue(r)'
        BY <1>1, <1>4, <1>7, <2>1, <2>2, <2>6, <3>1 DEF TrustDue, PasswordSignIns, SecondFactors
      <3>7. WalletDue(r)'
        BY <1>1, <1>4, <1>7, <2>1, <2>2, <2>6, <3>1 DEF WalletDue, SecondFactors, PasswordSignIns
      <3>8. PasskeyDue(r)'
        BY <1>1, <1>4, <1>7, <2>1, <2>2, <2>6, <3>1 DEF PasskeyDue, SecondFactors, PasswordSignIns
      <3>9. PhoneDue(r)'
        BY <1>1, <1>4, <1>7, <2>1, <2>2, <2>3, <2>6, <3>1 DEF PhoneDue, SecondFactors, PasswordSignIns
      <3>10. DecisionDue(r)'
        BY <2>6 DEF DecisionDue
      <3> QED BY <3>2, <3>3, <3>4, <3>5, <3>6, <3>7, <3>8, <3>9, <3>10 DEF DueOK
    <2>7. CASE pc'[r] = "find-account"
      <3>1. Op(r) = "phone-reset"
        BY <2>2, <2>7, <1>12, Branches
      <3>2. RouteOK(r)'
        BY <1>1, <1>8, <2>7, <3>1 DEF RouteOK, SecondFactors
      <3>3. UserFound(r)'
        BY <1>1, <1>2, <1>8, <2>3, <2>7, <3>1 DEF UserFound, Identified
      <3>4. HeldOK(r)'
        BY <1>1, <2>2, <2>7, <3>1 DEF HeldOK, DeviceWait, CodeSpenders
      <3>5. ChallengeDue(r)'
        BY <1>1, <2>2, <2>7, <3>1 DEF ChallengeDue, CodeSpenders, SecondFactors
      <3>6. TrustDue(r)'
        BY <1>1, <1>4, <1>7, <2>1, <2>2, <2>7, <3>1 DEF TrustDue, PasswordSignIns, SecondFactors
      <3>7. WalletDue(r)'
        BY <1>1, <1>4, <1>7, <2>1, <2>2, <2>7, <3>1 DEF WalletDue, SecondFactors, PasswordSignIns
      <3>8. PasskeyDue(r)'
        BY <1>1, <1>4, <1>7, <2>1, <2>2, <2>7, <3>1 DEF PasskeyDue, SecondFactors, PasswordSignIns
      <3>9. PhoneDue(r)'
        BY <1>1, <1>4, <1>7, <2>1, <2>2, <2>3, <2>7, <3>1 DEF PhoneDue, SecondFactors, PasswordSignIns
      <3>10. DecisionDue(r)'
        BY <2>7 DEF DecisionDue
      <3> QED BY <3>2, <3>3, <3>4, <3>5, <3>6, <3>7, <3>8, <3>9, <3>10 DEF DueOK
    <2> QED BY <2>1, <2>4, <2>5, <2>6, <2>7
  <1>13. CASE Rotate(r)
    <2>1. pc[r] = "rotate" /\ pc'[r] = "trust"
      BY <1>13, Places, Leads
    <2>2. Op(r) \in PasswordSignIns
      BY <1>6, <2>1 DEF RouteOK
    <2>3. User(r) # None
      BY <1>6, <2>1 DEF UserFound, Identified
    <2>4. CASE pc'[r] = "trust"
      <3>1. Op(r) \in PasswordSignIns \cup SecondFactors
        BY <2>2, <2>4 DEF SessionOps, PasswordSignIns, SecondFactors, CookieOps
      <3>2. RouteOK(r)'
        BY <1>1, <1>8, <2>4, <3>1 DEF RouteOK
      <3>3. UserFound(r)'
        BY <1>1, <1>2, <1>8, <2>3, <2>4, <3>1 DEF UserFound, Identified
      <3>4. HeldOK(r)'
        BY <1>1, <2>2, <2>4, <3>1 DEF HeldOK, DeviceWait, PasswordSignIns
      <3>5. ChallengeDue(r)'
        BY <1>1, <2>2, <2>4, <3>1 DEF ChallengeDue, PasswordSignIns, SecondFactors
      <3>6. TrustDue(r)'
        BY <1>1, <1>4, <1>7, <2>1, <2>2, <2>4, <3>1 DEF TrustDue, PasswordSignIns, SecondFactors
      <3>7. WalletDue(r)'
        BY <1>1, <1>4, <1>7, <2>1, <2>2, <2>4, <3>1 DEF WalletDue, SecondFactors, PasswordSignIns
      <3>8. PasskeyDue(r)'
        BY <1>1, <1>4, <1>7, <2>1, <2>2, <2>4, <3>1 DEF PasskeyDue, SecondFactors, PasswordSignIns
      <3>9. PhoneDue(r)'
        BY <1>1, <1>4, <1>7, <2>1, <2>2, <2>3, <2>4, <3>1 DEF PhoneDue, SecondFactors, PasswordSignIns
      <3>10. DecisionDue(r)'
        BY <2>4 DEF DecisionDue
      <3> QED BY <3>2, <3>3, <3>4, <3>5, <3>6, <3>7, <3>8, <3>9, <3>10 DEF DueOK
    <2> QED BY <2>1, <2>4
  <1>14. CASE TearDown(r)
    <2>1. pc[r] = "tear-down" /\ pc'[r] = "challenge"
      BY <1>14, Places, Leads
    <2>2. Op(r) \in PasswordSignIns
      BY <1>6, <2>1 DEF RouteOK
    <2>3. User(r) # None
      BY <1>6, <2>1 DEF UserFound, Identified
    <2>4. CASE pc'[r] = "challenge"
      <3>1. Op(r) \in PasswordSignIns
        BY <2>2, <2>4
      <3>2. RouteOK(r)'
        BY <1>1, <1>8, <2>4, <3>1 DEF RouteOK
      <3>3. UserFound(r)'
        BY <1>1, <1>2, <1>8, <2>3, <2>4, <3>1 DEF UserFound, Identified
      <3>4. HeldOK(r)'
        BY <1>1, <2>2, <2>4, <3>1 DEF HeldOK, DeviceWait, PasswordSignIns
      <3>5. ChallengeDue(r)'
        BY <1>1, <2>2, <2>4, <3>1 DEF ChallengeDue, PasswordSignIns, SecondFactors
      <3>6. TrustDue(r)'
        BY <1>1, <1>4, <1>7, <2>1, <2>2, <2>4, <3>1 DEF TrustDue, PasswordSignIns, SecondFactors
      <3>7. WalletDue(r)'
        BY <1>1, <1>4, <1>7, <2>1, <2>2, <2>4, <3>1 DEF WalletDue, SecondFactors, PasswordSignIns
      <3>8. PasskeyDue(r)'
        BY <1>1, <1>4, <1>7, <2>1, <2>2, <2>4, <3>1 DEF PasskeyDue, SecondFactors, PasswordSignIns
      <3>9. PhoneDue(r)'
        BY <1>1, <1>4, <1>7, <2>1, <2>2, <2>3, <2>4, <3>1 DEF PhoneDue, SecondFactors, PasswordSignIns
      <3>10. DecisionDue(r)'
        BY <2>4 DEF DecisionDue
      <3> QED BY <3>2, <3>3, <3>4, <3>5, <3>6, <3>7, <3>8, <3>9, <3>10 DEF DueOK
    <2> QED BY <2>1, <2>4
  <1>15. CASE StrikeBackup(r)
    <2>1. pc[r] = "strike" /\ pc'[r] \in {"done", "valid"}
      BY <1>15, Places, Leads
    <2>2. Op(r) = "verify-backup"
      BY <1>6, <2>1 DEF RouteOK
    <2>3. User(r) # None
      BY <1>6, <2>1 DEF UserFound, Identified
    <2>4. CASE pc'[r] = "valid"
      <3>1. /\ Op(r) \in SecondFactors
            /\ (Op(r) = "verify-otp" => config.otp)
        BY <2>2, <2>4 DEF SessionOps, PasswordSignIns, SecondFactors, CookieOps
      <3>2. RouteOK(r)'
        BY <1>1, <1>8, <2>4, <3>1 DEF RouteOK
      <3>3. UserFound(r)'
        BY <1>1, <1>2, <1>8, <2>3, <2>4, <3>1 DEF UserFound, Identified
      <3>4. HeldOK(r)'
        BY <1>1, <2>2, <2>4, <3>1 DEF HeldOK, DeviceWait
      <3>5. ChallengeDue(r)'
        <4>1. Met(r)' \/ call[r].session # None \/ Op(r) \notin SecondFactors
          BY <1>4, <1>7, <2>1 DEF ChallengeDue, SecondFactors
        <4> QED BY <1>1, <2>4, <4>1 DEF ChallengeDue
      <3>6. TrustDue(r)'
        BY <1>1, <1>4, <1>7, <2>1, <2>2, <2>4, <3>1 DEF TrustDue, PasswordSignIns, SecondFactors
      <3>7. WalletDue(r)'
        BY <1>1, <1>4, <1>7, <2>1, <2>2, <2>4, <3>1 DEF WalletDue, SecondFactors, PasswordSignIns
      <3>8. PasskeyDue(r)'
        BY <1>1, <1>4, <1>7, <2>1, <2>2, <2>4, <3>1 DEF PasskeyDue, SecondFactors, PasswordSignIns
      <3>9. PhoneDue(r)'
        BY <1>1, <1>4, <1>7, <2>1, <2>2, <2>3, <2>4, <3>1 DEF PhoneDue, SecondFactors, PasswordSignIns
      <3>10. DecisionDue(r)'
        BY <2>4 DEF DecisionDue
      <3> QED BY <3>2, <3>3, <3>4, <3>5, <3>6, <3>7, <3>8, <3>9, <3>10 DEF DueOK
    <2> QED BY <2>1, <2>4
  <1>16. CASE RaiseFlag(r)
    <2>1. pc[r] = "flag" /\ pc'[r] \in {"existing", "verified", "valid"}
      BY <1>16, Places, Leads
    <2>2. /\ Op(r) \in {"enable", "verify-totp", "verify-otp"}
          /\ (Op(r) = "verify-otp" => config.otp)
          /\ (Op(r) = "enable" => config.skips)
      BY <1>6, <2>1 DEF RouteOK
    <2>3. User(r) # None
      BY <1>6, <2>1 DEF UserFound, Identified
    <2>4. CASE pc'[r] = "existing"
      <3>1. Op(r) = "enable"
        BY <2>2, <2>4, <1>16, Branches
      <3>2. RouteOK(r)'
        BY <1>1, <1>8, <2>4, <3>1 DEF RouteOK
      <3>3. UserFound(r)'
        BY <1>1, <1>2, <1>8, <2>3, <2>4, <3>1 DEF UserFound, Identified
      <3>4. HeldOK(r)'
        BY <1>1, <2>2, <2>4, <3>1 DEF HeldOK, DeviceWait
      <3>5. ChallengeDue(r)'
        BY <1>1, <2>2, <2>4, <3>1 DEF ChallengeDue, SecondFactors
      <3>6. TrustDue(r)'
        BY <1>1, <1>4, <1>7, <2>1, <2>2, <2>4, <3>1 DEF TrustDue, PasswordSignIns, SecondFactors
      <3>7. WalletDue(r)'
        BY <1>1, <1>4, <1>7, <2>1, <2>2, <2>4, <3>1 DEF WalletDue, SecondFactors, PasswordSignIns
      <3>8. PasskeyDue(r)'
        BY <1>1, <1>4, <1>7, <2>1, <2>2, <2>4, <3>1 DEF PasskeyDue, SecondFactors, PasswordSignIns
      <3>9. PhoneDue(r)'
        BY <1>1, <1>4, <1>7, <2>1, <2>2, <2>3, <2>4, <3>1 DEF PhoneDue, SecondFactors, PasswordSignIns
      <3>10. DecisionDue(r)'
        BY <2>4 DEF DecisionDue
      <3> QED BY <3>2, <3>3, <3>4, <3>5, <3>6, <3>7, <3>8, <3>9, <3>10 DEF DueOK
    <2>5. CASE pc'[r] = "verified"
      <3>1. Op(r) = "verify-totp"
        BY <2>2, <2>5, <1>16, Branches
      <3>2. RouteOK(r)'
        BY <1>1, <1>8, <2>5, <3>1 DEF RouteOK
      <3>3. UserFound(r)'
        BY <1>1, <1>2, <1>8, <2>3, <2>5, <3>1 DEF UserFound, Identified
      <3>4. HeldOK(r)'
        BY <1>1, <1>6, <2>1, <2>5, <3>1 DEF HeldOK, DeviceWait
      <3>5. ChallengeDue(r)'
        <4>1. Met(r)' \/ call[r].session # None \/ Op(r) \notin SecondFactors
          BY <1>4, <1>7, <2>1 DEF ChallengeDue, SecondFactors
        <4> QED BY <1>1, <2>5, <4>1 DEF ChallengeDue
      <3>6. TrustDue(r)'
        BY <1>1, <1>4, <1>7, <2>1, <2>2, <2>5, <3>1 DEF TrustDue, PasswordSignIns, SecondFactors
      <3>7. WalletDue(r)'
        BY <1>1, <1>4, <1>7, <2>1, <2>2, <2>5, <3>1 DEF WalletDue, SecondFactors, PasswordSignIns
      <3>8. PasskeyDue(r)'
        BY <1>1, <1>4, <1>7, <2>1, <2>2, <2>5, <3>1 DEF PasskeyDue, SecondFactors, PasswordSignIns
      <3>9. PhoneDue(r)'
        BY <1>1, <1>4, <1>7, <2>1, <2>2, <2>3, <2>5, <3>1 DEF PhoneDue, SecondFactors, PasswordSignIns
      <3>10. DecisionDue(r)'
        BY <2>5 DEF DecisionDue
      <3> QED BY <3>2, <3>3, <3>4, <3>5, <3>6, <3>7, <3>8, <3>9, <3>10 DEF DueOK
    <2>6. CASE pc'[r] = "valid"
      <3>1. /\ Op(r) \in SecondFactors
            /\ (Op(r) = "verify-otp" => config.otp)
        BY <2>2, <2>6, <1>16, Branches DEF SessionOps, PasswordSignIns, SecondFactors, CookieOps
      <3>2. RouteOK(r)'
        BY <1>1, <1>8, <2>6, <3>1 DEF RouteOK
      <3>3. UserFound(r)'
        BY <1>1, <1>2, <1>8, <2>3, <2>6, <3>1 DEF UserFound, Identified
      <3>4. HeldOK(r)'
        BY <1>1, <2>2, <2>6, <3>1 DEF HeldOK, DeviceWait
      <3>5. ChallengeDue(r)'
        <4>1. Met(r)' \/ call[r].session # None \/ Op(r) \notin SecondFactors
          BY <1>4, <1>7, <2>1 DEF ChallengeDue, SecondFactors
        <4> QED BY <1>1, <2>6, <4>1 DEF ChallengeDue
      <3>6. TrustDue(r)'
        BY <1>1, <1>4, <1>7, <2>1, <2>2, <2>6, <3>1 DEF TrustDue, PasswordSignIns, SecondFactors
      <3>7. WalletDue(r)'
        BY <1>1, <1>4, <1>7, <2>1, <2>2, <2>6, <3>1 DEF WalletDue, SecondFactors, PasswordSignIns
      <3>8. PasskeyDue(r)'
        BY <1>1, <1>4, <1>7, <2>1, <2>2, <2>6, <3>1 DEF PasskeyDue, SecondFactors, PasswordSignIns
      <3>9. PhoneDue(r)'
        BY <1>1, <1>4, <1>7, <2>1, <2>2, <2>3, <2>6, <3>1 DEF PhoneDue, SecondFactors, PasswordSignIns
      <3>10. DecisionDue(r)'
        BY <2>6 DEF DecisionDue
      <3> QED BY <3>2, <3>3, <3>4, <3>5, <3>6, <3>7, <3>8, <3>9, <3>10 DEF DueOK
    <2> QED BY <2>1, <2>4, <2>5, <2>6
  <1>17. CASE MarkVerified(r)
    <2>1. pc[r] = "verified" /\ pc'[r] = "valid"
      BY <1>17, Places, Leads
    <2>2. Op(r) = "verify-totp"
      BY <1>6, <2>1 DEF RouteOK
    <2>3. User(r) # None
      BY <1>6, <2>1 DEF UserFound, Identified
    <2>4. CASE pc'[r] = "valid"
      <3>1. /\ Op(r) \in SecondFactors
            /\ (Op(r) = "verify-otp" => config.otp)
        BY <2>2, <2>4 DEF SessionOps, PasswordSignIns, SecondFactors, CookieOps
      <3>2. RouteOK(r)'
        BY <1>1, <1>8, <2>4, <3>1 DEF RouteOK
      <3>3. UserFound(r)'
        BY <1>1, <1>2, <1>8, <2>3, <2>4, <3>1 DEF UserFound, Identified
      <3>4. HeldOK(r)'
        BY <1>1, <2>2, <2>4, <3>1 DEF HeldOK, DeviceWait
      <3>5. ChallengeDue(r)'
        <4>1. Met(r)' \/ call[r].session # None \/ Op(r) \notin SecondFactors
          BY <1>4, <1>7, <2>1 DEF ChallengeDue, SecondFactors
        <4> QED BY <1>1, <2>4, <4>1 DEF ChallengeDue
      <3>6. TrustDue(r)'
        BY <1>1, <1>4, <1>7, <2>1, <2>2, <2>4, <3>1 DEF TrustDue, PasswordSignIns, SecondFactors
      <3>7. WalletDue(r)'
        BY <1>1, <1>4, <1>7, <2>1, <2>2, <2>4, <3>1 DEF WalletDue, SecondFactors, PasswordSignIns
      <3>8. PasskeyDue(r)'
        BY <1>1, <1>4, <1>7, <2>1, <2>2, <2>4, <3>1 DEF PasskeyDue, SecondFactors, PasswordSignIns
      <3>9. PhoneDue(r)'
        BY <1>1, <1>4, <1>7, <2>1, <2>2, <2>3, <2>4, <3>1 DEF PhoneDue, SecondFactors, PasswordSignIns
      <3>10. DecisionDue(r)'
        BY <2>4 DEF DecisionDue
      <3> QED BY <3>2, <3>3, <3>4, <3>5, <3>6, <3>7, <3>8, <3>9, <3>10 DEF DueOK
    <2> QED BY <2>1, <2>4
  <1>18. CASE Valid(r)
    <2>1. pc[r] = "valid" /\ pc'[r] \in {"done", "session"}
      BY <1>18, Places, Leads
    <2>2. /\ Op(r) \in SecondFactors
          /\ (Op(r) = "verify-otp" => config.otp)
      BY <1>6, <2>1 DEF RouteOK
    <2>3. User(r) # None
      BY <1>6, <2>1 DEF UserFound, Identified
    <2>4. CASE pc'[r] = "session"
      <3>1. Op(r) \in SessionOps
        BY <2>2, <2>4, <1>18, Branches DEF SessionOps
      <3>2. RouteOK(r)'
        BY <1>1, <1>8, <2>4, <3>1 DEF RouteOK
      <3>3. UserFound(r)'
        BY <1>1, <1>2, <1>8, <2>3, <2>4, <3>1 DEF UserFound, Identified
      <3>4. HeldOK(r)'
        BY <1>1, <2>2, <2>4, <3>1 DEF HeldOK, DeviceWait, SecondFactors
      <3>5. ChallengeDue(r)'
        <4>1. Met(r)' \/ call[r].session # None \/ Op(r) \notin SecondFactors
          BY <1>4, <1>7, <2>1 DEF ChallengeDue, SecondFactors
        <4>2. Op(r) \in SecondFactors => call[r].session = None
          BY <1>18, <2>4, Branches
        <4> QED BY <1>1, <2>4, <4>1, <4>2 DEF ChallengeDue
      <3>6. TrustDue(r)'
        BY <1>1, <1>4, <1>7, <2>1, <2>2, <2>4, <3>1 DEF TrustDue, PasswordSignIns, SecondFactors
      <3>7. WalletDue(r)'
        BY <1>1, <1>4, <1>7, <2>1, <2>2, <2>4, <3>1 DEF WalletDue, SecondFactors, PasswordSignIns
      <3>8. PasskeyDue(r)'
        BY <1>1, <1>4, <1>7, <2>1, <2>2, <2>4, <3>1 DEF PasskeyDue, SecondFactors, PasswordSignIns
      <3>9. PhoneDue(r)'
        BY <1>1, <1>4, <1>7, <2>1, <2>2, <2>3, <2>4, <3>1 DEF PhoneDue, SecondFactors, PasswordSignIns
      <3>10. DecisionDue(r)'
        BY <2>4 DEF DecisionDue
      <3> QED BY <3>2, <3>3, <3>4, <3>5, <3>6, <3>7, <3>8, <3>9, <3>10 DEF DueOK
    <2> QED BY <2>1, <2>4
  <1>19. CASE DropFactors(r)
    <2>1. pc[r] \in {"replace", "drop-factor"} /\ pc'[r] \in {"enrol", "revoke", "done"}
      BY <1>19, Places, Leads
    <2>2. Op(r) \in {"enable", "disable"}
      BY <1>6, <2>1 DEF RouteOK
    <2>3. User(r) # None
      BY <1>6, <2>1 DEF UserFound, Identified
    <2>4. CASE pc'[r] = "enrol"
      <3>1. Op(r) = "enable"
        BY <1>6, <1>19, <2>4, Branches DEF RouteOK
      <3>2. RouteOK(r)'
        BY <1>1, <1>8, <2>4, <3>1 DEF RouteOK
      <3>3. UserFound(r)'
        BY <1>1, <1>2, <1>8, <2>3, <2>4, <3>1 DEF UserFound, Identified
      <3>4. HeldOK(r)'
        <4>1. pc[r] = "replace"
          BY <1>19, <2>4, Branches
        <4>2. mem[r].row \in TwoFactorRow \cup {None}
          BY <1>6, <4>1 DEF HeldOK
        <4> QED BY <1>1, <2>4, <3>1, <4>2 DEF HeldOK, DeviceWait
      <3>5. ChallengeDue(r)'
        BY <1>1, <2>2, <2>4, <3>1 DEF ChallengeDue, SecondFactors
      <3>6. TrustDue(r)'
        BY <1>1, <1>4, <1>7, <2>1, <2>2, <2>4, <3>1 DEF TrustDue, PasswordSignIns, SecondFactors
      <3>7. WalletDue(r)'
        BY <1>1, <1>4, <1>7, <2>1, <2>2, <2>4, <3>1 DEF WalletDue, SecondFactors, PasswordSignIns
      <3>8. PasskeyDue(r)'
        BY <1>1, <1>4, <1>7, <2>1, <2>2, <2>4, <3>1 DEF PasskeyDue, SecondFactors, PasswordSignIns
      <3>9. PhoneDue(r)'
        BY <1>1, <1>4, <1>7, <2>1, <2>2, <2>3, <2>4, <3>1 DEF PhoneDue, SecondFactors, PasswordSignIns
      <3>10. DecisionDue(r)'
        BY <2>4 DEF DecisionDue
      <3> QED BY <3>2, <3>3, <3>4, <3>5, <3>6, <3>7, <3>8, <3>9, <3>10 DEF DueOK
    <2>5. CASE pc'[r] = "revoke"
      <3>1. Op(r) = "disable"
        BY <1>6, <1>19, <2>5, Branches DEF RouteOK
      <3>2. RouteOK(r)'
        BY <1>1, <1>8, <2>5, <3>1 DEF RouteOK
      <3>3. UserFound(r)'
        BY <1>1, <1>2, <1>8, <2>3, <2>5, <3>1 DEF UserFound, Identified
      <3>4. HeldOK(r)'
        BY <1>1, <2>2, <2>5, <3>1 DEF HeldOK, DeviceWait
      <3>5. ChallengeDue(r)'
        BY <1>1, <2>2, <2>5, <3>1 DEF ChallengeDue, SecondFactors
      <3>6. TrustDue(r)'
        BY <1>1, <1>4, <1>7, <2>1, <2>2, <2>5, <3>1 DEF TrustDue, PasswordSignIns, SecondFactors
      <3>7. WalletDue(r)'
        BY <1>1, <1>4, <1>7, <2>1, <2>2, <2>5, <3>1 DEF WalletDue, SecondFactors, PasswordSignIns
      <3>8. PasskeyDue(r)'
        BY <1>1, <1>4, <1>7, <2>1, <2>2, <2>5, <3>1 DEF PasskeyDue, SecondFactors, PasswordSignIns
      <3>9. PhoneDue(r)'
        BY <1>1, <1>4, <1>7, <2>1, <2>2, <2>3, <2>5, <3>1 DEF PhoneDue, SecondFactors, PasswordSignIns
      <3>10. DecisionDue(r)'
        BY <2>5 DEF DecisionDue
      <3> QED BY <3>2, <3>3, <3>4, <3>5, <3>6, <3>7, <3>8, <3>9, <3>10 DEF DueOK
    <2> QED BY <2>1, <2>4, <2>5
  <1>20. CASE LowerFlag(r)
    <2>1. pc[r] = "lower" /\ pc'[r] = "drop-factor"
      BY <1>20, Places, Leads
    <2>2. Op(r) = "disable"
      BY <1>6, <2>1 DEF RouteOK
    <2>3. User(r) # None
      BY <1>6, <2>1 DEF UserFound, Identified
    <2>4. CASE pc'[r] = "drop-factor"
      <3>1. Op(r) = "disable"
        BY <2>2, <2>4
      <3>2. RouteOK(r)'
        BY <1>1, <1>8, <2>4, <3>1 DEF RouteOK
      <3>3. UserFound(r)'
        BY <1>1, <1>2, <1>8, <2>3, <2>4, <3>1 DEF UserFound, Identified
      <3>4. HeldOK(r)'
        BY <1>1, <2>2, <2>4, <3>1 DEF HeldOK, DeviceWait
      <3>5. ChallengeDue(r)'
        BY <1>1, <2>2, <2>4, <3>1 DEF ChallengeDue, SecondFactors
      <3>6. TrustDue(r)'
        BY <1>1, <1>4, <1>7, <2>1, <2>2, <2>4, <3>1 DEF TrustDue, PasswordSignIns, SecondFactors
      <3>7. WalletDue(r)'
        BY <1>1, <1>4, <1>7, <2>1, <2>2, <2>4, <3>1 DEF WalletDue, SecondFactors, PasswordSignIns
      <3>8. PasskeyDue(r)'
        BY <1>1, <1>4, <1>7, <2>1, <2>2, <2>4, <3>1 DEF PasskeyDue, SecondFactors, PasswordSignIns
      <3>9. PhoneDue(r)'
        BY <1>1, <1>4, <1>7, <2>1, <2>2, <2>3, <2>4, <3>1 DEF PhoneDue, SecondFactors, PasswordSignIns
      <3>10. DecisionDue(r)'
        BY <2>4 DEF DecisionDue
      <3> QED BY <3>2, <3>3, <3>4, <3>5, <3>6, <3>7, <3>8, <3>9, <3>10 DEF DueOK
    <2> QED BY <2>1, <2>4
  <1>21. CASE VerifyPhone(r)
    <2>1. pc[r] = "verify-phone" /\ pc'[r] \in {"echo", "session"}
      BY <1>21, Places, Leads
    <2>2. Op(r) = "phone-verify"
      BY <1>6, <2>1 DEF RouteOK
    <2>3. User(r) # None
      BY <1>6, <2>1 DEF UserFound, Identified
    <2>4. CASE pc'[r] = "echo"
      <3>1. Op(r) = "phone-verify"
        BY <2>2, <2>4
      <3>2. RouteOK(r)'
        BY <1>1, <1>8, <2>4, <3>1 DEF RouteOK
      <3>3. UserFound(r)'
        BY <1>1, <1>2, <1>8, <2>3, <2>4, <3>1 DEF UserFound, Identified
      <3>4. HeldOK(r)'
        BY <1>1, <2>2, <2>4, <3>1 DEF HeldOK, DeviceWait
      <3>5. ChallengeDue(r)'
        BY <1>1, <2>2, <2>4, <3>1 DEF ChallengeDue, SecondFactors
      <3>6. TrustDue(r)'
        BY <1>1, <1>4, <1>7, <2>1, <2>2, <2>4, <3>1 DEF TrustDue, PasswordSignIns, SecondFactors
      <3>7. WalletDue(r)'
        BY <1>1, <1>4, <1>7, <2>1, <2>2, <2>4, <3>1 DEF WalletDue, SecondFactors, PasswordSignIns
      <3>8. PasskeyDue(r)'
        BY <1>1, <1>4, <1>7, <2>1, <2>2, <2>4, <3>1 DEF PasskeyDue, SecondFactors, PasswordSignIns
      <3>9. PhoneDue(r)'
        BY <1>1, <1>4, <1>7, <2>1, <2>2, <2>3, <2>4, <3>1 DEF PhoneDue, SecondFactors, PasswordSignIns
      <3>10. DecisionDue(r)'
        BY <2>4 DEF DecisionDue
      <3> QED BY <3>2, <3>3, <3>4, <3>5, <3>6, <3>7, <3>8, <3>9, <3>10 DEF DueOK
    <2>5. CASE pc'[r] = "session"
      <3>1. Op(r) \in SessionOps
        BY <2>2, <2>5 DEF SessionOps, PasswordSignIns, SecondFactors, CookieOps
      <3>2. RouteOK(r)'
        BY <1>1, <1>8, <2>5, <3>1 DEF RouteOK
      <3>3. UserFound(r)'
        BY <1>1, <1>2, <1>8, <2>3, <2>5, <3>1 DEF UserFound, Identified
      <3>4. HeldOK(r)'
        BY <1>1, <2>2, <2>5, <3>1 DEF HeldOK, DeviceWait
      <3>5. ChallengeDue(r)'
        BY <1>1, <2>2, <2>5, <3>1 DEF ChallengeDue, SecondFactors, SessionOps
      <3>6. TrustDue(r)'
        BY <1>1, <1>4, <1>7, <2>1, <2>2, <2>5, <3>1 DEF TrustDue, PasswordSignIns, SecondFactors
      <3>7. WalletDue(r)'
        BY <1>1, <1>4, <1>7, <2>1, <2>2, <2>5, <3>1 DEF WalletDue, SecondFactors, PasswordSignIns
      <3>8. PasskeyDue(r)'
        BY <1>1, <1>4, <1>7, <2>1, <2>2, <2>5, <3>1 DEF PasskeyDue, SecondFactors, PasswordSignIns
      <3>9. PhoneDue(r)'
        BY <1>1, <1>4, <1>7, <2>1, <2>2, <2>3, <2>5, <3>1 DEF PhoneDue, SecondFactors, PasswordSignIns
      <3>10. DecisionDue(r)'
        BY <2>5 DEF DecisionDue
      <3> QED BY <3>2, <3>3, <3>4, <3>5, <3>6, <3>7, <3>8, <3>9, <3>10 DEF DueOK
    <2> QED BY <2>1, <2>4, <2>5
  <1>22. CASE BurnNonce(r)
    <2>1. pc[r] = "burn" /\ pc'[r] = "resolve-wallet"
      BY <1>22, Places, Leads
    <2>2. Op(r) = "siwe-verify"
      BY <1>6, <2>1 DEF RouteOK
    <2>3. CASE pc'[r] = "resolve-wallet"
      <3>1. Op(r) = "siwe-verify"
        BY <2>2, <2>3
      <3>2. RouteOK(r)'
        BY <1>1, <1>8, <2>3, <3>1 DEF RouteOK
      <3>3. UserFound(r)'
        BY <1>1, <1>2, <1>8, <2>3, <3>1 DEF UserFound, Identified
      <3>4. HeldOK(r)'
        BY <1>1, <2>2, <2>3, <3>1 DEF HeldOK, DeviceWait
      <3>5. ChallengeDue(r)'
        BY <1>1, <2>2, <2>3, <3>1 DEF ChallengeDue, SecondFactors
      <3>6. TrustDue(r)'
        BY <1>1, <1>4, <1>7, <2>1, <2>2, <2>3, <3>1 DEF TrustDue, PasswordSignIns, SecondFactors
      <3>7. WalletDue(r)'
        BY <1>1, <1>4, <1>7, <2>1, <2>2, <2>3, <3>1 DEF WalletDue, SecondFactors, PasswordSignIns
      <3>8. PasskeyDue(r)'
        BY <1>1, <1>4, <1>7, <2>1, <2>2, <2>3, <3>1 DEF PasskeyDue, SecondFactors, PasswordSignIns
      <3>9. PhoneDue(r)'
        BY <1>1, <1>4, <1>7, <2>1, <2>2, <2>3, <3>1 DEF PhoneDue, SecondFactors, PasswordSignIns
      <3>10. DecisionDue(r)'
        BY <2>3 DEF DecisionDue
      <3> QED BY <3>2, <3>3, <3>4, <3>5, <3>6, <3>7, <3>8, <3>9, <3>10 DEF DueOK
    <2> QED BY <2>1, <2>3
  <1>23. CASE WalletRowFor(r)
    <2>1. pc[r] = "wallet-row" /\ pc'[r] = "wallet-account"
      BY <1>23, Places, Leads
    <2>2. Op(r) = "siwe-verify"
      BY <1>6, <2>1 DEF RouteOK
    <2>3. User(r) # None
      BY <1>6, <2>1 DEF UserFound, Identified
    <2>4. CASE pc'[r] = "wallet-account"
      <3>1. Op(r) = "siwe-verify"
        BY <2>2, <2>4
      <3>2. RouteOK(r)'
        BY <1>1, <1>8, <2>4, <3>1 DEF RouteOK
      <3>3. UserFound(r)'
        BY <1>1, <1>2, <1>8, <2>3, <2>4, <3>1 DEF UserFound, Identified
      <3>4. HeldOK(r)'
        BY <1>1, <2>2, <2>4, <3>1 DEF HeldOK, DeviceWait
      <3>5. ChallengeDue(r)'
        BY <1>1, <2>2, <2>4, <3>1 DEF ChallengeDue, SecondFactors
      <3>6. TrustDue(r)'
        BY <1>1, <1>4, <1>7, <2>1, <2>2, <2>4, <3>1 DEF TrustDue, PasswordSignIns, SecondFactors
      <3>7. WalletDue(r)'
        <4>1. HoldsWallet(r)'
          <5>1. [id |-> r, wallet |-> call[r].who, user |-> User(r)] \in db'.wallet
            BY <1>23, <2>4, WalletTable DEF WalletRowFor, Writes
          <5> QED BY <1>1, <1>2, <5>1 DEF HoldsWallet
        <4> QED BY <1>1, <1>4, <1>7, <2>1, <2>2, <2>4, <4>1 DEF WalletDue
      <3>8. PasskeyDue(r)'
        BY <1>1, <1>4, <1>7, <2>1, <2>2, <2>4, <3>1 DEF PasskeyDue, SecondFactors, PasswordSignIns
      <3>9. PhoneDue(r)'
        BY <1>1, <1>4, <1>7, <2>1, <2>2, <2>3, <2>4, <3>1 DEF PhoneDue, SecondFactors, PasswordSignIns
      <3>10. DecisionDue(r)'
        BY <2>4 DEF DecisionDue
      <3> QED BY <3>2, <3>3, <3>4, <3>5, <3>6, <3>7, <3>8, <3>9, <3>10 DEF DueOK
    <2> QED BY <2>1, <2>4
  <1>24. CASE WalletAccount(r)
    <2>1. pc[r] = "wallet-account" /\ pc'[r] = "session"
      BY <1>24, Places, Leads
    <2>2. Op(r) = "siwe-verify"
      BY <1>6, <2>1 DEF RouteOK
    <2>3. User(r) # None
      BY <1>6, <2>1 DEF UserFound, Identified
    <2>4. CASE pc'[r] = "session"
      <3>1. Op(r) \in SessionOps
        BY <2>2, <2>4 DEF SessionOps, PasswordSignIns, SecondFactors, CookieOps
      <3>2. RouteOK(r)'
        BY <1>1, <1>8, <2>4, <3>1 DEF RouteOK
      <3>3. UserFound(r)'
        BY <1>1, <1>2, <1>8, <2>3, <2>4, <3>1 DEF UserFound, Identified
      <3>4. HeldOK(r)'
        BY <1>1, <2>2, <2>4, <3>1 DEF HeldOK, DeviceWait
      <3>5. ChallengeDue(r)'
        BY <1>1, <2>2, <2>4, <3>1 DEF ChallengeDue, SecondFactors, SessionOps
      <3>6. TrustDue(r)'
        BY <1>1, <1>4, <1>7, <2>1, <2>2, <2>4, <3>1 DEF TrustDue, PasswordSignIns, SecondFactors
      <3>7. WalletDue(r)'
        BY <1>1, <1>4, <1>7, <2>1, <2>2, <2>4, <3>1 DEF WalletDue, SecondFactors, PasswordSignIns
      <3>8. PasskeyDue(r)'
        BY <1>1, <1>4, <1>7, <2>1, <2>2, <2>4, <3>1 DEF PasskeyDue, SecondFactors, PasswordSignIns
      <3>9. PhoneDue(r)'
        BY <1>1, <1>4, <1>7, <2>1, <2>2, <2>3, <2>4, <3>1 DEF PhoneDue, SecondFactors, PasswordSignIns
      <3>10. DecisionDue(r)'
        BY <2>4 DEF DecisionDue
      <3> QED BY <3>2, <3>3, <3>4, <3>5, <3>6, <3>7, <3>8, <3>9, <3>10 DEF DueOK
    <2> QED BY <2>1, <2>4
  <1>25. CASE Poll(r)
    <2>1. pc[r] = "poll" /\ pc'[r] \in {"drop-device", "session", "done"}
      BY <1>25, Places, Leads
    <2>2. Op(r) = "device-token"
      BY <1>6, <2>1 DEF RouteOK
    <2>3. CASE pc'[r] = "drop-device"
      <3>1. Op(r) = "device-token"
        BY <2>2, <2>3, <1>25, Branches
      <3>2. RouteOK(r)'
        BY <1>1, <1>8, <2>3, <3>1 DEF RouteOK
      <3>3. UserFound(r)'
        BY <1>1, <1>2, <1>8, <2>3, <3>1 DEF UserFound, Identified
      <3>4. HeldOK(r)'
        <4>1. /\ mem[r].row \in DeviceRow /\ mem[r].row.id = call[r].device
              /\ mem[r].row.user = User(r) /\ DeviceOK(mem[r].row)
          BY <1>6, <2>1, <2>2, <3>1 DEF HeldOK, DeviceWait
        <4>2. HasSession(r)' => mem[r].row.status = "approved"
          <5>1. HasSession(r)' => HasSession(r)
            BY <2>1, SessionTable DEF SessionMove, HasSession
          <5> QED BY <1>6, <2>1, <2>2, <5>1 DEF HeldOK, DeviceWait
        <4> QED BY <1>1, <1>2, <1>3, <2>3, <4>1, <4>2 DEF HeldOK, DeviceWait
      <3>5. ChallengeDue(r)'
        BY <1>1, <2>2, <2>3, <3>1 DEF ChallengeDue, SecondFactors
      <3>6. TrustDue(r)'
        BY <1>1, <1>4, <1>7, <2>1, <2>2, <2>3, <3>1 DEF TrustDue, PasswordSignIns, SecondFactors
      <3>7. WalletDue(r)'
        BY <1>1, <1>4, <1>7, <2>1, <2>2, <2>3, <3>1 DEF WalletDue, SecondFactors, PasswordSignIns
      <3>8. PasskeyDue(r)'
        BY <1>1, <1>4, <1>7, <2>1, <2>2, <2>3, <3>1 DEF PasskeyDue, SecondFactors, PasswordSignIns
      <3>9. PhoneDue(r)'
        BY <1>1, <1>4, <1>7, <2>1, <2>2, <2>3, <3>1 DEF PhoneDue, SecondFactors, PasswordSignIns
      <3>10. DecisionDue(r)'
        BY <2>3 DEF DecisionDue
      <3> QED BY <3>2, <3>3, <3>4, <3>5, <3>6, <3>7, <3>8, <3>9, <3>10 DEF DueOK
    <2>4. CASE pc'[r] = "session"
      <3>1. Op(r) \in SessionOps
        BY <2>2, <2>4, <1>25, Branches DEF SessionOps, PasswordSignIns, SecondFactors, CookieOps
      <3>2. RouteOK(r)'
        BY <1>1, <1>8, <2>4, <3>1 DEF RouteOK
      <3>3. UserFound(r)'
        <4>1. /\ mem[r].row.user = User(r) /\ DeviceOK(mem[r].row)
              /\ mem[r].row.status = "approved"
          BY <1>6, <1>25, <2>1, <2>2, <2>4, Branches DEF HeldOK, DeviceWait
        <4>2. User(r) # None
          BY <4>1 DEF DeviceOK
        <4> QED BY <1>1, <1>2, <1>8, <2>4, <3>1, <4>2 DEF UserFound, Identified
      <3>4. HeldOK(r)'
        <4>1. /\ mem[r].row \in DeviceRow /\ mem[r].row.id = call[r].device
              /\ mem[r].row.user = User(r) /\ DeviceOK(mem[r].row)
          BY <1>6, <2>1, <2>2, <3>1 DEF HeldOK, DeviceWait
        <4>2. TRUE => mem[r].row.status = "approved"
          BY <1>25, <2>4, Branches
        <4> QED BY <1>1, <1>2, <1>3, <2>4, <4>1, <4>2 DEF HeldOK, DeviceWait
      <3>5. ChallengeDue(r)'
        BY <1>1, <2>2, <2>4, <3>1 DEF ChallengeDue, SecondFactors, SessionOps
      <3>6. TrustDue(r)'
        BY <1>1, <1>4, <1>7, <2>1, <2>2, <2>4, <3>1 DEF TrustDue, PasswordSignIns, SecondFactors
      <3>7. WalletDue(r)'
        BY <1>1, <1>4, <1>7, <2>1, <2>2, <2>4, <3>1 DEF WalletDue, SecondFactors, PasswordSignIns
      <3>8. PasskeyDue(r)'
        BY <1>1, <1>4, <1>7, <2>1, <2>2, <2>4, <3>1 DEF PasskeyDue, SecondFactors, PasswordSignIns
      <3>9. PhoneDue(r)'
        BY <1>1, <1>4, <1>7, <2>1, <2>2, <2>4, <3>1 DEF PhoneDue, SecondFactors, PasswordSignIns
      <3>10. DecisionDue(r)'
        BY <2>4 DEF DecisionDue
      <3> QED BY <3>2, <3>3, <3>4, <3>5, <3>6, <3>7, <3>8, <3>9, <3>10 DEF DueOK
    <2> QED BY <2>1, <2>3, <2>4
  <1>26. CASE InsertPasskey(r)
    <2>1. pc[r] = "passkey-row" /\ pc'[r] = "consume"
      BY <1>26, Places, Leads
    <2>2. Op(r) = "passkey-register"
      BY <1>6, <2>1 DEF RouteOK
    <2>3. User(r) # None
      BY <1>6, <2>1 DEF UserFound, Identified
    <2>4. CASE pc'[r] = "consume"
      <3>1. Op(r) \in CookieOps \cup {"passkey-register"}
        BY <2>2, <2>4 DEF SessionOps, PasswordSignIns, SecondFactors, CookieOps
      <3>2. RouteOK(r)'
        BY <1>1, <1>8, <2>4, <3>1 DEF RouteOK
      <3>3. UserFound(r)'
        BY <1>1, <1>2, <1>8, <2>3, <2>4, <3>1 DEF UserFound, Identified
      <3>4. HeldOK(r)'
        BY <1>1, <2>2, <2>4, <3>1 DEF HeldOK, DeviceWait
      <3>5. ChallengeDue(r)'
        BY <1>1, <2>2, <2>4, <3>1 DEF ChallengeDue, CookieOps, SecondFactors
      <3>6. TrustDue(r)'
        BY <1>1, <1>4, <1>7, <2>1, <2>2, <2>4, <3>1 DEF TrustDue, PasswordSignIns, SecondFactors
      <3>7. WalletDue(r)'
        BY <1>1, <1>4, <1>7, <2>1, <2>2, <2>4, <3>1 DEF WalletDue, SecondFactors, PasswordSignIns
      <3>8. PasskeyDue(r)'
        BY <1>1, <1>4, <1>7, <2>1, <2>2, <2>4, <3>1 DEF PasskeyDue, SecondFactors, PasswordSignIns
      <3>9. PhoneDue(r)'
        BY <1>1, <1>4, <1>7, <2>1, <2>2, <2>3, <2>4, <3>1 DEF PhoneDue, SecondFactors, PasswordSignIns
      <3>10. DecisionDue(r)'
        BY <2>4 DEF DecisionDue
      <3> QED BY <3>2, <3>3, <3>4, <3>5, <3>6, <3>7, <3>8, <3>9, <3>10 DEF DueOK
    <2> QED BY <2>1, <2>4
  <1>27. CASE WriteCounter(r)
    <2>1. pc[r] = "counter" /\ pc'[r] = "session"
      BY <1>27, Places, Leads
    <2>2. Op(r) = "passkey-authenticate"
      BY <1>6, <2>1 DEF RouteOK
    <2>3. User(r) # None
      BY <1>6, <2>1 DEF UserFound, Identified
    <2>4. CASE pc'[r] = "session"
      <3>1. Op(r) \in SessionOps
        BY <2>2, <2>4 DEF SessionOps, PasswordSignIns, SecondFactors, CookieOps
      <3>2. RouteOK(r)'
        BY <1>1, <1>8, <2>4, <3>1 DEF RouteOK
      <3>3. UserFound(r)'
        BY <1>1, <1>2, <1>8, <2>3, <2>4, <3>1 DEF UserFound, Identified
      <3>4. HeldOK(r)'
        BY <1>1, <2>2, <2>4, <3>1 DEF HeldOK, DeviceWait
      <3>5. ChallengeDue(r)'
        BY <1>1, <2>2, <2>4, <3>1 DEF ChallengeDue, SecondFactors, SessionOps
      <3>6. TrustDue(r)'
        BY <1>1, <1>4, <1>7, <2>1, <2>2, <2>4, <3>1 DEF TrustDue, PasswordSignIns, SecondFactors
      <3>7. WalletDue(r)'
        BY <1>1, <1>4, <1>7, <2>1, <2>2, <2>4, <3>1 DEF WalletDue, SecondFactors, PasswordSignIns
      <3>8. PasskeyDue(r)'
        BY <1>1, <1>4, <1>7, <2>1, <2>2, <2>4, <3>1 DEF PasskeyDue, SecondFactors, PasswordSignIns
      <3>9. PhoneDue(r)'
        BY <1>1, <1>4, <1>7, <2>1, <2>2, <2>3, <2>4, <3>1 DEF PhoneDue, SecondFactors, PasswordSignIns
      <3>10. DecisionDue(r)'
        BY <2>4 DEF DecisionDue
      <3> QED BY <3>2, <3>3, <3>4, <3>5, <3>6, <3>7, <3>8, <3>9, <3>10 DEF DueOK
    <2> QED BY <2>1, <2>4
  <1> QED BY <1>9, <1>10, <1>11, <1>12, <1>13, <1>14, <1>15, <1>16, <1>17, <1>18, <1>19,
             <1>20, <1>21, <1>22, <1>23, <1>24, <1>25, <1>26, <1>27, Zenon DEF Onward

-----------------------------------------------------------------------------
(* What a handler reads                                                     *)

Memory == [user : Ids \cup {None}, row : Rememberable \cup {None}, enrolled : BOOLEAN]

\* What a row says of the request that made it.
LEMMA RowsTell ==
  ASSUME TypeOK, VerificationsOK, NEW v \in db.verification, NEW x
  PROVE  /\ v.id \in Requests => pc[v.id] = "done"
         /\ v.identifier = <<"trust", x>> => x \in Ids /\ UserOf(x) = v.holder
         /\ v.identifier = <<"2fa", x>> =>
              x \in Requests /\ Op(x) \in PasswordSignIns /\ User(x) = v.holder /\ v.holder # None
         /\ v.identifier = <<"siwe", x>> =>
              v.id \in Requests /\ Op(v.id) = "siwe-nonce" /\ call[v.id].who = x
         /\ v.identifier = <<"phone", x>> =>
              /\ v.id \in Requests /\ Op(v.id) \in {"phone-send", "phone-sign-in"}
              /\ call[v.id].who = x
         /\ v.identifier = <<"passkey", x>> =>
              x \in Requests /\ Op(x) \in PasskeyOffers /\ (v.holder # None => Known(v.holder))
         /\ v.identifier = <<"2fa-otp", x>> => config.otp
PROOF
  <1>1. v.id \in Users \/ v.id \in Requests
    BY Types DEF VerificationRow, Ids
  <1>2. CASE v.id \in Users
    <2>1. v.identifier = <<"trust", v.id>> /\ v.holder = v.id /\ v.id \notin Requests
      BY <1>2, ConstantsAssumption DEF VerificationsOK
    <2>2. v.identifier = <<"trust", x>> => x = v.id
      BY <2>1
    <2> QED BY <1>2, <2>1, <2>2 DEF UserOf, Ids
  <1>3. CASE v.id \in Requests
    <2>1. PICK q \in Requests : q = v.id
      BY <1>3
    <2>2. pc[q] = "done" /\ Minted(v, q)
      BY <2>1 DEF VerificationsOK
    <2>3. q \notin Users /\ q \in Ids
      BY ConstantsAssumption DEF Ids
    <2>4. UserOf(q) = User(q)
      BY <2>3 DEF UserOf, User
    <2>5. CASE Op(q) \in PasswordSignIns /\ User(q) # None /\ v.identifier = <<"2fa", q>> /\ v.holder = User(q)
      BY <2>1, <2>2, <2>5
    <2>6. CASE v.identifier = <<"trust", q>> /\ v.holder = User(q)
      BY <2>1, <2>2, <2>3, <2>4, <2>6
    <2>7. CASE v.identifier = Purpose(q) /\ Op(q) \in CodeSenders /\ (Op(q) = "send-otp" => config.otp)
      BY <2>1, <2>2, <2>7 DEF Purpose, CodeSenders, Op
    <2>8. CASE Op(q) = "siwe-nonce" /\ v.identifier = <<"siwe", call[q].who>>
      BY <2>1, <2>2, <2>8
    <2>9. CASE Op(q) \in PasskeyOffers /\ v.identifier = <<"passkey", q>> /\ (v.holder # None => Known(v.holder))
      BY <2>1, <2>2, <2>9
    <2> QED BY <2>2, <2>5, <2>6, <2>7, <2>8, <2>9 DEF Minted
  <1> QED BY <1>1, <1>2, <1>3

\* A session is a user's; a challenge is the user's whose password was right.
LEMMA Signed ==
  ASSUME TypeOK, HandlersOK, SessionsOK, VerificationsOK, NEW r \in Requests, NEW u
  PROVE  /\ u \in SignedIn(r) => Known(u) /\ u # None
         /\ u \in Challenged(r) =>
              /\ Known(u) /\ u # None
              /\ call[r].session = None =>
                   /\ call[r].cookie \in Requests /\ Op(call[r].cookie) \in PasswordSignIns
                   /\ User(call[r].cookie) = u
PROOF
  <1>1. ASSUME u \in SignedIn(r)
        PROVE  Known(u) /\ u # None
    <2>1. PICK s \in db.session : s.user = u
      BY <1>1 DEF SignedIn
    <2> QED BY <2>1, NoneApart DEF SessionsOK, Known
  <1>2. ASSUME u \in Challenged(r), call[r].session = None
        PROVE  /\ Known(u) /\ u # None
               /\ call[r].cookie \in Requests /\ Op(call[r].cookie) \in PasswordSignIns
               /\ User(call[r].cookie) = u
    <2>1. PICK v \in db.verification : v.holder = u /\ v.identifier = <<"2fa", call[r].cookie>>
      BY <1>2 DEF Challenged, Rows
    <2>2. /\ call[r].cookie \in Requests /\ Op(call[r].cookie) \in PasswordSignIns
          /\ User(call[r].cookie) = u /\ u # None
      BY <2>1, RowsTell
    <2>3. PICK q \in Requests : q = call[r].cookie
      BY <2>2
    <2>4. UserFound(q)
      BY DEF HandlersOK, HandlerOK
    <2> QED BY <2>2, <2>3, <2>4 DEF UserFound
  <1>3. u \in Challenged(r) /\ call[r].session # None => u \in SignedIn(r)
    BY DEF Challenged
  <1> QED BY <1>1, <1>2, <1>3

LEMMA Held ==
  ASSUME TypeOK, NEW u \in Ids, NEW p
  PROVE  /\ u \in Holders(p) => Known(u) /\ u # None /\ db.user[u].phone = p
         /\ \A f \in FactorsOf(u) : f \in TwoFactorRow /\ f.user = u
         /\ \A a \in Credentials(u) : a \in AccountRow
PROOF BY Types, NoneApart DEF Holders, Known, FactorsOf, Credentials

\* What a handler finds when it comes to stage t, having read.
LEMMA Arrived ==
  ASSUME TypeOK, HandlersOK, UsersOK, NEW r \in Requests, Handle(r),
         NEW t \in Stages, NEW u \in Ids \cup {None}, NEW row \in Rememberable \cup {None},
         Reads(r, t, u, row), u # None => Known(u)
  PROVE  /\ pc'[r] = t /\ User(r)' = u /\ mem'[r].row = row /\ mem'[r] \in Memory
         /\ mem'[r].enrolled = (u # None /\ db.user[u].twoFactor)
         /\ call' = call /\ config' = config /\ db' = db
         /\ Op(r)' = Op(r) /\ Purpose(r)' = Purpose(r) /\ pc'[r] \notin {"idle"} \cup Operations
         /\ u # None => Known(u)'
PROOF
  <1>1. /\ pc'[r] = t /\ db' = db /\ config' = config /\ call' = call
        /\ mem'[r] = [user |-> u, row |-> row, enrolled |-> u # None /\ db.user[u].twoFactor]
    BY Here DEF Reads, Goto
  <1>2. ASSUME u # None
        PROVE  db.user[u].twoFactor \in BOOLEAN
    BY <1>2, Types DEF Known, UserRow
  <1>3. pc'[r] \notin {"idle"} \cup Operations
    BY <1>1, StagesApart
  <1>4. u # None => Known(u)'
    BY <1>1 DEF Known
  <1> QED BY <1>1, <1>2, <1>3, <1>4, Here DEF User, Memory


\* What is to be shown of a handler that has read and goes on.
GoesOn(r) ==
  /\ RouteOK(r)' /\ UserFound(r)' /\ HeldOK(r)' /\ DueOK(r)'
  /\ mem'[r] \in Memory

\* The handler when it is called, and the endpoint.
LEMMA Called ==
  ASSUME TypeOK, HandlersOK, UsersOK, NEW r \in Requests, Handle(r)
  PROVE  /\ pc[r] \in Operations => Op(r) = pc[r] /\ User(r) = None
         /\ RouteOK(r) /\ UserFound(r) /\ HeldOK(r) /\ DueOK(r)
         /\ User(r) \in Ids \cup {None}
PROOF
  <1>1. HandlerOK(r)
    BY Here
  <1> QED BY <1>1 DEF HandlerOK, RouteOK, UserFound, TypeOK, User

LEMMA SignInGoesOn ==
  ASSUME TypeOK, HandlersOK, RowsOK, NEW r \in Requests, Handle(r), SignIn(r), pc'[r] # "done"
  PROVE  GoesOn(r)
PROOF
  <1>1. pc[r] = "sign-in" /\ Op(r) = "sign-in"
    BY Called, Places DEF RowsOK, Operations
  <1>2. PICK u \in Ids : u = call[r].who /\ Known(u) /\ u # None
    BY <1>1, Here, Naming, NoneApart DEF RowsOK, UsersOK, Known, Ids
  <1>3. Reads(r, "session", u, None)
    BY <1>2 DEF SignIn
  <1>4. /\ pc'[r] = "session" /\ User(r)' = u /\ mem'[r].row = None
        /\ mem'[r] \in Memory /\ Op(r)' = Op(r) /\ Known(u)' /\ pc'[r] \notin {"idle"} \cup Operations
    BY <1>2, <1>3, Arrived DEF RowsOK, Stages
  <1>5. RouteOK(r)'
    BY <1>4, <1>1 DEF RouteOK, SessionOps, PasswordSignIns
  <1>6. UserFound(r)'
    BY <1>4, <1>1, <1>2 DEF UserFound, Identified
  <1>7. HeldOK(r)'
    BY <1>4, <1>1 DEF HeldOK, DeviceWait
  <1>8. DueOK(r)'
    BY <1>4, <1>1
    DEF DueOK, ChallengeDue, TrustDue, WalletDue, PasskeyDue, PhoneDue, DecisionDue,
        SecondFactors, PasswordSignIns
  <1> QED BY <1>4, <1>5, <1>6, <1>7, <1>8 DEF GoesOn

LEMMA InterceptGoesOn ==
  ASSUME TypeOK, HandlersOK, RowsOK, NEW r \in Requests, Handle(r), Intercept(r), pc'[r] # "done"
  PROVE  GoesOn(r)
PROOF
  <1>1. pc[r] = "intercept" /\ Op(r) \in PasswordSignIns
    BY Called, Places DEF RowsOK, RouteOK
  <1>2. Known(User(r)) /\ User(r) # None
    BY <1>1, Called DEF RowsOK, UserFound, Identified
  <1>3. Reads(r, IF Trusted(r) THEN "rotate" ELSE "tear-down", User(r), None)
    BY DEF Intercept, Finishes, Answers, Goto, TypeOK
  <1>4. /\ pc'[r] = (IF Trusted(r) THEN "rotate" ELSE "tear-down")
        /\ User(r)' = User(r) /\ mem'[r].row = None /\ mem'[r] \in Memory /\ call' = call
        /\ Op(r)' = Op(r) /\ Known(User(r))' /\ pc'[r] \notin {"idle"} \cup Operations
    <2>1. (IF Trusted(r) THEN "rotate" ELSE "tear-down") \in Stages
      BY DEF Stages
    <2> QED BY <1>2, <1>3, <2>1, Arrived DEF RowsOK, Known
  <1>5. Trusted(r) => Vouched(r)'
    <2>1. Trusted(r) => call[r].trust \in Ids /\ UserOf(call[r].trust) = User(r)
      BY RowsTell DEF Trusted, TrustRow, Rows, RowsOK
    <2> QED BY <1>4, <2>1, HereToo DEF Vouched, RowsOK
  <1>6. RouteOK(r)'
    BY <1>4, <1>1 DEF RouteOK, PasswordSignIns
  <1>7. UserFound(r)'
    BY <1>4, <1>1, <1>2 DEF UserFound, Identified
  <1>8. HeldOK(r)'
    BY <1>4, <1>1 DEF HeldOK, DeviceWait, PasswordSignIns
  <1>9. DueOK(r)'
    BY <1>4, <1>1, <1>5
    DEF DueOK, ChallengeDue, TrustDue, WalletDue, PasskeyDue, PhoneDue, DecisionDue,
        SecondFactors, PasswordSignIns
  <1> QED BY <1>4, <1>6, <1>7, <1>8, <1>9 DEF GoesOn

LEMMA SecondFactorGoesOn ==
  ASSUME TypeOK, HandlersOK, RowsOK, NEW r \in Requests, Handle(r), SecondFactor(r), pc'[r] # "done"
  PROVE  GoesOn(r)
PROOF
  <1>1. /\ pc[r] \in SecondFactors \cup {"send-otp"} /\ Op(r) = pc[r] /\ RouteOK(r)
        /\ ~(Op(r) = "send-otp" /\ ~config.otp)
    <2>1. pc[r] \in SecondFactors \cup {"send-otp"} /\ pc[r] \in Operations
      BY Places DEF SecondFactors, Operations
    <2>2. ~Refuse(r)
      BY DEF Refuse, Goto, TypeOK
    <2> QED BY <2>1, <2>2, Called DEF RowsOK, SecondFactor
  <1>2. PICK u \in Challenged(r) :
          CASE Op(r) = "verify-totp"   -> VerifyTotpOf(r, u)
            [] Op(r) = "verify-backup" -> VerifyBackupOf(r, u)
            [] Op(r) = "verify-otp"    -> CheckCode(r, u)
            [] Op(r) = "send-otp"      -> Reads(r, "clear", u, None)
    <2>1. ~Refuse(r)
      BY DEF Refuse, Goto, TypeOK
    <2> QED BY <2>1, Zenon DEF SecondFactor
  <1>3. /\ Known(u) /\ u # None /\ u \in Ids
        /\ call[r].session = None =>
             /\ call[r].cookie \in Requests /\ Op(call[r].cookie) \in PasswordSignIns
             /\ User(call[r].cookie) = u
    BY <1>2, Signed DEF RowsOK, Known
  <1>4. ~Refuse(r)
    BY DEF Refuse, Goto, TypeOK
  <1>5. call' = call /\ (User(r)' = u => (call[r].session = None => Met(r)'))
    BY <1>3, Here, HereToo DEF RowsOK, Met
  <1>6. CASE Op(r) = "verify-totp"
    <2>1. VerifyTotpOf(r, u)
      BY <1>2, <1>6
    <2>2. PICK factor \in FactorsOf(u), t \in {"valid", "verified", "flag"} : Reads(r, t, u, factor)
      BY <1>4, <2>1 DEF VerifyTotpOf, FindOne
    <2>3. factor \in TwoFactorRow /\ factor \in Rememberable
      BY <1>3, <2>2, Held DEF Rememberable
    <2>4. /\ pc'[r] \in {"valid", "verified", "flag"} /\ User(r)' = u /\ mem'[r].row = factor
          /\ mem'[r] \in Memory /\ Op(r)' = Op(r) /\ Known(u)' /\ pc'[r] \notin {"idle"} \cup Operations
      <3>1. t \in Stages
        BY <2>2 DEF Stages
      <3> QED BY <1>3, <2>2, <2>3, <3>1, Arrived DEF RowsOK
    <2>5. RouteOK(r)'
      BY <2>4, <1>6 DEF RouteOK, SecondFactors
    <2>6. UserFound(r)'
      BY <2>4, <1>6, <1>3 DEF UserFound, Identified
    <2>7. HeldOK(r)'
      BY <2>4, <1>6, <2>3 DEF HeldOK, DeviceWait
    <2>8. DueOK(r)'
      BY <2>4, <1>6, <1>5
      DEF DueOK, ChallengeDue, TrustDue, WalletDue, PasskeyDue, PhoneDue, DecisionDue,
          SecondFactors, PasswordSignIns
    <2> QED BY <2>4, <2>5, <2>6, <2>7, <2>8 DEF GoesOn
  <1>7. CASE Op(r) = "verify-backup"
    <2>1. VerifyBackupOf(r, u)
      BY <1>2, <1>7
    <2>2. PICK factor \in FactorsOf(u) : Reads(r, "strike", u, factor)
      BY <1>4, <2>1 DEF VerifyBackupOf, FindOne
    <2>3. factor \in TwoFactorRow /\ factor \in Rememberable
      BY <1>3, <2>2, Held DEF Rememberable
    <2>4. /\ pc'[r] = "strike" /\ User(r)' = u /\ mem'[r].row = factor
          /\ mem'[r] \in Memory /\ Op(r)' = Op(r) /\ Known(u)' /\ pc'[r] \notin {"idle"} \cup Operations
      <3>1. "strike" \in Stages
        BY DEF Stages
      <3> QED BY <1>3, <2>2, <2>3, <3>1, Arrived DEF RowsOK
    <2>5. RouteOK(r)'
      BY <2>4, <1>7 DEF RouteOK
    <2>6. UserFound(r)'
      BY <2>4, <1>7, <1>3 DEF UserFound, Identified
    <2>7. HeldOK(r)'
      BY <2>4, <1>7, <2>3 DEF HeldOK, DeviceWait
    <2>8. DueOK(r)'
      BY <2>4, <1>7, <1>5
      DEF DueOK, ChallengeDue, TrustDue, WalletDue, PasskeyDue, PhoneDue, DecisionDue,
          SecondFactors, PasswordSignIns
    <2> QED BY <2>4, <2>5, <2>6, <2>7, <2>8 DEF GoesOn
  <1>8. CASE Op(r) = "verify-otp"
    <2>1. CheckCode(r, u)
      BY <1>2, <1>8
    <2>2. PICK row \in Rows(Purpose(r)), t \in {"drop-code", "spend", "miscount"} :
            Reads(r, t, u, row) /\ (t = "spend" => call[r].code = row.id)
      BY <1>4, <2>1, Zenon DEF CheckCode, FindOne
    <2>3. row \in VerificationRow /\ row \in Rememberable /\ row.identifier = Purpose(r) /\ config.otp
      BY <1>8, <2>2, Types, RowsTell DEF Rememberable, Rows, Purpose, RowsOK
    <2>4. /\ pc'[r] = t /\ User(r)' = u /\ mem'[r].row = row /\ call' = call /\ config' = config
          /\ mem'[r] \in Memory /\ Op(r)' = Op(r) /\ Known(u)' /\ pc'[r] \notin {"idle"} \cup Operations
          /\ Purpose(r)' = Purpose(r)
      <3>1. t \in Stages
        BY <2>2 DEF Stages
      <3> QED BY <1>3, <2>2, <2>3, <3>1, Arrived DEF RowsOK
    <2>5. RouteOK(r)'
      BY <2>2, <2>4, <1>8, <2>3 DEF RouteOK, CodeSpenders
    <2>6. UserFound(r)'
      BY <2>2, <2>4, <1>8, <1>3 DEF UserFound, Identified
    <2>7. HeldOK(r)'
      BY <2>2, <2>4, <1>8, <2>3 DEF HeldOK, DeviceWait
    <2>8. DueOK(r)'
      BY <2>2, <2>4, <1>8, <1>5
      DEF DueOK, ChallengeDue, TrustDue, WalletDue, PasskeyDue, PhoneDue, DecisionDue,
          SecondFactors, PasswordSignIns
    <2> QED BY <2>2, <2>4, <2>5, <2>6, <2>7, <2>8 DEF GoesOn
  <1>9. CASE Op(r) = "send-otp"
    <2>1. Reads(r, "clear", u, None)
      BY <1>2, <1>9
    <2>2. /\ pc'[r] = "clear" /\ User(r)' = u /\ call' = call /\ config' = config
          /\ mem'[r] \in Memory /\ Op(r)' = Op(r) /\ Known(u)' /\ pc'[r] \notin {"idle"} \cup Operations
          /\ Purpose(r)' = Purpose(r)
      <3>1. "clear" \in Stages
        BY DEF Stages
      <3> QED BY <1>3, <2>1, <3>1, Arrived DEF RowsOK
    <2>3. Purpose(r) \in Purposes \X (Ids \cup Phones \cup Wallets)
      <3>1. PICK x \in Ids : Purpose(r) = <<"2fa-otp", x>>
        BY <1>3, <1>9, Here DEF Purpose, RowsOK, Call, Ids
      <3> QED BY <3>1 DEF Purposes
    <2>4. RouteOK(r)'
      BY <2>2, <1>9, <1>1, <2>3 DEF RouteOK, CodeSenders
    <2>5. UserFound(r)'
      BY <2>2, <1>9, <1>3 DEF UserFound, Identified
    <2>6. HeldOK(r)'
      BY <2>2, <1>9 DEF HeldOK, DeviceWait
    <2>7. DueOK(r)'
      BY <2>2, <1>9, <1>5
      DEF DueOK, ChallengeDue, TrustDue, WalletDue, PasskeyDue, PhoneDue, DecisionDue,
          SecondFactors, PasswordSignIns
    <2> QED BY <2>2, <2>4, <2>5, <2>6, <2>7 DEF GoesOn
  <1> QED BY <1>1, <1>6, <1>7, <1>8, <1>9 DEF SecondFactors

LEMMA ManageGoesOn ==
  ASSUME TypeOK, HandlersOK, RowsOK, NEW r \in Requests, Handle(r), Manage(r), pc'[r] # "done"
  PROVE  GoesOn(r)
PROOF
  <1>1. pc[r] \in {"enable", "disable", "generate-backup"} /\ Op(r) = pc[r]
    BY Places, Called DEF RowsOK, Operations
  <1>2. ~Refuse(r)
    BY DEF Refuse, Goto, TypeOK
  <1>3. PICK u \in SignedIn(r) :
          CASE Op(r) = "enable"  -> Reads(r, IF config.skips THEN "flag" ELSE "existing", u, None)
            [] Op(r) = "disable" -> Reads(r, "lower", u, None)
            [] Op(r) = "generate-backup" ->
                 \E factor \in FindOne(FactorsOf(u)) :
                   IF factor = None \/ ~db.user[u].twoFactor THEN Refuse(r)
                   ELSE Reads(r, "renew", u, factor)
    BY <1>2, Zenon DEF Manage
  <1>4. Known(u) /\ u # None /\ u \in Ids
    BY Signed DEF RowsOK, Known
  <1>5. CASE Op(r) = "enable"
    <2>1. PICK t \in {"flag", "existing"} : Reads(r, t, u, None) /\ (t = "flag" => config.skips)
      BY <1>3, <1>5
    <2>2. /\ pc'[r] = t /\ User(r)' = u /\ mem'[r].row = None /\ call' = call
          /\ mem'[r] \in Memory /\ Op(r)' = Op(r) /\ config' = config /\ Purpose(r)' = Purpose(r)
          /\ pc'[r] \notin {"idle"} \cup Operations /\ db' = db /\ Known(u)'
      <3>1. t \in Stages
        BY <2>1 DEF Stages
      <3> QED BY <1>4, <2>1, <3>1, Arrived DEF RowsOK
    <2>3. RouteOK(r)'
      BY <2>1, <2>2, <1>5 DEF RouteOK
    <2>4. UserFound(r)'
      BY <2>1, <2>2, <1>5, <1>4 DEF UserFound, Identified
    <2>5. HeldOK(r)'
      BY <2>1, <2>2, <1>5 DEF HeldOK, DeviceWait
    <2>6. DueOK(r)'
      BY <2>1, <2>2, <1>5
      DEF DueOK, ChallengeDue, TrustDue, WalletDue, PasskeyDue, PhoneDue, DecisionDue,
          SecondFactors, PasswordSignIns
    <2> QED BY <2>1, <2>2, <2>3, <2>4, <2>5, <2>6 DEF GoesOn
  <1>6. CASE Op(r) = "disable"
    <2>1. Reads(r, "lower", u, None)
      BY <1>3, <1>6
    <2>2. /\ pc'[r] = "lower" /\ User(r)' = u /\ mem'[r].row = None /\ call' = call
          /\ mem'[r] \in Memory /\ Op(r)' = Op(r) /\ config' = config /\ Purpose(r)' = Purpose(r)
          /\ pc'[r] \notin {"idle"} \cup Operations /\ db' = db /\ Known(u)'
      <3>1. "lower" \in Stages
        BY DEF Stages
      <3> QED BY <1>4, <2>1, <3>1, Arrived DEF RowsOK
    <2>3. RouteOK(r)'
      BY <2>2, <1>6 DEF RouteOK
    <2>4. UserFound(r)'
      BY <2>2, <1>6, <1>4 DEF UserFound, Identified
    <2>5. HeldOK(r)'
      BY <2>2, <1>6 DEF HeldOK, DeviceWait
    <2>6. DueOK(r)'
      BY <2>2, <1>6
      DEF DueOK, ChallengeDue, TrustDue, WalletDue, PasskeyDue, PhoneDue, DecisionDue,
          SecondFactors, PasswordSignIns
    <2> QED BY <2>2, <2>3, <2>4, <2>5, <2>6 DEF GoesOn
  <1>7. CASE Op(r) = "generate-backup"
    <2>1. PICK factor \in FindOne(FactorsOf(u)) :
            IF factor = None \/ ~db.user[u].twoFactor THEN Refuse(r)
            ELSE Reads(r, "renew", u, factor)
      BY <1>3, <1>7
    <2>2. Reads(r, "renew", u, factor) /\ factor \in TwoFactorRow /\ factor \in Rememberable
      BY <1>2, <1>4, <2>1, Held DEF FindOne, Rememberable
    <2>3. /\ pc'[r] = "renew" /\ User(r)' = u /\ mem'[r].row = factor /\ call' = call
          /\ mem'[r] \in Memory /\ Op(r)' = Op(r) /\ config' = config /\ Purpose(r)' = Purpose(r)
          /\ pc'[r] \notin {"idle"} \cup Operations /\ db' = db /\ Known(u)'
      <3>1. "renew" \in Stages
        BY DEF Stages
      <3> QED BY <1>4, <2>2, <3>1, Arrived DEF RowsOK
    <2>4. RouteOK(r)'
      BY <2>3, <1>7 DEF RouteOK
    <2>5. UserFound(r)'
      BY <2>3, <1>7, <1>4 DEF UserFound, Identified
    <2>6. HeldOK(r)'
      BY <2>3, <1>7, <2>2 DEF HeldOK, DeviceWait
    <2>7. DueOK(r)'
      BY <2>3, <1>7
      DEF DueOK, ChallengeDue, TrustDue, WalletDue, PasskeyDue, PhoneDue, DecisionDue,
          SecondFactors, PasswordSignIns
    <2> QED BY <2>3, <2>4, <2>5, <2>6, <2>7 DEF GoesOn
  <1> QED BY <1>1, <1>5, <1>6, <1>7

LEMMA FindExistingGoesOn ==
  ASSUME TypeOK, HandlersOK, RowsOK, NEW r \in Requests, Handle(r), FindExisting(r), pc'[r] # "done"
  PROVE  GoesOn(r)
PROOF
  <1>1. pc[r] = "existing" /\ Op(r) = "enable"
    BY Called, Places DEF RowsOK, RouteOK
  <1>2. Known(User(r)) /\ User(r) # None
    BY <1>1, Called DEF RowsOK, UserFound, Identified
  <1>3. PICK u \in Ids : u = User(r) /\ Known(u) /\ u # None
    BY <1>2 DEF Known
  <1>4. PICK factor \in FindOne(FactorsOf(u)) : Reads(r, "replace", u, factor)
    BY <1>3 DEF FindExisting
  <1>5. factor \in TwoFactorRow \cup {None} /\ factor \in Rememberable \cup {None}
    BY <1>3, <1>4, Held DEF FindOne, Rememberable
  <1>6. /\ pc'[r] = "replace" /\ User(r)' = u /\ mem'[r].row = factor /\ call' = call
        /\ mem'[r] \in Memory /\ Op(r)' = Op(r) /\ config' = config /\ Purpose(r)' = Purpose(r)
        /\ pc'[r] \notin {"idle"} \cup Operations /\ db' = db /\ Known(u)'
    <2>1. "replace" \in Stages
      BY DEF Stages
    <2> QED BY <1>3, <1>4, <1>5, <2>1, Arrived DEF RowsOK
  <1>7. RouteOK(r)'
    BY <1>6, <1>1 DEF RouteOK
  <1>8. UserFound(r)'
    BY <1>6, <1>1, <1>3 DEF UserFound, Identified
  <1>9. HeldOK(r)'
    BY <1>6, <1>1, <1>5 DEF HeldOK, DeviceWait
  <1>10. DueOK(r)'
    BY <1>6, <1>1
    DEF DueOK, ChallengeDue, TrustDue, WalletDue, PasskeyDue, PhoneDue, DecisionDue,
        SecondFactors, PasswordSignIns
  <1> QED BY <1>6, <1>7, <1>8, <1>9, <1>10 DEF GoesOn

LEMMA PhoneSignInGoesOn ==
  ASSUME TypeOK, HandlersOK, RowsOK, NEW r \in Requests, Handle(r), PhoneSignIn(r), pc'[r] # "done"
  PROVE  GoesOn(r)
PROOF
  <1>1. pc[r] = "phone-sign-in" /\ Op(r) = "phone-sign-in"
    BY Called, Places DEF RowsOK, Operations, PhoneOps
  <1>2. ~Refuse(r)
    BY DEF Refuse, Goto, TypeOK
  <1>3. PICK u \in Holders(call[r].who), t \in {"clear", "session"} : Reads(r, t, u, None)
    BY <1>2 DEF PhoneSignIn, FindOne
  <1>4. Known(u) /\ u # None /\ u \in Ids
    BY <1>3, Held DEF Holders
  <1>5. Purpose(r) \in Purposes \X (Ids \cup Phones \cup Wallets)
    <2>1. PICK x \in Phones : Purpose(r) = <<"phone", x>>
      BY <1>1, Here, Naming DEF Purpose, RowsOK, PhoneOps
    <2> QED BY <2>1 DEF Purposes
  <1>6. /\ pc'[r] = t /\ User(r)' = u /\ mem'[r].row = None /\ call' = call
        /\ mem'[r] \in Memory /\ Op(r)' = Op(r) /\ config' = config /\ Purpose(r)' = Purpose(r)
        /\ pc'[r] \notin {"idle"} \cup Operations /\ db' = db /\ Known(u)'
    <2>1. t \in Stages
      BY <1>3 DEF Stages
    <2> QED BY <1>3, <1>4, <2>1, Arrived DEF RowsOK
  <1>7. RouteOK(r)'
    BY <1>3, <1>6, <1>1, <1>5 DEF RouteOK, SessionOps, PasswordSignIns, CodeSenders
  <1>8. UserFound(r)'
    BY <1>3, <1>6, <1>1, <1>4 DEF UserFound, Identified
  <1>9. HeldOK(r)'
    BY <1>3, <1>6, <1>1 DEF HeldOK, DeviceWait
  <1>10. DueOK(r)'
    BY <1>3, <1>6, <1>1
    DEF DueOK, ChallengeDue, TrustDue, WalletDue, PasskeyDue, PhoneDue, DecisionDue,
        SecondFactors, PasswordSignIns
  <1> QED BY <1>3, <1>6, <1>7, <1>8, <1>9, <1>10 DEF GoesOn

LEMMA PhoneSendGoesOn ==
  ASSUME TypeOK, HandlersOK, RowsOK, NEW r \in Requests, Handle(r), PhoneSend(r), pc'[r] # "done"
  PROVE  GoesOn(r)
PROOF
  <1>1. Op(r) \in {"phone-send", "phone-request-reset"}
    BY Called, Places DEF RowsOK, Operations, PhoneOps
  <1>2. ~Refuse(r)
    BY DEF Refuse, Goto, TypeOK
  <1>3. Reads(r, "clear", None, None)
    BY <1>2 DEF PhoneSend
  <1>4. Purpose(r) \in Purposes \X (Ids \cup Phones \cup Wallets)
    <2>1. PICK x \in Phones : call[r].who = x
      BY <1>1, Here, Naming DEF RowsOK, PhoneOps
    <2>2. Purpose(r) = <<"phone", x>> \/ Purpose(r) = <<"phone-reset", x>>
      BY <1>1, <2>1 DEF Purpose
    <2> QED BY <2>2 DEF Purposes
  <1>5. /\ pc'[r] = "clear" /\ User(r)' = None /\ mem'[r].row = None /\ call' = call
        /\ mem'[r] \in Memory /\ Op(r)' = Op(r) /\ config' = config /\ Purpose(r)' = Purpose(r)
        /\ pc'[r] \notin {"idle"} \cup Operations /\ db' = db
    <2>1. "clear" \in Stages
      BY DEF Stages
    <2> QED BY <1>3, <2>1, Arrived DEF RowsOK
  <1>6. RouteOK(r)'
    BY <1>5, <1>1, <1>4 DEF RouteOK, CodeSenders
  <1>7. UserFound(r)'
    BY <1>5, <1>1 DEF UserFound, Identified
  <1>8. HeldOK(r)'
    BY <1>5, <1>1 DEF HeldOK, DeviceWait
  <1>9. DueOK(r)'
    BY <1>5, <1>1
    DEF DueOK, ChallengeDue, TrustDue, WalletDue, PasskeyDue, PhoneDue, DecisionDue,
        SecondFactors, PasswordSignIns
  <1> QED BY <1>5, <1>6, <1>7, <1>8, <1>9 DEF GoesOn

LEMMA PhoneCodeGoesOn ==
  ASSUME TypeOK, HandlersOK, RowsOK, NEW r \in Requests, Handle(r), PhoneCode(r), pc'[r] # "done"
  PROVE  GoesOn(r)
PROOF
  <1>1. Op(r) \in {"phone-verify", "phone-reset"}
    BY Called, Places DEF RowsOK, Operations, PhoneOps
  <1>2. ~Refuse(r)
    BY DEF Refuse, Goto, TypeOK
  <1>3. PICK row \in Rows(Purpose(r)), t \in {"drop-code", "spend", "miscount"} :
          Reads(r, t, None, row) /\ (t = "spend" => call[r].code = row.id)
    BY <1>2, Zenon DEF PhoneCode, CheckCode, FindOne
  <1>4. row \in VerificationRow /\ row \in Rememberable /\ row.identifier = Purpose(r)
    BY <1>3, Types DEF Rememberable, Rows
  <1>5. /\ pc'[r] = t /\ User(r)' = None /\ mem'[r].row = row /\ call' = call
        /\ mem'[r] \in Memory /\ Op(r)' = Op(r) /\ config' = config /\ Purpose(r)' = Purpose(r)
        /\ pc'[r] \notin {"idle"} \cup Operations /\ db' = db
    <2>1. t \in Stages
      BY <1>3 DEF Stages
    <2> QED BY <1>3, <1>4, <2>1, Arrived DEF RowsOK
  <1>6. Op(r) = "phone-verify" /\ t = "spend" => SentBy(r, {"phone-send", "phone-sign-in"})'
    <2>1. ASSUME Op(r) = "phone-verify", t = "spend"
          PROVE  SentBy(r, {"phone-send", "phone-sign-in"})
      <3>1. row.identifier = <<"phone", call[r].who>>
        BY <1>4, <2>1 DEF Purpose
      <3>2. row \in db.verification
        BY <1>3 DEF Rows
      <3> QED BY <1>3, <2>1, <3>1, <3>2, RowsTell DEF SentBy, RowsOK
    <2> QED BY <2>1, HereToo DEF RowsOK
  <1>7. RouteOK(r)'
    BY <1>3, <1>5, <1>1 DEF RouteOK, CodeSpenders
  <1>8. UserFound(r)'
    BY <1>3, <1>5, <1>1 DEF UserFound, Identified
  <1>9. HeldOK(r)'
    BY <1>3, <1>5, <1>1, <1>4 DEF HeldOK, DeviceWait
  <1>10. DueOK(r)'
    BY <1>3, <1>5, <1>1, <1>6
    DEF DueOK, ChallengeDue, TrustDue, WalletDue, PasskeyDue, PhoneDue, DecisionDue,
        SecondFactors, PasswordSignIns
  <1> QED BY <1>3, <1>5, <1>7, <1>8, <1>9, <1>10 DEF GoesOn

LEMMA ResolvePhoneGoesOn ==
  ASSUME TypeOK, HandlersOK, RowsOK, NEW r \in Requests, Handle(r), ResolvePhone(r), pc'[r] # "done"
  PROVE  GoesOn(r)
PROOF
  <1>1. pc[r] = "resolve-phone" /\ Op(r) = "phone-verify"
    BY Called, Places DEF RowsOK, RouteOK
  <1>2. PICK u \in FindOne(Holders(call[r].who)), t \in {"sign-up", "echo", "session", "verify-phone"} :
          Reads(r, t, u, None) /\ (u = None <=> t = "sign-up")
    <2>1. \A x \in Holders(call[r].who) : x # None
      BY Held DEF Holders
    <2>2. PICK u \in FindOne(Holders(call[r].who)) :
            Reads(r, IF u = None THEN "sign-up"
                     ELSE IF db.user[u].phoneVerified THEN AfterPhone(r) ELSE "verify-phone",
                  u, None)
      BY DEF ResolvePhone
    <2>3. AfterPhone(r) \in {"echo", "session"}
      BY DEF AfterPhone
    <2> QED BY <2>2, <2>3
  <1>3. u = None \/ (Known(u) /\ u \in Ids /\ db.user[u].phone = call[r].who)
    BY <1>2, Held DEF FindOne, Holders
  <1>4. SentBy(r, {"phone-send", "phone-sign-in"})'
    <2>1. SentBy(r, {"phone-send", "phone-sign-in"})
      BY <1>1, Called DEF RowsOK, DueOK, PhoneDue
    <2> QED BY <2>1, HereToo DEF RowsOK
  <1>5. /\ pc'[r] = t /\ User(r)' = u /\ mem'[r].row = None /\ call' = call
        /\ mem'[r] \in Memory /\ Op(r)' = Op(r) /\ config' = config /\ Purpose(r)' = Purpose(r)
        /\ pc'[r] \notin {"idle"} \cup Operations /\ db' = db /\ (u # None => Known(u)')
    <2>1. t \in Stages
      BY <1>2 DEF Stages
    <2> QED BY <1>2, <1>3, <2>1, Arrived DEF RowsOK
  <1>6. u # None => HoldsNumber(r)'
    BY <1>3, <1>5 DEF HoldsNumber
  <1>7. RouteOK(r)'
    BY <1>2, <1>5, <1>1 DEF RouteOK, SessionOps
  <1>8. UserFound(r)'
    BY <1>2, <1>5, <1>1, <1>3 DEF UserFound, Identified
  <1>9. HeldOK(r)'
    BY <1>2, <1>5, <1>1 DEF HeldOK, DeviceWait
  <1>10. DueOK(r)'
    BY <1>2, <1>5, <1>1, <1>4, <1>6
    DEF DueOK, ChallengeDue, TrustDue, WalletDue, PasskeyDue, PhoneDue, DecisionDue,
        SecondFactors, PasswordSignIns
  <1> QED BY <1>2, <1>5, <1>7, <1>8, <1>9, <1>10 DEF GoesOn

LEMMA FindAccountGoesOn ==
  ASSUME TypeOK, HandlersOK, RowsOK, NEW r \in Requests, Handle(r), FindAccount(r), pc'[r] # "done"
  PROVE  GoesOn(r)
PROOF
  <1>1. pc[r] = "find-account" /\ Op(r) = "phone-reset"
    BY Called, Places DEF RowsOK, RouteOK
  <1>2. ~Refuse(r)
    BY DEF Refuse, Goto, TypeOK
  <1>3. PICK u \in Holders(call[r].who) :
          \E account \in FindOne(Credentials(u)) : Reads(r, "set-password", u, account)
    BY <1>2 DEF FindAccount, FindOne
  <1>4. Known(u) /\ u # None /\ u \in Ids
    BY <1>3, Held DEF Holders
  <1>5. PICK account \in FindOne(Credentials(u)) : Reads(r, "set-password", u, account)
    BY <1>3
  <1>6. account \in AccountRow \cup {None} /\ account \in Rememberable \cup {None}
    BY <1>4, <1>5, Held DEF FindOne, Rememberable
  <1>7. /\ pc'[r] = "set-password" /\ User(r)' = u /\ mem'[r].row = account /\ call' = call
        /\ mem'[r] \in Memory /\ Op(r)' = Op(r) /\ config' = config /\ Purpose(r)' = Purpose(r)
        /\ pc'[r] \notin {"idle"} \cup Operations /\ db' = db /\ Known(u)'
    <2>1. "set-password" \in Stages
      BY DEF Stages
    <2> QED BY <1>4, <1>5, <1>6, <2>1, Arrived DEF RowsOK
  <1>8. RouteOK(r)'
    BY <1>7, <1>1 DEF RouteOK
  <1>9. UserFound(r)'
    BY <1>7, <1>1, <1>4 DEF UserFound, Identified
  <1>10. HeldOK(r)'
    BY <1>7, <1>1, <1>6 DEF HeldOK, DeviceWait
  <1>11. DueOK(r)'
    BY <1>7, <1>1
    DEF DueOK, ChallengeDue, TrustDue, WalletDue, PasskeyDue, PhoneDue, DecisionDue,
        SecondFactors, PasswordSignIns
  <1> QED BY <1>7, <1>8, <1>9, <1>10, <1>11 DEF GoesOn

LEMMA VerifyWalletGoesOn ==
  ASSUME TypeOK, HandlersOK, RowsOK, NEW r \in Requests, Handle(r), VerifyWallet(r), pc'[r] # "done"
  PROVE  GoesOn(r)
PROOF
  <1>1. Op(r) = "siwe-verify"
    BY Called, Places DEF RowsOK, Operations, WalletOps
  <1>2. ~Refuse(r)
    BY DEF Refuse, Goto, TypeOK
  <1>3. PICK nonce \in Nonces(r) : Reads(r, "burn", None, nonce) /\ call[r].code = nonce.id
    BY <1>2 DEF VerifyWallet, FindOne
  <1>4. /\ nonce \in db.verification /\ nonce \in VerificationRow /\ nonce \in Rememberable
        /\ nonce.identifier = <<"siwe", call[r].who>>
    BY <1>3, Types DEF Nonces, Rows, Rememberable
  <1>5. /\ pc'[r] = "burn" /\ User(r)' = None /\ mem'[r].row = nonce /\ call' = call
        /\ mem'[r] \in Memory /\ Op(r)' = Op(r) /\ config' = config /\ Purpose(r)' = Purpose(r)
        /\ pc'[r] \notin {"idle"} \cup Operations /\ db' = db
    <2>1. "burn" \in Stages
      BY DEF Stages
    <2> QED BY <1>3, <1>4, <2>1, Arrived DEF RowsOK
  <1>6. SentBy(r, {"siwe-nonce"})'
    <2>1. SentBy(r, {"siwe-nonce"})
      BY <1>3, <1>4, RowsTell DEF SentBy, RowsOK
    <2> QED BY <2>1, HereToo DEF RowsOK
  <1>7. RouteOK(r)'
    BY <1>5, <1>1 DEF RouteOK
  <1>8. UserFound(r)'
    BY <1>5, <1>1 DEF UserFound, Identified
  <1>9. HeldOK(r)'
    BY <1>5, <1>1, <1>3, <1>4 DEF HeldOK, DeviceWait
  <1>10. DueOK(r)'
    BY <1>5, <1>1, <1>6
    DEF DueOK, ChallengeDue, TrustDue, WalletDue, PasskeyDue, PhoneDue, DecisionDue,
        SecondFactors, PasswordSignIns
  <1> QED BY <1>5, <1>7, <1>8, <1>9, <1>10 DEF GoesOn

LEMMA ResolveWalletGoesOn ==
  ASSUME TypeOK, HandlersOK, RowsOK, NEW r \in Requests, Handle(r), ResolveWallet(r), pc'[r] # "done"
  PROVE  GoesOn(r)
PROOF
  <1>1. pc[r] = "resolve-wallet" /\ Op(r) = "siwe-verify"
    BY Called, Places DEF RowsOK, RouteOK
  <1>2. PICK u \in Ids \cup {None}, t \in {"session", "wallet-user", "wallet-row"} :
          /\ Reads(r, t, u, None) /\ (u = None <=> t = "wallet-user") /\ (u # None => Known(u))
          /\ t = "session" =>
               \E w \in db.wallet : AddressOf[w.wallet] = AddressOf[call[r].who] /\ w.user = u
    <2>1. \A w \in db.wallet : Known(w.user) /\ w.user # None
      BY NoneApart DEF RowsOK, Known
    <2>2. CASE \E w \in db.wallet : w.wallet = call[r].who /\ Reads(r, "session", w.user, None)
      BY <2>1, <2>2 DEF Known
    <2>3. CASE Reads(r, "wallet-user", None, None)
      BY <2>3
    <2>4. CASE \E w \in db.wallet : Reads(r, "wallet-row", w.user, None)
      BY <2>1, <2>4 DEF Known
    <2> QED BY <2>1, <2>2, <2>3, <2>4 DEF ResolveWallet, WalletsOf, FindOne
  <1>3. SentBy(r, {"siwe-nonce"})'
    <2>1. SentBy(r, {"siwe-nonce"})
      BY <1>1, Called DEF RowsOK, DueOK, WalletDue
    <2> QED BY <2>1, HereToo DEF RowsOK
  <1>4. /\ pc'[r] = t /\ User(r)' = u /\ mem'[r].row = None /\ call' = call
        /\ mem'[r] \in Memory /\ Op(r)' = Op(r) /\ db' = db
        /\ pc'[r] \notin {"idle"} \cup Operations /\ (u # None => Known(u)')
    <2>1. t \in Stages
      BY <1>2 DEF Stages
    <2> QED BY <1>2, <2>1, Arrived DEF RowsOK
  <1>5. t = "session" => HoldsWallet(r)'
    BY <1>2, <1>4 DEF HoldsWallet
  <1>6. RouteOK(r)'
    BY <1>2, <1>4, <1>1 DEF RouteOK, SessionOps
  <1>7. UserFound(r)'
    BY <1>2, <1>4, <1>1 DEF UserFound, Identified
  <1>8. HeldOK(r)'
    BY <1>2, <1>4, <1>1 DEF HeldOK, DeviceWait
  <1>9. DueOK(r)'
    BY <1>2, <1>4, <1>1, <1>3, <1>5
    DEF DueOK, ChallengeDue, TrustDue, WalletDue, PasskeyDue, PhoneDue, DecisionDue,
        SecondFactors, PasswordSignIns
  <1> QED BY <1>2, <1>4, <1>6, <1>7, <1>8, <1>9 DEF GoesOn

LEMMA DeviceTokenGoesOn ==
  ASSUME TypeOK, HandlersOK, RowsOK, NEW r \in Requests, Handle(r), DeviceToken(r), pc'[r] # "done"
  PROVE  GoesOn(r)
PROOF
  <1>1. pc[r] = "device-token" /\ Op(r) = "device-token"
    BY Called, Places DEF RowsOK, Operations
  <1>2. ~Refuse(r)
    BY DEF Refuse, Goto, TypeOK
  <1>3. PICK row \in CodeRows(r) : Reads(r, "poll", row.user, row)
    BY <1>2 DEF DeviceToken, FindOne
  <1>4. PICK u : u = row.user
    OBVIOUS
  <1>5. /\ row \in DeviceRow /\ row \in Rememberable /\ row.id = call[r].device
        /\ DeviceOK(row) /\ u \in Ids \cup {None} /\ (u # None => Known(u))
    BY <1>3, <1>4, Types DEF CodeRows, Rememberable, RowsOK, DeviceOK, DeviceRow
  <1>6. /\ pc'[r] = "poll" /\ User(r)' = u /\ mem'[r].row = row /\ call' = call
        /\ mem'[r] \in Memory /\ Op(r)' = Op(r) /\ config' = config /\ Purpose(r)' = Purpose(r)
        /\ pc'[r] \notin {"idle"} \cup Operations /\ db' = db /\ (u # None => Known(u)')
    <2>1. "poll" \in Stages
      BY DEF Stages
    <2> QED BY <1>3, <1>4, <1>5, <2>1, Arrived DEF RowsOK
  <1>7. (u # None => Known(u)') /\ DeviceOK(row)'
    BY <1>5, Here, DoneStays DEF RowsOK, Gentle
  <1>8. ~HasSession(r)'
    <2>1. ~HasSession(r)
      BY <1>1 DEF RowsOK, SessionsOK, HasSession
    <2> QED BY <1>6, <2>1 DEF HasSession
  <1>9. RouteOK(r)'
    BY <1>6, <1>1 DEF RouteOK
  <1>10. UserFound(r)'
    BY <1>6, <1>1, <1>7 DEF UserFound, Identified
  <1>11. HeldOK(r)'
    BY <1>6, <1>1, <1>4, <1>5, <1>7, <1>8 DEF HeldOK, DeviceWait
  <1>12. DueOK(r)'
    BY <1>6, <1>1
    DEF DueOK, ChallengeDue, TrustDue, WalletDue, PasskeyDue, PhoneDue, DecisionDue,
        SecondFactors, PasswordSignIns
  <1> QED BY <1>6, <1>9, <1>10, <1>11, <1>12 DEF GoesOn

LEMMA DeviceVerifyGoesOn ==
  ASSUME TypeOK, HandlersOK, RowsOK, NEW r \in Requests, Handle(r), DeviceVerify(r), pc'[r] # "done"
  PROVE  GoesOn(r)
PROOF
  <1>1. Op(r) = "device-verify"
    BY Called, Places DEF RowsOK, Operations
  <1>2. ~Refuse(r)
    BY DEF Refuse, Goto, TypeOK
  <1>3. PICK row \in CodeRows(r), u \in SignedIn(r) : Reads(r, "claim", u, row)
    BY <1>2 DEF DeviceVerify, FindOne
  <1>4. row \in Rememberable /\ Known(u) /\ u # None /\ u \in Ids
    BY <1>3, Types, Signed DEF CodeRows, Rememberable, RowsOK, Known
  <1>5. /\ pc'[r] = "claim" /\ User(r)' = u /\ mem'[r].row = row /\ call' = call
        /\ mem'[r] \in Memory /\ Op(r)' = Op(r) /\ config' = config /\ Purpose(r)' = Purpose(r)
        /\ pc'[r] \notin {"idle"} \cup Operations /\ db' = db /\ Known(u)'
    <2>1. "claim" \in Stages
      BY DEF Stages
    <2> QED BY <1>3, <1>4, <2>1, Arrived DEF RowsOK
  <1>6. RouteOK(r)'
    BY <1>5, <1>1 DEF RouteOK
  <1>7. UserFound(r)'
    BY <1>5, <1>1, <1>4 DEF UserFound, Identified
  <1>8. HeldOK(r)'
    BY <1>5, <1>1 DEF HeldOK, DeviceWait
  <1>9. DueOK(r)'
    BY <1>5, <1>1
    DEF DueOK, ChallengeDue, TrustDue, WalletDue, PasskeyDue, PhoneDue, DecisionDue,
        SecondFactors, PasswordSignIns
  <1> QED BY <1>5, <1>6, <1>7, <1>8, <1>9 DEF GoesOn

LEMMA SetStatusGoesOn ==
  ASSUME TypeOK, HandlersOK, RowsOK, NEW r \in Requests, Handle(r), SetStatus(r), pc'[r] # "done"
  PROVE  GoesOn(r)
PROOF
  <1>1. Op(r) \in {"device-approve", "device-deny"}
    BY Called, Places DEF RowsOK, Operations
  <1>2. ~Refuse(r)
    BY DEF Refuse, Goto, TypeOK
  <1>3. PICK row \in CodeRows(r) : row.user # None /\ Reads(r, "decide", row.user, row)
    BY <1>2 DEF SetStatus, FindOne
  <1>4. PICK u, device : u = row.user /\ device = row.id
    OBVIOUS
  <1>5. /\ row \in Rememberable /\ device = call[r].device
        /\ Known(u) /\ u # None /\ u \in Ids /\ HasDone("device-verify", device, u)
    BY <1>3, <1>4, Types DEF CodeRows, Rememberable, RowsOK, DeviceOK, Known
  <1>6. /\ pc'[r] = "decide" /\ User(r)' = u /\ mem'[r].row = row /\ call' = call
        /\ mem'[r] \in Memory /\ Op(r)' = Op(r) /\ config' = config /\ Purpose(r)' = Purpose(r)
        /\ pc'[r] \notin {"idle"} \cup Operations /\ db' = db /\ Known(u)'
    <2>1. "decide" \in Stages
      BY DEF Stages
    <2> QED BY <1>3, <1>4, <1>5, <2>1, Arrived DEF RowsOK
  <1>7. HasDone("device-verify", device, u)'
    BY <1>5, Here, DoneStays DEF RowsOK
  <1>8. RouteOK(r)'
    BY <1>6, <1>1 DEF RouteOK
  <1>9. UserFound(r)'
    BY <1>6, <1>1, <1>5 DEF UserFound, Identified
  <1>10. HeldOK(r)'
    BY <1>6, <1>1 DEF HeldOK, DeviceWait
  <1>11. DueOK(r)'
    BY <1>6, <1>1, <1>5, <1>7
    DEF DueOK, ChallengeDue, TrustDue, WalletDue, PasskeyDue, PhoneDue, DecisionDue,
        SecondFactors, PasswordSignIns
  <1> QED BY <1>6, <1>8, <1>9, <1>10, <1>11 DEF GoesOn

LEMMA RegisterPasskeyGoesOn ==
  ASSUME TypeOK, HandlersOK, RowsOK, NEW r \in Requests, Handle(r), RegisterPasskey(r), pc'[r] # "done"
  PROVE  GoesOn(r)
PROOF
  <1>1. Op(r) = "passkey-register"
    BY Called, Places DEF RowsOK, Operations
  <1>2. ~Refuse(r)
    BY DEF Refuse, Goto, TypeOK
  <1>3. PICK row \in Challenges(r) : row.holder \in SignedIn(r) /\ Reads(r, "passkey-row", row.holder, row)
    BY <1>2 DEF RegisterPasskey, FindOne
  <1>4. PICK u : u = row.holder
    OBVIOUS
  <1>5. row \in Rememberable /\ Known(u) /\ u # None /\ u \in Ids
    BY <1>3, <1>4, Types, Signed DEF Challenges, Rows, Rememberable, RowsOK, Known
  <1>6. /\ pc'[r] = "passkey-row" /\ User(r)' = u /\ mem'[r].row = row /\ call' = call
        /\ mem'[r] \in Memory /\ Op(r)' = Op(r) /\ config' = config /\ Purpose(r)' = Purpose(r)
        /\ pc'[r] \notin {"idle"} \cup Operations /\ db' = db /\ Known(u)'
    <2>1. "passkey-row" \in Stages
      BY DEF Stages
    <2> QED BY <1>3, <1>4, <1>5, <2>1, Arrived DEF RowsOK
  <1>7. RouteOK(r)'
    BY <1>6, <1>1 DEF RouteOK
  <1>8. UserFound(r)'
    BY <1>6, <1>1, <1>5 DEF UserFound, Identified
  <1>9. HeldOK(r)'
    BY <1>6, <1>1 DEF HeldOK, DeviceWait
  <1>10. DueOK(r)'
    BY <1>6, <1>1
    DEF DueOK, ChallengeDue, TrustDue, WalletDue, PasskeyDue, PhoneDue, DecisionDue,
        SecondFactors, PasswordSignIns
  <1> QED BY <1>6, <1>7, <1>8, <1>9, <1>10 DEF GoesOn

LEMMA AuthenticateGoesOn ==
  ASSUME TypeOK, HandlersOK, RowsOK, NEW r \in Requests, Handle(r), Authenticate(r), pc'[r] # "done"
  PROVE  GoesOn(r)
PROOF
  <1>1. Op(r) = "passkey-authenticate"
    BY Called, Places DEF RowsOK, Operations
  <1>2. ~Refuse(r)
    BY DEF Refuse, Goto, TypeOK
  <1>3. PICK row \in Challenges(r), passkey \in db.passkey :
          passkey.id = call[r].device /\ Reads(r, "counter", passkey.user, row)
    BY <1>2 DEF Authenticate, FindOne
  <1>4. PICK u : u = passkey.user
    OBVIOUS
  <1>5. /\ row \in Rememberable /\ Known(u) /\ u # None /\ u \in Ids
        /\ call[r].device \in Ids /\ UserOf(call[r].device) = u
    BY <1>3, <1>4, Types, NoneApart
    DEF Challenges, Rows, Rememberable, RowsOK, PasskeysOK, PasskeyRow, Known
  <1>6. /\ pc'[r] = "counter" /\ User(r)' = u /\ mem'[r].row = row /\ call' = call
        /\ mem'[r] \in Memory /\ Op(r)' = Op(r) /\ config' = config /\ Purpose(r)' = Purpose(r)
        /\ pc'[r] \notin {"idle"} \cup Operations /\ db' = db /\ Known(u)'
    <2>1. "counter" \in Stages
      BY DEF Stages
    <2> QED BY <1>3, <1>4, <1>5, <2>1, Arrived DEF RowsOK
  <1>7. HoldsPasskey(r)'
    <2>1. call[r].cookie \in Requests /\ Op(call[r].cookie) \in PasskeyOffers
      BY <1>3, RowsTell DEF Challenges, Rows, RowsOK
    <2>2. PICK c : c = call[r]
      OBVIOUS
    <2> QED BY <1>5, <1>6, <2>1, <2>2, HereToo DEF HoldsPasskey, RowsOK
  <1>8. RouteOK(r)'
    BY <1>6, <1>1 DEF RouteOK
  <1>9. UserFound(r)'
    BY <1>6, <1>1, <1>5 DEF UserFound, Identified
  <1>10. HeldOK(r)'
    BY <1>6, <1>1 DEF HeldOK, DeviceWait
  <1>11. DueOK(r)'
    BY <1>6, <1>1, <1>7
    DEF DueOK, ChallengeDue, TrustDue, WalletDue, PasskeyDue, PhoneDue, DecisionDue,
        SecondFactors, PasswordSignIns
  <1> QED BY <1>6, <1>8, <1>9, <1>10, <1>11 DEF GoesOn

LEMMA ManagePasskeyGoesOn ==
  ASSUME TypeOK, HandlersOK, RowsOK, NEW r \in Requests, Handle(r), ManagePasskey(r), pc'[r] # "done"
  PROVE  GoesOn(r)
PROOF
  <1>1. Op(r) \in {"passkey-delete", "passkey-update"}
    BY Called, Places DEF RowsOK, Operations
  <1>2. ~Refuse(r)
    BY DEF Refuse, Goto, TypeOK
  <1>3. ~Finishes(r, {"ok"}, db)
    BY DEF Finishes, Answers, Goto, TypeOK
  <1>4. PICK passkey \in db.passkey : /\ passkey.user \in SignedIn(r) /\ Op(r) # "passkey-update"
                                      /\ Reads(r, "drop-passkey", passkey.user, passkey)
    BY <1>2, <1>3 DEF ManagePasskey, FindOne
  <1>5. PICK u : u = passkey.user
    OBVIOUS
  <1>6. passkey \in Rememberable /\ Known(u) /\ u # None /\ u \in Ids
    BY <1>4, <1>5, Types, Signed DEF Rememberable, RowsOK, Known
  <1>7. /\ pc'[r] = "drop-passkey" /\ User(r)' = u /\ mem'[r].row = passkey /\ call' = call
        /\ mem'[r] \in Memory /\ Op(r)' = Op(r) /\ config' = config /\ Purpose(r)' = Purpose(r)
        /\ pc'[r] \notin {"idle"} \cup Operations /\ db' = db /\ Known(u)'
    <2>1. "drop-passkey" \in Stages
      BY DEF Stages
    <2> QED BY <1>4, <1>5, <1>6, <2>1, Arrived DEF RowsOK
  <1>8. RouteOK(r)'
    BY <1>7, <1>1, <1>4 DEF RouteOK
  <1>9. UserFound(r)'
    BY <1>7, <1>1, <1>4, <1>6 DEF UserFound, Identified
  <1>10. HeldOK(r)'
    BY <1>7, <1>1, <1>4 DEF HeldOK, DeviceWait
  <1>11. DueOK(r)'
    BY <1>7, <1>1, <1>4
    DEF DueOK, ChallengeDue, TrustDue, WalletDue, PasskeyDue, PhoneDue, DecisionDue,
        SecondFactors, PasswordSignIns
  <1> QED BY <1>7, <1>8, <1>9, <1>10, <1>11 DEF GoesOn

LEMMA PhoneSignUpGoesOn ==
  ASSUME TypeOK, HandlersOK, RowsOK, NEW r \in Requests, Handle(r), PhoneSignUp(r), pc'[r] # "done"
  PROVE  GoesOn(r)
PROOF
  <1>1. pc[r] = "sign-up" /\ Op(r) = "phone-verify"
    BY Called, Places DEF RowsOK, RouteOK
  <1>2. ~Refuse(r)
    BY DEF Refuse, Goto, TypeOK
  <1>3. PICK new \in UserRow : new.phone = call[r].who /\ db' = [db EXCEPT !.user[r] = new]
    <2>1. [twoFactor |-> FALSE, phone |-> call[r].who, phoneVerified |-> TRUE] \in UserRow
      BY <1>1, Here, Naming DEF UserRow, RowsOK, PhoneOps
    <2> QED BY <1>2, <2>1 DEF PhoneSignUp
  <1>4. mem' = [mem EXCEPT ![r].user = r]
    BY <1>2 DEF PhoneSignUp
  <1>5. db'.user[r] = new /\ r \in Ids
    BY <1>3, Here DEF TypeOK, Database, RowsOK
  <1>6. /\ User(r)' = r /\ mem'[r] \in Memory /\ call' = call /\ Op(r)' = Op(r) /\ Known(r)' /\ r # None
        /\ pc'[r] \in {"echo", "session"} /\ pc'[r] \notin {"idle"} \cup Operations
    <2>1. pc'[r] \in {"echo", "session"}
      BY Leads
    <2>2. pc'[r] \notin {"idle"} \cup Operations
      BY Answered, StagesApart
    <2>3. mem[r] \in Memory
      BY DEF TypeOK, Memory
    <2> QED BY <1>4, <1>5, <2>1, <2>2, <2>3, Here, NoneApart DEF User, Memory, Known, RowsOK
  <1>7. SentBy(r, {"phone-send", "phone-sign-in"})'
    <2>1. SentBy(r, {"phone-send", "phone-sign-in"})
      BY <1>1, Called DEF RowsOK, DueOK, PhoneDue
    <2> QED BY <2>1, HereToo DEF RowsOK
  <1>8. HoldsNumber(r)'
    BY <1>3, <1>5, <1>6 DEF HoldsNumber
  <1>9. RouteOK(r)'
    BY <1>6, <1>1 DEF RouteOK, SessionOps
  <1>10. UserFound(r)'
    BY <1>6, <1>1 DEF UserFound, Identified
  <1>11. HeldOK(r)'
    BY <1>6, <1>1 DEF HeldOK, DeviceWait
  <1>12. DueOK(r)'
    BY <1>6, <1>1, <1>7, <1>8
    DEF DueOK, ChallengeDue, TrustDue, WalletDue, PasskeyDue, PhoneDue, DecisionDue,
        SecondFactors, PasswordSignIns
  <1> QED BY <1>6, <1>9, <1>10, <1>11, <1>12 DEF GoesOn

LEMMA WalletUserGoesOn ==
  ASSUME TypeOK, HandlersOK, RowsOK, NEW r \in Requests, Handle(r), WalletUser(r), pc'[r] # "done"
  PROVE  GoesOn(r)
PROOF
  <1>1. pc[r] = "wallet-user" /\ Op(r) = "siwe-verify"
    BY Called, Places DEF RowsOK, RouteOK
  <1>2. ~Refuse(r)
    BY DEF Refuse, Goto, TypeOK
  <1>3. PICK new \in UserRow : new.phone = None /\ db' = [db EXCEPT !.user[r] = new]
    <2>1. [twoFactor |-> FALSE, phone |-> None, phoneVerified |-> FALSE] \in UserRow
      BY <1>1, Here, Naming DEF UserRow, RowsOK, PhoneOps
    <2> QED BY <1>2, <2>1 DEF WalletUser
  <1>4. mem' = [mem EXCEPT ![r].user = r]
    BY <1>2 DEF WalletUser
  <1>5. db'.user[r] = new /\ r \in Ids
    BY <1>3, Here DEF TypeOK, Database, RowsOK
  <1>6. /\ User(r)' = r /\ mem'[r] \in Memory /\ call' = call /\ Op(r)' = Op(r) /\ Known(r)' /\ r # None
        /\ pc'[r] \in {"wallet-row"} /\ pc'[r] \notin {"idle"} \cup Operations
    <2>1. pc'[r] \in {"wallet-row"}
      BY Leads
    <2>2. pc'[r] \notin {"idle"} \cup Operations
      BY Answered, StagesApart
    <2>3. mem[r] \in Memory
      BY DEF TypeOK, Memory
    <2> QED BY <1>4, <1>5, <2>1, <2>2, <2>3, Here, NoneApart DEF User, Memory, Known, RowsOK
  <1>7. SentBy(r, {"siwe-nonce"})'
    <2>1. SentBy(r, {"siwe-nonce"})
      BY <1>1, Called DEF RowsOK, DueOK, WalletDue
    <2> QED BY <2>1, HereToo DEF RowsOK
  <1>8. RouteOK(r)'
    BY <1>6, <1>1 DEF RouteOK
  <1>9. UserFound(r)'
    BY <1>6, <1>1 DEF UserFound, Identified
  <1>10. HeldOK(r)'
    BY <1>6, <1>1 DEF HeldOK, DeviceWait
  <1>11. DueOK(r)'
    BY <1>6, <1>1, <1>7
    DEF DueOK, ChallengeDue, TrustDue, WalletDue, PasskeyDue, PhoneDue, DecisionDue,
        SecondFactors, PasswordSignIns
  <1> QED BY <1>6, <1>8, <1>9, <1>10, <1>11 DEF GoesOn


-----------------------------------------------------------------------------
(* What every step of a handler keeps                                       *)

LEMMA HandlerStays ==
  ASSUME TypeOK, HandlersOK, RowsOK, NEW r \in Requests, Handle(r)
  PROVE  HandlersOK' /\ mem'[r] \in Memory
PROOF
  <1>1. mem[r] \in Memory
    BY DEF TypeOK, Memory
  <1>2. ASSUME pc'[r] = "done"
        PROVE  HandlerOK(r)' /\ mem'[r] \in Memory
    BY <1>1, <1>2, Through, Moves DEF RowsOK, Went
  <1>3. ASSUME pc'[r] # "done"
        PROVE  GoesOn(r)
    <2>1. CASE Onward(r)
      <3>1. mem'[r] = mem[r]
        BY <2>1, WritersKeep, Zenon DEF Onward
      <3> QED BY <1>1, <1>3, <2>1, <3>1, WritersGoOn DEF GoesOn
    <2>2. CASE SignIn(r)
      BY <1>3, <2>2, SignInGoesOn
    <2>3. CASE Intercept(r)
      BY <1>3, <2>3, InterceptGoesOn
    <2>4. CASE SecondFactor(r)
      BY <1>3, <2>4, SecondFactorGoesOn
    <2>5. CASE Manage(r)
      BY <1>3, <2>5, ManageGoesOn
    <2>6. CASE FindExisting(r)
      BY <1>3, <2>6, FindExistingGoesOn
    <2>7. CASE PhoneSignIn(r)
      BY <1>3, <2>7, PhoneSignInGoesOn
    <2>8. CASE PhoneSend(r)
      BY <1>3, <2>8, PhoneSendGoesOn
    <2>9. CASE PhoneCode(r)
      BY <1>3, <2>9, PhoneCodeGoesOn
    <2>10. CASE ResolvePhone(r)
      BY <1>3, <2>10, ResolvePhoneGoesOn
    <2>11. CASE PhoneSignUp(r)
      BY <1>3, <2>11, PhoneSignUpGoesOn
    <2>12. CASE FindAccount(r)
      BY <1>3, <2>12, FindAccountGoesOn
    <2>13. CASE VerifyWallet(r)
      BY <1>3, <2>13, VerifyWalletGoesOn
    <2>14. CASE ResolveWallet(r)
      BY <1>3, <2>14, ResolveWalletGoesOn
    <2>15. CASE WalletUser(r)
      BY <1>3, <2>15, WalletUserGoesOn
    <2>16. CASE DeviceToken(r)
      BY <1>3, <2>16, DeviceTokenGoesOn
    <2>17. CASE DeviceVerify(r)
      BY <1>3, <2>17, DeviceVerifyGoesOn
    <2>18. CASE SetStatus(r)
      BY <1>3, <2>18, SetStatusGoesOn
    <2>19. CASE RegisterPasskey(r)
      BY <1>3, <2>19, RegisterPasskeyGoesOn
    <2>20. CASE Authenticate(r)
      BY <1>3, <2>20, AuthenticateGoesOn
    <2>21. CASE ManagePasskey(r)
      BY <1>3, <2>21, ManagePasskeyGoesOn
    <2>22. CASE \/ MintCode(r) \/ DropCode(r) \/ CountFailure(r) \/ IssueTrustDevice(r) \/ Challenge(r)
             \/ Enrol(r) \/ RevokeTrust(r) \/ RenewBackup(r) \/ PhoneEcho(r) \/ SetPassword(r)
             \/ IssueNonce(r) \/ DeviceCode(r) \/ DropDevice(r) \/ Claim(r) \/ Decide(r)
             \/ PasskeyOptions(r) \/ DropPasskey(r)
      BY <1>3, <2>22, Leads
    <2> QED BY <2>1, <2>2, <2>3, <2>4, <2>5, <2>6, <2>7, <2>8, <2>9, <2>10, <2>11, <2>12,
               <2>13, <2>14, <2>15, <2>16, <2>17, <2>18, <2>19, <2>20, <2>21, <2>22,
               Zenon DEF Handle, SharedStep, TwoFactorStep, PhoneStep, WalletStep, DeviceStep,
                     PasskeyStep, Onward
  <1>4. HandlerOK(r)'
    BY <1>2, <1>3, Through DEF GoesOn, HandlerOK, RowsOK
  <1>5. \A q \in Requests \ {r} : HandlerOK(q)'
    BY Here, OthersOK DEF RowsOK
  <1> QED BY <1>2, <1>3, <1>4, <1>5 DEF HandlersOK, GoesOn

LEMMA TypeStays ==
  ASSUME TypeOK, HandlersOK, RowsOK, NEW r \in Requests, Handle(r)
  PROVE  TypeOK'
PROOF
  <1>1. config' \in Configs /\ now' \in Times /\ call' \in [Requests -> Calls[config'.scenario] \cup {None}]
    BY OthersStay DEF TypeOK
  <1>2. pc' \in [Requests -> {"idle", "done"} \cup Operations \cup Stages]
    BY Moves, Answered DEF Went, TypeOK
  <1>3. answer' \in [Requests -> SUBSET {"session", "code", "challenge", "trust", "ok"}]
    <2>1. answer'[r] \in SUBSET {"session", "code", "challenge", "trust", "ok"}
      BY Answered DEF Replies
    <2> QED BY <2>1, Moves DEF Went, TypeOK
  <1>4. mem' \in [Requests -> Memory]
    BY HandlerStays, Moves DEF Went, TypeOK, Memory
  <1>5. db' \in Database
    <2>1. /\ db'.user \in [Ids -> UserRow \cup {None}]
          /\ db'.session \subseteq SessionRow /\ db'.verification \subseteq VerificationRow
          /\ db'.twoFactor \subseteq TwoFactorRow /\ db'.passkey \subseteq PasskeyRow
          /\ db'.wallet \subseteq WalletRow /\ db'.account \subseteq AccountRow
          /\ db'.device \subseteq DeviceRow
      BY UserTable, SessionsStay, VerificationsStay, FactorRows, PasskeysStay, WalletsStay,
         AccountTable, DevicesStay DEF RowsOK, UserMove
    <2>2. db \in Database
      BY DEF TypeOK
    <2>3. \/ db' = db
          \/ \E t \in {"user", "session", "verification", "twoFactor", "passkey", "wallet",
                        "account", "device"} : db' = [db EXCEPT ![t] = db'[t]]
      BY Writing DEF Keeps
    <2> QED BY <2>1, <2>2, <2>3 DEF Database
  <1> QED BY <1>1, <1>2, <1>3, <1>4, <1>5 DEF TypeOK, Memory

-----------------------------------------------------------------------------
(* Sessions are earned                                                      *)

\* Only these steps answer with a session.
LEMMA SignedInNow ==
  ASSUME TypeOK, HandlersOK, UsersOK, NEW r \in Requests, Handle(r), SignedInBy(r)'
  PROVE  /\ pc'[r] = "done" /\ mem'[r] = mem[r]
         /\ \/ CreateSession(r) /\ answer'[r] = {"session"} /\ Op(r) \in {"phone-verify", "siwe-verify"}
            \/ Consume(r) /\ answer'[r] = {"session"} /\ Op(r) \in CookieOps
            \/ Intercept(r) /\ answer'[r] = {"session"}
            \/ IssueTrustDevice(r) /\ answer'[r] = {"session", "trust"}
            \/ DropDevice(r) /\ answer'[r] = {"session"}
PROOF
  <1>1. pc'[r] = "done"
    BY Here, OthersStay DEF SignedInBy, HandlerOK, CallOK
  <1>2. mem'[r] = mem[r]
    BY <1>1, Moves DEF Went
  <1>3. "session" \in answer'[r]
    BY DEF SignedInBy
  <1>4. CreateSession(r) \/ Consume(r) \/ Intercept(r) \/ IssueTrustDevice(r) \/ DropDevice(r)
    BY <1>1, <1>3, Leads DEF Handle, SharedStep, TwoFactorStep, PhoneStep, WalletStep,
       DeviceStep, PasskeyStep
  <1>5. CASE CreateSession(r)
    BY <1>1, <1>2, <1>5, Leads, Branches
  <1>6. CASE Consume(r)
    BY <1>1, <1>2, <1>3, <1>6, Leads, Branches
  <1>7. CASE Intercept(r)
    BY <1>1, <1>2, <1>7, Leads
  <1>8. CASE IssueTrustDevice(r)
    BY <1>1, <1>2, <1>8, Leads
  <1>9. CASE DropDevice(r)
    BY <1>1, <1>2, <1>3, <1>9, Leads
  <1> QED BY <1>4, <1>5, <1>6, <1>7, <1>8, <1>9

LEMMA NewlyEarned ==
  ASSUME TypeOK, HandlersOK, RowsOK, NEW r \in Requests, Handle(r)
  PROVE  EarnedOK(r)'
PROOF
  <1> SUFFICES ASSUME SignedInBy(r)'
               PROVE  /\ Known(User(r))' /\ Earned(r, User(r))'
                      /\ (Op(r)' \in PasswordSignIns /\ "trust" \in answer'[r] => call'[r].trust \in Ids)
                      /\ (Op(r)' \in SecondFactors => call'[r].cookie \in Requests)
                      /\ (Op(r)' \in {"siwe-verify", "phone-verify"} => call'[r].code \in Requests)
                      /\ (Op(r)' = "passkey-authenticate" => call'[r].device \in Ids)
    BY Zenon DEF EarnedOK
  <1>1. pc'[r] = "done" /\ mem'[r] = mem[r]
    BY SignedInNow DEF RowsOK
  <1>2. /\ Op(r)' = Op(r) /\ call' = call /\ config' = config /\ Op(r) = call[r].op
        /\ RouteOK(r) /\ UserFound(r) /\ HeldOK(r) /\ DueOK(r)
    BY Here, Called DEF RowsOK
  <1>3. User(r)' = User(r) /\ (User(r) # None => Known(User(r))')
    BY <1>1, Relied DEF RowsOK
  <1>4. /\ (Met(r) => Met(r)') /\ (Vouched(r) => Vouched(r)')
        /\ (HoldsWallet(r) => HoldsWallet(r)') /\ (HoldsPasskey(r) => HoldsPasskey(r)')
        /\ (HoldsNumber(r) /\ User(r) # None => HoldsNumber(r)')
        /\ \A ops : SentBy(r, ops) => SentBy(r, ops)'
    BY <1>1, Relied DEF RowsOK
  <1>5. CASE CreateSession(r) /\ Op(r) = "phone-verify"
    <2>1. pc[r] = "session" /\ User(r) # None
      BY <1>2, <1>5, Places DEF UserFound, Identified
    <2>2. SentBy(r, {"phone-send", "phone-sign-in"})' /\ HoldsNumber(r)'
      BY <1>2, <1>4, <1>5, <2>1 DEF DueOK, PhoneDue
    <2>3. Earned(r, User(r))'
      BY <1>2, <1>5, <2>2 DEF Earned, SentBy, HoldsNumber, SessionOps, PasswordSignIns, SecondFactors
    <2> QED BY <1>2, <1>3, <1>5, <2>1, <2>2, <2>3 DEF SentBy, PasswordSignIns, SecondFactors
  <1>6. CASE CreateSession(r) /\ Op(r) = "siwe-verify"
    <2>1. pc[r] = "session" /\ User(r) # None
      BY <1>2, <1>6, Places DEF UserFound, Identified
    <2>2. SentBy(r, {"siwe-nonce"})' /\ HoldsWallet(r)'
      BY <1>2, <1>4, <1>6, <2>1 DEF DueOK, WalletDue
    <2>3. Earned(r, User(r))'
      BY <1>2, <1>6, <2>2 DEF Earned, SentBy, HoldsWallet, SessionOps, PasswordSignIns, SecondFactors
    <2> QED BY <1>2, <1>3, <1>6, <2>1, <2>2, <2>3 DEF SentBy, PasswordSignIns, SecondFactors
  <1>7. CASE (Consume(r) \/ IssueTrustDevice(r)) /\ Op(r) \in SecondFactors
    <2>1. pc[r] \in {"consume", "trust"} /\ User(r) # None
      BY <1>2, <1>7, Places DEF UserFound, Identified
    <2>2. call[r].session = None
      BY <1>2, <1>7, <2>1 DEF DueOK, ChallengeDue
    <2>3. Met(r)'
      BY <1>2, <1>4, <1>7, <2>1, <2>2 DEF DueOK, ChallengeDue, SecondFactors
    <2>4. call'[r].cookie \in Requests /\ call'[r].cookie # None /\ call'[r].cookie \notin Users
      BY <2>3, NoneApart, ConstantsAssumption DEF Met
    <2>5. Earned(r, User(r))'
      BY <1>2, <1>7, <2>3, <2>4 DEF Earned, Met, UserOf, User, SessionOps, PasswordSignIns, SecondFactors
    <2> QED BY <1>2, <1>3, <1>7, <2>1, <2>4, <2>5 DEF PasswordSignIns, SecondFactors
  <1>8. CASE Consume(r) /\ Op(r) = "passkey-authenticate"
    <2>1. pc[r] = "consume" /\ User(r) # None
      BY <1>2, <1>8, Places DEF UserFound, Identified
    <2>2. HoldsPasskey(r)'
      BY <1>2, <1>4, <1>8, <2>1 DEF DueOK, PasskeyDue
    <2>3. Earned(r, User(r))'
      BY <1>2, <1>8, <2>2 DEF Earned, HoldsPasskey, SessionOps, PasswordSignIns, SecondFactors
    <2> QED BY <1>2, <1>3, <1>8, <2>1, <2>2, <2>3 DEF HoldsPasskey, PasswordSignIns, SecondFactors
  <1>9. CASE Intercept(r) /\ answer'[r] = {"session"}
    <2>1. pc[r] = "intercept" /\ User(r) # None /\ Op(r) \in PasswordSignIns
      BY <1>2, <1>9, Places DEF UserFound, Identified, RouteOK
    <2>2. ~db.user[User(r)].twoFactor /\ db' = db
      BY <1>1, <1>9 DEF Intercept, Reads, Finishes, Goto, TypeOK
    <2>3. ~AlwaysProtected(User(r))'
      <3>1. PICK u : u = User(r)
        OBVIOUS
      <3>2. ~AlwaysProtected(u)'
        BY <2>2, <3>1, UsersStay DEF RowsOK, UsersOK, AlwaysProtected
      <3> QED BY <1>3, <3>1, <3>2
    <2>4. Earned(r, User(r))'
      BY <1>2, <1>9, <2>1, <2>3 DEF Earned, SessionOps, PasswordSignIns, SecondFactors
    <2> QED BY <1>2, <1>3, <1>9, <2>1, <2>4 DEF PasswordSignIns, SecondFactors
  <1>10. CASE IssueTrustDevice(r) /\ Op(r) \in PasswordSignIns /\ answer'[r] = {"session", "trust"}
    <2>1. pc[r] = "trust" /\ User(r) # None
      BY <1>2, <1>10, Places DEF UserFound, Identified
    <2>2. Vouched(r)'
      BY <1>2, <1>4, <1>10, <2>1 DEF DueOK, TrustDue
    <2>3. Earned(r, User(r))'
      BY <1>2, <1>10, <2>2 DEF Earned, Vouched, SessionOps, PasswordSignIns, SecondFactors
    <2> QED BY <1>2, <1>3, <1>10, <2>1, <2>2, <2>3 DEF Vouched, PasswordSignIns, SecondFactors
  <1>11. CASE DropDevice(r) /\ answer'[r] = {"session"}
    <2>1. pc[r] = "drop-device" /\ Op(r) = "device-token" /\ HasSession(r)
      <3>1. pc[r] = "drop-device"
        BY <1>11, Places
      <3>2. r \in {s.id : s \in db.session}
        BY <1>11 DEF DropDevice, Finishes, Answers, TypeOK
      <3> QED BY <1>2, <3>1, <3>2 DEF RouteOK, HasSession
    <2>2. PICK u, device : u = User(r) /\ device = call[r].device
      OBVIOUS
    <2>3. /\ mem[r].row.user = u /\ mem[r].row.id = device
          /\ mem[r].row.status = "approved" /\ DeviceOK(mem[r].row)
      BY <1>2, <2>1, <2>2 DEF HeldOK, DeviceWait
    <2>4. u # None /\ HasDone("device-verify", device, u) /\ HasDone("device-approve", device, u)
      BY <2>3 DEF DeviceOK
    <2>5. HasDone("device-verify", device, u)' /\ HasDone("device-approve", device, u)'
      BY <2>4, Here, DoneStays DEF RowsOK
    <2>6. \A q \in Requests : UserOf(q)' = User(q)'
      BY ConstantsAssumption DEF UserOf, User
    <2>7. Earned(r, User(r))'
      BY <1>2, <1>3, <2>1, <2>2, <2>5, <2>6
      DEF Earned, HasDone, SessionOps, PasswordSignIns, SecondFactors
    <2> QED BY <1>2, <1>3, <2>1, <2>2, <2>4, <2>7 DEF PasswordSignIns, SecondFactors
  <1>12. Op(r) \in PasswordSignIns \cup SecondFactors \/ ~IssueTrustDevice(r)
    BY <1>2, Places DEF RouteOK
  <1> QED BY <1>5, <1>6, <1>7, <1>8, <1>9, <1>10, <1>11, <1>12, SignedInNow DEF CookieOps, RowsOK

LEMMA HandleEarned ==
  ASSUME TypeOK, HandlersOK, RowsOK, AllEarned, NEW r \in Requests, Handle(r)
  PROVE  AllEarned'
PROOF BY NewlyEarned, EarnedStays, Here DEF AllEarned, RowsOK

-----------------------------------------------------------------------------
(* What is taken once                                                       *)

\* A challenge and a record of a trusted device are found under their own name.
LEMMA RowNames ==
  ASSUME TypeOK, VerificationsOK, NEW v \in db.verification, NEW x,
         v.identifier \in {<<"2fa", x>>, <<"passkey", x>>, <<"trust", x>>}
  PROVE  v.id = x
PROOF
  <1>1. v.id \in Users \/ v.id \in Requests
    BY Types DEF VerificationRow, Ids
  <1>2. CASE v.id \in Users
    <2>1. v.identifier = <<"trust", v.id>>
      BY <1>2 DEF VerificationsOK
    <2> QED BY <2>1
  <1>3. CASE v.id \in Requests
    <2>1. PICK q \in Requests : q = v.id
      BY <1>3
    <2>2. Minted(v, q)
      BY <2>1 DEF VerificationsOK
    <2>3. CASE v.identifier \in {<<"2fa", q>>, <<"trust", q>>, <<"passkey", q>>}
      BY <2>1, <2>3
    <2>4. CASE v.identifier = Purpose(q)
      BY <2>4 DEF Purpose
    <2>5. CASE v.identifier = <<"siwe", call[q].who>>
      BY <2>5
    <2> QED BY <2>2, <2>3, <2>4, <2>5 DEF Minted
  <1> QED BY <1>1, <1>2, <1>3

\* What a cookie names is what it was handed out for.
LEMMA CookieNames ==
  ASSUME TypeOK, HandlersOK, VerificationsOK, NEW r \in Requests, pc[r] # "idle",
         NEW v \in db.verification, NEW x, x = v.id
  PROVE  /\ x = call[r].cookie /\ x \in Requests /\ Op(x) \in PasswordSignIns =>
              v.identifier = <<"2fa", x>>
         /\ x = call[r].cookie /\ x \in Requests /\ Op(x) \in PasskeyOffers =>
              v.identifier = <<"passkey", x>>
         /\ x = call[r].trust => v.identifier = <<"trust", x>>
PROOF
  <1>1. v.id \in Users \/ v.id \in Requests
    BY Types DEF VerificationRow, Ids
  <1>2. Presentable(call[r])
    BY DEF HandlersOK, HandlerOK, CallOK
  <1>3. CASE x \in Requests
    <2>1. Minted(v, x) /\ answer[x] \in Replies
      BY <1>3 DEF VerificationsOK, HandlersOK, HandlerOK, CallOK
    <2>2. x = call[r].cookie => answer[x] = {"challenge"}
      BY <1>2, <1>3, <2>1 DEF Presentable, Got, Replies
    <2>3. x = call[r].trust => answer[x] = {"session", "trust"}
      BY <1>2, <1>3, <2>1 DEF Presentable, Got, Replies
    <2>4. Op(x) \in PasskeyOffers => Op(x) \notin PasswordSignIns
      BY DEF PasskeyOffers, PasswordSignIns
    <2>5. x = call[r].cookie => \/ v.identifier = <<"2fa", x>> /\ Op(x) \in PasswordSignIns
                                \/ v.identifier = <<"passkey", x>> /\ Op(x) \in PasskeyOffers
      BY <2>1, <2>2 DEF Minted
    <2>6. x = call[r].trust => v.identifier = <<"trust", x>>
      BY <2>1, <2>3 DEF Minted
    <2> QED BY <2>4, <2>5, <2>6
  <1>4. CASE x \in Users
    <2>1. v.identifier = <<"trust", x>> /\ x \notin Requests
      BY <1>4, ConstantsAssumption DEF VerificationsOK
    <2> QED BY <2>1
  <1> QED BY <1>1, <1>3, <1>4

\* Nothing comes back, but for what a request that ends has made.
LEMMA Gone ==
  ASSUME TypeOK, HandlersOK, SessionsOK, FactorsOK, NEW r \in Requests, Handle(r), StillThere(r),
         NEW kind \in Kinds, NEW q \in Ids \ {r}, NEW i \in Items, Left(kind, q, i)'
  PROVE  Left(kind, q, i)
PROOF
  <1>1. CASE kind = "device"
    <2>1. PICK d \in db'.device : d.id = q
      BY <1>1 DEF Left
    <2>2. \E old \in db.device : d.id = old.id
      BY <2>1, DeviceTable DEF DeviceMove
    <2> QED BY <1>1, <2>1, <2>2 DEF Left
  <1>2. CASE kind = "backup"
    <2>1. PICK f \in db'.twoFactor : <<q, i>> \in f.backup
      BY <1>2 DEF Left
    <2>2. FactorMove(r)
      BY FactorTable
    <2>3. <<q, i>> \notin {r} \X Items
      OBVIOUS
    <2>4. \/ f \in db.twoFactor
          \/ f.backup = {r} \X Items
          \/ Patched(r, f) /\ pc[r] \in {"strike", "renew", "verified"}
      BY <2>1, <2>2 DEF FactorMove, Patched
    <2>5. CASE Patched(r, f) /\ pc[r] \in {"strike", "renew", "verified"}
      <3>1. mem[r].row \in db.twoFactor
        BY <2>5 DEF StillThere
      <3>2. <<q, i>> \in mem[r].row.backup
        BY <2>1, <2>3, <2>5 DEF Patched
      <3> QED BY <1>2, <3>1, <3>2 DEF Left
    <2> QED BY <1>2, <2>1, <2>3, <2>4, <2>5 DEF Left
  <1>3. CASE kind \notin {"device", "backup"}
    <2>1. PICK v \in db'.verification : v.id = q
      BY <1>3 DEF Left
    <2>2. \E w \in db.verification : w.id = q
      BY <2>1, VerificationRows
    <2> QED BY <1>3, <2>2 DEF Left
  <1> QED BY <1>1, <1>2, <1>3

\* What a code leads to, once it has been looked up.
LEMMA FactorLeads ==
  ASSUME TypeOK, HandlersOK, NEW r \in Requests, SecondFactor(r)
  PROVE  /\ Op(r) = "verify-otp" => pc'[r] \in {"done", "drop-code", "spend", "miscount"}
         /\ Op(r) = "verify-backup" => pc'[r] \in {"done", "strike"}
PROOF
  <1> USE DEF Goto, Reads, Refuse
  <1>0. DOMAIN pc = Requests
    BY DEF TypeOK
  <1>1. \/ Refuse(r)
        \/ \E user \in Challenged(r) :
             CASE Op(r) = "verify-totp"   -> VerifyTotpOf(r, user)
               [] Op(r) = "verify-backup" -> VerifyBackupOf(r, user)
               [] Op(r) = "verify-otp"    -> CheckCode(r, user)
               [] Op(r) = "send-otp"      -> Reads(r, "clear", user, None)
    BY Zenon DEF SecondFactor
  <1>2. CASE Refuse(r)
    BY <1>0, <1>2
  <1>3. ASSUME NEW user, Op(r) = "verify-otp", CheckCode(r, user)
        PROVE  pc'[r] \in {"done", "drop-code", "spend", "miscount"}
    BY <1>0, <1>3 DEF CheckCode
  <1>4. ASSUME NEW user, Op(r) = "verify-backup", VerifyBackupOf(r, user)
        PROVE  pc'[r] \in {"done", "strike"}
    BY <1>0, <1>4 DEF VerifyBackupOf
  <1>5. CASE Op(r) = "verify-otp" /\ ~Refuse(r)
    BY <1>1, <1>3, <1>5
  <1>6. CASE Op(r) = "verify-backup" /\ ~Refuse(r)
    BY <1>1, <1>4, <1>6
  <1> QED BY <1>2, <1>5, <1>6

\* A challenge is taken by the step that deletes it.
LEMMA CookieTaken ==
  ASSUME TypeOK, HandlersOK, RowsOK, NEW r \in Requests, Handle(r), StillThere(r),
         NEW q \in Ids, NEW i \in Items, Took(r, "cookie", q, i)', ~Took(r, "cookie", q, i)
  PROVE  Left("cookie", q, i) /\ ~Left("cookie", q, i)'
PROOF
  <1>1. /\ Op(r)' = Op(r) /\ call' = call /\ RouteOK(r) /\ DueOK(r) /\ pc[r] \notin {"idle", "done"}
    BY Here DEF RowsOK, HandlerOK
  <1>2. /\ call[r].cookie = q /\ Op(r) \in CookieOps
        /\ pc'[r] = "trust" \/ SignedInBy(r)'
    BY <1>1 DEF Took
  <1>3. Op(r) \notin PasswordSignIns \cup {"phone-verify", "siwe-verify", "device-token"}
    BY <1>2 DEF CookieOps, SecondFactors, PasswordSignIns
  <1>4. Consume(r)
    <2>1. CASE pc'[r] = "trust"
      <3>1. Consume(r) \/ Rotate(r)
        BY <2>1, Leads, Answered DEF Handle, SharedStep, TwoFactorStep, PhoneStep, WalletStep,
           DeviceStep, PasskeyStep
      <3>2. ~Rotate(r)
        BY <1>1, <1>3, Places DEF RouteOK
      <3> QED BY <3>1, <3>2
    <2>2. CASE SignedInBy(r)'
      <3>1. Intercept(r) => Op(r) \in PasswordSignIns
        BY <1>1, Places DEF RouteOK
      <3>2. DropDevice(r) => Op(r) = "device-token"
        BY <1>1, Places DEF RouteOK
      <3>3. ~IssueTrustDevice(r)
        BY <1>1, <1>2, Places DEF Took
      <3> QED BY <1>3, <2>2, <3>1, <3>2, <3>3, SignedInNow DEF RowsOK
    <2> QED BY <1>2, <2>1, <2>2
  <1>5. pc[r] = "consume"
    BY <1>4, Places
  <1>6. Left("cookie", q, i)
    <2>1. CASE Op(r) \in SecondFactors
      <3>1. call[r].session = None
        BY <1>1, <1>5, <2>1 DEF DueOK, ChallengeDue
      <3> QED BY <1>2, <1>5, <2>1, <3>1 DEF StillThere, Left
    <2>2. CASE Op(r) = "passkey-authenticate"
      BY <1>2, <1>5, <2>2 DEF StillThere, Left
    <2> QED BY <1>2, <2>1, <2>2 DEF CookieOps
  <1>7. \A v \in db.verification : v.id = q =>
          v.identifier = <<IF Op(r) \in SecondFactors THEN "2fa" ELSE "passkey", call[r].cookie>>
    <2>1. CASE Op(r) \in SecondFactors
      <3>1. call[r].session = None
        BY <1>1, <1>5, <2>1 DEF DueOK, ChallengeDue
      <3>2. q \in Requests /\ Op(q) \in PasswordSignIns
        BY <1>1, <1>2, <1>5, <2>1, <3>1 DEF DueOK, ChallengeDue, Met, SecondFactors
      <3> QED BY <1>1, <1>2, <2>1, <3>2, CookieNames DEF RowsOK
    <2>2. CASE Op(r) = "passkey-authenticate"
      <3>1. q \in Requests /\ Op(q) \in PasskeyOffers
        BY <1>1, <1>2, <1>5, <2>2 DEF DueOK, PasskeyDue, HoldsPasskey
      <3> QED BY <1>1, <1>2, <2>2, <3>1, CookieNames DEF RowsOK, SecondFactors
    <2> QED BY <1>2, <2>1, <2>2 DEF CookieOps
  <1>8. db'.verification = db.verification
          \ Rows(<<IF Op(r) \in SecondFactors THEN "2fa" ELSE "passkey", call[r].cookie>>)
    BY <1>4, Types DEF Consume, Finishes, Writes, TypeOK, Database
  <1> QED BY <1>6, <1>7, <1>8 DEF Left, Rows

\* A record of a trusted device is taken by the step that replaces it.
LEMMA TrustTaken ==
  ASSUME TypeOK, HandlersOK, RowsOK, NEW r \in Requests, Handle(r), StillThere(r),
         NEW q \in Ids, NEW i \in Items, Took(r, "trust", q, i)', ~Took(r, "trust", q, i)
  PROVE  Left("trust", q, i) /\ ~Left("trust", q, i)'
PROOF
  <1>1. /\ Op(r)' = Op(r) /\ call' = call /\ RouteOK(r) /\ pc[r] \notin {"idle", "done"}
        /\ (pc'[r] # "done" => answer'[r] = {})
    BY Here, OthersStay DEF RowsOK, HandlerOK, CallOK
  <1>2. /\ call[r].trust = q /\ Op(r) \in PasswordSignIns
        /\ pc'[r] = "trust" \/ "trust" \in answer'[r]
    BY <1>1 DEF Took
  <1>3. Rotate(r)
    <2>1. Consume(r) \/ Rotate(r) \/ IssueTrustDevice(r)
      BY <1>1, <1>2, Leads DEF Handle, SharedStep, TwoFactorStep, PhoneStep, WalletStep,
         DeviceStep, PasskeyStep
    <2>2. ~IssueTrustDevice(r)
      BY <1>1, <1>2, Places DEF Took
    <2>3. ~Consume(r)
      BY <1>1, <1>2, Places DEF RouteOK, CookieOps, SecondFactors, PasswordSignIns
    <2> QED BY <2>1, <2>2, <2>3
  <1>4. Left("trust", q, i)
    BY <1>2, <1>3, Places DEF StillThere, Left
  <1>5. \A v \in db.verification : v.id = q => v.identifier = <<"trust", call[r].trust>>
    BY <1>1, <1>2, CookieNames DEF RowsOK
  <1>6. db'.verification = db.verification \ Rows(<<"trust", call[r].trust>>)
    BY <1>3, Types DEF Rotate, Writes, TypeOK, Database, TrustRow
  <1> QED BY <1>4, <1>5, <1>6 DEF Left, Rows

\* A device code is taken when the handler that has a session for it deletes it.
LEMMA DeviceTaken ==
  ASSUME TypeOK, HandlersOK, RowsOK, NEW r \in Requests, Handle(r), StillThere(r),
         NEW q \in Ids, NEW i \in Items, Took(r, "device", q, i)', ~Took(r, "device", q, i)
  PROVE  Left("device", q, i) /\ ~Left("device", q, i)'
PROOF
  <1>1. Op(r)' = Op(r) /\ call' = call /\ RouteOK(r)
    BY Here DEF RowsOK, HandlerOK
  <1>2. call[r].device = q /\ Op(r) = "device-token" /\ SignedInBy(r)'
    BY <1>1 DEF Took
  <1>3. DropDevice(r)
    <2>1. ~Intercept(r) /\ ~IssueTrustDevice(r)
      BY <1>1, <1>2, Places DEF RouteOK, PasswordSignIns, SecondFactors
    <2> QED BY <1>2, <2>1, SignedInNow DEF RowsOK, CookieOps, SecondFactors
  <1>4. pc[r] = "drop-device"
    BY <1>3, Places
  <1>5. Left("device", q, i)
    BY <1>2, <1>4 DEF StillThere, Left, DeviceWait
  <1>6. db'.device = db.device \ CodeRows(r)
    BY <1>3, Types DEF DropDevice, Finishes, TypeOK, Database
  <1> QED BY <1>2, <1>5, <1>6 DEF Left, CodeRows

\* A backup code is taken by the step that strikes it off the list.
LEMMA BackupTaken ==
  ASSUME TypeOK, HandlersOK, RowsOK, FactorsOK, NEW r \in Requests, Handle(r), StillThere(r),
         NEW q \in Ids, NEW i \in Items, Took(r, "backup", q, i)', ~Took(r, "backup", q, i)
  PROVE  Left("backup", q, i) /\ ~Left("backup", q, i)'
PROOF
  <1>1. /\ Op(r)' = Op(r) /\ call' = call /\ RouteOK(r) /\ pc[r] \notin {"idle", "done"}
        /\ pc[r] \in Operations => pc[r] = Op(r)
    BY Here, Called DEF RowsOK, HandlerOK
  <1>2. /\ call[r].code = q /\ call[r].item = i /\ Op(r) = "verify-backup"
        /\ pc'[r] \notin {"verify-backup", "strike"}
        /\ pc'[r] = "done" => Succeeded(r)'
    BY <1>1 DEF Took
  <1>3. pc[r] \in {"verify-backup", "strike"}
    BY <1>1, <1>2 DEF Took
  <1>4. pc[r] # "verify-backup"
    <2>1. ASSUME pc[r] = "verify-backup"
          PROVE  FALSE
      <3>1. SecondFactor(r)
        BY <2>1, Where
      <3>2. pc'[r] = "done" /\ answer'[r] = {}
        BY <1>2, <3>1, FactorLeads, Leads
      <3> QED BY <1>2, <3>2 DEF Succeeded
    <2> QED BY <2>1
  <1>5. pc[r] = "strike" /\ mem[r].row \in db.twoFactor /\ <<q, i>> \in mem[r].row.backup
    BY <1>2, <1>3, <1>4 DEF StillThere
  <1>6. PICK new \in TwoFactorRow :
          Patched(r, new) /\ db'.twoFactor = (db.twoFactor \ {mem[r].row}) \cup {new}
    BY <1>5, FactorTable DEF FactorMove
  <1>7. <<q, i>> \notin new.backup
    BY <1>2, <1>5, <1>6 DEF Patched
  <1>8. \A f \in db.twoFactor : <<q, i>> \in f.backup => f = mem[r].row
    BY <1>5 DEF FactorsOK
  <1> QED BY <1>5, <1>6, <1>7, <1>8 DEF Left

\* A code or a nonce is taken by the step that deletes it.
LEMMA CodeTaken ==
  ASSUME TypeOK, HandlersOK, RowsOK, OneRowEach, NEW r \in Requests, Handle(r), StillThere(r),
         NEW q \in Ids, NEW i \in Items, Took(r, "code", q, i)', ~Took(r, "code", q, i)
  PROVE  Left("code", q, i) /\ ~Left("code", q, i)'
PROOF
  <1>1. /\ Op(r)' = Op(r) /\ call' = call /\ RouteOK(r) /\ HeldOK(r) /\ pc[r] \notin {"idle", "done"}
        /\ pc[r] \in Operations => pc[r] = Op(r)
    BY Here, Called DEF RowsOK, HandlerOK
  <1>2. /\ call[r].code = q /\ Op(r) \in CodeOps
        /\ pc'[r] \notin CodeOps \cup {"drop-code", "miscount", "spend", "burn"}
        /\ pc'[r] = "done" => Succeeded(r)'
    BY <1>1 DEF Took
  <1>3. pc[r] \in CodeOps \cup {"drop-code", "miscount", "spend", "burn"}
    BY <1>1, <1>2 DEF Took
  <1>4. SpendCode(r) \/ BurnNonce(r)
    <2>1. ~(pc'[r] = "done" /\ answer'[r] = {})
      BY <1>2 DEF Succeeded
    <2>2. CASE pc[r] = "verify-otp"
      <3>1. SecondFactor(r) /\ Op(r) = "verify-otp"
        BY <1>1, <2>2, Where DEF Operations, SecondFactors
      <3> QED BY <1>2, <2>1, <3>1, FactorLeads, Leads
    <2>3. CASE pc[r] \in {"phone-verify", "phone-reset"}
      <3>1. PhoneCode(r)
        BY <2>3, Where
      <3> QED BY <1>2, <2>1, <3>1, Leads
    <2>4. CASE pc[r] = "siwe-verify"
      <3>1. VerifyWallet(r)
        BY <2>4, Where
      <3> QED BY <1>2, <2>1, <3>1, Leads
    <2>5. CASE pc[r] \in {"drop-code", "miscount"}
      <3>1. DropCode(r) \/ CountFailure(r)
        BY <2>5, Where
      <3> QED BY <2>1, <3>1, Leads
    <2>6. CASE pc[r] \in {"spend", "burn"}
      BY <2>6, Where
    <2> QED BY <1>3, <2>2, <2>3, <2>4, <2>5, <2>6 DEF CodeOps
  <1>5. PICK row : row = mem[r].row
    OBVIOUS
  <1>6. row \in db.verification /\ row.id = q /\ row \in VerificationRow
    BY <1>1, <1>2, <1>4, <1>5, Places DEF StillThere, HeldOK
  <1>7. \/ SpendCode(r) /\ row.identifier = Purpose(r)
        \/ BurnNonce(r) /\ row.identifier = <<"siwe", call[r].who>>
    BY <1>1, <1>4, <1>5, Places DEF HeldOK
  <1>8. row.id \in Requests
    <2>1. row.identifier # <<"trust", row.id>>
      BY <1>7 DEF Purpose
    <2> QED BY <1>6, <2>1 DEF RowsOK, VerificationsOK, VerificationRow, Ids
  <1>9. \A v \in db.verification : v.id = q => v = row
    BY <1>6, <1>8 DEF OneRowEach
  <1>10. db'.verification \subseteq db.verification /\ row \notin db'.verification
    <2>1. CASE SpendCode(r) /\ row.identifier = Purpose(r)
      <3>1. db'.verification = db.verification \ Rows(Purpose(r))
        BY <2>1, Types DEF SpendCode, Writes, TypeOK, Database
      <3> QED BY <2>1, <3>1 DEF Rows
    <2>2. CASE BurnNonce(r) /\ row.identifier = <<"siwe", call[r].who>>
      <3>1. row \in Nonces(r)
        BY <1>6, <2>2 DEF Nonces, Rows
      <3>2. PICK hit \in {{row}, Nonces(r)} :
              db' = [db EXCEPT !.verification = @ \ hit]
        BY <1>5, <2>2, <3>1 DEF BurnNonce, Writes
      <3>3. db'.verification = db.verification \ hit /\ row \in hit
        BY <3>1, <3>2 DEF TypeOK, Database
      <3> QED BY <3>3
    <2> QED BY <1>7, <2>1, <2>2
  <1> QED BY <1>6, <1>9, <1>10 DEF Left

\* Nothing is accepted twice.
LEMMA TakenOnceStays ==
  ASSUME TypeOK, HandlersOK, RowsOK, OneRowEach, FactorsOK, TakenOnce,
         NEW r \in Requests, Handle(r), StillThere(r)
  PROVE  TakenOnce'
PROOF
  <1>1. Gentle(r) /\ pc[r] \notin {"idle", "done"}
    BY Here DEF RowsOK
  <1>2. ASSUME NEW kind \in Kinds, NEW q \in Ids, NEW i \in Items,
               Took(r, kind, q, i)', ~Took(r, kind, q, i)
        PROVE  Left(kind, q, i) /\ ~Left(kind, q, i)'
    <2>1. CASE kind = "cookie"
      BY <1>2, <2>1, CookieTaken
    <2>2. CASE kind = "code"
      BY <1>2, <2>2, CodeTaken
    <2>3. CASE kind = "trust"
      BY <1>2, <2>3, TrustTaken
    <2>4. CASE kind = "device"
      BY <1>2, <2>4, DeviceTaken
    <2>5. CASE kind = "backup"
      BY <1>2, <2>5, BackupTaken
    <2> QED BY <2>1, <2>2, <2>3, <2>4, <2>5 DEF Kinds
  <1>3. ASSUME NEW x \in Requests, NEW kind \in Kinds, NEW q \in Ids, NEW i \in Items,
               Took(x, kind, q, i)
        PROVE  ~Left(kind, q, i) /\ ~Left(kind, q, i)'
    <2>1. q \in Requests => pc[q] = "done"
      BY <1>3, Presented DEF Took
    <2>2. q # r
      BY <1>1, <2>1
    <2> QED BY <1>3, <2>2, Gone DEF RowsOK, TakenOnce
  <1>4. ASSUME NEW x \in Requests \ {r}, NEW kind \in Kinds, NEW q \in Ids, NEW i \in Items
        PROVE  Took(x, kind, q, i)' = Took(x, kind, q, i)
    <2>1. /\ pc'[x] = pc[x] /\ call'[x] = call[x] /\ answer'[x] = answer[x] /\ Op(x)' = Op(x)
          /\ SignedInBy(x)' = SignedInBy(x) /\ Succeeded(x)' = Succeeded(x)
      BY <1>1 DEF Gentle, Op, SignedInBy, Succeeded
    <2> QED BY <2>1 DEF Took
  <1>5. ASSUME NEW x \in Requests, NEW y \in Requests, NEW kind \in Kinds, NEW q \in Ids,
               NEW i \in Items, Took(x, kind, q, i)'
        PROVE  /\ ~Left(kind, q, i)'
               /\ Took(y, kind, q, i)' => x = y
    <2>1. Took(x, kind, q, i) \/ (x = r /\ Left(kind, q, i) /\ ~Left(kind, q, i)')
      BY <1>2, <1>4, <1>5
    <2>2. Took(y, kind, q, i)' =>
            Took(y, kind, q, i) \/ (y = r /\ Left(kind, q, i) /\ ~Left(kind, q, i)')
      BY <1>2, <1>4
    <2>3. Took(x, kind, q, i) /\ Took(y, kind, q, i) => x = y
      BY DEF TakenOnce
    <2> QED BY <1>3, <2>1, <2>2, <2>3
  <1> QED BY <1>5 DEF TakenOnce

-----------------------------------------------------------------------------
(* Secrets, wallets and numbers                                             *)

\* A handler that is not under way is waiting for nothing.
LEMMA Idle ==
  ASSUME NEW q \in Requests, ~InHandler(q)
  PROVE  StillThere(q) /\ \A u : ~Pending(q, u)
PROOF BY DEF InHandler, StillThere, Pending, DeviceWait

LEMMA AloneStays ==
  ASSUME TypeOK, HandlersOK, RowsOK, InTurn, NEW r \in Requests, Handle(r)
  PROVE  /\ Alone' /\ \A q \in Requests \ {r} : ~InHandler(q) /\ ~InHandler(q)'
         /\ InHandler(r)
PROOF
  <1>1. Gentle(r) /\ Scheduled(r) /\ InHandler(r)
    BY Here, OthersStay DEF RowsOK, InHandler
  <1>2. \A q \in Requests \ {r} : ~InHandler(q) /\ ~InHandler(q)'
    BY <1>1 DEF Scheduled, InTurn, InHandler, Gentle
  <1> QED BY <1>1, <1>2 DEF Alone

LEMMA FactorsStay ==
  ASSUME TypeOK, HandlersOK, RowsOK, FactorsOK, NEW r \in Requests, Handle(r), StillThere(r)
  PROVE  FactorsOK'
PROOF
  <1>1. FactorMove(r) /\ Gentle(r) /\ pc[r] \notin {"idle", "done"} /\ r \in Ids
    BY FactorTable, Here DEF RowsOK
  <1>2. ASSUME NEW f \in db.twoFactor
        PROVE  /\ f.id # r /\ f.backup \cap ({r} \X Items) = {}
               /\ f.id \in Requests => pc'[f.id] = "done"
               /\ \A b \in f.backup : b[1] \in Requests => pc'[b[1]] = "done"
    <2>1. \A x \in Requests : pc[x] = "done" => x # r /\ pc'[x] = "done"
      BY <1>1 DEF Gentle
    <2>2. f.id # r /\ (f.id \in Requests => pc'[f.id] = "done")
      BY <2>1 DEF FactorsOK
    <2>3. \A b \in f.backup : b[1] # r /\ (b[1] \in Requests => pc'[b[1]] = "done")
      BY <2>1 DEF FactorsOK
    <2>4. \A b \in {r} \X Items : b[1] = r
      OBVIOUS
    <2> QED BY <2>2, <2>3, <2>4
  <1>3. \A f, g \in db.twoFactor :
          f.user = g.user \/ f.id = g.id \/ f.backup \cap g.backup # {} => f = g
    BY DEF FactorsOK
  <1>4. CASE db'.twoFactor \subseteq db.twoFactor
    BY <1>2, <1>3, <1>4 DEF FactorsOK
  <1>5. ASSUME NEW new, NEW rest, rest \subseteq db.twoFactor, db'.twoFactor = rest \cup {new},
               \A f \in rest : f.user # new.user /\ f.id # new.id /\ f.backup \cap new.backup = {},
               new.id \in Requests => pc'[new.id] = "done",
               \A b \in new.backup : b[1] \in Requests => pc'[b[1]] = "done"
        PROVE  FactorsOK'
    <2>1. ASSUME NEW f \in db'.twoFactor, NEW g \in db'.twoFactor,
                 f.user = g.user \/ f.id = g.id \/ f.backup \cap g.backup # {}
          PROVE  f = g
      <3>1. CASE f \in rest /\ g \in rest
        BY <1>3, <1>5, <2>1, <3>1
      <3>2. CASE f = new \/ g = new
        BY <1>5, <2>1, <3>2
      <3> QED BY <1>5, <3>1, <3>2
    <2>2. \A f \in db'.twoFactor :
            /\ f.id \in Requests => pc'[f.id] = "done"
            /\ \A b \in f.backup : b[1] \in Requests => pc'[b[1]] = "done"
      BY <1>2, <1>5
    <2> QED BY <2>1, <2>2 DEF FactorsOK
  <1>6. ASSUME NEW new \in TwoFactorRow, pc[r] = "enrol", pc'[r] = "done",
               new.id = r, new.user = User(r), new.backup = {r} \X Items,
               db'.twoFactor = db.twoFactor \cup {new}
        PROVE  FactorsOK'
    <2>1. \A f \in db.twoFactor : f.user # new.user
      BY <1>6 DEF StillThere, FactorsOf
    <2>2. \A f \in db.twoFactor : f.id # new.id /\ f.backup \cap new.backup = {}
      BY <1>2, <1>6
    <2>3. \A b \in new.backup : b[1] \in Requests => pc'[b[1]] = "done"
      BY <1>6
    <2>4. new.id \in Requests => pc'[new.id] = "done"
      BY <1>6
    <2>5. \A f \in db.twoFactor : f.user # new.user /\ f.id # new.id /\ f.backup \cap new.backup = {}
      BY <2>1, <2>2
    <2>6. db.twoFactor \subseteq db.twoFactor /\ db'.twoFactor = db.twoFactor \cup {new}
      BY <1>6
    <2> QED BY <1>5, <2>3, <2>4, <2>5, <2>6
  <1>7. ASSUME NEW new \in TwoFactorRow, Patched(r, new),
               db'.twoFactor = (db.twoFactor \ {mem[r].row}) \cup {new}
        PROVE  FactorsOK'
    <2>1. PICK row : row = mem[r].row
      OBVIOUS
    <2>2. row \in db.twoFactor /\ new.id = row.id /\ new.user = row.user
      BY <1>7, <2>1 DEF Patched, StillThere
    <2>3. \A f \in db.twoFactor \ {row} : f.user # new.user /\ f.id # new.id
      BY <1>3, <2>2
    <2>4. \/ new.backup \subseteq row.backup
          \/ new.backup = {r} \X Items /\ pc'[r] = "done"
      BY <1>7, <2>1 DEF Patched
    <2>5. \A f \in db.twoFactor \ {row} : f.backup \cap new.backup = {}
      BY <1>2, <1>3, <2>2, <2>4
    <2>6. \A b \in new.backup : b[1] \in Requests => pc'[b[1]] = "done"
      BY <1>2, <2>2, <2>4
    <2>7. new.id \in Requests => pc'[new.id] = "done"
      BY <1>2, <2>2
    <2>8. PICK rest : rest = db.twoFactor \ {row}
      OBVIOUS
    <2>9. rest \subseteq db.twoFactor /\ db'.twoFactor = rest \cup {new}
      BY <1>7, <2>1, <2>8
    <2>10. \A f \in rest : f.user # new.user /\ f.id # new.id /\ f.backup \cap new.backup = {}
      BY <2>3, <2>5, <2>8
    <2> QED BY <1>5, <2>6, <2>7, <2>9, <2>10
  <1> QED BY <1>1, <1>4, <1>6, <1>7 DEF FactorMove

LEMMA OneOfEachStays ==
  ASSUME TypeOK, HandlersOK, RowsOK, OneOfEach, NEW r \in Requests, Handle(r), StillThere(r)
  PROVE  OneOfEach'
PROOF
  <1>1. OneRowEach'
    BY OneRowEachStays DEF RowsOK, OneOfEach
  <1>2. ASSUME NEW w \in db'.wallet, NEW v \in db'.wallet,
               AddressOf[w.wallet] = AddressOf[v.wallet]
        PROVE  w.user = v.user
    <2>1. CASE w \in db.wallet /\ v \in db.wallet
      BY <1>2, <2>1 DEF OneOfEach
    <2>2. CASE ~(w \in db.wallet /\ v \in db.wallet)
      <3> DEFINE new == [id |-> r, wallet |-> call[r].who, user |-> User(r)]
      <3>1. pc[r] = "wallet-row" /\ db'.wallet = db.wallet \cup {new}
        BY <2>2, WalletTable
      <3>2. new.wallet = call[r].who /\ new.user = User(r)
        OBVIOUS
      <3> HIDE DEF new
      <3>3. \A x \in db.wallet : AddressOf[x.wallet] = AddressOf[new.wallet] => x.user = new.user
        BY <3>1, <3>2 DEF StillThere, WalletsOf
      <3> QED BY <1>2, <2>2, <3>1, <3>3
    <2> QED BY <2>1, <2>2
  <1>3. ASSUME NEW u \in Ids, NEW v \in Ids, db'.user[u] # None, db'.user[v] # None,
               db'.user[u].phone = db'.user[v].phone, u # v
        PROVE  db'.user[u].phone = None
    <2>1. UserMove(r)
      BY UserTable DEF RowsOK
    <2>2. CASE db.user[u] # None /\ db.user[v] # None
      BY <1>3, <2>1, <2>2 DEF UserMove, OneOfEach
    <2>3. ASSUME NEW x \in Ids, NEW y \in Ids, db.user[x] # None, db.user[y] = None,
                 db'.user[y] # None, db'.user[x].phone = db'.user[y].phone
          PROVE  db'.user[y].phone = None
      <3>1. \/ pc[r] = "sign-up" /\ db'.user[y].phone = call[r].who
            \/ db'.user[y].phone = None
        BY <2>1, <2>3 DEF UserMove
      <3>2. pc[r] = "sign-up" => db.user[x].phone # call[r].who
        BY <2>3 DEF StillThere, Holders
      <3> QED BY <2>1, <2>3, <3>1, <3>2 DEF UserMove
    <2>4. CASE db.user[u] = None /\ db.user[v] = None
      BY <1>3, <2>1, <2>4 DEF UserMove
    <2> QED BY <1>3, <2>2, <2>3, <2>4
  <1> QED BY <1>1, <1>2, <1>3 DEF OneOfEach

\* Where a handler that is about to verify a secret, or to replace one, goes.
LEMMA StillPending ==
  ASSUME TypeOK, HandlersOK, RowsOK, NEW r \in Requests, Handle(r), StillThere(r),
         NEW u \in Ids, Pending(r, u)
  PROVE  Pending(r, u)' \/ \E f \in FactorsOf(u)' : f.verified
PROOF
  <1>1. config' = config /\ User(r) = u /\ RouteOK(r)
    BY Here DEF RowsOK, HandlerOK, Pending
  <1>2. CASE pc[r] = "existing" /\ config.skips
    <2>1. FindExisting(r)
      BY <1>2, Where
    <2>2. pc'[r] = "replace"
      BY <2>1, Leads
    <2>3. User(r)' = User(r)
      BY <2>1 DEF FindExisting, Reads, TypeOK, User
    <2> QED BY <1>1, <1>2, <2>2, <2>3 DEF Pending
  <1>3. CASE pc[r] = "replace" /\ (config.skips \/ (mem[r].row # None /\ mem[r].row.verified))
    <2>1. DropFactors(r)
      BY <1>3, Where
    <2>2. pc'[r] = "enrol" /\ mem' = mem
      BY <1>3, <2>1, WritersKeep DEF DropFactors, Writes, Goto, TypeOK
    <2> QED BY <1>1, <1>3, <2>2 DEF Pending, User
  <1>4. CASE pc[r] = "enrol" /\ (config.skips \/ (mem[r].row # None /\ mem[r].row.verified))
    <2>1. Enrol(r)
      BY <1>4, Where
    <2>2. db' = [db EXCEPT !.twoFactor = @ \cup
            {[id |-> r, user |-> u, backup |-> {r} \X Items,
              verified |-> config.skips \/ (mem[r].row # None /\ mem[r].row.verified)]}]
      BY <1>1, <2>1 DEF Enrol, Finishes
    <2> DEFINE new == [id |-> r, user |-> u, backup |-> {r} \X Items,
                       verified |-> config.skips \/ (mem[r].row # None /\ mem[r].row.verified)]
    <2>3. new.user = u /\ new.verified
      BY <1>4
    <2>4. new \in db'.twoFactor
      BY <2>2, Types DEF TypeOK, Database
    <2> HIDE DEF new
    <2> QED BY <2>3, <2>4 DEF FactorsOf
  <1>5. CASE pc[r] = "verified"
    <2>1. MarkVerified(r) /\ Op(r) = "verify-totp"
      BY <1>1, <1>5, Where DEF RouteOK
    <2>2. mem[r].row \in db.twoFactor /\ mem[r].row.user = u
      BY <1>1, <1>5, <2>1 DEF StillThere, FactorsOf
    <2>3. PICK row : row = mem[r].row
      OBVIOUS
    <2>4. db'.twoFactor = {IF f.id = row.id THEN [f EXCEPT !.verified = TRUE] ELSE f : f \in db.twoFactor}
      BY <2>1, <2>3, Types DEF MarkVerified, Writes, UpdateFactor, TypeOK, Database
    <2>5. row \in TwoFactorRow
      BY <2>2, <2>3, Types
    <2>6. [row EXCEPT !.verified = TRUE].user = u /\ [row EXCEPT !.verified = TRUE].verified
      BY <2>2, <2>3, <2>5 DEF TwoFactorRow
    <2>7. [row EXCEPT !.verified = TRUE] \in db'.twoFactor
      BY <2>2, <2>3, <2>4
    <2> QED BY <2>6, <2>7 DEF FactorsOf
  <1> QED BY <1>2, <1>3, <1>4, <1>5 DEF Pending

\* A verified secret stays, unless it is about to be replaced by another.
LEMMA StillVerified ==
  ASSUME TypeOK, HandlersOK, RowsOK, FactorsOK, ~config.otp, NEW r \in Requests, Handle(r),
         StillThere(r), NEW u \in Ids, db.user[u] # None, db.user[u].twoFactor,
         NEW f \in FactorsOf(u), f.verified
  PROVE  Pending(r, u)' \/ \E g \in FactorsOf(u)' : g.verified
PROOF
  <1>1. FactorMove(r) /\ config' = config /\ f \in db.twoFactor /\ f.user = u
    BY FactorTable, Here DEF RowsOK, FactorsOf
  <1>2. CASE f \in db'.twoFactor
    BY <1>1, <1>2 DEF FactorsOf
  <1>3. CASE pc[r] \in {"replace", "drop-factor"} /\ f \notin db'.twoFactor
    <2>1. User(r) = u
      BY <1>1, <1>3 DEF FactorMove, FactorsOf, Patched
    <2>2. pc[r] = "replace"
      BY <1>3, <2>1 DEF StillThere
    <2>3. config.skips \/ (mem[r].row # None /\ mem[r].row.verified)
      BY <2>1, <2>2 DEF StillThere
    <2>4. Pending(r, u)
      BY <2>1, <2>2, <2>3 DEF Pending
    <2> QED BY <2>4, StillPending
  <1>4. ASSUME NEW new \in TwoFactorRow, Patched(r, new), f = mem[r].row,
               db'.twoFactor = (db.twoFactor \ {mem[r].row}) \cup {new}
        PROVE  \E g \in FactorsOf(u)' : g.verified
    <2>1. new \in db'.twoFactor /\ new.user = u /\ new.verified
      BY <1>1, <1>4 DEF Patched
    <2> QED BY <2>1 DEF FactorsOf
  <1> QED BY <1>1, <1>2, <1>3, <1>4 DEF FactorMove

LEMMA FlagsStay ==
  ASSUME TypeOK, HandlersOK, RowsOK, FactorsOK, FlagsOK, InTurn, NEW r \in Requests, Handle(r),
         StillThere(r)
  PROVE  FlagsOK'
PROOF
  <1>1. UserMove(r) /\ config' = config /\ RouteOK(r)
    BY UserTable, Here DEF RowsOK, HandlerOK
  <1>2. SUFFICES ASSUME ~config.otp, NEW u \in Ids, db'.user[u] # None, db'.user[u].twoFactor
                 PROVE  (\E f \in FactorsOf(u)' : f.verified) \/ Pending(r, u)'
    BY <1>1 DEF FlagsOK
  <1>3. db.user[u] # None
    BY <1>1, <1>2 DEF UserMove
  <1>4. CASE db.user[u].twoFactor
    <2>1. \A q \in Requests : Pending(q, u) => q = r
      BY AloneStays, Idle
    <2>2. Pending(r, u) \/ \E f \in FactorsOf(u) : f.verified
      BY <1>2, <1>3, <1>4, <2>1 DEF FlagsOK
    <2> QED BY <1>2, <1>3, <1>4, <2>2, StillPending, StillVerified
  <1>5. CASE ~db.user[u].twoFactor
    <2>1. u = User(r) /\ pc[r] = "flag"
      BY <1>1, <1>2, <1>3, <1>5 DEF UserMove
    <2>2. RaiseFlag(r) /\ mem' = mem
      BY <2>1, Where, WritersKeep
    <2>3. CASE Op(r) = "enable"
      <3>1. pc'[r] = "existing" /\ config.skips
        BY <1>1, <2>1, <2>2, <2>3 DEF RouteOK, RaiseFlag, Writes, Goto, TypeOK
      <3> QED BY <1>1, <2>1, <2>2, <3>1 DEF Pending, User
    <2>4. CASE Op(r) = "verify-totp"
      <3>1. pc'[r] = "verified"
        BY <2>2, <2>4 DEF RaiseFlag, Writes, Goto, TypeOK
      <3> QED BY <2>1, <2>2, <3>1 DEF Pending, User
    <2> QED BY <1>1, <1>2, <2>1, <2>3, <2>4 DEF RouteOK
  <1> QED BY <1>4, <1>5

-----------------------------------------------------------------------------
(* What has been found is still there                                       *)

\* Where a handler has come from.
LEMMA CameFrom ==
  ASSUME TypeOK, HandlersOK, NEW r \in Requests, Handle(r)
  PROVE  /\ pc'[r] = "strike" => SecondFactor(r)
         /\ pc'[r] = "renew" => Manage(r)
         /\ pc'[r] = "verified" => SecondFactor(r) \/ RaiseFlag(r)
         /\ pc'[r] = "flag" => SecondFactor(r) \/ Manage(r) \/ SpendCode(r)
         /\ pc'[r] = "spend" => SecondFactor(r) \/ PhoneCode(r)
         /\ pc'[r] = "burn" => VerifyWallet(r)
         /\ pc'[r] = "rotate" => Intercept(r)
         /\ pc'[r] = "poll" => DeviceToken(r)
         /\ pc'[r] = "drop-device" => Poll(r) \/ CreateSession(r)
         /\ pc'[r] = "counter" => Authenticate(r)
         /\ pc'[r] = "consume" => CreateSession(r) \/ InsertPasskey(r)
         /\ pc'[r] = "replace" => FindExisting(r)
         /\ pc'[r] = "enrol" => DropFactors(r)
         /\ pc'[r] = "drop-factor" => LowerFlag(r)
         /\ pc'[r] = "sign-up" => ResolvePhone(r)
         /\ pc'[r] = "wallet-user" => ResolveWallet(r)
         /\ pc'[r] = "wallet-row" => ResolveWallet(r) \/ WalletUser(r)
         /\ pc'[r] = "session" =>
              \/ SignIn(r) \/ PhoneSignIn(r) \/ Valid(r) \/ ResolvePhone(r) \/ PhoneSignUp(r)
              \/ VerifyPhone(r) \/ ResolveWallet(r) \/ WalletAccount(r) \/ Poll(r)
              \/ WriteCounter(r)
PROOF BY Leads DEF Handle, SharedStep, TwoFactorStep, PhoneStep, WalletStep, DeviceStep, PasskeyStep

\* A handler that has met a challenge still finds it.
LEMMA CookieStays ==
  ASSUME TypeOK, HandlersOK, RowsOK, NEW r \in Requests, Handle(r), StillThere(r),
         pc'[r] \notin {"idle", "done", "verify-totp", "verify-otp", "verify-backup", "trust"},
         Op(r) \in SecondFactors, call[r].session = None
  PROVE  Left("cookie", call[r].cookie, 1)'
PROOF
  <1>1. /\ call' = call /\ RouteOK(r) /\ DueOK(r) /\ pc[r] \notin {"idle", "done"}
        /\ pc[r] \in Operations => pc[r] = Op(r)
    BY Here, Called DEF RowsOK, HandlerOK
  <1>2. CASE pc[r] \in SecondFactors
    <2>1. SecondFactor(r)
      BY <1>2, Where DEF SecondFactors
    <2>2. ~Refuse(r)
      BY DEF Refuse, Goto, TypeOK
    <2>3. Challenged(r) # {}
      BY <2>1, <2>2 DEF SecondFactor
    <2>4. PICK v \in db.verification : v.identifier = <<"2fa", call[r].cookie>>
      BY <2>3 DEF Challenged, Rows
    <2>5. v.id = call[r].cookie
      <3>1. PICK x : x = call[r].cookie
        OBVIOUS
      <3>2. v.identifier \in {<<"2fa", x>>, <<"passkey", x>>, <<"trust", x>>} /\ VerificationsOK
        BY <2>4, <3>1 DEF RowsOK
      <3> QED BY <3>1, <3>2, RowNames
    <2>6. db' = db
      BY <2>1, ReadingOnly DEF Reading
    <2> QED BY <1>1, <2>4, <2>5, <2>6 DEF Left
  <1>3. CASE pc[r] \notin SecondFactors
    <2>1. pc[r] \notin {"trust", "consume", "drop-code", "miscount"}
      <3>1. pc[r] = "trust" => IssueTrustDevice(r)
        BY Where
      <3>2. pc[r] = "consume" => Consume(r)
        BY Where
      <3>3. pc[r] = "drop-code" => DropCode(r)
        BY Where
      <3>4. pc[r] = "miscount" => CountFailure(r)
        BY Where
      <3> QED BY <3>1, <3>2, <3>3, <3>4, Leads
    <2>2. PICK v \in db.verification : v.id = call[r].cookie
      BY <1>1, <1>3, <2>1 DEF StillThere, Left, SecondFactors
    <2>3. PICK x : x = call[r].cookie
      OBVIOUS
    <2>4. x \in Requests /\ Op(x) \in PasswordSignIns
      BY <1>1, <1>3, <2>3 DEF DueOK, ChallengeDue, Met
    <2>5. v.identifier = <<"2fa", x>>
      BY <1>1, <2>2, <2>3, <2>4, CookieNames DEF RowsOK
    <2>6. CASE pc[r] = "spend"
      <3>1. SpendCode(r)
        BY <2>6, Where
      <3>2. db'.verification = db.verification \ Rows(Purpose(r))
        BY <3>1, Types DEF SpendCode, Writes, TypeOK, Database
      <3>3. v.identifier # Purpose(r)
        BY <2>5 DEF Purpose
      <3> QED BY <1>1, <2>2, <3>2, <3>3 DEF Left, Rows
    <2>7. CASE pc[r] # "spend"
      <3>1. pc[r] \notin Operations
        BY <1>1, <1>3
      <3>2. pc[r] \notin {"consume", "clear", "mint", "drop-code", "miscount", "spend", "rotate",
                      "trust", "challenge", "revoke", "siwe-nonce", "burn",
                      "passkey-register-options", "passkey-authenticate-options"}
        BY <1>1, <2>1, <2>7, <3>1
        DEF RouteOK, SecondFactors, PasswordSignIns, CodeSenders, Operations, WalletOps
      <3>3. db'.verification = db.verification
        BY <3>2, Untouched
      <3> QED BY <1>1, <2>2, <3>3 DEF Left
    <2> QED BY <2>6, <2>7
  <1> QED BY <1>2, <1>3

\* A handler that has checked a passkey still finds the challenge.
LEMMA OfferStays ==
  ASSUME TypeOK, HandlersOK, RowsOK, NEW r \in Requests, Handle(r), StillThere(r),
         pc'[r] \in {"counter", "session", "consume"}, Op(r) = "passkey-authenticate"
  PROVE  Left("cookie", call[r].cookie, 1)'
PROOF
  <1>1. call' = call /\ RouteOK(r)
    BY Here DEF RowsOK, HandlerOK
  <1>2. Authenticate(r) \/ pc[r] \in {"counter", "session"}
    BY <1>1, CameFrom, Places DEF RouteOK, Operations, SecondFactors, PhoneOps
  <1>3. CASE Authenticate(r)
    <2>1. ~Refuse(r)
      BY DEF Refuse, Goto, TypeOK
    <2>2. PICK v \in FindOne(Challenges(r)) : v # None
      BY <1>3, <2>1 DEF Authenticate
    <2>3. v \in db.verification /\ v.identifier = <<"passkey", call[r].cookie>>
      BY <2>2 DEF FindOne, Challenges, Rows
    <2>4. v.id = call[r].cookie
      <3>1. PICK x : x = call[r].cookie
        OBVIOUS
      <3>2. v.identifier \in {<<"2fa", x>>, <<"passkey", x>>, <<"trust", x>>} /\ VerificationsOK
        BY <2>3, <3>1 DEF RowsOK
      <3> QED BY <2>3, <3>1, <3>2, RowNames
    <2>5. db' = db
      BY <1>3, ReadingOnly DEF Reading
    <2> QED BY <1>1, <2>3, <2>4, <2>5 DEF Left
  <1>4. CASE pc[r] \in {"counter", "session"}
    <2>1. Left("cookie", call[r].cookie, 1)
      BY <1>4 DEF StillThere
    <2>2. db'.verification = db.verification
      BY <1>4, Untouched
    <2> QED BY <1>1, <2>1, <2>2 DEF Left
  <1> QED BY <1>2, <1>3, <1>4

\* A handler that has found a device code still finds it.
LEMMA DeviceStays ==
  ASSUME TypeOK, HandlersOK, RowsOK, NEW r \in Requests, Handle(r), StillThere(r),
         pc'[r] \in DeviceWait, Op(r) = "device-token"
  PROVE  Left("device", call[r].device, 1)'
PROOF
  <1>1. call' = call /\ RouteOK(r)
    BY Here DEF RowsOK, HandlerOK
  <1>2. DeviceToken(r) \/ Poll(r) \/ CreateSession(r)
    BY <1>1, CameFrom, Places DEF RouteOK, Operations, SecondFactors, PhoneOps, DeviceWait
  <1>3. CASE DeviceToken(r)
    <2>1. ~Refuse(r)
      BY DEF Refuse, Goto, TypeOK, DeviceWait
    <2>2. PICK d \in FindOne(CodeRows(r)) : d # None
      BY <1>3, <2>1 DEF DeviceToken
    <2>3. d \in db.device /\ d.id = call[r].device
      BY <2>2 DEF FindOne, CodeRows
    <2>4. db' = db
      BY <1>3, ReadingOnly DEF Reading
    <2> QED BY <1>1, <2>3, <2>4 DEF Left
  <1>4. CASE CreateSession(r)
    <2>1. pc[r] = "session"
      BY <1>4, Places
    <2>2. Left("device", call[r].device, 1)
      BY <2>1 DEF StillThere, DeviceWait
    <2>3. db'.device = db.device
      BY <2>1, Untouched
    <2> QED BY <1>1, <2>2, <2>3 DEF Left
  <1>5. CASE Poll(r)
    <2>1. pc[r] = "poll"
      BY <1>5, Places
    <2>2. PICK d \in db.device : d.id = call[r].device
      BY <2>1 DEF StillThere, DeviceWait, Left
    <2>3. db' = [db EXCEPT !.device =
            {IF e.id = call[r].device THEN [e EXCEPT !.lastPolled = now] ELSE e : e \in @}]
      BY <1>5 DEF Poll, Writes, Finishes, UpdateDevice
    <2>4. db'.device =
            {IF e.id = call[r].device THEN [e EXCEPT !.lastPolled = now] ELSE e : e \in db.device}
      BY <2>3 DEF TypeOK, Database
    <2>5. [d EXCEPT !.lastPolled = now] \in db'.device
      BY <2>2, <2>4
    <2>6. [d EXCEPT !.lastPolled = now].id = call[r].device
      BY <2>2, Types DEF DeviceRow
    <2> QED BY <1>1, <2>5, <2>6 DEF Left
  <1> QED BY <1>2, <1>3, <1>4, <1>5

\* What a code is compared with is a row, which the handler keeps at hand.
LEMMA CodeFound ==
  ASSUME TypeOK, HandlersOK, UsersOK, NEW r \in Requests, Handle(r), NEW user,
         CheckCode(r, user), pc'[r] = "spend"
  PROVE  mem'[r].row \in db.verification
PROOF
  <1>1. DOMAIN pc = Requests /\ DOMAIN mem = Requests
    BY Here
  <1>2. ~Refuse(r)
    BY <1>1 DEF Refuse, Goto
  <1>3. PICK row \in FindOne(Rows(Purpose(r))) :
          row # None /\ \E to : Reads(r, to, user, row)
    BY <1>2 DEF CheckCode
  <1>4. mem'[r].row = row
    BY <1>1, <1>3 DEF Reads
  <1> QED BY <1>3, <1>4 DEF FindOne, Rows

\* So is the secret of whoever has met the challenge, or is signed in.
LEMMA FactorFound ==
  ASSUME TypeOK, HandlersOK, UsersOK, NEW r \in Requests, Handle(r), SecondFactor(r)
  PROVE  /\ pc'[r] = "spend" => mem'[r].row \in db.verification
         /\ pc'[r] \in {"strike", "flag", "verified"} => mem'[r].row \in FactorsOf(mem'[r].user)
         /\ pc'[r] = "strike" => <<call[r].code, call[r].item>> \in mem'[r].row.backup
PROOF
  <1>1. DOMAIN pc = Requests /\ DOMAIN mem = Requests
    BY Here
  <1>2. CASE pc'[r] \in {"spend", "strike", "flag", "verified"}
    <2>1. ~Refuse(r)
      BY <1>1, <1>2 DEF Refuse, Goto
    <2>2. PICK user \in Challenged(r) :
            CASE Op(r) = "verify-totp"   -> VerifyTotpOf(r, user)
              [] Op(r) = "verify-backup" -> VerifyBackupOf(r, user)
              [] Op(r) = "verify-otp"    -> CheckCode(r, user)
              [] Op(r) = "send-otp"      -> Reads(r, "clear", user, None)
      BY <2>1, Zenon DEF SecondFactor
    <2>3. Op(r) \in {"verify-totp", "verify-backup", "verify-otp", "send-otp"}
      <3>1. pc[r] = Op(r)
        BY Places, Called DEF Operations, SecondFactors
      <3> QED BY <3>1, Places
    <2>4. CASE Op(r) = "verify-totp"
      <3>1. VerifyTotpOf(r, user)
        BY <2>2, <2>4
      <3>2. PICK factor \in FindOne(FactorsOf(user)) :
              /\ factor # None
              /\ Reads(r, IF factor.verified THEN "valid"
                          ELSE IF db.user[user].twoFactor THEN "verified" ELSE "flag",
                       user, factor)
        BY <2>1, <3>1 DEF VerifyTotpOf
      <3>3. mem'[r].row = factor /\ mem'[r].user = user /\ pc'[r] \notin {"spend", "strike"}
        BY <1>1, <3>2 DEF Reads, Goto
      <3> QED BY <3>2, <3>3 DEF FindOne
    <2>5. CASE Op(r) = "verify-backup"
      <3>1. VerifyBackupOf(r, user)
        BY <2>2, <2>5
      <3>2. PICK factor \in FindOne(FactorsOf(user)) :
              /\ factor # None /\ <<call[r].code, call[r].item>> \in factor.backup
              /\ Reads(r, "strike", user, factor)
        BY <2>1, <3>1 DEF VerifyBackupOf
      <3>3. mem'[r].row = factor /\ mem'[r].user = user /\ pc'[r] = "strike"
        BY <1>1, <3>2 DEF Reads, Goto
      <3> QED BY <3>2, <3>3 DEF FindOne
    <2>6. CASE Op(r) = "verify-otp"
      <3>1. CheckCode(r, user)
        BY <2>2, <2>6
      <3>2. pc'[r] = "spend"
        BY <1>2, <2>6, FactorLeads
      <3> QED BY <3>1, <3>2, CodeFound
    <2>7. CASE Op(r) = "send-otp"
      <3>1. Reads(r, "clear", user, None)
        BY <2>2, <2>7
      <3> QED BY <1>1, <1>2, <3>1 DEF Reads, Goto
    <2> QED BY <2>3, <2>4, <2>5, <2>6, <2>7
  <1> QED BY <1>2

\* What is about to be spent, struck off or changed is still there.
LEMMA RowStays ==
  ASSUME TypeOK, HandlersOK, RowsOK, NEW r \in Requests, Handle(r), StillThere(r)
  PROVE  /\ pc'[r] \in {"spend", "burn"} => mem'[r].row \in db'.verification
         /\ pc'[r] \in {"strike", "renew", "verified"} => mem'[r].row \in db'.twoFactor
         /\ pc'[r] = "strike" => <<call'[r].code, call'[r].item>> \in mem'[r].row.backup
         /\ pc'[r] \in {"flag", "verified"} /\ Op(r)' = "verify-totp" =>
              mem'[r].row \in FactorsOf(User(r))'
PROOF
  <1>1. /\ DOMAIN pc = Requests /\ DOMAIN mem = Requests /\ call' = call /\ Op(r)' = Op(r)
        /\ UsersOK /\ RouteOK(r)
    BY Here DEF RowsOK, HandlerOK
  <1>2. CASE SecondFactor(r)
    <2>1. db' = db
      BY <1>2, ReadingOnly DEF Reading
    <2>2. pc'[r] \notin {"burn", "renew"}
      BY <1>2, Leads
    <2> QED BY <1>1, <1>2, <2>1, <2>2, FactorFound DEF FactorsOf, User
  <1>3. CASE PhoneCode(r)
    <2>1. db' = db /\ CheckCode(r, None)
      BY <1>3, ReadingOnly DEF Reading, PhoneCode
    <2>2. pc'[r] \notin {"burn", "renew", "strike", "flag", "verified"}
      BY <1>3, Leads
    <2> QED BY <1>1, <2>1, <2>2, CodeFound
  <1>4. CASE VerifyWallet(r)
    <2>1. db' = db
      BY <1>4, ReadingOnly DEF Reading
    <2>2. pc'[r] \in {"done", "burn"}
      BY <1>4, Leads
    <2>3. ASSUME pc'[r] = "burn"
          PROVE  mem'[r].row \in db.verification
      <3>1. ~Refuse(r)
        BY <1>1, <2>3 DEF Refuse, Goto
      <3>2. PICK nonce \in FindOne(Nonces(r)) : nonce # None /\ Reads(r, "burn", None, nonce)
        BY <1>4, <3>1 DEF VerifyWallet
      <3>3. mem'[r].row = nonce
        BY <1>1, <3>2 DEF Reads
      <3> QED BY <3>2, <3>3 DEF FindOne, Nonces, Rows
    <2> QED BY <2>1, <2>2, <2>3
  <1>5. CASE Manage(r)
    <2>1. db' = db
      BY <1>5, ReadingOnly DEF Reading
    <2>2. pc'[r] \in {"done", "flag", "existing", "lower", "renew"} /\ Op(r) # "verify-totp"
      <3>1. pc[r] = Op(r)
        BY <1>1, <1>5, Places, Called DEF Operations
      <3> QED BY <1>5, <3>1, Leads, Places
    <2>3. ASSUME pc'[r] = "renew"
          PROVE  mem'[r].row \in db.twoFactor
      <3>1. ~Refuse(r)
        BY <1>1, <2>3 DEF Refuse, Goto
      <3>2. PICK user \in SignedIn(r) :
              CASE Op(r) = "enable"  -> Reads(r, IF config.skips THEN "flag" ELSE "existing", user, None)
                [] Op(r) = "disable" -> Reads(r, "lower", user, None)
                [] Op(r) = "generate-backup" ->
                     \E factor \in FindOne(FactorsOf(user)) :
                       IF factor = None \/ ~db.user[user].twoFactor THEN Refuse(r)
                       ELSE Reads(r, "renew", user, factor)
        BY <1>5, <3>1, Zenon DEF Manage
      <3>3. Op(r) \in {"enable", "disable", "generate-backup"}
        <4>1. pc[r] = Op(r)
          BY <1>1, <1>5, Places, Called DEF Operations
        <4> QED BY <1>5, <4>1, Places
      <3>4. Op(r) = "generate-backup"
        BY <1>1, <2>3, <3>2, <3>3 DEF Reads, Goto
      <3>5. PICK factor \in FindOne(FactorsOf(user)) : factor # None /\ Reads(r, "renew", user, factor)
        BY <3>1, <3>2, <3>4
      <3>6. mem'[r].row = factor
        BY <1>1, <3>5 DEF Reads
      <3> QED BY <3>5, <3>6 DEF FindOne, FactorsOf
    <2> QED BY <1>1, <2>1, <2>2, <2>3
  <1>6. CASE RaiseFlag(r)
    <2>1. pc[r] = "flag" /\ mem' = mem /\ db'.twoFactor = db.twoFactor
      <3>1. pc[r] = "flag"
        BY <1>6, Places
      <3> QED BY <1>6, <3>1, WritersKeep, Untouched
    <2>2. pc'[r] \in {"existing", "verified", "valid"} /\ (pc'[r] = "verified" => Op(r) = "verify-totp")
      BY <1>6, Leads, Branches
    <2>3. Op(r) = "verify-totp" => mem[r].row \in FactorsOf(User(r))
      BY <2>1 DEF StillThere
    <2> QED BY <1>1, <2>1, <2>2, <2>3 DEF FactorsOf, User
  <1>7. CASE SpendCode(r)
    <2>1. pc'[r] \in {"valid", "flag", "resolve-phone", "find-account"}
          /\ (pc'[r] = "flag" => Op(r) = "verify-otp")
      BY <1>7, Leads, Branches
    <2> QED BY <1>1, <2>1
  <1> QED BY <1>2, <1>3, <1>4, <1>5, <1>6, <1>7, CameFrom

\* A trusted device's record is rotated after it was found.
LEMMA RotateStays ==
  ASSUME TypeOK, HandlersOK, RowsOK, NEW r \in Requests, Handle(r), pc'[r] = "rotate"
  PROVE  Left("trust", call[r].trust, 1)'
PROOF
  <1>1. DOMAIN pc = Requests /\ call' = call /\ VerificationsOK
    BY Here DEF RowsOK
  <1>2. Intercept(r) /\ db' = db
    BY CameFrom, ReadingOnly DEF Reading
  <1>3. Trusted(r)
    BY <1>1, <1>2 DEF Intercept, Reads, Finishes, Answers, Goto
  <1>4. PICK x : x = call[r].trust
    OBVIOUS
  <1>5. PICK v \in db.verification : v.identifier = <<"trust", x>>
    BY <1>3, <1>4 DEF Trusted, TrustRow, Rows
  <1>6. v.identifier \in {<<"2fa", x>>, <<"passkey", x>>, <<"trust", x>>}
    BY <1>5
  <1>7. v.id = x
    BY <1>1, <1>6, RowNames
  <1> QED BY <1>1, <1>2, <1>4, <1>7 DEF Left

\* An enrolment replaces what was there.
LEMMA EnrolStays ==
  ASSUME TypeOK, HandlersOK, RowsOK, NEW r \in Requests, Handle(r), pc'[r] = "enrol"
  PROVE  FactorsOf(User(r))' = {}
PROOF
  <1>1. DropFactors(r)
    BY CameFrom
  <1>2. mem' = mem /\ db'.twoFactor = db.twoFactor \ FactorsOf(User(r))
    <2>1. \E to, what : LET tables == [db EXCEPT !.twoFactor = @ \ FactorsOf(User(r))] IN
            Writes(r, to, tables) \/ Finishes(r, what, tables)
      BY <1>1 DEF DropFactors
    <2>2. db' = [db EXCEPT !.twoFactor = @ \ FactorsOf(User(r))] /\ mem' = mem
      BY <2>1 DEF Writes, Finishes
    <2> QED BY <2>2 DEF TypeOK, Database
  <1>3. User(r)' = User(r)
    BY <1>2 DEF User
  <1> QED BY <1>2, <1>3 DEF FactorsOf

\* The secret that is replaced is verified if two factor is on.
LEMMA ReplaceStays ==
  ASSUME TypeOK, HandlersOK, RowsOK, InTurn, FactorsOK, FlagsOK, NEW r \in Requests, Handle(r),
         StillThere(r), pc'[r] \in {"replace", "enrol"}, ~config.otp,
         db'.user[User(r)'].twoFactor
  PROVE  config.skips \/ (mem'[r].row # None /\ mem'[r].row.verified)
PROOF
  <1>1. DOMAIN pc = Requests /\ DOMAIN mem = Requests
    BY Here DEF RowsOK
  <1>2. CASE pc'[r] = "replace"
    <2>1. FindExisting(r) /\ db' = db /\ pc[r] = "existing"
      BY <1>2, CameFrom, Places, ReadingOnly DEF Reading
    <2>2. PICK u : u = User(r)
      OBVIOUS
    <2>3. PICK factor \in FindOne(FactorsOf(u)) : Reads(r, "replace", u, factor)
      BY <2>1, <2>2 DEF FindExisting
    <2>4. mem'[r].row = factor /\ User(r)' = u
      BY <1>1, <2>3 DEF Reads, User
    <2>5. u \in Ids /\ db.user[u] # None /\ db.user[u].twoFactor
      BY <2>1, <2>2, <2>4, Called DEF UserFound, Identified, Known, RowsOK
    <2>6. (\E f \in FactorsOf(u) : f.verified) \/ Pending(r, u)
      <3>1. \A q \in Requests : Pending(q, u) => q = r
        BY AloneStays, Idle
      <3> QED BY <2>5, <3>1 DEF FlagsOK
    <2>7. ASSUME NEW f \in FactorsOf(u), f.verified
          PROVE  factor = f /\ factor # None
      <3>1. factor \in FactorsOf(u)
        BY <2>3 DEF FindOne
      <3>2. factor = f
        BY <3>1 DEF FactorsOf, FactorsOK
      <3>3. f \in TwoFactorRow
        BY Types DEF FactorsOf
      <3> QED BY <3>2, <3>3, NoneApart
    <2>8. Pending(r, u) => config.skips
      BY <2>1 DEF Pending
    <2> QED BY <2>4, <2>6, <2>7, <2>8
  <1>3. CASE pc'[r] = "enrol"
    <2>1. DropFactors(r) /\ pc[r] = "replace" /\ mem' = mem
      BY <1>3, CameFrom, Branches, WritersKeep
    <2>2. db'.user = db.user
      BY <2>1, Untouched
    <2>3. User(r)' = User(r)
      BY <2>1 DEF User
    <2> QED BY <2>1, <2>2, <2>3 DEF StillThere
  <1> QED BY <1>2, <1>3

\* Two factor is off once the flag was lowered, ...
LEMMA LoweredStays ==
  ASSUME TypeOK, HandlersOK, RowsOK, NEW r \in Requests, Handle(r), pc'[r] = "drop-factor"
  PROVE  ~db'.user[User(r)'].twoFactor
PROOF
  <1>1. LowerFlag(r) /\ pc[r] = "lower" /\ mem' = mem
    BY CameFrom, Places, WritersKeep
  <1>2. PICK u : u = User(r) /\ u = User(r)'
    BY <1>1 DEF User
  <1>3. u \in Ids /\ db.user[u] # None
    BY <1>1, <1>2, Called DEF UserFound, Identified, Known, RowsOK
  <1>4. db' = [db EXCEPT !.user[u].twoFactor = FALSE]
    BY <1>1, <1>2 DEF LowerFlag, Writes, SetFlag
  <1>5. db'.user = [db.user EXCEPT ![u] = [db.user[u] EXCEPT !.twoFactor = FALSE]]
    BY <1>3, <1>4, UserEdits
  <1>6. db.user \in [Ids -> UserRow \cup {None}] /\ db.user[u] \in UserRow
    BY <1>3, Types
  <1> QED BY <1>2, <1>3, <1>5, <1>6 DEF UserRow

\* ... and a number or a wallet that nobody has is looked for once.
LEMMA NobodyStays ==
  ASSUME TypeOK, HandlersOK, RowsOK, OneOfEach, NEW r \in Requests, Handle(r), StillThere(r)
  PROVE  /\ pc'[r] = "sign-up" => Holders(call[r].who)' = {}
         /\ pc'[r] = "wallet-user" => WalletsOf(AddressOf[call[r].who])' = {}
         /\ pc'[r] = "wallet-row" =>
              \A w \in WalletsOf(AddressOf[call[r].who])' : w.user = User(r)'
PROOF
  <1>1. DOMAIN pc = Requests /\ DOMAIN mem = Requests /\ call' = call
    BY Here DEF RowsOK
  <1>2. PICK who : who = call[r].who
    OBVIOUS
  <1>3. CASE pc'[r] = "sign-up"
    <2>1. ResolvePhone(r) /\ db' = db
      BY <1>3, CameFrom, ReadingOnly DEF Reading
    <2>2. PICK user \in FindOne(Holders(who)) :
            Reads(r, IF user = None THEN "sign-up"
                     ELSE IF db.user[user].phoneVerified THEN AfterPhone(r) ELSE "verify-phone",
                  user, None)
      BY <1>2, <2>1 DEF ResolvePhone
    <2>3. user = None
      BY <1>1, <1>3, <2>2 DEF Reads, Goto, AfterPhone
    <2>4. Holders(who) = {}
      BY <2>2, <2>3, NoneApart DEF FindOne, Holders
    <2> QED BY <1>1, <1>2, <1>3, <2>1, <2>4 DEF Holders
  <1>4. CASE pc'[r] \in {"wallet-user", "wallet-row"} /\ ResolveWallet(r)
    <2>1. db' = db
      BY <1>4, ReadingOnly DEF Reading
    <2>2. WalletsOf(AddressOf[who])' = WalletsOf(AddressOf[who])
      BY <2>1 DEF WalletsOf
    <2>3. PICK w \in FindOne(WalletsOf(AddressOf[who])) :
            IF w = None THEN Reads(r, "wallet-user", None, None)
            ELSE Reads(r, "wallet-row", w.user, None)
      <3>1. ~\E w : Reads(r, "session", w, None)
        BY <1>1, <1>4 DEF Reads, Goto
      <3> QED BY <1>2, <1>4, <3>1 DEF ResolveWallet
    <2>4. CASE w = None
      <3>1. None \notin WalletsOf(AddressOf[who])
        BY Types, NoneApart DEF WalletsOf
      <3>2. WalletsOf(AddressOf[who]) = {} /\ pc'[r] = "wallet-user"
        BY <1>1, <2>3, <2>4, <3>1 DEF FindOne, Reads, Goto
      <3> QED BY <1>1, <1>2, <2>2, <3>2
    <2>5. CASE w # None
      <3>1. w \in WalletsOf(AddressOf[who])
        BY <2>3, <2>5 DEF FindOne
      <3>2. pc'[r] = "wallet-row" /\ User(r)' = w.user
        BY <1>1, <2>3, <2>5 DEF Reads, Goto, User
      <3>3. \A v \in WalletsOf(AddressOf[who]) : v.user = w.user
        BY <3>1 DEF WalletsOf, OneOfEach
      <3> QED BY <1>1, <1>2, <2>2, <3>2, <3>3
    <2> QED BY <2>4, <2>5
  <1>5. CASE pc'[r] = "wallet-row" /\ WalletUser(r)
    <2>1. pc[r] = "wallet-user"
      BY <1>5, Places
    <2>2. db'.wallet = db.wallet /\ WalletsOf(AddressOf[who]) = {}
      BY <1>2, <2>1, Untouched DEF StillThere
    <2> QED BY <1>1, <1>2, <1>5, <2>2 DEF WalletsOf
  <1> QED BY <1>3, <1>4, <1>5, CameFrom

LEMMA StillStays ==
  ASSUME TypeOK, HandlersOK, RowsOK, InTurn, FactorsOK, FlagsOK, OneOfEach, NEW r \in Requests,
         Handle(r), StillThere(r)
  PROVE  StillThere(r)'
PROOF
  <1>1. call' = call /\ Op(r)' = Op(r) /\ config' = config
    BY Here DEF RowsOK
  <1>2. /\ pc'[r] \notin {"idle", "done", "verify-totp", "verify-otp", "verify-backup", "trust"}
             /\ Op(r)' \in SecondFactors /\ call'[r].session = None => Left("cookie", call[r].cookie, 1)'
        /\ pc'[r] \in {"counter", "session", "consume"} /\ Op(r)' = "passkey-authenticate" =>
             Left("cookie", call[r].cookie, 1)'
        /\ pc'[r] \in DeviceWait /\ Op(r)' = "device-token" => Left("device", call[r].device, 1)'
        /\ pc'[r] = "rotate" => Left("trust", call[r].trust, 1)'
    BY <1>1, CookieStays, OfferStays, DeviceStays, RotateStays
  <1>3. /\ pc'[r] = "enrol" => FactorsOf(User(r))' = {}
        /\ pc'[r] \in {"replace", "enrol"} /\ ~config'.otp /\ db'.user[User(r)'].twoFactor =>
             config'.skips \/ (mem'[r].row # None /\ mem'[r].row.verified)
        /\ pc'[r] = "drop-factor" => ~db'.user[User(r)'].twoFactor
    BY <1>1, EnrolStays, ReplaceStays, LoweredStays
  <1> QED BY <1>1, <1>2, <1>3, RowStays, NobodyStays DEF StillThere

LEMMA HandleTurns ==
  ASSUME TypeOK, HandlersOK, RowsOK, TurnsOK, NEW r \in Requests, Handle(r)
  PROVE  TurnsOK'
PROOF
  <1>1. config' = config
    BY Here DEF RowsOK
  <1>2. SUFFICES ASSUME InTurn
                 PROVE  TurnsOK'
    BY <1>1 DEF TurnsOK, InTurn
  <1>3. TakenOnce /\ StillThere(r) /\ FactorsOK /\ FlagsOK /\ OneOfEach /\ OneRowEach
    BY <1>2 DEF TurnsOK, OneOfEach
  <1>4. Alone' /\ \A q \in Requests \ {r} : ~InHandler(q)'
    BY <1>2, AloneStays
  <1>5. StillThere(r)'
    BY <1>2, <1>3, StillStays
  <1>6. ASSUME NEW q \in Requests \ {r}
        PROVE  StillThere(q)'
    BY <1>4 DEF StillThere, InHandler, DeviceWait
  <1>7. TakenOnce' /\ FactorsOK' /\ FlagsOK' /\ OneOfEach'
    BY <1>2, <1>3, TakenOnceStays, FactorsStay, FlagsStay, OneOfEachStays
  <1> QED BY <1>4, <1>5, <1>6, <1>7 DEF TurnsOK

-----------------------------------------------------------------------------
(* A request that begins, and time                                          *)

\* A request that begins has read nothing and answered nothing.
LEMMA Begun ==
  ASSUME TypeOK, HandlersOK, NEW r \in Requests, NEW c \in Calls[config.scenario], Begin(r, c)
  PROVE  /\ pc[r] = "idle" /\ pc'[r] = c.op /\ call'[r] = c
         /\ c \in Call /\ c # None /\ c.op \in Operations
         /\ pc' \in [Requests -> {"idle", "done"} \cup Operations \cup Stages]
         /\ call' \in [Requests -> Calls[config.scenario] \cup {None}]
         /\ User(r) = None /\ answer[r] = {} /\ Scheduled(r) /\ Presentable(c)
         /\ UNCHANGED <<config, now, db, mem, answer>>
PROOF
  <1>1. c \in Call /\ c.op \in Operations
    BY ConstantsAssumption, Types DEF Call
  <1>2. c # None
    BY <1>1, NoneApart
  <1>3. /\ pc[r] = "idle" /\ pc' = [pc EXCEPT ![r] = c.op] /\ call' = [call EXCEPT ![r] = c]
        /\ Scheduled(r) /\ Presentable(c) /\ UNCHANGED <<config, now, db, mem, answer>>
    BY DEF Begin, At, Goto
  <1>4. User(r) = None /\ answer[r] = {}
    BY <1>3 DEF HandlersOK, HandlerOK, UserFound, CallOK
  <1>5. pc'[r] = c.op /\ pc' \in [Requests -> {"idle", "done"} \cup Operations \cup Stages]
    BY <1>1, <1>3 DEF TypeOK
  <1>6. call'[r] = c /\ call' \in [Requests -> Calls[config.scenario] \cup {None}]
    BY <1>3 DEF TypeOK
  <1> QED BY <1>1, <1>2, <1>3, <1>4, <1>5, <1>6

LEMMA OperationsApart ==
  ASSUME NEW op \in Operations
  PROVE  op \notin {"idle", "done"} \cup Stages
PROOF BY DEF Operations, Stages, SecondFactors, PhoneOps, WalletOps

LEMMA BeginHandlers ==
  ASSUME TypeOK, HandlersOK, NEW r \in Requests, NEW c \in Calls[config.scenario], Begin(r, c)
  PROVE  TypeOK' /\ HandlersOK'
PROOF
  <1>1. Gentle(r)
    BY BeginGentle
  <1>2. TypeOK'
    BY Begun DEF TypeOK
  <1>3. pc'[r] \in Operations /\ pc'[r] \notin {"idle", "done"} \cup Stages /\ Op(r)' = pc'[r]
    BY Begun, OperationsApart DEF Op
  <1>4. CallOK(r)'
    <2>1. \A q \in Requests : pc[q] = "done" => pc'[q] = "done"
      BY <1>1 DEF Gentle
    <2>2. Presentable(c)'
      BY <2>1, Begun DEF Presentable, Got
    <2> QED BY <2>2, Begun DEF CallOK, Replies
  <1>5. RouteOK(r)'
    BY <1>3 DEF RouteOK, Stages
  <1>6. UserFound(r)'
    <2>1. User(r)' = None
      BY Begun DEF User
    <2> QED BY <1>3, <2>1 DEF UserFound, Identified, Stages
  <1>7. HeldOK(r)'
    BY <1>3 DEF HeldOK, DeviceWait, Stages
  <1>8. DueOK(r)'
    <2>1. ChallengeDue(r)'
      BY <1>3 DEF ChallengeDue, Stages
    <2>2. TrustDue(r)' /\ WalletDue(r)' /\ PasskeyDue(r)' /\ PhoneDue(r)' /\ DecisionDue(r)'
      BY <1>3 DEF TrustDue, WalletDue, PasskeyDue, PhoneDue, DecisionDue, Stages
    <2> QED BY <2>1, <2>2 DEF DueOK
  <1>9. HandlerOK(r)'
    BY <1>4, <1>5, <1>6, <1>7, <1>8 DEF HandlerOK
  <1> QED BY <1>1, <1>2, <1>9, OthersOK DEF HandlersOK

\* A step that leaves the tables alone, and disturbs nobody that they are about.
LEMMA RowsOfOthers ==
  ASSUME TypeOK, HandlersOK, RowsOK, NEW r, Gentle(r), db' = db,
         r \in Requests => pc[r] = "idle"
  PROVE  RowsOK'
PROOF
  <1>1. \A q \in Requests : pc[q] # "idle" =>
          /\ q # r /\ pc'[q] = pc[q] /\ answer'[q] = answer[q] /\ Op(q)' = Op(q)
          /\ UserOf(q)' = UserOf(q)
    BY DEF Gentle, Op, UserOf
  <1>2. \A u : Known(u)' = Known(u)
    BY DEF Known
  <1>3. UsersOK'
    BY <1>1 DEF RowsOK, UsersOK, Gentle
  <1>4. SessionsOK'
    BY <1>1, <1>2 DEF RowsOK, SessionsOK
  <1>5. VerificationsOK'
    BY <1>1, DoneStays DEF RowsOK, VerificationsOK
  <1>6. PasskeysOK'
    <2>1. ASSUME NEW p \in db.passkey
          PROVE  /\ Known(p.user)' /\ p.user = UserOf(p.id)'
                 /\ p.id \in Requests => pc'[p.id] \in {"consume", "done"} /\ Op(p.id)' = "passkey-register"
      <3>1. p.id \in Ids
        BY Types DEF PasskeyRow
      <3>2. CASE p.id \in Requests
        BY <1>1, <1>2, <3>2 DEF RowsOK, PasskeysOK
      <3>3. CASE p.id \in Users /\ p.id \notin Requests
        BY <1>2, <3>3 DEF RowsOK, PasskeysOK, UserOf
      <3> QED BY <3>1, <3>2, <3>3 DEF Ids
    <2> QED BY <2>1 DEF PasskeysOK
  <1>7. \A w \in db'.wallet : Known(w.user)'
    BY <1>2 DEF RowsOK
  <1>8. \A d \in db'.device : d.id \in Requests /\ pc'[d.id] = "done" /\ DeviceOK(d)'
    BY <1>1, DoneStays DEF RowsOK
  <1> QED BY <1>3, <1>4, <1>5, <1>6, <1>7, <1>8 DEF RowsOK

LEMMA BeginKeeps ==
  ASSUME TypeOK, HandlersOK, RowsOK, AllEarned, NEW r \in Requests,
         NEW c \in Calls[config.scenario], Begin(r, c)
  PROVE  TypeOK' /\ HandlersOK' /\ RowsOK' /\ AllEarned'
PROOF
  <1>1. TypeOK' /\ HandlersOK'
    BY BeginHandlers
  <1>2. RowsOK'
    BY BeginGentle, Begun, RowsOfOthers
  <1>3. ~SignedInBy(r)'
    BY Begun DEF SignedInBy
  <1>4. EarnedOK(r)'
    BY <1>3 DEF EarnedOK
  <1>5. AllEarned'
    BY <1>4, BeginGentle, EarnedStays DEF AllEarned
  <1> QED BY <1>1, <1>2, <1>5

LEMMA TickKeeps ==
  ASSUME TypeOK, HandlersOK, RowsOK, AllEarned, Tick
  PROVE  TypeOK' /\ HandlersOK' /\ RowsOK' /\ AllEarned'
PROOF
  <1>1. now' \in Times /\ UNCHANGED <<config, db, pc, call, mem, answer>>
    BY ConstantsAssumption DEF Tick, TypeOK, Times
  <1>2. Gentle(None) /\ None \notin Requests
    BY <1>1, TickGentle, NoneApart
  <1>3. TypeOK'
    BY <1>1 DEF TypeOK
  <1>4. HandlersOK'
    BY <1>2, OthersOK DEF HandlersOK
  <1>5. RowsOK'
    BY <1>1, <1>2, RowsOfOthers
  <1>6. AllEarned'
    BY <1>2, EarnedStays DEF AllEarned
  <1> QED BY <1>3, <1>4, <1>5, <1>6

-----------------------------------------------------------------------------
(* The start                                                                *)

LEMMA InitKeeps ==
  ASSUME Init
  PROVE  TypeOK /\ HandlersOK /\ RowsOK /\ AllEarned
PROOF
  <1>1. /\ config \in Configs /\ config \in Config /\ config.scenario \in DOMAIN Calls
        /\ db = Seeds[config.scenario]
        /\ Seeded(db) /\ now = 0 /\ 0 \in Times /\ Requests \cap Users = {}
    BY ConstantsAssumption DEF Init, Config, Times
  <1>2. \A r \in Requests :
          /\ pc[r] = "idle" /\ call[r] = None /\ answer[r] = {} /\ User(r) = None
    BY DEF Init, User
  <1>3. TypeOK
    BY <1>1 DEF Init, TypeOK, Seeded
  <1>4. ASSUME NEW r \in Requests
        PROVE  HandlerOK(r)
    <2>1. CallOK(r)
      BY <1>2 DEF CallOK, Replies
    <2>2. RouteOK(r)
      BY <1>2 DEF RouteOK, Operations, SecondFactors, PhoneOps, WalletOps
    <2>3. UserFound(r)
      BY <1>2 DEF UserFound, Identified
    <2>4. HeldOK(r)
      BY <1>2 DEF HeldOK, DeviceWait
    <2>5. DueOK(r)
      BY <1>2 DEF DueOK, ChallengeDue, TrustDue, WalletDue, PasskeyDue, PhoneDue, DecisionDue
    <2> QED BY <2>1, <2>2, <2>3, <2>4, <2>5 DEF HandlerOK
  <1>5. \A u \in Users : u \in Ids /\ db.user[u] # None /\ Known(u) /\ UserOf(u) = u
    BY <1>1 DEF Seeded, Ids, Known, UserOf
  <1>6. RowsOK
    <2>1. UsersOK
      BY <1>1, <1>5 DEF UsersOK, Seeded, AlwaysProtected, Ids
    <2>2. SessionsOK
      BY <1>1, <1>5 DEF SessionsOK, Seeded
    <2>3. VerificationsOK
      BY <1>1 DEF VerificationsOK, Seeded
    <2>4. PasskeysOK
      BY <1>1, <1>5 DEF PasskeysOK, Seeded
    <2>5. \A w \in db.wallet : Known(w.user)
      BY <1>1, <1>5 DEF Seeded
    <2>6. db.device = {}
      BY <1>1 DEF Seeded
    <2> QED BY <2>1, <2>2, <2>3, <2>4, <2>5, <2>6 DEF RowsOK
  <1>7. AllEarned
    BY <1>2 DEF AllEarned, EarnedOK, SignedInBy
  <1> QED BY <1>3, <1>4, <1>6, <1>7 DEF HandlersOK

LEMMA InitTurns ==
  ASSUME Init
  PROVE  TurnsOK
PROOF
  <1>1. Seeded(db) /\ Requests \cap Users = {}
    BY ConstantsAssumption DEF Init, Config
  <1>2. \A r \in Requests : pc[r] = "idle"
    BY DEF Init
  <1>3. Alone /\ TakenOnce
    BY <1>2 DEF Alone, InHandler, TakenOnce, Took
  <1>4. \A r \in Requests : StillThere(r)
    BY <1>2 DEF StillThere, DeviceWait
  <1>5. FactorsOK
    <2>1. \A f \in db.twoFactor : f.id \in Users /\ f.user = f.id /\ f.backup \subseteq {f.id} \X Items
      BY <1>1 DEF Seeded
    <2>2. ASSUME NEW f \in db.twoFactor, NEW b \in f.backup
          PROVE  b[1] = f.id
      BY <2>1
    <2>3. \A f, g \in db.twoFactor : f.id = g.id => f = g
      BY <1>1 DEF Seeded
    <2> QED BY <1>1, <2>1, <2>2, <2>3 DEF FactorsOK
  <1>6. FlagsOK
    <2>1. \A u \in Ids : db.user[u] # None => u \in Users
      BY <1>1 DEF Seeded
    <2> QED BY <1>1, <2>1 DEF FlagsOK, Seeded, FactorsOf
  <1>7. OneRowEach
    BY <1>1 DEF OneRowEach, Seeded
  <1>8. OneOfEach
    <2>1. \A u \in Ids : db.user[u] # None => u \in Users
      BY <1>1 DEF Seeded
    <2> QED BY <1>1, <1>7, <2>1 DEF OneOfEach, Seeded
  <1> QED BY <1>3, <1>4, <1>5, <1>6, <1>8 DEF TurnsOK

LEMMA BeginTurns ==
  ASSUME TypeOK, HandlersOK, TurnsOK, NEW r \in Requests,
         NEW c \in Calls[config.scenario], Begin(r, c)
  PROVE  TurnsOK'
PROOF
  <1>1. /\ UNCHANGED <<config, now, db, mem, answer>> /\ pc[r] = "idle" /\ answer[r] = {}
        /\ pc'[r] = c.op /\ call'[r] = c /\ c.op \in Operations /\ Scheduled(r)
        /\ Gentle(r)
    BY Begun, BeginGentle
  <1>2. SUFFICES ASSUME InTurn
                 PROVE  TurnsOK'
    BY <1>1 DEF TurnsOK, InTurn
  <1>3. /\ Alone /\ TakenOnce /\ FactorsOK /\ FlagsOK /\ OneOfEach
    BY <1>2 DEF TurnsOK
  <1>4. \A q \in Requests \ {r} :
          /\ ~InHandler(q) /\ ~InHandler(q)'
          /\ pc'[q] = pc[q] /\ call'[q] = call[q] /\ answer'[q] = answer[q] /\ Op(q)' = Op(q)
    BY <1>1, <1>2 DEF Scheduled, InTurn, InHandler, Gentle, Op
  <1>5. pc'[r] \in Operations /\ pc'[r] \notin {"idle", "done"} \cup Stages /\ Op(r)' = pc'[r]
    BY <1>1, OperationsApart DEF Op
  <1>6. Alone'
    BY <1>4 DEF Alone
  <1>7. TakenOnce'
    <2>1. \A kind \in Kinds, q \in Ids, i \in Items : Left(kind, q, i)' = Left(kind, q, i)
      BY <1>1 DEF Left
    <2>2. \A x \in Requests \ {r}, kind \in Kinds, q \in Ids, i \in Items :
            Took(x, kind, q, i)' = Took(x, kind, q, i)
      BY <1>4 DEF Took, SignedInBy, Succeeded
    <2>3. \A kind \in Kinds, q \in Ids, i \in Items : ~Took(r, kind, q, i)'
      BY <1>1, <1>5 DEF Took, SignedInBy, Stages
    <2> QED BY <1>3, <2>1, <2>2, <2>3 DEF TakenOnce
  <1>8. \A q \in Requests : StillThere(q)'
    <2>1. StillThere(r)'
      <3>1. pc'[r] \notin DeviceWait
        BY <1>5 DEF DeviceWait, Stages
      <3> QED BY <1>5, <3>1 DEF StillThere, SecondFactors, Stages
    <2>2. ASSUME NEW q \in Requests \ {r}
          PROVE  StillThere(q)'
      BY <1>4 DEF StillThere, InHandler, DeviceWait
    <2> QED BY <2>1, <2>2
  <1>9. FactorsOK'
    BY <1>1, <1>3, <1>4 DEF FactorsOK
  <1>10. FlagsOK'
    <2>1. \A q \in Requests : \A u : ~Pending(q, u)
      BY <1>1, <1>4, Idle DEF InHandler
    <2>2. \A u : FactorsOf(u)' = FactorsOf(u)
      BY <1>1 DEF FactorsOf
    <2> QED BY <1>1, <1>3, <2>1, <2>2 DEF FlagsOK
  <1>11. OneOfEach'
    BY <1>1, <1>3 DEF OneOfEach, OneRowEach
  <1> QED BY <1>6, <1>7, <1>8, <1>9, <1>10, <1>11 DEF TurnsOK

LEMMA TickTurns ==
  ASSUME TurnsOK, UNCHANGED <<config, db, pc, call, mem, answer>>
  PROVE  TurnsOK'
PROOF
  <1>1. Alone' = Alone /\ InTurn' = InTurn
    BY DEF Alone, InHandler, InTurn
  <1>2. /\ \A kind, q, i : Left(kind, q, i)' = Left(kind, q, i)
        /\ \A r, kind, q, i : Took(r, kind, q, i)' = Took(r, kind, q, i)
    BY DEF Left, Took, Op, SignedInBy, Succeeded
  <1>3. TakenOnce' = TakenOnce
    BY <1>2 DEF TakenOnce
  <1>4. \A u : FactorsOf(u)' = FactorsOf(u)
    BY DEF FactorsOf
  <1>5. \A r \in Requests : StillThere(r) => StillThere(r)'
    BY <1>2, <1>4 DEF StillThere, Op, User, Holders, WalletsOf
  <1>6. FactorsOK' = FactorsOK /\ OneOfEach' = OneOfEach
    BY DEF FactorsOK, OneOfEach, OneRowEach
  <1>7. FlagsOK => FlagsOK'
    <2>1. \A r, u : Pending(r, u) => Pending(r, u)'
      BY DEF Pending, User
    <2> QED BY <1>4, <2>1 DEF FlagsOK
  <1> QED BY <1>1, <1>3, <1>5, <1>6, <1>7 DEF TurnsOK

-----------------------------------------------------------------------------
(* The inductive invariant holds                                            *)

LEMMA InitIInv ==
  Init => IInv
PROOF BY InitKeeps, InitTurns DEF IInv

LEMMA NextIInv ==
  IInv /\ [Next]_vars => IInv'
PROOF
  <1> SUFFICES ASSUME IInv, [Next]_vars
               PROVE  IInv'
    OBVIOUS
  <1>1. TypeOK /\ HandlersOK /\ RowsOK /\ AllEarned /\ TurnsOK
    BY DEF IInv
  <1>2. CASE Tick
    <2>1. UNCHANGED <<config, db, pc, call, mem, answer>>
      BY <1>2 DEF Tick
    <2> QED BY <1>1, <1>2, <2>1, TickKeeps, TickTurns DEF IInv
  <1>3. ASSUME NEW r \in Requests, NEW c \in Calls[config.scenario], Begin(r, c)
        PROVE  IInv'
    BY <1>1, <1>3, BeginKeeps, BeginTurns DEF IInv
  <1>4. ASSUME NEW r \in Requests, Handle(r)
        PROVE  IInv'
    <2>1. TypeOK' /\ HandlersOK'
      BY <1>1, <1>4, HandlerStays, TypeStays DEF RowsOK
    <2>2. RowsOK' /\ AllEarned' /\ TurnsOK'
      BY <1>1, <1>4, HandleRows, HandleEarned, HandleTurns
    <2> QED BY <2>1, <2>2 DEF IInv
  <1>5. CASE UNCHANGED vars
    <2>1. UNCHANGED <<config, now, db, pc, call, mem, answer>>
      BY <1>5 DEF vars
    <2>2. TurnsOK'
      BY <1>1, <2>1, TickTurns
    <2>3. Gentle(None) /\ None \notin Requests
      BY <2>1, TickGentle, NoneApart
    <2>4. TypeOK' /\ HandlersOK'
      BY <1>1, <2>1, <2>3, OthersOK DEF TypeOK, HandlersOK
    <2>5. RowsOK' /\ AllEarned'
      BY <1>1, <2>1, <2>3, RowsOfOthers, EarnedStays DEF AllEarned
    <2> QED BY <2>2, <2>4, <2>5 DEF IInv
  <1> QED BY <1>2, <1>3, <1>4, <1>5 DEF Next, Handle

LEMMA Invariance ==
  Spec => []IInv
PROOF BY InitIInv, NextIInv, PTL DEF Spec

-----------------------------------------------------------------------------
(* What it gives                                                            *)

LEMMA OneAtMost ==
  ASSUME NEW S, \A x, y \in S : x = y
  PROVE  AtMostOne(S)
PROOF
  <1>1. CASE S = {}
    BY <1>1, FS_EmptySet DEF AtMostOne
  <1>2. CASE S # {}
    <2>1. PICK x \in S : S = {x}
      BY <1>2
    <2>2. Cardinality({x}) = 1
      BY FS_Singleton
    <2> QED BY <2>1, <2>2 DEF AtMostOne
  <1> QED BY <1>1, <1>2

LEMMA FactorsHeld ==
  ASSUME RowsOK, AllEarned
  PROVE  SessionsHaveFactors
PROOF BY DEF AllEarned, EarnedOK, RowsOK, SessionsOK, SessionsHaveFactors

LEMMA NothingTwice ==
  ASSUME TypeOK, HandlersOK, TurnsOK
  PROVE  SpentOnce
PROOF
  <1> SUFFICES ASSUME InTurn, NEW q \in Ids
               PROVE  /\ AtMostOne({r \in Requests : SignedInBy(r) /\ Op(r) \in CookieOps /\ call[r].cookie = q})
                      /\ AtMostOne({r \in Requests : SignedInBy(r) /\ Op(r) = "device-token" /\ call[r].device = q})
                      /\ AtMostOne({r \in Requests : Succeeded(r) /\ Op(r) \in CodeOps /\ call[r].code = q})
                      /\ AtMostOne({r \in Requests :
                           "trust" \in answer[r] /\ Op(r) \in PasswordSignIns /\ call[r].trust = q})
                      /\ \A i \in Items : AtMostOne({r \in Requests :
                           Succeeded(r) /\ Op(r) = "verify-backup" /\ call[r].code = q /\ call[r].item = i})
    BY DEF SpentOnce
  <1>1. ASSUME NEW r \in Requests, answer[r] # {}
        PROVE  pc[r] = "done"
    BY <1>1 DEF HandlersOK, HandlerOK, CallOK
  <1>2. \A r, s \in Requests, kind \in Kinds, i \in Items :
          Took(r, kind, q, i) /\ Took(s, kind, q, i) => r = s
    BY DEF TurnsOK, TakenOnce
  <1>3. 1 \in Items
    BY DEF Items
  <1>4. ASSUME NEW S, NEW kind \in Kinds, NEW i \in Items, \A r \in S : r \in Requests /\ Took(r, kind, q, i)
        PROVE  AtMostOne(S)
    <2>1. \A r, s \in S : r = s
      BY <1>2, <1>4
    <2> QED BY <2>1, OneAtMost
  <1>5. ASSUME NEW r \in Requests, NEW i \in Items
        PROVE  /\ SignedInBy(r) /\ Op(r) \in CookieOps /\ call[r].cookie = q => Took(r, "cookie", q, i)
               /\ SignedInBy(r) /\ Op(r) = "device-token" /\ call[r].device = q => Took(r, "device", q, i)
               /\ Succeeded(r) /\ Op(r) \in CodeOps /\ call[r].code = q => Took(r, "code", q, i)
               /\ "trust" \in answer[r] /\ Op(r) \in PasswordSignIns /\ call[r].trust = q =>
                    Took(r, "trust", q, i)
               /\ Succeeded(r) /\ Op(r) = "verify-backup" /\ call[r].code = q /\ call[r].item = i =>
                    Took(r, "backup", q, i)
    BY <1>1 DEF Took, SignedInBy, Succeeded, CodeOps
  <1>6. AtMostOne({r \in Requests : SignedInBy(r) /\ Op(r) \in CookieOps /\ call[r].cookie = q})
    BY <1>3, <1>4, <1>5 DEF Kinds
  <1>7. AtMostOne({r \in Requests : SignedInBy(r) /\ Op(r) = "device-token" /\ call[r].device = q})
    BY <1>3, <1>4, <1>5 DEF Kinds
  <1>8. AtMostOne({r \in Requests : Succeeded(r) /\ Op(r) \in CodeOps /\ call[r].code = q})
    BY <1>3, <1>4, <1>5 DEF Kinds
  <1>9. AtMostOne({r \in Requests :
          "trust" \in answer[r] /\ Op(r) \in PasswordSignIns /\ call[r].trust = q})
    BY <1>3, <1>4, <1>5 DEF Kinds
  <1>10. \A i \in Items : AtMostOne({r \in Requests :
           Succeeded(r) /\ Op(r) = "verify-backup" /\ call[r].code = q /\ call[r].item = i})
    BY <1>4, <1>5 DEF Kinds
  <1> QED BY <1>6, <1>7, <1>8, <1>9, <1>10

LEMMA AccountsKept ==
  ASSUME TypeOK, TurnsOK
  PROVE  AccountsStayUsable
PROOF
  <1> SUFFICES ASSUME InTurn, \A r \in Requests : ~InHandler(r)
               PROVE  /\ \A u \in Ids : db.user[u] # None =>
                           /\ AtMostOne(FactorsOf(u))
                           /\ db.user[u].twoFactor /\ ~config.otp => \E f \in FactorsOf(u) : f.verified
                      /\ \A w, v \in db.wallet : AddressOf[w.wallet] = AddressOf[v.wallet] => w.user = v.user
                      /\ \A p \in Phones : AtMostOne(Holders(p))
    BY DEF AccountsStayUsable
  <1>1. FactorsOK /\ FlagsOK /\ OneOfEach
    BY DEF TurnsOK
  <1>2. ASSUME NEW u \in Ids
        PROVE  AtMostOne(FactorsOf(u))
    <2>1. \A f, g \in FactorsOf(u) : f = g
      BY <1>1 DEF FactorsOf, FactorsOK
    <2> QED BY <2>1, OneAtMost
  <1>3. \A u \in Ids : db.user[u] # None /\ db.user[u].twoFactor /\ ~config.otp =>
          \E f \in FactorsOf(u) : f.verified
    BY <1>1, Idle DEF FlagsOK
  <1>4. ASSUME NEW p \in Phones
        PROVE  AtMostOne(Holders(p))
    <2>1. p # None
      BY NoneApart
    <2>2. \A u, v \in Holders(p) : u = v
      BY <1>1, <2>1 DEF Holders, OneOfEach
    <2> QED BY <2>2, OneAtMost
  <1> QED BY <1>1, <1>2, <1>3, <1>4 DEF OneOfEach

-----------------------------------------------------------------------------
(* The theorems                                                             *)

\* Users, sessions, codes, secrets, passkeys, wallets, accounts and device codes
\* keep their shape, and what a handler reads is a row or nothing.
THEOREM TypeCorrect ==
  Spec => []TypeOK
PROOF
  <1>1. IInv => TypeOK
    BY DEF IInv
  <1> QED BY <1>1, Invariance, PTL

\* However requests interleave, whoever is given a session has the factor for it,
\* and a sign-in that was turned into a challenge leaves none behind; and when
\* requests take turns, no challenge, device code, one-time code, nonce, backup
\* code or trusted-device cookie is accepted twice.
THEOREM SessionsEarned ==
  Spec => []SessionsAreEarned
PROOF
  <1>1. IInv => SessionsAreEarned
    BY FactorsHeld, NothingTwice DEF IInv, SessionsAreEarned
  <1> QED BY <1>1, Invariance, PTL

\* Between requests that take turns, enrolling, verifying, replacing and disabling
\* a second factor leave a user who has two factor on with one verified secret,
\* and signing up leaves an address and a phone number with one user.
THEOREM AccountsUsable ==
  Spec => []AccountsStayUsable
PROOF
  <1>1. IInv => AccountsStayUsable
    BY AccountsKept DEF IInv
  <1> QED BY <1>1, Invariance, PTL
=============================================================================
