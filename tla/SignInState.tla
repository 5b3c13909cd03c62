---------------------------- MODULE SignInState ----------------------------
(***************************************************************************)
(* What the sign-in plugins share: users, sessions and verification rows,  *)
(* the requests that work on them, and the one-time codes.  TwoFactor,     *)
(* PhoneNumber, SignedChallenges and DeviceCodes add their endpoints;      *)
(* SignIns puts them together and states what must hold.                   *)
(*                                                                         *)
(* A row, and any secret in it, is named by the request that made it; rows *)
(* that are there from the start are named by their user.  A code, a nonce *)
(* or a challenge is right when it names the row it is compared with.      *)
(* Reads up to the first write are one step, and every write is a step.    *)
(***************************************************************************)
EXTENDS Naturals, FiniteSets

CONSTANTS
  Requests,       \* calls of an endpoint; each is made once
  Users,          \* the users at the start
  Phones,         \* phone numbers
  Wallets,        \* wallets: an address on a chain
  AddressOf,      \* [Wallets -> address]
  Seeds,          \* the tables at the start of each scenario
  Calls,          \* the calls of each scenario
  Configs,        \* the configurations that are looked at
  CodeLife,       \* how long a code, a nonce or a challenge is valid
  Allowed,        \* allowed attempts at a code
  Interval,       \* polling interval of a device
  MaxTime,        \* bound on the clock
  None

Ids   == Requests \cup Users
Times == 0 .. MaxTime
Items == 1 .. 2   \* the backup codes of a set (ten in the code)

UserRow         == [twoFactor : BOOLEAN, phone : Phones \cup {None}, phoneVerified : BOOLEAN]
SessionRow      == [id : Ids, user : Ids]
Purposes        == {"trust", "2fa", "2fa-otp", "phone", "phone-reset", "siwe", "passkey"}
\* identifier: what the row is for; holder: the user in its value, if any
VerificationRow == [id : Ids, identifier : Purposes \X (Ids \cup Phones \cup Wallets),
                    holder : Ids \cup {None}, tries : Nat, expiresAt : Nat]
TwoFactorRow    == [id : Ids, user : Ids, verified : BOOLEAN, backup : SUBSET (Ids \X Items)]
PasskeyRow      == [id : Ids, user : Ids, counter : Nat]
WalletRow       == [id : Ids, wallet : Wallets, user : Ids]
AccountRow      == [id : Ids, user : Ids, wallet : Wallets \cup {None},
                    password : Ids \cup {None}]
DeviceRow       == [id : Ids, user : Ids \cup {None}, lastPolled : Nat \cup {None},
                    status : {"pending", "approved", "denied"}, expiresAt : Nat]

\* suspends:  an adapter call may suspend the handler
\* otp, skips, checksPhone: two factor with send_otp, with
\*            skip_verification_on_enable; phone with require_verification
\* requests, scenario: how many requests are made, and the calls they make
Config == [suspends : BOOLEAN, otp : BOOLEAN, skips : BOOLEAN, checksPhone : BOOLEAN,
           requests : Nat, scenario : DOMAIN Calls]

\* The endpoints.
PasswordSignIns == {"sign-in", "phone-sign-in"}
SecondFactors   == {"verify-totp", "verify-otp", "verify-backup"}
PhoneOps        == {"phone-sign-in", "phone-send", "phone-verify", "phone-request-reset",
                    "phone-reset"}
WalletOps       == {"siwe-nonce", "siwe-verify"}
Operations ==
  {"sign-in", "send-otp", "enable", "disable", "generate-backup",
   "passkey-register-options", "passkey-register", "passkey-authenticate-options",
   "passkey-authenticate", "passkey-delete", "passkey-update",
   "device-code", "device-token", "device-verify", "device-approve", "device-deny"}
  \cup SecondFactors \cup PhoneOps \cup WalletOps

\* What a handler does next, once it has read.
Stages ==
  {"session", "consume", "clear", "mint", "drop-code", "miscount", "spend",
   "intercept", "rotate", "trust", "tear-down", "challenge", "strike", "flag", "verified",
   "valid", "existing", "replace", "enrol", "lower", "drop-factor", "revoke", "renew",
   "resolve-phone", "sign-up", "verify-phone", "echo", "find-account", "set-password",
   "burn", "resolve-wallet", "wallet-user", "wallet-row", "wallet-account",
   "passkey-row", "counter", "drop-passkey", "poll", "drop-device", "claim", "decide"}

\* who:      the user, phone number or wallet the body names
\* session, cookie, trust: requests whose session, challenge or trusted-device
\*           cookie is sent along
\* device:   the device code, user code or passkey that is meant
\* code:     the code, nonce, challenge or password; item: which backup code
\* count:    the authenticator's counter
\* remember: trust_device; silent: disable_session
\* right:    the password, signature or client id is right
Call == [op : Operations, who : Users \cup Phones \cup Wallets \cup {None},
         session : Ids \cup {None}, cookie : Ids \cup {None}, trust : Ids \cup {None},
         device : Ids \cup {None}, code : Ids \cup {None}, item : Items, count : Nat,
         remember : BOOLEAN, silent : BOOLEAN, right : BOOLEAN]

\* What the body of each endpoint names, if anything.
Named(c) ==
  CASE c.op = "sign-in"    -> c.who \in Users
    [] c.op \in PhoneOps   -> c.who \in Phones
    [] c.op \in WalletOps  -> c.who \in Wallets
    [] OTHER               -> TRUE

Database ==
  [user : [Ids -> UserRow \cup {None}], session : SUBSET SessionRow,
   verification : SUBSET VerificationRow, twoFactor : SUBSET TwoFactorRow,
   passkey : SUBSET PasskeyRow, wallet : SUBSET WalletRow, account : SUBSET AccountRow,
   device : SUBSET DeviceRow]

\* What the tables hold at the start: the users, with what each has signed in
\* with or enrolled, and records of devices that they trusted.
Seeded(tables) ==
  /\ tables \in Database
  /\ \A i \in Ids : tables.user[i] # None <=> i \in Users
  /\ \A u, v \in Users : tables.user[u].phone = tables.user[v].phone =>
       u = v \/ tables.user[u].phone = None
  /\ \A x \in tables.session \cup tables.twoFactor \cup tables.passkey :
       x.id \in Users /\ x.user = x.id
  /\ \A f, g \in tables.twoFactor : f.id = g.id => f = g
  /\ \A f \in tables.twoFactor : f.backup \subseteq {f.id} \X Items
  /\ \A u \in Users : tables.user[u].twoFactor =>
       \E f \in tables.twoFactor : f.user = u /\ f.verified
  /\ \A w \in tables.wallet : w.user \in Users
  /\ \A w, v \in tables.wallet : AddressOf[w.wallet] = AddressOf[v.wallet] => w.user = v.user
  /\ \A v \in tables.verification :
       v.id \in Users /\ v.identifier = <<"trust", v.id>> /\ v.holder = v.id
  /\ tables.device = {}

\* The rows that a handler keeps at hand.
Rememberable == VerificationRow \cup TwoFactorRow \cup PasskeyRow \cup AccountRow \cup DeviceRow

ASSUME ConstantsAssumption ==
  /\ Configs \subseteq Config
  /\ \A s \in DOMAIN Calls :
       Seeded(Seeds[s]) /\ \A c \in Calls[s] : c \in Call /\ Named(c)
  /\ Requests \cap Users = {}
  /\ CodeLife \in Nat /\ Allowed \in Nat /\ Interval \in Nat /\ MaxTime \in Nat

ASSUME NoneAssumption ==
  None \notin Ids \cup Phones \cup Wallets \cup Nat \cup UserRow \cup WalletRow \cup Call
                 \cup Rememberable

VARIABLES
  config,    \* the configuration
  now,       \* int(time.time())
  db,        \* the tables
  pc, call,  \* what each request does next; its cookies and body
  mem,       \* mem[r]: the user the handler has read, whether two factor was on,
             \*         and the row it will need
  answer     \* answer[r]: what the client got: "session", "code", "ok", ...

vars == <<config, now, db, pc, call, mem, answer>>

TypeOK ==
  /\ config \in Configs
  /\ now \in Times
  /\ db \in Database
  /\ pc \in [Requests -> {"idle", "done"} \cup Operations \cup Stages]
  /\ call \in [Requests -> Calls[config.scenario] \cup {None}]
  /\ mem \in [Requests -> [user : Ids \cup {None}, row : Rememberable \cup {None},
                            enrolled : BOOLEAN]]
  /\ answer \in [Requests -> SUBSET {"session", "code", "challenge", "trust", "ok"}]

Init ==
  /\ config \in Configs
  /\ now = 0
  /\ db = Seeds[config.scenario]
  /\ pc = [r \in Requests |-> "idle"]
  /\ call = [r \in Requests |-> None]
  /\ mem = [r \in Requests |-> [user |-> None, row |-> None, enrolled |-> FALSE]]
  /\ answer = [r \in Requests |-> {}]

-----------------------------------------------------------------------------
(* Requests and the adapter                                                 *)

InHandler(r) == pc[r] \notin {"idle", "done"}
Scheduled(r) == config.suspends \/ \A q \in Requests \ {r} : ~InHandler(q)

At(r, at)   == pc[r] = at /\ Scheduled(r)
Goto(r, to) == pc' = [pc EXCEPT ![r] = to]
Op(r)       == call[r].op
User(r)     == mem[r].user

Answers(r, what) == Goto(r, "done") /\ answer' = [answer EXCEPT ![r] = what]

\* A handler reads and goes on, is refused, writes and goes on, or writes and answers.
Reads(r, to, user, row) ==
  /\ Goto(r, to)
  /\ mem' = [mem EXCEPT ![r] = [user |-> user, row |-> row,
       enrolled |-> user # None /\ db.user[user].twoFactor]]
  /\ UNCHANGED <<config, now, db, call, answer>>
Refuse(r) == Goto(r, "done") /\ UNCHANGED <<config, now, db, call, mem, answer>>
Writes(r, to, tables) ==
  /\ Goto(r, to)
  /\ db' = tables
  /\ UNCHANGED <<config, now, call, mem, answer>>
Finishes(r, what, tables) ==
  /\ Answers(r, what)
  /\ db' = tables
  /\ UNCHANGED <<config, now, call, mem>>

FindOne(S) == IF S = {} THEN {None} ELSE S

\* adapter.update and adapter.delete of what an identifier matches: one row on
\* some backends, every row on others.
Matched(S) == {{x} : x \in S} \cup {S}

\* What was handed out earlier can be sent along; so can what was there at the start.
Got(q, what) == q \in Requests => what \in answer[q]

Presentable(c) ==
  /\ Got(c.session, "session") /\ Got(c.cookie, "challenge") /\ Got(c.trust, "trust")
  /\ {c.code, c.device} \cap Requests \subseteq {q \in Requests : pc[q] = "done"}

Begin(r, c) ==
  /\ At(r, "idle")
  /\ Cardinality({q \in Requests : pc[q] # "idle"}) < config.requests
  /\ Presentable(c)
  /\ call' = [call EXCEPT ![r] = c]
  /\ Goto(r, c.op)
  /\ UNCHANGED <<config, now, db, mem, answer>>

\* ctx.session: the signed-in user, if the cookie's session is still there.
SignedIn(r) == {s.user : s \in {s \in db.session : s.id = call[r].session}}

-----------------------------------------------------------------------------
(* Sessions and one-time codes                                              *)

\* create_session, and where the handler goes from there.
CreateSession(r) ==
  LET tables == [db EXCEPT !.session = @ \cup {[id |-> r, user |-> User(r)]}] IN
  /\ At(r, "session")
  /\ CASE Op(r) \in PasswordSignIns -> Writes(r, "intercept", tables)
       [] Op(r) \in SecondFactors \cup {"passkey-authenticate"} -> Writes(r, "consume", tables)
       [] Op(r) = "device-token" -> Writes(r, "drop-device", tables)
       [] OTHER -> Finishes(r, {"session"}, tables)

Rows(identifier) == {v \in db.verification : v.identifier = identifier}

\* The challenge behind the cookie is deleted once it has been met.
Consume(r) ==
  LET kind   == IF Op(r) \in SecondFactors THEN "2fa" ELSE "passkey"
      tables == [db EXCEPT !.verification = @ \ Rows(<<kind, call[r].cookie>>)] IN
  /\ At(r, "consume")
  /\ IF Op(r) = "passkey-register" THEN Finishes(r, {"ok"}, tables)
     ELSE IF Op(r) \in SecondFactors /\ call[r].remember THEN Writes(r, "trust", tables)
     ELSE Finishes(r, {"session"}, tables)

NewRow(r, identifier, holder) ==
  [id |-> r, identifier |-> identifier, holder |-> holder, tries |-> 0,
   expiresAt |-> now + CodeLife]

\* Under which identifier a code is kept: for a phone number and a purpose, or
\* for the challenge or the session that a second factor is for.
Purpose(r) ==
  IF Op(r) \in {"send-otp", "verify-otp"}
  THEN <<"2fa-otp", IF call[r].session # None THEN call[r].session ELSE call[r].cookie>>
  ELSE IF Op(r) \in {"phone-request-reset", "phone-reset"}
  THEN <<"phone-reset", call[r].who>> ELSE <<"phone", call[r].who>>

\* A new code replaces the others of its purpose, and is sent.
ClearCodes(r) ==
  /\ At(r, "clear")
  /\ Writes(r, "mint", [db EXCEPT !.verification = @ \ Rows(Purpose(r))])

MintCode(r) ==
  /\ At(r, "mint")
  /\ Finishes(r, {"code"},
       [db EXCEPT !.verification = @ \cup {NewRow(r, Purpose(r), None)}])

\* A code is looked up: it is gone, is to be deleted, has failed or is right.
CheckCode(r, user) ==
  \E row \in FindOne(Rows(Purpose(r))) :
    IF row = None THEN Refuse(r)
    ELSE Reads(r, IF row.expiresAt < now \/ row.tries >= Allowed THEN "drop-code"
                  ELSE IF call[r].code = row.id THEN "spend" ELSE "miscount",
               user, row)

DropCode(r) ==
  /\ At(r, "drop-code")
  /\ Finishes(r, {}, [db EXCEPT !.verification = @ \ Rows(Purpose(r))])

\* The count that was read is written back, to one row or to all.
CountFailure(r) ==
  /\ At(r, "miscount")
  /\ \E hit \in Matched(Rows(Purpose(r))) :
       Finishes(r, {}, [db EXCEPT !.verification =
         (@ \ hit) \cup {[v EXCEPT !.tries = mem[r].row.tries + 1] : v \in hit}])

\* Where a handler goes once its code is spent.
AfterSpending(r) ==
  CASE Op(r) = "verify-otp"   -> IF mem[r].enrolled THEN "valid" ELSE "flag"
    [] Op(r) = "phone-verify" -> "resolve-phone"
    [] Op(r) = "phone-reset"  -> "find-account"

SpendCode(r) ==
  /\ At(r, "spend")
  /\ Writes(r, AfterSpending(r), [db EXCEPT !.verification = @ \ Rows(Purpose(r))])
=============================================================================
