------------------------------- MODULE EmailOtp -------------------------------
(***************************************************************************)
(* The email-otp plugin for one address: numeric codes that are stored     *)
(* with an attempt counter, `code:attempts`, in the `verification` table   *)
(* under the identifier email-otp:<purpose>:<email>.                       *)
(*                                                                         *)
(* As in VerificationTokens an action is one adapter call with the code up *)
(* to the next.  The plugin deletes and updates by identifier, never by    *)
(* row, and a delete does not say whether it removed anything.             *)
(*   memory      suspends = FALSE, updatesEveryMatch = FALSE               *)
(*   MongoDB     suspends = TRUE,  updatesEveryMatch = FALSE               *)
(*   SQLAlchemy  suspends = TRUE,  updatesEveryMatch = TRUE                *)
(* A code is named by the request that generated it; two generated codes   *)
(* are taken to differ.  Addresses do not interact.                        *)
(***************************************************************************)
EXTENDS Naturals, FiniteSets

CONSTANTS
  Requests,            \* calls of an endpoint; each is made once
  Configs,             \* the configurations that are looked at
  Allowed,             \* allowed_attempts
  CodeTTL,             \* expires_in
  MaxTime,             \* bound on the clock
  None                 \* no row, no code

Purposes == {"sign-in", "email-verification", "forget-password"}

Sends  == {"sign-in-send", "forget-password-send", "send", "create"}
Checks == {"sign-in-verify", "verify-email", "reset-password", "check"}

\* suspends:          an adapter call may suspend the handler
\* updatesEveryMatch: adapter.update writes all matching rows, not one
\* registered:        the address has a user at the start
\* reusesCodes:       resend_strategy = "reuse", with a readable store_otp
\* disableSignUp:     disable_sign_up
\* purposes:          the purposes that codes are asked for
\* operations, calls: the endpoints that are called, and how many calls are made
Config == [suspends : BOOLEAN, updatesEveryMatch : BOOLEAN, registered : BOOLEAN,
           reusesCodes : BOOLEAN, disableSignUp : BOOLEAN,
           purposes : SUBSET Purposes, operations : SUBSET (Sends \cup Checks),
           calls : Nat]

VARIABLES
  config,     \* the configuration
  now,        \* int(time.time())
  codes,      \* codes[p][q]: the row request q inserted for purpose p, or None
  user,       \* the address's user: "none", "unverified" or "verified"
  passwords,  \* passwords[i]: who set the password of account i, or None
  sessions,   \* requests that were given a session
  pc, call,   \* what each request does next, and its endpoint and body
  held,       \* held[r]: the row request r read
  seen,       \* seen[r]: the user, or the account, request r read
  delivered,  \* delivered[p]: codes that were mailed for p
  latest,     \* latest[p]: the code last stored for p (history)
  accepted,   \* accepted[c]: requests that were let in with code c (history)
  failed      \* failed[c]: guesses that were compared with c and refused (history)

server == <<user, passwords, sessions>>
history == <<latest, accepted, failed>>
vars == <<config, now, codes, server, pc, call, held, seen, delivered, history>>

CodeRow == [code : Requests, attempts : 0 .. Allowed, expiresAt : Nat]
Call == [op : Sends \cup Checks, purpose : Purposes, code : Requests \cup {None}]

\* Requests are finitely many, and None and "initial" are names of their own.
ASSUME ConstantsAssumption ==
  /\ Configs \subseteq Config
  /\ Allowed \in Nat /\ CodeTTL \in Nat /\ MaxTime \in Nat
  /\ IsFiniteSet(Requests)
  /\ "initial" \notin Requests
  /\ None \notin Requests \cup CodeRow \cup Call

PCs == {"idle", "gate", "reuse", "extend", "clear", "insert", "lookup", "unsend",
        "deliver", "find", "drop", "bump", "spend", "user", "account", "write",
        "mark", "session", "done"}

TypeOK ==
  /\ config \in Configs
  /\ now \in 0 .. MaxTime
  /\ codes \in [Purposes -> [Requests -> CodeRow \cup {None}]]
  /\ user \in {"none", "unverified", "verified"}
  /\ passwords \in [Requests \cup {"initial"} -> Requests \cup {"initial", None}]
  /\ sessions \subseteq Requests
  /\ pc \in [Requests -> PCs]
  /\ call \in [Requests -> Call \cup {None}]
  /\ held \in [Requests -> CodeRow \cup {None}]
  /\ seen \in [Requests ->
        {"none", "unverified", "verified", "initial", None} \cup Requests]
  /\ delivered \in [Purposes -> SUBSET Requests]
  /\ latest \in [Purposes -> Requests \cup {None}]
  /\ accepted \in [Requests -> SUBSET Requests]
  /\ failed \in [Requests -> 0 .. Cardinality(Requests)]

Init ==
  /\ config \in Configs
  /\ now = 0
  /\ codes = [p \in Purposes |-> [q \in Requests |-> None]]
  /\ user = IF config.registered THEN "unverified" ELSE "none"
  /\ passwords = [i \in Requests \cup {"initial"} |->
       IF config.registered /\ i = "initial" THEN "initial" ELSE None]
  /\ sessions = {}
  /\ pc = [r \in Requests |-> "idle"]
  /\ call = [r \in Requests |-> None]
  /\ held = [r \in Requests |-> None]
  /\ seen = [r \in Requests |-> None]
  /\ delivered = [p \in Purposes |-> {}]
  /\ latest = [p \in Purposes |-> None]
  /\ accepted = [r \in Requests |-> {}]
  /\ failed = [r \in Requests |-> 0]

-----------------------------------------------------------------------------
InHandler(r) == pc[r] \notin {"idle", "done"}

\* Without suspension a handler runs until it awaits send_otp, which is the
\* application's and may take any time.
Scheduled(r) ==
  config.suspends \/ \A q \in Requests \ {r} : ~InHandler(q) \/ pc[q] = "deliver"

At(r, at) == pc[r] = at /\ Scheduled(r)
Goto(r, to) == pc' = [pc EXCEPT ![r] = to]

Op(r) == call[r].op
Purpose(r) == call[r].purpose

RowsOf(p) == {q \in Requests : codes[p][q] # None}
Expired(row) == row.expiresAt < now
Exhausted(row) == row.attempts >= Allowed

DeleteAll(p) == codes' = [codes EXCEPT ![p] = [q \in Requests |-> None]]

\* adapter.update by identifier; Patch(row) is the row with the new values.
UpdateRows(p, Patch(_)) ==
  IF config.updatesEveryMatch
  THEN codes' = [codes EXCEPT ![p] =
         [q \in Requests |-> IF @[q] = None THEN None ELSE Patch(@[q])]]
  ELSE \/ RowsOf(p) = {} /\ UNCHANGED codes
       \/ \E q \in RowsOf(p) :
            codes' = [codes EXCEPT ![p][q] = Patch(codes[p][q])]

-----------------------------------------------------------------------------
(* Sending a code                                                           *)

\* /sign-in/email-otp asks for a user if sign-up is disabled, and
\* /forget-password/email-otp always.
Gated(op) ==
  \/ op = "sign-in-send" /\ config.disableSignUp
  \/ op = "forget-password-send"

\* The call of request r arrives.
Arrives(r) ==
  At(r, "idle") /\ Cardinality({q \in Requests : pc[q] # "idle"}) < config.calls

AfterGate == IF config.reusesCodes THEN "reuse" ELSE "clear"

PurposesOf(op) ==
  config.purposes \cap
    (IF op \in {"sign-in-send", "sign-in-verify"} THEN {"sign-in"}
     ELSE IF op \in {"forget-password-send", "reset-password"} THEN {"forget-password"}
     ELSE IF op = "verify-email" THEN {"email-verification"}
     ELSE Purposes)

BeginSend(r, op, p) ==
  /\ Arrives(r)
  /\ Goto(r, IF Gated(op) THEN "gate" ELSE AfterGate)
  /\ call' = [call EXCEPT ![r] = [op |-> op, purpose |-> p, code |-> None]]
  /\ UNCHANGED <<config, now, codes, server, held, seen, delivered, history>>

Gate(r) ==
  /\ At(r, "gate")
  /\ Goto(r, IF user = "none" THEN "done" ELSE AfterGate)
  /\ UNCHANGED <<config, now, codes, server, call, held, seen, delivered, history>>

\* _try_reuse_otp
TryReuse(r) ==
  /\ At(r, "reuse")
  /\ \/ /\ RowsOf(Purpose(r)) = {}
        /\ Goto(r, "clear")
        /\ UNCHANGED held
     \/ \E q \in RowsOf(Purpose(r)) :
          LET row == codes[Purpose(r)][q] IN
          /\ held' = [held EXCEPT ![r] = row]
          /\ Goto(r, IF Expired(row) \/ Exhausted(row) THEN "clear" ELSE "extend")
  /\ UNCHANGED <<config, now, codes, server, call, seen, delivered, history>>

\* /send-verification-otp looks the user up once the code is stored.
AfterStoring(r) == IF Op(r) = "send" THEN "lookup" ELSE "deliver"

ExtendExpiry(r) ==
  LET Patch(row) == [row EXCEPT !.expiresAt = now + CodeTTL] IN
  /\ At(r, "extend")
  /\ Goto(r, AfterStoring(r))
  /\ UpdateRows(Purpose(r), Patch)
  /\ UNCHANGED <<config, now, server, call, held, seen, delivered, history>>

\* Mutant of ClearPrior: the pending code is left where it is.
ClearNothing(r) ==
  /\ At(r, "clear")
  /\ Goto(r, "insert")
  /\ UNCHANGED <<config, now, codes, server, call, held, seen, delivered, history>>

ClearPrior(r) ==
  /\ At(r, "clear")
  /\ Goto(r, "insert")
  /\ DeleteAll(Purpose(r))
  /\ UNCHANGED <<config, now, server, call, held, seen, delivered, history>>

\* Mutant of InsertCode: the value is stored without the attempt counter.
InsertCodeUncounted(r) ==
  LET row == [code |-> r, attempts |-> None, expiresAt |-> now + CodeTTL] IN
  /\ At(r, "insert")
  /\ Goto(r, AfterStoring(r))
  /\ codes' = [codes EXCEPT ![Purpose(r)][r] = row]
  /\ held' = [held EXCEPT ![r] = row]
  /\ latest' = [latest EXCEPT ![Purpose(r)] = r]
  /\ UNCHANGED <<config, now, server, call, seen, delivered, accepted, failed>>

InsertCode(r) ==
  LET row == [code |-> r, attempts |-> 0, expiresAt |-> now + CodeTTL] IN
  /\ At(r, "insert")
  /\ Goto(r, AfterStoring(r))
  /\ codes' = [codes EXCEPT ![Purpose(r)][r] = row]
  /\ held' = [held EXCEPT ![r] = row]
  /\ latest' = [latest EXCEPT ![Purpose(r)] = r]
  /\ UNCHANGED <<config, now, server, call, seen, delivered, accepted, failed>>

SendLookup(r) ==
  LET shouldSend == Purpose(r) = "sign-in" /\ ~config.disableSignUp IN
  /\ At(r, "lookup")
  /\ Goto(r, IF user = "none" /\ ~shouldSend THEN "unsend" ELSE "deliver")
  /\ UNCHANGED <<config, now, codes, server, call, held, seen, delivered, history>>

Unsend(r) ==
  /\ At(r, "unsend")
  /\ Goto(r, "done")
  /\ DeleteAll(Purpose(r))
  /\ UNCHANGED <<config, now, server, call, held, seen, delivered, history>>

Deliver(r) ==
  /\ At(r, "deliver")
  /\ Goto(r, "done")
  /\ delivered' = [delivered EXCEPT ![Purpose(r)] = @ \cup {held[r].code}]
  /\ UNCHANGED <<config, now, codes, server, call, held, seen, history>>

-----------------------------------------------------------------------------
(* Checking a code                                                          *)

BeginCheck(r, op, p, c) ==
  /\ Arrives(r)
  /\ Goto(r, "find")
  /\ call' = [call EXCEPT ![r] = [op |-> op, purpose |-> p, code |-> c]]
  /\ UNCHANGED <<config, now, codes, server, held, seen, delivered, history>>

AfterFindAnything(r, row) ==
  IF Expired(row) \/ Exhausted(row) THEN "drop"
  ELSE IF Op(r) = "check" THEN "done"
  ELSE "spend"

AfterFind(r, row) ==
  IF Expired(row) \/ Exhausted(row) THEN "drop"
  ELSE IF row.code # call[r].code THEN "bump"
  ELSE IF Op(r) = "check" THEN "done"
  ELSE "spend"

\* The read of _consume_otp and of _check_verification_otp.
FindCode(r) ==
  /\ At(r, "find")
  /\ \/ /\ RowsOf(Purpose(r)) = {}
        /\ Goto(r, "done")
        /\ UNCHANGED held
     \/ \E q \in RowsOf(Purpose(r)) :
          /\ held' = [held EXCEPT ![r] = codes[Purpose(r)][q]]
          /\ Goto(r, AfterFind(r, codes[Purpose(r)][q]))
  /\ UNCHANGED <<config, now, codes, server, call, seen, delivered, history>>

DropCode(r) ==
  /\ At(r, "drop")
  /\ Goto(r, "done")
  /\ DeleteAll(Purpose(r))
  /\ UNCHANGED <<config, now, server, call, held, seen, delivered, history>>

\* A wrong code: the value that was read is written back with one attempt more.
BumpAttempts(r) ==
  LET Patch(row) == [row EXCEPT !.code = held[r].code,
                                !.attempts = held[r].attempts + 1] IN
  /\ At(r, "bump")
  /\ Goto(r, "done")
  /\ UpdateRows(Purpose(r), Patch)
  /\ failed' = [failed EXCEPT ![held[r].code] = @ + 1]
  /\ UNCHANGED <<config, now, server, call, held, seen, delivered, latest, accepted>>

SpendCode(r) ==
  /\ At(r, "spend")
  /\ Goto(r, "user")
  /\ DeleteAll(Purpose(r))
  /\ accepted' = [accepted EXCEPT ![held[r].code] = @ \cup {r}]
  /\ UNCHANGED <<config, now, server, call, held, seen, delivered, latest, failed>>

-----------------------------------------------------------------------------
(* What an accepted code does                                               *)

FindUser(r) ==
  /\ At(r, "user")
  /\ seen' = [seen EXCEPT ![r] = user]
  /\ \/ Op(r) = "sign-in-verify" /\ user = "none" /\ Goto(r, "write")
     \/ Op(r) = "sign-in-verify" /\ user # "none" /\ Goto(r, "session")
     \/ Op(r) = "verify-email" /\ user # "none" /\ Goto(r, "mark")
     \/ Op(r) = "reset-password" /\ user # "none" /\ Goto(r, "account")
     \/ Op(r) # "sign-in-verify" /\ user = "none" /\ Goto(r, "done")
  /\ UNCHANGED <<config, now, codes, server, call, held, delivered, history>>

\* The unique index on user.email refuses the loser of two sign-ups.
CreateUser(r) ==
  /\ At(r, "write") /\ Op(r) = "sign-in-verify"
  /\ Goto(r, IF user = "none" THEN "session" ELSE "done")
  /\ user' = IF user = "none" THEN "verified" ELSE user
  /\ UNCHANGED <<config, now, codes, passwords, sessions, call, held, seen, delivered, history>>

CreateSession(r) ==
  /\ At(r, "session")
  /\ Goto(r, "done")
  /\ sessions' = sessions \cup {r}
  /\ UNCHANGED <<config, now, codes, user, passwords, call, held, seen, delivered, history>>

\* emailVerified: /verify-email, and the end of a reset.
MarkVerified(r) ==
  /\ At(r, "mark")
  /\ Goto(r, "done")
  /\ user' = "verified"
  /\ UNCHANGED <<config, now, codes, passwords, sessions, call, held, seen, delivered, history>>

\* The account a reset is to update, or None: it will create one.
FindAccount(r) ==
  LET there == {i \in DOMAIN passwords : passwords[i] # None} IN
  /\ At(r, "account")
  /\ Goto(r, "write")
  /\ \/ there = {} /\ seen' = [seen EXCEPT ![r] = None]
     \/ \E i \in there : seen' = [seen EXCEPT ![r] = i]
  /\ UNCHANGED <<config, now, codes, server, call, held, delivered, history>>

\* Mutant of WritePassword: the handler returns after it.
WritePasswordOnly(r) ==
  LET i == IF seen[r] = None THEN r ELSE seen[r] IN
  /\ At(r, "write") /\ Op(r) = "reset-password"
  /\ Goto(r, "done")
  /\ passwords' = [passwords EXCEPT ![i] = r]
  /\ UNCHANGED <<config, now, codes, user, sessions, call, held, seen, delivered, history>>

\* The user was read before the account; it is marked if it was unverified
\* then.  Nothing but a code makes it verified, so reading it now at worst
\* leaves out a write that changes nothing.
WritePassword(r) ==
  LET i == IF seen[r] = None THEN r ELSE seen[r] IN
  /\ At(r, "write") /\ Op(r) = "reset-password"
  /\ Goto(r, IF user = "verified" THEN "done" ELSE "mark")
  /\ passwords' = [passwords EXCEPT ![i] = r]
  /\ UNCHANGED <<config, now, codes, user, sessions, call, held, seen, delivered, history>>

-----------------------------------------------------------------------------
Tick ==
  /\ now < MaxTime
  /\ now' = now + 1
  /\ UNCHANGED <<config, codes, server, pc, call, held, seen, delivered, history>>

Handle(r) ==
  \/ Gate(r) \/ TryReuse(r) \/ ExtendExpiry(r) \/ ClearPrior(r) \/ InsertCode(r)
  \/ SendLookup(r) \/ Unsend(r) \/ Deliver(r)
  \/ FindCode(r) \/ DropCode(r) \/ BumpAttempts(r) \/ SpendCode(r)
  \/ FindUser(r) \/ CreateUser(r) \/ CreateSession(r) \/ MarkVerified(r)
  \/ FindAccount(r) \/ WritePassword(r)

\* A guess is a code that was mailed for the purpose, or none of them.
Next ==
  \/ Tick
  \/ \E r \in Requests : Handle(r)
  \/ \E r \in Requests, op \in Sends \cap config.operations :
       \E p \in PurposesOf(op) : BeginSend(r, op, p)
  \/ \E r \in Requests, op \in Checks \cap config.operations :
       \E p \in PurposesOf(op), c \in (UNION {delivered[q] : q \in Purposes}) \cup {None} :
         BeginCheck(r, op, p, c)

Spec == Init /\ [][Next]_vars

\* The event loop resumes every suspended coroutine, and send_otp returns.
FairSpec == Spec /\ \A r \in Requests : WF_vars(Handle(r))

-----------------------------------------------------------------------------
(* Properties                                                               *)

\* A code lets one request in, however often it is presented, resent or
\* guessed at in between, as long as handlers do not interleave.
CodeAcceptedOnce ==
  ~config.suspends =>
    \A c, q, r \in Requests : {q, r} \subseteq accepted[c] => q = r

\* No more than allowed_attempts wrong guesses are ever compared with a code.
FailuresBounded ==
  ~config.suspends => \A c \in Requests : failed[c] <= Allowed

\* A new code replaces the pending one: once a later code is stored for the
\* purpose, the earlier one lets nobody in.
NewestCodeOnly ==
  [][\A c, r \in Requests :
       r \in accepted'[c] \ accepted[c] /\ ~config.suspends =>
         latest[Purpose(r)] = c]_vars

\* Resending never gives a locked-out code a second life: with all its
\* attempts used up a code lets nobody in.
LockedOutForGood ==
  [][\A c \in Requests :
       failed[c] >= Allowed /\ ~config.suspends => accepted'[c] = accepted[c]]_vars

LetIn(r, op) ==
  /\ Op(r) = op
  /\ call[r].code \in delivered[Purpose(r)]
  /\ r \in accepted[call[r].code]

\* Whatever happens to the address goes back to a code that was mailed to it
\* for that very purpose, over any database and with any interleaving.
EffectsWereEarned ==
  /\ \A r \in sessions : LetIn(r, "sign-in-verify")
  /\ \A i \in DOMAIN passwords :
       passwords[i] \in Requests => LetIn(passwords[i], "reset-password")
  /\ user = "verified" =>
       \E r \in Requests : \E op \in Checks \ {"check"} :
         call[r] # None /\ LetIn(r, op)

\* A code is accepted once, survives a bounded number of guesses, and does
\* nothing but what it was mailed for.
CodesAreSpent == CodeAcceptedOnce /\ FailuresBounded /\ EffectsWereEarned

\* A code that was replaced or locked out never comes back.
StaleCodesStayDead == NewestCodeOnly /\ LockedOutForGood

\* What a code can do it does once, and a code that is dead is dead for good.
\* (Nothing is accepted yet in an initial state.)
CodesDieForGood == [][CodesAreSpent']_vars /\ StaleCodesStayDead

\* A reset that was let in is never half done: it ends with the password
\* changed and the address verified.
ResetCompletes ==
  \A r \in Requests :
    pc[r] = "account" ~>
      /\ pc[r] = "done"
      /\ user = "verified"
      /\ \E i \in DOMAIN passwords : passwords[i] \in Requests
=============================================================================
