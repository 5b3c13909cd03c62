-------------------------- MODULE VerificationTokens --------------------------
(***************************************************************************)
(* The four flows of the core that hand out a one-time token through a row *)
(* of the `verification` table and take it back: /verify-email,            *)
(* /reset-password, /magic-link/verify and /one-time-token/verify.         *)
(*                                                                         *)
(* A handler is a coroutine; every adapter call is a point where it may be *)
(* suspended.  Each request has a program counter and keeps what it read,  *)
(* and each action is one adapter call with the code up to the next one.   *)
(*                                                                         *)
(* A configuration, chosen once, says what is behind the adapter and which *)
(* options are set:                                                        *)
(*   memory      suspends = FALSE, atomic = TRUE                           *)
(*   MongoDB     suspends = TRUE,  atomic = TRUE                           *)
(*   SQLAlchemy  suspends = TRUE,  atomic = FALSE                          *)
(* The memory adapter has no await of its own, so a handler over it runs   *)
(* to its end; SQLAlchemy's consume_one is a SELECT and then a DELETE.     *)
(***************************************************************************)
EXTENDS Naturals

CONSTANTS
  Tokens,              \* random token values
  Requests,            \* calls of a redeeming endpoint; each is made once
  Emails,              \* e-mail addresses; an account is named by its address
  Configs,             \* the configurations that are looked at
  Registered,          \* addresses that start with an account and a password
  TokenTTL,            \* seconds a verification row is valid
  SessionTTL,          \* options.session.expires_in
  MaxTime,             \* bound on the clock
  NoRow                \* "no row": what find_one returns for no match

AllKinds == {"verify-email", "reset", "magic-link", "one-time-token"}

\* suspends:       an adapter call may suspend the handler
\* atomic:         consume_one is one indivisible database operation
\* signUpDisabled: option disable_sign_up of the magic-link plugin
\* endpoints:      the redeeming endpoints that are mounted
Config == [suspends : BOOLEAN, atomic : BOOLEAN, signUpDisabled : BOOLEAN,
           endpoints : SUBSET AllKinds]

ASSUME ConstantsAssumption ==
  /\ Configs \subseteq Config
  /\ Registered \subseteq Emails
  /\ TokenTTL \in Nat /\ SessionTTL \in Nat /\ MaxTime \in Nat

Session == [by : Requests, email : Emails, expiresAt : Nat]

\* `about` is what the row is for: an address, or a session for one-time-token.
Row == [kind : AllKinds, about : Emails \cup Session, expiresAt : Nat]

Call == [endpoint : AllKinds, token : Tokens]

\* The passwords accounts start with were set by no request.
ASSUME InitialPasswordAssumption == "initial" \notin Requests /\ "none" \notin Requests

ASSUME NoRowAssumption == NoRow \notin Row \cup Call \cup Requests

VARIABLES
  config,     \* the configuration
  now,        \* int(time.time())
  rows,       \* the verification table: rows[t] is the row of token t
  minted,     \* tokens generated so far (they are random, never repeated)
  users,      \* users[e]: the account of address e and its emailVerified
  password,   \* password[e]: the request that set it, "initial" or "none"
  sessions,   \* the session table
  pc,         \* pc[r]: the adapter call request r makes next
  call,       \* call[r]: the endpoint and the token of request r
  claim,      \* claim[r]: the verification row request r read
  seen,       \* seen[r]: the account as /magic-link/verify read it
  redeemers   \* redeemers[t]: requests that acted on t (history)

server == <<users, password, sessions>>
vars == <<config, now, rows, minted, users, password, sessions, pc, call, claim, seen,
          redeemers>>

Suspends == config.suspends
Endpoints == config.endpoints

PCs == {"idle", "consume", "delete", "check", "lookup", "write", "session",
        "done"}

TypeOK ==
  /\ config \in Configs
  /\ now \in 0 .. MaxTime
  /\ rows \in [Tokens -> Row \cup {NoRow}]
  /\ minted \subseteq Tokens
  /\ users \in [Emails -> {"none", "unverified", "verified"}]
  /\ password \in [Emails -> Requests \cup {"initial", "none"}]
  /\ sessions \subseteq Session
  /\ pc \in [Requests -> PCs]
  /\ call \in [Requests -> Call \cup {NoRow}]
  /\ claim \in [Requests -> Row \cup {NoRow}]
  /\ seen \in [Requests -> {"none", "unverified", "verified"}]
  /\ redeemers \in [Tokens -> SUBSET Requests]

Init ==
  /\ config \in Configs
  /\ now = 0
  /\ rows = [t \in Tokens |-> NoRow]
  /\ minted = {}
  /\ users = [e \in Emails |-> IF e \in Registered THEN "unverified" ELSE "none"]
  /\ password = [e \in Emails |-> IF e \in Registered THEN "initial" ELSE "none"]
  /\ sessions = {}
  /\ pc = [r \in Requests |-> "idle"]
  /\ call = [r \in Requests |-> NoRow]
  /\ claim = [r \in Requests |-> NoRow]
  /\ seen = [r \in Requests |-> "none"]
  /\ redeemers = [t \in Tokens |-> {}]

-----------------------------------------------------------------------------
(* Helpers                                                                  *)

InHandler(r) == pc[r] \notin {"idle", "done"}

\* Without suspension a handler that has started runs before any other.
Scheduled(r) == Suspends \/ \A q \in Requests \ {r} : ~InHandler(q)
Quiet == Suspends \/ \A q \in Requests : ~InHandler(q)

Expired(x) == x.expiresAt < now

Endpoint(r) == call[r].endpoint
Token(r) == call[r].token
About(r) == claim[r].about

\* verify-email and reset look a row up by `value`, whatever its identifier;
\* the other two by an identifier that only their own rows have.
Matches(endpoint, kind) ==
  IF endpoint \in {"verify-email", "reset"}
  THEN kind \in {"verify-email", "reset"}
  ELSE kind = endpoint

\* The row the handler's where clause selects.
Found(r) ==
  IF rows[Token(r)] # NoRow /\ Matches(Endpoint(r), rows[Token(r)].kind)
  THEN rows[Token(r)]
  ELSE NoRow

\* /one-time-token/verify never calls consume_one.
ReadsThenDeletes(endpoint) == endpoint = "one-time-token" \/ ~config.atomic

\* Request r is about to make the adapter call `at`, and is the one resumed.
At(r, at) == pc[r] = at /\ Scheduled(r)

Goto(r, to) == pc' = [pc EXCEPT ![r] = to]

\* The request answers 200: it acted on its token.
Redeem(r) == redeemers' = [redeemers EXCEPT ![Token(r)] = @ \cup {r}]

-----------------------------------------------------------------------------
(* Handing tokens out                                                       *)

Mint(t, kind, about) ==
  /\ kind \in Endpoints
  /\ t \notin minted
  /\ Quiet
  /\ minted' = minted \cup {t}
  /\ rows' = [rows EXCEPT ![t] =
       [kind |-> kind, about |-> about, expiresAt |-> now + TokenTTL]]
  /\ UNCHANGED <<config, now, server, pc, call, claim, seen, redeemers>>

\* POST /send-verification-email: any address, registered or not.
SendVerificationEmail(t, e) == Mint(t, "verify-email", e)

\* POST /forget-password: silently nothing for an unknown address.
ForgetPassword(t, e) == users[e] # "none" /\ Mint(t, "reset", e)

\* POST /sign-in/magic-link: any address.
SignInMagicLink(t, e) == Mint(t, "magic-link", e)

\* GET /one-time-token/generate: needs a session the router attached.
GenerateOneTimeToken(t, s) == ~Expired(s) /\ Mint(t, "one-time-token", s)

-----------------------------------------------------------------------------
(* Taking them back                                                         *)

Begin(r, endpoint, t) ==
  /\ endpoint \in Endpoints
  /\ At(r, "idle")
  /\ Goto(r, "consume")
  /\ call' = [call EXCEPT ![r] = [endpoint |-> endpoint, token |-> t]]
  /\ UNCHANGED <<config, now, rows, minted, server, claim, seen, redeemers>>

\* Mutant of Consume: the row is read and left in the table.
ConsumeKeepingRow(r) ==
  /\ At(r, "consume")
  /\ claim' = [claim EXCEPT ![r] = Found(r)]
  /\ Goto(r, IF Found(r) = NoRow THEN "done" ELSE "check")
  /\ UNCHANGED <<config, now, rows, minted, server, call, seen, redeemers>>

\* consume_one, or the find_one of /one-time-token/verify.
Consume(r) ==
  /\ At(r, "consume")
  /\ claim' = [claim EXCEPT ![r] = Found(r)]
  /\ \/ /\ Found(r) = NoRow
        /\ Goto(r, "done")
        /\ UNCHANGED rows
     \/ /\ Found(r) # NoRow
        /\ ReadsThenDeletes(Endpoint(r))
        /\ Goto(r, "delete")
        /\ UNCHANGED rows
     \/ /\ Found(r) # NoRow
        /\ ~ReadsThenDeletes(Endpoint(r))
        /\ Goto(r, "check")
        /\ rows' = [rows EXCEPT ![Token(r)] = NoRow]
  /\ UNCHANGED <<config, now, minted, server, call, seen, redeemers>>

\* The DELETE of SQLAlchemy's consume_one, or delete_many: neither looks at
\* the number of rows it removed.
Delete(r) ==
  /\ At(r, "delete")
  /\ Goto(r, "check")
  /\ rows' = [rows EXCEPT ![Token(r)] = NoRow]
  /\ UNCHANGED <<config, now, minted, server, call, claim, seen, redeemers>>

\* Mutant of Rejected: a row found by value is taken for one of the right kind.
RejectedIfExpired(r) == Expired(claim[r])

\* Expiry and, for the two flows that look up by value, the kind of the row.
Rejected(r) == Expired(claim[r]) \/ claim[r].kind # Endpoint(r)

\* Mutant of Check: a handler that rejects the row puts it back.
CheckPuttingBack(r) ==
  /\ At(r, "check")
  /\ \/ /\ Rejected(r)
        /\ Goto(r, "done")
        /\ rows' = [rows EXCEPT ![Token(r)] = claim[r]]
     \/ /\ ~Rejected(r)
        /\ Goto(r, IF Endpoint(r) = "reset" THEN "write" ELSE "lookup")
        /\ UNCHANGED rows
  /\ UNCHANGED <<config, now, minted, server, call, claim, seen, redeemers>>

Check(r) ==
  /\ At(r, "check")
  /\ \/ Rejected(r) /\ Goto(r, "done")
     \/ ~Rejected(r) /\ Endpoint(r) = "reset" /\ Goto(r, "write")
     \/ ~Rejected(r) /\ Endpoint(r) # "reset" /\ Goto(r, "lookup")
  /\ UNCHANGED <<config, now, rows, minted, server, call, claim, seen, redeemers>>

VerifyEmailLookup(r) ==
  /\ At(r, "lookup")
  /\ Endpoint(r) = "verify-email"
  /\ Goto(r, IF users[About(r)] = "none" THEN "done" ELSE "write")
  /\ UNCHANGED <<config, now, rows, minted, server, call, claim, seen, redeemers>>

VerifyEmailUpdate(r) ==
  /\ At(r, "write")
  /\ Endpoint(r) = "verify-email"
  /\ Goto(r, "done")
  /\ users' = [users EXCEPT ![About(r)] = "verified"]
  /\ Redeem(r)
  /\ UNCHANGED <<config, now, rows, minted, password, sessions, call, claim, seen>>

\* Mutant of ResetPasswordUpdate: the token is stored for the password.
ResetPasswordToToken(r) ==
  /\ At(r, "write")
  /\ Endpoint(r) = "reset"
  /\ Goto(r, "done")
  /\ password' = [password EXCEPT ![About(r)] = Token(r)]
  /\ Redeem(r)
  /\ UNCHANGED <<config, now, rows, minted, users, sessions, call, claim, seen>>

\* The update matches no row, silently, when there is no credential account.
ResetPasswordUpdate(r) ==
  /\ At(r, "write")
  /\ Endpoint(r) = "reset"
  /\ Goto(r, "done")
  /\ password' = [password EXCEPT ![About(r)] = IF @ = "none" THEN @ ELSE r]
  /\ Redeem(r)
  /\ UNCHANGED <<config, now, rows, minted, users, sessions, call, claim, seen>>

MagicLinkLookup(r) ==
  LET user == users[About(r)] IN
  /\ At(r, "lookup")
  /\ Endpoint(r) = "magic-link"
  /\ \/ user = "none" /\ config.signUpDisabled /\ Goto(r, "done")
     \/ user = "none" /\ ~config.signUpDisabled /\ Goto(r, "write")
     \/ user = "unverified" /\ Goto(r, "write")
     \/ user = "verified" /\ Goto(r, "session")
  /\ seen' = [seen EXCEPT ![r] = user]
  /\ UNCHANGED <<config, now, rows, minted, server, call, claim, redeemers>>

\* Creates the user, or sets emailVerified; a create that lost a race fails on
\* the unique index on user.email and the request ends with a 500.
MagicLinkWriteUser(r) ==
  LET lost == seen[r] = "none" /\ users[About(r)] # "none" IN
  /\ At(r, "write")
  /\ Endpoint(r) = "magic-link"
  /\ Goto(r, IF lost THEN "done" ELSE "session")
  /\ users' = IF lost THEN users ELSE [users EXCEPT ![About(r)] = "verified"]
  /\ UNCHANGED <<config, now, rows, minted, password, sessions, call, claim, seen,
                 redeemers>>

MagicLinkCreateSession(r) ==
  /\ At(r, "session")
  /\ Endpoint(r) = "magic-link"
  /\ Goto(r, "done")
  /\ sessions' = sessions \cup
       {[by |-> r, email |-> About(r), expiresAt |-> now + SessionTTL]}
  /\ Redeem(r)
  /\ UNCHANGED <<config, now, rows, minted, users, password, call, claim, seen>>

OneTimeTokenLookup(r) ==
  /\ At(r, "lookup")
  /\ Endpoint(r) = "one-time-token"
  /\ Goto(r, IF About(r) \in sessions THEN "write" ELSE "done")
  /\ UNCHANGED <<config, now, rows, minted, server, call, claim, seen, redeemers>>

\* After the user is fetched: the expiry of the session that was read, and
\* then the session cookie.
OneTimeTokenHandOver(r) ==
  /\ At(r, "write")
  /\ Endpoint(r) = "one-time-token"
  /\ Goto(r, "done")
  /\ IF Expired(About(r)) THEN UNCHANGED redeemers ELSE Redeem(r)
  /\ UNCHANGED <<config, now, rows, minted, server, call, claim, seen>>

-----------------------------------------------------------------------------
\* revoke_session, by sign-out or /revoke-session.
RevokeSession(s) ==
  /\ Quiet
  /\ sessions' = sessions \ {s}
  /\ UNCHANGED <<config, now, rows, minted, users, password, pc, call, claim, seen,
                 redeemers>>

Tick ==
  /\ now < MaxTime
  /\ now' = now + 1
  /\ UNCHANGED <<config, rows, minted, server, pc, call, claim, seen, redeemers>>

HandOut(t) ==
  \/ \E e \in Emails :
       SendVerificationEmail(t, e) \/ ForgetPassword(t, e) \/ SignInMagicLink(t, e)
  \/ \E s \in sessions : GenerateOneTimeToken(t, s)

Handle(r) ==
  \/ Consume(r) \/ Delete(r) \/ Check(r)
  \/ VerifyEmailLookup(r) \/ VerifyEmailUpdate(r)
  \/ ResetPasswordUpdate(r)
  \/ MagicLinkLookup(r) \/ MagicLinkWriteUser(r) \/ MagicLinkCreateSession(r)
  \/ OneTimeTokenLookup(r) \/ OneTimeTokenHandOver(r)

Next ==
  \/ Tick
  \/ \E t \in Tokens : HandOut(t)
  \/ \E r \in Requests : Handle(r)
  \/ \E r \in Requests, e \in AllKinds, t \in Tokens : Begin(r, e, t)
  \/ \E s \in sessions : RevokeSession(s)

Spec == Init /\ [][Next]_vars

\* The event loop resumes every suspended coroutine.
FairSpec == Spec /\ \A r \in Requests : WF_vars(Handle(r))
-----------------------------------------------------------------------------
(* Properties                                                               *)

\* Another request can get in between the read and the delete of the row.
Splits(endpoint) == Suspends /\ ReadsThenDeletes(endpoint)

\* A token acts once, however many requests present it and however they
\* interleave: /verify-email says of a second use "invalid or already used".
\* This takes a consumption that nothing gets in between.
RedeemedAtMostOnce ==
  \A t \in Tokens : \A r, q \in redeemers[t] :
    r # q => Splits(Endpoint(r)) \/ Splits(Endpoint(q))

Granted(r, kind, about) ==
  /\ claim[r] # NoRow
  /\ claim[r].kind = kind
  /\ claim[r].about = about

\* Every change of an account goes back to a token of the right kind for that
\* very account: a reset token presented at /verify-email (which finds it,
\* both flows looking rows up by value) verifies nothing, and the reverse.
EffectsWereGranted ==
  /\ \A e \in Emails :
       /\ users[e] = "verified" =>
            \E r \in Requests, k \in {"verify-email", "magic-link"} :
               Granted(r, k, e)
       /\ password[e] \in Requests => Granted(password[e], "reset", e)
  /\ \A s \in sessions : Granted(s.by, "magic-link", s.email)

\* /one-time-token/verify never hands out the cookie of a session that has
\* expired or was revoked after the token was generated.  (Revoked before the
\* handler looked the session up, where it can be suspended after that.)
HandedOverSessionIsLive ==
  [][\A r \in Requests :
       /\ pc[r] = "write"
       /\ Endpoint(r) = "one-time-token"
       /\ redeemers' # redeemers
       /\ r \in redeemers'[Token(r)]
       => ~Expired(About(r)) /\ (About(r) \in sessions \/ Suspends)]_vars

\* A token that reached the endpoint that looks for it is eventually out of
\* the table, and the request that presented it is answered: no path, failed
\* ones included, leaves a presented token usable.
PresentedTokenIsSpent ==
  \A r \in Requests :
    pc[r] = "consume" ~> pc[r] = "done" /\ Found(r) = NoRow

\* What a redemption ends in: a live session at most, and a token that is spent.
RedemptionsEndWell == HandedOverSessionIsLive /\ PresentedTokenIsSpent

(* Refinement of SingleUse                                                  *)

Claims(r, t) ==
  /\ pc[r] \in {"check", "lookup", "write", "session"}
  /\ Token(r) = t

NoRequest == NoRow

holder == [t \in Tokens |->
  IF \E r \in Requests : Claims(r, t)
  THEN CHOOSE r \in Requests : Claims(r, t)
  ELSE NoRequest]

phase == [t \in Tokens |->
  IF t \notin minted THEN "unissued"
  ELSE IF rows[t] # NoRow THEN "live"
  ELSE IF holder[t] # NoRequest THEN "claimed"
  ELSE "spent"]

SingleUseTokens == INSTANCE SingleUse
  WITH Tokens <- Tokens, Requests <- Requests, NoRequest <- NoRequest,
       phase <- phase, holder <- holder, redeemers <- redeemers

\* Claiming, acting and giving up follow the promise of SingleUse, wherever
\* consumption cannot be split.
ImplementsSingleUse ==
  /\ SingleUseTokens!Init
  /\ [][(\A e \in Endpoints : ~Splits(e)) => SingleUseTokens!Next]_<<phase, holder, redeemers>>
=============================================================================
