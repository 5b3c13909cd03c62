--------------------------- MODULE AccountSessions ---------------------------
(***************************************************************************)
(* Users, credential accounts and sessions: the router's session           *)
(* attachment and the e-mail/password, session and account routes that     *)
(* create and remove their rows.                                           *)
(*                                                                         *)
(* As in VerificationTokens a request has a program counter, and each      *)
(* action is one adapter call with the code up to the next.  A             *)
(* configuration, chosen once, says what is behind the adapter:            *)
(*   memory              suspends = FALSE, enforcesReferences = FALSE      *)
(*   MongoDB, SQLite     suspends = TRUE,  enforcesReferences = FALSE      *)
(*   PostgreSQL, MySQL   suspends = TRUE,  enforcesReferences = TRUE       *)
(* Users, sessions and passwords are named by the request that created     *)
(* them (ids, tokens and passwords are fresh), or by a founder that was    *)
(* there from the start.                                                   *)
(***************************************************************************)
EXTENDS Naturals, FiniteSets

CONSTANTS
  Requests,             \* calls of an endpoint; each is made once
  Founders,             \* users that exist, signed in, at the start
  Emails,
  FounderEmail,         \* [Founders -> Emails], injective
  Configs,              \* the configurations that are looked at
  SessionTTL,           \* session.expires_in
  MaxTime,              \* bound on the clock
  None                  \* no row, no cookie

Ids == Requests \cup Founders

AllOperations ==
  {"sign-up", "sign-in", "sign-out", "revoke-session", "revoke-sessions",
   "revoke-other-sessions", "change-email", "change-password", "delete-user"}

\* suspends:            an adapter call may suspend the handler
\* enforcesReferences:  the database checks foreign keys
\* autoSignIn:          email_and_password.auto_sign_in
\* requireVerification: email_and_password.require_email_verification
\* operations:          the endpoints that are called
Config == [suspends : BOOLEAN, enforcesReferences : BOOLEAN, autoSignIn : BOOLEAN,
           requireVerification : BOOLEAN, operations : SUBSET AllOperations]

VARIABLES
  config,     \* the configuration
  now,        \* int(time.time())
  users,      \* users[i]: e-mail of user i, or None
  accounts,   \* accounts[i]: password of user i's credential account, or None
  sessions,   \* sessions[s]: the session row, or None
  pc, call,   \* what each request does next, and its body and cookie
  session,    \* session[r]: ctx.session, the id of the attached session
  userId,     \* userId[r]: the user the handler found, or ctx.session.user_id
  issued      \* session tokens that were handed out in a cookie

rows == <<users, accounts, sessions>>
vars == <<config, now, users, accounts, sessions, pc, call, session, userId, issued>>

\* `opened` is the password the session was opened with (for the properties).
SessionRow == [user : Ids, expiresAt : Nat, opened : Ids]

PCs == {"idle", "attach", "drop", "dispatch", "create-user", "create-account",
        "verify", "create-session", "delete-session", "update-email",
        "update-password", "delete-others", "delete-all", "delete-accounts", "delete-user", "done"}

Call == [op : AllOperations, cookie : Ids \cup {None}, email : Emails,
         password : Ids, target : Ids, flag : BOOLEAN]

ASSUME ConstantsAssumption ==
  /\ Configs \subseteq Config
  /\ Requests \cap Founders = {}
  /\ None \notin Ids \cup Emails \cup Call \cup SessionRow
  /\ Emails # {}
  /\ FounderEmail \in [Founders -> Emails]
  /\ \A f, g \in Founders : FounderEmail[f] = FounderEmail[g] => f = g
  /\ SessionTTL \in Nat /\ MaxTime \in Nat

TypeOK ==
  /\ config \in Configs
  /\ now \in 0 .. MaxTime
  /\ users \in [Ids -> Emails \cup {None}]
  /\ accounts \in [Ids -> Ids \cup {None}]
  /\ sessions \in [Ids -> SessionRow \cup {None}]
  /\ pc \in [Requests -> PCs]
  /\ call \in [Requests -> Call \cup {None}]
  /\ session \in [Requests -> Ids \cup {None}]
  /\ userId \in [Requests -> Ids \cup {None}]
  /\ issued \subseteq Ids

Init ==
  /\ config \in Configs
  /\ now = 0
  /\ users = [i \in Ids |-> IF i \in Founders THEN FounderEmail[i] ELSE None]
  /\ accounts = [i \in Ids |-> IF i \in Founders THEN i ELSE None]
  /\ sessions = [s \in Ids |-> IF s \in Founders
       THEN [user |-> s, expiresAt |-> SessionTTL, opened |-> s] ELSE None]
  /\ pc = [r \in Requests |-> "idle"]
  /\ call = [r \in Requests |-> None]
  /\ session = [r \in Requests |-> None]
  /\ userId = [r \in Requests |-> None]
  /\ issued = Founders

-----------------------------------------------------------------------------
InHandler(r) == pc[r] \notin {"idle", "done"}

\* Without suspension a handler that has started runs before any other.
Scheduled(r) == config.suspends \/ \A q \in Requests \ {r} : ~InHandler(q)

At(r, at) == pc[r] = at /\ Scheduled(r)
Goto(r, to) == pc' = [pc EXCEPT ![r] = to]

\* The row of a token, if the table has one.
RowOf(s) == IF s = None THEN None ELSE sessions[s]
Expired(row) == row.expiresAt < now

Op(r) == call[r].op
WithEmail(e) == {i \in Ids : users[i] = e}
SessionsOf(i) == {s \in Ids : sessions[s] # None /\ sessions[s].user = i}

\* delete_many on the session table.
DeleteSessions(S) ==
  sessions' = [s \in Ids |-> IF s \in S THEN None ELSE sessions[s]]

\* An insert or a delete the database refuses ends the request with a 500.
Refused(r) == Goto(r, "done") /\ UNCHANGED rows

-----------------------------------------------------------------------------
(* The router                                                               *)

Begin(r, c) ==
  /\ c.op \in config.operations
  /\ c.cookie \in issued \cup {None}
  /\ At(r, "idle")
  /\ Goto(r, "attach")
  /\ call' = [call EXCEPT ![r] = c]
  /\ UNCHANGED <<config, now, rows, session, userId, issued>>

\* Every operation but these two answers 401 without a session.
Anonymous == {"sign-up", "sign-in"}

Unauthenticated(r) == IF Op(r) \in Anonymous THEN "dispatch" ELSE "done"

\* Mutant of Attach: the signed cookie is believed without the row.
AttachByCookie(r) ==
  /\ At(r, "attach")
  /\ Goto(r, IF call[r].cookie = None THEN Unauthenticated(r) ELSE "dispatch")
  /\ session' = [session EXCEPT ![r] = call[r].cookie]
  /\ userId' = [userId EXCEPT ![r] = call[r].cookie]
  /\ UNCHANGED <<config, now, rows, call, issued>>

\* _attach_session: the row of the cookie's token, unless it has expired.
Attach(r) ==
  LET row == RowOf(call[r].cookie) IN
  /\ At(r, "attach")
  /\ \/ /\ row = None
        /\ Goto(r, Unauthenticated(r))
        /\ UNCHANGED <<session, userId>>
     \/ /\ row # None /\ Expired(row)
        /\ Goto(r, "drop")
        /\ UNCHANGED <<session, userId>>
     \/ /\ row # None /\ ~Expired(row)
        /\ Goto(r, "dispatch")
        /\ session' = [session EXCEPT ![r] = call[r].cookie]
        /\ userId' = [userId EXCEPT ![r] = row.user]
  /\ UNCHANGED <<config, now, rows, call, issued>>

\* An expired session is removed and treated as none.
DropExpired(r) ==
  /\ At(r, "drop")
  /\ Goto(r, Unauthenticated(r))
  /\ DeleteSessions({call[r].cookie})
  /\ UNCHANGED <<config, now, users, accounts, call, session, userId, issued>>

-----------------------------------------------------------------------------
(* POST /sign-up/email                                                      *)

SignUpFind(r) ==
  /\ At(r, "dispatch") /\ Op(r) = "sign-up"
  /\ Goto(r, IF WithEmail(call[r].email) = {} THEN "create-user" ELSE "done")
  /\ UNCHANGED <<config, now, rows, call, session, userId, issued>>

\* The unique index on user.email refuses the loser of two sign-ups.
SignUpCreateUser(r) ==
  /\ At(r, "create-user")
  /\ IF WithEmail(call[r].email) # {}
     THEN Refused(r) /\ UNCHANGED userId
     ELSE /\ Goto(r, "create-account")
          /\ users' = [users EXCEPT ![r] = call[r].email]
          /\ userId' = [userId EXCEPT ![r] = r]
          /\ UNCHANGED <<accounts, sessions>>
  /\ UNCHANGED <<config, now, call, session, issued>>

\* Mutant of SignUpCreateAccount: the address is stored for the password.
SignUpCreateAccountWithEmail(r) ==
  /\ At(r, "create-account")
  /\ Goto(r, IF config.autoSignIn THEN "create-session" ELSE "done")
  /\ accounts' = [accounts EXCEPT ![r] = call[r].email]
  /\ UNCHANGED <<config, now, users, sessions, call, session, userId, issued>>

SignUpCreateAccount(r) ==
  /\ At(r, "create-account")
  /\ Goto(r, IF config.autoSignIn THEN "create-session" ELSE "done")
  /\ accounts' = [accounts EXCEPT ![r] = r]
  /\ UNCHANGED <<config, now, users, sessions, call, session, userId, issued>>

-----------------------------------------------------------------------------
(* POST /sign-in/email, POST /sign-out                                      *)

SignInFind(r) ==
  /\ At(r, "dispatch") /\ Op(r) = "sign-in"
  /\ \/ /\ WithEmail(call[r].email) = {}
        /\ Goto(r, "done")
        /\ UNCHANGED userId
     \/ \E i \in WithEmail(call[r].email) :
          /\ Goto(r, "verify")
          /\ userId' = [userId EXCEPT ![r] = i]
  /\ UNCHANGED <<config, now, rows, call, session, issued>>

\* Only founders have verified their address.
SignInVerifyPassword(r) ==
  LET ok == /\ accounts[userId[r]] = call[r].password
            /\ config.requireVerification => userId[r] \in Founders IN
  /\ At(r, "verify") /\ Op(r) = "sign-in"
  /\ Goto(r, IF ok THEN "create-session" ELSE "done")
  /\ UNCHANGED <<config, now, rows, call, session, userId, issued>>

\* create_session, for sign-in and for sign-up.
CreateSession(r) ==
  LET password == IF Op(r) = "sign-up" THEN r ELSE call[r].password IN
  /\ At(r, "create-session")
  /\ IF config.enforcesReferences /\ users[userId[r]] = None
     THEN Refused(r) /\ UNCHANGED issued
     ELSE /\ Goto(r, "done")
          /\ sessions' = [sessions EXCEPT ![r] =
               [user |-> userId[r], expiresAt |-> now + SessionTTL,
                opened |-> password]]
          /\ issued' = issued \cup {r}
          /\ UNCHANGED <<users, accounts>>
  /\ UNCHANGED <<config, now, call, session, userId>>

SignOut(r) ==
  /\ At(r, "dispatch") /\ Op(r) = "sign-out"
  /\ Goto(r, "done")
  /\ DeleteSessions({session[r]})
  /\ UNCHANGED <<config, now, users, accounts, call, session, userId, issued>>

-----------------------------------------------------------------------------
(* POST /revoke-session, /revoke-sessions, /revoke-other-sessions           *)

\* Only a session of the caller is found, but it is then deleted by its id.
RevokeSessionFind(r) ==
  LET own == call[r].target \in SessionsOf(userId[r]) IN
  /\ At(r, "dispatch") /\ Op(r) = "revoke-session"
  /\ Goto(r, IF own THEN "delete-session" ELSE "done")
  /\ UNCHANGED <<config, now, rows, call, session, userId, issued>>

RevokeSessionDelete(r) ==
  /\ At(r, "delete-session")
  /\ Goto(r, "done")
  /\ DeleteSessions({call[r].target})
  /\ UNCHANGED <<config, now, users, accounts, call, session, userId, issued>>

RevokeSessions(r) ==
  /\ At(r, "dispatch") /\ Op(r) = "revoke-sessions"
  /\ Goto(r, "done")
  /\ DeleteSessions(SessionsOf(userId[r]))
  /\ UNCHANGED <<config, now, users, accounts, call, session, userId, issued>>

\* Also the last call of a password change that revokes other sessions.
RevokeOtherSessions(r) ==
  /\ \/ At(r, "dispatch") /\ Op(r) = "revoke-other-sessions"
     \/ At(r, "delete-others")
  /\ Goto(r, "done")
  /\ DeleteSessions(SessionsOf(userId[r]) \ {session[r]})
  /\ UNCHANGED <<config, now, users, accounts, call, session, userId, issued>>

-----------------------------------------------------------------------------
(* POST /change-email, POST /change-password, POST /delete-user             *)

\* With verification required the change is only noted, in a verification row
\* that no route reads.
ChangeEmailFind(r) ==
  LET taken == WithEmail(call[r].email) \ {userId[r]} # {} IN
  /\ At(r, "dispatch") /\ Op(r) = "change-email"
  /\ Goto(r, IF taken \/ config.requireVerification THEN "done" ELSE "update-email")
  /\ UNCHANGED <<config, now, rows, call, session, userId, issued>>

\* The unique index refuses an address that was taken meanwhile; a user that
\* was deleted meanwhile is not there to update.
ChangeEmailUpdate(r) ==
  LET i == userId[r]
      gone == users[i] = None
      taken == WithEmail(call[r].email) \ {i} # {} IN
  /\ At(r, "update-email")
  /\ Goto(r, "done")
  /\ users' = IF gone \/ taken THEN users ELSE [users EXCEPT ![i] = call[r].email]
  /\ UNCHANGED <<config, now, accounts, sessions, call, session, userId, issued>>

ChangePasswordVerify(r) ==
  LET ok == accounts[userId[r]] = call[r].password IN
  /\ At(r, "dispatch") /\ Op(r) = "change-password"
  /\ Goto(r, IF ok THEN "update-password" ELSE "done")
  /\ UNCHANGED <<config, now, rows, call, session, userId, issued>>

\* Mutant of ChangePasswordUpdate: revoke_other_sessions is not looked at.
ChangePasswordOnly(r) ==
  /\ At(r, "update-password")
  /\ Goto(r, "done")
  /\ accounts' = [accounts EXCEPT ![userId[r]] = IF @ = None THEN @ ELSE r]
  /\ UNCHANGED <<config, now, users, sessions, call, session, userId, issued>>

\* By the account's id: nothing happens if it was deleted meanwhile.
ChangePasswordUpdate(r) ==
  /\ At(r, "update-password")
  /\ Goto(r, IF call[r].flag THEN "delete-others" ELSE "done")
  /\ accounts' = [accounts EXCEPT ![userId[r]] = IF @ = None THEN @ ELSE r]
  /\ UNCHANGED <<config, now, users, sessions, call, session, userId, issued>>

\* The password is checked if the body has one and the user has an account.
DeleteUserVerify(r) ==
  LET account == accounts[userId[r]]
      ok == call[r].flag => account \in {None, call[r].password} IN
  /\ At(r, "dispatch") /\ Op(r) = "delete-user"
  /\ Goto(r, IF ok THEN "delete-all" ELSE "done")
  /\ UNCHANGED <<config, now, rows, call, session, userId, issued>>

DeleteUserSessions(r) ==
  /\ At(r, "delete-all")
  /\ Goto(r, "delete-accounts")
  /\ DeleteSessions(SessionsOf(userId[r]))
  /\ UNCHANGED <<config, now, users, accounts, call, session, userId, issued>>

\* Mutant of DeleteUserAccounts: the handler returns after it.
DeleteUserAccountsOnly(r) ==
  /\ At(r, "delete-accounts")
  /\ Goto(r, "done")
  /\ accounts' = [accounts EXCEPT ![userId[r]] = None]
  /\ UNCHANGED <<config, now, users, sessions, call, session, userId, issued>>

DeleteUserAccounts(r) ==
  /\ At(r, "delete-accounts")
  /\ Goto(r, "delete-user")
  /\ accounts' = [accounts EXCEPT ![userId[r]] = None]
  /\ UNCHANGED <<config, now, users, sessions, call, session, userId, issued>>

DeleteUserRow(r) ==
  /\ At(r, "delete-user")
  /\ IF config.enforcesReferences /\ SessionsOf(userId[r]) # {}
     THEN Refused(r)
     ELSE /\ Goto(r, "done")
          /\ users' = [users EXCEPT ![userId[r]] = None]
          /\ UNCHANGED <<accounts, sessions>>
  /\ UNCHANGED <<config, now, call, session, userId, issued>>

-----------------------------------------------------------------------------
Tick ==
  /\ now < MaxTime
  /\ now' = now + 1
  /\ UNCHANGED <<config, rows, pc, call, session, userId, issued>>

\* What a call carries, with the fields its endpoint does not read fixed.
Calls(r) ==
  LET any == CHOOSE e \in Emails : TRUE
      Make(op, cookie, email, password, target, flag) ==
        [op |-> op, cookie |-> cookie, email |-> email, password |-> password,
         target |-> target, flag |-> flag]
  IN  {Make("sign-up", None, e, r, r, FALSE) : e \in Emails}
      \cup {Make("sign-in", None, e, p, r, FALSE) : e \in Emails, p \in Ids}
      \cup {Make(op, c, any, r, r, FALSE) : c \in issued \cup {None},
              op \in {"sign-out", "revoke-sessions", "revoke-other-sessions"}}
      \cup {Make("revoke-session", c, any, r, s, FALSE) : c, s \in issued}
      \cup {Make("change-email", c, e, r, r, FALSE) : c \in issued, e \in Emails}
      \cup {Make(op, c, any, p, r, b) : c \in issued, p \in Ids, b \in BOOLEAN,
              op \in {"change-password", "delete-user"}}

Handle(r) ==
  \/ Attach(r) \/ DropExpired(r)
  \/ SignUpFind(r) \/ SignUpCreateUser(r) \/ SignUpCreateAccount(r)
  \/ SignInFind(r) \/ SignInVerifyPassword(r) \/ CreateSession(r)
  \/ SignOut(r)
  \/ RevokeSessionFind(r) \/ RevokeSessionDelete(r)
  \/ RevokeSessions(r) \/ RevokeOtherSessions(r)
  \/ ChangeEmailFind(r) \/ ChangeEmailUpdate(r)
  \/ ChangePasswordVerify(r) \/ ChangePasswordUpdate(r)
  \/ DeleteUserVerify(r) \/ DeleteUserSessions(r) \/ DeleteUserAccounts(r)
  \/ DeleteUserRow(r)

Next ==
  \/ Tick
  \/ \E r \in Requests : Handle(r)
  \/ \E r \in Requests : \E c \in Calls(r) : Begin(r, c)

Spec == Init /\ [][Next]_vars

\* The event loop resumes every suspended coroutine.
FairSpec == Spec /\ \A r \in Requests : WF_vars(Handle(r))

-----------------------------------------------------------------------------
(* Properties                                                               *)

\* No request is in the middle of its work.
Idle == \A r \in Requests : ~InHandler(r)

OrphanFree ==
  \A i \in Ids :
    /\ sessions[i] # None => users[sessions[i].user] # None
    /\ accounts[i] # None => users[i] # None

\* Between requests that do not interleave a session or a credential account
\* always belongs to a user that exists: deletion removes them first and
\* nothing is created for a user that is gone.
NoOrphans == Idle /\ ~config.suspends => OrphanFree

\* The database that checks references keeps every session's user at all
\* times, however sign-in, sign-up and deletion interleave.
SessionsHaveUsers ==
  config.enforcesReferences =>
    \A s \in Ids : sessions[s] # None => users[sessions[s].user] # None

\* When a password was last set by a change that revokes the other sessions,
\* the user's sessions are the one it was changed from and those opened with
\* the new password.  A sign-in that interleaves opens one with the old.
PasswordChangeEndsOtherSessions ==
  \A i \in Ids, q \in Requests :
    /\ ~config.suspends
    /\ accounts[i] = q
    /\ pc[q] = "done"
    /\ Op(q) = "change-password"
    /\ call[q].flag
    => \A s \in SessionsOf(i) : s = session[q] \/ sessions[s].opened = q

\* A session row disappears only by expiry or at the hands of its own user.
OnlyOwnSessionsAreDeleted ==
  [][\A s \in Ids :
       sessions[s] # None /\ sessions'[s] = None =>
         \/ Expired(sessions[s])
         \/ \E r \in Requests : pc[r] # pc'[r] /\ userId[r] = sessions[s].user]_vars

\* Once a session is gone, by whatever route, its cookie opens nothing: no
\* request, not even one that was already under way, is attached to it, and
\* no route writes the row back.
GoneSessionsStayGone ==
  [][\A s \in issued :
       sessions[s] = None =>
         /\ sessions'[s] = None
         /\ \A r \in Requests : session'[r] = s => session[r] = s]_vars

\* One address never names two users.
EmailsAreUnique ==
  \A e \in Emails : Cardinality(WithEmail(e)) <= 1

\* The rows fit together: no session or account outlives its user, no address
\* is shared, and a changed password leaves no session opened with the old one.
RowsAreSound ==
  /\ NoOrphans
  /\ SessionsHaveUsers
  /\ EmailsAreUnique
  /\ PasswordChangeEndsOtherSessions

\* A session ends by expiry or by its own user's doing, and ends for good.
SessionsEndForGood == OnlyOwnSessionsAreDeleted /\ GoneSessionsStayGone

\* A deletion that was allowed and that nothing gets in between eventually
\* removes the user and every session.
DeletionCompletes ==
  \A r \in Requests :
    pc[r] = "delete-all" /\ ~config.suspends ~>
      /\ pc[r] = "done"
      /\ \E i \in Ids : userId[r] = i /\ users[i] = None /\ SessionsOf(i) = {}
=============================================================================
