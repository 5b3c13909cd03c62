------------------------ MODULE AccountSessionsProofs ------------------------
(***************************************************************************)
(* Proofs about AccountSessions, for every number of requests, users and   *)
(* addresses in every configuration.                                       *)
(***************************************************************************)
EXTENDS AccountSessions, FiniteSetTheorems, TLAPS

-----------------------------------------------------------------------------
(* The inductive invariant                                                  *)

\* What a handler at an adapter call was called for.
OpsOK ==
  \A r \in Requests :
    /\ pc[r] # "idle" => call[r] \in Call
    /\ pc[r] \in {"create-user", "create-account"} => Op(r) = "sign-up"
    /\ pc[r] = "verify" => Op(r) = "sign-in"
    /\ pc[r] = "create-session" => Op(r) \in Anonymous
    /\ pc[r] = "delete-session" => Op(r) = "revoke-session"
    /\ pc[r] = "update-email" => Op(r) = "change-email"
    /\ pc[r] \in {"update-password", "delete-others"} => Op(r) = "change-password"
    /\ pc[r] \in {"delete-all", "delete-accounts", "delete-user"} => Op(r) = "delete-user"

\* Who the handler acts for.
CallersOK ==
  \A r \in Requests :
    /\ pc[r] \in {"idle", "attach"} => session[r] = None
    /\ pc[r] # "idle" /\ Op(r) \in Anonymous => call[r].cookie = None /\ session[r] = None
    /\ pc[r] \notin {"idle", "attach", "drop", "done"} /\ Op(r) \notin Anonymous =>
         session[r] \in Ids /\ userId[r] \in Ids
    /\ pc[r] \in {"verify", "create-account", "create-session"} => userId[r] \in Ids
    /\ pc[r] \in {"create-account", "create-session"} /\ Op(r) = "sign-up" => userId[r] = r

\* A token is issued with its row, by a request that is done with it.
IssuedOK ==
  /\ \A s \in Ids : sessions[s] # None => s \in issued
  /\ \A r \in Requests :
       /\ r \in issued => pc[r] = "done"
       /\ pc[r] # "idle" => call[r].cookie \in issued \cup {None}
       /\ session[r] \in issued \cup {None}
       /\ pc[r] = "delete-session" => call[r].target \in issued

\* What a handler found out about a session row holds for as long as the row
\* is there.
FoundOK ==
  \A r \in Requests :
    /\ session[r] # None /\ sessions[session[r]] # None =>
         sessions[session[r]].user = userId[r]
    /\ pc[r] = "drop" =>
         /\ call[r].cookie # None
         /\ sessions[call[r].cookie] # None => Expired(sessions[call[r].cookie])
    /\ pc[r] = "delete-session" /\ sessions[call[r].target] # None =>
         sessions[call[r].target].user = userId[r]

Unique == \A i, j \in Ids : users[i] # None /\ users[i] = users[j] => i = j

Alone ==
  ~config.suspends => \A r, q \in Requests : InHandler(r) /\ InHandler(q) => r = q

\* Without suspension a handler's view of the tables is still true when it writes.
ViewsOK ==
  ~config.suspends =>
    /\ OrphanFree
    /\ \A r \in Requests :
         /\ pc[r] = "create-account" => users[r] # None
         /\ pc[r] \in {"verify", "create-session"} => users[userId[r]] # None
         /\ pc[r] = "create-session" =>
              accounts[userId[r]] = IF Op(r) = "sign-up" THEN r ELSE call[r].password
         /\ pc[r] = "delete-accounts" => SessionsOf(userId[r]) = {}
         /\ pc[r] = "delete-user" =>
              SessionsOf(userId[r]) = {} /\ accounts[userId[r]] = None

\* Passwords are named by the request that set them, for the user it acts for.
PasswordsOK ==
  \A i \in Ids, q \in Requests :
    accounts[i] = q =>
      /\ pc[q] \in {"create-session", "delete-others", "done"}
      /\ Op(q) = "change-password" => userId[q] = i

IInv ==
  /\ TypeOK /\ OpsOK /\ CallersOK /\ IssuedOK /\ FoundOK /\ Unique /\ Alone
  /\ SessionsHaveUsers /\ ViewsOK /\ PasswordsOK /\ PasswordChangeEndsOtherSessions

-----------------------------------------------------------------------------
\* The initial states satisfy the invariant.
THEOREM InitIInv == Init => IInv
  BY ConstantsAssumption, SMT
  DEF Init, IInv, TypeOK, OpsOK, CallersOK, IssuedOK, FoundOK, Unique, Alone,
      SessionsHaveUsers, ViewsOK, PasswordsOK, PasswordChangeEndsOtherSessions,
      OrphanFree, InHandler, SessionsOf, SessionRow, Ids, PCs

\* What the endpoints are called with: the fields have their types, a sign-up or
\* sign-in brings no cookie, and only an issued token is named for revocation.
LEMMA CallsInCall ==
  ASSUME NEW r \in Requests, NEW c \in Calls(r), issued \subseteq Ids
  PROVE  /\ c \in Call
         /\ c.op \in Anonymous => c.cookie = None
         /\ c.op = "revoke-session" => c.target \in issued
<1> DEFINE any == CHOOSE e \in Emails : TRUE
           Make(op, k, e, p, s, b) ==
             [op |-> op, cookie |-> k, email |-> e, password |-> p, target |-> s, flag |-> b]
           Goal == /\ c \in Call
                   /\ c.op \in Anonymous => c.cookie = None
                   /\ c.op = "revoke-session" => c.target \in issued
<1>1. any \in Emails
  BY ConstantsAssumption
<1>2. r \in Ids
  BY DEF Ids
<1>3. ASSUME NEW e \in Emails, c = Make("sign-up", None, e, r, r, FALSE)
      PROVE  Goal
  BY <1>2, <1>3, SMT DEF Call, AllOperations
<1>4. ASSUME NEW e \in Emails, NEW p \in Ids, c = Make("sign-in", None, e, p, r, FALSE)
      PROVE  Goal
  BY <1>2, <1>4, SMT DEF Call, AllOperations
<1>5. ASSUME NEW k \in issued \cup {None},
             NEW op \in {"sign-out", "revoke-sessions", "revoke-other-sessions"},
             NEW e \in Emails, c = Make(op, k, e, r, r, FALSE)
      PROVE  Goal
  BY <1>2, <1>5, SMT DEF Call, AllOperations, Anonymous
<1>6. ASSUME NEW k \in issued, NEW s \in issued, NEW e \in Emails,
             c = Make("revoke-session", k, e, r, s, FALSE)
      PROVE  Goal
  BY <1>2, <1>6, SMT DEF Call, AllOperations, Anonymous
<1>7. ASSUME NEW k \in issued, NEW e \in Emails, c = Make("change-email", k, e, r, r, FALSE)
      PROVE  Goal
  BY <1>2, <1>7, SMT DEF Call, AllOperations, Anonymous
<1>8. ASSUME NEW k \in issued, NEW p \in Ids, NEW b \in BOOLEAN,
             NEW op \in {"change-password", "delete-user"},
             NEW e \in Emails, c = Make(op, k, e, p, r, b)
      PROVE  Goal
  BY <1>2, <1>8, SMT DEF Call, AllOperations, Anonymous
<1> HIDE DEF Goal
<1>9. Goal
  BY <1>1, <1>3, <1>4, <1>5, <1>6, <1>7, <1>8, SMT DEF Calls
<1> QED
  BY <1>9 DEF Goal

\* A step of the specification keeps the invariant.
THEOREM NextIInv ==
  ASSUME IInv, [Next]_vars
  PROVE  IInv'
<1> USE ConstantsAssumption
    DEF IInv, TypeOK, OpsOK, CallersOK, IssuedOK, FoundOK, Unique, Alone,
        SessionsHaveUsers, ViewsOK, PasswordsOK, PasswordChangeEndsOtherSessions,
        OrphanFree, InHandler, SessionsOf, WithEmail, Op, Anonymous, Ids, PCs,
        At, Goto, Scheduled, Unauthenticated, rows, Expired, Refused, DeleteSessions
<1>0. CASE UNCHANGED vars
  BY <1>0, SMT DEF vars
<1>1. CASE Tick
  <2>1. TypeOK' /\ OpsOK' /\ CallersOK' /\ IssuedOK' /\ Unique' /\ Alone'
         /\ SessionsHaveUsers' /\ ViewsOK' /\ PasswordsOK'
         /\ PasswordChangeEndsOtherSessions'
    BY <1>1, SMT DEF Tick
  <2>2. FoundOK'
    BY <1>1, SMTT(30) DEF Tick, SessionRow
  <2> HIDE DEF TypeOK, OpsOK, CallersOK, IssuedOK, FoundOK, Unique, Alone,
               SessionsHaveUsers, ViewsOK, PasswordsOK, PasswordChangeEndsOtherSessions
  <2> QED
    BY <2>1, <2>2
<1>2. ASSUME NEW r \in Requests, NEW c \in Calls(r), Begin(r, c)
      PROVE  IInv'
  BY <1>2, CallsInCall, SMT DEF Begin
<1>3. ASSUME NEW r \in Requests, Attach(r)
      PROVE  IInv'
  <2>1. TypeOK'
    <3>1. \A s \in Ids : sessions[s] # None => sessions[s].user \in Ids
      BY SMT DEF SessionRow
    <3>2. call[r].cookie \in Ids \cup {None}
      BY <1>3, SMT DEF Attach
    <3> QED
      BY <1>3, <3>1, <3>2, SMTT(30) DEF Attach, RowOf
  <2>2. OpsOK' /\ IssuedOK' /\ Unique' /\ Alone'
    BY <1>3, SMTT(30) DEF Attach
  <2>3. SessionsHaveUsers' /\ ViewsOK'
    BY <1>3, SMT DEF Attach
  <2>4. PasswordsOK' /\ PasswordChangeEndsOtherSessions'
    BY <1>3, SMTT(30) DEF Attach
  <2>5. CallersOK' /\ FoundOK'
    BY <1>3, SMT DEF Attach, RowOf, SessionRow
  <2> HIDE DEF TypeOK, OpsOK, CallersOK, IssuedOK, FoundOK, Unique, Alone,
               SessionsHaveUsers, ViewsOK, PasswordsOK, PasswordChangeEndsOtherSessions
  <2> QED
    BY <2>1, <2>2, <2>3, <2>4, <2>5
<1>4. ASSUME NEW r \in Requests, DropExpired(r)
      PROVE  IInv'
  <2>1. TypeOK' /\ OpsOK' /\ CallersOK' /\ IssuedOK' /\ FoundOK'
    BY <1>4, SMT DEF DropExpired
  <2>2. Unique' /\ Alone' /\ SessionsHaveUsers' /\ ViewsOK' /\ PasswordsOK'
         /\ PasswordChangeEndsOtherSessions'
    BY <1>4, SMTT(30) DEF DropExpired
  <2> HIDE DEF TypeOK, OpsOK, CallersOK, IssuedOK, FoundOK, Unique, Alone,
               SessionsHaveUsers, ViewsOK, PasswordsOK, PasswordChangeEndsOtherSessions
  <2> QED
    BY <2>1, <2>2
<1>5. ASSUME NEW r \in Requests, SignUpFind(r)
      PROVE  IInv'
  BY <1>5, SMTT(30) DEF SignUpFind
<1>6. ASSUME NEW r \in Requests, SignUpCreateUser(r)
      PROVE  IInv'
  <2>1. TypeOK'
    <3>1. call[r].email \in Emails
      BY <1>6, SMT DEF SignUpCreateUser, Call
    <3> QED
      BY <1>6, <3>1, SMTT(30) DEF SignUpCreateUser
  <2>2. OpsOK' /\ CallersOK'
    BY <1>6, SMT DEF SignUpCreateUser
  <2>3. IssuedOK' /\ FoundOK'
    BY <1>6, SMT DEF SignUpCreateUser
  <2>4. Unique' /\ Alone'
    BY <1>6, SMT DEF SignUpCreateUser
  <2>5. PasswordsOK' /\ PasswordChangeEndsOtherSessions'
    BY <1>6, SMTT(30) DEF SignUpCreateUser
  <2>6. SessionsHaveUsers' /\ ViewsOK'
    BY <1>6, SMTT(30) DEF SignUpCreateUser, Call, SessionRow
  <2> HIDE DEF TypeOK, OpsOK, CallersOK, IssuedOK, FoundOK, Unique, Alone,
               SessionsHaveUsers, ViewsOK, PasswordsOK, PasswordChangeEndsOtherSessions
  <2> QED
    BY <2>1, <2>2, <2>3, <2>4, <2>5, <2>6
<1>7. ASSUME NEW r \in Requests, SignUpCreateAccount(r)
      PROVE  IInv'
  <2>1. TypeOK' /\ OpsOK' /\ CallersOK' /\ IssuedOK' /\ FoundOK'
    BY <1>7, SMT DEF SignUpCreateAccount
  <2>2. Unique' /\ Alone' /\ SessionsHaveUsers'
    BY <1>7, SMT DEF SignUpCreateAccount
  <2>3. ViewsOK'
    BY <1>7, SMT DEF SignUpCreateAccount
  <2>4. PasswordsOK' /\ PasswordChangeEndsOtherSessions'
    BY <1>7, SMTT(30) DEF SignUpCreateAccount
  <2> HIDE DEF TypeOK, OpsOK, CallersOK, IssuedOK, FoundOK, Unique, Alone,
               SessionsHaveUsers, ViewsOK, PasswordsOK, PasswordChangeEndsOtherSessions
  <2> QED
    BY <2>1, <2>2, <2>3, <2>4
<1>8. ASSUME NEW r \in Requests, SignInFind(r)
      PROVE  IInv'
  <2>1. TypeOK' /\ OpsOK' /\ CallersOK' /\ IssuedOK' /\ FoundOK' /\ Unique' /\ Alone'
         /\ SessionsHaveUsers' /\ PasswordsOK' /\ PasswordChangeEndsOtherSessions'
    BY <1>8, SMTT(30) DEF SignInFind
  <2>2. ViewsOK'
    BY <1>8, SMT DEF SignInFind, Call
  <2> HIDE DEF TypeOK, OpsOK, CallersOK, IssuedOK, FoundOK, Unique, Alone,
               SessionsHaveUsers, ViewsOK, PasswordsOK, PasswordChangeEndsOtherSessions
  <2> QED
    BY <2>1, <2>2
<1>9. ASSUME NEW r \in Requests, SignInVerifyPassword(r)
      PROVE  IInv'
  BY <1>9, SMTT(30) DEF SignInVerifyPassword
<1>10. ASSUME NEW r \in Requests, CreateSession(r)
      PROVE  IInv'
  <2>1. TypeOK'
    <3>1. call[r].password \in Ids
      BY <1>10, SMT DEF CreateSession, Call
    <3>2. ASSUME NEW p \in Ids
          PROVE  [user |-> userId[r], expiresAt |-> now + SessionTTL, opened |-> p]
                   \in SessionRow
      BY <1>10, SMT DEF CreateSession, SessionRow
    <3> QED
      BY <1>10, <3>1, <3>2, SMTT(30) DEF CreateSession
  <2>2. OpsOK' /\ CallersOK' /\ IssuedOK' /\ FoundOK' /\ Unique'
    BY <1>10, SMTT(30) DEF CreateSession
  <2>3. Alone' /\ SessionsHaveUsers'
    BY <1>10, SMT DEF CreateSession
  <2>4. ViewsOK'
    BY <1>10, SMT DEF CreateSession
  <2>5. PasswordsOK' /\ PasswordChangeEndsOtherSessions'
    BY <1>10, SMTT(30) DEF CreateSession
  <2> HIDE DEF TypeOK, OpsOK, CallersOK, IssuedOK, FoundOK, Unique, Alone,
               SessionsHaveUsers, ViewsOK, PasswordsOK, PasswordChangeEndsOtherSessions
  <2> QED
    BY <2>1, <2>2, <2>3, <2>4, <2>5
<1>11. ASSUME NEW r \in Requests, SignOut(r)
      PROVE  IInv'
  BY <1>11, SMTT(30) DEF SignOut
<1>12. ASSUME NEW r \in Requests, RevokeSessionFind(r)
      PROVE  IInv'
  <2>1. TypeOK' /\ OpsOK' /\ CallersOK' /\ IssuedOK' /\ FoundOK'
    BY <1>12, SMT DEF RevokeSessionFind
  <2>2. Unique' /\ Alone' /\ SessionsHaveUsers'
    BY <1>12, SMT DEF RevokeSessionFind
  <2>3. ViewsOK'
    BY <1>12, SMT DEF RevokeSessionFind
  <2>4. PasswordsOK'
    BY <1>12, SMT DEF RevokeSessionFind
  <2>5. PasswordChangeEndsOtherSessions'
    BY <1>12, SMT DEF RevokeSessionFind
  <2> HIDE DEF TypeOK, OpsOK, CallersOK, IssuedOK, FoundOK, Unique, Alone,
               SessionsHaveUsers, ViewsOK, PasswordsOK, PasswordChangeEndsOtherSessions
  <2> QED
    BY <2>1, <2>2, <2>3, <2>4, <2>5
<1>13. ASSUME NEW r \in Requests, RevokeSessionDelete(r)
      PROVE  IInv'
  <2>1. TypeOK' /\ OpsOK' /\ CallersOK' /\ IssuedOK' /\ FoundOK'
    BY <1>13, SMT DEF RevokeSessionDelete
  <2>2. Unique' /\ Alone' /\ SessionsHaveUsers'
    BY <1>13, SMT DEF RevokeSessionDelete
  <2>3. ViewsOK'
    BY <1>13, SMT DEF RevokeSessionDelete
  <2>4. PasswordsOK'
    BY <1>13, SMT DEF RevokeSessionDelete
  <2>5. PasswordChangeEndsOtherSessions'
    BY <1>13, SMT DEF RevokeSessionDelete
  <2> HIDE DEF TypeOK, OpsOK, CallersOK, IssuedOK, FoundOK, Unique, Alone,
               SessionsHaveUsers, ViewsOK, PasswordsOK, PasswordChangeEndsOtherSessions
  <2> QED
    BY <2>1, <2>2, <2>3, <2>4, <2>5
<1>14. ASSUME NEW r \in Requests, RevokeSessions(r)
      PROVE  IInv'
  <2>1. TypeOK' /\ OpsOK' /\ CallersOK' /\ IssuedOK' /\ FoundOK'
    BY <1>14, SMT DEF RevokeSessions
  <2>2. Unique' /\ Alone' /\ SessionsHaveUsers'
    BY <1>14, SMT DEF RevokeSessions
  <2>3. ViewsOK'
    BY <1>14, SMT DEF RevokeSessions
  <2>4. PasswordsOK'
    BY <1>14, SMT DEF RevokeSessions
  <2>5. PasswordChangeEndsOtherSessions'
    BY <1>14, SMTT(30) DEF RevokeSessions
  <2> HIDE DEF TypeOK, OpsOK, CallersOK, IssuedOK, FoundOK, Unique, Alone,
               SessionsHaveUsers, ViewsOK, PasswordsOK, PasswordChangeEndsOtherSessions
  <2> QED
    BY <2>1, <2>2, <2>3, <2>4, <2>5
<1>15. ASSUME NEW r \in Requests, RevokeOtherSessions(r)
      PROVE  IInv'
  <2>1. TypeOK' /\ OpsOK' /\ CallersOK' /\ IssuedOK' /\ FoundOK'
    BY <1>15, SMT DEF RevokeOtherSessions
  <2>2. Unique' /\ Alone' /\ SessionsHaveUsers'
    BY <1>15, SMTT(30) DEF RevokeOtherSessions
  <2>3. ViewsOK' /\ PasswordsOK' /\ PasswordChangeEndsOtherSessions'
    BY <1>15, SMTT(30) DEF RevokeOtherSessions
  <2> HIDE DEF TypeOK, OpsOK, CallersOK, IssuedOK, FoundOK, Unique, Alone,
               SessionsHaveUsers, ViewsOK, PasswordsOK, PasswordChangeEndsOtherSessions
  <2> QED
    BY <2>1, <2>2, <2>3
<1>16. ASSUME NEW r \in Requests, ChangeEmailFind(r)
      PROVE  IInv'
  BY <1>16, SMTT(30) DEF ChangeEmailFind
<1>17. ASSUME NEW r \in Requests, ChangeEmailUpdate(r)
      PROVE  IInv'
  <2>1. TypeOK'
    BY <1>17, SMT DEF ChangeEmailUpdate, Call
  <2>2. OpsOK' /\ CallersOK' /\ IssuedOK' /\ FoundOK'
    BY <1>17, SMT DEF ChangeEmailUpdate
  <2>3. Unique' /\ Alone'
    BY <1>17, SMT DEF ChangeEmailUpdate
  <2>4. PasswordsOK' /\ PasswordChangeEndsOtherSessions'
    BY <1>17, SMTT(30) DEF ChangeEmailUpdate
  <2>5. SessionsHaveUsers' /\ ViewsOK'
    BY <1>17, SMT DEF ChangeEmailUpdate, Call, SessionRow
  <2> HIDE DEF TypeOK, OpsOK, CallersOK, IssuedOK, FoundOK, Unique, Alone,
               SessionsHaveUsers, ViewsOK, PasswordsOK, PasswordChangeEndsOtherSessions
  <2> QED
    BY <2>1, <2>2, <2>3, <2>4, <2>5
<1>18. ASSUME NEW r \in Requests, ChangePasswordVerify(r)
      PROVE  IInv'
  BY <1>18, SMTT(30) DEF ChangePasswordVerify
<1>19. ASSUME NEW r \in Requests, ChangePasswordUpdate(r)
      PROVE  IInv'
  <2>1. TypeOK' /\ OpsOK' /\ CallersOK' /\ IssuedOK' /\ FoundOK'
    BY <1>19, SMT DEF ChangePasswordUpdate
  <2>2. Unique' /\ Alone' /\ SessionsHaveUsers'
    BY <1>19, SMT DEF ChangePasswordUpdate
  <2>3. ViewsOK'
    BY <1>19, SMT DEF ChangePasswordUpdate
  <2>4. PasswordsOK'
    BY <1>19, SMT DEF ChangePasswordUpdate
  <2>5. PasswordChangeEndsOtherSessions'
    BY <1>19, SMTT(30) DEF ChangePasswordUpdate
  <2> HIDE DEF TypeOK, OpsOK, CallersOK, IssuedOK, FoundOK, Unique, Alone,
               SessionsHaveUsers, ViewsOK, PasswordsOK, PasswordChangeEndsOtherSessions
  <2> QED
    BY <2>1, <2>2, <2>3, <2>4, <2>5
<1>20. ASSUME NEW r \in Requests, DeleteUserVerify(r)
      PROVE  IInv'
  BY <1>20, SMTT(30) DEF DeleteUserVerify
<1>21. ASSUME NEW r \in Requests, DeleteUserSessions(r)
      PROVE  IInv'
  BY <1>21, SMTT(30) DEF DeleteUserSessions
<1>22. ASSUME NEW r \in Requests, DeleteUserAccounts(r)
      PROVE  IInv'
  <2>1. TypeOK' /\ OpsOK' /\ CallersOK' /\ IssuedOK' /\ FoundOK'
    BY <1>22, SMT DEF DeleteUserAccounts
  <2>2. Unique' /\ Alone' /\ SessionsHaveUsers'
    BY <1>22, SMT DEF DeleteUserAccounts
  <2>3. ViewsOK' /\ PasswordsOK' /\ PasswordChangeEndsOtherSessions'
    BY <1>22, SMTT(30) DEF DeleteUserAccounts
  <2> HIDE DEF TypeOK, OpsOK, CallersOK, IssuedOK, FoundOK, Unique, Alone,
               SessionsHaveUsers, ViewsOK, PasswordsOK, PasswordChangeEndsOtherSessions
  <2> QED
    BY <2>1, <2>2, <2>3
<1>23. ASSUME NEW r \in Requests, DeleteUserRow(r)
      PROVE  IInv'
  <2>1. TypeOK' /\ OpsOK' /\ CallersOK' /\ IssuedOK'
    BY <1>23, SMT DEF DeleteUserRow
  <2>2. FoundOK' /\ Unique' /\ Alone' /\ PasswordsOK'
         /\ PasswordChangeEndsOtherSessions'
    BY <1>23, SMTT(30) DEF DeleteUserRow
  <2>3. SessionsHaveUsers' /\ ViewsOK'
    BY <1>23, SMT DEF DeleteUserRow, SessionRow
  <2> HIDE DEF TypeOK, OpsOK, CallersOK, IssuedOK, FoundOK, Unique, Alone,
               SessionsHaveUsers, ViewsOK, PasswordsOK, PasswordChangeEndsOtherSessions
  <2> QED
    BY <2>1, <2>2, <2>3
<1> HIDE DEF IInv
<1> QED
  BY <1>0, <1>1, <1>2, <1>3, <1>4, <1>5, <1>6, <1>7, <1>8, <1>9, <1>10, <1>11, <1>12,
     <1>13, <1>14, <1>15, <1>16, <1>17, <1>18, <1>19, <1>20, <1>21, <1>22, <1>23
  DEF Next, Handle

\* Every reachable state satisfies the invariant.
THEOREM Invariance == Spec => []IInv
<1>1. Init => IInv
  BY InitIInv
<1>2. IInv /\ [Next]_vars => IInv'
  BY NextIInv
<1> QED
  BY <1>1, <1>2, PTL DEF Spec

-----------------------------------------------------------------------------
(* The properties                                                           *)

\* The rows, the handlers' variables and the cookies handed out have their types
\* in every reachable state.
THEOREM TypeCorrect == Spec => []TypeOK
<1>1. IInv => TypeOK
  BY DEF IInv
<1> QED
  BY <1>1, Invariance, PTL

\* The addresses of the users determine the users.
LEMMA UniqueEmails == TypeOK /\ Unique => EmailsAreUnique
<1> SUFFICES ASSUME TypeOK, Unique, NEW e \in Emails
             PROVE  Cardinality(WithEmail(e)) <= 1
  BY DEF EmailsAreUnique
<1>1. CASE WithEmail(e) = {}
  BY <1>1, FS_EmptySet
<1>2. CASE WithEmail(e) # {}
  <2>1. PICK i \in Ids : i \in WithEmail(e)
    BY <1>2 DEF WithEmail
  <2>2. WithEmail(e) = {i}
    BY <2>1, ConstantsAssumption DEF Unique, WithEmail
  <2>3. Cardinality({i}) = 1
    BY FS_Singleton, Zenon
  <2> QED
    BY <2>2, <2>3
<1> QED
  BY <1>1, <1>2

\* No session or account outlives its user, no address is shared, and a changed
\* password leaves no session opened with the old one: in every reachable state
\* of the session and account routes.
THEOREM RowsSound == Spec => []RowsAreSound
<1>1. IInv => RowsAreSound
  <2>1. IInv => NoOrphans
    BY DEF IInv, ViewsOK, NoOrphans
  <2> QED
    BY <2>1, UniqueEmails DEF IInv, RowsAreSound
<1> QED
  BY <1>1, Invariance, PTL

\* Only the session's own user, or its expiry, takes a session row away.
LEMMA OwnStep ==
  ASSUME IInv, [Next]_vars, NEW s \in Ids, sessions[s] # None, sessions'[s] = None
  PROVE  \/ Expired(sessions[s])
         \/ \E r \in Requests : pc[r] # pc'[r] /\ userId[r] = sessions[s].user
<1> USE ConstantsAssumption
    DEF IInv, TypeOK, FoundOK, At, Goto, rows, Refused, DeleteSessions, SessionsOf
<1>1. CASE UNCHANGED vars
  BY <1>1 DEF vars
<1>2. CASE Tick
  BY <1>2 DEF Tick
<1>3. ASSUME NEW r \in Requests, NEW c \in Calls(r), Begin(r, c)
      PROVE  FALSE
  BY <1>3 DEF Begin
<1>4. ASSUME NEW r \in Requests, Handle(r)
      PROVE  \/ Expired(sessions[s])
             \/ pc[r] # pc'[r] /\ userId[r] = sessions[s].user
  <2>1. CASE Attach(r)
    BY <2>1, SMT DEF Attach
  <2>2. CASE DropExpired(r)
    BY <2>2, SMT DEF DropExpired
  <2>3. CASE SignUpFind(r)
    BY <2>3, SMT DEF SignUpFind
  <2>4. CASE SignUpCreateUser(r)
    BY <2>4, SMT DEF SignUpCreateUser
  <2>5. CASE SignUpCreateAccount(r)
    BY <2>5, SMT DEF SignUpCreateAccount
  <2>6. CASE SignInFind(r)
    BY <2>6, SMT DEF SignInFind
  <2>7. CASE SignInVerifyPassword(r)
    BY <2>7, SMT DEF SignInVerifyPassword
  <2>8. CASE CreateSession(r)
    BY <2>8, SMT DEF CreateSession, IssuedOK
  <2>9. CASE SignOut(r)
    BY <2>9, SMT DEF SignOut
  <2>10. CASE RevokeSessionFind(r)
    BY <2>10, SMT DEF RevokeSessionFind
  <2>11. CASE RevokeSessionDelete(r)
    BY <2>11, SMT DEF RevokeSessionDelete
  <2>12. CASE RevokeSessions(r)
    BY <2>12, SMT DEF RevokeSessions
  <2>13. CASE RevokeOtherSessions(r)
    BY <2>13, SMT DEF RevokeOtherSessions
  <2>14. CASE ChangeEmailFind(r)
    BY <2>14, SMT DEF ChangeEmailFind
  <2>15. CASE ChangeEmailUpdate(r)
    BY <2>15, SMT DEF ChangeEmailUpdate
  <2>16. CASE ChangePasswordVerify(r)
    BY <2>16, SMT DEF ChangePasswordVerify
  <2>17. CASE ChangePasswordUpdate(r)
    BY <2>17, SMT DEF ChangePasswordUpdate
  <2>18. CASE DeleteUserVerify(r)
    BY <2>18, SMT DEF DeleteUserVerify
  <2>19. CASE DeleteUserSessions(r)
    BY <2>19, SMT DEF DeleteUserSessions
  <2>20. CASE DeleteUserAccounts(r)
    BY <2>20, SMT DEF DeleteUserAccounts
  <2>21. CASE DeleteUserRow(r)
    BY <2>21, SMT DEF DeleteUserRow
  <2> QED
    BY <1>4, <2>1, <2>2, <2>3, <2>4, <2>5, <2>6, <2>7, <2>8, <2>9, <2>10, <2>11,
       <2>12, <2>13, <2>14, <2>15, <2>16, <2>17, <2>18, <2>19, <2>20, <2>21 DEF Handle
<1> QED
  BY <1>1, <1>2, <1>3, <1>4, Zenon DEF Next

\* A token whose row is gone is attached to no request and gets no row again.
LEMMA GoneStep ==
  ASSUME IInv, [Next]_vars, NEW s \in issued, sessions[s] = None
  PROVE  /\ sessions'[s] = None
         /\ \A q \in Requests : session'[q] = s => session[q] = s
<1> USE ConstantsAssumption
    DEF IInv, TypeOK, IssuedOK, At, Goto, rows, Refused, DeleteSessions
<1> DEFINE Goal == /\ sessions'[s] = None
                   /\ \A q \in Requests : session'[q] = s => session[q] = s
<1>1. CASE UNCHANGED vars
  BY <1>1 DEF vars
<1>2. CASE Tick
  BY <1>2 DEF Tick
<1>3. ASSUME NEW r \in Requests, NEW c \in Calls(r), Begin(r, c)
      PROVE  Goal
  BY <1>3 DEF Begin
<1>4. ASSUME NEW r \in Requests, Handle(r)
      PROVE  Goal
  <2>1. CASE Attach(r)
    BY <2>1, SMT DEF Attach, RowOf
  <2>2. CASE DropExpired(r)
    BY <2>2, SMT DEF DropExpired
  <2>3. CASE SignUpFind(r)
    BY <2>3, SMT DEF SignUpFind
  <2>4. CASE SignUpCreateUser(r)
    BY <2>4, SMT DEF SignUpCreateUser
  <2>5. CASE SignUpCreateAccount(r)
    BY <2>5, SMT DEF SignUpCreateAccount
  <2>6. CASE SignInFind(r)
    BY <2>6, SMT DEF SignInFind
  <2>7. CASE SignInVerifyPassword(r)
    BY <2>7, SMT DEF SignInVerifyPassword
  <2>8. CASE CreateSession(r)
    BY <2>8, SMT DEF CreateSession
  <2>9. CASE SignOut(r)
    BY <2>9, SMT DEF SignOut
  <2>10. CASE RevokeSessionFind(r)
    BY <2>10, SMT DEF RevokeSessionFind
  <2>11. CASE RevokeSessionDelete(r)
    BY <2>11, SMT DEF RevokeSessionDelete
  <2>12. CASE RevokeSessions(r)
    BY <2>12, SMT DEF RevokeSessions
  <2>13. CASE RevokeOtherSessions(r)
    BY <2>13, SMT DEF RevokeOtherSessions
  <2>14. CASE ChangeEmailFind(r)
    BY <2>14, SMT DEF ChangeEmailFind
  <2>15. CASE ChangeEmailUpdate(r)
    BY <2>15, SMT DEF ChangeEmailUpdate
  <2>16. CASE ChangePasswordVerify(r)
    BY <2>16, SMT DEF ChangePasswordVerify
  <2>17. CASE ChangePasswordUpdate(r)
    BY <2>17, SMT DEF ChangePasswordUpdate
  <2>18. CASE DeleteUserVerify(r)
    BY <2>18, SMT DEF DeleteUserVerify
  <2>19. CASE DeleteUserSessions(r)
    BY <2>19, SMT DEF DeleteUserSessions
  <2>20. CASE DeleteUserAccounts(r)
    BY <2>20, SMT DEF DeleteUserAccounts
  <2>21. CASE DeleteUserRow(r)
    BY <2>21, SMT DEF DeleteUserRow
  <2> QED
    BY <1>4, <2>1, <2>2, <2>3, <2>4, <2>5, <2>6, <2>7, <2>8, <2>9, <2>10, <2>11,
       <2>12, <2>13, <2>14, <2>15, <2>16, <2>17, <2>18, <2>19, <2>20, <2>21 DEF Handle
<1> QED
  BY <1>1, <1>2, <1>3, <1>4, Zenon DEF Next

\* Along every behaviour a session ends by expiry or by its own user's doing, and
\* once it is gone its cookie opens nothing, for requests under way as for later ones.
THEOREM SessionsEnd == Spec => SessionsEndForGood
<1>1. IInv /\ [Next]_vars =>
        [\A s \in Ids :
           sessions[s] # None /\ sessions'[s] = None =>
             \/ Expired(sessions[s])
             \/ \E r \in Requests : pc[r] # pc'[r] /\ userId[r] = sessions[s].user]_vars
  BY OwnStep
<1>2. IInv /\ [Next]_vars =>
        [\A s \in issued :
           sessions[s] = None =>
             /\ sessions'[s] = None
             /\ \A r \in Requests : session'[r] = s => session[r] = s]_vars
  BY GoneStep
<1> QED
  BY <1>1, <1>2, Invariance, PTL
  DEF Spec, SessionsEndForGood, OnlyOwnSessionsAreDeleted, GoneSessionsStayGone
=============================================================================
