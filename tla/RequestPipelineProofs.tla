------------------------ MODULE RequestPipelineProofs ------------------------
(***************************************************************************)
(* Proofs about RequestPipeline, for all requests, processes, users, rate- *)
(* limit rules, plugins with inits, scenarios of calls and configurations. *)
(***************************************************************************)
EXTENDS RequestPipeline, FiniteSetTheorems, TLAPS

-----------------------------------------------------------------------------
(* The inductive invariant                                                  *)

\* Where a request is once its process is ready, once it was dispatched, once the
\* configuration and its session were looked at, and once it was screened.
Handled  == {"handler", "create-session", "find-config", "write-config", "after"}
Gated    == {"screen"} \cup Handled
Admitted == {"expire", "limit", "bearer", "expire-bearer", "gate"} \cup Gated
Inside   == {"dispatch", "respond"} \cup Admitted
Over     == {"after", "respond", "answered", "lost"}

\* What a request's stage tells of its call.
StageOK(r) ==
  LET c == call[r] IN
  /\ pc[r] = "idle" => c = None /\ session[r] = None /\ answer[r].status = 0
  /\ pc[r] # "idle" => c \in Call
  /\ pc[r] \in {"page", "drop"} => c.path = "page" /\ answer[r].status = 0 /\ session[r] = None
  /\ pc[r] \in Inside \cup {"init", "initialising"} => c.path # "page"
  /\ pc[r] \in Admitted => Registered(c.path) /\ ~Untrusted(c)
  /\ pc[r] \in Gated =>
       /\ c.path \in EmailPasswordPaths => r \notin barred
       /\ RequiresSession(c.path) => session[r] # None
  /\ pc[r] \in Handled =>
       /\ config.captcha /\ c.path \in CaptchaPaths => c.captcha = "good"
       /\ config.pwned /\ c.path \in PasswordPaths => ~c.pwned
  /\ pc[r] = "create-session" => c.path \in {"sign-up", "sign-in"}
  /\ pc[r] \in {"create-session", "after"} /\ c.path = "sign-up" => users[r] # None
  /\ pc[r] \in {"find-config", "write-config"} => c.path = "auth-methods"
  /\ pc[r] \in {"after", "respond"} => answer[r].status # 0

StagesOK == \A r \in Requests : StageOK(r)

\* A process that is ready, or on its way there, has what its inits gave it.
ProcessOK(w) ==
  LET p == worker[w] IN
  /\ p.lock # None => /\ pc[p.lock] = "initialising" /\ call[p.lock].worker = w
                      /\ p.inits < Len(InitPlugins)
  /\ config.provider /\ (\E i \in 1 .. p.inits : InitPlugins[i] = "custom-session")
       => p.provider

ProcessesOK ==
  /\ \A w \in Workers : ProcessOK(w)
  /\ \A r \in Requests :
       /\ pc[r] = "initialising" => Mine(r).lock = r
       /\ pc[r] \in Inside => Mine(r).done

\* A session that there is or was: its user is there, and its request cannot make it again.
Opened(s) ==
  /\ s \in Requests => pc[s] \in Over /\ call[s].path \in {"sign-up", "sign-in"}
  /\ users[SessionUser(s)] # None

\* Sessions are made after every check, and stay where they were put.
SessionsOK ==
  /\ \A s \in Ids : sessions[s] # None => Opened(s) /\ sessions[s].place = Place
  /\ \A r \in Requests : sessions[r] # None =>
       LET c == call[r] IN
       /\ ~Untrusted(c) /\ r \notin barred
       /\ config.captcha => c.captcha = "good"
       /\ config.pwned /\ c.path = "sign-up" => ~c.pwned

UsersOK ==
  /\ \A u \in Users : users[u] # None
  /\ \A u \in Ids : users[u] # None /\ users[u].admin => u \in Admins

\* A session that had expired when a request was sent is not the request's.
LateOK ==
  /\ \A r \in Requests, s \in Ids : session[r] = s => Opened(s) /\ <<r, s>> \notin late
  /\ \A r \in Requests, s \in Ids : <<r, s>> \in late =>
       /\ pc[r] # "idle" /\ Opened(s)
       /\ sessions[s] # None => Expired(s)
  /\ \A r \in Requests : call[r] # None /\ call[r].path = "page" /\ answer[r].status = 200 =>
       session[r] # None

\* Who writes the configuration, and has written it, is an administrator.
ByAdmin(r) ==
  /\ session[r] # None /\ SessionUser(session[r]) \in Admins
  /\ call[r].path = "auth-methods" /\ ~Untrusted(call[r])

WritersOK ==
  /\ \A r \in Requests : pc[r] \in {"find-config", "write-config"} => ByAdmin(r)
  /\ \A row \in methods : pc[row.by] \in Over /\ ByAdmin(row.by)

\* As long as no two writes overlapped there is one row at most, which whoever is about
\* to write has found, and it says what was last written.
SettingOK ==
  /\ setting # "unclear" =>
       /\ methods = {} \/ \E row \in methods : methods = {row}
       /\ \A r \in Requests : pc[r] = "write-config" =>
            IF found[r] = None THEN methods = {}
            ELSE \E row \in methods : methods = {row} /\ row.id = found[r]
  /\ setting = "off" => methods # {} /\ \A row \in methods : ~row.enabled
  /\ barred # {} => setting = "off"
  /\ \A r \in barred : pc[r] # "idle"
  /\ setting # "on" => config.gate

\* Those who passed in a counter's window, and in as much of what was before it as a window
\* that ends in it covers.
Window(b) == Rules[b.path].window
Passed(b) == {p \in passed : SameKey(p, b)}
Within(b) == {p \in Passed(b) : p.at + Window(b) >= b.until}
Before(b) == {p \in Passed(b) : /\ p.at + Window(b) < b.until
                                /\ p.at + Window(b) + Window(b) > b.until}

\* A counter opened its window with a hit that passed, has counted whoever passed in it, and
\* followed on another that had opened with one.
CounterOK(b) ==
  /\ b.count >= 1 /\ b.until >= Window(b) /\ b.until <= now + Window(b)
  /\ \A p \in Passed(b) : p.at < b.until
  /\ \E p \in Passed(b) : p.at + Window(b) = b.until
  /\ Cardinality(Within(b)) <= b.count /\ Cardinality(Within(b)) <= Rules[b.path].max
  /\ Cardinality(Before(b)) <= Rules[b.path].max - 1

CountersOK ==
  /\ IsFiniteSet(passed)
  /\ \A p \in passed : p.at <= now /\ \E b \in buckets : SameKey(p, b)
  /\ \A b \in buckets : CounterOK(b)

IInv ==
  /\ TypeOK /\ StagesOK /\ ProcessesOK /\ SessionsOK /\ UsersOK /\ LateOK /\ WritersOK
  /\ SettingOK /\ CountersOK /\ QuotasHold

-----------------------------------------------------------------------------
(* Constants and types                                                      *)

\* What the configuration, the calls and the rules consist of.
LEMMA ConfigTypes ==
  ASSUME TypeOK
  PROVE  /\ config \in Config
         /\ Calls[config.scenario] \subseteq Call
         /\ config.provider \in BOOLEAN /\ config.captcha \in BOOLEAN
         /\ config.pwned \in BOOLEAN /\ config.gate \in BOOLEAN /\ config.eager \in BOOLEAN
         /\ config.fields \in BOOLEAN /\ config.last \in BOOLEAN
         /\ config.failures \in Nat /\ config.restarts \in Nat /\ config.ticks \in Nat
PROOF
  <1>1. config \in Config
    BY ConstantsAssumption DEF TypeOK
  <1>2. config.scenario \in DOMAIN Calls
    BY <1>1 DEF Config
  <1> QED BY <1>1, <1>2, ConstantsAssumption DEF Config

\* The fields of a call.
LEMMA CallTypes ==
  ASSUME NEW c \in Call
  PROVE  /\ c.worker \in Workers /\ c.path \in Paths /\ c.who \in Users
         /\ c.cookie \in Ids \cup {None} /\ c.bearer \in Ids \cup {None} /\ c.ip \in Addresses
         /\ c.body \in BOOLEAN /\ c.pwned \in BOOLEAN /\ c.enabled \in BOOLEAN
         /\ c.captcha \in {"none", "good", "bad", "down"} /\ c # None
PROOF BY NoneAssumption DEF Call

\* A request that has arrived has a call.
LEMMA Called ==
  ASSUME TypeOK, StagesOK, NEW r \in Requests, pc[r] # "idle"
  PROVE  call[r] \in Call
PROOF BY DEF StagesOK, StageOK

-----------------------------------------------------------------------------
(* What steps do                                                            *)

\* A step of request r writes r's own variables and one of the tables at most.
Frame(r) ==
  /\ UNCHANGED <<config, now, call, late, restarts>>
  /\ UNCHANGED worker \/ Enter(r) \/ Initialise(r) \/ InitFails(r)
  /\ UNCHANGED <<buckets, passed>> \/ Limit(r)
  /\ UNCHANGED users \/ SignUp(r) \/ After(r) \/ Respond(r)
  /\ UNCHANGED sessions \/ Expire(r) \/ CreateSession(r) \/ SignOut(r) \/ DropExpired(r)
  /\ UNCHANGED <<methods, setting, barred>> \/ WriteMethods(r)
  /\ UNCHANGED session \/ Dispatch(r) \/ Bearer(r) \/ ResolveSession(r)
  /\ UNCHANGED cookies \/ Expire(r) \/ CreateSession(r) \/ SignOut(r)
  /\ UNCHANGED found \/ FindMethods(r)
  /\ UNCHANGED failures \/ InitFails(r)

\* Which actions write what.
LEMMA Frames ==
  ASSUME NEW r, Step(r) \/ InitFails(r)
  PROVE  Frame(r)
PROOF
  <1>1. CASE Enter(r)
    BY <1>1 DEF Frame, Enter, SetWorker
  <1>2. CASE Initialise(r)
    BY <1>2 DEF Frame, Initialise, SetWorker
  <1>3. CASE Dispatch(r)
    BY <1>3 DEF Frame, Dispatch, Refuse, AttachSession
  <1>4. CASE Expire(r)
    BY <1>4 DEF Frame, Expire, Revoke
  <1>5. CASE Limit(r)
    BY <1>5 DEF Frame, Limit, Decode, Refuse
  <1>6. CASE Bearer(r)
    BY <1>6 DEF Frame, Bearer
  <1>7. CASE Gate(r)
    BY <1>7 DEF Frame, Gate, Refuse
  <1>8. CASE Screen(r)
    BY <1>8 DEF Frame, Screen, Refuse
  <1>9. CASE SignUp(r)
    BY <1>9 DEF Frame, SignUp, Handling
  <1>10. CASE SignIn(r)
    BY <1>10 DEF Frame, SignIn, Handling, Refuse
  <1>11. CASE CreateSession(r)
    BY <1>11 DEF Frame, CreateSession, Succeed
  <1>12. CASE SignOut(r)
    BY <1>12 DEF Frame, SignOut, Handling, Refuse, Revoke, Succeed
  <1>13. CASE GetSession(r)
    BY <1>13 DEF Frame, GetSession, Handling, Succeed
  <1>14. CASE RequireAdmin(r)
    BY <1>14 DEF Frame, RequireAdmin, Handling, Refuse
  <1>15. CASE FindMethods(r)
    BY <1>15 DEF Frame, FindMethods
  <1>16. CASE WriteMethods(r)
    BY <1>16 DEF Frame, WriteMethods, Succeed
  <1>17. CASE After(r)
    BY <1>17 DEF Frame, After, Refuse
  <1>18. CASE Respond(r)
    BY <1>18 DEF Frame, Respond
  <1>19. CASE ResolveSession(r)
    BY <1>19 DEF Frame, ResolveSession
  <1>20. CASE DropExpired(r)
    BY <1>20 DEF Frame, DropExpired
  <1>21. CASE InitFails(r)
    BY <1>21 DEF Frame, InitFails, SetWorker
  <1> QED
    BY <1>1, <1>2, <1>3, <1>4, <1>5, <1>6, <1>7, <1>8, <1>9, <1>10, <1>11, <1>12, <1>13, <1>14,
       <1>15, <1>16, <1>17, <1>18, <1>19, <1>20, <1>21 DEF Step

\* The stages of a request, and the action that takes it from each to the next.
Moved(r) ==
  /\ Enter(r) => pc[r] = "init" /\ pc'[r] \in {"dispatch", "initialising"}
  /\ Initialise(r) => pc[r] = "initialising" /\ pc'[r] \in {"dispatch", "initialising"}
  /\ InitFails(r) => pc[r] = "initialising" /\ pc'[r] = "lost"
  /\ Dispatch(r) => pc[r] = "dispatch" /\ pc'[r] \in {"answered", "respond", "limit", "expire"}
  /\ Expire(r) => IF pc[r] = "expire" THEN pc'[r] = "limit"
         ELSE pc[r] = "expire-bearer" /\ pc'[r] = "gate"
  /\ Limit(r) => pc[r] = "limit" /\ pc'[r] \in {"respond", "bearer"}
  /\ Bearer(r) => pc[r] = "bearer" /\ pc'[r] \in {"gate", "expire-bearer"}
  /\ Gate(r) => pc[r] = "gate" /\ pc'[r] \in {"respond", "screen"}
  /\ Screen(r) => pc[r] = "screen" /\ pc'[r] \in {"respond", "handler"}
  /\ SignUp(r) => pc[r] = "handler" /\ pc'[r] = "create-session"
  /\ SignIn(r) => pc[r] = "handler" /\ pc'[r] \in {"create-session", "respond"}
  /\ CreateSession(r) => pc[r] = "create-session" /\ pc'[r] = "after"
  /\ SignOut(r) => pc[r] = "handler" /\ pc'[r] \in {"after", "respond"}
  /\ GetSession(r) => pc[r] = "handler" /\ pc'[r] = "after"
  /\ RequireAdmin(r) => pc[r] = "handler" /\ pc'[r] \in {"find-config", "respond"}
  /\ FindMethods(r) => pc[r] = "find-config" /\ pc'[r] = "write-config"
  /\ WriteMethods(r) => pc[r] = "write-config" /\ pc'[r] = "after"
  /\ After(r) => pc[r] = "after" /\ pc'[r] = "respond"
  /\ Respond(r) => pc[r] = "respond" /\ pc'[r] = "answered"
  /\ ResolveSession(r) => pc[r] = "page" /\ pc'[r] \in {"drop", "answered"}
  /\ DropExpired(r) => pc[r] = "drop" /\ pc'[r] = "answered"

\* A step of a request moves that request, from stage to stage.
LEMMA Moves ==
  ASSUME TypeOK, NEW r \in Requests, Step(r) \/ InitFails(r)
  PROVE  /\ Moved(r) /\ pc[r] # "idle"
         /\ pc' = [pc EXCEPT ![r] = pc'[r]] /\ pc'[r] \in PCs
PROOF
  <1>1. pc \in [Requests -> PCs]
    BY DEF TypeOK
  <1>2. Enter(r) =>
         /\ pc[r] = "init" /\ pc'[r] \in {"dispatch", "initialising"}
         /\ \E to : pc' = [pc EXCEPT ![r] = to]
    BY <1>1 DEF Enter, At, Goto, SetWorker
  <1>3. Initialise(r) =>
         /\ pc[r] = "initialising" /\ pc'[r] \in {"dispatch", "initialising"}
         /\ \E to : pc' = [pc EXCEPT ![r] = to]
    BY <1>1 DEF Initialise, At, Goto, SetWorker
  <1>4. InitFails(r) =>
         /\ pc[r] = "initialising" /\ pc'[r] = "lost"
         /\ \E to : pc' = [pc EXCEPT ![r] = to]
    BY <1>1 DEF InitFails, At, Goto, SetWorker
  <1>5. Dispatch(r) =>
         /\ pc[r] = "dispatch" /\ pc'[r] \in {"answered", "respond", "limit", "expire"}
         /\ \E to : pc' = [pc EXCEPT ![r] = to]
    BY <1>1 DEF Dispatch, At, Goto, Refuse, AttachSession
  <1>6. Expire(r) =>
         /\ (IF pc[r] = "expire" THEN pc'[r] = "limit"
             ELSE pc[r] = "expire-bearer" /\ pc'[r] = "gate")
         /\ \E to : pc' = [pc EXCEPT ![r] = to]
    BY <1>1 DEF Expire, At, Goto, Revoke
  <1>7. Limit(r) =>
         /\ pc[r] = "limit" /\ pc'[r] \in {"respond", "bearer"}
         /\ \E to : pc' = [pc EXCEPT ![r] = to]
    BY <1>1 DEF Limit, At, Goto, Decode, Refuse
  <1>8. Bearer(r) =>
         /\ pc[r] = "bearer" /\ pc'[r] \in {"gate", "expire-bearer"}
         /\ \E to : pc' = [pc EXCEPT ![r] = to]
    BY <1>1 DEF Bearer, At, Goto
  <1>9. Gate(r) =>
         /\ pc[r] = "gate" /\ pc'[r] \in {"respond", "screen"}
         /\ \E to : pc' = [pc EXCEPT ![r] = to]
    BY <1>1 DEF Gate, At, Goto, Refuse
  <1>10. Screen(r) =>
         /\ pc[r] = "screen" /\ pc'[r] \in {"respond", "handler"}
         /\ \E to : pc' = [pc EXCEPT ![r] = to]
    BY <1>1 DEF Screen, At, Goto, Refuse
  <1>11. SignUp(r) =>
         /\ pc[r] = "handler" /\ pc'[r] = "create-session"
         /\ \E to : pc' = [pc EXCEPT ![r] = to]
    BY <1>1 DEF SignUp, At, Goto, Handling
  <1>12. SignIn(r) =>
         /\ pc[r] = "handler" /\ pc'[r] \in {"create-session", "respond"}
         /\ \E to : pc' = [pc EXCEPT ![r] = to]
    BY <1>1 DEF SignIn, At, Goto, Handling, Refuse
  <1>13. CreateSession(r) =>
         /\ pc[r] = "create-session" /\ pc'[r] = "after"
         /\ \E to : pc' = [pc EXCEPT ![r] = to]
    BY <1>1 DEF CreateSession, At, Goto, Succeed
  <1>14. SignOut(r) =>
         /\ pc[r] = "handler" /\ pc'[r] \in {"after", "respond"}
         /\ \E to : pc' = [pc EXCEPT ![r] = to]
    BY <1>1 DEF SignOut, At, Goto, Handling, Refuse, Revoke, Succeed
  <1>15. GetSession(r) =>
         /\ pc[r] = "handler" /\ pc'[r] = "after"
         /\ \E to : pc' = [pc EXCEPT ![r] = to]
    BY <1>1 DEF GetSession, At, Goto, Handling, Succeed
  <1>16. RequireAdmin(r) =>
         /\ pc[r] = "handler" /\ pc'[r] \in {"find-config", "respond"}
         /\ \E to : pc' = [pc EXCEPT ![r] = to]
    BY <1>1 DEF RequireAdmin, At, Goto, Handling, Refuse
  <1>17. FindMethods(r) =>
         /\ pc[r] = "find-config" /\ pc'[r] = "write-config"
         /\ \E to : pc' = [pc EXCEPT ![r] = to]
    BY <1>1 DEF FindMethods, At, Goto
  <1>18. WriteMethods(r) =>
         /\ pc[r] = "write-config" /\ pc'[r] = "after"
         /\ \E to : pc' = [pc EXCEPT ![r] = to]
    BY <1>1 DEF WriteMethods, At, Goto, Succeed
  <1>19. After(r) =>
         /\ pc[r] = "after" /\ pc'[r] = "respond"
         /\ \E to : pc' = [pc EXCEPT ![r] = to]
    BY <1>1 DEF After, At, Goto, Refuse
  <1>20. Respond(r) =>
         /\ pc[r] = "respond" /\ pc'[r] = "answered"
         /\ \E to : pc' = [pc EXCEPT ![r] = to]
    BY <1>1 DEF Respond, At, Goto
  <1>21. ResolveSession(r) =>
         /\ pc[r] = "page" /\ pc'[r] \in {"drop", "answered"}
         /\ \E to : pc' = [pc EXCEPT ![r] = to]
    BY <1>1 DEF ResolveSession, At, Goto
  <1>22. DropExpired(r) =>
         /\ pc[r] = "drop" /\ pc'[r] = "answered"
         /\ \E to : pc' = [pc EXCEPT ![r] = to]
    BY <1>1 DEF DropExpired, At, Goto
  <1>23. Step(r) \/ InitFails(r) =>
           pc[r] # "idle" /\ pc'[r] \in PCs /\ \E to : pc' = [pc EXCEPT ![r] = to]
    BY <1>2, <1>3, <1>4, <1>5, <1>6, <1>7, <1>8, <1>9, <1>10, <1>11, <1>12, <1>13, <1>14, <1>15,
       <1>16, <1>17, <1>18, <1>19, <1>20, <1>21, <1>22, SMT DEF Step, PCs
  <1>24. pc' = [pc EXCEPT ![r] = pc'[r]]
    BY <1>1, <1>23
  <1>25. Moved(r)
    BY <1>2, <1>3, <1>4, <1>5, <1>6, <1>7, <1>8, <1>9, <1>10, <1>11, <1>12, <1>13, <1>14, <1>15,
       <1>16, <1>17, <1>18, <1>19, <1>20, <1>21, <1>22 DEF Moved
  <1> QED BY <1>23, <1>24, <1>25

\* What a step leaves of the other requests' variables, of users and of sessions.
LEMMA Others ==
  ASSUME TypeOK, NEW r \in Requests, Step(r) \/ InitFails(r)
  PROVE  /\ \A q \in Requests \ {r} :
              /\ pc'[q] = pc[q] /\ session'[q] = session[q] /\ cookies'[q] = cookies[q]
              /\ found'[q] = found[q] /\ answer'[q] = answer[q]
         /\ \A s \in Ids : sessions'[s] \in {sessions[s], None} \/ (CreateSession(r) /\ s = r)
PROOF
  <1>1. /\ pc \in [Requests -> PCs] /\ session \in [Requests -> Ids \cup {None}]
        /\ cookies \in [Requests -> Seq(Ids \cup {None})]
        /\ found \in [Requests -> Requests \cup {None}]
        /\ DOMAIN answer = Requests /\ DOMAIN sessions = Ids
    BY DEF TypeOK
  <1>2. Frame(r)
    BY Frames
  <1>3. \A q \in Requests \ {r} : pc'[q] = pc[q]
    BY <1>1, Moves
  <1>4. \A q \in Requests \ {r} : session'[q] = session[q]
    <2>1. Dispatch(r) => \A q \in Requests \ {r} : session'[q] = session[q]
      BY <1>1 DEF Dispatch, AttachSession, Refuse, Goto
    <2>2. Bearer(r) => \A q \in Requests \ {r} : session'[q] = session[q]
      BY <1>1 DEF Bearer
    <2>3. ResolveSession(r) => \A q \in Requests \ {r} : session'[q] = session[q]
      BY <1>1 DEF ResolveSession
    <2> QED BY <1>2, <2>1, <2>2, <2>3 DEF Frame
  <1>5. \A q \in Requests \ {r} : cookies'[q] = cookies[q]
    BY <1>1, <1>2 DEF Frame, Expire, CreateSession, SignOut, Revoke
  <1>6. \A q \in Requests \ {r} : found'[q] = found[q]
    BY <1>1, <1>2 DEF Frame, FindMethods
  <1>7. \A q \in Requests \ {r} : answer'[q] = answer[q]
    <2>1. Enter(r) => \A q \in Requests \ {r} : answer'[q] = answer[q]
      BY <1>1 DEF Enter, SetWorker
    <2>2. Initialise(r) => \A q \in Requests \ {r} : answer'[q] = answer[q]
      BY <1>1 DEF Initialise, SetWorker
    <2>3. InitFails(r) => \A q \in Requests \ {r} : answer'[q] = answer[q]
      BY <1>1 DEF InitFails, SetWorker
    <2>4. Dispatch(r) => \A q \in Requests \ {r} : answer'[q] = answer[q]
      BY <1>1 DEF Dispatch, Refuse, AttachSession
    <2>5. Expire(r) => \A q \in Requests \ {r} : answer'[q] = answer[q]
      BY <1>1 DEF Expire, Revoke
    <2>6. Limit(r) => \A q \in Requests \ {r} : answer'[q] = answer[q]
      BY <1>1 DEF Limit, Decode, Refuse
    <2>7. Bearer(r) => \A q \in Requests \ {r} : answer'[q] = answer[q]
      BY <1>1 DEF Bearer
    <2>8. Gate(r) => \A q \in Requests \ {r} : answer'[q] = answer[q]
      BY <1>1 DEF Gate, Refuse
    <2>9. Screen(r) => \A q \in Requests \ {r} : answer'[q] = answer[q]
      BY <1>1 DEF Screen, Refuse
    <2>10. SignUp(r) => \A q \in Requests \ {r} : answer'[q] = answer[q]
      BY <1>1 DEF SignUp, Handling
    <2>11. SignIn(r) => \A q \in Requests \ {r} : answer'[q] = answer[q]
      BY <1>1 DEF SignIn, Handling, Refuse
    <2>12. CreateSession(r) => \A q \in Requests \ {r} : answer'[q] = answer[q]
      BY <1>1 DEF CreateSession, Succeed
    <2>13. SignOut(r) => \A q \in Requests \ {r} : answer'[q] = answer[q]
      BY <1>1 DEF SignOut, Handling, Refuse, Revoke, Succeed
    <2>14. GetSession(r) => \A q \in Requests \ {r} : answer'[q] = answer[q]
      BY <1>1 DEF GetSession, Handling, Succeed
    <2>15. RequireAdmin(r) => \A q \in Requests \ {r} : answer'[q] = answer[q]
      BY <1>1 DEF RequireAdmin, Handling, Refuse
    <2>16. FindMethods(r) => \A q \in Requests \ {r} : answer'[q] = answer[q]
      BY <1>1 DEF FindMethods
    <2>17. WriteMethods(r) => \A q \in Requests \ {r} : answer'[q] = answer[q]
      BY <1>1 DEF WriteMethods, Succeed
    <2>18. After(r) => \A q \in Requests \ {r} : answer'[q] = answer[q]
      BY <1>1 DEF After, Refuse
    <2>19. Respond(r) => \A q \in Requests \ {r} : answer'[q] = answer[q]
      BY <1>1 DEF Respond
    <2>20. ResolveSession(r) => \A q \in Requests \ {r} : answer'[q] = answer[q]
      BY <1>1 DEF ResolveSession
    <2>21. DropExpired(r) => \A q \in Requests \ {r} : answer'[q] = answer[q]
      BY <1>1 DEF DropExpired
    <2> QED BY <2>1, <2>2, <2>3, <2>4, <2>5, <2>6, <2>7, <2>8, <2>9, <2>10, <2>11, <2>12, <2>13,
               <2>14, <2>15, <2>16, <2>17, <2>18, <2>19, <2>20, <2>21 DEF Step
  <1>8. \A s \in Ids : sessions'[s] \in {sessions[s], None} \/ (CreateSession(r) /\ s = r)
    <2>1. Expire(r) \/ SignOut(r) \/ DropExpired(r) => \/ UNCHANGED sessions
                                                     \/ \E t, place : sessions' = Without(t, place)
      BY DEF Expire, SignOut, DropExpired, Revoke
    <2>2. \A t, place : \/ Without(t, place) = sessions
                        \/ Without(t, place) = [sessions EXCEPT ![t] = None]
      BY DEF Without
    <2>3. CreateSession(r) => \A s \in Ids : sessions'[s] = sessions[s] \/ s = r
      BY <1>1 DEF CreateSession
    <2> QED BY <1>1, <1>2, <2>1, <2>2, <2>3 DEF Frame
  <1> QED BY <1>3, <1>4, <1>5, <1>6, <1>7, <1>8

\* Users stay, with the rights that they have.
LEMMA UsersStep ==
  ASSUME TypeOK, StagesOK, NEW r \in Requests, Step(r) \/ InitFails(r)
  PROVE  /\ users' \in [Ids -> UserRow \cup {None}]
         /\ \A u \in Ids : users[u] # None => users'[u] # None
         /\ \A u \in Ids : users'[u] # None =>
              \/ users[u] # None /\ users'[u].admin = users[u].admin
              \/ u = r /\ ~users'[u].admin
         /\ SignUp(r) => users'[r] # None
PROOF
  <1>1. users \in [Ids -> UserRow \cup {None}] /\ r \in Ids
    BY DEF TypeOK, Ids
  <1>2. None \notin UserRow
    BY NoneAssumption
  <1>3. CASE SignUp(r)
    <2> PICK row : row = [admin |-> FALSE, complete |-> FALSE, method |-> None]
      OBVIOUS
    <2>1. users' = [users EXCEPT ![r] = row] /\ row \in UserRow /\ ~row.admin
      BY <1>3 DEF SignUp, UserRow
    <2> QED BY <1>1, <1>2, <2>1
  <1>4. CASE After(r) /\ ~UNCHANGED users
    <2>1. pc[r] = "after" /\ call[r].path = "sign-up"
                                 /\ users' = [users EXCEPT ![r].complete = TRUE]
      BY <1>4 DEF After, At, SignUpPaths
    <2>2. users[r] \in UserRow
      BY <1>1, <2>1 DEF StagesOK, StageOK
    <2> PICK row : row = [users[r] EXCEPT !.complete = TRUE]
      OBVIOUS
    <2>3. row \in UserRow
      BY <2>2, Zenon DEF UserRow
    <2>4. row.admin = users[r].admin
      BY <2>2 DEF UserRow
    <2>5. users' = [users EXCEPT ![r] = row]
      BY <2>1
    <2> QED BY <1>1, <1>2, <2>2, <2>3, <2>4, <2>5, Moves DEF Moved
  <1>5. CASE Respond(r)
    <2>1. users' = Remember(r)
      BY <1>5 DEF Respond
    <2>2. Method(call[r].path) \in {"email", None}
      BY DEF Method
    <2>3. ASSUME NEW row \in UserRow
          PROVE  /\ [row EXCEPT !.method = Method(call[r].path)] \in UserRow
                 /\ [row EXCEPT !.method = Method(call[r].path)].admin = row.admin
      <3>1. [row EXCEPT !.method = Method(call[r].path)] \in UserRow
        BY <2>2, Zenon DEF UserRow
      <3> QED BY <3>1 DEF UserRow
    <2>4. \A u \in Ids : users'[u] = users[u] \/ (users[u] # None /\
                           users'[u] = [users[u] EXCEPT !.method = Method(call[r].path)])
      BY <2>1, Zenon DEF Remember
    <2>5. DOMAIN users' = Ids /\ users' = [u \in Ids |-> users'[u]]
      BY <2>1, Zenon DEF Remember
    <2>6. ~SignUp(r)
      BY <1>5, Moves DEF Moved
    <2>7. ASSUME NEW u \in Ids
          PROVE  users'[u] \in UserRow \cup {None}
      <3>1. users[u] \in UserRow \cup {None}
        BY <1>1, Zenon
      <3>2. users[u] # None => [users[u] EXCEPT !.method = Method(call[r].path)] \in UserRow
        BY <2>3, <3>1, Zenon
      <3> QED BY <2>4, <3>1, <3>2, ZenonT(30)
    <2>8. users' \in [Ids -> UserRow \cup {None}]
      BY <2>5, <2>7
    <2>9. ASSUME NEW u \in Ids, users[u] # None
          PROVE  users'[u] # None /\ users'[u].admin = users[u].admin
      <3>1. users[u] \in UserRow
        BY <1>1, <2>9
      <3> QED BY <1>2, <2>3, <2>4, <2>9, <3>1
    <2>10. \A u \in Ids : users[u] = None => users'[u] = None
      BY <2>4
    <2> QED BY <2>6, <2>8, <2>9, <2>10
  <1>6. CASE UNCHANGED users /\ ~SignUp(r)
    BY <1>1, <1>6
  <1> QED BY <1>3, <1>4, <1>5, <1>6, Frames DEF Frame

\* The types of what a step of a request writes.
LEMMA ProcessTypes ==
  ASSUME TypeOK, StagesOK, ProcessesOK, NEW r \in Requests, Step(r) \/ InitFails(r)
  PROVE  /\ worker' \in [Workers -> [inits : 0 .. Len(InitPlugins), lock : Requests \cup {None},
                                     done : BOOLEAN, provider : BOOLEAN]]
         /\ \A w \in Workers :
              /\ worker'[w].done => worker'[w].lock = None /\ worker'[w].inits = Len(InitPlugins)
              /\ worker'[w].lock # None => pc'[worker'[w].lock] = "initialising"
              /\ worker'[w].provider => config.provider
PROOF
  <1> DEFINE Process == [inits : 0 .. Len(InitPlugins), lock : Requests \cup {None},
                         done : BOOLEAN, provider : BOOLEAN]
             Fine(p) == /\ p.done => p.lock = None /\ p.inits = Len(InitPlugins)
                        /\ p.provider => config.provider
  <1>1. worker \in [Workers -> Process] /\ \A w \in Workers : Fine(worker[w])
    BY DEF TypeOK
  <1>2. call[r] \in Call /\ call[r].worker \in Workers /\ Len(InitPlugins) \in Nat
    BY Moves, Called, CallTypes, ConstantsAssumption
  <1>3. r # None
    BY NoneAssumption DEF Ids
  <1>4. ASSUME NEW w \in Workers, worker[w].lock \notin {None, r}
        PROVE  pc'[worker[w].lock] = "initialising"
    <2>1. worker[w].lock \in Requests /\ pc[worker[w].lock] = "initialising"
      BY <1>1, <1>4 DEF TypeOK
    <2> QED BY <1>4, <2>1, Others
  <1>5. ASSUME NEW p \in Process, worker' = [worker EXCEPT ![call[r].worker] = p], Fine(p),
               p.lock = None \/ (p.lock = r /\ pc'[r] = "initialising"),
               \A w \in Workers \ {call[r].worker} : worker[w].lock # r
        PROVE  /\ worker' \in [Workers -> Process]
               /\ \A w \in Workers :
                    /\ Fine(worker'[w])
                    /\ worker'[w].lock # None => pc'[worker'[w].lock] = "initialising"
    BY <1>1, <1>2, <1>3, <1>4, <1>5
  <1>6. \A w \in Workers \ {call[r].worker} : worker[w].lock # r
    BY <1>3 DEF ProcessesOK, ProcessOK
  <1>7. Mine(r) \in Process /\ Fine(Mine(r))
    BY <1>1, <1>2 DEF Mine
  <1>8. CASE Enter(r) /\ ~UNCHANGED worker
    <2> PICK p : p = [Mine(r) EXCEPT !.lock = r, !.inits = 0]
      OBVIOUS
    <2>1. worker' = [worker EXCEPT ![call[r].worker] = p] /\ ~Mine(r).done
              /\ pc'[r] = "initialising"
      BY <1>8, Moves DEF Enter, SetWorker, Goto, Moved, TypeOK
    <2>2. p \in Process
      <3>1. 0 \in 0 .. Len(InitPlugins)
        BY <1>2
      <3> QED BY <1>7, <3>1, Zenon
    <2>3. p.lock = r /\ ~p.done /\ p.provider = Mine(r).provider
      BY <1>7, <2>1
    <2> QED BY <1>5, <1>6, <1>7, <2>1, <2>2, <2>3
  <1>9. CASE Initialise(r)
    <2>1. Mine(r).lock = r /\ Mine(r).inits < Len(InitPlugins) /\ ~Mine(r).done
      BY <1>2, <1>3, <1>7, <1>9, Moves DEF ProcessesOK, ProcessOK, Moved, Mine
    <2> PICK a : a = Applied(Mine(r))
      OBVIOUS
    <2>2. a.inits = Mine(r).inits + 1 /\ a.lock = r /\ ~a.done /\ (a.provider => config.provider)
      BY <1>7, <2>1 DEF Applied
    <2>3. a \in Process
      <3>1. Mine(r).inits + 1 \in 0 .. Len(InitPlugins)
        BY <1>2, <1>7, <2>1
      <3> PICK b : b = (Mine(r).provider
                          \/ (config.provider /\ InitPlugins[Mine(r).inits + 1] = "custom-session"))
        OBVIOUS
      <3>2. b \in BOOLEAN
        BY Zenon
      <3>3. a = [Mine(r) EXCEPT !.inits = Mine(r).inits + 1, !.provider = b]
        BY <1>7, Zenon DEF Applied
      <3> QED BY <1>7, <3>1, <3>2, <3>3, Zenon
    <2>4. CASE a.inits = Len(InitPlugins)
      <3> PICK p : p = [a EXCEPT !.done = TRUE, !.lock = None]
        OBVIOUS
      <3>1. worker' = [worker EXCEPT ![call[r].worker] = p]
        BY <1>9, <2>4 DEF Initialise, SetWorker
      <3>2. p \in Process
        BY <2>3, Zenon
      <3>3. p.lock = None /\ p.inits = Len(InitPlugins) /\ (p.provider => config.provider)
        BY <2>2, <2>3, <2>4
      <3> QED BY <1>5, <1>6, <3>1, <3>2, <3>3
    <2>5. CASE a.inits # Len(InitPlugins)
      <3>1. worker' = [worker EXCEPT ![call[r].worker] = a] /\ pc'[r] = "initialising"
        BY <1>9, <2>5, Moves DEF Initialise, SetWorker, Moved
      <3> QED BY <1>5, <1>6, <2>2, <2>3, <3>1
    <2> QED BY <2>4, <2>5
  <1>10. CASE InitFails(r)
    <2> PICK p : p = [Mine(r) EXCEPT !.lock = None]
      OBVIOUS
    <2>1. worker' = [worker EXCEPT ![call[r].worker] = p]
      BY <1>10 DEF InitFails, SetWorker
    <2>2. p \in Process
      BY <1>7, Zenon
    <2>3. p.lock = None /\ ~p.done /\ p.provider = Mine(r).provider
      <3>1. Mine(r).lock = r
        BY <1>10, Moves DEF ProcessesOK, Moved
      <3> QED BY <1>3, <1>7, <3>1
    <2> QED BY <1>5, <1>6, <1>7, <2>1, <2>2, <2>3
  <1>11. CASE UNCHANGED worker /\ ~Initialise(r) /\ ~InitFails(r)
    <2>1. \A w \in Workers : worker[w].lock # r
      <3>1. \A w \in Workers : worker[w].lock = r => pc[r] = "initialising"
        BY <1>3 DEF TypeOK
      <3>2. pc[r] # "initialising"
        BY <1>11, Moves, SMT DEF Moved, Step
      <3> QED BY <3>1, <3>2
    <2> QED BY <1>1, <1>4, <1>11, <2>1
  <1> QED BY <1>8, <1>9, <1>10, <1>11, Frames DEF Frame

\* A session that was made is a user's.
LEMMA SessionUsers ==
  ASSUME TypeOK, StagesOK, NEW s \in Ids, Opened(s)
  PROVE  SessionUser(s) \in Ids
PROOF
  <1>1. CASE s \in Users
    BY <1>1 DEF SessionUser, Ids
  <1>2. CASE s \in Requests
    <2>1. pc[s] \in Over
      BY <1>2 DEF Opened
    <2>2. call[s] \in Call
      BY <1>2, <2>1, Called DEF Over
    <2>3. call[s].who \in Users
      BY <2>2, CallTypes
    <2> QED BY <1>2, <2>3 DEF SessionUser, Ids
  <1> QED BY <1>1, <1>2 DEF Ids

\* A hit of the rate limiter counts on, or opens a window, and passes or does not.
LEMMA Hits ==
  ASSUME TypeOK, StagesOK, LateOK, NEW r \in Requests, Limit(r)
  PROVE  \/ UNCHANGED <<buckets, passed>>
         \/ \E b \in Bucket :
              /\ buckets' = {c \in buckets : ~SameKey(c, b)} \cup {b}
              /\ \/ /\ \A c \in buckets : SameKey(c, b) => c.until <= now
                    /\ b.count = 1 /\ b.until = now + Window(b)
                 \/ \E c \in buckets : /\ SameKey(c, b) /\ c.until > now
                                       /\ b.count = c.count + 1 /\ b.until = c.until
              /\ \/ b.count > Rules[b.path].max /\ passed' = passed
                 \/ /\ b.count <= Rules[b.path].max
                    /\ \E p \in Pass : SameKey(p, b) /\ p.at = now /\ passed' = passed \cup {p}
PROOF
  <1> PICK k : k = KeyOf(r)
    OBVIOUS
  <1> PICK b : b = Hit(k, RuleFor(r).window)
    OBVIOUS
  <1>1. CASE config.limits = None
    BY <1>1 DEF Limit
  <1>2. CASE config.limits # None
    <2>1. call[r] \in Call /\ pc[r] = "limit"
      BY Moves, Called DEF Moved, Step
    <2>2. call[r].path \in Paths /\ call[r].worker \in Workers /\ call[r].ip \in Addresses
      BY <2>1, CallTypes
    <2>3. Actor(r) \in Actors
      <3>1. session[r] # None => session[r] \in Ids /\ Opened(session[r])
        BY DEF TypeOK, LateOK
      <3> QED BY <2>2, <3>1, SessionUsers DEF Actor, Actors
    <2>4. /\ k.store = StoreOf(r) /\ k.path = call[r].path /\ k.actor = Actor(r)
          /\ StoreOf(r) \in Store
      BY <2>2 DEF KeyOf, StoreOf, Store
    <2>5. /\ Rules[k.path].window \in Nat \ {0} /\ Rules[k.path].max \in Nat \ {0} /\ now \in Nat
          /\ RuleFor(r) = Rules[k.path]
      BY <2>2, <2>4, ConfigTypes, ConstantsAssumption DEF RuleFor, TypeOK
    <2>6. /\ b \in Bucket /\ SameKey(b, k)
          /\ \/ /\ Running(k) = {}
                /\ b.count = 1 /\ b.until = now + Rules[k.path].window
             \/ \E c \in buckets : /\ SameKey(c, k) /\ c.until > now
                                   /\ b.count = c.count + 1 /\ b.until = c.until
      <3>1. CASE Running(k) = {}
        <4>1. b = Counter(k, 1, now + Rules[k.path].window)
          BY <2>5, <3>1 DEF Hit
        <4>2. now + Rules[k.path].window \in Nat
          BY <2>5
        <4> QED BY <2>2, <2>3, <2>4, <3>1, <4>1, <4>2 DEF Counter, Bucket, SameKey
      <3>2. CASE Running(k) # {}
        <4> PICK c : c = CHOOSE x \in Running(k) : TRUE
          OBVIOUS
        <4>1. c \in Running(k)
          BY <3>2
        <4>2. c \in buckets /\ c \in Bucket /\ SameKey(c, k) /\ c.until > now
          BY <4>1 DEF Running, TypeOK
        <4>3. b = [c EXCEPT !.count = c.count + 1]
          BY <3>2 DEF Hit
        <4>4. c.count + 1 \in Nat
          BY <4>2 DEF Bucket
        <4>5. b \in Bucket
          BY <4>2, <4>3, <4>4, Zenon DEF Bucket
        <4>6. /\ b.store = c.store /\ b.path = c.path /\ b.actor = c.actor /\ b.until = c.until
              /\ b.count = c.count + 1
          BY <4>2, <4>3 DEF Bucket
        <4> QED BY <4>2, <4>5, <4>6 DEF SameKey
      <3> QED BY <3>1, <3>2
    <2>7. \A c : SameKey(c, k) <=> SameKey(c, b)
      BY <2>6 DEF SameKey
    <2>8. b.path = k.path /\ Window(b) = Rules[k.path].window
      BY <2>6 DEF SameKey, Window
    <2>9. buckets' = {c \in buckets : ~SameKey(c, b)} \cup {b}
      <3>1. buckets' = {c \in buckets : ~SameKey(c, k)} \cup {b}
        BY <1>2 DEF Limit
      <3> QED BY <2>7, <3>1
    <2>10. \/ b.count > Rules[b.path].max /\ passed' = passed
           \/ b.count <= Rules[b.path].max /\ passed' = passed \cup {Passing(r)}
      <3>1. b.count \in Nat
        BY <2>6 DEF Bucket
      <3>2. IF b.count > Rules[k.path].max THEN passed' = passed
            ELSE passed' = passed \cup {Passing(r)}
        BY <1>2, <2>5 DEF Limit
      <3> QED BY <2>5, <2>8, <3>1, <3>2
    <2>11. Passing(r) \in Pass /\ SameKey(Passing(r), b) /\ Passing(r).at = now
      <3>1. Passing(r) \in Pass
        BY <2>2, <2>3, <2>4, <2>5 DEF Passing, Pass
      <3> QED BY <2>4, <2>6, <3>1 DEF Passing, SameKey
    <2>12. Running(k) = {} => \A c \in buckets : SameKey(c, b) => c.until <= now
      <3>1. \A c \in buckets : c.until \in Nat
        BY DEF TypeOK, Bucket
      <3> QED BY <2>5, <2>7, <3>1 DEF Running
    <2>13. \/ /\ \A c \in buckets : SameKey(c, b) => c.until <= now
              /\ b.count = 1 /\ b.until = now + Window(b)
           \/ \E c \in buckets : /\ SameKey(c, b) /\ c.until > now
                                 /\ b.count = c.count + 1 /\ b.until = c.until
      BY <2>6, <2>7, <2>8, <2>12
    <2> QED BY <2>6, <2>9, <2>10, <2>11, <2>13
  <1> QED BY <1>1, <1>2

\* The types of the other tables and of what requests keep.
LEMMA TableTypes ==
  ASSUME TypeOK, StagesOK, LateOK, NEW r \in Requests, Step(r) \/ InitFails(r)
  PROVE  /\ buckets' \subseteq Bucket /\ passed' \subseteq Pass
         /\ \A b, c \in buckets' : SameKey(b, c) => b = c
         /\ sessions' \in [Ids -> SessionRow \cup {None}]
         /\ methods' \subseteq ConfigRow
         /\ setting' \in {"on", "off", "unclear"} /\ barred' \subseteq barred
PROOF
  <1>1. CASE Limit(r) /\ ~UNCHANGED <<buckets, passed>>
    <2>1. PICK b \in Bucket :
            /\ buckets' = {c \in buckets : ~SameKey(c, b)} \cup {b}
            /\ passed' = passed \/ \E p \in Pass : passed' = passed \cup {p}
      BY <1>1, Hits
    <2>2. \A b1, c1 \in buckets' : SameKey(b1, c1) => b1 = c1
      BY <2>1 DEF TypeOK, SameKey
    <2>3. buckets' \subseteq Bucket /\ passed' \subseteq Pass
      BY <2>1 DEF TypeOK
    <2> QED BY <2>2, <2>3, Frames, Moves, <1>1 DEF Limit, TypeOK
  <1>2. buckets' \subseteq Bucket /\ passed' \subseteq Pass
        /\ \A b, c \in buckets' : SameKey(b, c) => b = c
    BY <1>1, Frames DEF Frame, TypeOK
  <1>3. sessions' \in [Ids -> SessionRow \cup {None}]
    <2>1. sessions \in [Ids -> SessionRow \cup {None}]
      BY DEF TypeOK
    <2>2. CASE CreateSession(r)
      <3>1. PICK row : row = [expires |-> now + SessionTTL, place |-> PlaceOf(r)]
        OBVIOUS
      <3>2. row \in SessionRow
        <4>1. now + SessionTTL \in Nat
          BY ConstantsAssumption, ConfigTypes DEF TypeOK
        <4> QED BY <3>1, <4>1 DEF SessionRow, PlaceOf
      <3>3. sessions' = [sessions EXCEPT ![r] = row]
        BY <2>2, <3>1 DEF CreateSession
      <3> QED BY <2>1, <3>2, <3>3
    <2>3. CASE ~CreateSession(r)
      <3>1. \A s \in Ids : sessions'[s] \in {sessions[s], None}
        BY <2>3, Others
      <3>2. sessions' = sessions \/ \E s, place : sessions' = Without(s, place)
        BY <2>3, Frames DEF Frame, Expire, SignOut, DropExpired, Revoke
      <3>3. \A s, place : \/ Without(s, place) = sessions
                          \/ Without(s, place) = [sessions EXCEPT ![s] = None]
        BY DEF Without
      <3>4. sessions' = [s \in Ids |-> sessions'[s]]
        BY <2>1, <3>2, <3>3
      <3> QED BY <2>1, <3>1, <3>4
    <2> QED BY <2>2, <2>3
  <1>4. /\ methods' \subseteq ConfigRow
        /\ setting' \in {"on", "off", "unclear"} /\ barred' \subseteq barred
    <2>1. CASE WriteMethods(r)
      <3>1. call[r].enabled \in BOOLEAN
        BY <2>1, Moves, Called, CallTypes
      <3>2. ASSUME NEW row \in ConfigRow
            PROVE  [row EXCEPT !.by = r, !.enabled = call[r].enabled] \in ConfigRow
        BY <3>1, Zenon DEF ConfigRow
      <3>3. [id |-> r, by |-> r, enabled |-> call[r].enabled] \in ConfigRow
        BY <3>1 DEF ConfigRow
      <3>4. methods \subseteq ConfigRow
        BY DEF TypeOK
      <3>5. Upsert(methods, found[r], r, call[r].enabled) \subseteq ConfigRow
        BY <3>2, <3>3, <3>4 DEF Upsert
      <3> QED BY <2>1, <3>5 DEF WriteMethods
    <2>2. CASE UNCHANGED <<methods, setting, barred>>
      BY <2>2 DEF TypeOK
    <2> QED BY <2>1, <2>2, Frames DEF Frame
  <1> QED BY <1>2, <1>3, <1>4

\* An answer is of its kind, and has a status once the handler or a check is through.
Answers == [status : Nat, cookies : Seq(Ids \cup {None}), header : Ids \cup {None}]

\* An answer gets its status before the hooks of the response, and 200 from a handler or a page.
LEMMA AnswerStep ==
  ASSUME TypeOK, StagesOK, NEW r \in Requests, Step(r) \/ InitFails(r)
  PROVE  /\ answer' \in [Requests -> Answers]
         /\ pc'[r] \in {"after", "respond", "answered"} => answer'[r].status # 0
         /\ answer'[r].status \in {0, 200} =>
              \/ answer'[r].status = answer[r].status
              \/ pc'[r] = "after"
              \/ pc[r] = "page" /\ pc'[r] = "answered" /\ session'[r] # None
PROOF
  <1>1. /\ answer \in [Requests -> Answers] /\ answer[r] \in Answers
        /\ cookies[r] \in Seq(Ids \cup {None})
    BY DEF TypeOK, Answers
  <1>2. ASSUME NEW n \in Nat, answer' = [answer EXCEPT ![r].status = n]
        PROVE  answer' \in [Requests -> Answers] /\ answer'[r].status = n
    <2> PICK a : a = [answer[r] EXCEPT !.status = n]
      OBVIOUS
    <2>1. a \in Answers
      BY <1>1, Zenon DEF Answers
    <2>2. answer' = [answer EXCEPT ![r] = a] /\ a.status = n
      BY <1>1, <1>2 DEF Answers
    <2> QED BY <1>1, <2>1, <2>2
  <1>3. ASSUME NEW n \in Nat \ {0, 200}, Refuse(r, n)
        PROVE  /\ answer' \in [Requests -> Answers]
               /\ answer'[r].status \notin {0, 200}
    BY <1>2, <1>3 DEF Refuse
  <1>4. ASSUME Succeed(r)
        PROVE  /\ answer' \in [Requests -> Answers] /\ answer'[r].status # 0 /\ pc'[r] = "after"
    <2>1. pc'[r] = "after"
      BY <1>4 DEF Succeed, Goto, TypeOK
    <2>2. answer' = [answer EXCEPT ![r].status = 200]
      BY <1>4 DEF Succeed
    <2>3. 200 \in Nat /\ 200 # 0
      OBVIOUS
    <2> QED BY <1>2, <2>1, <2>2, <2>3
  <1>5. ASSUME UNCHANGED answer
        PROVE  /\ answer' \in [Requests -> Answers] /\ answer'[r].status = answer[r].status
    BY <1>1, <1>5
  <1>6. CASE Dispatch(r)
    <2>1. \/ answer' = [answer EXCEPT ![r].status = 404] \/ Refuse(r, 403)
          \/ UNCHANGED answer /\ pc'[r] \notin {"after", "respond", "answered"}
      <3>1. AttachSession(r) => pc'[r] \in {"limit", "expire"}
        BY DEF AttachSession, Goto, TypeOK
      <3> QED BY <1>6, <3>1 DEF Dispatch
    <2> QED BY <1>2, <1>3, <1>5, <2>1
  <1>7. CASE Limit(r)
    <2>1. Refuse(r, 400) \/ Refuse(r, 429) \/ (UNCHANGED answer /\ pc'[r] = "bearer")
      BY <1>7 DEF Limit, Decode, Goto, TypeOK
    <2> QED BY <1>3, <1>5, <2>1
  <1>8. CASE Gate(r) \/ Screen(r) \/ SignIn(r) \/ RequireAdmin(r) \/ SignOut(r)
    <2>1. \/ \E n \in Nat \ {0, 200} : Refuse(r, n)
          \/ UNCHANGED answer /\ pc'[r] \notin {"after", "respond", "answered"}
          \/ Succeed(r)
      <3>1. Gate(r) => \/ Refuse(r, 403) \/ Refuse(r, 401)
                       \/ UNCHANGED answer /\ pc'[r] = "screen"
        BY DEF Gate, Goto, TypeOK
      <3>2. Screen(r) => \/ Refuse(r, CaptchaRefusal[call[r].captcha]) \/ Refuse(r, 400)
                         \/ UNCHANGED answer /\ pc'[r] = "handler"
        BY DEF Screen, Goto, TypeOK
      <3>3. Screen(r) => call[r].captcha \in {"none", "good", "bad", "down"}
        BY Called, CallTypes DEF Screen, At
      <3>4. Screen(r) => \/ Refuse(r, 400) \/ Refuse(r, 403) \/ Refuse(r, 500)
                         \/ UNCHANGED answer /\ pc'[r] = "handler"
        <4>1. Screen(r) => \/ call[r].captcha # "good" /\ Refuse(r, CaptchaRefusal[call[r].captcha])
                           \/ Refuse(r, 400)
                           \/ UNCHANGED answer /\ pc'[r] = "handler"
          BY DEF Screen, Goto, TypeOK
        <4> QED BY <3>3, <4>1 DEF CaptchaRefusal
      <3>5. SignIn(r) => Refuse(r, 401) \/ (UNCHANGED answer /\ pc'[r] = "create-session")
        BY DEF SignIn, Goto, TypeOK
      <3>6. RequireAdmin(r) => Refuse(r, 403) \/ (UNCHANGED answer /\ pc'[r] = "find-config")
        BY DEF RequireAdmin, Goto, TypeOK
      <3>7. SignOut(r) => Refuse(r, 401) \/ Succeed(r)
        BY DEF SignOut
      <3>8. 400 \in Nat \ {0, 200} /\ 401 \in Nat \ {0, 200} /\ 403 \in Nat \ {0, 200}
            /\ 500 \in Nat \ {0, 200}
        OBVIOUS
      <3>9. Gate(r) \/ Screen(r) \/ SignIn(r) \/ RequireAdmin(r) =>
              \/ Refuse(r, 400) \/ Refuse(r, 401) \/ Refuse(r, 403) \/ Refuse(r, 500)
              \/ UNCHANGED answer /\ pc'[r] \notin {"after", "respond", "answered"}
        BY <3>1, <3>4, <3>5, <3>6
      <3> QED BY <1>8, <3>7, <3>8, <3>9
    <2> QED BY <1>3, <1>4, <1>5, <2>1
  <1>9. CASE CreateSession(r) \/ GetSession(r) \/ WriteMethods(r)
    <2>1. Succeed(r)
      BY <1>9 DEF CreateSession, GetSession, WriteMethods
    <2> QED BY <1>4, <2>1
  <1>10. CASE After(r)
    <2>1. Refuse(r, 400) \/ UNCHANGED answer
      BY <1>10 DEF After
    <2>2. answer[r].status # 0
      BY <1>10 DEF After, At, StagesOK, StageOK
    <2> QED BY <1>3, <1>5, <2>1, <2>2
  <1>11. CASE Respond(r)
    <2> PICK cs, h : cs = cookies[r] /\ h = Exposed(cookies[r])
      OBVIOUS
    <2> PICK a : a = [answer[r] EXCEPT !.cookies = cs, !.header = h]
      OBVIOUS
    <2>1. h \in Ids \cup {None}
      BY <1>1 DEF Exposed
    <2>2. a \in Answers
      BY <1>1, <2>1, Zenon DEF Answers
    <2>3. answer' = [answer EXCEPT ![r] = a] /\ a.status = answer[r].status
      BY <1>1, <1>11 DEF Respond, Answers
    <2>4. answer[r].status # 0
      BY <1>11 DEF Respond, At, StagesOK, StageOK
    <2> QED BY <1>1, <2>2, <2>3, <2>4
  <1>12. CASE ResolveSession(r)
    <2>1. \/ UNCHANGED answer /\ pc'[r] = "drop"
          \/ answer' = [answer EXCEPT ![r].status = 401]
          \/ /\ answer' = [answer EXCEPT ![r].status = 200]
             /\ pc[r] = "page" /\ pc'[r] = "answered" /\ session'[r] # None
      BY <1>12 DEF ResolveSession, FoundIn, At, Goto, TypeOK
    <2>2. 401 \in Nat /\ 200 \in Nat /\ 401 \notin {0, 200}
      OBVIOUS
    <2>3. CASE UNCHANGED answer /\ pc'[r] = "drop"
      BY <1>5, <2>3
    <2>4. CASE answer' = [answer EXCEPT ![r].status = 401]
      <3> PICK n \in Nat : n = 401
        OBVIOUS
      <3>1. answer' = [answer EXCEPT ![r].status = n]
        BY <2>4
      <3>2. answer' \in [Requests -> Answers] /\ answer'[r].status = n
        BY <1>2, <3>1
      <3> QED BY <2>2, <3>2
    <2>5. CASE /\ answer' = [answer EXCEPT ![r].status = 200]
               /\ pc[r] = "page" /\ pc'[r] = "answered" /\ session'[r] # None
      <3> PICK n \in Nat : n = 200
        OBVIOUS
      <3>1. answer' = [answer EXCEPT ![r].status = n]
        BY <2>5
      <3>2. answer' \in [Requests -> Answers] /\ answer'[r].status = n
        BY <1>2, <3>1
      <3> QED BY <2>5, <3>2
    <2> QED BY <2>1, <2>3, <2>4, <2>5
  <1>13. CASE DropExpired(r)
    <2>1. answer' = [answer EXCEPT ![r].status = 401]
      BY <1>13 DEF DropExpired
    <2> PICK n \in Nat : n = 401
      OBVIOUS
    <2>2. answer' = [answer EXCEPT ![r].status = n]
      BY <2>1
    <2>3. answer' \in [Requests -> Answers] /\ answer'[r].status = n
      BY <1>2, <2>2
    <2>4. n \notin {0, 200}
      OBVIOUS
    <2> QED BY <2>3, <2>4
  <1>14. CASE \/ Enter(r) \/ Initialise(r) \/ InitFails(r) \/ Expire(r) \/ Bearer(r)
              \/ SignUp(r) \/ FindMethods(r)
    <2>1. UNCHANGED answer
      BY <1>14, Zenon DEF Enter, Initialise, InitFails, Expire, Bearer, SignUp, FindMethods
    <2>2. pc'[r] \notin {"after", "respond", "answered"}
      BY <1>14, Moves, SMT DEF Moved
    <2> QED BY <1>5, <2>1, <2>2
  <1> QED
    BY <1>6, <1>7, <1>8, <1>9, <1>10, <1>11, <1>12, <1>13, <1>14 DEF Step

\* The types of what requests keep.
LEMMA RequestTypes ==
  ASSUME TypeOK, StagesOK, NEW r \in Requests, Step(r) \/ InitFails(r)
  PROVE  /\ session' \in [Requests -> Ids \cup {None}]
         /\ cookies' \in [Requests -> Seq(Ids \cup {None})]
         /\ found' \in [Requests -> Requests \cup {None}]
PROOF
  <1>1. /\ session \in [Requests -> Ids \cup {None}] /\ r \in Ids
        /\ cookies \in [Requests -> Seq(Ids \cup {None})]
        /\ found \in [Requests -> Requests \cup {None}]
    BY DEF TypeOK, Ids
  <1>2. call[r].cookie \in Ids \cup {None} /\ call[r].bearer \in Ids \cup {None}
    BY Moves, Called, CallTypes
  <1>3. session' \in [Requests -> Ids \cup {None}]
    <2>1. \/ UNCHANGED session
          \/ \E s \in {call[r].cookie, call[r].bearer, None} : session' = [session EXCEPT ![r] = s]
      BY Frames DEF Frame, Dispatch, AttachSession, Bearer, ResolveSession
    <2> QED BY <1>1, <1>2, <2>1
  <1>4. cookies' \in [Requests -> Seq(Ids \cup {None})]
    <2>1. \/ UNCHANGED cookies
          \/ \E s \in {r, None} : cookies' = [cookies EXCEPT ![r] = Append(cookies[r], s)]
      BY <1>1, Frames DEF Frame, Expire, CreateSession, SignOut, Revoke
    <2>2. \A s \in {r, None} : Append(cookies[r], s) \in Seq(Ids \cup {None})
      BY <1>1
    <2> QED BY <1>1, <2>1, <2>2
  <1>5. found' \in [Requests -> Requests \cup {None}]
    <2>1. CASE FindMethods(r)
      <3>1. PICK row \in FindConfig :
              found' = [found EXCEPT ![r] = IF row = None THEN None ELSE row.id]
        BY <2>1 DEF FindMethods
      <3>2. row = None \/ row \in ConfigRow
        BY <3>1 DEF FindConfig, TypeOK
      <3> QED BY <1>1, <3>1, <3>2 DEF ConfigRow
    <2> QED BY <1>1, <2>1, Frames DEF Frame
  <1> QED BY <1>3, <1>4, <1>5

-----------------------------------------------------------------------------
(* Types                                                                    *)

\* Steps of requests keep types.
LEMMA TypeStep ==
  ASSUME TypeOK, StagesOK, ProcessesOK, LateOK, NEW r \in Requests, Step(r) \/ InitFails(r)
  PROVE  TypeOK'
PROOF
  <1>1. Frame(r)
    BY Frames
  <1>2. pc' \in [Requests -> PCs]
    BY Moves DEF TypeOK
  <1>3. \A q \in Requests : pc'[q] = "answered" => answer'[q].status # 0
    <2>1. \A q \in Requests : pc[q] = "answered" => answer[q].status # 0
      BY DEF TypeOK
    <2>2. \A q \in Requests \ {r} : pc'[q] = pc[q] /\ answer'[q] = answer[q]
      BY Others
    <2>3. pc'[r] = "answered" => answer'[r].status # 0
      BY AnswerStep
    <2> QED BY <2>1, <2>2, <2>3
  <1>4. /\ config' \in Configs /\ now' \in 0 .. config'.ticks
        /\ call' \in [Requests -> Calls[config'.scenario] \cup {None}]
        /\ late' \subseteq Requests \X Ids /\ restarts' \in 0 .. config'.restarts
        /\ barred' \subseteq Requests
    BY <1>1, TableTypes DEF Frame, TypeOK
  <1>5. failures' \in 0 .. config'.failures
    <2>1. CASE InitFails(r)
      <3>1. failures \in 0 .. config.failures /\ config.failures \in Nat
        BY ConfigTypes DEF TypeOK
      <3>2. failures < config.failures /\ failures' = failures + 1 /\ config' = config
        BY <1>1, <2>1 DEF InitFails, Frame
      <3> QED BY <3>1, <3>2
    <2> QED BY <1>1, <2>1 DEF Frame, TypeOK
  <1>6. UNCHANGED config
    BY <1>1 DEF Frame
  <1> QED
    BY <1>2, <1>3, <1>4, <1>5, <1>6, UsersStep, ProcessTypes, TableTypes, AnswerStep,
       RequestTypes,
       Zenon DEF TypeOK, Answers

\* What the arrival of a request changes.
LEMMA Arrivals ==
  ASSUME TypeOK, NEW r \in Requests, Arrive(r)
  PROVE  /\ pc[r] = "idle" /\ call' = [call EXCEPT ![r] = call'[r]]
         /\ call'[r] \in Call /\ call'[r] \in Calls[config.scenario]
         /\ pc' = [pc EXCEPT ![r] = pc'[r]]
         /\ pc'[r] = IF call'[r].path = "page" THEN "page" ELSE "init"
         /\ late' = late \cup ({r} \X Stale(call'[r])) /\ Stale(call'[r]) \subseteq Ids
         /\ barred' = IF setting = "off" THEN barred \cup {r} ELSE barred
         /\ UNCHANGED <<config, now, worker, buckets, users, sessions, methods, session, cookies,
                        found, answer, failures, restarts, passed, setting>>
PROOF
  <1>1. pc \in [Requests -> PCs] /\ call \in [Requests -> Calls[config.scenario] \cup {None}]
    BY DEF TypeOK
  <1>2. PICK c \in Calls[config.scenario] : call' = [call EXCEPT ![r] = c]
    BY DEF Arrive
  <1>3. call'[r] = c /\ c \in Call
    BY <1>1, <1>2, ConfigTypes
  <1>4. Stale(c) \subseteq Ids
    BY <1>3, CallTypes DEF Stale
  <1>5. pc' = [pc EXCEPT ![r] = IF call'[r].path = "page" THEN "page" ELSE "init"]
    BY DEF Arrive, Goto
  <1> QED BY <1>1, <1>2, <1>3, <1>4, <1>5 DEF Arrive, At

\* Arrivals, restarts and the clock keep types.
LEMMA TypeOthers ==
  ASSUME TypeOK, StagesOK, ProcessesOK,
         \/ \E r \in Requests : Arrive(r)
         \/ \E w \in Workers : Restart(w)
         \/ Tick \/ UNCHANGED vars
  PROVE  TypeOK'
PROOF
  <1>1. ASSUME NEW r \in Requests, Arrive(r)
        PROVE  TypeOK'
    <2>1. pc'[r] \in PCs \ {"answered", "idle"}
      BY <1>1, Arrivals, SMT DEF PCs
    <2>2. \A w \in Workers : worker'[w].lock # None => pc'[worker'[w].lock] = "initialising"
      BY <1>1, Arrivals, SMTT(30) DEF TypeOK
    <2>3. /\ pc' \in [Requests -> PCs]
          /\ \A q \in Requests : pc'[q] = "answered" => answer'[q].status # 0
      <3>1. pc \in [Requests -> PCs] /\ \A q \in Requests : pc[q] = "answered"
                                            => answer[q].status # 0
        BY DEF TypeOK
      <3>2. pc' = [pc EXCEPT ![r] = pc'[r]] /\ answer' = answer
        BY <1>1, Arrivals
      <3>3. pc' \in [Requests -> PCs]
        BY <2>1, <3>1, <3>2
      <3>4. \A q \in Requests \ {r} : pc'[q] = pc[q]
        BY <3>1, <3>2
      <3> QED BY <2>1, <3>1, <3>2, <3>3, <3>4
    <2>4. call' \in [Requests -> Calls[config'.scenario] \cup {None}]
      <3>1. call \in [Requests -> Calls[config.scenario] \cup {None}]
        BY DEF TypeOK
      <3>2. /\ call' = [call EXCEPT ![r] = call'[r]] /\ call'[r] \in Calls[config.scenario]
            /\ config' = config
        BY <1>1, Arrivals, Zenon
      <3> QED BY <3>1, <3>2
    <2>5. late' \subseteq Requests \X Ids /\ barred' \subseteq Requests
      BY <1>1, Arrivals, SMTT(30) DEF TypeOK
    <2>6. UNCHANGED <<config, now, worker, buckets, users, sessions, methods, session, cookies,
                      found, answer, failures, restarts, passed, setting>>
      BY <1>1, Arrivals
    <2> QED BY <2>2, <2>3, <2>4, <2>5, <2>6, Zenon DEF TypeOK
  <1>2. ASSUME NEW w \in Workers, Restart(w)
        PROVE  TypeOK'
    <2>1. /\ worker' = [worker EXCEPT ![w] = Started]
          /\ UNCHANGED <<config, now, users, sessions, methods, call, session, cookies, found,
                         answer, failures, late, setting, barred>>
          /\ buckets' \subseteq buckets /\ passed' \subseteq passed
          /\ \A q \in Requests : pc'[q] = pc[q] \/ (pc'[q] = "lost" /\ call[q].worker = w)
          /\ pc' \in [Requests -> PCs]
      BY <1>2 DEF Restart, TypeOK, PCs
    <2>2. restarts' \in 0 .. config'.restarts
      <3>1. restarts \in 0 .. config.restarts /\ config.restarts \in Nat
        BY ConfigTypes, Zenon DEF TypeOK
      <3>2. restarts < config.restarts /\ restarts' = restarts + 1 /\ config' = config
        BY <1>2, Zenon DEF Restart
      <3> QED BY <3>1, <3>2, SMT
    <2>3. /\ Started \in [inits : 0 .. Len(InitPlugins), lock : Requests \cup {None},
                          done : BOOLEAN, provider : BOOLEAN]
          /\ Started.lock = None /\ (Started.done => Started.inits = Len(InitPlugins))
          /\ Started.provider => config.provider
      <3>1. Len(InitPlugins) \in Nat
        BY ConstantsAssumption
      <3> QED BY <3>1, ConfigTypes DEF Started, Ready, Fresh
    <2>4. \A v \in Workers :
            /\ worker'[v].done => worker'[v].lock = None /\ worker'[v].inits = Len(InitPlugins)
            /\ worker'[v].lock # None => pc'[worker'[v].lock] = "initialising"
            /\ worker'[v].provider => config'.provider
      <3>1. ASSUME NEW v \in Workers \ {w}, worker[v].lock # None
            PROVE  pc'[worker[v].lock] = "initialising"
        <4>1. worker[v].lock \in Requests /\ call[worker[v].lock].worker = v
              /\ pc[worker[v].lock] = "initialising"
          BY <3>1 DEF TypeOK, ProcessesOK, ProcessOK
        <4> QED BY <2>1, <4>1
      <3> QED BY <2>1, <2>3, <3>1 DEF TypeOK
    <2>5. worker' \in [Workers -> [inits : 0 .. Len(InitPlugins), lock : Requests \cup {None},
                                   done : BOOLEAN, provider : BOOLEAN]]
      BY <2>1, <2>3 DEF TypeOK
    <2>6. buckets' \subseteq Bucket /\ passed' \subseteq Pass
          /\ \A b, c \in buckets' : SameKey(b, c) => b = c
      BY <2>1 DEF TypeOK
    <2>7. \A q \in Requests : pc'[q] = "answered" => answer'[q].status # 0
      BY <2>1 DEF TypeOK
    <2> QED BY <2>1, <2>2, <2>4, <2>5, <2>6, <2>7, Zenon DEF TypeOK
  <1>3. CASE Tick
    <2>1. now' \in 0 .. config'.ticks
      <3>1. now \in 0 .. config.ticks /\ config.ticks \in Nat
        BY ConfigTypes, Zenon DEF TypeOK
      <3>2. now < config.ticks /\ now' = now + 1 /\ config' = config
        BY <1>3, Zenon DEF Tick
      <3> QED BY <3>1, <3>2, SMT
    <2> QED BY <1>3, <2>1, Zenon DEF Tick, TypeOK
  <1>4. CASE UNCHANGED vars
    BY <1>4, Zenon DEF vars, TypeOK
  <1> QED BY <1>1, <1>2, <1>3, <1>4

-----------------------------------------------------------------------------
(* The stages of requests                                                   *)

\* Who was sent while a method was off does not get past the gate of that method.
LEMMA GateShuts ==
  ASSUME TypeOK, StagesOK, SettingOK, NEW r \in Requests, Gate(r), pc'[r] = "screen"
  PROVE  /\ call[r].path \in EmailPasswordPaths => r \notin barred
         /\ RequiresSession(call[r].path) => session[r] # None
PROOF
  <1>1. pc \in [Requests -> PCs]
    BY DEF TypeOK
  <1>2. \A n : Refuse(r, n) => pc'[r] = "respond"
    BY <1>1 DEF Refuse, Goto
  <1>3. PICK row \in IF config.gate THEN FindConfig ELSE {None} :
          /\ ~(call[r].path \in EmailPasswordPaths /\ Disabled(row))
          /\ ~(RequiresSession(call[r].path) /\ session[r] = None)
    BY <1>2 DEF Gate
  <1>4. ASSUME r \in barred
        PROVE  Disabled(row)
    <2>1. config.gate /\ methods # {} /\ \A x \in methods : ~x.enabled
      BY <1>4 DEF SettingOK
    <2>2. row \in methods
      BY <1>3, <2>1 DEF FindConfig
    <2>3. row # None
      <3>1. methods \subseteq ConfigRow /\ None \notin ConfigRow
        BY NoneAssumption DEF TypeOK
      <3> QED BY <2>2, <3>1
    <2> QED BY <2>1, <2>2, <2>3 DEF Disabled
  <1> QED BY <1>3, <1>4

\* What a request's next step asks for is what its next stage says of it.
LEMMA StageStep ==
  ASSUME TypeOK, StagesOK, SettingOK, LateOK, NEW r \in Requests, Step(r) \/ InitFails(r)
  PROVE  StageOK(r)'
PROOF
  <1>1. /\ Moved(r) /\ pc[r] # "idle" /\ call[r] \in Call /\ call'[r] = call[r]
        /\ config' = config /\ StageOK(r)
    BY Moves, Called, Frames DEF Frame, StagesOK
  <1>2. barred' \subseteq barred
    BY TableTypes
  <1>3. pc'[r] # "idle"
    BY <1>1, SMT DEF Moved, Step
  <1>4. pc'[r] \in {"page", "drop"} =>
          call[r].path = "page" /\ answer'[r].status = 0 /\ session'[r] = None
    <2>1. pc'[r] \in {"page", "drop"} => ResolveSession(r) /\ pc'[r] = "drop" /\ pc[r] = "page"
      BY <1>1, SMT DEF Moved, Step
    <2>2. ResolveSession(r) /\ pc'[r] = "drop" => UNCHANGED <<session, answer>>
      BY DEF ResolveSession, Goto, TypeOK
    <2> QED BY <1>1, <2>1, <2>2 DEF StageOK
  <1>5. pc'[r] \in Inside \cup {"init", "initialising"} => call[r].path # "page"
    <2>1. pc'[r] \in Inside \cup {"init", "initialising"} =>
            pc[r] \in Inside \cup {"init", "initialising"}
      BY <1>1, SMT DEF Moved, Step, Inside, Admitted, Gated, Handled
    <2> QED BY <1>1, <2>1 DEF StageOK
  <1>6. pc'[r] \in Admitted => Registered(call[r].path) /\ ~Untrusted(call[r])
    <2>1. pc'[r] \in Admitted => pc[r] \in Admitted \/ (Dispatch(r)
              /\ pc'[r] \in {"limit", "expire"})
      BY <1>1, SMT DEF Moved, Step, Admitted, Gated, Handled
    <2>2. Dispatch(r) /\ pc'[r] \in {"limit", "expire"} =>
            Registered(call[r].path) /\ ~Untrusted(call[r])
      BY DEF Dispatch, Goto, Refuse, TypeOK
    <2> QED BY <1>1, <2>1, <2>2 DEF StageOK
  <1>7. pc'[r] \in Gated =>
          /\ call[r].path \in EmailPasswordPaths => r \notin barred'
          /\ RequiresSession(call[r].path) => session'[r] # None
    <2>1. pc'[r] \in Gated => pc[r] \in Gated \/ (Gate(r) /\ pc'[r] = "screen")
      BY <1>1, SMT DEF Moved, Step, Gated, Handled
    <2>2. pc'[r] \in Gated => UNCHANGED session
      <3>1. Dispatch(r) \/ Bearer(r) \/ ResolveSession(r) => pc'[r] \notin Gated
        BY <1>1, SMT DEF Moved, Gated, Handled
      <3> QED BY <3>1, Frames DEF Frame
    <2> QED BY <1>1, <1>2, <2>1, <2>2, GateShuts DEF StageOK
  <1>8. pc'[r] \in Handled =>
          /\ config.captcha /\ call[r].path \in CaptchaPaths => call[r].captcha = "good"
          /\ config.pwned /\ call[r].path \in PasswordPaths => ~call[r].pwned
    <2>1. pc'[r] \in Handled => pc[r] \in Handled \/ (Screen(r) /\ pc'[r] = "handler")
      BY <1>1, SMT DEF Moved, Step, Handled
    <2>2. Screen(r) /\ pc'[r] = "handler" =>
            /\ config.captcha /\ call[r].path \in CaptchaPaths => call[r].captcha = "good"
            /\ config.pwned /\ call[r].path \in PasswordPaths => ~call[r].pwned
      BY DEF Screen, Goto, Refuse, TypeOK
    <2> QED BY <1>1, <2>1, <2>2 DEF StageOK
  <1>9. pc'[r] = "create-session" => call[r].path \in {"sign-up", "sign-in"}
    <2>1. pc'[r] = "create-session" => SignUp(r) \/ SignIn(r)
      BY <1>1, SMT DEF Moved, Step
    <2> QED BY <2>1 DEF SignUp, SignIn, Handling
  <1>10. pc'[r] \in {"create-session", "after"} /\ call[r].path = "sign-up" => users'[r] # None
    <2>1. /\ pc'[r] = "create-session" => SignUp(r) \/ SignIn(r)
          /\ pc'[r] = "after" => \/ CreateSession(r) /\ pc[r] = "create-session"
                                 \/ SignOut(r)
                                 \/ GetSession(r)
                                 \/ WriteMethods(r) /\ pc[r] = "write-config"
      BY <1>1, SMT DEF Moved, Step
    <2>2. /\ SignIn(r) => call[r].path = "sign-in"
          /\ SignOut(r) => call[r].path = "sign-out"
          /\ GetSession(r) => call[r].path = "get-session"
      BY DEF SignIn, SignOut, GetSession, Handling
    <2>3. /\ pc[r] = "create-session" /\ call[r].path = "sign-up" => users[r] # None
          /\ pc[r] = "write-config" => call[r].path = "auth-methods"
      BY <1>1 DEF StageOK
    <2>4. /\ users[r] # None => users'[r] # None
          /\ SignUp(r) => users'[r] # None
      BY UsersStep DEF Ids
    <2> QED BY <2>1, <2>2, <2>3, <2>4, SMT
  <1>11. pc'[r] \in {"find-config", "write-config"} => call[r].path = "auth-methods"
    <2>1. pc'[r] \in {"find-config", "write-config"} => RequireAdmin(r) \/ pc[r] = "find-config"
      BY <1>1, SMT DEF Moved, Step
    <2> QED BY <1>1, <2>1 DEF RequireAdmin, Handling, StageOK
  <1>12. pc'[r] \in {"after", "respond"} => answer'[r].status # 0
    BY AnswerStep
  <1>13. (Registered(call[r].path) /\ ~Untrusted(call[r]))
          = (Registered(call[r].path) /\ ~Untrusted(call[r]))'
    BY <1>1 DEF Registered, Untrusted
  <1> QED
    BY <1>1, <1>3, <1>4, <1>5, <1>6, <1>7, <1>8, <1>9, <1>10, <1>11, <1>12, <1>13 DEF StageOK

\* A step of one request leaves the stages of the others.
LEMMA StagesStep ==
  ASSUME TypeOK, StagesOK, SettingOK, LateOK, NEW r \in Requests, Step(r) \/ InitFails(r)
  PROVE  StagesOK'
PROOF
  <1>1. ASSUME NEW q \in Requests \ {r}
        PROVE  StageOK(q)'
    <2>1. /\ pc'[q] = pc[q] /\ session'[q] = session[q] /\ answer'[q] = answer[q]
          /\ call'[q] = call[q] /\ config' = config /\ StageOK(q)
      BY Others, Frames DEF Frame, StagesOK
    <2>2. barred' \subseteq barred /\ (users[q] # None => users'[q] # None)
      BY TableTypes, UsersStep DEF Ids
    <2>3. /\ Registered(call[q].path)' = Registered(call[q].path)
          /\ Untrusted(call[q])' = Untrusted(call[q])
      BY <2>1 DEF Registered, Untrusted
    <2> QED BY <2>1, <2>2, <2>3 DEF StageOK
  <1> QED BY <1>1, StageStep DEF StagesOK

\* A request that arrives is at its first stage; the others are where they were.
LEMMA StagesArrive ==
  ASSUME TypeOK, StagesOK, SettingOK, NEW r \in Requests, Arrive(r)
  PROVE  StagesOK'
PROOF
  <1>1. /\ pc \in [Requests -> PCs] /\ DOMAIN call = Requests
        /\ UNCHANGED <<config, users, session, answer>>
        /\ pc' = [pc EXCEPT ![r] = pc'[r]] /\ call' = [call EXCEPT ![r] = call'[r]]
        /\ pc'[r] = IF call'[r].path = "page" THEN "page" ELSE "init"
        /\ call'[r] \in Call /\ pc[r] = "idle" /\ StageOK(r)
    BY Arrivals DEF TypeOK, StagesOK
  <1>2. barred' \subseteq barred \cup {r}
    BY Arrivals
  <1>3. ASSUME NEW q \in Requests \ {r}
        PROVE  StageOK(q)'
    <2>1. /\ pc'[q] = pc[q] /\ call'[q] = call[q] /\ StageOK(q)
          /\ q \in barred' => q \in barred
      BY <1>1, <1>2 DEF StagesOK
    <2>2. /\ Registered(call[q].path)' = Registered(call[q].path)
          /\ Untrusted(call[q])' = Untrusted(call[q])
      BY <1>1, <2>1 DEF Registered, Untrusted
    <2> QED BY <1>1, <2>1, <2>2 DEF StageOK
  <1>4. StageOK(r)'
    <2>1. session'[r] = None /\ answer'[r].status = 0
      BY <1>1 DEF StageOK
    <2>2. pc'[r] \in {"page", "init"} /\ pc'[r] \notin Inside
      BY <1>1, SMT DEF Inside, Admitted, Gated, Handled
    <2>3. pc'[r] \notin Admitted /\ pc'[r] \notin Gated /\ pc'[r] \notin Handled
      BY <2>2 DEF Inside, Admitted, Gated
    <2> QED BY <1>1, <2>1, <2>2, <2>3, SMT DEF StageOK
  <1> QED BY <1>3, <1>4 DEF StagesOK

\* A request whose process died is lost.
LEMMA StagesRestart ==
  ASSUME TypeOK, StagesOK, NEW w \in Workers, Restart(w)
  PROVE  StagesOK'
PROOF
  <1>1. /\ UNCHANGED <<config, users, call, session, answer, barred>>
        /\ \A q \in Requests : pc'[q] = pc[q] \/ (pc'[q] = "lost" /\ pc[q] # "idle")
    BY DEF Restart, InFlight
  <1>2. ASSUME NEW q \in Requests
        PROVE  StageOK(q)'
    <2>1. StageOK(q)
      BY DEF StagesOK
    <2>2. /\ Registered(call[q].path)' = Registered(call[q].path)
          /\ Untrusted(call[q])' = Untrusted(call[q])
      BY <1>1 DEF Registered, Untrusted
    <2>3. CASE pc'[q] = pc[q]
      BY <1>1, <2>1, <2>2, <2>3 DEF StageOK
    <2>4. CASE pc'[q] = "lost" /\ pc[q] # "idle"
      <3>1. pc'[q] \notin Inside /\ pc'[q] \notin Admitted /\ pc'[q] \notin Gated
              /\ pc'[q] \notin Handled
        BY <2>4, SMT DEF Inside, Admitted, Gated, Handled
      <3> QED BY <1>1, <2>1, <2>4, <3>1 DEF StageOK
    <2> QED BY <1>1, <2>3, <2>4
  <1> QED BY <1>2 DEF StagesOK

-----------------------------------------------------------------------------
(* The processes                                                            *)

\* What a step of a request does to its process.
LEMMA ProcessSteps ==
  ASSUME TypeOK, StagesOK, ProcessesOK, NEW r \in Requests, Step(r) \/ InitFails(r)
  PROVE  \/ /\ UNCHANGED worker
            /\ pc[r] # "initialising" /\ pc'[r] # "initialising"
            /\ pc'[r] \in Inside => Mine(r).done
         \/ /\ ~Mine(r).done /\ Mine(r).lock \in {None, r}
            /\ \E p : /\ worker' = [worker EXCEPT ![call[r].worker] = p]
                      /\ p.lock # None => p.lock = r /\ p.inits < Len(InitPlugins)
                      /\ pc'[r] = "initialising" => p.lock = r
                      /\ pc'[r] \in Inside => p.done
                      /\ config.provider
                           /\ (\E i \in 1 .. p.inits : InitPlugins[i] = "custom-session")
                           => p.provider
PROOF
  <1> DEFINE Process == [inits : 0 .. Len(InitPlugins), lock : Requests \cup {None},
                         done : BOOLEAN, provider : BOOLEAN]
  <1>1. call[r] \in Call /\ call[r].worker \in Workers /\ Len(InitPlugins) \in Nat \ {0}
    BY Moves, Called, CallTypes, ConstantsAssumption
  <1>2. Mine(r) \in Process /\ r # None
        /\ (Mine(r).done => Mine(r).lock = None /\ Mine(r).inits = Len(InitPlugins))
        /\ (config.provider /\ (\E i \in 1 .. Mine(r).inits : InitPlugins[i] = "custom-session")
              => Mine(r).provider)
    BY <1>1, NoneAssumption DEF TypeOK, Mine, Ids, ProcessesOK, ProcessOK
  <1>3. CASE Enter(r) /\ ~Mine(r).done
    <2> PICK p : p = [Mine(r) EXCEPT !.lock = r, !.inits = 0]
      OBVIOUS
    <2>1. /\ worker' = [worker EXCEPT ![call[r].worker] = p] /\ pc'[r] = "initialising"
          /\ Mine(r).lock = None
      BY <1>3 DEF Enter, SetWorker, Goto, TypeOK
    <2>2. p.lock = r /\ p.inits = 0 /\ p.inits < Len(InitPlugins)
      BY <1>1, <1>2
    <2>3. ~\E i \in 1 .. p.inits : InitPlugins[i] = "custom-session"
      BY <2>2
    <2>4. pc'[r] \notin Inside
      BY <2>1, SMT DEF Inside, Admitted, Gated, Handled
    <2> QED BY <1>3, <2>1, <2>2, <2>3, <2>4
  <1>4. CASE Initialise(r)
    <2>1. Mine(r).lock = r /\ ~Mine(r).done /\ Mine(r).inits < Len(InitPlugins)
      BY <1>1, <1>2, <1>4, Moves DEF ProcessesOK, ProcessOK, Moved, Mine
    <2> PICK a : a = Applied(Mine(r))
      OBVIOUS
    <2> PICK b : b = (Mine(r).provider
                        \/ (config.provider /\ InitPlugins[Mine(r).inits + 1] = "custom-session"))
      OBVIOUS
    <2>2. a = [Mine(r) EXCEPT !.inits = Mine(r).inits + 1, !.provider = b]
      BY <1>2, Zenon DEF Applied
    <2>3. a.inits = Mine(r).inits + 1 /\ a.lock = Mine(r).lock /\ a.provider = b
      BY <1>2, <2>2
    <2>4. /\ a.inits = Mine(r).inits + 1 /\ a.lock = r /\ a.inits \in 0 .. Len(InitPlugins)
          /\ Mine(r).provider => a.provider
          /\ config.provider /\ InitPlugins[Mine(r).inits + 1] = "custom-session" => a.provider
      <3>1. a.inits \in 0 .. Len(InitPlugins)
        BY <1>1, <1>2, <2>1, <2>3
      <3> QED BY <2>1, <2>3, <3>1, Zenon
    <2>5. config.provider /\ (\E i \in 1 .. a.inits : InitPlugins[i] = "custom-session")
                               => a.provider
      <3>1. ASSUME NEW i \in 1 .. a.inits, InitPlugins[i] = "custom-session", config.provider
            PROVE  a.provider
        <4>1. i \in 1 .. Mine(r).inits \/ i = Mine(r).inits + 1
          BY <1>2, <2>4
        <4> QED BY <1>2, <2>4, <3>1, <4>1
      <3> QED BY <3>1
    <2>6. CASE a.inits = Len(InitPlugins)
      <3> PICK p : p = [a EXCEPT !.done = TRUE, !.lock = None]
        OBVIOUS
      <3>1. worker' = [worker EXCEPT ![call[r].worker] = p] /\ pc'[r] = "dispatch"
        BY <1>4, <2>6 DEF Initialise, SetWorker, Goto, TypeOK
      <3>2. p.lock = None /\ p.done /\ p.inits = a.inits /\ p.provider = a.provider
        BY <1>2 DEF Applied
      <3> QED BY <2>1, <2>5, <3>1, <3>2
    <2>7. CASE a.inits # Len(InitPlugins)
      <3>1. worker' = [worker EXCEPT ![call[r].worker] = a] /\ pc'[r] = "initialising"
        BY <1>4, <2>7, Moves DEF Initialise, SetWorker, Moved
      <3>2. a.inits < Len(InitPlugins)
        BY <1>1, <2>4, <2>7
      <3>3. pc'[r] \notin Inside
        BY <3>1, SMT DEF Inside, Admitted, Gated, Handled
      <3> QED BY <2>1, <2>4, <2>5, <3>1, <3>2, <3>3
    <2> QED BY <2>6, <2>7
  <1>5. CASE InitFails(r)
    <2> PICK p : p = [Mine(r) EXCEPT !.lock = None]
      OBVIOUS
    <2>1. worker' = [worker EXCEPT ![call[r].worker] = p] /\ pc'[r] = "lost"
      BY <1>5, Moves DEF InitFails, SetWorker, Moved
    <2>2. Mine(r).lock = r /\ ~Mine(r).done
      BY <1>2, <1>5, Moves DEF ProcessesOK, Moved
    <2>3. p.lock = None /\ p.inits = Mine(r).inits /\ p.provider = Mine(r).provider
      BY <1>2
    <2>4. pc'[r] \notin Inside /\ pc'[r] # "initialising"
      BY <2>1, SMT DEF Inside, Admitted, Gated, Handled
    <2> QED BY <1>2, <2>1, <2>2, <2>3, <2>4
  <1>6. CASE Enter(r) /\ Mine(r).done
    <2>1. UNCHANGED worker /\ pc'[r] = "dispatch" /\ pc[r] = "init"
      BY <1>6 DEF Enter, At, Goto, TypeOK
    <2> QED BY <1>6, <2>1
  <1>7. CASE UNCHANGED worker /\ ~Enter(r) /\ ~Initialise(r) /\ ~InitFails(r)
    <2>1. /\ pc[r] # "initialising" /\ pc'[r] # "initialising"
          /\ pc'[r] \in Inside => pc[r] \in Inside
      BY <1>7, Moves, SMT DEF Moved, Step, Inside, Admitted, Gated, Handled
    <2> QED BY <1>7, <2>1 DEF ProcessesOK
  <1> QED BY <1>3, <1>4, <1>5, <1>6, <1>7, Frames DEF Frame

\* A process stays what its inits made it while a request takes a step.
LEMMA ProcessesStep ==
  ASSUME TypeOK, StagesOK, ProcessesOK, NEW r \in Requests, Step(r) \/ InitFails(r)
  PROVE  ProcessesOK'
PROOF
  <1>1. /\ UNCHANGED <<config, call>> /\ r # None
        /\ \A q \in Requests : pc'[q] \in Inside \cup {"initialising"} =>
             call[q] \in Call /\ call[q].worker \in Workers
    <2>1. UNCHANGED <<config, call>>
      BY Frames DEF Frame
    <2>2. ASSUME NEW q \in Requests, pc'[q] # "idle"
          PROVE  call[q] \in Call /\ call[q].worker \in Workers
      <3>1. pc[q] # "idle"
        BY <2>2, Moves, Others
      <3> QED BY <3>1, Called, CallTypes
    <2>3. "idle" \notin Inside \cup {"initialising"}
      BY SMT DEF Inside, Admitted, Gated, Handled
    <2> QED BY <2>1, <2>2, <2>3, NoneAssumption DEF Ids
  <1>2. \A q \in Requests \ {r} : pc'[q] = pc[q]
    BY Others
  <1>3. \A w \in Workers : worker'[w].lock # None => pc'[worker'[w].lock] = "initialising"
    BY ProcessTypes
  <1>4. CASE /\ UNCHANGED worker
             /\ pc[r] # "initialising" /\ pc'[r] # "initialising"
             /\ pc'[r] \in Inside => Mine(r).done
    <2>1. \A w \in Workers : ProcessOK(w)'
      BY <1>1, <1>3, <1>4 DEF ProcessesOK, ProcessOK
    <2>2. \A q \in Requests : /\ pc'[q] = "initialising" => Mine(q)'.lock = q
                              /\ pc'[q] \in Inside => Mine(q)'.done
      BY <1>1, <1>2, <1>4 DEF ProcessesOK, Mine
    <2> QED BY <2>1, <2>2 DEF ProcessesOK
  <1>5. ASSUME NEW p, worker' = [worker EXCEPT ![call[r].worker] = p],
               ~Mine(r).done, Mine(r).lock \in {None, r},
               p.lock # None => p.lock = r /\ p.inits < Len(InitPlugins),
               pc'[r] = "initialising" => p.lock = r,
               pc'[r] \in Inside => p.done,
               config.provider /\ (\E i \in 1 .. p.inits : InitPlugins[i] = "custom-session")
                 => p.provider
        PROVE  ProcessesOK'
    <2>1. DOMAIN worker = Workers
      BY DEF TypeOK
    <2>2. ASSUME NEW w \in Workers
          PROVE  ProcessOK(w)'
      <3>1. CASE w = call[r].worker
        <4>1. worker'[w] = p
          BY <1>5, <2>1, <3>1
        <4> QED BY <1>1, <1>3, <1>5, <3>1, <4>1 DEF ProcessOK
      <3>2. CASE w # call[r].worker
        <4>1. worker'[w] = worker[w]
          BY <1>5, <2>1, <3>2
        <4> QED BY <1>1, <1>3, <4>1 DEF ProcessesOK, ProcessOK
      <3> QED BY <3>1, <3>2
    <2>3. ASSUME NEW q \in Requests
          PROVE  /\ pc'[q] = "initialising" => Mine(q)'.lock = q
                 /\ pc'[q] \in Inside => Mine(q)'.done
      <3>1. CASE q = r
        <4>1. pc'[r] \in Inside \cup {"initialising"} => Mine(r)' = p
          BY <1>1, <1>5, <2>1 DEF Mine
        <4> QED BY <1>5, <3>1, <4>1
      <3>2. CASE q # r
        <4>1. /\ pc'[q] = "initialising" => Mine(q).lock = q
              /\ pc'[q] \in Inside => Mine(q).done
          BY <1>2, <3>2 DEF ProcessesOK
        <4>2. pc'[q] \in Inside \cup {"initialising"} /\ call[q].worker = call[r].worker =>
                Mine(q) = Mine(r)
          BY DEF Mine
        <4>3. q # None
          BY NoneAssumption DEF Ids
        <4>4. pc'[q] \in Inside \cup {"initialising"} => call[q].worker # call[r].worker
          BY <1>5, <3>2, <4>1, <4>2, <4>3
        <4>5. pc'[q] \in Inside \cup {"initialising"} => Mine(q)' = Mine(q)
          BY <1>1, <1>5, <2>1, <4>4 DEF Mine
        <4> QED BY <4>1, <4>5
      <3> QED BY <3>1, <3>2
    <2> QED BY <2>2, <2>3 DEF ProcessesOK
  <1> QED BY <1>4, <1>5, ProcessSteps

\* A request that arrives has no process's lock.
LEMMA ProcessesArrive ==
  ASSUME TypeOK, StagesOK, ProcessesOK, NEW r \in Requests, Arrive(r)
  PROVE  ProcessesOK'
PROOF
  <1>1. /\ pc \in [Requests -> PCs] /\ DOMAIN call = Requests
        /\ UNCHANGED <<config, worker>>
        /\ pc' = [pc EXCEPT ![r] = pc'[r]] /\ call' = [call EXCEPT ![r] = call'[r]]
        /\ pc'[r] \in {"page", "init"} /\ pc[r] = "idle"
    BY Arrivals DEF TypeOK
  <1>2. pc'[r] \notin Inside /\ pc'[r] # "initialising"
    BY <1>1, SMT DEF Inside, Admitted, Gated, Handled
  <1>3. ASSUME NEW q \in Requests \ {r}
        PROVE  /\ pc'[q] = pc[q] /\ call'[q] = call[q]
               /\ pc'[q] = "initialising" => Mine(q)'.lock = q
               /\ pc'[q] \in Inside => Mine(q)'.done
    <2>1. pc'[q] = pc[q] /\ call'[q] = call[q] /\ Mine(q)' = Mine(q)
      BY <1>1 DEF Mine
    <2> QED BY <2>1 DEF ProcessesOK
  <1>4. ASSUME NEW w \in Workers
        PROVE  ProcessOK(w)'
    <2>1. ProcessOK(w) /\ worker'[w] = worker[w]
      BY <1>1 DEF ProcessesOK
    <2>2. worker[w].lock # None => worker[w].lock \in Requests \ {r}
      BY <1>1, <2>1 DEF TypeOK, ProcessOK
    <2> QED BY <1>1, <1>3, <2>1, <2>2 DEF ProcessOK
  <1> QED BY <1>2, <1>3, <1>4 DEF ProcessesOK

\* A process that starts again has its inits behind it or before it.
LEMMA ProcessesRestart ==
  ASSUME TypeOK, StagesOK, ProcessesOK, NEW w \in Workers, Restart(w)
  PROVE  ProcessesOK'
PROOF
  <1>1. /\ worker' = [worker EXCEPT ![w] = Started] /\ UNCHANGED <<config, call>>
        /\ DOMAIN worker = Workers
        /\ \A q \in Requests : pc'[q] = IF InFlight(q) /\ call[q].worker = w THEN "lost" ELSE pc[q]
    BY DEF Restart, TypeOK
  <1>2. ASSUME NEW v \in Workers
        PROVE  ProcessOK(v)'
    <2>1. CASE v = w
      <3>1. worker'[v] = Started
        BY <1>1, <2>1
      <3>2. Started.lock = None /\ (Started.provider = config.provider \/ Started.inits = 0)
        BY DEF Started, Ready, Fresh
      <3>3. Started.inits = 0 => ~\E i \in 1 .. Started.inits : InitPlugins[i] = "custom-session"
        OBVIOUS
      <3> QED BY <1>1, <3>1, <3>2, <3>3, Zenon DEF ProcessOK
    <2>2. CASE v # w
      <3>1. worker'[v] = worker[v] /\ ProcessOK(v)
        BY <1>1, <2>2 DEF ProcessesOK
      <3>2. worker[v].lock # None => worker[v].lock \in Requests /\ call[worker[v].lock].worker # w
        BY <2>2, <3>1 DEF TypeOK, ProcessOK
      <3> QED BY <1>1, <3>1, <3>2 DEF ProcessOK
    <2> QED BY <2>1, <2>2
  <1>3. ASSUME NEW q \in Requests
        PROVE  /\ pc'[q] = "initialising" => Mine(q)'.lock = q
               /\ pc'[q] \in Inside => Mine(q)'.done
    <2>1. CASE pc'[q] \in Inside \cup {"initialising"}
      <3>1. pc'[q] \notin {"idle", "answered", "lost", "init"}
        BY <2>1, SMT DEF Inside, Admitted, Gated, Handled
      <3>2. pc'[q] = pc[q] /\ InFlight(q) /\ call[q].worker # w
        BY <1>1, <3>1 DEF InFlight
      <3>3. call[q].worker \in Workers
        BY <3>1, <3>2, Called, CallTypes
      <3>4. Mine(q)' = Mine(q)
        BY <1>1, <3>2, <3>3 DEF Mine
      <3> QED BY <3>2, <3>4 DEF ProcessesOK
    <2> QED BY <2>1
  <1> QED BY <1>2, <1>3 DEF ProcessesOK

-----------------------------------------------------------------------------
(* Sessions and users                                                       *)

\* A session that was made stays made, by the same user's request.
LEMMA OpenedStays ==
  ASSUME TypeOK, StagesOK, Next, NEW s \in Ids, Opened(s)
  PROVE  /\ Opened(s)' /\ SessionUser(s)' = SessionUser(s)
         /\ s \in Requests => call'[s] = call[s]
PROOF
  <1>1. s \in Requests => pc[s] \in Over /\ pc[s] # "idle"
              /\ call[s].path \in {"sign-up", "sign-in"}
    BY SMT DEF Opened, Over
  <1>2. users[SessionUser(s)] # None /\ SessionUser(s) \in Ids
    BY SessionUsers DEF Opened
  <1>3. CASE \E r \in Requests : Step(r) \/ InitFails(r)
    <2> PICK r \in Requests : Step(r) \/ InitFails(r)
      BY <1>3
    <2>1. UNCHANGED call
      BY Frames DEF Frame
    <2>2. SessionUser(s)' = SessionUser(s)
      BY <2>1 DEF SessionUser
    <2>3. users'[SessionUser(s)] # None
      BY <1>2, UsersStep
    <2>4. s \in Requests => pc'[s] \in Over
      <3>1. CASE s = r
        <4>1. pc[r] \in Over => pc'[r] \in Over
          BY Moves, SMT DEF Moved, Step, Over
        <4> QED BY <1>1, <3>1, <4>1
      <3> QED BY <1>1, <3>1, Others
    <2> QED BY <1>1, <2>1, <2>2, <2>3, <2>4 DEF Opened
  <1>4. CASE \E r \in Requests : Arrive(r)
    <2> PICK r \in Requests : Arrive(r)
      BY <1>4
    <2>1. /\ pc[r] = "idle" /\ UNCHANGED users
          /\ pc' = [pc EXCEPT ![r] = pc'[r]] /\ call' = [call EXCEPT ![r] = call'[r]]
      BY Arrivals
    <2>2. s \in Requests => call'[s] = call[s] /\ pc'[s] = pc[s]
      BY <1>1, <2>1 DEF TypeOK
    <2>3. SessionUser(s)' = SessionUser(s)
      BY <2>2 DEF SessionUser, Ids
    <2> QED BY <1>1, <1>2, <2>1, <2>2, <2>3 DEF Opened
  <1>5. CASE (\E w \in Workers : Restart(w)) \/ Tick
    <2>1. UNCHANGED <<users, call>> /\ \A q \in Requests : pc'[q] \in {pc[q], "lost"}
      BY <1>5 DEF Restart, Tick
    <2>2. SessionUser(s)' = SessionUser(s)
      BY <2>1 DEF SessionUser
    <2>3. s \in Requests => pc'[s] \in Over
      BY <1>1, <2>1 DEF Over
    <2> QED BY <1>1, <1>2, <2>1, <2>2, <2>3 DEF Opened
  <1> QED BY <1>3, <1>4, <1>5 DEF Next

\* A process whose inits are done keeps sessions where all do.
LEMMA SamePlace ==
  ASSUME TypeOK, StagesOK, ProcessesOK, NEW r \in Requests, pc[r] \in Inside
  PROVE  PlaceOf(r) = Place
PROOF
  <1>1. pc[r] # "idle"
    BY SMT DEF Inside, Admitted, Gated, Handled
  <1>2. Mine(r) = worker[call[r].worker] /\ call[r].worker \in Workers /\ Mine(r).done
    BY <1>1, Called, CallTypes DEF Mine, ProcessesOK
  <1>3. Mine(r).inits = Len(InitPlugins) /\ (Mine(r).provider => config.provider)
    BY <1>2 DEF TypeOK
  <1>4. config.provider => Mine(r).provider
    <2>1. config.provider => "custom-session" \in Range(InitPlugins)
      BY ConstantsAssumption DEF TypeOK
    <2>2. config.provider => \E i \in 1 .. Len(InitPlugins) : InitPlugins[i] = "custom-session"
      BY <2>1, ConstantsAssumption DEF Range
    <2> QED BY <1>2, <1>3, <2>2 DEF ProcessesOK, ProcessOK
  <1> QED BY <1>3, <1>4 DEF PlaceOf, Place

\* A session is made by a request that the checks let through.
LEMMA SessionMade ==
  ASSUME TypeOK, StagesOK, ProcessesOK, UsersOK, NEW r \in Requests, CreateSession(r)
  PROVE  /\ Opened(r)' /\ sessions'[r].place = Place
         /\ ~Untrusted(call[r]) /\ r \notin barred
         /\ config.captcha => call[r].captcha = "good"
         /\ config.pwned /\ call[r].path = "sign-up" => ~call[r].pwned
PROOF
  <1>1. /\ pc[r] = "create-session" /\ pc'[r] = "after" /\ call[r] \in Call
        /\ UNCHANGED <<call, users>>
    BY Moves, Called DEF Moved, Step, CreateSession
  <1>2. pc[r] \in Inside /\ pc[r] \in Admitted /\ pc[r] \in Gated /\ pc[r] \in Handled
    BY <1>1, SMT DEF Inside, Admitted, Gated, Handled
  <1>3. /\ call[r].path \in {"sign-up", "sign-in"} /\ ~Untrusted(call[r]) /\ r \notin barred
        /\ config.captcha => call[r].captcha = "good"
        /\ config.pwned /\ call[r].path = "sign-up" => ~call[r].pwned
        /\ call[r].path = "sign-up" => users[r] # None
    BY <1>1, <1>2 DEF StagesOK, StageOK, EmailPasswordPaths, CaptchaPaths, PasswordPaths
  <1>4. sessions'[r].place = PlaceOf(r)
    BY <1>1 DEF CreateSession, TypeOK, Ids
  <1>5. users[SessionUser(r)] # None /\ SessionUser(r)' = SessionUser(r)
    <2>1. r \notin Users /\ call[r].who \in Users
      BY <1>1, CallTypes, ConstantsAssumption
    <2> QED BY <1>1, <1>3, <2>1 DEF SessionUser, UsersOK
  <1>6. Opened(r)'
    BY <1>1, <1>3, <1>5 DEF Opened, Over
  <1> QED BY <1>2, <1>3, <1>4, <1>6, SamePlace

\* Sessions keep to the checks.
LEMMA SessionsStep ==
  ASSUME TypeOK, StagesOK, ProcessesOK, SessionsOK, UsersOK, LateOK, Next
  PROVE  SessionsOK'
PROOF
  <1>1. ASSUME NEW s \in Ids, sessions[s] # None
        PROVE  Opened(s)' /\ (s \in Requests => call'[s] = call[s])
    BY <1>1, OpenedStays DEF SessionsOK
  <1>2. CASE \E r \in Requests : Step(r) \/ InitFails(r)
    <2> PICK r \in Requests : Step(r) \/ InitFails(r)
      BY <1>2
    <2>1. UNCHANGED <<config, call>> /\ Place' = Place /\ barred' \subseteq barred
      BY Frames, TableTypes DEF Frame, Place
    <2>2. \A c : Untrusted(c)' = Untrusted(c)
      BY DEF Untrusted
    <2>3. ASSUME NEW s \in Ids, sessions'[s] # None
          PROVE  /\ Opened(s)' /\ sessions'[s].place = Place
                 /\ s \in Requests =>
                      /\ ~Untrusted(call[s]) /\ s \notin barred
                      /\ config.captcha => call[s].captcha = "good"
                      /\ config.pwned /\ call[s].path = "sign-up" => ~call[s].pwned
      <3>1. CASE CreateSession(r) /\ s = r
        BY <3>1, SessionMade
      <3>2. CASE sessions'[s] = sessions[s]
        BY <1>1, <2>3, <3>2 DEF SessionsOK
      <3> QED BY <2>3, <3>1, <3>2, Others
    <2> QED BY <2>1, <2>2, <2>3 DEF SessionsOK, Ids
  <1>3. CASE \E r \in Requests : Arrive(r)
    <2> PICK r \in Requests : Arrive(r)
      BY <1>3
    <2>1. UNCHANGED <<config, sessions>> /\ Place' = Place /\ barred' \subseteq barred \cup {r}
          /\ pc[r] = "idle"
      BY Arrivals DEF Place
    <2>2. sessions[r] = None
      <3>1. pc[r] \notin Over
        BY <2>1, SMT DEF Over
      <3> QED BY <3>1 DEF SessionsOK, Opened, Ids
    <2>3. ASSUME NEW s \in Ids, sessions'[s] # None
          PROVE  /\ Opened(s)' /\ sessions'[s].place = Place
                 /\ s \in Requests => call'[s] = call[s]
      BY <1>1, <2>1, <2>3 DEF SessionsOK
    <2>4. ASSUME NEW q \in Requests, sessions'[q] # None
          PROVE  /\ ~Untrusted(call'[q]) /\ q \notin barred'
                 /\ config.captcha => call'[q].captcha = "good"
                 /\ config.pwned /\ call'[q].path = "sign-up" => ~call'[q].pwned
      <3>1. q # r /\ (q \notin barred' \/ q \in barred)
        BY <2>1, <2>2, <2>4
      <3>2. call'[q] = call[q] /\ sessions[q] # None
        BY <2>1, <2>3, <2>4 DEF Ids
      <3> QED BY <3>1, <3>2 DEF SessionsOK
    <2>5. \A c : Untrusted(c)' = Untrusted(c)
      BY DEF Untrusted
    <2> QED BY <2>1, <2>3, <2>4 DEF SessionsOK, Untrusted
  <1>4. CASE (\E w \in Workers : Restart(w)) \/ Tick
    <2>1. UNCHANGED <<config, sessions, call, barred>> /\ Place' = Place
      BY <1>4 DEF Restart, Tick, Place
    <2> QED BY <1>1, <2>1 DEF SessionsOK, Untrusted
  <1> QED BY <1>2, <1>3, <1>4 DEF Next

\* Users keep the rights that they have.
LEMMA UsersStay ==
  ASSUME TypeOK, StagesOK, UsersOK, Next
  PROVE  UsersOK'
PROOF
  <1>1. CASE \E r \in Requests : Step(r) \/ InitFails(r)
    <2> PICK r \in Requests : Step(r) \/ InitFails(r)
      BY <1>1
    <2>1. \A u \in Users : u \in Ids
      BY DEF Ids
    <2> QED BY <2>1, UsersStep DEF UsersOK
  <1>2. CASE UNCHANGED users
    BY <1>2 DEF UsersOK
  <1>3. Next => UNCHANGED users \/ \E r \in Requests : Step(r) \/ InitFails(r)
    BY Arrivals DEF Next, Restart, Tick
  <1> QED BY <1>1, <1>2, <1>3

-----------------------------------------------------------------------------
(* Sessions that had expired                                                *)

\* A request takes the session of a token it carries, if there is one that has not expired.
LEMMA Attached ==
  ASSUME TypeOK, NEW r \in Requests, Step(r) \/ InitFails(r)
  PROVE  \/ session'[r] = session[r]
         \/ ResolveSession(r) /\ session'[r] = None
         \/ /\ session'[r] \in {call[r].cookie, call[r].bearer} \ {None}
            /\ sessions[session'[r]] # None /\ ~Expired(session'[r])
            /\ pc[r] \in {"dispatch", "bearer", "page"}
PROOF
  <1>1. session \in [Requests -> Ids \cup {None}]
    BY DEF TypeOK
  <1>2. CASE Dispatch(r)
    BY <1>1, <1>2 DEF Dispatch, At, AttachSession, FoundIn
  <1>3. CASE Bearer(r)
    BY <1>1, <1>3 DEF Bearer, At, FoundIn
  <1>4. CASE ResolveSession(r)
    BY <1>1, <1>4 DEF ResolveSession, At, FoundIn
  <1> QED BY <1>2, <1>3, <1>4, Frames DEF Frame

\* No step of a request gives it a session that had expired when it was sent.
LEMMA LateStep ==
  ASSUME TypeOK, StagesOK, SessionsOK, SettingOK, LateOK, Next,
         NEW r \in Requests, Step(r) \/ InitFails(r)
  PROVE  LateOK'
PROOF
  <1>1. UNCHANGED <<late, call, now>> /\ session' \in [Requests -> Ids \cup {None}]
    BY Frames, RequestTypes DEF Frame
  <1>2. ASSUME NEW q \in Requests, NEW s \in Ids, session'[q] = s
        PROVE  Opened(s)' /\ <<q, s>> \notin late'
    <2>1. CASE session[q] = s
      BY <1>1, <2>1, OpenedStays DEF LateOK
    <2>2. CASE session[q] # s
      <3>1. q = r /\ s # None
        BY <1>2, <2>2, Others, NoneAssumption
      <3>2. sessions[s] # None /\ ~Expired(s)
        BY <1>2, <2>2, <3>1, Attached
      <3> QED BY <1>1, <3>1, <3>2, OpenedStays DEF LateOK, SessionsOK
    <2> QED BY <2>1, <2>2
  <1>3. ASSUME NEW q \in Requests, NEW s \in Ids, <<q, s>> \in late'
        PROVE  /\ pc'[q] # "idle" /\ Opened(s)'
               /\ sessions'[s] # None => Expired(s)'
    <2>1. pc[q] # "idle" /\ Opened(s) /\ (sessions[s] # None => Expired(s))
      BY <1>1, <1>3 DEF LateOK
    <2>2. pc'[q] # "idle"
      <3>1. pc'[r] # "idle"
        BY StageStep, Moves, SMT DEF Moved, Step
      <3> QED BY <2>1, <3>1, Others
    <2>3. ~(CreateSession(r) /\ s = r)
      <3>1. s = r => pc[r] \in Over
        BY <2>1 DEF Opened
      <3>2. CreateSession(r) => pc[r] = "create-session"
        BY DEF CreateSession, At
      <3> QED BY <3>1, <3>2, SMT DEF Over
    <2>4. sessions'[s] # None => Expired(s)'
      <3>1. sessions'[s] # None => sessions'[s] = sessions[s]
        BY <2>3, Others
      <3> QED BY <1>1, <2>1, <3>1 DEF Expired
    <2> QED BY <2>1, <2>2, <2>4, OpenedStays
  <1>4. ASSUME NEW q \in Requests, call'[q] # None, call'[q].path = "page", answer'[q].status = 200
        PROVE  session'[q] # None
    <2>1. call[q] # None /\ call[q].path = "page"
      BY <1>1, <1>4
    <2>2. CASE q # r
      <3>1. answer[q].status = 200 /\ session'[q] = session[q]
        BY <1>4, <2>2, Others
      <3> QED BY <2>1, <3>1 DEF LateOK
    <2>3. CASE q = r
      <3>1. pc'[r] # "after"
        <4>1. pc'[r] = "after" => pc'[r] \in Inside
          BY SMT DEF Inside, Admitted, Gated, Handled
        <4> QED BY <1>1, <2>1, <2>3, <4>1, StageStep DEF StageOK
      <3>2. answer[r].status = 200 \/ session'[r] # None
        BY <1>4, <2>3, <3>1, AnswerStep
      <3>3. CASE answer[r].status = 200
        <4>1. session[r] # None
          BY <2>1, <2>3, <3>3 DEF LateOK
        <4>2. ~ResolveSession(r)
          BY <3>3 DEF ResolveSession, At, StagesOK, StageOK
        <4> QED BY <2>3, <4>1, <4>2, Attached
      <3> QED BY <2>3, <3>2, <3>3
    <2> QED BY <2>2, <2>3
  <1> QED BY <1>2, <1>3, <1>4 DEF LateOK

\* Nor does another one.
LEMMA LateOthers ==
  ASSUME TypeOK, StagesOK, SessionsOK, LateOK, Next,
         (\E r \in Requests : Arrive(r)) \/ (\E w \in Workers : Restart(w)) \/ Tick
  PROVE  LateOK'
PROOF
  <1>1. ASSUME NEW r \in Requests, Arrive(r)
        PROVE  LateOK'
    <2>1. /\ late' = late \cup ({r} \X Stale(call'[r])) /\ Stale(call'[r]) \subseteq Ids
          /\ UNCHANGED <<session, sessions, now, answer>> /\ pc[r] = "idle"
          /\ session[r] = None /\ answer[r].status = 0
      BY <1>1, Arrivals DEF StagesOK, StageOK
    <2>2. pc' = [pc EXCEPT ![r] = pc'[r]] /\ pc'[r] # "idle" /\ DOMAIN pc = Requests
          /\ call' = [call EXCEPT ![r] = call'[r]] /\ DOMAIN call = Requests
      <3>1. /\ pc' = [pc EXCEPT ![r] = pc'[r]] /\ call' = [call EXCEPT ![r] = call'[r]]
            /\ pc'[r] \in {"page", "init"}
        BY <1>1, Arrivals
      <3> QED BY <3>1 DEF TypeOK
    <2>3. ASSUME NEW q \in Requests, NEW s \in Ids, session'[q] = s
          PROVE  Opened(s)' /\ <<q, s>> \notin late'
      <3>1. q # r /\ session[q] = s
        BY <2>1, <2>3, NoneAssumption
      <3>2. Opened(s) /\ <<q, s>> \notin late
        BY <3>1 DEF LateOK
      <3> QED BY <2>1, <3>1, <3>2, OpenedStays
    <2>4. ASSUME NEW q \in Requests, NEW s \in Ids, <<q, s>> \in late'
          PROVE  /\ pc'[q] # "idle" /\ Opened(s)'
                 /\ sessions'[s] # None => Expired(s)'
      <3>1. Expired(s)' = Expired(s)
        BY <2>1 DEF Expired
      <3>2. CASE <<q, s>> \in late
        BY <2>1, <2>2, <3>1, <3>2, OpenedStays DEF LateOK
      <3>3. CASE q = r /\ s \in Stale(call'[r])
        <4>1. sessions[s] # None /\ Expired(s)
          BY <3>3 DEF Stale
        <4> QED BY <2>2, <3>1, <3>3, <4>1, OpenedStays DEF SessionsOK
      <3> QED BY <2>1, <2>4, <3>2, <3>3
    <2>5. ASSUME NEW q \in Requests, call'[q] # None, call'[q].path = "page",
            answer'[q].status = 200
          PROVE  session'[q] # None
      BY <2>1, <2>2, <2>5 DEF LateOK
    <2> QED BY <2>3, <2>4, <2>5 DEF LateOK
  <1>2. CASE (\E w \in Workers : Restart(w)) \/ Tick
    <2>1. /\ UNCHANGED <<late, call, session, sessions, answer>>
          /\ now' \in {now, now + 1} /\ now \in Nat
          /\ \A q \in Requests : pc[q] # "idle" => pc'[q] # "idle"
      BY <1>2, ConfigTypes DEF Restart, Tick, TypeOK
    <2>2. ASSUME NEW s \in Ids, sessions[s] # None, Expired(s)
          PROVE  Expired(s)'
      <3>1. sessions[s].expires \in Nat
        BY <2>2 DEF TypeOK, SessionRow
      <3> QED BY <2>1, <2>2, <3>1 DEF Expired
    <2> QED BY <2>1, <2>2, OpenedStays DEF LateOK
  <1> QED BY <1>1, <1>2

-----------------------------------------------------------------------------
(* Who writes the configuration                                             *)

\* A request stays an administrator's once its session is settled.
LEMMA AdminStays ==
  ASSUME TypeOK, StagesOK, LateOK, Next, NEW q \in Requests, ByAdmin(q),
         pc[q] \in {"find-config", "write-config"} \cup Over
  PROVE  ByAdmin(q)'
PROOF
  <1>1. pc[q] \notin {"idle", "dispatch", "bearer", "page"}
    BY SMT DEF Over
  <1>2. session'[q] = session[q] /\ call'[q] = call[q]
    <2>1. CASE \E r \in Requests : Step(r) \/ InitFails(r)
      <3> PICK r \in Requests : Step(r) \/ InitFails(r)
        BY <2>1
      <3>1. session'[q] = session[q]
        <4>1. ~ResolveSession(q)
          BY <1>1 DEF ResolveSession, At
        <4> QED BY <1>1, <4>1, Others, Attached
      <3> QED BY <3>1, Frames DEF Frame
    <2>2. CASE \E r \in Requests : Arrive(r)
      <3> PICK r \in Requests : Arrive(r)
        BY <2>2
      <3>1. /\ q # r /\ UNCHANGED session
            /\ call' = [call EXCEPT ![r] = call'[r]] /\ DOMAIN call = Requests
        BY <1>1, Arrivals DEF TypeOK
      <3> QED BY <3>1
    <2>3. CASE (\E w \in Workers : Restart(w)) \/ Tick
      BY <2>3 DEF Restart, Tick
    <2> QED BY <2>1, <2>2, <2>3 DEF Next
  <1> PICK s : s = session[q]
    OBVIOUS
  <1>3. s \in Ids /\ Opened(s) /\ s # None /\ SessionUser(s) \in Admins
    BY DEF ByAdmin, TypeOK, LateOK
  <1>4. SessionUser(s)' = SessionUser(s)
    BY <1>3, OpenedStays
  <1>5. SessionUser(session[q])' = SessionUser(s)
    BY <1>2, <1>4 DEF SessionUser
  <1>6. Untrusted(call[q])' = Untrusted(call[q])
    BY <1>2 DEF Untrusted
  <1> QED BY <1>2, <1>3, <1>5, <1>6 DEF ByAdmin

\* A request that is over stays so.
LEMMA OverStays ==
  ASSUME TypeOK, Next, NEW q \in Requests, pc[q] \in Over
  PROVE  pc'[q] \in Over
PROOF
  <1>1. CASE \E r \in Requests : Step(r) \/ InitFails(r)
    <2> PICK r \in Requests : Step(r) \/ InitFails(r)
      BY <1>1
    <2>1. q = r => pc'[q] \in Over
      BY Moves, SMT DEF Moved, Step, Over
    <2> QED BY <2>1, Others
  <1>2. CASE \E r \in Requests : Arrive(r)
    <2> PICK r \in Requests : Arrive(r)
      BY <1>2
    <2>1. pc[r] = "idle" /\ pc' = [pc EXCEPT ![r] = pc'[r]] /\ DOMAIN pc = Requests
      BY Arrivals DEF TypeOK
    <2>2. q # r
      BY <2>1, SMT DEF Over
    <2> QED BY <2>1, <2>2
  <1>3. CASE (\E w \in Workers : Restart(w)) \/ Tick
    BY <1>3, SMT DEF Restart, Tick, Over
  <1> QED BY <1>1, <1>2, <1>3 DEF Next

\* A request passes require_admin with the session of an administrator.
LEMMA AdminPasses ==
  ASSUME TypeOK, StagesOK, UsersOK, LateOK, NEW r \in Requests, RequireAdmin(r),
         pc'[r] = "find-config"
  PROVE  ByAdmin(r)
PROOF
  <1>1. pc[r] = "handler" /\ call[r].path = "auth-methods"
    BY DEF RequireAdmin, Handling, At
  <1>2. pc[r] \in Admitted /\ pc[r] \in Gated
    BY <1>1, SMT DEF Admitted, Gated, Handled
  <1>3. ~Untrusted(call[r]) /\ session[r] # None
    BY <1>1, <1>2 DEF StagesOK, StageOK, RequiresSession
  <1>4. users[SessionUser(session[r])].admin
    BY DEF RequireAdmin, Refuse, Goto, TypeOK
  <1> PICK s : s = session[r]
    OBVIOUS
  <1>5. s \in Ids /\ Opened(s)
    BY <1>3 DEF TypeOK, LateOK
  <1>6. SessionUser(s) \in Ids /\ users[SessionUser(s)] # None
    BY <1>5, SessionUsers DEF Opened
  <1>7. SessionUser(s) \in Admins
    BY <1>4, <1>6 DEF UsersOK
  <1> QED BY <1>1, <1>3, <1>7 DEF ByAdmin

\* The rows of a PUT are those that were there, and the one it wrote.
LEMMA Upserts ==
  ASSUME NEW rows \in SUBSET ConfigRow, NEW id \in Requests \cup {None}, NEW r \in Requests,
         NEW enabled \in BOOLEAN, NEW row \in Upsert(rows, id, r, enabled)
  PROVE  /\ row \in rows \/ row.by = r
         /\ (id = None => rows = {}) /\ (id # None => \A x \in rows : x.id = id) =>
              row.enabled = enabled
PROOF
  <1>1. CASE id = None
    BY <1>1 DEF Upsert
  <1>2. CASE id # None
    <2>1. PICK x \in rows : row = IF x.id = id THEN [x EXCEPT !.by = r, !.enabled = enabled] ELSE x
      BY <1>2 DEF Upsert
    <2>2. x \in ConfigRow
      OBVIOUS
    <2> QED BY <1>2, <2>1, <2>2 DEF ConfigRow
  <1> QED BY <1>1, <1>2

\* The configuration stays the administrators'.
LEMMA WritersStep ==
  ASSUME TypeOK, StagesOK, UsersOK, LateOK, WritersOK, Next
  PROVE  WritersOK'
PROOF
  <1>1. ASSUME NEW row \in methods
        PROVE  pc'[row.by] \in Over /\ ByAdmin(row.by)'
    <2>1. row.by \in Requests /\ pc[row.by] \in Over /\ ByAdmin(row.by)
      BY DEF WritersOK, TypeOK, ConfigRow
    <2> QED BY <2>1, AdminStays, OverStays
  <1>2. ASSUME NEW q \in Requests, pc[q] \in {"find-config", "write-config"}
        PROVE  ByAdmin(q)'
    BY <1>2, AdminStays DEF WritersOK
  <1>3. CASE \E r \in Requests : Step(r) \/ InitFails(r)
    <2> PICK r \in Requests : Step(r) \/ InitFails(r)
      BY <1>3
    <2>1. ASSUME NEW q \in Requests, pc'[q] \in {"find-config", "write-config"}
          PROVE  ByAdmin(q)'
      <3>1. CASE pc[q] \in {"find-config", "write-config"}
        BY <1>2, <3>1
      <3>2. CASE pc[q] \notin {"find-config", "write-config"}
        <4>1. q = r
          BY <2>1, <3>2, Others
        <4>2. RequireAdmin(r) /\ pc'[r] = "find-config"
          BY <2>1, <3>2, <4>1, Moves, SMT DEF Moved, Step
        <4>3. ByAdmin(r)
          BY <4>2, AdminPasses
        <4>4. /\ UNCHANGED <<session, call>>
          BY <4>2, Zenon DEF RequireAdmin
        <4>5. ByAdmin(r)' = ByAdmin(r)
          BY <4>4 DEF ByAdmin, SessionUser, Untrusted
        <4> QED BY <4>1, <4>3, <4>5
      <3> QED BY <3>1, <3>2
    <2>2. ASSUME NEW row \in methods'
          PROVE  pc'[row.by] \in Over /\ ByAdmin(row.by)'
      <3>1. CASE row \in methods
        BY <1>1, <3>1
      <3>2. CASE row \notin methods
        <4>1. WriteMethods(r) /\ pc[r] = "write-config" /\ pc'[r] = "after" /\ call[r] \in Call
          BY <2>2, <3>2, Frames, Moves, Called DEF Frame, Moved
        <4>2. /\ methods \in SUBSET ConfigRow /\ found[r] \in Requests \cup {None}
              /\ call[r].enabled \in BOOLEAN
          BY <4>1, CallTypes DEF TypeOK
        <4>3. row \in Upsert(methods, found[r], r, call[r].enabled)
          BY <4>1 DEF WriteMethods
        <4>4. row.by = r
          BY <3>2, <4>2, <4>3, Upserts
        <4> QED BY <1>2, <4>1, <4>4 DEF Over
      <3> QED BY <3>1, <3>2
    <2> QED BY <2>1, <2>2 DEF WritersOK
  <1>4. CASE ~\E r \in Requests : Step(r) \/ InitFails(r)
    <2>1. UNCHANGED methods
      BY <1>4, Arrivals DEF Next, Restart, Tick
    <2>2. \A q \in Requests : pc'[q] \in {"find-config", "write-config"} =>
                                pc[q] \in {"find-config", "write-config"}
      <3>1. ASSUME NEW r \in Requests, Arrive(r)
            PROVE  \A q \in Requests : pc'[q] \in {pc[q], "page", "init"}
        BY <3>1, Arrivals DEF TypeOK
      <3>2. ASSUME (\E w \in Workers : Restart(w)) \/ Tick
            PROVE  \A q \in Requests : pc'[q] \in {pc[q], "lost"}
        BY <3>2 DEF Restart, Tick
      <3> QED BY <1>4, <3>1, <3>2 DEF Next
    <2> QED BY <1>1, <1>2, <2>1, <2>2 DEF WritersOK
  <1> QED BY <1>3, <1>4

-----------------------------------------------------------------------------
(* What the configuration says                                              *)

\* A write that no other overlapped leaves one row, which says what was written.
LEMMA Writes ==
  ASSUME TypeOK, StagesOK, SettingOK, NEW r \in Requests, WriteMethods(r), setting' # "unclear"
  PROVE  /\ setting # "unclear" /\ \A q \in Requests \ {r} : pc[q] # "write-config"
         /\ \E row \in methods' : methods' = {row}
         /\ setting' = "off" => \A row \in methods' : ~row.enabled
PROOF
  <1>1. /\ pc[r] = "write-config" /\ call[r] \in Call /\ call[r].enabled \in BOOLEAN
        /\ methods' = Upsert(methods, found[r], r, call[r].enabled)
        /\ methods \in SUBSET ConfigRow /\ found[r] \in Requests \cup {None}
    BY Moves, Called, CallTypes DEF WriteMethods, At, TypeOK, Step
  <1>2. ~Overlaps(r) /\ setting' = IF call[r].enabled THEN "on" ELSE "off"
    BY DEF WriteMethods
  <1>3. setting # "unclear" /\ \A q \in Requests \ {r} : pc[q] # "write-config"
    BY <1>2 DEF Overlaps
  <1>4. IF found[r] = None THEN methods = {}
        ELSE \E row \in methods : methods = {row} /\ row.id = found[r]
    BY <1>1, <1>3 DEF SettingOK
  <1>5. \E row : methods' = {row}
    <2>1. CASE found[r] = None
      <3>1. methods' = {[id |-> r, by |-> r, enabled |-> call[r].enabled]}
        BY <1>1, <1>4, <2>1 DEF Upsert
      <3> QED BY <3>1
    <2>2. CASE found[r] # None
      <3>1. PICK row : methods = {row}
        BY <1>4, <2>2
      <3>2. methods' = {IF x.id = found[r] THEN [x EXCEPT !.by = r, !.enabled = call[r].enabled]
              ELSE x
                          : x \in {row}}
        BY <1>1, <2>2, <3>1 DEF Upsert
      <3>3. methods' = {IF row.id = found[r] THEN [row EXCEPT !.by = r, !.enabled = call[r].enabled]
                        ELSE row}
        BY <3>2, SMTT(30)
      <3> QED BY <3>3, Zenon
    <2> QED BY <2>1, <2>2
  <1>6. \A row \in methods' : row.enabled = call[r].enabled
    BY <1>1, <1>4, Upserts
  <1> QED BY <1>2, <1>3, <1>5, <1>6

\* A PUT that looks for the row finds it.
LEMMA Finds ==
  ASSUME TypeOK, SettingOK, NEW r \in Requests, FindMethods(r), setting # "unclear"
  PROVE  IF found'[r] = None THEN methods = {}
         ELSE \E row \in methods : methods = {row} /\ row.id = found'[r]
PROOF
  <1>1. PICK row \in FindConfig : found' = [found EXCEPT ![r] = IF row = None THEN None ELSE row.id]
    BY DEF FindMethods
  <1>2. found'[r] = IF row = None THEN None ELSE row.id
    BY <1>1 DEF TypeOK
  <1>3. CASE methods = {}
    BY <1>1, <1>2, <1>3 DEF FindConfig
  <1>4. CASE methods # {}
    <2>1. row \in methods /\ row \in ConfigRow
      BY <1>1, <1>4 DEF FindConfig, TypeOK
    <2>2. row # None /\ row.id # None
      BY <2>1, NoneAssumption DEF ConfigRow, Ids
    <2>3. methods = {row}
      BY <1>4, <2>1 DEF SettingOK
    <2> QED BY <1>2, <2>1, <2>2, <2>3
  <1> QED BY <1>3, <1>4

\* The setting stays what the configuration says.
LEMMA SettingStep ==
  ASSUME TypeOK, StagesOK, LateOK, SettingOK, Next
  PROVE  SettingOK'
PROOF
  <1>1. CASE \E r \in Requests : WriteMethods(r)
    <2> PICK r \in Requests : WriteMethods(r)
      BY <1>1
    <2>1. /\ pc[r] = "write-config" /\ pc'[r] = "after" /\ config' = config
          /\ barred' = IF setting' = "off" THEN barred ELSE {}
      BY Moves DEF Moved, Step, WriteMethods
    <2>2. \A q \in Requests \ {r} : pc'[q] = pc[q]
      BY Others DEF Step
    <2>3. config.gate
      <3>1. call[r].path = "auth-methods"
        BY <2>1 DEF StagesOK, StageOK
      <3>2. pc[r] \in Admitted
        BY <2>1, SMT DEF Admitted, Gated, Handled
      <3> QED BY <3>1, <3>2 DEF StagesOK, StageOK, Registered
    <2>4. \A q \in barred' : pc'[q] # "idle"
      BY <2>1, <2>2 DEF SettingOK, TypeOK
    <2>5. setting' # "unclear" => /\ \A q \in Requests : pc'[q] # "write-config"
                                  /\ \E row \in methods' : methods' = {row}
                                  /\ setting' = "off" => \A row \in methods' : ~row.enabled
      BY <2>1, <2>2, Writes
    <2>6. barred' # {} => setting' = "off"
      BY <2>1
    <2>7. setting' = "off" =>
            setting' # "unclear" /\ methods' # {} /\ \A row \in methods' : ~row.enabled
      BY <2>5
    <2> QED BY <2>1, <2>3, <2>4, <2>5, <2>6, <2>7 DEF SettingOK
  <1>2. CASE \E r \in Requests : (Step(r) \/ InitFails(r)) /\ ~WriteMethods(r)
    <2> PICK r \in Requests : (Step(r) \/ InitFails(r)) /\ ~WriteMethods(r)
      BY <1>2
    <2>1. UNCHANGED <<methods, setting, barred, config>>
      BY Frames DEF Frame
    <2>2. \A q \in Requests \ {r} : pc'[q] = pc[q] /\ found'[q] = found[q]
      BY Others
    <2>3. pc'[r] # "idle" /\ (pc'[r] = "write-config" => FindMethods(r))
      BY Moves, SMT DEF Moved, Step
    <2>4. ASSUME NEW q \in Requests, pc'[q] = "write-config", setting # "unclear"
          PROVE  IF found'[q] = None THEN methods = {}
                 ELSE \E row \in methods : methods = {row} /\ row.id = found'[q]
      <3>1. CASE q = r
        BY <2>3, <2>4, <3>1, Finds
      <3>2. CASE q # r
        BY <2>2, <2>4, <3>2 DEF SettingOK
      <3> QED BY <3>1, <3>2
    <2>5. \A q \in barred' : pc'[q] # "idle"
      BY <2>1, <2>2, <2>3 DEF SettingOK, TypeOK
    <2> QED BY <2>1, <2>4, <2>5 DEF SettingOK
  <1>3. CASE \E r \in Requests : Arrive(r)
    <2> PICK r \in Requests : Arrive(r)
      BY <1>3
    <2>1. /\ UNCHANGED <<methods, setting, config, found>>
          /\ barred' = IF setting = "off" THEN barred \cup {r} ELSE barred
          /\ pc' = [pc EXCEPT ![r] = pc'[r]] /\ pc'[r] \in {"page", "init"} /\ DOMAIN pc = Requests
      BY Arrivals DEF TypeOK
    <2>2. \A q \in Requests : (pc'[q] = "write-config" => pc[q] = "write-config")
                              /\ (pc[q] # "idle" => pc'[q] # "idle")
      BY <2>1
    <2>3. \A q \in barred' : pc'[q] # "idle"
      BY <2>1, <2>2 DEF SettingOK, TypeOK
    <2> QED BY <2>1, <2>2, <2>3 DEF SettingOK
  <1>4. CASE (\E w \in Workers : Restart(w)) \/ Tick
    <2>1. /\ UNCHANGED <<methods, setting, barred, config, found>>
          /\ \A q \in Requests : pc'[q] \in {pc[q], "lost"}
      BY <1>4 DEF Restart, Tick
    <2>2. \A q \in Requests : (pc'[q] = "write-config" => pc[q] = "write-config")
                              /\ (pc[q] # "idle" => pc'[q] # "idle")
      BY <2>1
    <2>3. \A q \in barred' : pc'[q] # "idle"
      BY <2>1, <2>2 DEF SettingOK, TypeOK
    <2> QED BY <2>1, <2>2, <2>3 DEF SettingOK
  <1> QED BY <1>1, <1>2, <1>3, <1>4 DEF Next

-----------------------------------------------------------------------------
(* The counters                                                             *)

\* One element more, one less, and a union, in numbers.
LEMMA OneMore ==
  ASSUME NEW S, IsFiniteSet(S), NEW x, NEW T \in SUBSET (S \cup {x})
  PROVE  Cardinality(T) \in Nat /\ Cardinality(S) \in Nat /\ Cardinality(T) <= Cardinality(S) + 1
PROOF
  <1>1. IsFiniteSet(S \cup {x}) /\ Cardinality(S) \in Nat
    BY FS_AddElement, FS_CardinalityType
  <1>2. IsFiniteSet(T) /\ Cardinality(T) \in Nat /\ Cardinality(T) <= Cardinality(S \cup {x})
    BY <1>1, FS_Subset, FS_CardinalityType
  <1>3. Cardinality(S \cup {x}) <= Cardinality(S) + 1
    BY <1>1, FS_AddElement
  <1> QED BY <1>1, <1>2, <1>3, FS_CardinalityType

\* A set that lacks an element of another.
LEMMA OneLess ==
  ASSUME NEW S, IsFiniteSet(S), NEW x \in S, NEW T \in SUBSET (S \ {x})
  PROVE  Cardinality(T) \in Nat /\ Cardinality(S) \in Nat /\ Cardinality(T) <= Cardinality(S) - 1
PROOF
  <1>1. IsFiniteSet(S \ {x}) /\ Cardinality(S \ {x}) = Cardinality(S) - 1
    BY FS_RemoveElement
  <1>2. IsFiniteSet(T) /\ Cardinality(T) <= Cardinality(S \ {x})
    BY <1>1, FS_Subset
  <1> QED BY <1>1, <1>2, FS_CardinalityType

\* A part of a union.
LEMMA AtMostBoth ==
  ASSUME NEW S, IsFiniteSet(S), NEW T, IsFiniteSet(T), NEW U \in SUBSET (S \cup T)
  PROVE  /\ Cardinality(U) \in Nat /\ Cardinality(S) \in Nat /\ Cardinality(T) \in Nat
         /\ Cardinality(U) <= Cardinality(S) + Cardinality(T)
PROOF
  <1>1. IsFiniteSet(S \cup T) /\ IsFiniteSet(S \cap T)
    BY FS_Union, FS_Subset
  <1>2. IsFiniteSet(U) /\ Cardinality(U) <= Cardinality(S \cup T)
    BY <1>1, FS_Subset
  <1>3. /\ Cardinality(S) \in Nat /\ Cardinality(T) \in Nat /\ Cardinality(S \cap T) \in Nat
        /\ Cardinality(U) \in Nat /\ Cardinality(S \cup T) \in Nat
    BY <1>1, <1>2, FS_CardinalityType
  <1>4. Cardinality(S \cup T) = Cardinality(S) + Cardinality(T) - Cardinality(S \cap T)
    BY FS_Union
  <1> QED BY <1>2, <1>3, <1>4

\* The numbers in counters, rules and the rate limiter's record.
LEMMA CounterTypes ==
  ASSUME TypeOK
  PROVE  /\ now \in Nat
         /\ \A b \in Bucket : /\ b.count \in Nat /\ b.until \in Nat /\ b.path \in Paths
                              /\ Window(b) \in Nat \ {0} /\ Rules[b.path].max \in Nat \ {0}
         /\ \A p \in passed : p \in Pass /\ p.at \in Nat
         /\ \A p \in Pass : p.at \in Nat /\ p.path \in Paths
         /\ \A b \in buckets : b \in Bucket
PROOF
  <1>1. \A path \in Paths : Rules[path].window \in Nat \ {0} /\ Rules[path].max \in Nat \ {0}
    BY ConstantsAssumption
  <1>2. \A b \in Bucket : /\ b.count \in Nat /\ b.until \in Nat /\ b.path \in Paths
                          /\ Window(b) \in Nat \ {0} /\ Rules[b.path].max \in Nat \ {0}
    BY <1>1 DEF Bucket, Window
  <1>3. now \in Nat
    BY ConfigTypes DEF TypeOK
  <1> QED BY <1>2, <1>3 DEF TypeOK, Pass

\* A counter whose window opens now.
LEMMA WindowOpens ==
  ASSUME TypeOK, CountersOK, NEW b \in Bucket, NEW p \in Pass, SameKey(p, b), p.at = now,
         now' = now, passed' = passed \cup {p}, b.count = 1, b.until = now + Window(b),
         \A c \in buckets : SameKey(c, b) => c.until <= now
  PROVE  CounterOK(b)'
PROOF
  <1>1. /\ now \in Nat /\ Window(b) \in Nat \ {0} /\ Rules[b.path].max \in Nat \ {0}
        /\ \A q \in passed : q.at \in Nat
        /\ IsFiniteSet(passed) /\ Window(b)' = Window(b)
    BY CounterTypes DEF CountersOK, Window
  <1>2. ASSUME NEW q \in Passed(b)
        PROVE  q.at < now
    <2>1. q \in passed /\ SameKey(q, b)
      BY <1>2 DEF Passed
    <2>2. PICK c \in buckets : SameKey(q, c)
      BY <2>1 DEF CountersOK
    <2>3. SameKey(c, b) /\ q \in Passed(c)
      BY <2>1, <2>2 DEF SameKey, Passed
    <2>4. c.until <= now /\ q.at < c.until /\ c.until \in Nat
      BY <2>3, CounterTypes DEF CountersOK, CounterOK
    <2> QED BY <1>1, <2>1, <2>4
  <1>3. Passed(b)' = Passed(b) \cup {p}
    BY DEF Passed
  <1>4. Within(b)' = {p}
    <2>1. \A q \in Passed(b) : ~(q.at + Window(b) >= b.until)
      BY <1>1, <1>2 DEF Passed
    <2>2. p.at + Window(b) >= b.until
      BY <1>1
    <2> QED BY <1>1, <1>3, <2>1, <2>2 DEF Within
  <1>5. Cardinality(Within(b)') = 1
    BY <1>4, FS_Singleton
  <1>6. Cardinality(Before(b)') <= Rules[b.path].max - 1
    <2>1. Before(b)' = {q \in Passed(b) : /\ q.at + Window(b) < b.until
                                          /\ q.at + Window(b) + Window(b) > b.until}
      <3>1. ~(p.at + Window(b) < b.until)
        BY <1>1
      <3> QED BY <1>1, <1>3, <3>1 DEF Before
    <2>2. CASE \E c \in buckets : SameKey(c, b)
      <3> PICK c \in buckets : SameKey(c, b)
        BY <2>2
      <3>1. /\ c.until <= now /\ c.until \in Nat /\ CounterOK(c)
            /\ Window(c) = Window(b) /\ Passed(c) = Passed(b) /\ c.path = b.path
        BY CounterTypes DEF CountersOK, Window, Passed, SameKey
      <3>2. PICK o \in Passed(c) : o.at + Window(c) = c.until
        BY <3>1 DEF CounterOK
      <3>3. o \in Within(c) /\ o.at \in Nat
        BY <1>1, <3>1, <3>2 DEF Within, Passed
      <3>4. Before(b)' \subseteq Within(c) \ {o}
        <4>1. ASSUME NEW q \in Before(b)'
              PROVE  q \in Within(c) /\ q # o
          <5>1. q \in Passed(b) /\ q.at + Window(b) + Window(b) > b.until /\ q.at \in Nat
            BY <1>1, <2>1, <4>1 DEF Passed
          <5>2. q.at + Window(b) > c.until
            BY <1>1, <3>1, <5>1
          <5> QED BY <1>1, <3>1, <3>2, <5>1, <5>2 DEF Within
        <4> QED BY <4>1
      <3>5. IsFiniteSet(Within(c)) /\ Cardinality(Within(c)) <= Rules[b.path].max
        <4>1. Within(c) \in SUBSET passed
          BY DEF Within, Passed
        <4> QED BY <1>1, <3>1, <4>1, FS_Subset DEF CounterOK
      <3>6. /\ Cardinality(Before(b)') \in Nat /\ Cardinality(Within(c)) \in Nat
            /\ Cardinality(Before(b)') <= Cardinality(Within(c)) - 1
        BY <3>3, <3>4, <3>5, OneLess
      <3> QED BY <1>1, <3>5, <3>6
    <2>3. CASE ~\E c \in buckets : SameKey(c, b)
      <3>1. Passed(b) = {}
        <4>1. ASSUME NEW q \in Passed(b)
              PROVE  FALSE
          <5>1. PICK c \in buckets : SameKey(q, c)
            BY <4>1 DEF CountersOK, Passed
          <5>2. SameKey(c, b)
            BY <4>1, <5>1 DEF SameKey, Passed
          <5> QED BY <2>3, <5>2
        <4> QED BY <4>1
      <3>2. Before(b)' = {}
        BY <2>1, <3>1
      <3> QED BY <1>1, <3>2, FS_EmptySet
    <2> QED BY <2>2, <2>3
  <1>7. /\ b.until >= Window(b) /\ b.until <= now + Window(b) /\ p.at + Window(b) = b.until
        /\ \A q \in Passed(b)' : q.at < b.until
    <2>1. \A q \in Passed(b) : q.at \in Nat
      BY <1>1 DEF Passed
    <2> QED BY <1>1, <1>2, <1>3, <2>1
  <1>8. p \in Passed(b)'
    BY <1>3
  <1> QED BY <1>1, <1>5, <1>6, <1>7, <1>8 DEF CounterOK

\* A counter that counts on, whether or not the request passes.
LEMMA WindowGoesOn ==
  ASSUME TypeOK, CountersOK, NEW b \in Bucket, NEW c \in buckets, SameKey(c, b), c.until > now,
         now' = now, b.count = c.count + 1, b.until = c.until,
         \/ b.count > Rules[b.path].max /\ passed' = passed
         \/ /\ b.count <= Rules[b.path].max
            /\ \E p \in Pass : SameKey(p, b) /\ p.at = now /\ passed' = passed \cup {p}
  PROVE  CounterOK(b)'
PROOF
  <1>1. /\ now \in Nat /\ Window(b) \in Nat \ {0} /\ Rules[b.path].max \in Nat \ {0}
        /\ IsFiniteSet(passed) /\ Window(b)' = Window(b) /\ c.count \in Nat /\ c.until \in Nat
    BY CounterTypes DEF CountersOK, Window
  <1>2. /\ CounterOK(c) /\ Window(c) = Window(b) /\ Passed(c) = Passed(b) /\ c.path = b.path
        /\ Within(c) = Within(b) /\ Before(c) = Before(b)
    BY DEF CountersOK, Window, Passed, SameKey, Within, Before
  <1>3. Within(b) \in SUBSET passed
    BY DEF Within, Passed
  <1>4. IsFiniteSet(Within(b)) /\ Cardinality(Within(b)) \in Nat
    BY <1>1, <1>3, FS_Subset, FS_CardinalityType
  <1>5. CASE b.count > Rules[b.path].max /\ passed' = passed
    <2>1. Passed(b)' = Passed(b) /\ Within(b)' = Within(b) /\ Before(b)' = Before(b)
      BY <1>1, <1>5 DEF Passed, Within, Before, Window
    <2> QED BY <1>1, <1>2, <1>4, <2>1 DEF CounterOK
  <1>6. ASSUME NEW p \in Pass, SameKey(p, b), p.at = now, passed' = passed \cup {p},
               b.count <= Rules[b.path].max
        PROVE  CounterOK(b)'
    <2>1. Passed(b)' = Passed(b) \cup {p}
      BY <1>6 DEF Passed
    <2>2. b.until <= now + Window(b) /\ b.until \in Nat
      BY <1>1, <1>2 DEF CounterOK
    <2>3. Before(b)' = Before(b)
      <3>1. ~(p.at + Window(b) < b.until)
        BY <1>1, <1>6, <2>2
      <3> QED BY <1>1, <2>1, <3>1 DEF Before
    <2>4. Within(b)' \in SUBSET (Within(b) \cup {p})
      BY <1>1, <2>1 DEF Within
    <2>5. Cardinality(Within(b)') \in Nat /\ Cardinality(Within(b)') <= Cardinality(Within(b)) + 1
      BY <1>4, <2>4, OneMore
    <2>6. Cardinality(Within(b)') <= b.count
      BY <1>1, <1>2, <1>4, <2>5 DEF CounterOK
    <2>7. Cardinality(Within(b)') <= Rules[b.path].max
      BY <1>1, <1>6, <2>5, <2>6
    <2>8. \A q \in Passed(b)' : q.at < b.until
      BY <1>1, <1>2, <1>6, <2>1 DEF CounterOK
    <2>9. b.count >= 1 /\ b.until >= Window(b) /\ \E q \in Passed(b)' : q.at + Window(b) = b.until
      BY <1>1, <1>2, <2>1 DEF CounterOK
    <2> QED BY <1>1, <1>2, <2>2, <2>3, <2>6, <2>7, <2>8, <2>9 DEF CounterOK
  <1> QED BY <1>5, <1>6

\* A hit is counted where it belongs.
LEMMA CountersStep ==
  ASSUME TypeOK, StagesOK, LateOK, CountersOK, NEW r \in Requests, Limit(r)
  PROVE  CountersOK'
PROOF
  <1>1. now' = now
    BY DEF Limit
  <1>2. CASE UNCHANGED <<buckets, passed>>
    BY <1>1, <1>2 DEF CountersOK, CounterOK, Passed, Within, Before, Window
  <1>3. ASSUME NEW b \in Bucket,
               buckets' = {c \in buckets : ~SameKey(c, b)} \cup {b},
               \/ /\ \A c \in buckets : SameKey(c, b) => c.until <= now
                  /\ b.count = 1 /\ b.until = now + Window(b)
               \/ \E c \in buckets : /\ SameKey(c, b) /\ c.until > now
                                     /\ b.count = c.count + 1 /\ b.until = c.until,
               \/ b.count > Rules[b.path].max /\ passed' = passed
               \/ /\ b.count <= Rules[b.path].max
                  /\ \E p \in Pass : SameKey(p, b) /\ p.at = now /\ passed' = passed \cup {p}
        PROVE  CountersOK'
    <2>1. CounterOK(b)'
      <3>1. CASE /\ \A c \in buckets : SameKey(c, b) => c.until <= now
                 /\ b.count = 1 /\ b.until = now + Window(b)
        <4>1. Rules[b.path].max \in Nat \ {0}
          BY CounterTypes
        <4>2. PICK p \in Pass : SameKey(p, b) /\ p.at = now /\ passed' = passed \cup {p}
          BY <1>3, <3>1, <4>1
        <4> QED BY <1>1, <3>1, <4>2, WindowOpens
      <3>2. CASE \E c \in buckets : /\ SameKey(c, b) /\ c.until > now
                                    /\ b.count = c.count + 1 /\ b.until = c.until
        BY <1>1, <1>3, <3>2, WindowGoesOn
      <3> QED BY <1>3, <3>1, <3>2
    <2>2. ASSUME NEW c \in buckets, ~SameKey(c, b)
          PROVE  CounterOK(c)'
      <3>1. Passed(c)' = Passed(c)
        BY <1>3, <2>2 DEF Passed, SameKey
      <3>2. Within(c)' = Within(c) /\ Before(c)' = Before(c)
        BY <3>1 DEF Within, Before, Window
      <3> QED BY <1>1, <3>1, <3>2 DEF CountersOK, CounterOK, Window
    <2>3. passed' = passed \/ \E p \in Pass : SameKey(p, b) /\ p.at = now
                                                                 /\ passed' = passed \cup {p}
      BY <1>3
    <2>4. IsFiniteSet(passed')
      BY <2>3, FS_AddElement DEF CountersOK
    <2>5. \A p \in passed' : p.at <= now
      BY <2>3, CounterTypes DEF CountersOK
    <2>6. \A p \in passed' : \E c \in buckets' : SameKey(p, c)
      <3>1. ASSUME NEW p \in passed, ~SameKey(p, b)
            PROVE  \E c \in buckets' : SameKey(p, c)
        <4>1. PICK c \in buckets : SameKey(p, c)
          BY DEF CountersOK
        <4>2. ~SameKey(c, b)
          BY <3>1, <4>1 DEF SameKey
        <4> QED BY <1>3, <4>1, <4>2
      <3>2. b \in buckets'
        BY <1>3
      <3> QED BY <2>3, <3>1, <3>2
    <2> QED BY <1>1, <1>3, <2>1, <2>2, <2>4, <2>5, <2>6 DEF CountersOK
  <1> QED BY <1>2, <1>3, Hits

\* The requests that pass in no more than a window's length from when one did.
Period(p) == {q \in passed : SameKey(p, q) /\ q.at \in p.at .. p.at + Rules[p.path].window - 1}
QuotaHolds(p) ==
  /\ Cardinality(Period(p)) < 2 * Rules[p.path].max
  /\ Cardinality({q \in Period(p) : q.at = p.at}) <= Rules[p.path].max

\* A hit that passes stays within the quotas: whoever passed in a period that
\* ends with it passed in the window of its counter, or before it.
LEMMA QuotasStep ==
  ASSUME TypeOK, StagesOK, LateOK, CountersOK, CountersOK', QuotasHold, TypeOK',
         NEW r \in Requests, Limit(r)
  PROVE  QuotasHold'
PROOF
  <1>1. \A x \in passed : QuotaHolds(x)
    BY DEF QuotasHold, QuotaHolds, Period
  <1>2. CASE passed' = passed
    BY <1>2 DEF QuotasHold, SameKey
  <1>3. ASSUME NEW b \in buckets', b \in Bucket, NEW p \in Pass, SameKey(p, b), p.at = now,
               passed' = passed \cup {p}
        PROVE  QuotasHold'
    <2>1. /\ now \in Nat /\ now' = now /\ Window(b) \in Nat \ {0} /\ Rules[b.path].max \in Nat \ {0}
          /\ \A q \in passed' : q.at \in Nat /\ q.at <= now
          /\ Window(b)' = Window(b)
      BY <1>3, CounterTypes DEF CountersOK, Limit, Window
    <2>2. /\ CounterOK(b)' /\ b.until <= now + Window(b) /\ b.until \in Nat /\ IsFiniteSet(passed')
          /\ Cardinality(Within(b)') <= Rules[b.path].max
          /\ Cardinality(Before(b)') <= Rules[b.path].max - 1
      BY <1>3, <2>1, CounterTypes DEF CountersOK, CounterOK
    <2>3. /\ Within(b)' = {q \in passed' : SameKey(q, b) /\ q.at + Window(b) >= b.until}
          /\ Before(b)' = {q \in passed' : /\ SameKey(q, b) /\ q.at + Window(b) < b.until
                                           /\ q.at + Window(b) + Window(b) > b.until}
      BY <2>1 DEF Within, Before, Passed, SameKey
    <2>4. IsFiniteSet(Within(b)') /\ IsFiniteSet(Before(b)')
      <3>1. Within(b)' \in SUBSET passed' /\ Before(b)' \in SUBSET passed'
        BY <2>3
      <3> QED BY <2>2, <3>1, FS_Subset
    <2>5. ASSUME NEW x \in passed', SameKey(x, b), x.at + Window(b) > now
          PROVE  QuotaHolds(x)'
      <3>1. /\ x.at \in Nat /\ x.at <= now /\ Rules[x.path].window = Window(b)
            /\ Rules[x.path].max = Rules[b.path].max
        BY <2>1, <2>5 DEF SameKey, Window
      <3>2. Period(x)' = {q \in passed' : SameKey(x, q) /\ q.at \in x.at .. x.at + Window(b) - 1}
        BY <3>1 DEF Period, SameKey
      <3>3. Period(x)' \in SUBSET (Within(b)' \cup Before(b)')
        <4>1. ASSUME NEW q \in Period(x)'
              PROVE  q \in Within(b)' \cup Before(b)'
          <5>1. q \in passed' /\ SameKey(q, b) /\ q.at \in Nat /\ q.at >= x.at
            BY <2>1, <2>5, <3>1, <3>2, <4>1 DEF SameKey
          <5>2. q.at + Window(b) + Window(b) > b.until
            BY <2>1, <2>2, <2>5, <3>1, <5>1
          <5>3. q.at + Window(b) >= b.until \/ q.at + Window(b) < b.until
            BY <2>1, <2>2, <5>1
          <5> QED BY <2>3, <5>1, <5>2, <5>3
        <4> QED BY <4>1
      <3>4. Cardinality(Period(x)') < 2 * Rules[x.path].max
        <4>1. /\ Cardinality(Period(x)') <= Cardinality(Within(b)') + Cardinality(Before(b)')
              /\ Cardinality(Period(x)') \in Nat /\ Cardinality(Within(b)') \in Nat
              /\ Cardinality(Before(b)') \in Nat
          BY <2>4, <3>3, AtMostBoth
        <4> QED BY <2>1, <2>2, <3>1, <4>1
      <3>5. Cardinality({q \in Period(x)' : q.at = x.at}) <= Rules[x.path].max
        <4>1. CASE x.at = now
          <5>1. {q \in Period(x)' : q.at = x.at} \in SUBSET (Within(b)')
            <6>1. ASSUME NEW q \in Period(x)', q.at = x.at
                  PROVE  q \in Within(b)'
              <7>1. q \in passed' /\ SameKey(q, b)
                BY <2>5, <3>2, <6>1 DEF SameKey
              <7> QED BY <2>1, <2>2, <2>3, <4>1, <6>1, <7>1
            <6> QED BY <6>1
          <5> PICK T : T = {q \in Period(x)' : q.at = x.at}
            OBVIOUS
          <5>2. IsFiniteSet(T) /\ Cardinality(T) <= Cardinality(Within(b)')
            BY <2>4, <5>1, FS_Subset
          <5>3. Cardinality(T) \in Nat /\ Cardinality(Within(b)') \in Nat
            BY <2>4, <5>2, FS_CardinalityType
          <5> QED BY <2>1, <2>2, <3>1, <5>2, <5>3
        <4>2. CASE x.at # now
          <5>1. x \in passed
            BY <1>3, <4>2
          <5>2. {q \in Period(x)' : q.at = x.at} = {q \in Period(x) : q.at = x.at}
            BY <1>3, <3>1, <3>2, <4>2 DEF Period
          <5> QED BY <1>1, <5>1, <5>2 DEF QuotaHolds
        <4> QED BY <4>1, <4>2
      <3> QED BY <3>4, <3>5 DEF QuotaHolds
    <2>6. ASSUME NEW x \in passed', ~(SameKey(x, b) /\ x.at + Window(b) > now)
          PROVE  QuotaHolds(x)'
      <3>1. x \in passed /\ x.at \in Nat
        <4>1. p.at + Window(b) > now
          BY <1>3, <2>1
        <4> QED BY <1>3, <2>1, <2>6, <4>1
      <3>2. ~(SameKey(x, p) /\ p.at \in x.at .. x.at + Rules[x.path].window - 1)
        <4>1. ASSUME SameKey(x, p)
              PROVE  SameKey(x, b) /\ Rules[x.path].window = Window(b)
          BY <1>3, <4>1 DEF SameKey, Window
        <4> QED BY <1>3, <2>1, <2>6, <3>1, <4>1
      <3>3. Period(x)' = Period(x)
        BY <1>3, <3>2 DEF Period, SameKey
      <3> QED BY <1>1, <3>1, <3>3 DEF QuotaHolds
    <2> QED BY <2>5, <2>6 DEF QuotasHold, QuotaHolds, Period
  <1>4. CASE ~(passed' = passed)
    <2>1. PICK b \in Bucket : /\ buckets' = {c \in buckets : ~SameKey(c, b)} \cup {b}
                              /\ \E p \in Pass : SameKey(p, b) /\ p.at = now
                                                                    /\ passed' = passed \cup {p}
      BY <1>4, Hits
    <2> QED BY <1>3, <2>1
  <1> QED BY <1>2, <1>4

\* A process that dies takes its counters along with who passed them; time only passes.
LEMMA CountersStay ==
  ASSUME TypeOK, CountersOK, QuotasHold, (\E w \in Workers : Restart(w)) \/ Tick
  PROVE  CountersOK' /\ QuotasHold'
PROOF
  <1>1. CASE Tick
    <2>1. now' = now + 1 /\ UNCHANGED <<buckets, passed>>
      BY <1>1 DEF Tick
    <2>2. \A b \in buckets : CounterOK(b)'
      <3>1. ASSUME NEW b \in buckets
            PROVE  CounterOK(b)'
        <4>1. Passed(b)' = Passed(b) /\ Within(b)' = Within(b) /\ Before(b)' = Before(b)
              /\ Window(b)' = Window(b)
          BY <2>1 DEF Passed, Within, Before, Window
        <4>2. /\ now \in Nat /\ b.until \in Nat /\ Window(b) \in Nat /\ CounterOK(b)
          BY CounterTypes DEF CountersOK
        <4>3. b.until <= now' + Window(b)
          BY <2>1, <4>2 DEF CounterOK
        <4> QED BY <4>1, <4>2, <4>3 DEF CounterOK
      <3> QED BY <3>1
    <2>3. \A p \in passed : p.at <= now'
      BY <2>1, CounterTypes DEF CountersOK
    <2> QED BY <2>1, <2>2, <2>3 DEF CountersOK, QuotasHold, SameKey
  <1>2. ASSUME NEW w \in Workers, Restart(w)
        PROVE  CountersOK' /\ QuotasHold'
    <2>1. /\ now' = now /\ buckets' = {b \in buckets : b.store # w}
          /\ passed' = {p \in passed : p.store # w}
      BY <1>2 DEF Restart
    <2>2. IsFiniteSet(passed')
      <3>1. passed' \in SUBSET passed
        BY <2>1
      <3> QED BY <3>1, FS_Subset DEF CountersOK
    <2>3. \A b \in buckets' : CounterOK(b)'
      <3>1. ASSUME NEW b \in buckets'
            PROVE  CounterOK(b)'
        <4>1. b \in buckets /\ b.store # w /\ CounterOK(b)
          BY <2>1, <3>1 DEF CountersOK
        <4>2. Passed(b)' = Passed(b)
          BY <2>1, <4>1 DEF Passed, SameKey
        <4>3. Within(b)' = Within(b) /\ Before(b)' = Before(b) /\ Window(b)' = Window(b)
          BY <4>2 DEF Within, Before, Window
        <4> QED BY <2>1, <4>1, <4>2, <4>3 DEF CounterOK
      <3> QED BY <3>1
    <2>4. \A p \in passed' : p.at <= now' /\ \E b \in buckets' : SameKey(p, b)
      BY <2>1 DEF CountersOK, SameKey
    <2>5. \A p \in passed' : QuotaHolds(p)'
      <3>1. ASSUME NEW p \in passed'
            PROVE  QuotaHolds(p)'
        <4>1. p \in passed /\ p.store # w
          BY <2>1, <3>1
        <4>2. Period(p)' = Period(p)
          BY <2>1, <4>1 DEF Period, SameKey
        <4>3. QuotaHolds(p)
          BY <4>1 DEF QuotasHold, QuotaHolds, Period
        <4> QED BY <4>2, <4>3 DEF QuotaHolds
      <3> QED BY <3>1
    <2> QED BY <2>2, <2>3, <2>4, <2>5 DEF CountersOK, QuotasHold, QuotaHolds, Period
  <1> QED BY <1>1, <1>2

\* What no step of the rate limiter changes.
LEMMA CountersSame ==
  ASSUME CountersOK, QuotasHold, UNCHANGED <<now, buckets, passed>>
  PROVE  CountersOK' /\ QuotasHold'
PROOF
  <1>1. \A b \in buckets : CounterOK(b)'
    BY DEF CountersOK, CounterOK, Passed, Within, Before, Window
  <1> QED BY <1>1 DEF CountersOK, QuotasHold, SameKey

-----------------------------------------------------------------------------
(* The theorems                                                             *)

\* The invariant holds at the start.
LEMMA InitIInv ==
  ASSUME Init
  PROVE  IInv
PROOF
  <1>1. /\ config \in Config /\ config \in Configs /\ now = 0 /\ config.ticks \in Nat
        /\ config.failures \in Nat /\ config.restarts \in Nat
        /\ config.provider \in BOOLEAN
    BY ConstantsAssumption DEF Init, Config
  <1>2. Requests \subseteq Ids /\ Users \subseteq Ids /\ None \notin Ids /\ Requests \cap Users = {}
    BY NoneAssumption, ConstantsAssumption DEF Ids
  <1>3. Len(InitPlugins) \in Nat
    BY ConstantsAssumption
  <1>4. \A w \in Workers : worker[w] = Started
    BY DEF Init
  <1>5. /\ Started \in [inits : 0 .. Len(InitPlugins), lock : Requests \cup {None},
                        done : BOOLEAN, provider : BOOLEAN]
        /\ Started.lock = None /\ (Started.done => Started.inits = Len(InitPlugins))
        /\ (Started.provider => config.provider)
        /\ Started.provider = config.provider \/ Started.inits = 0
    <2>1. CASE config.eager
      <3>1. Started = [inits |-> Len(InitPlugins), lock |-> None, done |-> TRUE,
                       provider |-> config.provider]
        BY <2>1 DEF Started, Ready
      <3> QED BY <1>1, <1>3, <3>1
    <2>2. CASE ~config.eager
      <3>1. Started = [inits |-> 0, lock |-> None, done |-> FALSE, provider |-> FALSE]
        BY <2>2 DEF Started, Fresh
      <3> QED BY <1>1, <1>3, <3>1
    <2> QED BY <2>1, <2>2
  <1>6. TypeOK
    <2>1. worker \in [Workers -> [inits : 0 .. Len(InitPlugins), lock : Requests \cup {None},
                                  done : BOOLEAN, provider : BOOLEAN]]
      BY <1>5 DEF Init
    <2>2. users \in [Ids -> UserRow \cup {None}]
      <3>1. \A i : [admin |-> i \in Admins, complete |-> TRUE, method |-> None] \in UserRow
        BY DEF UserRow
      <3> QED BY <3>1 DEF Init
    <2>3. sessions \in [Ids -> SessionRow \cup {None}]
      <3>1. [expires |-> SessionTTL, place |-> Place] \in SessionRow
        BY ConstantsAssumption DEF SessionRow, Place
      <3> QED BY <3>1 DEF Init
    <2>4. answer \in [Requests -> [status : Nat,
                                   cookies : Seq(Ids \cup {None}), header : Ids \cup {None}]]
      <3>1. NoAnswer \in [status : Nat, cookies : Seq(Ids \cup {None}), header : Ids \cup {None}]
        BY DEF NoAnswer
      <3> QED BY <3>1 DEF Init
    <2>5. /\ pc \in [Requests -> PCs] /\ call \in [Requests -> Calls[config.scenario] \cup {None}]
          /\ session \in [Requests -> Ids \cup {None}]
          /\ cookies \in [Requests -> Seq(Ids \cup {None})]
          /\ found \in [Requests -> Requests \cup {None}]
          /\ \A r \in Requests : pc[r] = "answered" => answer[r].status # 0
      BY DEF Init, PCs
    <2>6. /\ now \in 0 .. config.ticks /\ failures \in 0 .. config.failures
          /\ restarts \in 0 .. config.restarts
      BY <1>1 DEF Init
    <2> QED BY <1>1, <1>4, <1>5, <2>1, <2>2, <2>3, <2>4, <2>5, <2>6 DEF Init, TypeOK
  <1>7. StagesOK
    <2>1. \A r \in Requests : /\ pc[r] = "idle" /\ call[r] = None /\ session[r] = None
                              /\ answer[r].status = 0
      BY DEF Init, NoAnswer
    <2>2. "idle" \notin Inside /\ "idle" \notin Admitted /\ "idle" \notin Gated
                                                              /\ "idle" \notin Handled
      BY SMT DEF Inside, Admitted, Gated, Handled
    <2> QED BY <2>1, <2>2 DEF StagesOK, StageOK
  <1>8. ProcessesOK
    <2>1. Started.inits = 0 => ~\E i \in 1 .. Started.inits : InitPlugins[i] = "custom-session"
      OBVIOUS
    <2>2. \A w \in Workers : ProcessOK(w)
      BY <1>4, <1>5, <2>1, Zenon DEF ProcessOK
    <2>3. \A r \in Requests : pc[r] = "idle"
      BY DEF Init
    <2>4. "idle" \notin Inside
      BY SMT DEF Inside, Admitted, Gated, Handled
    <2> QED BY <2>2, <2>3, <2>4 DEF ProcessesOK
  <1>9. UsersOK
    <2>1. \A u \in Users : users[u] = [admin |-> u \in Admins, complete |-> TRUE, method |-> None]
      BY <1>2 DEF Init
    <2>2. \A u \in Users : users[u] # None /\ (users[u].admin => u \in Admins)
      <3>1. ASSUME NEW u \in Users
            PROVE  users[u] # None /\ (users[u].admin => u \in Admins)
        <4> PICK admin : admin = (u \in Admins)
          OBVIOUS
        <4>1. users[u] = [admin |-> admin, complete |-> TRUE, method |-> None] /\ admin \in BOOLEAN
          BY <2>1
        <4>2. users[u] \in UserRow
          BY <4>1 DEF UserRow
        <4>3. users[u] # None
          BY <4>2, NoneAssumption
        <4>4. users[u].admin = admin
          BY <4>1
        <4> QED BY <4>3, <4>4, Zenon
      <3> QED BY <3>1
    <2>3. \A u \in Ids \ Users : users[u] = None
      BY DEF Init
    <2> QED BY <2>2, <2>3 DEF UsersOK
  <1>10. SessionsOK
    <2>1. \A s \in Ids : sessions[s] # None => s \in Users /\ sessions[s].place = Place
      BY DEF Init
    <2>2. \A s \in Users : Opened(s)
      BY <1>2, <1>9 DEF Opened, SessionUser, UsersOK
    <2> QED BY <1>2, <2>1, <2>2 DEF SessionsOK
  <1>11. LateOK
    BY <1>2 DEF Init, LateOK
  <1>12. WritersOK
    BY DEF Init, WritersOK
  <1>13. SettingOK
    BY DEF Init, SettingOK
  <1>14. CountersOK /\ QuotasHold
    BY FS_EmptySet DEF Init, CountersOK, QuotasHold
  <1> QED BY <1>6, <1>7, <1>8, <1>9, <1>10, <1>11, <1>12, <1>13, <1>14 DEF IInv

\* Every step keeps the invariant.
LEMMA NextIInv ==
  ASSUME IInv, [Next]_vars
  PROVE  IInv'
PROOF
  <1>1. /\ TypeOK /\ StagesOK /\ ProcessesOK /\ SessionsOK /\ UsersOK /\ LateOK /\ WritersOK
        /\ SettingOK /\ CountersOK /\ QuotasHold
    BY DEF IInv
  <1>2. CASE UNCHANGED vars
    <2>1. UNCHANGED <<config, now, worker, buckets, users, sessions, methods, pc, call, session,
                      cookies, found, answer, failures, restarts, passed, late, setting, barred>>
      BY <1>2 DEF vars
    <2>2. \A q \in Requests : StageOK(q)'
      BY <1>1, <2>1 DEF StagesOK, StageOK, Registered, Untrusted
    <2>3. ProcessesOK'
      BY <1>1, <2>1 DEF ProcessesOK, ProcessOK, Mine
    <2>4. \A s \in Ids : Opened(s) => Opened(s)'
      BY <2>1 DEF Opened, SessionUser
    <2>5. SessionsOK' /\ UsersOK'
      BY <1>1, <2>1, <2>4 DEF SessionsOK, UsersOK, Place, Untrusted
    <2>6. LateOK'
      BY <1>1, <2>1, <2>4 DEF LateOK, Expired
    <2>7. \A q \in Requests : ByAdmin(q) => ByAdmin(q)'
      BY <2>1 DEF ByAdmin, SessionUser, Untrusted
    <2>8. WritersOK'
      BY <1>1, <2>1, <2>7 DEF WritersOK, TypeOK, ConfigRow
    <2>9. SettingOK'
      BY <1>1, <2>1 DEF SettingOK
    <2>10. TypeOK'
      BY <1>1, <1>2, TypeOthers
    <2>11. CountersOK' /\ QuotasHold'
      BY <1>1, <2>1, CountersSame
    <2> QED BY <2>2, <2>3, <2>5, <2>6, <2>8, <2>9, <2>10, <2>11 DEF IInv, StagesOK
  <1>3. CASE Next
    <2>1. SessionsOK' /\ UsersOK' /\ WritersOK' /\ SettingOK'
      BY <1>1, <1>3, SessionsStep, UsersStay, WritersStep, SettingStep
    <2>2. CASE \E r \in Requests : Step(r) \/ InitFails(r)
      <3> PICK r \in Requests : Step(r) \/ InitFails(r)
        BY <2>2
      <3>1. TypeOK' /\ StagesOK' /\ ProcessesOK' /\ LateOK'
        BY <1>1, <1>3, TypeStep, StagesStep, ProcessesStep, LateStep
      <3>2. CASE Limit(r)
        BY <1>1, <2>1, <3>1, <3>2, CountersStep, QuotasStep DEF IInv
      <3>3. CASE ~Limit(r)
        <4>1. UNCHANGED <<now, buckets, passed>>
          BY <3>3, Frames DEF Frame
        <4> QED BY <1>1, <2>1, <3>1, <4>1, CountersSame DEF IInv
      <3> QED BY <3>2, <3>3
    <2>3. CASE \E r \in Requests : Arrive(r)
      <3> PICK r \in Requests : Arrive(r)
        BY <2>3
      <3>1. TypeOK' /\ StagesOK' /\ ProcessesOK' /\ LateOK'
        BY <1>1, <1>3, TypeOthers, StagesArrive, ProcessesArrive, LateOthers
      <3>2. UNCHANGED <<now, buckets, passed>>
        BY <1>1, Arrivals
      <3> QED BY <1>1, <2>1, <3>1, <3>2, CountersSame DEF IInv
    <2>4. CASE (\E w \in Workers : Restart(w)) \/ Tick
      <3>1. TypeOK' /\ LateOK' /\ CountersOK' /\ QuotasHold'
        BY <1>1, <1>3, <2>4, TypeOthers, LateOthers, CountersStay
      <3>2. StagesOK' /\ ProcessesOK'
        <4>1. CASE Tick
          <5>1. UNCHANGED <<config, worker, users, pc, call, session, answer, barred>>
            BY <4>1 DEF Tick
          <5>2. \A q \in Requests : StageOK(q)'
            BY <1>1, <5>1 DEF StagesOK, StageOK, Registered, Untrusted
          <5>3. ProcessesOK'
            BY <1>1, <5>1 DEF ProcessesOK, ProcessOK, Mine
          <5> QED BY <5>2, <5>3 DEF StagesOK
        <4> QED BY <1>1, <2>4, <4>1, StagesRestart, ProcessesRestart
      <3> QED BY <2>1, <3>1, <3>2 DEF IInv
    <2> QED BY <1>3, <2>2, <2>3, <2>4 DEF Next
  <1> QED BY <1>2, <1>3

\* It holds of every behaviour.
LEMMA Invariance == Spec => []IInv
PROOF BY InitIInv, NextIInv, PTL DEF Spec

\* Whatever requests, processes and configurations there are, the state is of its
\* type, and a process that is ready, or has its lock held, is as ensure_initialized leaves it.
THEOREM TypeCorrect == Spec => []TypeOK
PROOF
  <1>1. IInv => TypeOK
    BY DEF IInv
  <1> QED BY <1>1, Invariance, PTL

\* rate_limit.py: whatever the rules, and however many requests and processes, no
\* period of a window's length sees 2 * max requests pass from one client for one path.
THEOREM QuotasKept == Spec => []QuotasHold
PROOF
  <1>1. IInv => QuotasHold
    BY DEF IInv
  <1> QED BY <1>1, Invariance, PTL

\* Whatever plugins are installed, and however requests interleave, restart and fail,
\* no session, configuration or page escapes the checks of the router and of its hooks.
THEOREM EffectsScreened == Spec => []EffectsAreScreened
PROOF
  <1>1. IInv => EffectsAreScreened
    <2> HAVE IInv
    <2>1. TypeOK /\ StagesOK /\ SessionsOK /\ LateOK /\ WritersOK
      BY DEF IInv
    <2>2. SessionsAreScreened
      <3>1. ASSUME NEW r \in Requests, sessions[r] # None
            PROVE  call[r].origin # "foreign"
        <4>1. call[r].path \in {"sign-up", "sign-in"} /\ ~Untrusted(call[r])
          BY <2>1, <3>1 DEF SessionsOK, Opened, Ids
        <4> QED BY <4>1 DEF Untrusted, StateChanging
      <3>2. \A r \in Requests : sessions[r] # None => sessions[r].place = Place
        BY <2>1 DEF SessionsOK, Ids
      <3> QED BY <2>1, <3>1, <3>2 DEF SessionsOK, SessionsAreScreened
    <2>3. ConfigIsTheAdmins
      <3>1. ASSUME NEW row \in methods
            PROVE  /\ session[row.by] # None /\ SessionUser(session[row.by]) \in Admins
                   /\ call[row.by].origin # "foreign" /\ <<row.by, session[row.by]>> \notin late
        <4>1. row.by \in Requests /\ ByAdmin(row.by)
          BY <2>1 DEF WritersOK, TypeOK, ConfigRow
        <4>2. session[row.by] \in Ids
          BY <2>1, <4>1 DEF ByAdmin, TypeOK
        <4>3. <<row.by, session[row.by]>> \notin late
          BY <2>1, <4>1, <4>2 DEF LateOK
        <4> QED BY <4>1, <4>3 DEF ByAdmin, Untrusted, StateChanging
      <3> QED BY <3>1 DEF ConfigIsTheAdmins
    <2>4. PagesAreForTheLiving
      BY <2>1 DEF PagesAreForTheLiving, LateOK, TypeOK
    <2> QED BY <2>2, <2>3, <2>4 DEF EffectsAreScreened
  <1> QED BY <1>1, Invariance, PTL
=============================================================================
