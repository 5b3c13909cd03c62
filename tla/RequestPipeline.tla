--------------------------- MODULE RequestPipeline ---------------------------
(***************************************************************************)
(* What the router does with a request before and after its handler, in    *)
(* each of the processes that serve them: the plugins' deferred inits, the *)
(* origin check, the session of a cookie, the rate limit, the body, the    *)
(* on_request hooks (bearer, admin config), requires_session, the before   *)
(* hooks (captcha, breached passwords), the handler, the after hooks       *)
(* (additional fields, custom session) and the on_response hooks (bearer,  *)
(* last login method).                                                     *)
(*                                                                         *)
(* A step is one await, with the code up to the next.  The handlers are    *)
(* some that make, read and end a session or change the configuration;     *)
(* AccountSessions and the modules of the plugins look at handlers.  A     *)
(* page is a route of the application, which asks an integration (FastAPI, *)
(* Starlette, Django) for the session and does not come to the router.     *)
(* Users, sessions and configuration rows are named by the request that    *)
(* made them; a session that was there from the start by its user.         *)
(***************************************************************************)
EXTENDS Naturals, FiniteSets, Sequences, Functions

CONSTANTS
  Requests,    \* requests; each is sent once
  Workers,     \* processes, each with an AuthContext of its own
  Users,       \* users at the start, each with a session; Admins are admins
  Admins,
  Addresses,   \* of clients
  InitPlugins, \* the plugins that have an init, in order
  Rules,       \* the first rate-limit rule of each path, or the default: [window, max]
  SessionTTL,  \* session.expires_in
  Calls,       \* the requests of each scenario
  Configs,     \* the configurations that are looked at
  None

Ids == Requests \cup Users
Paths == {"sign-up", "sign-in", "sign-out", "get-session", "auth-methods", "page", "unknown"}
Actors == Ids \cup Addresses

\* What a method and path ask for: what changes state, has a
\* body, needs a session.
StateChanging(path) == path \notin {"get-session", "page"}
HasBody(path) == path \in {"sign-up", "sign-in", "auth-methods"}
RequiresSession(path) == path = "auth-methods"
CaptchaPaths == {"sign-up", "sign-in"}
PasswordPaths == {"sign-up"}
SignUpPaths == {"sign-up"}
EmailPasswordPaths == {"sign-up", "sign-in"}

\* origin:  of the page that sent the request; cookie, bearer: the tokens it carries
\* body:    whether it decodes; who: whose credentials they are, and whether right
\* captcha: what the service makes of the token; pwned: the password was breached
\* fields:  the required additional field is there; enabled: the method is switched on
Call == [worker : Workers, path : Paths, origin : {"none", "trusted", "foreign"},
         cookie : Ids \cup {None}, bearer : Ids \cup {None}, ip : Addresses,
         body : BOOLEAN, who : Users, right : BOOLEAN,
         captcha : {"none", "good", "bad", "down"}, pwned : BOOLEAN,
         fields : BOOLEAN, enabled : BOOLEAN]

\* limits:   the rate-limit store, if any; provider: with_custom_session
\* eager:    init() found no event loop, so the inits have run when requests arrive
\* captcha, pwned, fields, gate, last: the plugins that are installed; gate is
\*           admin_config, whose endpoints come with its on_request hook
\* failures, restarts, ticks, requests: bounds; scenario: what is sent
Config == [limits : {"memory", "redis", None}, provider : BOOLEAN, eager : BOOLEAN,
           captcha : BOOLEAN, pwned : BOOLEAN, fields : BOOLEAN,
           gate : BOOLEAN, last : BOOLEAN,
           failures : Nat, restarts : Nat, ticks : Nat, requests : Nat, scenario : DOMAIN Calls]

ASSUME ConstantsAssumption ==
  /\ Configs \subseteq Config
  /\ \A n \in DOMAIN Calls : Calls[n] \subseteq Call
  /\ Admins \subseteq Users /\ Requests \cap Users = {}
  /\ InitPlugins \in Seq(STRING) /\ InitPlugins # <<>>
  /\ Rules \in [Paths -> [window : Nat \ {0}, max : Nat \ {0}]]
  /\ SessionTTL \in Nat
  /\ \A c \in Configs : c.provider => "custom-session" \in Range(InitPlugins)

SessionRow == [expires : Nat, place : {"database", "provider"}]
UserRow == [admin : BOOLEAN, complete : BOOLEAN, method : {"email", None}]
\* by: whose PUT wrote it last
ConfigRow == [id : Requests, by : Requests, enabled : BOOLEAN]
Store == Workers \cup {None}
Key == [store : Store, path : Paths, actor : Actors]
Bucket == [store : Store, path : Paths, actor : Actors, count : Nat, until : Nat]
Pass == [store : Store, path : Paths, actor : Actors, at : Nat, by : Requests]

PCs == {"idle", "init", "initialising", "dispatch", "expire", "limit", "bearer",
        "expire-bearer", "gate", "screen", "handler", "create-session", "find-config",
        "write-config", "after", "respond", "answered", "page", "drop", "lost"}

ASSUME NoneAssumption ==
  None \notin Ids \cup Call \cup Workers \cup SessionRow \cup UserRow \cup ConfigRow

VARIABLES
  config, now,
  worker,      \* worker[w]: how many inits have been applied in this try, who holds
               \*            the lock, whether all are done, whether a provider is there
  buckets,     \* the counters of each process's memory, and of Redis, which is None
  users, sessions, methods,   \* the tables; methods is adminConfig's auth-methods
  pc, call,
  session,     \* ctx.session
  cookies,     \* ctx.set_cookies: sessions, or None for one that clears
  found,       \* the configuration row that a PUT found
  answer,      \* what the client got: status, session cookies, token header
  failures, restarts,
  passed,      \* who has passed the rate limiter
  late,        \* the requests sent with the token of a session that had expired, and it
  setting,     \* what the last PUT wrote, or "unclear" once two have overlapped
  barred       \* the requests sent while that was "off", and it has not been "on" since

vars == <<config, now, worker, buckets, users, sessions, methods, pc, call, session,
          cookies, found, answer, failures, restarts, passed, late, setting, barred>>

SameKey(b, c) == b.store = c.store /\ b.path = c.path /\ b.actor = c.actor
NoAnswer == [status |-> 0, cookies |-> <<>>, header |-> None]

TypeOK ==
  /\ config \in Configs /\ now \in 0 .. config.ticks
  /\ worker \in [Workers -> [inits : 0 .. Len(InitPlugins), lock : Requests \cup {None},
                             done : BOOLEAN, provider : BOOLEAN]]
  /\ \A w \in Workers :
       /\ worker[w].done => worker[w].lock = None /\ worker[w].inits = Len(InitPlugins)
       /\ worker[w].lock # None => pc[worker[w].lock] = "initialising"
       /\ worker[w].provider => config.provider
  /\ buckets \subseteq Bucket
  /\ \A b, c \in buckets : SameKey(b, c) => b = c
  /\ users \in [Ids -> UserRow \cup {None}]
  /\ sessions \in [Ids -> SessionRow \cup {None}]
  /\ methods \subseteq ConfigRow
  /\ pc \in [Requests -> PCs]
  /\ call \in [Requests -> Calls[config.scenario] \cup {None}]
  /\ session \in [Requests -> Ids \cup {None}]
  /\ cookies \in [Requests -> Seq(Ids \cup {None})]
  /\ found \in [Requests -> Requests \cup {None}]
  /\ answer \in [Requests -> [status : Nat, cookies : Seq(Ids \cup {None}),
                              header : Ids \cup {None}]]
  /\ \A r \in Requests : pc[r] = "answered" => answer[r].status # 0
  /\ failures \in 0 .. config.failures /\ restarts \in 0 .. config.restarts
  /\ passed \subseteq Pass
  /\ late \subseteq Requests \X Ids
  /\ setting \in {"on", "off", "unclear"} /\ barred \subseteq Requests

Fresh == [inits |-> 0, lock |-> None, done |-> FALSE, provider |-> FALSE]
Ready == [inits |-> Len(InitPlugins), lock |-> None, done |-> TRUE, provider |-> config.provider]
Started == IF config.eager THEN Ready ELSE Fresh
Place == IF config.provider THEN "provider" ELSE "database"

Init ==
  /\ config \in Configs /\ now = 0
  /\ worker = [w \in Workers |-> Started]
  /\ buckets = {}
  /\ users = [i \in Ids |-> IF i \in Users
                            THEN [admin |-> i \in Admins, complete |-> TRUE, method |-> None]
                            ELSE None]
  /\ sessions = [i \in Ids |-> IF i \in Users
                               THEN [expires |-> SessionTTL, place |-> Place]
                               ELSE None]
  /\ methods = {}
  /\ pc = [r \in Requests |-> "idle"] /\ call = [r \in Requests |-> None]
  /\ session = [r \in Requests |-> None] /\ cookies = [r \in Requests |-> <<>>]
  /\ found = [r \in Requests |-> None]
  /\ answer = [r \in Requests |-> NoAnswer]
  /\ failures = 0 /\ restarts = 0
  /\ passed = {} /\ late = {}
  /\ setting = "on" /\ barred = {}

-----------------------------------------------------------------------------
(* Requests, cookies and where sessions are kept                            *)

InFlight(r) == pc[r] \notin {"idle", "answered", "lost"}
Mine(r)     == worker[call[r].worker]

\* Whether a request waits for something outside of its process where it is.  If
\* not, what it does next reads and writes what is the process's own, and no
\* step of another request falls in between.
Waits(r) ==
  LET c == call[r] IN
  CASE pc[r] = "dispatch" -> c.cookie # None
    [] pc[r] = "limit"    -> config.limits = "redis"
    [] pc[r] = "bearer"   -> c.cookie = None /\ c.bearer # None
    [] pc[r] = "gate"     -> config.gate
    [] pc[r] = "screen"   -> (config.captcha /\ c.path \in CaptchaPaths)
                             \/ (config.pwned /\ c.path \in PasswordPaths)
    [] pc[r] = "handler"  -> session[r] # None \/ c.path \in {"sign-up", "sign-in"}
    [] pc[r] = "after"    -> config.fields /\ c.path \in SignUpPaths
    [] pc[r] = "respond"  -> config.last /\ cookies[r] # <<>>
    [] OTHER              -> TRUE
Scheduled(r) == \A q \in Requests \ {r} : Waits(q)

At(r, at)   == pc[r] = at /\ Scheduled(r)
Goto(r, to) == pc' = [pc EXCEPT ![r] = to]

\* Whose session it is does not change: that of the user who signed up or in with it.
SessionUser(s) ==
  IF s \in Users THEN s ELSE IF call[s].path = "sign-up" THEN s ELSE call[s].who

\* The store that this process goes to: the provider's, once its init has run.
PlaceOf(r) == IF Mine(r).provider THEN "provider" ELSE "database"
FoundIn(place, s) == s # None /\ sessions[s] # None /\ sessions[s].place = place
Expired(s) == sessions[s].expires < now
Without(s, place) == IF FoundIn(place, s) THEN [sessions EXCEPT ![s] = None] ELSE sessions

\* revoke_session: the row goes, and so does the cookie.
Revoke(r, s) ==
  /\ sessions' = Without(s, PlaceOf(r))
  /\ cookies' = [cookies EXCEPT ![r] = Append(@, None)]

\* An APIError: on_response hooks still run.
Refuse(r, status) ==
  /\ answer' = [answer EXCEPT ![r].status = status]
  /\ Goto(r, "respond")
Succeed(r) ==
  /\ answer' = [answer EXCEPT ![r].status = 200]
  /\ Goto(r, "after")

Stale(c) == {s \in {c.cookie, c.bearer} \ {None} : sessions[s] # None /\ Expired(s)}

CookiesKnown == Users \cup UNION {Range(answer[r].cookies) : r \in Requests}
HeadersKnown == Users \cup {answer[r].header : r \in Requests}

Arrive(r) ==
  /\ At(r, "idle")
  /\ Cardinality({q \in Requests : pc[q] # "idle"}) < config.requests
  /\ \E c \in Calls[config.scenario] :
       /\ c.cookie # None => c.cookie \in CookiesKnown
       /\ c.bearer # None => c.bearer \in HeadersKnown
       /\ call' = [call EXCEPT ![r] = c]
  /\ Goto(r, IF call'[r].path = "page" THEN "page" ELSE "init")
  /\ late' = late \cup ({r} \X Stale(call'[r]))
  /\ barred' = IF setting = "off" THEN barred \cup {r} ELSE barred
  /\ UNCHANGED <<config, now, worker, buckets, users, sessions, methods, session, cookies,
                 found, answer, failures, restarts, passed, setting>>

-----------------------------------------------------------------------------
(* ensure_initialized                                                       *)

SetWorker(r, w) == worker' = [worker EXCEPT ![call[r].worker] = w]

\* Mutant: the lock is not awaited.
EnterUnlocked(r) ==
  /\ At(r, "init")
  /\ \/ Mine(r).done /\ Goto(r, "dispatch") /\ UNCHANGED worker
     \/ /\ ~Mine(r).done
        /\ SetWorker(r, [Mine(r) EXCEPT !.lock = r])
        /\ Goto(r, "initialising")
  /\ UNCHANGED <<config, now, buckets, users, sessions, methods, call, session, cookies, found,
                 answer, failures, restarts, passed, late, setting, barred>>

Enter(r) ==
  /\ At(r, "init")
  /\ \/ Mine(r).done /\ Goto(r, "dispatch") /\ UNCHANGED worker
     \/ /\ ~Mine(r).done /\ Mine(r).lock = None
        /\ SetWorker(r, [Mine(r) EXCEPT !.lock = r, !.inits = 0])
        /\ Goto(r, "initialising")
  /\ UNCHANGED <<config, now, buckets, users, sessions, methods, call, session, cookies, found,
                 answer, failures, restarts, passed, late, setting, barred>>

\* The next plugin's init, and what it patches onto the context.
Applied(w) ==
  LET n == w.inits + 1 IN
  [w EXCEPT !.inits = n,
            !.provider = @ \/ (config.provider /\ InitPlugins[n] = "custom-session")]

Initialise(r) ==
  /\ At(r, "initialising")
  /\ IF Applied(Mine(r)).inits = Len(InitPlugins)
     THEN SetWorker(r, [Applied(Mine(r)) EXCEPT !.done = TRUE, !.lock = None])
          /\ Goto(r, "dispatch")
     ELSE SetWorker(r, Applied(Mine(r))) /\ UNCHANGED pc
  /\ UNCHANGED <<config, now, buckets, users, sessions, methods, call, session, cookies, found,
                 answer, failures, restarts, passed, late, setting, barred>>

\* Mutant: the lock stays held.
InitFailsLocked(r) ==
  /\ At(r, "initialising")
  /\ failures < config.failures
  /\ failures' = failures + 1
  /\ Goto(r, "lost")
  /\ UNCHANGED <<config, now, worker, buckets, users, sessions, methods, call, session, cookies,
                 found, answer, restarts, passed, late, setting, barred>>

\* An init raises: the lock is released, and the error leaves the router as it is.
InitFails(r) ==
  /\ At(r, "initialising")
  /\ failures < config.failures
  /\ failures' = failures + 1
  /\ SetWorker(r, [Mine(r) EXCEPT !.lock = None])
  /\ Goto(r, "lost")
  /\ UNCHANGED <<config, now, buckets, users, sessions, methods, call, session, cookies, found,
                 answer, restarts, passed, late, setting, barred>>

-----------------------------------------------------------------------------
(* Before the handler                                                       *)

Untrusted(c) == StateChanging(c.path) /\ c.origin = "foreign"

\* _attach_session: an expired session is none, and its row goes.
AttachSession(r) ==
  LET s == call[r].cookie IN
  IF ~FoundIn(PlaceOf(r), s) THEN Goto(r, "limit") /\ UNCHANGED session
  ELSE IF Expired(s) THEN Goto(r, "expire") /\ UNCHANGED session
  ELSE Goto(r, "limit") /\ session' = [session EXCEPT ![r] = s]

\* The paths that have an endpoint.
Registered(path) == path # "unknown" /\ (path = "auth-methods" => config.gate)

\* The endpoint, where the request comes from, and whose session the cookie is.
\* There are no hooks for a path that nobody has.
Dispatch(r) ==
  /\ At(r, "dispatch")
  /\ \/ /\ ~Registered(call[r].path)
        /\ answer' = [answer EXCEPT ![r].status = 404]
        /\ Goto(r, "answered") /\ UNCHANGED session
     \/ Registered(call[r].path) /\ Untrusted(call[r]) /\ Refuse(r, 403) /\ UNCHANGED session
     \/ /\ Registered(call[r].path) /\ ~Untrusted(call[r])
        /\ AttachSession(r) /\ UNCHANGED answer
  /\ UNCHANGED <<config, now, worker, buckets, users, sessions, methods, call, cookies, found,
                 failures, restarts, passed, late, setting, barred>>

Expire(r) ==
  /\ \/ At(r, "expire") /\ Revoke(r, call[r].cookie) /\ Goto(r, "limit")
     \/ At(r, "expire-bearer") /\ Revoke(r, call[r].bearer) /\ Goto(r, "gate")
  /\ UNCHANGED <<config, now, worker, buckets, users, methods, call, session, found, answer,
                 failures, restarts, passed, late, setting, barred>>

StoreOf(r) == IF config.limits = "redis" THEN None ELSE call[r].worker
Actor(r) == IF session[r] # None THEN SessionUser(session[r]) ELSE call[r].ip

RuleFor(r) == Rules[call[r].path]

Decode(r) == IF HasBody(call[r].path) /\ ~call[r].body
             THEN Refuse(r, 400) ELSE Goto(r, "bearer") /\ UNCHANGED answer

KeyOf(r) == [store |-> StoreOf(r), path |-> call[r].path, actor |-> Actor(r)]
Counter(key, count, until) ==
  [store |-> key.store, path |-> key.path, actor |-> key.actor, count |-> count, until |-> until]
Running(key) == {b \in buckets : SameKey(b, key) /\ b.until > now}

\* Mutant: windows that follow the clock.
HitAligned(key, window) ==
  IF Running(key) = {} THEN Counter(key, 1, now - (now % window) + window)
  ELSE LET b == CHOOSE b \in Running(key) : TRUE IN [b EXCEPT !.count = @ + 1]

\* Fixed windows, opened by the first hit; a hit that is refused counts too.
Hit(key, window) ==
  IF Running(key) = {} THEN Counter(key, 1, now + window)
  ELSE LET b == CHOOSE b \in Running(key) : TRUE IN [b EXCEPT !.count = @ + 1]

\* The request that passes now.
Passing(r) == [store |-> StoreOf(r), path |-> call[r].path, actor |-> Actor(r),
               at |-> now, by |-> r]

Limit(r) ==
  /\ At(r, "limit")
  /\ LET b == Hit(KeyOf(r), RuleFor(r).window) IN
     IF config.limits = None THEN Decode(r) /\ UNCHANGED <<buckets, passed>>
     ELSE /\ buckets' = {c \in buckets : ~SameKey(c, KeyOf(r))} \cup {b}
          /\ IF b.count > RuleFor(r).max THEN Refuse(r, 429) /\ UNCHANGED passed
             ELSE Decode(r) /\ passed' = passed \cup {Passing(r)}
  /\ UNCHANGED <<config, now, worker, users, sessions, methods, call, session, cookies, found,
                 failures, restarts, late, setting, barred>>

\* Mutant: a token is good as long as there is a row.
BearerUndated(r) ==
  /\ At(r, "bearer")
  /\ LET s == call[r].bearer IN
     IF session[r] # None \/ call[r].cookie # None \/ ~FoundIn("database", s)
     THEN UNCHANGED session
     ELSE session' = [session EXCEPT ![r] = s]
  /\ Goto(r, "gate")
  /\ UNCHANGED <<config, now, worker, buckets, users, sessions, methods, call, cookies, found,
                 answer, failures, restarts, passed, late, setting, barred>>

\* bearer: only without a cookie, and only in the database.
Bearer(r) ==
  /\ At(r, "bearer")
  /\ LET s == call[r].bearer IN
     IF session[r] # None \/ call[r].cookie # None \/ ~FoundIn("database", s)
     THEN Goto(r, "gate") /\ UNCHANGED session
     ELSE IF Expired(s) THEN Goto(r, "expire-bearer") /\ UNCHANGED session
     ELSE Goto(r, "gate") /\ session' = [session EXCEPT ![r] = s]
  /\ UNCHANGED <<config, now, worker, buckets, users, sessions, methods, call, cookies, found,
                 answer, failures, restarts, passed, late, setting, barred>>

\* adminConfig's auth-methods; were there two rows, find_one may return either.
FindConfig == IF methods = {} THEN {None} ELSE methods
Disabled(row) == row # None /\ ~row.enabled

Gate(r) ==
  /\ At(r, "gate")
  /\ LET p == call[r].path IN
     \E row \in IF config.gate THEN FindConfig ELSE {None} :
       IF p \in EmailPasswordPaths /\ Disabled(row) THEN Refuse(r, 403)
       ELSE IF RequiresSession(p) /\ session[r] = None THEN Refuse(r, 401)
       ELSE Goto(r, "screen") /\ UNCHANGED answer
  /\ UNCHANGED <<config, now, worker, buckets, users, sessions, methods, call, session, cookies,
                 found, failures, restarts, passed, late, setting, barred>>

CaptchaRefusal == [none |-> 400, bad |-> 403, down |-> 500]

\* Before hooks: the captcha, then the password.  Neither writes a table.
Screen(r) ==
  /\ At(r, "screen")
  /\ LET c == call[r] IN
     IF config.captcha /\ c.path \in CaptchaPaths /\ c.captcha # "good"
     THEN Refuse(r, CaptchaRefusal[c.captcha])
     ELSE IF config.pwned /\ c.path \in PasswordPaths /\ c.pwned THEN Refuse(r, 400)
     ELSE Goto(r, "handler") /\ UNCHANGED answer
  /\ UNCHANGED <<config, now, worker, buckets, users, sessions, methods, call, session, cookies,
                 found, failures, restarts, passed, late, setting, barred>>

-----------------------------------------------------------------------------
(* Handlers                                                                 *)

Handling(r, path) == At(r, "handler") /\ call[r].path = path

\* _sign_up_email: the user and the account; then, as for a sign-in, the session.
SignUp(r) ==
  /\ Handling(r, "sign-up")
  /\ users' = [users EXCEPT ![r] = [admin |-> FALSE, complete |-> FALSE, method |-> None]]
  /\ Goto(r, "create-session")
  /\ UNCHANGED <<config, now, worker, buckets, sessions, methods, call, session, cookies, found,
                 answer, failures, restarts, passed, late, setting, barred>>

SignIn(r) ==
  /\ Handling(r, "sign-in")
  /\ IF call[r].right THEN Goto(r, "create-session") /\ UNCHANGED answer ELSE Refuse(r, 401)
  /\ UNCHANGED <<config, now, worker, buckets, users, sessions, methods, call, session, cookies,
                 found, failures, restarts, passed, late, setting, barred>>

CreateSession(r) ==
  /\ At(r, "create-session")
  /\ sessions' = [sessions EXCEPT ![r] = [expires |-> now + SessionTTL, place |-> PlaceOf(r)]]
  /\ cookies' = [cookies EXCEPT ![r] = Append(@, r)]
  /\ Succeed(r)
  /\ UNCHANGED <<config, now, worker, buckets, users, methods, call, session, found, failures,
                 restarts, passed, late, setting, barred>>

SignOut(r) ==
  /\ Handling(r, "sign-out")
  /\ IF session[r] = None THEN Refuse(r, 401) /\ UNCHANGED <<sessions, cookies>>
     ELSE Revoke(r, session[r]) /\ Succeed(r)
  /\ UNCHANGED <<config, now, worker, buckets, users, methods, call, session, found, failures,
                 restarts, passed, late, setting, barred>>

GetSession(r) ==
  /\ Handling(r, "get-session")
  /\ Succeed(r)
  /\ UNCHANGED <<config, now, worker, buckets, users, sessions, methods, call, session, cookies,
                 found, failures, restarts, passed, late, setting, barred>>

\* PUT of the auth methods: an administrator's; then the row is looked for, and written.
RequireAdmin(r) ==
  /\ Handling(r, "auth-methods")
  /\ IF users[SessionUser(session[r])].admin THEN Goto(r, "find-config") /\ UNCHANGED answer
     ELSE Refuse(r, 403)
  /\ UNCHANGED <<config, now, worker, buckets, users, sessions, methods, call, session, cookies,
                 found, failures, restarts, passed, late, setting, barred>>

FindMethods(r) ==
  /\ At(r, "find-config")
  /\ \E row \in FindConfig :
       found' = [found EXCEPT ![r] = IF row = None THEN None ELSE row.id]
  /\ Goto(r, "write-config")
  /\ UNCHANGED <<config, now, worker, buckets, users, sessions, methods, call, session, cookies,
                 answer, failures, restarts, passed, late, setting, barred>>

Upsert(rows, id, r, enabled) ==
  IF id = None THEN rows \cup {[id |-> r, by |-> r, enabled |-> enabled]}
  ELSE {IF row.id = id THEN [row EXCEPT !.by = r, !.enabled = enabled] ELSE row : row \in rows}

Overlaps(r) == setting = "unclear" \/ \E q \in Requests \ {r} : pc[q] = "write-config"

WriteMethods(r) ==
  /\ At(r, "write-config")
  /\ methods' = Upsert(methods, found[r], r, call[r].enabled)
  /\ setting' = IF Overlaps(r) THEN "unclear" ELSE IF call[r].enabled THEN "on" ELSE "off"
  /\ barred' = IF setting' = "off" THEN barred ELSE {}
  /\ Succeed(r)
  /\ UNCHANGED <<config, now, worker, buckets, users, sessions, call, session, cookies, found,
                 failures, restarts, passed, late>>

-----------------------------------------------------------------------------
(* After the handler                                                        *)

\* additional_fields asks for the field once the user and the session are there.
After(r) ==
  /\ At(r, "after")
  /\ IF config.fields /\ call[r].path \in SignUpPaths
     THEN IF call[r].fields
          THEN /\ users' = [users EXCEPT ![r].complete = TRUE]
               /\ Goto(r, "respond") /\ UNCHANGED answer
          ELSE Refuse(r, 400) /\ UNCHANGED users
     ELSE Goto(r, "respond") /\ UNCHANGED <<users, answer>>
  /\ UNCHANGED <<config, now, worker, buckets, sessions, methods, call, session, cookies, found,
                 failures, restarts, passed, late, setting, barred>>

\* bearer's on_response: the first session cookie, unless that one clears.
Exposed(cs) == IF cs = <<>> THEN None ELSE Head(cs)

\* last_login_method's: whose session the database has under the cookie that was set.
Method(path) == IF path \in {"sign-up", "sign-in"} THEN "email" ELSE None
Emitted(r) == {s \in Range(cookies[r]) \ {None} : FoundIn("database", s)}
Remember(r) ==
  [u \in Ids |->
     IF config.last /\ Method(call[r].path) # None
        /\ users[u] # None /\ \E s \in Emitted(r) : SessionUser(s) = u
     THEN [users[u] EXCEPT !.method = Method(call[r].path)] ELSE users[u]]

\* The cookies are sent whatever the status.
Respond(r) ==
  /\ At(r, "respond")
  /\ users' = Remember(r)
  /\ answer' = [answer EXCEPT ![r].cookies = cookies[r], ![r].header = Exposed(cookies[r])]
  /\ Goto(r, "answered")
  /\ UNCHANGED <<config, now, worker, buckets, sessions, methods, call, session, cookies, found,
                 failures, restarts, passed, late, setting, barred>>

-----------------------------------------------------------------------------
(* The application's own routes                                             *)

\* resolve_session looks in the database, whatever the plugins, and whether or
\* not they have been initialised; require_session answers for it.
ResolveSession(r) ==
  /\ At(r, "page")
  /\ LET s == call[r].cookie
         live == FoundIn("database", s) /\ ~Expired(s) IN
     IF FoundIn("database", s) /\ Expired(s) THEN Goto(r, "drop") /\ UNCHANGED <<session, answer>>
     ELSE /\ session' = [session EXCEPT ![r] = IF live THEN s ELSE None]
          /\ answer' = [answer EXCEPT ![r].status = IF live THEN 200 ELSE 401]
          /\ Goto(r, "answered")
  /\ UNCHANGED <<config, now, worker, buckets, users, sessions, methods, call, cookies, found,
                 failures, restarts, passed, late, setting, barred>>

DropExpired(r) ==
  /\ At(r, "drop")
  /\ sessions' = Without(call[r].cookie, "database")
  /\ answer' = [answer EXCEPT ![r].status = 401]
  /\ Goto(r, "answered")
  /\ UNCHANGED <<config, now, worker, buckets, users, methods, call, session, cookies, found,
                 failures, restarts, passed, late, setting, barred>>

-----------------------------------------------------------------------------
(* The environment                                                          *)

Tick ==
  /\ now < config.ticks
  /\ now' = now + 1
  /\ UNCHANGED <<config, worker, buckets, users, sessions, methods, pc, call, session, cookies,
                 found, answer, failures, restarts, passed, late, setting, barred>>

\* A process dies, with its requests and its memory, and starts again.
Restart(w) ==
  /\ restarts < config.restarts
  /\ restarts' = restarts + 1
  /\ worker' = [worker EXCEPT ![w] = Started]
  /\ buckets' = {b \in buckets : b.store # w}
  /\ passed' = {p \in passed : p.store # w}
  /\ pc' = [r \in Requests |-> IF InFlight(r) /\ call[r].worker = w THEN "lost" ELSE pc[r]]
  /\ UNCHANGED <<config, now, users, sessions, methods, call, session, cookies, found, answer,
                 failures, late, setting, barred>>

\* Each disjunct stands for one await of the request and what follows it.
Step(r) ==
  \/ Enter(r) \/ Initialise(r) \/ Dispatch(r) \/ Expire(r) \/ Limit(r) \/ Bearer(r)
  \/ Gate(r) \/ Screen(r) \/ SignUp(r) \/ SignIn(r) \/ CreateSession(r) \/ SignOut(r)
  \/ GetSession(r) \/ RequireAdmin(r) \/ FindMethods(r) \/ WriteMethods(r) \/ After(r)
  \/ Respond(r) \/ ResolveSession(r) \/ DropExpired(r)

Next ==
  \/ \E r \in Requests : Arrive(r) \/ Step(r) \/ InitFails(r)
  \/ \E w \in Workers : Restart(w)
  \/ Tick

Spec == Init /\ [][Next]_vars

\* Event loops go on with what can go on, and an asyncio.Lock is granted in order.
Fairness == \A r \in Requests : WF_vars(Step(r))
FairSpec == Spec /\ Fairness

-----------------------------------------------------------------------------
(* Properties                                                               *)

\* rate_limit.py: fixed windows let a client through twice in a row at a
\* boundary, but as a window opens with a hit, in no period of a window's
\* length are there 2 * max requests that the handler may see from one client
\* for one path: in one process with the in-memory store, in all with Redis.
QuotasHold ==
  \A p \in passed :
    LET rule == Rules[p.path]
        period == {q \in passed : /\ SameKey(p, q) /\ q.at \in p.at .. p.at + rule.window - 1} IN
    /\ Cardinality(period) < 2 * rule.max
    /\ Cardinality({q \in period : q.at = p.at}) <= rule.max

\* A session was made by a request that was screened, on a process whose
\* plugins were ready, so it is where every process looks for it; its method had
\* not been switched off when the request was sent.
SessionsAreScreened ==
  \A r \in Requests : sessions[r] # None =>
    LET c == call[r] IN
    /\ c.origin # "foreign"
    /\ config.captcha => c.captcha = "good"
    /\ config.pwned /\ c.path = "sign-up" => ~c.pwned
    /\ sessions[r].place = Place
    /\ r \notin barred

\* The configuration was written in the name of an administrator whose session
\* had not expired when the request was sent, wherever its token was carried.
ConfigIsTheAdmins ==
  \A row \in methods :
    LET s == session[row.by] IN
    /\ s # None /\ SessionUser(s) \in Admins /\ call[row.by].origin # "foreign"
    /\ <<row.by, s>> \notin late

\* An application's page was shown for a session that had not expired when it
\* was asked for.
PagesAreForTheLiving ==
  \A r \in Requests :
    call[r] # None /\ call[r].path = "page" /\ answer[r].status = 200 =>
      session[r] # None /\ <<r, session[r]>> \notin late

\* Whatever the order in which the plugins' checks run, no effect escapes them.
EffectsAreScreened == SessionsAreScreened /\ ConfigIsTheAdmins /\ PagesAreForTheLiving

\* Requests are answered, or lost with their process or with an init that
\* raised; an init that raised does not keep a process from serving the others,
\* and none waits forever for the lock.
RequestsSettle ==
  (\E r \in Requests : InFlight(r)) ~> (\A r \in Requests : ~InFlight(r))
=============================================================================
