------------------------------- MODULE ApiKeys -------------------------------
(***************************************************************************)
(* The API key plugin: keys with an expiry, a budget of uses that may be   *)
(* refilled, and a rate limit of their own; and, before any handler, the   *)
(* fixed-window limiter of the whole service (auth/rate_limit.py).         *)
(*                                                                         *)
(* A use reads the key's row, decides, and writes the counters back as one *)
(* update of what it read.  That update is awaited or, with deferUpdates,  *)
(* handed to a background task that runs it at some later time.  Keys are  *)
(* named by the request that created them or are there from the start.     *)
(***************************************************************************)
EXTENDS Naturals, FiniteSets, FiniteSetsExt

CONSTANTS
  Requests,      \* calls of an endpoint; each is made once
  Users,         \* key owners
  Org,           \* an organization that owns keys
  OrgManagers,   \* the members whose role lets them manage its keys
  SeedKeys,      \* [id -> row], the keys at the start
  Calls,         \* the calls of each scenario
  Configs,       \* the configurations that are looked at
  HitWindow,     \* window and maximum of the service's rate limit
  HitMax,
  KeyMax,        \* a key's maximum and window, unless it is given others
  KeyWindow,
  MaxTime,       \* bound on the clock
  None

Keys   == Requests \cup DOMAIN SeedKeys
Owners == Users \cup {Org}
Times  == 0 .. MaxTime

KeyRow == [owner : Owners, enabled : BOOLEAN, expiresAt : Nat \cup {None},
           permits : BOOLEAN, remaining : Nat \cup {None},
           refillAmount : Nat \cup {None}, refillInterval : Nat \cup {None},
           lastRefillAt : Nat \cup {None}, createdAt : Nat,
           limited : BOOLEAN, max : Nat, window : Nat,
           lastRequest : Nat \cup {None}, requestCount : Nat]

\* Properties of a key that a signed-in owner may not set himself.
ServerOnly == {"remaining", "refillAmount", "refillInterval", "permits",
               "limited", "max", "window"}

Operations == {"create", "verify", "session", "get", "list", "update", "delete",
               "purge"}

\* suspends: an adapter call may suspend the handler
\* defers:   deferUpdates, with a background task handler
\* throttled: the service's own rate limit is on
\* requests, scenario: how many requests are made, and the calls they make
Config == [suspends : BOOLEAN, defers : BOOLEAN, throttled : BOOLEAN,
           requests : Nat, scenario : DOMAIN Calls]

ASSUME ConstantsAssumption ==
  /\ SeedKeys \in [DOMAIN SeedKeys -> KeyRow]
  /\ Configs \subseteq Config
  /\ OrgManagers \subseteq Users /\ Org \notin Users
  /\ HitWindow \in Nat \ {0} /\ HitMax \in Nat /\ MaxTime \in Nat

VARIABLES
  config,    \* the configuration
  now,       \* the clock
  keys,      \* the rows of apikey, or None
  pc, call,  \* what each request does next, its user (None: a server) and body
  held,      \* held[r]: the update a use is going to write
  deferred,  \* the requests whose update the background task has yet to run
  bucket,    \* the limiter's counter of this route and client
  uses,      \* uses[k][t]: accepted uses of key k that were decided at time t
  funded,    \* funded[k]: uses that creation and updates gave key k
  admitted   \* admitted[t]: requests the limiter let through at time t

vars == <<config, now, keys, pc, call, held, deferred, bucket, uses, funded, admitted>>

Update == [remaining : Nat \cup {None}, lastRefillAt : Nat \cup {None},
           lastRequest : Nat \cup {None}, requestCount : Nat]

TypeOK ==
  /\ config \in Configs
  /\ now \in Times
  /\ keys \in [Keys -> KeyRow \cup {None}]
  /\ \A r \in Requests : call[r] \in Calls[config.scenario] \cup {None}
  /\ held \in [Requests -> Update \cup {None}]
  /\ deferred \subseteq Requests
  /\ bucket \in [count : Nat, expiresAt : Nat]
  /\ uses \in [Keys -> [Times -> Nat]]
  /\ funded \in [Keys -> Nat]
  /\ admitted \in [Times -> Nat]

Budget(remaining) == IF remaining = None THEN 0 ELSE remaining

Init ==
  /\ config \in Configs
  /\ now = 0
  /\ keys = [k \in Keys |-> IF k \in DOMAIN SeedKeys THEN SeedKeys[k] ELSE None]
  /\ pc = [r \in Requests |-> "idle"]
  /\ call = [r \in Requests |-> None]
  /\ held = [r \in Requests |-> None]
  /\ deferred = {}
  /\ bucket = [count |-> 0, expiresAt |-> 0]
  /\ uses = [k \in Keys |-> [t \in Times |-> 0]]
  /\ funded = [k \in Keys |-> IF k \in DOMAIN SeedKeys
                              THEN Budget(SeedKeys[k].remaining) ELSE 0]
  /\ admitted = [t \in Times |-> 0]

-----------------------------------------------------------------------------
InHandler(r) == pc[r] \notin {"idle", "done"}
Scheduled(r) == config.suspends \/ \A q \in Requests \ {r} : ~InHandler(q)

At(r, at)   == pc[r] = at /\ Scheduled(r)
Goto(r, to) == pc' = [pc EXCEPT ![r] = to]
Finish(r)   == Goto(r, "done")

Op(r)  == call[r].op
Key(r) == call[r].key
Row(r) == keys[Key(r)]

Counting == <<deferred, bucket, uses, funded, admitted>>

\* A step that reads, and one that writes the table.
Reads(r, to)  == Goto(r, to) /\ UNCHANGED <<config, now, keys, call, held, Counting>>
Writes(r, to) == Goto(r, to) /\ UNCHANGED <<config, now, call, held, Counting>>

Begin(r, c) ==
  /\ At(r, "idle")
  /\ Cardinality({q \in Requests : pc[q] # "idle"}) < config.requests
  /\ call' = [call EXCEPT ![r] = c]
  /\ Goto(r, IF config.throttled THEN "limit" ELSE c.op)
  /\ UNCHANGED <<config, now, keys, held, Counting>>

\* One hit of the fixed window; the stores do it without suspending.
Hit ==
  IF bucket.expiresAt <= now
  THEN [count |-> 1, expiresAt |-> now + HitWindow]
  ELSE [bucket EXCEPT !.count = @ + 1]

\* enforce_rate_limit, before the handler.
Limit(r) ==
  /\ At(r, "limit")
  /\ bucket' = Hit
  /\ Goto(r, IF Hit.count <= HitMax THEN Op(r) ELSE "done")
  /\ admitted' = [admitted EXCEPT ![now] = IF Hit.count <= HitMax THEN @ + 1 ELSE @]
  /\ UNCHANGED <<config, now, keys, call, held, deferred, uses, funded>>

-----------------------------------------------------------------------------
(* A use: /api-key/verify, and the hook that signs in the key's owner       *)

Expired(row) == row.expiresAt # None /\ now > row.expiresAt
Spent(row)   == row.remaining = 0 /\ row.refillAmount = None

RefillDue(row) ==
  /\ row.refillInterval \notin {None, 0} /\ row.refillAmount \notin {None, 0}
  /\ now - (IF row.lastRefillAt = None THEN row.createdAt ELSE row.lastRefillAt)
       > row.refillInterval

\* The budget this use draws on.
Available(row) == IF RefillDue(row) THEN row.refillAmount ELSE row.remaining

\* Mutant of NewWindow: the window starts anew with a use at its very end.
NewWindowEarly(row) == row.lastRequest # None => now - row.lastRequest >= row.window

\* The counter starts anew once the key has been quiet for its window.
NewWindow(row) == row.lastRequest # None => now - row.lastRequest > row.window

RateLimited(row) == /\ row.limited /\ ~NewWindow(row)
                    /\ row.requestCount >= row.max

RefillDate(row) ==
  IF row.remaining # None /\ RefillDue(row) THEN now ELSE row.lastRefillAt

\* The row's new counters.
UpdateFor(row) ==
  [remaining    |-> IF row.remaining = None THEN None ELSE Available(row) - 1,
   lastRefillAt |-> RefillDate(row),
   lastRequest  |-> now,
   requestCount |-> IF ~row.limited THEN row.requestCount
                    ELSE IF NewWindow(row) THEN 1 ELSE row.requestCount + 1]

\* Mutant of Verdict: nothing is left to use, and is used.
VerdictOverdrawn(row, needsPermission) ==
  IF row = None THEN "done"
  ELSE IF ~row.enabled THEN "done"
  ELSE IF Expired(row) \/ Spent(row) THEN "drop"
  ELSE IF RateLimited(row) THEN "done" ELSE "count"

\* What validate_api_key does with the row it read.
Verdict(row, needsPermission) ==
  CASE row = None                               -> "done"
    [] row # None /\ ~row.enabled               -> "done"
    [] row # None /\ row.enabled ->
         IF Expired(row) THEN "drop"
         ELSE IF needsPermission /\ ~row.permits THEN "done"
         ELSE IF Spent(row) THEN "drop"
         ELSE IF \/ row.remaining # None /\ Available(row) = 0
                 \/ RateLimited(row) THEN "done"
         ELSE "count"

\* The first step of validate_api_key.
Validate(r) ==
  LET verdict == Verdict(Row(r), call[r].needsPermission) IN
  /\ pc[r] \in {"verify", "session"} /\ Scheduled(r)
  /\ Goto(r, verdict)
  /\ held' = [held EXCEPT ![r] = IF verdict = "count" THEN UpdateFor(Row(r)) ELSE None]
  /\ UNCHANGED <<config, now, keys, call, Counting>>

\* An expired or a spent key is deleted by its id.
Drop(r) ==
  /\ At(r, "drop")
  /\ keys' = [keys EXCEPT ![Key(r)] = None]
  /\ Writes(r, "done")

Counted(k, update) ==
  [keys EXCEPT ![k] = IF @ = None THEN None ELSE
     [f \in DOMAIN @ |-> IF f \in DOMAIN update THEN update[f] ELSE @[f]]]

\* The use is accepted once its update is written, or handed over.  An update
\* that finds no row is a 500.  The session hook's user exists.
Count(r) ==
  /\ At(r, "count")
  /\ Finish(r)
  /\ uses' = [uses EXCEPT ![Key(r)][held[r].lastRequest] =
                IF config.defers \/ Row(r) # None THEN @ + 1 ELSE @]
  /\ IF config.defers
     THEN deferred' = deferred \cup {r} /\ UNCHANGED keys
     ELSE keys' = Counted(Key(r), held[r]) /\ UNCHANGED deferred
  /\ UNCHANGED <<config, now, call, held, bucket, funded, admitted>>

\* The background task runs the updates in any order.
RunDeferred(r) ==
  /\ r \in deferred
  /\ deferred' = deferred \ {r}
  /\ keys' = Counted(Key(r), held[r])
  /\ UNCHANGED <<config, now, pc, call, held, bucket, uses, funded, admitted>>

-----------------------------------------------------------------------------
(* Managing keys                                                            *)

\* What a body sets, over the defaults or over the row.
Set(row, body) == [f \in DOMAIN row |-> IF f \in DOMAIN body THEN body[f] ELSE row[f]]

\* A key's owner, or a member the organization lets manage its keys.
MayManage(user, row) ==
  \/ row.owner = user
  \/ row.owner = Org /\ user \in OrgManagers

\* A new key belongs to the caller or to the organization it names; one that
\* is to be refilled starts full.  Creating purges the expired keys first.
Create(r) ==
  LET user  == call[r].user
      body  == call[r].body IN
  /\ At(r, "create")
  /\ Reads(r, IF /\ user = None \/ DOMAIN body \cap ServerOnly = {}
                 /\ call[r].owner = Org /\ user # None => user \in OrgManagers
                 /\ call[r].owner # Org /\ user # None => call[r].owner = user
              THEN "purge" ELSE "done")

Insert(r) ==
  LET body  == call[r].body
      blank == [owner |-> call[r].owner, enabled |-> TRUE, expiresAt |-> None,
                permits |-> FALSE, remaining |-> None, refillAmount |-> None,
                refillInterval |-> None, lastRefillAt |-> None, createdAt |-> now,
                limited |-> TRUE, max |-> KeyMax, window |-> KeyWindow,
                lastRequest |-> None, requestCount |-> 0]
      row   == Set(blank, body) IN
  /\ At(r, "insert")
  /\ keys' = [keys EXCEPT ![r] = [row EXCEPT
       !.remaining = IF @ = None THEN row.refillAmount ELSE @,
       !.expiresAt = IF @ = None THEN None ELSE @ + now]]
  /\ funded' = [funded EXCEPT ![r] = Budget(keys'[r].remaining)]
  /\ Finish(r)
  /\ UNCHANGED <<config, now, call, held, deferred, bucket, uses, admitted>>

\* get, update and delete find the row and authorize before they write; only
\* an organization's keys take server-only properties from a session.
Manage(r) ==
  LET row == Row(r)
      ok  == /\ row # None
             /\ MayManage(call[r].user, row)
             /\ Op(r) = "update" =>
                  row.owner = Org \/ DOMAIN call[r].body \cap ServerOnly = {} IN
  /\ pc[r] \in {"get", "update", "delete"} /\ Scheduled(r)
  /\ Reads(r, IF ~ok THEN "done"
              ELSE IF Op(r) = "get" THEN "purge" ELSE "write")

\* list looks at the caller's role only when it is asked for an organization.
List(r) ==
  /\ At(r, "list")
  /\ Reads(r, IF call[r].owner = Org => call[r].user \in OrgManagers
              THEN "purge" ELSE "done")

\* Only the given fields are written, never the counters that were read.
WriteKey(r) ==
  LET body == call[r].body
      to   == Set(Row(r), [f \in DOMAIN body |->
                IF f = "expiresAt" /\ body[f] # None THEN body[f] + now ELSE body[f]]) IN
  /\ At(r, "write")
  /\ Goto(r, "purge")
  /\ keys' = [keys EXCEPT ![Key(r)] = IF Op(r) = "delete" \/ @ = None THEN None ELSE to]
  /\ funded' = [funded EXCEPT ![Key(r)] =
       @ + IF Op(r) = "update" /\ "remaining" \in DOMAIN body THEN body.remaining ELSE 0]
  /\ UNCHANGED <<config, now, call, held, deferred, bucket, uses, admitted>>

\* Mutant of Purged: keys without an expiry count as expired.
PurgedLoosely(k) ==
  keys[k] # None /\ (keys[k].expiresAt = None \/ keys[k].expiresAt < now)

\* The keys _delete_all_expired deletes.
Purged(k) ==
  keys[k] # None /\ keys[k].expiresAt # None /\ keys[k].expiresAt < now

\* Every operation on keys purges, whoever owns what is expired.
Purge(r) ==
  /\ At(r, "purge")
  /\ keys' = [k \in Keys |-> IF Purged(k) THEN None ELSE keys[k]]
  /\ Writes(r, IF Op(r) = "create" THEN "insert" ELSE "done")

Tick ==
  /\ now < MaxTime
  /\ now' = now + 1
  /\ UNCHANGED <<config, keys, pc, call, held, Counting>>

Next ==
  \/ Tick
  \/ \E r \in Requests :
       \/ \E c \in Calls[config.scenario] : Begin(r, c)
       \/ Limit(r)
       \/ Validate(r) \/ Drop(r) \/ Count(r) \/ RunDeferred(r)
       \/ Create(r) \/ Insert(r) \/ Manage(r) \/ List(r) \/ WriteKey(r) \/ Purge(r)

Spec == Init /\ [][Next]_vars

-----------------------------------------------------------------------------
(* Properties                                                               *)

\* Uses are counted one after the other.
InTurn == ~config.suspends /\ ~config.defers

Over(f, from, to) == MapThenSumSet(LAMBDA t : f[t], {t \in Times : from <= t /\ t <= to})

\* In no stretch of time as long as a key's window are more than its maximum
\* of uses accepted, wherever in a window of the counter the stretch begins.
WindowRespected ==
  InTurn => \A k \in Keys : keys[k] # None /\ keys[k].limited =>
    \A t \in Times : Over(uses[k], t, t + keys[k].window) <= keys[k].max

\* A key with a budget is used no more often than it was given uses: what it
\* was created with or set to, and one refill for each interval that has
\* passed since it was created.
UsesAreFunded ==
  InTurn => \A k \in Keys : keys[k] # None /\ keys[k].remaining # None =>
    LET refills == IF keys[k].refillAmount = None THEN 0
                   ELSE keys[k].refillAmount *
                        ((now - keys[k].createdAt) \div (keys[k].refillInterval + 1))
    IN Over(uses[k], 0, MaxTime) <= funded[k] + refills

\* The service's limiter lets no more than its maximum through in any window
\* it counts; as a window opens with a hit, no stretch of that length sees twice as many.
AdmissionsBounded ==
  \A t \in Times : Over(admitted, t, t + HitWindow - 1) < 2 * HitMax

\* Both limits hold: a key's own and the service's.
RatesAreBounded == WindowRespected /\ AdmissionsBounded

\* No limit of a key is exceeded: neither how often, nor how many times in all.
LimitsHold == RatesAreBounded /\ UsesAreFunded

\* A key that is gone is accepted by nobody, whatever was read before it went,
\* unless the answer is given before the update is written.
GoneKeysAreRefused ==
  [][~config.defers => \A k \in Keys : uses'[k] # uses[k] => keys[k] # None]_vars

\* A key disappears when somebody who may manage it deletes it, or because it
\* has expired or is spent for good; never because of somebody else's call.
KeysGoForAReason ==
  [][~config.suspends => \A k \in Keys : keys[k] # None /\ keys'[k] = None =>
       \/ Expired(keys[k]) \/ Spent(keys[k])
       \/ \E r \in Requests : /\ pc[r] = "write" /\ Op(r) = "delete" /\ Key(r) = k
                              /\ MayManage(call[r].user, keys[k])]_vars

\* Both: keys go for a reason, and what is gone stays refused.
KeysGoAndAreGone == GoneKeysAreRefused /\ KeysGoForAReason
=============================================================================
