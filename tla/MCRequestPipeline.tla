-------------------------- MODULE MCRequestPipeline --------------------------
EXTENDS RequestPipeline, TLC
CONSTANTS r1, r2, r3, r4, w1, w2, ann, bob, here

Order == <<r1, r2, r3, r4>>
MCRequests == {r1, r2, r3, r4}
MCWorkers == {w1, w2}
MCUsers == {ann, bob}
MCAdmins == {ann}
MCAddresses == {here}
MCInitPlugins == <<"custom-session", "organization">>
MCRules == [p \in Paths |-> IF p = "get-session" THEN [window |-> 2, max |-> 2]
                            ELSE [window |-> 1, max |-> 1]]

\* Requests differ in nothing but their names, so those that arrive may as
\* well arrive in this order.
ArriveInOrder ==
  \A i \in 1 .. 3 : pc[Order[i + 1]] # "idle" => pc[Order[i]] # "idle"

-----------------------------------------------------------------------------
(* Calls                                                                    *)

Make(w, path) ==
  [worker |-> w, path |-> path, origin |-> "none", cookie |-> None, bearer |-> None,
   ip |-> here, body |-> TRUE, who |-> bob, right |-> TRUE, captcha |-> "good",
   pwned |-> FALSE, fields |-> TRUE, enabled |-> FALSE]
With(c, s) == [c EXCEPT !.cookie = s]
Bearing(c, s) == [c EXCEPT !.bearer = s]
Everywhere(path) == {Make(w, path) : w \in MCWorkers}

Put(enabled) == With([Make(w1, "auth-methods") EXCEPT !.enabled = enabled], ann)
Puts == {Put(TRUE), Put(FALSE)}

Refused(c) ==
  {[c EXCEPT !.origin = "foreign"], [c EXCEPT !.body = FALSE], [c EXCEPT !.right = FALSE],
   [c EXCEPT !.pwned = TRUE], [c EXCEPT !.fields = FALSE]}
  \cup {[c EXCEPT !.captcha = o] : o \in {"none", "bad", "down"}}

-----------------------------------------------------------------------------
(* Scenarios                                                                *)

\* memory, redis:      one client asks the same again and again
\* starting, provided: processes start, fail to, and stop
\* screened:           what each check turns away
\* governed, expiring: an administrator switches a method; and a session expires
MCCalls ==
  [memory   |-> {Make(w1, "get-session")},
   redis    |-> Everywhere("get-session"),
   starting |-> {Make(w1, "sign-in"), Bearing(Make(w1, "get-session"), bob), Make(w1, "unknown")},
   provided |-> {Make(w1, "sign-in"), With(Make(w1, "sign-out"), bob),
                 With(Make(w1, "page"), bob)},
   screened |-> Refused(Make(w1, "sign-up"))
                \cup Refused([Make(w1, "sign-in") EXCEPT !.origin = "trusted"])
                \cup {Make(w1, path) : path \in {"sign-up", "sign-in", "sign-out", "auth-methods"}},
   governed |-> Puts \cup {Make(w2, "sign-in"), With(Make(w1, "auth-methods"), bob)},
   expiring |-> {Put(FALSE), Bearing([Put(FALSE) EXCEPT !.cookie = None], ann),
                 With(Make(w1, "sign-out"), ann), With(Make(w1, "get-session"), ann),
                 With(Make(w1, "page"), ann)}]

Base(scenario) ==
  [limits |-> None, provider |-> FALSE, eager |-> TRUE, captcha |-> FALSE, pwned |-> FALSE,
   fields |-> FALSE, gate |-> FALSE, last |-> FALSE, failures |-> 0, restarts |-> 0,
   ticks |-> 0, requests |-> 3, scenario |-> scenario]

Memory == [Base("memory") EXCEPT !.limits = "memory", !.ticks = 2, !.requests = 4]
Redis == [Base("redis") EXCEPT !.limits = "redis", !.ticks = 2]
Starting == [Base("starting") EXCEPT !.limits = "memory", !.eager = FALSE, !.failures = 1, !.restarts = 1]
Provided == [Base("provided") EXCEPT !.eager = FALSE, !.failures = 1, !.provider = TRUE]
Screened == [Base("screened") EXCEPT !.captcha = TRUE, !.pwned = TRUE, !.fields = TRUE,
                                     !.gate = TRUE, !.last = TRUE, !.limits = "memory",
                                     !.requests = 2, !.ticks = 1]
Governed == [Base("governed") EXCEPT !.gate = TRUE]
Expiring == [Base("expiring") EXCEPT !.gate = TRUE, !.limits = "memory", !.ticks = 1, !.requests = 2]

MCConfigs == {Memory, Redis, Starting, Provided, Screened, Governed, Expiring}
=============================================================================
