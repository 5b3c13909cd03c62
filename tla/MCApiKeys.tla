----------------------------- MODULE MCApiKeys -----------------------------
EXTENDS ApiKeys, TLC
CONSTANTS r1, r2, r3, r4, ann, bob, org, metered, plain, shared

MCRequests == {r1, r2, r3, r4}
Symmetric == Permutations(MCRequests)

Blank == [owner |-> ann, enabled |-> TRUE, expiresAt |-> None, permits |-> FALSE,
          remaining |-> None, refillAmount |-> None, refillInterval |-> None,
          lastRefillAt |-> None, createdAt |-> 0, limited |-> TRUE, max |-> 2,
          window |-> 1, lastRequest |-> None, requestCount |-> 0]

\* A key with one use and one refilled use per interval, a limited key that
\* expires, and a key of the organization with two uses.
MCSeedKeys ==
     metered :> [Blank EXCEPT !.remaining = 1, !.refillAmount = 1,
                              !.refillInterval = 1, !.limited = FALSE]
  @@ plain   :> [Blank EXCEPT !.permits = TRUE]
  @@ shared  :> [Blank EXCEPT !.owner = org, !.remaining = 2, !.limited = FALSE,
                              !.expiresAt = 2]

C(op, user, owner, key, body, needs) ==
  [op |-> op, user |-> user, owner |-> owner, key |-> key, body |-> body,
   needsPermission |-> needs]

Empty == [f \in {} |-> None]
Uses == {C("verify", None, None, k, Empty, FALSE) : k \in DOMAIN MCSeedKeys}
        \cup {C("session", None, None, plain, Empty, FALSE),
              C("verify", None, None, shared, Empty, TRUE)}

Managing ==
  {C("get", ann, None, plain, Empty, FALSE),
   C("update", ann, None, plain, "enabled" :> FALSE, FALSE),
   C("update", ann, None, plain, "expiresAt" :> 1, FALSE),
   C("update", bob, None, shared, "remaining" :> 1, FALSE),
   C("update", ann, None, shared, "remaining" :> 1, FALSE),
   C("delete", ann, None, plain, Empty, FALSE),
   C("delete", bob, None, plain, Empty, FALSE),
   C("list", bob, org, None, Empty, FALSE),
   C("purge", None, None, None, Empty, FALSE),
   C("create", ann, ann, None, "expiresAt" :> 1, FALSE),
   C("create", bob, org, None, Empty, FALSE),
   C("create", None, ann, None,
     [refillAmount |-> 1, refillInterval |-> 1], FALSE)}
  \cup {C("verify", None, None, k, Empty, FALSE) : k \in MCRequests \cup {shared, plain}}

MCCalls == [uses |-> Uses, managing |-> Managing]

Scenario(suspends, defers, throttled, requests, scenario) ==
  [suspends |-> suspends, defers |-> defers, throttled |-> throttled,
   requests |-> requests, scenario |-> scenario]

MCConfigs ==
  {Scenario(FALSE, FALSE, FALSE, 4, "uses"),
   Scenario(FALSE, FALSE, TRUE, 3, "uses"),
   Scenario(FALSE, FALSE, FALSE, 3, "managing"),
   Scenario(TRUE, FALSE, FALSE, 3, "managing"),
   Scenario(FALSE, TRUE, FALSE, 3, "uses")}
=============================================================================
