-------------------------- MODULE MCSubscriptions --------------------------
EXTENDS Subscriptions, TLC
CONSTANTS r1, r2, r3, r4, ann, bob, org, held

MCRequests == {r1, r2, r3, r4}
Symmetric == Permutations(MCRequests)
MCMayActFor == (ann :> {ann, org}) @@ (bob :> {bob})

C(op, user, ref, plan, seats, sub, later) ==
  [op |-> op, user |-> user, ref |-> ref, plan |-> plan, seats |-> seats,
   sub |-> sub, later |-> later]
Op(op, ref, sub) == C(op, ann, ref, "solo", None, sub, FALSE)
Upgrade(ref, plan, seats, sub, later) == C("upgrade", ann, ref, plan, seats, sub, later)

Nobody == [x \in {} |-> None]
Nothing == [subs |-> Nobody, rows |-> Nobody, customerOf |-> Nobody,
            customers |-> Nobody, members |-> org :> 1]

\* held has paid for ref since before, in an ended or a running trial.
Held(ref, plan, status, meta) ==
  [subs |-> held :> [customer |-> held, ref |-> ref, meta |-> meta, status |-> status,
                     trialed |-> TRUE, plan |-> plan, seats |-> 2, ends |-> FALSE,
                     schedule |-> None],
   rows |-> held :> [ref |-> ref, customer |-> held, sub |-> held, status |-> status,
                     trialed |-> TRUE, plan |-> plan, seats |-> 2, ends |-> FALSE,
                     schedule |-> None],
   customerOf |-> ref :> held, customers |-> held :> ref, members |-> org :> 2]

MCSeeds == [fresh |-> Nothing, paying |-> Held(ann, "solo", "active", held),
            trials |-> Held(ann, "solo", "trialing", held),
            seats |-> Held(org, "team", "active", None), team |-> Nothing]

Managing == {Op(op, ann, None) : op \in {"portal", "cancel", "restore"}}
            \cup {Op("cancel", ann, held), Op("resume", ann, held)}

MCCalls ==
  [fresh  |-> {Op(op, ann, None) : op \in {"signup", "checkout", "cancel"}}
              \cup {Upgrade(ann, "solo", 2, None, FALSE), Upgrade(ann, "team", None, None, FALSE)},
   paying |-> Managing \cup {Upgrade(ann, "team", 3, None, FALSE),
                             Upgrade(ann, "team", None, held, TRUE)},
   trials |-> {Op("cancel", ann, None), Op("cancel", ann, held),
               Upgrade(ann, "team", None, None, FALSE)},
   seats  |-> {Op("join", org, None), Op("leave", org, None), Op("cancel", org, None),
               Upgrade(org, "solo", 1, None, FALSE), Upgrade(org, "team", 1, held, FALSE),
               C("upgrade", bob, org, "team", None, None, FALSE)},
   team   |-> {Op("join", org, None), Op("leave", org, None),
               Upgrade(org, "team", None, None, FALSE)}]

Scenario(suspends, prompt, ordered, requests, scenario) ==
  [suspends |-> suspends, prompt |-> prompt, ordered |-> ordered,
   requests |-> requests, scenario |-> scenario]

MCConfigs == {Scenario(FALSE, TRUE, TRUE, 3, n) : n \in DOMAIN MCSeeds}
        \cup {Scenario(FALSE, FALSE, TRUE, 3, n) : n \in {"paying", "seats"}}
        \cup {Scenario(FALSE, FALSE, TRUE, 2, n) : n \in {"fresh", "trials", "team"}}
        \cup {Scenario(FALSE, TRUE, FALSE, 3, "trials")}
        \cup {Scenario(TRUE, FALSE, TRUE, 2, n) : n \in {"fresh", "paying"}}
=============================================================================
