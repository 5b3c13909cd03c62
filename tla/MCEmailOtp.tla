------------------------------ MODULE MCEmailOtp ------------------------------
EXTENDS EmailOtp
CONSTANTS r1, r2, r3, r4

Order == <<r1, r2, r3, r4>>
MCRequests == {r1, r2, r3, r4}

\* Requests differ in nothing but their names, so those that arrive may as
\* well arrive in this order.
ArriveInOrder ==
  \A i \in 1 .. 3 : pc[Order[i + 1]] # "idle" => pc[Order[i]] # "idle"

Memory == [suspends |-> FALSE, updatesEveryMatch |-> FALSE, registered |-> FALSE,
           reusesCodes |-> TRUE, disableSignUp |-> FALSE,
           purposes |-> {"sign-in"}, operations |-> Sends \cup Checks, calls |-> 4]
Mongo  == [suspends |-> TRUE, updatesEveryMatch |-> FALSE, registered |-> TRUE,
           reusesCodes |-> FALSE, disableSignUp |-> TRUE,
           purposes |-> {"email-verification", "forget-password"},
           operations |-> {"send", "forget-password-send", "verify-email",
                           "reset-password"}, calls |-> 3]
SQL    == [suspends |-> TRUE, updatesEveryMatch |-> TRUE, registered |-> FALSE,
           reusesCodes |-> TRUE, disableSignUp |-> FALSE,
           purposes |-> {"sign-in"},
           operations |-> {"sign-in-send", "create", "sign-in-verify", "check"},
           calls |-> 3]

\* Nobody may sign up and nobody has: the code is stored and taken back unsent.
Closed == [suspends |-> TRUE, updatesEveryMatch |-> TRUE, registered |-> FALSE,
           reusesCodes |-> TRUE, disableSignUp |-> TRUE,
           purposes |-> {"sign-in"},
           operations |-> {"send", "create", "sign-in-verify"}, calls |-> 3]

MCConfigs == {Memory, Mongo, SQL, Closed}
=============================================================================
