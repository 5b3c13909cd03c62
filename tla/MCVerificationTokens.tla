------------------------ MODULE MCVerificationTokens ------------------------
EXTENDS VerificationTokens
CONSTANTS t1, t2, r1, r2, known, new

MCTokens == {t1, t2}
MCRequests == {r1, r2}
MCEmails == {known, new}
MCRegistered == {known}

CoreKinds == {"verify-email", "reset", "magic-link"}

Memory == [suspends |-> FALSE, atomic |-> TRUE, signUpDisabled |-> FALSE,
           endpoints |-> AllKinds]
Mongo  == [suspends |-> TRUE, atomic |-> TRUE, signUpDisabled |-> FALSE,
           endpoints |-> CoreKinds]
OneTime == [suspends |-> TRUE, atomic |-> TRUE, signUpDisabled |-> FALSE,
            endpoints |-> {"magic-link", "one-time-token"}]
SQL    == [suspends |-> TRUE, atomic |-> FALSE, signUpDisabled |-> TRUE,
           endpoints |-> CoreKinds]

MCConfigs == {Memory, Mongo, SQL, OneTime}
=============================================================================
