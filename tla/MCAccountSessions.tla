------------------------- MODULE MCAccountSessions -------------------------
EXTENDS AccountSessions, TLC
CONSTANTS r1, r2, ann, bob, annEmail, bobEmail, freeEmail

MCRequests == {r1, r2}
MCFounders == {ann, bob}
MCEmails == {annEmail, bobEmail, freeEmail}
MCFounderEmail == (ann :> annEmail) @@ (bob :> bobEmail)

PasswordsAndDeletion ==
  {"sign-up", "sign-in", "change-password", "delete-user"}

Memory == [suspends |-> FALSE, enforcesReferences |-> FALSE, autoSignIn |-> TRUE,
           requireVerification |-> FALSE, operations |-> PasswordsAndDeletion]
Mongo  == [suspends |-> TRUE, enforcesReferences |-> FALSE, autoSignIn |-> TRUE,
           requireVerification |-> TRUE, operations |-> AllOperations]
SQL    == [suspends |-> TRUE, enforcesReferences |-> TRUE, autoSignIn |-> FALSE,
           requireVerification |-> FALSE, operations |-> AllOperations]

MCConfigs == {Memory, Mongo, SQL}
=============================================================================
