---------------------------- MODULE EmailOtpProofs ----------------------------
(***************************************************************************)
(* Proofs about EmailOtp, for any number of requests and any number of     *)
(* allowed attempts.                                                       *)
(***************************************************************************)
EXTENDS EmailOtp, FiniteSetTheorems, TLAPS

-----------------------------------------------------------------------------
(* The inductive invariant                                                  *)

\* Code c was generated for purpose p.
BornFor(c, p) == call[c] # None /\ call[c].purpose = p

\* A row, and what was read from it, is about a code of its purpose; a code is
\* only mailed for the purpose it was generated for, and only such are guessed.
CodesKeepToPurposes ==
  /\ \A p \in Purposes, q \in Requests :
       codes[p][q] # None => BornFor(codes[p][q].code, p)
  /\ \A r \in Requests : held[r] # None => call[r] # None /\ BornFor(held[r].code, Purpose(r))
  /\ \A p \in Purposes : \A c \in delivered[p] : BornFor(c, p)
  /\ \A r \in Requests :
       call[r] # None /\ call[r].code # None =>
         \E p \in Purposes : call[r].code \in delivered[p]

Accepting == {"sign-in-verify", "verify-email", "reset-password"}

\* Request r is a call of op that presented a code, and was let in.
Earned(r, op) == call[r] # None /\ LetIn(r, op)

\* Where a handler is tells what it was called for and what it has read.
HandlerOK(r) ==
  /\ pc[r] = "idle" => call[r] = None
  /\ pc[r] # "idle" => call[r] # None
  /\ pc[r] \in {"gate", "reuse", "extend", "clear", "insert", "lookup", "unsend", "deliver"} =>
       Op(r) \in Sends
  /\ pc[r] = "find" => Op(r) \in Checks
  /\ pc[r] \in {"extend", "lookup", "deliver", "bump", "spend"} => held[r] # None
  /\ pc[r] = "bump" => ~Exhausted(held[r])
  /\ pc[r] = "spend" => /\ ~Exhausted(held[r])
                        /\ held[r].code = call[r].code
                        /\ Op(r) \in Accepting
  /\ pc[r] \in {"user", "session", "write", "mark", "account"} => Earned(r, Op(r))
  /\ pc[r] = "user" => Op(r) \in Accepting
  /\ pc[r] = "session" => Op(r) = "sign-in-verify"
  /\ pc[r] = "account" => Op(r) = "reset-password"
  /\ pc[r] = "write" => Op(r) \in {"sign-in-verify", "reset-password"}
  /\ pc[r] = "mark" => Op(r) \in {"verify-email", "reset-password"}
  /\ pc[r] = "write" /\ Op(r) = "reset-password" =>
       seen[r] \in Requests \cup {"initial", None}

HandlersOK == \A r \in Requests : HandlerOK(r)

\* What happened to the address, and for whom.
EffectsOK ==
  /\ \A r \in sessions : Earned(r, "sign-in-verify")
  /\ \A i \in DOMAIN passwords :
       passwords[i] \in Requests => Earned(passwords[i], "reset-password")
  /\ user = "verified" => \E r \in Requests, op \in Accepting : Earned(r, op)

\* A request is refused once.
Finished == {r \in Requests : pc[r] = "done"}
FailuresCounted == \A c \in Requests : failed[c] <= Cardinality(Finished)

Running(r) == InHandler(r) /\ pc[r] # "deliver"

\* What holds between two steps when handlers are not suspended: one runs at a
\* time, a purpose has one row, for the newest code, with its failures counted
\* and nobody let in with it; and a handler's copy of the row is up to date.
Alone == \A q, r \in Requests : Running(q) /\ Running(r) => q = r

RowsCurrent ==
  \A p \in Purposes, q \in Requests :
    codes[p][q] # None =>
      /\ codes[p][q].code = q /\ latest[p] = q
      /\ codes[p][q].attempts = failed[q] /\ accepted[q] = {}

NotYetStored ==
  \A r \in Requests :
    pc[r] \in {"idle", "gate", "reuse", "clear", "insert"} =>
      accepted[r] = {} /\ failed[r] = 0 /\ \A p \in Purposes : codes[p][r] = None

CopiesCurrent ==
  \A r \in Requests :
    /\ pc[r] = "insert" => RowsOf(Purpose(r)) = {}
    /\ pc[r] \in {"bump", "spend"} => held[r] = codes[Purpose(r)][held[r].code]

OneAtATime == Alone /\ RowsCurrent /\ NotYetStored /\ CopiesCurrent

Undisturbed == ~config.suspends => OneAtATime

IInv ==
  /\ TypeOK /\ CodesKeepToPurposes /\ HandlersOK /\ EffectsOK /\ FailuresCounted
  /\ Undisturbed /\ CodeAcceptedOnce /\ FailuresBounded

-----------------------------------------------------------------------------
(* What a step leaves alone                                                 *)

\* The steps, one by one.
Begin(r) ==
  \/ \E op \in Sends, p \in Purposes : BeginSend(r, op, p)
  \/ \E op \in Checks, p \in Purposes, c \in Requests \cup {None} :
       /\ c # None => \E q \in Purposes : c \in delivered[q]
       /\ BeginCheck(r, op, p, c)

LEMMA Steps ==
  ASSUME TypeOK, Next
  PROVE  Tick \/ \E r \in Requests : Begin(r) \/ Handle(r)
<1>1. ASSUME NEW op PROVE PurposesOf(op) \subseteq Purposes
  BY SMT DEF PurposesOf, Purposes
<1>2. ASSUME NEW c, c \in (UNION {delivered[q] : q \in Purposes}) \cup {None}
      PROVE  c \in Requests \cup {None} /\ (c # None => \E q \in Purposes : c \in delivered[q])
  <2>1. \A q \in Purposes : delivered[q] \subseteq Requests
    BY DEF TypeOK
  <2>2. c = None \/ \E q \in Purposes : c \in delivered[q]
    BY <1>2, Zenon
  <2> QED
    BY <2>1, <2>2
<1>3. CASE \E r \in Requests, op \in Sends \cap config.operations :
             \E p \in PurposesOf(op) : BeginSend(r, op, p)
  BY <1>1, <1>3 DEF Begin
<1>4. CASE \E r \in Requests, op \in Checks \cap config.operations :
             \E p \in PurposesOf(op), c \in (UNION {delivered[q] : q \in Purposes}) \cup {None} :
               BeginCheck(r, op, p, c)
  BY <1>1, <1>2, <1>4 DEF Begin
<1> QED
  BY <1>3, <1>4 DEF Next

\* A step of request r is nobody else's: what the others do next, called for
\* and have read stays, and so does the call of r once it is made.
LEMMA OwnStep ==
  ASSUME IInv, NEW r \in Requests, Begin(r) \/ Handle(r)
  PROVE  /\ \A q \in Requests \ {r} :
              /\ pc'[q] = pc[q] /\ call'[q] = call[q]
              /\ held'[q] = held[q] /\ seen'[q] = seen[q]
         /\ \A q \in Requests : call[q] # None => call'[q] = call[q]
         /\ config' = config /\ now' = now
         /\ pc[r] # "done" /\ Scheduled(r)
<1> USE DEF IInv, TypeOK, HandlersOK, HandlerOK, Goto, At
<1>1. CASE Begin(r)
  <2>1. \E to, c : pc' = [pc EXCEPT ![r] = to] /\ call' = [call EXCEPT ![r] = c]
    BY <1>1 DEF Begin, BeginSend, BeginCheck
  <2>2. UNCHANGED <<config, now, held, seen>> /\ pc[r] = "idle" /\ Scheduled(r)
    BY <1>1 DEF Begin, BeginSend, BeginCheck, Arrives
  <2>3. call[r] = None
    BY <2>2
  <2> QED
    BY <2>1, <2>2, <2>3
<1>2. CASE Gate(r)
  BY <1>2, SMT DEF Gate
<1>3. CASE TryReuse(r)
  BY <1>3, SMT DEF TryReuse
<1>4. CASE ExtendExpiry(r)
  BY <1>4, SMT DEF ExtendExpiry
<1>5. CASE ClearPrior(r)
  BY <1>5, SMT DEF ClearPrior
<1>6. CASE InsertCode(r)
  BY <1>6, SMT DEF InsertCode
<1>7. CASE SendLookup(r)
  BY <1>7, SMT DEF SendLookup
<1>8. CASE Unsend(r)
  BY <1>8, SMT DEF Unsend
<1>9. CASE Deliver(r)
  BY <1>9, SMT DEF Deliver
<1>10. CASE FindCode(r)
  BY <1>10, SMT DEF FindCode
<1>11. CASE DropCode(r)
  BY <1>11, SMT DEF DropCode
<1>12. CASE BumpAttempts(r)
  BY <1>12, SMT DEF BumpAttempts
<1>13. CASE SpendCode(r)
  BY <1>13, SMT DEF SpendCode
<1>14. CASE FindUser(r)
  BY <1>14, SMT DEF FindUser
<1>15. CASE CreateUser(r)
  BY <1>15, SMT DEF CreateUser
<1>16. CASE CreateSession(r)
  BY <1>16, SMT DEF CreateSession
<1>17. CASE MarkVerified(r)
  BY <1>17, SMT DEF MarkVerified
<1>18. CASE FindAccount(r)
  BY <1>18, SMT DEF FindAccount
<1>19. CASE WritePassword(r)
  BY <1>19, SMT DEF WritePassword
<1> QED
  BY <1>1, <1>2, <1>3, <1>4, <1>5, <1>6, <1>7, <1>8, <1>9, <1>10, <1>11, <1>12, <1>13, <1>14, <1>15, <1>16, <1>17, <1>18, <1>19 DEF Handle

\* What was mailed and who was let in is never taken back, and so what was
\* earned stays earned.
LEMMA EarnedStays ==
  ASSUME IInv, NEW r \in Requests, Begin(r) \/ Handle(r)
  PROVE  /\ \A c, p : BornFor(c, p) /\ c \in Requests => BornFor(c, p)'
         /\ \A q \in Requests, op \in Accepting : Earned(q, op) => Earned(q, op)'
         /\ \A p \in Purposes : delivered[p] \subseteq delivered'[p]
<1>1. \A q \in Requests : call[q] # None => call'[q] = call[q]
  BY OwnStep
<1>2. delivered' = delivered \/ Deliver(r)
  BY Zenon DEF Handle, Begin, BeginSend, BeginCheck, Gate, TryReuse, ExtendExpiry, ClearPrior,
     InsertCode, SendLookup, Unsend, FindCode, DropCode, BumpAttempts, SpendCode, FindUser,
     CreateUser, CreateSession, MarkVerified, FindAccount, WritePassword
<1>3. accepted' = accepted \/ SpendCode(r)
  BY Zenon DEF history, Handle, Begin, BeginSend, BeginCheck, Gate, TryReuse, ExtendExpiry,
     ClearPrior, InsertCode, SendLookup, Unsend, Deliver, FindCode, DropCode, BumpAttempts,
     FindUser, CreateUser, CreateSession, MarkVerified, FindAccount, WritePassword
<1>4. \A p \in Purposes : delivered[p] \subseteq delivered'[p]
  BY <1>2 DEF Deliver, IInv, TypeOK
<1>5. \A c \in Requests : accepted[c] \subseteq accepted'[c]
  BY <1>3 DEF SpendCode, IInv, TypeOK
<1>6. ASSUME NEW q \in Requests, NEW op \in Accepting, Earned(q, op)
      PROVE  Earned(q, op)'
  <2>1. call'[q] = call[q] /\ call[q] \in Call
    BY <1>1, <1>6 DEF Earned, IInv, TypeOK
  <2>2. call[q].purpose \in Purposes /\ \A p \in Purposes : delivered[p] \subseteq Requests
    BY <2>1 DEF Call, IInv, TypeOK
  <2>3. call[q].code \in Requests
    BY <1>6, <2>2 DEF Earned, LetIn, Purpose
  <2> QED
    BY <1>4, <1>5, <1>6, <2>1, <2>2, <2>3 DEF Earned, LetIn, Purpose, Op
<1> QED
  BY <1>1, <1>4, <1>6 DEF BornFor

-----------------------------------------------------------------------------
(* The table                                                                *)

CodesType == [Purposes -> [Requests -> CodeRow \cup {None}]]

\* A request that has arrived has a purpose.
LEMMA PurposeType ==
  ASSUME IInv, NEW r \in Requests, pc[r] # "idle"
  PROVE  Purpose(r) \in Purposes /\ call[r] \in Call /\ Op(r) \in Sends \cup Checks
BY ConstantsAssumption DEF IInv, HandlersOK, HandlerOK, TypeOK, Purpose, Op, Call

\* A delete removes the rows of its purpose and no others.
LEMMA DeleteFacts ==
  ASSUME TypeOK, NEW p \in Purposes, DeleteAll(p)
  PROVE  /\ codes' \in CodesType
         /\ \A q \in Requests : codes'[p][q] = None
         /\ \A o \in Purposes \ {p} : codes'[o] = codes[o]
<1>1. [q \in Requests |-> None] \in [Requests -> CodeRow \cup {None}]
  OBVIOUS
<1> QED
  BY <1>1 DEF TypeOK, DeleteAll, CodesType

\* An update of all rows, or of one, by identifier: every row is as it was or
\* as `patched` has it, and where nothing was nothing is.
LEMMA UpdateFacts ==
  ASSUME TypeOK, NEW p \in Purposes, NEW patched \in [Requests -> CodeRow],
         \/ codes' = [codes EXCEPT ![p] =
              [q \in Requests |-> IF @[q] = None THEN None ELSE patched[q]]]
         \/ codes' = codes /\ RowsOf(p) = {}
         \/ \E q \in RowsOf(p) : codes' = [codes EXCEPT ![p][q] = patched[q]]
  PROVE  /\ codes' \in CodesType
         /\ \A o \in Purposes \ {p} : codes'[o] = codes[o]
         /\ \A q \in Requests :
              /\ codes'[p][q] = codes[p][q] \/ (codes[p][q] # None /\ codes'[p][q] = patched[q])
              /\ RowsOf(p) = {q} => codes'[p][q] = patched[q]
<1>1. codes \in CodesType /\ codes[p] \in [Requests -> CodeRow \cup {None}]
  BY DEF TypeOK, CodesType
<1>2. CASE codes' = [codes EXCEPT ![p] =
              [q \in Requests |-> IF @[q] = None THEN None ELSE patched[q]]]
  <2> DEFINE new == [q \in Requests |-> IF codes[p][q] = None THEN None ELSE patched[q]]
  <2>1. new \in [Requests -> CodeRow \cup {None}]
    OBVIOUS
  <2>2. codes' = [codes EXCEPT ![p] = new]
    BY <1>2
  <2>3. \A q \in Requests :
          /\ new[q] = codes[p][q] \/ (codes[p][q] # None /\ new[q] = patched[q])
          /\ RowsOf(p) = {q} => new[q] = patched[q]
    BY DEF RowsOf
  <2> HIDE DEF new
  <2> QED
    BY <1>1, <2>1, <2>2, <2>3 DEF CodesType
<1>3. CASE codes' = codes /\ RowsOf(p) = {}
  BY <1>1, <1>3
<1>4. CASE \E q \in RowsOf(p) : codes' = [codes EXCEPT ![p][q] = patched[q]]
  <2>1. PICK q \in Requests : codes[p][q] # None /\ codes' = [codes EXCEPT ![p][q] = patched[q]]
    BY <1>4 DEF RowsOf
  <2> DEFINE new == [codes[p] EXCEPT ![q] = patched[q]]
  <2>2. new \in [Requests -> CodeRow \cup {None}]
    BY <1>1
  <2>3. codes' = [codes EXCEPT ![p] = new]
    BY <2>1
  <2>4. \A o \in Requests :
          /\ new[o] = codes[p][o] \/ (codes[p][o] # None /\ new[o] = patched[o])
          /\ RowsOf(p) = {o} => new[o] = patched[o]
    BY <1>1, <2>1 DEF RowsOf
  <2> HIDE DEF new
  <2> QED
    BY <1>1, <2>2, <2>3, <2>4 DEF CodesType
<1> QED
  BY <1>2, <1>3, <1>4

\* Extending the expiry changes nothing else of the rows.
LEMMA ExtendFacts ==
  ASSUME IInv, NEW r \in Requests, ExtendExpiry(r)
  PROVE  /\ codes' \in CodesType /\ Purpose(r) \in Purposes
         /\ \A o \in Purposes \ {Purpose(r)} : codes'[o] = codes[o]
         /\ \A q \in Requests :
              LET row == codes[Purpose(r)][q]
                  new == codes'[Purpose(r)][q] IN
              /\ new = None <=> row = None
              /\ row # None => new.code = row.code /\ new.attempts = row.attempts
<1> DEFINE p == Purpose(r)
           patched == [q \in Requests |->
             IF codes[p][q] = None THEN [code |-> r, attempts |-> 0, expiresAt |-> 0]
             ELSE [codes[p][q] EXCEPT !.expiresAt = now + CodeTTL]]
<1>1. p \in Purposes
  BY PurposeType DEF ExtendExpiry, At
<1>2. \A q \in Requests : codes[p][q] \in CodeRow \cup {None}
  BY <1>1 DEF IInv, TypeOK
<1>3. now + CodeTTL \in Nat /\ 0 \in 0 .. Allowed
  BY ConstantsAssumption DEF IInv, TypeOK
<1>4. patched \in [Requests -> CodeRow]
  BY <1>2, <1>3 DEF CodeRow
<1>5. \/ codes' = [codes EXCEPT ![p] =
           [q \in Requests |-> IF @[q] = None THEN None ELSE patched[q]]]
      \/ codes' = codes /\ RowsOf(p) = {}
      \/ \E q \in RowsOf(p) : codes' = [codes EXCEPT ![p][q] = patched[q]]
  <2>1. \A q \in Requests : codes[p][q] # None =>
          patched[q] = [codes[p][q] EXCEPT !.expiresAt = now + CodeTTL]
    OBVIOUS
  <2>2. \/ codes' = [codes EXCEPT ![p] =
             [q \in Requests |-> IF @[q] = None THEN None ELSE [@[q] EXCEPT !.expiresAt = now + CodeTTL]]]
        \/ codes' = codes /\ RowsOf(p) = {}
        \/ \E q \in RowsOf(p) : codes' = [codes EXCEPT ![p][q] = [codes[p][q] EXCEPT !.expiresAt = now + CodeTTL]]
    BY DEF ExtendExpiry, UpdateRows
  <2> HIDE DEF patched
  <2>3. [q \in Requests |-> IF codes[p][q] = None THEN None ELSE [codes[p][q] EXCEPT !.expiresAt = now + CodeTTL]]
        = [q \in Requests |-> IF codes[p][q] = None THEN None ELSE patched[q]]
    BY <2>1
  <2>4. ASSUME NEW q \in RowsOf(p)
        PROVE  [codes[p][q] EXCEPT !.expiresAt = now + CodeTTL] = patched[q]
    BY <2>1 DEF RowsOf
  <2> QED
    BY <2>2, <2>3, <2>4
<1>6. \A q \in Requests : codes[p][q] # None =>
        patched[q].code = codes[p][q].code /\ patched[q].attempts = codes[p][q].attempts
  BY <1>2 DEF CodeRow
<1> HIDE DEF p, patched
<1>7. /\ codes' \in CodesType
      /\ \A o \in Purposes \ {p} : codes'[o] = codes[o]
      /\ \A q \in Requests :
           codes'[p][q] = codes[p][q] \/ (codes[p][q] # None /\ codes'[p][q] = patched[q])
  BY <1>1, <1>4, <1>5, UpdateFacts DEF IInv
<1>8. \A q \in Requests : patched[q] # None
  BY <1>4, ConstantsAssumption
<1> QED
  BY <1>1, <1>6, <1>7, <1>8 DEF p

\* A refused guess writes what was read back, with one attempt more.
LEMMA BumpFacts ==
  ASSUME IInv, NEW r \in Requests, BumpAttempts(r)
  PROVE  /\ codes' \in CodesType /\ Purpose(r) \in Purposes /\ held[r] \in CodeRow
         /\ \A o \in Purposes \ {Purpose(r)} : codes'[o] = codes[o]
         /\ \A q \in Requests :
              LET row == codes[Purpose(r)][q]
                  new == codes'[Purpose(r)][q] IN
              /\ new = None <=> row = None
              /\ \/ new = row /\ RowsOf(Purpose(r)) # {q}
                 \/ new.code = held[r].code /\ new.attempts = held[r].attempts + 1
<1> DEFINE p == Purpose(r)
           a == held[r].attempts + 1
           patched == [q \in Requests |->
             IF codes[p][q] = None THEN held[r]
             ELSE [codes[p][q] EXCEPT !.code = held[r].code, !.attempts = a]]
<1>1. p \in Purposes
  BY PurposeType DEF BumpAttempts, At
<1>2. \A q \in Requests : codes[p][q] \in CodeRow \cup {None}
  BY <1>1 DEF IInv, TypeOK
<1>3. /\ held[r] \in CodeRow /\ held[r].code \in Requests /\ ~Exhausted(held[r])
      /\ held[r].attempts \in 0 .. Allowed
  BY DEF IInv, TypeOK, HandlersOK, HandlerOK, BumpAttempts, At, CodeRow
<1>4. a \in 0 .. Allowed
  BY <1>3, ConstantsAssumption, SMT DEF Exhausted
<1> HIDE DEF a
<1>5. patched \in [Requests -> CodeRow]
  BY <1>2, <1>3, <1>4 DEF CodeRow
<1>6. \/ codes' = [codes EXCEPT ![p] =
           [q \in Requests |-> IF @[q] = None THEN None ELSE patched[q]]]
      \/ codes' = codes /\ RowsOf(p) = {}
      \/ \E q \in RowsOf(p) : codes' = [codes EXCEPT ![p][q] = patched[q]]
  <2>1. \A q \in Requests : codes[p][q] # None =>
          patched[q] = [codes[p][q] EXCEPT !.code = held[r].code, !.attempts = a]
    OBVIOUS
  <2>2. \/ codes' = [codes EXCEPT ![p] =
             [q \in Requests |-> IF @[q] = None THEN None ELSE [@[q] EXCEPT !.code = held[r].code, !.attempts = a]]]
        \/ codes' = codes /\ RowsOf(p) = {}
        \/ \E q \in RowsOf(p) : codes' = [codes EXCEPT ![p][q] = [codes[p][q] EXCEPT !.code = held[r].code, !.attempts = a]]
    BY DEF BumpAttempts, UpdateRows, a
  <2> HIDE DEF patched
  <2>3. [q \in Requests |-> IF codes[p][q] = None THEN None ELSE [codes[p][q] EXCEPT !.code = held[r].code, !.attempts = a]]
        = [q \in Requests |-> IF codes[p][q] = None THEN None ELSE patched[q]]
    BY <2>1
  <2>4. ASSUME NEW q \in RowsOf(p)
        PROVE  [codes[p][q] EXCEPT !.code = held[r].code, !.attempts = a] = patched[q]
    BY <2>1 DEF RowsOf
  <2> QED
    BY <2>2, <2>3, <2>4
<1>7. \A q \in Requests : codes[p][q] # None =>
        patched[q].code = held[r].code /\ patched[q].attempts = a
  BY <1>2 DEF CodeRow
<1> HIDE DEF p, patched
<1>8. /\ codes' \in CodesType
      /\ \A o \in Purposes \ {p} : codes'[o] = codes[o]
      /\ \A q \in Requests :
           /\ codes'[p][q] = codes[p][q] \/ (codes[p][q] # None /\ codes'[p][q] = patched[q])
           /\ RowsOf(p) = {q} => codes'[p][q] = patched[q]
  BY <1>1, <1>5, <1>6, UpdateFacts DEF IInv
<1>9. \A q \in Requests : patched[q] # None
  BY <1>5, ConstantsAssumption
<1>10. \A q \in Requests : RowsOf(p) = {q} => codes[p][q] # None
  BY DEF RowsOf
<1> QED
  BY <1>1, <1>3, <1>7, <1>8, <1>9, <1>10 DEF p, a

-----------------------------------------------------------------------------
(* The parts of the invariant, step by step                                 *)

\* The state keeps its types, but for the count of failures.
LEMMA TypesStep ==
  ASSUME IInv, NEW r \in Requests, Begin(r) \/ Handle(r),
         failed' \in [Requests -> 0 .. Cardinality(Requests)]
  PROVE  TypeOK'
<1> USE DEF At, Goto, server, history
<1>1. codes' \in CodesType
  <2>1. \/ codes' = codes \/ InsertCode(r) \/ ExtendExpiry(r) \/ BumpAttempts(r)
        \/ DeleteAll(Purpose(r)) /\ pc[r] # "idle"
    BY Zenon
    DEF Begin, Handle, BeginSend, BeginCheck, Gate, TryReuse, ClearPrior, SendLookup,
      Unsend, Deliver, FindCode, DropCode, SpendCode, FindUser, CreateUser,
      CreateSession, MarkVerified, FindAccount, WritePassword
  <2>2. CASE codes' = codes
    BY <2>2 DEF CodesType, IInv, TypeOK
  <2>3. CASE InsertCode(r)
    <3>1. [code |-> r, attempts |-> 0, expiresAt |-> now + CodeTTL] \in CodeRow
      BY ConstantsAssumption DEF CodeRow, IInv, TypeOK
    <3> QED
      BY <2>3, <3>1, PurposeType DEF InsertCode, CodesType, IInv, TypeOK
  <2>4. CASE DeleteAll(Purpose(r)) /\ pc[r] # "idle"
    BY <2>4, PurposeType, DeleteFacts DEF IInv
  <2> QED
    BY <2>1, <2>2, <2>3, <2>4, ExtendFacts, BumpFacts
<1>2. pc' \in [Requests -> PCs]
  <2>1. PICK to \in PCs : pc' = [pc EXCEPT ![r] = to]
    BY SMT DEF PCs, AfterGate, AfterStoring, AfterFind,
      Begin, Handle, BeginSend, BeginCheck, Gate, TryReuse, ExtendExpiry, ClearPrior,
      InsertCode, SendLookup, Unsend, Deliver, FindCode, DropCode, BumpAttempts,
      SpendCode, FindUser, CreateUser, CreateSession, MarkVerified, FindAccount,
      WritePassword
  <2> QED
    BY <2>1 DEF IInv, TypeOK
<1>3. call' \in [Requests -> Call \cup {None}]
  <2>1. call' = call \/ \E op \in Sends \cup Checks, p \in Purposes, c \in Requests \cup {None} :
          call' = [call EXCEPT ![r] = [op |-> op, purpose |-> p, code |-> c]]
    BY Zenon
    DEF Begin, Handle, BeginSend, BeginCheck, Gate, TryReuse, ExtendExpiry, ClearPrior,
      InsertCode, SendLookup, Unsend, Deliver, FindCode, DropCode, BumpAttempts,
      SpendCode, FindUser, CreateUser, CreateSession, MarkVerified, FindAccount,
      WritePassword
  <2>2. ASSUME NEW op \in Sends \cup Checks, NEW p \in Purposes, NEW c \in Requests \cup {None}
        PROVE  [op |-> op, purpose |-> p, code |-> c] \in Call
    BY DEF Call
  <2> QED
    BY <2>1, <2>2 DEF IInv, TypeOK
<1>4. held' \in [Requests -> CodeRow \cup {None}]
  <2>1. \/ held' = held
        \/ InsertCode(r)
        \/ pc[r] # "idle" /\ \E q \in RowsOf(Purpose(r)) :
             held' = [held EXCEPT ![r] = codes[Purpose(r)][q]]
    BY Zenon
    DEF Begin, Handle, BeginSend, BeginCheck, Gate, TryReuse, ExtendExpiry, ClearPrior,
      SendLookup, Unsend, Deliver, FindCode, DropCode, BumpAttempts, SpendCode,
      FindUser, CreateUser, CreateSession, MarkVerified, FindAccount, WritePassword
  <2>2. CASE InsertCode(r)
    <3>1. [code |-> r, attempts |-> 0, expiresAt |-> now + CodeTTL] \in CodeRow
      BY ConstantsAssumption DEF CodeRow, IInv, TypeOK
    <3> QED
      BY <2>2, <3>1 DEF InsertCode, IInv, TypeOK
  <2> QED
    BY <2>1, <2>2, PurposeType DEF RowsOf, IInv, TypeOK
<1>5. seen' \in [Requests ->
         {"none", "unverified", "verified", "initial", None} \cup Requests]
  <2>1. DOMAIN passwords = Requests \cup {"initial"}
    BY DEF IInv, TypeOK
  <2>2. seen' = seen \/ \E s \in {user, None} \cup DOMAIN passwords : seen' = [seen EXCEPT ![r] = s]
    BY Zenon
    DEF Begin, Handle, BeginSend, BeginCheck, Gate, TryReuse, ExtendExpiry, ClearPrior,
      InsertCode, SendLookup, Unsend, Deliver, FindCode, DropCode, BumpAttempts,
      SpendCode, FindUser, CreateUser, CreateSession, MarkVerified, FindAccount,
      WritePassword
  <2> QED
    BY <2>1, <2>2 DEF IInv, TypeOK
<1>6. /\ user' \in {"none", "unverified", "verified"} /\ sessions' \subseteq Requests
      /\ config' = config /\ now' = now
  <2>1. user' \in {user, "verified"} /\ sessions' \subseteq sessions \cup {r}
    BY SMT
    DEF Begin, Handle, BeginSend, BeginCheck, Gate, TryReuse, ExtendExpiry, ClearPrior,
      InsertCode, SendLookup, Unsend, Deliver, FindCode, DropCode, BumpAttempts,
      SpendCode, FindUser, CreateUser, CreateSession, MarkVerified, FindAccount,
      WritePassword
  <2> QED
    BY <2>1, OwnStep DEF IInv, TypeOK
<1>7. passwords' \in [Requests \cup {"initial"} -> Requests \cup {"initial", None}]
  <2>1. passwords' = passwords \/ \E i : passwords' = [passwords EXCEPT ![i] = r]
    BY Zenon
    DEF Begin, Handle, BeginSend, BeginCheck, Gate, TryReuse, ExtendExpiry, ClearPrior,
      InsertCode, SendLookup, Unsend, Deliver, FindCode, DropCode, BumpAttempts,
      SpendCode, FindUser, CreateUser, CreateSession, MarkVerified, FindAccount,
      WritePassword
  <2>2. passwords \in [Requests \cup {"initial"} -> Requests \cup {"initial", None}]
    BY Zenon DEF IInv, TypeOK
  <2> QED
    BY <2>1, <2>2
<1>8. delivered' \in [Purposes -> SUBSET Requests]
  <2>1. delivered' = delivered \/ Deliver(r)
    BY Zenon
    DEF Begin, Handle, BeginSend, BeginCheck, Gate, TryReuse, ExtendExpiry, ClearPrior,
      InsertCode, SendLookup, Unsend, FindCode, DropCode, BumpAttempts, SpendCode,
      FindUser, CreateUser, CreateSession, MarkVerified, FindAccount, WritePassword
  <2>2. CASE Deliver(r)
    <3>1. held[r] \in CodeRow
      BY <2>2 DEF Deliver, IInv, TypeOK, HandlersOK, HandlerOK
    <3> QED
      BY <2>2, <3>1 DEF Deliver, CodeRow, IInv, TypeOK
  <2> QED
    BY <2>1, <2>2 DEF IInv, TypeOK
<1>9. latest' \in [Purposes -> Requests \cup {None}] /\ accepted' \in [Requests -> SUBSET Requests]
  <2>1. (latest' = latest \/ \E p : latest' = [latest EXCEPT ![p] = r])
        /\ (accepted' = accepted \/ \E c : accepted' = [accepted EXCEPT ![c] = @ \cup {r}])
    BY Zenon
    DEF Begin, Handle, BeginSend, BeginCheck, Gate, TryReuse, ExtendExpiry, ClearPrior,
      InsertCode, SendLookup, Unsend, Deliver, FindCode, DropCode, BumpAttempts,
      SpendCode, FindUser, CreateUser, CreateSession, MarkVerified, FindAccount,
      WritePassword
  <2>2. latest \in [Purposes -> Requests \cup {None}] /\ accepted \in [Requests -> SUBSET Requests]
    BY Zenon DEF IInv, TypeOK
  <2>3. latest' \in [Purposes -> Requests \cup {None}]
    BY <2>1, <2>2
  <2>4. accepted' \in [Requests -> SUBSET Requests]
    BY <2>1, <2>2
  <2> QED
    BY <2>3, <2>4
<1> QED
  BY <1>1, <1>2, <1>3, <1>4, <1>5, <1>6, <1>7, <1>8, <1>9 DEF TypeOK, CodesType, IInv

\* A request that is refused is finished, so no code is refused more often than
\* requests have finished.
LEMMA FailuresStep ==
  ASSUME IInv, NEW r \in Requests, Begin(r) \/ Handle(r)
  PROVE  FailuresCounted' /\ failed' \in [Requests -> 0 .. Cardinality(Requests)]
<1> USE DEF At, Goto, server, history
<1>1. failed' = failed \/ BumpAttempts(r)
  BY Zenon
  DEF Begin, Handle, BeginSend, BeginCheck, Gate, TryReuse, ExtendExpiry, ClearPrior,
    InsertCode, SendLookup, Unsend, Deliver, FindCode, DropCode, SpendCode, FindUser,
    CreateUser, CreateSession, MarkVerified, FindAccount, WritePassword
<1>2. Finished \subseteq Finished'
  BY OwnStep DEF Finished
<1>3. IsFiniteSet(Finished') /\ IsFiniteSet(Finished) /\ Finished' \subseteq Requests
  BY ConstantsAssumption, FS_Subset DEF Finished
<1>4. /\ Cardinality(Finished) \in Nat /\ Cardinality(Finished') \in Nat
      /\ Cardinality(Requests) \in Nat
      /\ Cardinality(Finished) <= Cardinality(Finished')
      /\ Cardinality(Finished') <= Cardinality(Requests)
  BY <1>2, <1>3, ConstantsAssumption, FS_CardinalityType, FS_Subset
<1>5. ASSUME NEW c \in Requests
      PROVE  failed'[c] <= Cardinality(Finished')
  <2>1. failed[c] <= Cardinality(Finished) /\ failed[c] \in Nat
    BY <1>4 DEF IInv, FailuresCounted, TypeOK
  <2>2. CASE failed' = failed
    BY <1>4, <2>1, <2>2, SMT
  <2>3. CASE BumpAttempts(r)
    <3>1. Finished' = Finished \cup {r} /\ r \notin Finished
      <4>1. pc' = [pc EXCEPT ![r] = "done"] /\ pc[r] = "bump"
        BY <2>3 DEF BumpAttempts
      <4> QED
        BY <4>1 DEF Finished, IInv, TypeOK
    <3>2. Cardinality(Finished') = Cardinality(Finished) + 1
      BY <1>3, <3>1, FS_AddElement
    <3>3. failed'[c] = failed[c] \/ failed'[c] = failed[c] + 1
      BY <2>3 DEF BumpAttempts, IInv, TypeOK
    <3> QED
      BY <1>4, <2>1, <3>2, <3>3, SMT
  <2> QED
    BY <1>1, <2>2, <2>3
<1>6. \A c \in Requests : failed'[c] \in Nat
  BY <1>1 DEF BumpAttempts, IInv, TypeOK
<1>7. DOMAIN failed' = Requests /\ failed' = [c \in Requests |-> failed'[c]]
  BY <1>1 DEF BumpAttempts, IInv, TypeOK
<1>8. \A c \in Requests : failed'[c] \in 0 .. Cardinality(Requests)
  BY <1>4, <1>5, <1>6, SMT
<1> QED
  BY <1>5, <1>7, <1>8 DEF FailuresCounted

\* Codes keep to the purposes they were generated for.
LEMMA PurposesStep ==
  ASSUME IInv, NEW r \in Requests, Begin(r) \/ Handle(r)
  PROVE  CodesKeepToPurposes'
<1> USE DEF At, Goto, server, history
<1> DEFINE Later(c, p) == call'[c] # None /\ call'[c].purpose = p
<1>1. \A c \in Requests : \A p : BornFor(c, p) => Later(c, p)
  BY EarnedStays DEF BornFor
<1> HIDE DEF Later
<1>2. /\ \A p \in Purposes, q \in Requests : codes[p][q] # None => codes[p][q].code \in Requests
      /\ \A q \in Requests : held[q] # None => held[q].code \in Requests
  BY DEF IInv, TypeOK, CodeRow
<1>3. ASSUME NEW p \in Purposes, NEW q \in Requests, codes'[p][q] # None
      PROVE  Later(codes'[p][q].code, p)
  <2>1. \/ codes' = codes \/ InsertCode(r) \/ ExtendExpiry(r) \/ BumpAttempts(r)
        \/ DeleteAll(Purpose(r)) /\ pc[r] # "idle"
    BY Zenon
    DEF Begin, Handle, BeginSend, BeginCheck, Gate, TryReuse, ClearPrior, SendLookup,
      Unsend, Deliver, FindCode, DropCode, SpendCode, FindUser, CreateUser,
      CreateSession, MarkVerified, FindAccount, WritePassword
  <2>2. codes[p][q] # None => Later(codes[p][q].code, p)
    BY <1>1, <1>2 DEF IInv, CodesKeepToPurposes
  <2>3. CASE codes' = codes
    BY <1>3, <2>2, <2>3
  <2>4. CASE InsertCode(r)
    <3>1. Purpose(r) \in Purposes /\ call[r] # None /\ BornFor(r, Purpose(r))
      BY <2>4, PurposeType, ConstantsAssumption DEF InsertCode, BornFor, Purpose
    <3>2. codes'[p][q] = codes[p][q] \/ (p = Purpose(r) /\ codes'[p][q].code = r)
      BY <2>4, <3>1 DEF InsertCode, IInv, TypeOK
    <3> QED
      BY <1>1, <1>3, <2>2, <3>1, <3>2
  <2>5. CASE ExtendExpiry(r)
    <3>1. codes[p][q] # None /\ codes'[p][q].code = codes[p][q].code
      BY <1>3, <2>5, ExtendFacts
    <3> QED
      BY <2>2, <3>1
  <2>6. CASE BumpAttempts(r)
    <3>1. held[r] # None /\ BornFor(held[r].code, Purpose(r))
      BY <2>6 DEF BumpAttempts, IInv, HandlersOK, HandlerOK, CodesKeepToPurposes
    <3>2. \/ codes[p][q] # None /\ codes'[p][q].code = codes[p][q].code
          \/ p = Purpose(r) /\ codes'[p][q].code = held[r].code
      BY <1>3, <2>6, BumpFacts
    <3> QED
      BY <1>1, <1>2, <2>2, <3>1, <3>2
  <2>7. CASE DeleteAll(Purpose(r)) /\ pc[r] # "idle"
    <3>1. p # Purpose(r) /\ codes'[p] = codes[p]
      BY <1>3, <2>7, PurposeType, DeleteFacts DEF IInv
    <3> QED
      BY <1>3, <2>2, <3>1
  <2> QED
    BY <2>1, <2>3, <2>4, <2>5, <2>6, <2>7
<1>4. ASSUME NEW q \in Requests, held'[q] # None
      PROVE  call'[q] # None /\ Later(held'[q].code, call'[q].purpose)
  <2>1. held[q] # None => /\ call[q] # None /\ call'[q] = call[q]
                          /\ Later(held[q].code, call'[q].purpose)
    <3>1. held[q] # None => call[q] # None /\ BornFor(held[q].code, call[q].purpose)
      BY DEF IInv, CodesKeepToPurposes, Purpose
    <3> QED
      BY <1>1, <1>2, <3>1, OwnStep
  <2>2. \/ held' = held
        \/ InsertCode(r)
        \/ pc[r] # "idle" /\ \E o \in RowsOf(Purpose(r)) :
             held' = [held EXCEPT ![r] = codes[Purpose(r)][o]]
    BY Zenon
    DEF Begin, Handle, BeginSend, BeginCheck, Gate, TryReuse, ExtendExpiry, ClearPrior,
      SendLookup, Unsend, Deliver, FindCode, DropCode, BumpAttempts, SpendCode,
      FindUser, CreateUser, CreateSession, MarkVerified, FindAccount, WritePassword
  <2>3. CASE held' = held
    BY <1>4, <2>1, <2>3
  <2>4. CASE InsertCode(r)
    <3>1. Purpose(r) \in Purposes /\ call[r] # None /\ call' = call /\ BornFor(r, Purpose(r))
      BY <2>4, PurposeType, ConstantsAssumption DEF InsertCode, BornFor, Purpose
    <3>2. held'[q] = held[q] \/ (q = r /\ held'[q].code = r)
      BY <2>4 DEF InsertCode, IInv, TypeOK
    <3> QED
      BY <1>1, <1>4, <2>1, <3>1, <3>2 DEF Purpose
  <2>5. CASE pc[r] # "idle" /\ \E o \in RowsOf(Purpose(r)) :
               held' = [held EXCEPT ![r] = codes[Purpose(r)][o]]
    <3>1. PICK o \in Requests : /\ codes[Purpose(r)][o] # None
                                /\ held' = [held EXCEPT ![r] = codes[Purpose(r)][o]]
      BY <2>5 DEF RowsOf
    <3>2. held'[q] = held[q] \/ (q = r /\ held'[q] = codes[Purpose(r)][o])
      BY <3>1 DEF IInv, TypeOK
    <3>3. /\ Purpose(r) \in Purposes /\ call[r] # None
          /\ BornFor(codes[Purpose(r)][o].code, Purpose(r))
      BY <2>5, <3>1, PurposeType, ConstantsAssumption DEF IInv, CodesKeepToPurposes
    <3>4. Later(codes[Purpose(r)][o].code, Purpose(r)) /\ call'[r] = call[r]
      BY <1>1, <1>2, <3>1, <3>3, OwnStep
    <3> QED
      BY <1>4, <2>1, <3>2, <3>3, <3>4 DEF Purpose
  <2> QED
    BY <2>2, <2>3, <2>4, <2>5
<1>5. ASSUME NEW p \in Purposes, NEW c, c \in delivered'[p]
      PROVE  Later(c, p)
  <2>1. c \in delivered[p] => Later(c, p)
    BY <1>1 DEF IInv, TypeOK, CodesKeepToPurposes
  <2>2. delivered' = delivered \/ Deliver(r)
    BY Zenon
    DEF Begin, Handle, BeginSend, BeginCheck, Gate, TryReuse, ExtendExpiry, ClearPrior,
      InsertCode, SendLookup, Unsend, FindCode, DropCode, BumpAttempts, SpendCode,
      FindUser, CreateUser, CreateSession, MarkVerified, FindAccount, WritePassword
  <2>3. CASE Deliver(r)
    <3>1. /\ held[r] # None /\ BornFor(held[r].code, Purpose(r))
          /\ delivered' = [delivered EXCEPT ![Purpose(r)] = @ \cup {held[r].code}]
      BY <2>3 DEF Deliver, IInv, HandlersOK, HandlerOK, CodesKeepToPurposes
    <3>2. c \in delivered[p] \/ (p = Purpose(r) /\ c = held[r].code)
      BY <1>5, <3>1 DEF IInv, TypeOK
    <3> QED
      BY <1>1, <1>2, <2>1, <3>1, <3>2
  <2> QED
    BY <1>5, <2>1, <2>2, <2>3
<1>6. ASSUME NEW q \in Requests, call'[q] # None, call'[q].code # None
      PROVE  \E p \in Purposes : call'[q].code \in delivered'[p]
  <2>1. CASE call'[q] = call[q]
    BY <1>6, <2>1, EarnedStays DEF IInv, CodesKeepToPurposes
  <2>2. CASE call'[q] # call[q]
    <3>1. CASE Begin(r)
      <4>1. \E op, p, c : /\ c # None => \E o \in Purposes : c \in delivered[o]
                          /\ call' = [call EXCEPT ![r] = [op |-> op, purpose |-> p, code |-> c]]
        BY <3>1 DEF Begin, BeginSend, BeginCheck
      <4>2. \E c : call'[q].code = c /\ (c # None => \E o \in Purposes : c \in delivered[o])
        BY <1>6, <2>2, <4>1 DEF IInv, TypeOK
      <4> QED
        BY <1>6, <4>2, EarnedStays
    <3>2. CASE Handle(r)
      <4>1. call' = call
        BY <3>2, Zenon
        DEF Handle, Gate, TryReuse, ExtendExpiry, ClearPrior,
          InsertCode, SendLookup, Unsend, Deliver, FindCode, DropCode, BumpAttempts,
          SpendCode, FindUser, CreateUser, CreateSession, MarkVerified, FindAccount,
          WritePassword
      <4> QED
        BY <2>2, <4>1
    <3> QED
      BY <3>1, <3>2
  <2> QED
    BY <2>1, <2>2
<1> QED
  BY <1>3, <1>4, <1>5, <1>6 DEF CodesKeepToPurposes, Purpose, BornFor, Later

\* Where a handler is still tells what it was called for and what it has read.
LEMMA HandlersStep ==
  ASSUME IInv, NEW r \in Requests, Begin(r) \/ Handle(r)
  PROVE  HandlersOK'
<1>1. ASSUME NEW q \in Requests \ {r}
      PROVE  HandlerOK(q)'
  <2>1. HandlerOK(q)
    BY DEF IInv, HandlersOK
  <2>2. pc'[q] = pc[q] /\ call'[q] = call[q] /\ held'[q] = held[q] /\ seen'[q] = seen[q]
    BY OwnStep
  <2>3. pc[q] \in {"user", "session", "write", "mark", "account"} => Earned(q, Op(q))'
    <3>1. pc[q] \in {"user", "session", "write", "mark", "account"} =>
            Earned(q, Op(q)) /\ Op(q) \in Accepting
      BY <2>1 DEF HandlerOK, Accepting
    <3>2. Op(q)' = Op(q)
      BY <2>2 DEF Op
    <3>3. \A op \in Accepting : Earned(q, op) => Earned(q, op)'
      BY EarnedStays
    <3> QED
      BY <3>1, <3>2, <3>3 DEF Earned, LetIn
  <2> QED
    BY <2>1, <2>2, <2>3 DEF HandlerOK, Op, Exhausted
<1>2. HandlerOK(r)'
  <2> USE ConstantsAssumption DEF Goto, At, Op
  <2>1. HandlerOK(r)
    BY DEF IInv, HandlersOK
  <2>2. pc \in [Requests -> PCs] /\ call \in [Requests -> Call \cup {None}]
        /\ held \in [Requests -> CodeRow \cup {None}]
    BY DEF IInv, TypeOK
  <2>3. \A op \in Accepting : Earned(r, op) => Earned(r, op)'
    BY EarnedStays
  <2>4. CASE Begin(r)
    <3>1. CASE \E op \in Sends, p \in Purposes : BeginSend(r, op, p)
      <4>1. PICK op \in Sends, p \in Purposes : BeginSend(r, op, p)
        BY <3>1
      <4>2. pc'[r] \in {"gate", "reuse", "clear"}
        BY <2>2, <4>1 DEF BeginSend, AfterGate
      <4>3. call'[r] = [op |-> op, purpose |-> p, code |-> None]
        BY <2>2, <4>1 DEF BeginSend
      <4>4. call'[r] # None /\ call'[r].op \in Sends
        BY <4>3 DEF Call
      <4> QED
        BY <4>2, <4>4 DEF HandlerOK
    <3>2. CASE \E op \in Checks, p \in Purposes, c \in Requests \cup {None} :
                 BeginCheck(r, op, p, c)
      <4>1. PICK op \in Checks, p \in Purposes, c \in Requests \cup {None} :
              BeginCheck(r, op, p, c)
        BY <3>2
      <4>2. pc'[r] = "find"
        BY <2>2, <4>1 DEF BeginCheck
      <4>3. call'[r] = [op |-> op, purpose |-> p, code |-> c]
        BY <2>2, <4>1 DEF BeginCheck
      <4>4. call'[r] # None /\ call'[r].op \in Checks
        BY <4>3 DEF Call
      <4> QED
        BY <4>2, <4>4 DEF HandlerOK
    <3> QED
      BY <2>4, <3>1, <3>2 DEF Begin
  <2>5. CASE Gate(r)
    <3>1. pc'[r] \in {"done", "reuse", "clear"} /\ call'[r] = call[r] /\ pc[r] = "gate"
      BY <2>2, <2>5 DEF Gate, AfterGate
    <3> QED
      BY <2>1, <3>1 DEF HandlerOK
  <2>6. CASE TryReuse(r)
    <3>1. call'[r] = call[r] /\ pc[r] = "reuse" /\ Purpose(r) \in Purposes
      BY <2>6, PurposeType DEF TryReuse
    <3>2. pc'[r] = "clear" \/ (pc'[r] \in {"clear", "extend"} /\ held'[r] # None)
      BY <2>2, <2>6 DEF TryReuse, RowsOf
    <3> QED
      BY <2>1, <3>1, <3>2 DEF HandlerOK
  <2>7. CASE ExtendExpiry(r)
    <3>1. call'[r] = call[r] /\ pc[r] = "extend" /\ pc'[r] \in {"lookup", "deliver"}
      BY <2>2, <2>7 DEF ExtendExpiry, AfterStoring
    <3>2. held'[r] = held[r]
      BY <2>2, <2>7 DEF ExtendExpiry
    <3> QED
      BY <2>1, <3>1, <3>2 DEF HandlerOK
  <2>8. CASE ClearPrior(r)
    BY <2>1, <2>2, <2>8, SMT DEF HandlerOK, ClearPrior
  <2>9. CASE InsertCode(r)
    <3>1. call'[r] = call[r] /\ pc[r] = "insert" /\ pc'[r] \in {"lookup", "deliver"}
      BY <2>2, <2>9 DEF InsertCode, AfterStoring
    <3>2. held'[r] # None
      <4>1. [code |-> r, attempts |-> 0, expiresAt |-> now + CodeTTL] \in CodeRow
        BY DEF CodeRow, IInv, TypeOK
      <4>2. held'[r] = [code |-> r, attempts |-> 0, expiresAt |-> now + CodeTTL]
        BY <2>2, <2>9 DEF InsertCode
      <4> QED
        BY <4>1, <4>2
    <3> QED
      BY <2>1, <3>1, <3>2 DEF HandlerOK
  <2>10. CASE SendLookup(r)
    BY <2>1, <2>2, <2>10, SMT DEF HandlerOK, SendLookup
  <2>11. CASE Unsend(r)
    BY <2>1, <2>2, <2>11, SMT DEF HandlerOK, Unsend
  <2>12. CASE Deliver(r)
    BY <2>1, <2>2, <2>12, SMT DEF HandlerOK, Deliver
  <2>13. CASE FindCode(r)
    <3>1. call'[r] = call[r] /\ pc[r] = "find" /\ call[r] # None
      BY <2>1, <2>13 DEF FindCode, HandlerOK
    <3>2. CASE pc'[r] = "done"
      BY <3>1, <3>2 DEF HandlerOK
    <3>3. CASE \E q \in RowsOf(Purpose(r)) :
                 /\ held' = [held EXCEPT ![r] = codes[Purpose(r)][q]]
                 /\ pc' = [pc EXCEPT ![r] = AfterFind(r, codes[Purpose(r)][q])]
      <4>1. PICK q \in RowsOf(Purpose(r)) :
              /\ held' = [held EXCEPT ![r] = codes[Purpose(r)][q]]
              /\ pc' = [pc EXCEPT ![r] = AfterFind(r, codes[Purpose(r)][q])]
        BY <3>3
      <4> DEFINE row == codes[Purpose(r)][q]
      <4>2. held'[r] = row /\ row # None /\ pc'[r] = AfterFind(r, row)
        BY <2>2, <4>1 DEF RowsOf
      <4> HIDE DEF row
      <4>3. call[r].op \in Sends \cup Checks
        BY <2>2, <3>1 DEF Call
      <4>4. /\ pc'[r] \in {"drop", "bump", "spend", "done"}
            /\ pc'[r] \in {"bump", "spend"} => ~Exhausted(row)
            /\ pc'[r] = "spend" => row.code = call[r].code /\ call[r].op # "check"
        BY <4>2 DEF AfterFind
      <4>5. pc'[r] = "spend" => call[r].op \in Accepting
        BY <2>1, <3>1, <4>4 DEF HandlerOK, Checks, Accepting
      <4> QED
        BY <3>1, <4>2, <4>4, <4>5 DEF HandlerOK, Exhausted
    <3> QED
      BY <2>2, <2>13, <3>2, <3>3 DEF FindCode
  <2>14. CASE DropCode(r)
    BY <2>1, <2>2, <2>14, SMT DEF HandlerOK, DropCode
  <2>15. CASE BumpAttempts(r)
    BY <2>1, <2>2, <2>15, SMT DEF HandlerOK, BumpAttempts
  <2>16. CASE SpendCode(r)
    <3>1. call'[r] = call[r] /\ pc[r] = "spend" /\ pc'[r] = "user" /\ held[r] # None
      BY <2>1, <2>2, <2>16 DEF SpendCode, HandlerOK
    <3>2. held[r].code = call[r].code /\ call[r] # None /\ call[r].op \in Accepting
      BY <2>1, <3>1 DEF HandlerOK
    <3>3. Earned(r, Op(r))'
      <4>1. call[r].code \in Requests /\ r \in accepted'[call[r].code]
        BY <2>2, <2>16, <3>1, <3>2 DEF SpendCode, CodeRow, IInv, TypeOK
      <4>2. BornFor(call[r].code, Purpose(r))
        BY <3>1, <3>2 DEF IInv, CodesKeepToPurposes
      <4>3. PICK p \in Purposes : call[r].code \in delivered[p]
        BY <3>2, <4>1, ConstantsAssumption DEF IInv, CodesKeepToPurposes
      <4>4. p = Purpose(r)
        BY <4>2, <4>3 DEF IInv, CodesKeepToPurposes, BornFor
      <4>5. delivered' = delivered
        BY <2>16 DEF SpendCode
      <4> QED
        BY <3>1, <3>2, <4>1, <4>3, <4>4, <4>5 DEF Earned, LetIn, Purpose
    <3> QED
      BY <3>1, <3>2, <3>3 DEF HandlerOK
  <2>17. CASE FindUser(r)
    <3>1. call'[r] = call[r] /\ pc[r] = "user" /\ call[r] # None
      BY <2>1, <2>17 DEF FindUser, HandlerOK
    <3>2. \/ call[r].op = "sign-in-verify" /\ pc'[r] \in {"write", "session"}
          \/ call[r].op = "verify-email" /\ pc'[r] = "mark"
          \/ call[r].op = "reset-password" /\ pc'[r] = "account"
          \/ pc'[r] = "done"
      BY <2>2, <2>17 DEF FindUser
    <3>3. Earned(r, Op(r))'
      BY <2>1, <2>3, <3>1 DEF HandlerOK
    <3> QED
      BY <3>1, <3>2, <3>3 DEF HandlerOK
  <2>18. CASE CreateUser(r)
    <3>1. /\ call'[r] = call[r] /\ pc[r] = "write" /\ call[r] # None
          /\ call[r].op = "sign-in-verify" /\ pc'[r] \in {"session", "done"}
      BY <2>1, <2>2, <2>18 DEF CreateUser, HandlerOK
    <3>2. Earned(r, Op(r))'
      BY <2>1, <2>3, <3>1 DEF HandlerOK, Accepting
    <3> QED
      BY <3>1, <3>2 DEF HandlerOK
  <2>19. CASE CreateSession(r)
    BY <2>1, <2>2, <2>19, SMT DEF HandlerOK, CreateSession
  <2>20. CASE MarkVerified(r)
    BY <2>1, <2>2, <2>20, SMT DEF HandlerOK, MarkVerified
  <2>21. CASE FindAccount(r)
    <3>1. /\ call'[r] = call[r] /\ pc[r] = "account" /\ call[r] # None
          /\ call[r].op = "reset-password" /\ pc'[r] = "write"
      BY <2>1, <2>2, <2>21 DEF FindAccount, HandlerOK
    <3>2. Earned(r, Op(r))'
      BY <2>1, <2>3, <3>1 DEF HandlerOK, Accepting
    <3>3. seen'[r] \in Requests \cup {"initial", None}
      BY <2>21 DEF FindAccount, IInv, TypeOK
    <3> QED
      BY <3>1, <3>2, <3>3 DEF HandlerOK
  <2>22. CASE WritePassword(r)
    <3>1. /\ call'[r] = call[r] /\ pc[r] = "write" /\ call[r] # None
          /\ call[r].op = "reset-password" /\ pc'[r] \in {"mark", "done"}
      BY <2>1, <2>2, <2>22 DEF WritePassword, HandlerOK
    <3>2. Earned(r, Op(r))'
      BY <2>1, <2>3, <3>1 DEF HandlerOK, Accepting
    <3> QED
      BY <3>1, <3>2 DEF HandlerOK
  <2> QED
    BY <2>4, <2>5, <2>6, <2>7, <2>8, <2>9, <2>10, <2>11, <2>12, <2>13, <2>14, <2>15, <2>16, <2>17, <2>18, <2>19, <2>20, <2>21, <2>22 DEF Handle
<1> QED
  BY <1>1, <1>2 DEF HandlersOK

\* Whatever happens to the address was earned.
LEMMA EffectsStep ==
  ASSUME IInv, NEW r \in Requests, Begin(r) \/ Handle(r)
  PROVE  EffectsOK'
<1> USE DEF At, Goto, server, history
<1>1. \A q \in Requests, op \in Accepting : Earned(q, op) => Earned(q, op)'
  BY EarnedStays
<1>2. HandlerOK(r)
  BY DEF IInv, HandlersOK
<1>3. /\ sessions' = sessions \/ CreateSession(r)
      /\ passwords' = passwords \/ WritePassword(r)
      /\ user' = user \/ CreateUser(r) \/ MarkVerified(r)
  BY Zenon
  DEF Begin, Handle, BeginSend, BeginCheck, Gate, TryReuse, ExtendExpiry, ClearPrior,
    InsertCode, SendLookup, Unsend, Deliver, FindCode, DropCode, BumpAttempts,
    SpendCode, FindUser, FindAccount,
      CreateSession, WritePassword, MarkVerified, CreateUser
<1>4. ASSUME NEW q, q \in sessions'
      PROVE  Earned(q, "sign-in-verify")'
  <2>1. q \in sessions \/ (q = r /\ Earned(r, "sign-in-verify"))
    BY <1>2, <1>3, <1>4 DEF CreateSession, HandlerOK
  <2> QED
    BY <1>1, <2>1 DEF IInv, EffectsOK, TypeOK, Accepting
<1>5. ASSUME NEW i \in DOMAIN passwords', NEW q \in Requests, passwords'[i] = q
      PROVE  Earned(q, "reset-password")'
  <2>1. \/ i \in DOMAIN passwords /\ passwords'[i] = passwords[i]
        \/ WritePassword(r) /\ passwords'[i] = r
    BY <1>3 DEF WritePassword, IInv, TypeOK
  <2>2. Earned(q, "reset-password")
    BY <1>2, <1>5, <2>1 DEF WritePassword, HandlerOK, IInv, EffectsOK
  <2> QED
    BY <1>1, <2>2 DEF Accepting
<1>6. ASSUME user' = "verified"
      PROVE  \E q \in Requests, op \in Accepting : Earned(q, op)'
  <2>1. CASE user' = user
    BY <1>1, <1>6, <2>1 DEF IInv, EffectsOK
  <2>2. CASE CreateUser(r) \/ MarkVerified(r)
    <3>1. pc[r] = "mark" \/ (pc[r] = "write" /\ Op(r) = "sign-in-verify")
      BY <2>2, Zenon DEF CreateUser, MarkVerified
    <3>2. Earned(r, Op(r)) /\ Op(r) \in Accepting
      BY <1>2, <3>1, SMTT(30) DEF HandlerOK, Accepting
    <3> QED
      BY <1>1, <3>2
  <2> QED
    BY <1>3, <2>1, <2>2
<1> QED
  <2>1. (\A q \in sessions : Earned(q, "sign-in-verify"))'
    BY <1>4
  <2>2. (\A i \in DOMAIN passwords :
           passwords[i] \in Requests => Earned(passwords[i], "reset-password"))'
    BY <1>5 DEF Earned, LetIn, Op, Purpose
  <2>3. (user = "verified" => \E q \in Requests, op \in Accepting : Earned(q, op))'
    BY <1>6
  <2> QED
    BY <2>1, <2>2, <2>3 DEF EffectsOK

\* Where handlers are not suspended, only the one that takes the step is
\* running, and what it has copied is what is in the table.
LEMMA CurrentCopy ==
  ASSUME IInv, ~config.suspends, NEW r \in Requests, pc[r] \in {"bump", "spend"},
         NEW c, c = held[r].code
  PROVE  /\ c \in Requests /\ Purpose(r) \in Purposes /\ held[r] # None
         /\ codes[Purpose(r)][c] = held[r] /\ latest[Purpose(r)] = c
         /\ accepted[c] = {} /\ failed[c] = held[r].attempts
         /\ failed[c] \in Nat /\ failed[c] < Allowed
         /\ RowsOf(Purpose(r)) = {c} /\ BornFor(c, Purpose(r))
<1>1. /\ Purpose(r) \in Purposes /\ held[r] # None /\ held[r] \in CodeRow
      /\ ~Exhausted(held[r]) /\ held[r] = codes[Purpose(r)][c]
  BY PurposeType DEF IInv, HandlersOK, HandlerOK, TypeOK, Undisturbed, OneAtATime, CopiesCurrent
<1>2. c \in Requests /\ held[r].attempts \in 0 .. Allowed
  BY <1>1 DEF CodeRow
<1>3. RowsCurrent
  BY DEF IInv, Undisturbed, OneAtATime
<1>4. /\ latest[Purpose(r)] = c /\ accepted[c] = {} /\ failed[c] = held[r].attempts
      /\ RowsOf(Purpose(r)) = {c}
  BY <1>1, <1>2, <1>3 DEF RowsCurrent, RowsOf
<1>5. held[r].attempts \in Nat /\ held[r].attempts < Allowed
  BY <1>1, <1>2, ConstantsAssumption, SMT DEF Exhausted
<1>6. BornFor(c, Purpose(r))
  BY <1>1 DEF IInv, CodesKeepToPurposes
<1> QED
  BY <1>1, <1>2, <1>4, <1>5, <1>6

\* With handlers that are not suspended the table stays in step with what was
\* stored, refused and accepted.
LEMMA UndisturbedStep ==
  ASSUME IInv, ~config.suspends, NEW r \in Requests, Begin(r) \/ Handle(r)
  PROVE  OneAtATime'
<1> USE DEF At, Goto, server, history
<1> DEFINE P == Purpose(r)
           early == {"idle", "gate", "reuse", "clear", "insert"}
<1>1. Alone /\ RowsCurrent /\ NotYetStored /\ CopiesCurrent /\ TypeOK /\ HandlerOK(r)
  BY DEF IInv, Undisturbed, OneAtATime, HandlersOK
<1>2. \A q \in Requests \ {r} : ~Running(q) /\ pc'[q] = pc[q]
  BY OwnStep DEF Scheduled, Running
<1>3. Alone'
  BY <1>2 DEF Alone, Running, InHandler
<1>4. \/ UNCHANGED <<codes, history>>
      \/ DeleteAll(P) /\ pc[r] # "idle" /\ UNCHANGED history
      \/ InsertCode(r) \/ ExtendExpiry(r) \/ BumpAttempts(r) \/ SpendCode(r)
  BY Zenon
  DEF Begin, Handle, BeginSend, BeginCheck, Gate, TryReuse, ClearPrior, SendLookup,
    Unsend, Deliver, FindCode, DropCode, FindUser, CreateUser, CreateSession,
    MarkVerified, FindAccount, WritePassword
<1>5. pc[r] # "idle" => P \in Purposes
  BY PurposeType
<1>6. RowsCurrent'
  <2> SUFFICES ASSUME NEW p \in Purposes, NEW q \in Requests, codes'[p][q] # None
               PROVE  /\ codes'[p][q].code = q /\ latest'[p] = q
                      /\ codes'[p][q].attempts = failed'[q] /\ accepted'[q] = {}
    BY DEF RowsCurrent
  <2>1. codes[p][q] # None => /\ codes[p][q].code = q /\ latest[p] = q /\ BornFor(q, p)
                              /\ codes[p][q].attempts = failed[q] /\ accepted[q] = {}
    BY <1>1 DEF RowsCurrent, IInv, CodesKeepToPurposes
  <2>2. CASE UNCHANGED <<codes, history>>
    BY <2>1, <2>2
  <2>3. CASE DeleteAll(P) /\ pc[r] # "idle" /\ UNCHANGED history
    <3>1. p # P /\ codes'[p] = codes[p]
      BY <1>1, <1>5, <2>3, DeleteFacts
    <3> QED
      BY <2>1, <2>3, <3>1
  <2>4. CASE InsertCode(r)
    <3>1. /\ pc[r] = "insert" /\ RowsOf(P) = {} /\ P \in Purposes
          /\ accepted[r] = {} /\ failed[r] = 0
      BY <1>1, <1>5, <2>4 DEF InsertCode, CopiesCurrent, NotYetStored
    <3>2. /\ codes' = [codes EXCEPT ![P][r] =
                [code |-> r, attempts |-> 0, expiresAt |-> now + CodeTTL]]
          /\ latest' = [latest EXCEPT ![P] = r] /\ accepted' = accepted /\ failed' = failed
      BY <2>4 DEF InsertCode
    <3>3. CASE p = P
      <4>1. q = r /\ codes'[p][q] = [code |-> r, attempts |-> 0, expiresAt |-> now + CodeTTL]
        BY <1>1, <3>1, <3>2, <3>3 DEF TypeOK, RowsOf
      <4> QED
        BY <1>1, <3>1, <3>2, <3>3, <4>1 DEF TypeOK
    <3>4. CASE p # P
      BY <1>1, <2>1, <3>1, <3>2, <3>4 DEF TypeOK
    <3> QED
      BY <3>3, <3>4
  <2>5. CASE ExtendExpiry(r)
    <3>1. /\ codes[p][q] # None /\ codes'[p][q].code = codes[p][q].code
          /\ codes'[p][q].attempts = codes[p][q].attempts
      BY <2>5, ExtendFacts
    <3>2. UNCHANGED history
      BY <2>5 DEF ExtendExpiry
    <3> QED
      BY <2>1, <3>1, <3>2
  <2>6. CASE BumpAttempts(r)
    <3> DEFINE c == held[r].code
    <3>1. /\ RowsOf(P) = {c} /\ BornFor(c, P) /\ P \in Purposes /\ c \in Requests
          /\ failed[c] = held[r].attempts /\ latest[P] = c /\ accepted[c] = {}
      BY <2>6, CurrentCopy DEF BumpAttempts
    <3>2. /\ failed' = [failed EXCEPT ![c] = @ + 1]
          /\ latest' = latest /\ accepted' = accepted
      BY <2>6 DEF BumpAttempts
    <3>3. CASE p = P
      <4>1. codes[p][q] # None /\ q = c
        BY <2>6, <3>1, <3>3, BumpFacts DEF RowsOf
      <4>2. codes'[p][q].code = c /\ codes'[p][q].attempts = held[r].attempts + 1
        BY <2>6, <3>1, <3>3, <4>1, BumpFacts
      <4>3. failed'[q] = held[r].attempts + 1
        BY <1>1, <3>1, <3>2, <4>1 DEF TypeOK
      <4> QED
        BY <3>1, <3>2, <3>3, <4>1, <4>2, <4>3
    <3>4. CASE p # P
      <4>1. codes'[p] = codes[p] /\ q # c
        BY <2>1, <2>6, <3>1, <3>4, BumpFacts DEF BornFor
      <4>2. failed'[q] = failed[q]
        BY <1>1, <3>2, <4>1 DEF TypeOK
      <4> QED
        BY <2>1, <3>2, <4>1, <4>2
    <3> QED
      BY <3>3, <3>4
  <2>7. CASE SpendCode(r)
    <3> DEFINE c == held[r].code
    <3>1. BornFor(c, P) /\ P \in Purposes /\ c \in Requests
      BY <2>7, CurrentCopy DEF SpendCode
    <3>2. /\ accepted' = [accepted EXCEPT ![c] = @ \cup {r}]
          /\ latest' = latest /\ failed' = failed /\ DeleteAll(P)
      BY <2>7 DEF SpendCode
    <3>3. p # P /\ codes'[p] = codes[p]
      BY <1>1, <3>1, <3>2, DeleteFacts
    <3>4. q # c
      BY <2>1, <3>1, <3>3 DEF BornFor
    <3>5. accepted'[q] = accepted[q]
      BY <1>1, <3>2, <3>4 DEF TypeOK
    <3> QED
      BY <2>1, <3>2, <3>3, <3>5
  <2> QED
    BY <1>4, <2>2, <2>3, <2>4, <2>5, <2>6, <2>7
<1>7. NotYetStored'
  <2> SUFFICES ASSUME NEW q \in Requests, pc'[q] \in early
               PROVE  accepted'[q] = {} /\ failed'[q] = 0 /\ \A p \in Purposes : codes'[p][q] = None
    BY DEF NotYetStored
  <2>1. pc[q] \in early /\ (q = r => ~InsertCode(r))
    <3>1. \/ pc[r] \in {"idle", "gate", "reuse", "clear"}
          \/ \E to \in PCs \ early : pc' = [pc EXCEPT ![r] = to]
      <4>1. CASE Begin(r)
        BY <4>1 DEF Begin, BeginSend, BeginCheck, Arrives
      <4>2. CASE Gate(r) \/ TryReuse(r) \/ ClearPrior(r)
        BY <4>2 DEF Gate, TryReuse, ClearPrior
      <4>3. CASE Handle(r) /\ ~(Gate(r) \/ TryReuse(r) \/ ClearPrior(r))
        BY <4>3, SMT DEF PCs, AfterStoring, AfterFind,
        Handle, ExtendExpiry, InsertCode, SendLookup, Unsend, Deliver, FindCode,
          DropCode, BumpAttempts, SpendCode, FindUser, CreateUser, CreateSession,
          MarkVerified, FindAccount, WritePassword
      <4> QED
        BY <4>1, <4>2, <4>3
    <3>2. q = r => pc[r] \in {"idle", "gate", "reuse", "clear"}
      BY <1>1, <3>1 DEF TypeOK
    <3> QED
      BY <1>2, <3>2 DEF InsertCode
  <2>2. accepted[q] = {} /\ failed[q] = 0 /\ \A p \in Purposes : codes[p][q] = None
    BY <1>1, <2>1 DEF NotYetStored
  <2>3. accepted'[q] = accepted[q] /\ failed'[q] = failed[q]
    <3>1. \/ UNCHANGED <<accepted, failed>>
          \/ /\ pc[r] \in {"bump", "spend"}
             /\ accepted' = accepted \/ accepted' = [accepted EXCEPT ![held[r].code] = @ \cup {r}]
             /\ failed' = failed \/ failed' = [failed EXCEPT ![held[r].code] = @ + 1]
      BY <1>4 DEF InsertCode, ExtendExpiry, BumpAttempts, SpendCode
    <3>2. pc[r] \in {"bump", "spend"} => held[r].code # q
      BY <2>2, CurrentCopy
    <3> QED
      BY <1>1, <3>1, <3>2 DEF TypeOK
  <2>4. ASSUME NEW p \in Purposes
        PROVE  codes'[p][q] = None
    <3>1. CASE InsertCode(r)
      BY <1>1, <1>5, <2>1, <2>2, <3>1 DEF InsertCode, TypeOK
    <3>2. CASE ExtendExpiry(r)
      BY <2>2, <3>2, ExtendFacts
    <3>3. CASE BumpAttempts(r)
      BY <2>2, <3>3, BumpFacts
    <3>4. CASE DeleteAll(P) /\ pc[r] # "idle"
      BY <1>1, <1>5, <2>2, <3>4, DeleteFacts
    <3> QED
      BY <1>4, <2>2, <3>1, <3>2, <3>3, <3>4 DEF SpendCode
  <2> QED
    BY <2>2, <2>3, <2>4
<1>8. CopiesCurrent'
  <2> SUFFICES ASSUME NEW q \in Requests, pc'[q] \in {"insert", "bump", "spend"}
               PROVE  /\ pc'[q] = "insert" => RowsOf(Purpose(q))' = {}
                      /\ pc'[q] \in {"bump", "spend"} =>
                           held'[q] = codes'[Purpose(q)'][held'[q].code]
    BY DEF CopiesCurrent
  <2>1. q = r
    BY <1>2 DEF Running, InHandler
  <2>2. ClearPrior(r) \/ FindCode(r)
        \/ \E to \in PCs \ {"insert", "bump", "spend"} : pc' = [pc EXCEPT ![r] = to]
    BY SMT DEF PCs, AfterGate, AfterStoring,
    Begin, Handle, BeginSend, BeginCheck, Gate, TryReuse, ExtendExpiry, InsertCode,
      SendLookup, Unsend, Deliver, DropCode, BumpAttempts, SpendCode, FindUser,
      CreateUser, CreateSession, MarkVerified, FindAccount, WritePassword
  <2>3. CASE ClearPrior(r)
    <3>1. /\ P \in Purposes /\ P' = P /\ DeleteAll(P) /\ pc'[r] = "insert"
      BY <1>1, <1>5, <2>3 DEF ClearPrior, Purpose, TypeOK
    <3>2. \A o \in Requests : codes'[P][o] = None
      BY <1>1, <3>1, DeleteFacts
    <3> QED
      BY <2>1, <3>1, <3>2 DEF RowsOf
  <2>4. CASE FindCode(r)
    <3>1. /\ P \in Purposes /\ P' = P /\ codes' = codes
      BY <1>5, <2>4 DEF FindCode, Purpose
    <3>2. PICK o \in RowsOf(P) : /\ held' = [held EXCEPT ![r] = codes[P][o]]
                                 /\ pc' = [pc EXCEPT ![r] = AfterFind(r, codes[P][o])]
      BY <1>1, <2>1, <2>4 DEF FindCode, TypeOK
    <3>3. o \in Requests /\ codes[P][o] # None /\ held'[r] = codes[P][o]
      BY <1>1, <3>2 DEF RowsOf, TypeOK
    <3>4. codes[P][o].code = o
      BY <1>1, <3>1, <3>3 DEF RowsCurrent
    <3>5. pc'[r] # "insert"
      BY <1>1, <3>2 DEF AfterFind, TypeOK
    <3> QED
      BY <2>1, <3>1, <3>3, <3>4, <3>5
  <2> QED
    BY <1>1, <2>1, <2>2, <2>3, <2>4 DEF TypeOK
<1> QED
  BY <1>3, <1>6, <1>7, <1>8 DEF OneAtATime

\* With handlers that are not suspended, a code lets in one request at the
\* most, and only while it is the newest and has an attempt left; a guess is
\* only compared with it while it has one.
LEMMA SpendingStep ==
  ASSUME IInv, ~config.suspends, NEW r \in Requests, Begin(r) \/ Handle(r)
  PROVE  /\ CodeAcceptedOnce' /\ FailuresBounded'
         /\ \A c, q \in Requests : q \in accepted'[c] \ accepted[c] =>
              latest[Purpose(q)] = c /\ failed[c] < Allowed
         /\ \A c \in Requests : accepted[c] \subseteq accepted'[c] /\ accepted'[c] \subseteq Requests
<1> USE DEF At, Goto, server, history
<1> DEFINE d == held[r].code
<1>1. /\ accepted' = accepted \/ (pc[r] = "spend" /\ accepted' = [accepted EXCEPT ![d] = @ \cup {r}])
      /\ failed' = failed \/ (pc[r] = "bump" /\ failed' = [failed EXCEPT ![d] = @ + 1])
  BY Zenon
  DEF Begin, Handle, BeginSend, BeginCheck, Gate, TryReuse, ExtendExpiry, ClearPrior,
    InsertCode, SendLookup, Unsend, Deliver, FindCode, DropCode, BumpAttempts,
    SpendCode, FindUser, CreateUser, CreateSession, MarkVerified, FindAccount,
    WritePassword
<1>2. pc[r] \in {"bump", "spend"} =>
        /\ d \in Requests /\ latest[Purpose(r)] = d
        /\ accepted[d] = {} /\ failed[d] \in Nat /\ failed[d] < Allowed
  BY CurrentCopy
<1> HIDE DEF d
<1>3. /\ accepted \in [Requests -> SUBSET Requests]
      /\ failed \in [Requests -> 0 .. Cardinality(Requests)]
      /\ CodeAcceptedOnce /\ FailuresBounded
  BY DEF IInv, TypeOK
<1>4. \A c, q \in Requests : q \in accepted'[c] \ accepted[c] =>
        q = r /\ c = d /\ pc[r] = "spend"
  BY <1>1, <1>3
<1>5. CodeAcceptedOnce'
  <2>1. \A c \in Requests : accepted'[c] = accepted[c] \/ accepted'[c] = {r}
    BY <1>1, <1>2, <1>3
  <2> QED
    BY <1>3, <2>1 DEF CodeAcceptedOnce
<1>6. FailuresBounded'
  <2>1. \A c \in Requests : failed[c] <= Allowed
    BY <1>3 DEF FailuresBounded
  <2>2. ASSUME NEW c \in Requests
        PROVE  failed'[c] <= Allowed
    <3>1. failed'[c] = failed[c] \/ (failed'[c] = failed[c] + 1 /\ pc[r] = "bump" /\ c = d)
      BY <1>1, <1>3
    <3> QED
      BY <1>2, <2>1, <3>1, ConstantsAssumption, SMT
  <2> QED
    BY <2>2 DEF FailuresBounded
<1>7. \A c \in Requests : accepted[c] \subseteq accepted'[c] /\ accepted'[c] \subseteq Requests
  BY <1>1, <1>3
<1> QED
  BY <1>2, <1>4, <1>5, <1>6, <1>7

-----------------------------------------------------------------------------
(* The invariant                                                            *)

\* The initial states satisfy the invariant.
THEOREM InitIInv == Init => IInv
<1> SUFFICES ASSUME Init
             PROVE  IInv
  OBVIOUS
<1> USE ConstantsAssumption DEF Init
<1>1. TypeOK
  <2>1. Cardinality(Requests) \in Nat
    BY FS_CardinalityType
  <2>2. failed \in [Requests -> 0 .. Cardinality(Requests)]
    BY <2>1, SMT
  <2> QED
    BY <2>2 DEF TypeOK, PCs
<1>2. CodesKeepToPurposes
  BY DEF CodesKeepToPurposes
<1>3. HandlersOK
  BY DEF HandlersOK, HandlerOK
<1>4. EffectsOK
  BY DEF EffectsOK
<1>5. FailuresCounted
  <2>1. Finished = {}
    BY DEF Finished
  <2> QED
    BY <2>1, FS_EmptySet DEF FailuresCounted
<1>6. Undisturbed
  BY DEF Undisturbed, OneAtATime, Alone, Running, InHandler, RowsCurrent, NotYetStored,
         CopiesCurrent
<1>7. CodeAcceptedOnce /\ FailuresBounded
  BY DEF CodeAcceptedOnce, FailuresBounded
<1> QED
  BY <1>1, <1>2, <1>3, <1>4, <1>5, <1>6, <1>7 DEF IInv

\* Every step keeps the invariant.
THEOREM NextIInv == IInv /\ [Next]_vars => IInv'
<1> SUFFICES ASSUME IInv, [Next]_vars
             PROVE  IInv'
  OBVIOUS
<1>1. ASSUME NEW r \in Requests, Begin(r) \/ Handle(r)
      PROVE  IInv'
  <2>1. TypeOK' /\ FailuresCounted'
    BY <1>1, TypesStep, FailuresStep
  <2>2. CodesKeepToPurposes' /\ HandlersOK' /\ EffectsOK'
    BY <1>1, PurposesStep, HandlersStep, EffectsStep
  <2>3. config' = config
    BY <1>1, OwnStep
  <2>4. CASE config.suspends
    BY <2>1, <2>2, <2>3, <2>4 DEF IInv, Undisturbed, CodeAcceptedOnce, FailuresBounded
  <2>5. CASE ~config.suspends
    BY <1>1, <2>1, <2>2, <2>5, UndisturbedStep, SpendingStep DEF IInv, Undisturbed
  <2> QED
    BY <2>4, <2>5
<1>2. CASE Tick \/ UNCHANGED vars
  <2>1. /\ config' = config /\ codes' = codes /\ user' = user /\ passwords' = passwords
        /\ sessions' = sessions /\ pc' = pc /\ call' = call /\ held' = held /\ seen' = seen
        /\ delivered' = delivered /\ latest' = latest /\ accepted' = accepted
        /\ failed' = failed
    BY <1>2 DEF Tick, vars, server, history
  <2>2. now' \in 0 .. MaxTime
    BY <1>2, ConstantsAssumption, SMT DEF Tick, vars, IInv, TypeOK
  <2>3. TypeOK'
    BY <2>1, <2>2 DEF IInv, TypeOK
  <2>4. CodesKeepToPurposes' /\ EffectsOK'
    BY <2>1 DEF IInv, CodesKeepToPurposes, BornFor, Purpose, EffectsOK, Earned, LetIn, Op
  <2>5. HandlersOK'
    BY <2>1 DEF IInv, HandlersOK, HandlerOK, Purpose, Op, Earned, LetIn, Exhausted
  <2>6. FailuresCounted' /\ CodeAcceptedOnce' /\ FailuresBounded'
    BY <2>1 DEF IInv, FailuresCounted, Finished, CodeAcceptedOnce, FailuresBounded
  <2>7. Undisturbed'
    BY <2>1 DEF IInv, Undisturbed, OneAtATime, Alone, Running, InHandler, RowsCurrent,
                NotYetStored, CopiesCurrent, RowsOf, Purpose
  <2> QED
    BY <2>3, <2>4, <2>5, <2>6, <2>7 DEF IInv
<1> QED
  BY <1>1, <1>2, Steps DEF IInv

\* The invariant holds in every reachable state.
THEOREM Invariance == Spec => []IInv
  BY InitIInv, NextIInv, PTL DEF Spec

-----------------------------------------------------------------------------
(* What follows from it                                                     *)

\* The state keeps its types; no code is refused more often than there are
\* requests.
THEOREM TypeCorrect == Spec => []TypeOK
<1>1. IInv => TypeOK
  BY DEF IInv
<1> QED
  BY <1>1, Invariance, PTL

\* Over any database and with any interleaving, a session, a password and a
\* verified address go back to a code that was mailed for that very purpose;
\* where handlers are not suspended a code lets one request in, survives
\* allowed_attempts guesses, and never works again once it was replaced or
\* locked out.
THEOREM CodesDie == Spec => CodesDieForGood
<1>1. IInv => CodesAreSpent
  <2> SUFFICES ASSUME IInv
               PROVE  EffectsWereEarned /\ CodeAcceptedOnce /\ FailuresBounded
    BY DEF CodesAreSpent
  <2>1. EffectsOK /\ CodeAcceptedOnce /\ FailuresBounded
    BY DEF IInv
  <2>2. Accepting = Checks \ {"check"}
    BY DEF Accepting, Checks
  <2>3. EffectsWereEarned
    BY <2>1, <2>2 DEF EffectsOK, EffectsWereEarned, Earned
  <2> QED
    BY <2>1, <2>3
<1>2. ASSUME IInv, Next, ~config.suspends
      PROVE  \A c, r \in Requests : r \in accepted'[c] \ accepted[c] =>
               latest[Purpose(r)] = c /\ failed[c] < Allowed
  <2>1. CASE Tick
    BY <2>1 DEF Tick, history
  <2>2. ASSUME NEW q \in Requests, Begin(q) \/ Handle(q)
        PROVE  \A c, r \in Requests : r \in accepted'[c] \ accepted[c] =>
                 latest[Purpose(r)] = c /\ failed[c] < Allowed
    BY <1>2, <2>2, SpendingStep
  <2> QED
    BY <1>2, <2>1, <2>2, Steps DEF IInv
<1>3. ASSUME IInv, Next, ~config.suspends, NEW c \in Requests, failed[c] >= Allowed
      PROVE  accepted'[c] = accepted[c]
  <2>1. CASE Tick
    BY <2>1 DEF Tick, history
  <2>2. ASSUME NEW q \in Requests, Begin(q) \/ Handle(q)
        PROVE  accepted'[c] = accepted[c]
    <3>1. accepted[c] \subseteq accepted'[c] /\ accepted'[c] \subseteq Requests
      BY <1>3, <2>2, SpendingStep
    <3>2. \A r \in Requests : r \in accepted'[c] \ accepted[c] => failed[c] < Allowed
      BY <1>2, <1>3
    <3>3. ~(failed[c] < Allowed)
      BY <1>3, ConstantsAssumption, SMT DEF IInv, TypeOK
    <3> QED
      BY <3>1, <3>2, <3>3
  <2> QED
    BY <1>3, <2>1, <2>2, Steps DEF IInv
<1>4. IInv /\ [Next]_vars =>
        [\A c, r \in Requests :
           r \in accepted'[c] \ accepted[c] /\ ~config.suspends =>
             latest[Purpose(r)] = c]_vars
  BY <1>2
<1>5. IInv /\ [Next]_vars =>
        [\A c \in Requests :
           failed[c] >= Allowed /\ ~config.suspends => accepted'[c] = accepted[c]]_vars
  BY <1>3
<1> QED
  BY <1>1, <1>4, <1>5, Invariance, PTL
  DEF Spec, CodesDieForGood, StaleCodesStayDead, NewestCodeOnly, LockedOutForGood
===============================================================================
