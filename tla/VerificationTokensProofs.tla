----------------------- MODULE VerificationTokensProofs -----------------------
(***************************************************************************)
(* Proofs about VerificationTokens, for every number of tokens, requests   *)
(* and accounts in every configuration.                                    *)
(***************************************************************************)
EXTENDS VerificationTokens, TLAPS

-----------------------------------------------------------------------------
(* The inductive invariant                                                  *)

Holding == {"check", "lookup", "write", "session"}

\* Request r took the row of its token out of the table.
Won(r) ==
  \/ pc[r] \in Holding
  \/ pc[r] = "done" /\ claim[r] # NoRow

\* What a row is about fits its kind.
RowOK(row) ==
  IF row.kind = "one-time-token" THEN row.about \in Session
                                 ELSE row.about \in Emails

RowsOK ==
  /\ \A t \in Tokens : rows[t] # NoRow => RowOK(rows[t]) /\ t \in minted
  /\ \A r \in Requests : claim[r] # NoRow => RowOK(claim[r])

\* A request knows its endpoint, its token and, once it read one, its row.
CallsOK ==
  \A r \in Requests :
    /\ pc[r] # "idle" => call[r] \in Call /\ Endpoint(r) \in Endpoints
    /\ pc[r] \in {"idle", "consume"} => claim[r] = NoRow
    /\ pc[r] \in Holding \cup {"delete"} => claim[r] # NoRow
    /\ pc[r] \in {"lookup", "write", "session"} => claim[r].kind = Endpoint(r)

\* A consumption that is not split finds its row still there when it deletes.
DeletesWhatItFound ==
  \A r \in Requests :
    pc[r] = "delete" =>
      /\ ReadsThenDeletes(Endpoint(r))
      /\ Token(r) \in minted
      /\ ~Suspends => rows[Token(r)] # NoRow

Alone ==
  ~Suspends => \A r, q \in Requests : InHandler(r) /\ InHandler(q) => r = q

WonIsGone ==
  \A r \in Requests : Won(r) => Token(r) \in minted /\ rows[Token(r)] = NoRow

WonOnce ==
  \A r, q \in Requests :
    Won(r) /\ Won(q) /\ Token(r) = Token(q) /\ r # q =>
      Splits(Endpoint(r)) \/ Splits(Endpoint(q))

RedeemersWon ==
  \A t \in Tokens : \A r \in redeemers[t] : Won(r) /\ Token(r) = t

IInv == /\ TypeOK /\ RowsOK /\ CallsOK
        /\ DeletesWhatItFound /\ Alone /\ WonIsGone /\ WonOnce /\ RedeemersWon

-----------------------------------------------------------------------------
\* No action changes the configuration.
LEMMA ConfigIsFixed ==
  ASSUME Next
  PROVE  config' = config
BY DEF Next, Handle, HandOut, Tick, Mint, SendVerificationEmail, ForgetPassword,
       SignInMagicLink, GenerateOneTimeToken, Consume, Delete, Check,
       VerifyEmailLookup, VerifyEmailUpdate, ResetPasswordUpdate, MagicLinkLookup,
       MagicLinkWriteUser, MagicLinkCreateSession, OneTimeTokenLookup,
       OneTimeTokenHandOver, Begin, RevokeSession

\* The initial states satisfy the invariant.
THEOREM InitIInv == Init => IInv
  BY ConstantsAssumption, NoRowAssumption
  DEF Init, IInv, TypeOK, RowsOK, CallsOK, DeletesWhatItFound, Alone, WonIsGone, WonOnce,
      RedeemersWon, InHandler, Won, Holding, PCs

\* A request that holds its claim and goes on, to its next adapter call or to
\* its answer, keeps everything the invariant says beyond the types.
LEMMA HolderGoesOn ==
  ASSUME IInv, TypeOK', config' = config,
         NEW r \in Requests, pc[r] \in Holding, Scheduled(r),
         \E to \in Holding \cup {"done"} :
           /\ Goto(r, to)
           /\ to \in {"lookup", "write", "session"} => claim[r].kind = Endpoint(r),
         UNCHANGED <<rows, minted, call, claim>>,
         UNCHANGED redeemers \/ Redeem(r)
  PROVE  IInv'
<1> PICK to \in Holding \cup {"done"} :
      /\ Goto(r, to)
      /\ to \in {"lookup", "write", "session"} => claim[r].kind = Endpoint(r)
  OBVIOUS
<1> USE DEF IInv, TypeOK, Goto, Holding, PCs, Endpoint, Token
<1>1. \A q \in Requests : Won(q)' <=> Won(q)
  BY SMT DEF CallsOK, Won
<1>2. \A q \in Requests : InHandler(q)' => InHandler(q)
  BY SMT DEF InHandler
<1>3. RowsOK' /\ Alone' /\ DeletesWhatItFound'
  BY <1>2, SMT DEF RowsOK, RowOK, Alone, DeletesWhatItFound, Suspends,
                   ReadsThenDeletes
<1>4. CallsOK'
  BY SMT DEF CallsOK, Endpoints
<1>5. WonIsGone' /\ WonOnce'
  BY <1>1, SMT DEF WonIsGone, WonOnce, Splits, Suspends, ReadsThenDeletes
<1>6. RedeemersWon'
  <2>1. Won(r) /\ Token(r) \in Tokens
    BY SMT DEF Won, CallsOK, Call
  <2> QED BY <1>1, <2>1, SMT DEF RedeemersWon, Redeem
<1> QED BY <1>3, <1>4, <1>5, <1>6

\* The part of a handler that follows the consumption.
HolderStep(r) ==
  \/ Check(r)
  \/ VerifyEmailLookup(r) \/ VerifyEmailUpdate(r)
  \/ ResetPasswordUpdate(r)
  \/ MagicLinkLookup(r) \/ MagicLinkWriteUser(r) \/ MagicLinkCreateSession(r)
  \/ OneTimeTokenLookup(r) \/ OneTimeTokenHandOver(r)

\* What a claim is about has the type its endpoint needs, so the handler that
\* acts on it writes accounts and sessions of the right type.
LEMMA HolderTypes ==
  ASSUME IInv, config' = config, NEW r \in Requests, HolderStep(r)
  PROVE  TypeOK'
<1> USE DEF IInv, TypeOK, At, Goto, server, Endpoint, PCs
<1>1. call[r] \in Call \/ pc[r] = "idle"
  BY SMT DEF CallsOK
<1>2. ASSUME pc[r] \in {"write", "session"}
      PROVE  /\ Endpoint(r) # "one-time-token" => About(r) \in Emails
             /\ Token(r) \in Tokens
  BY <1>1, <1>2, SMT DEF CallsOK, RowsOK, RowOK, About, Holding, Token, Call
<1>3. CASE Check(r)
  BY <1>3, SMT DEF Check
<1>4. CASE VerifyEmailLookup(r)
  BY <1>4, SMT DEF VerifyEmailLookup
<1>5. CASE VerifyEmailUpdate(r)
  BY <1>2, <1>5, SMT DEF VerifyEmailUpdate, Redeem
<1>6. CASE ResetPasswordUpdate(r)
  BY <1>2, <1>6, SMT DEF ResetPasswordUpdate, Redeem
<1>7. CASE MagicLinkLookup(r)
  <2>1. About(r) \in Emails
    BY <1>1, <1>7, SMT DEF MagicLinkLookup, CallsOK, RowsOK, RowOK, About, Holding
  <2> QED BY <1>7, <2>1, SMT DEF MagicLinkLookup
<1>8. CASE MagicLinkWriteUser(r)
  BY <1>2, <1>8, SMT DEF MagicLinkWriteUser
<1>9. CASE MagicLinkCreateSession(r)
  <2>1. [by |-> r, email |-> About(r), expiresAt |-> now + SessionTTL] \in Session
    BY <1>2, <1>9, ConstantsAssumption, SMT DEF MagicLinkCreateSession, Session
  <2> QED BY <1>2, <1>9, <2>1, SMT DEF MagicLinkCreateSession, Redeem
<1>10. CASE OneTimeTokenLookup(r)
  BY <1>10, SMT DEF OneTimeTokenLookup
<1>11. CASE OneTimeTokenHandOver(r)
  BY <1>2, <1>11, SMT DEF OneTimeTokenHandOver, Redeem
<1> QED BY <1>3, <1>4, <1>5, <1>6, <1>7, <1>8, <1>9, <1>10, <1>11 DEF HolderStep

LEMMA HolderKeepsIInv ==
  ASSUME IInv, config' = config, NEW r \in Requests, HolderStep(r)
  PROVE  IInv'
<1>1. TypeOK'
  BY HolderTypes
<1>2. /\ pc[r] \in Holding
      /\ Scheduled(r)
      /\ UNCHANGED <<rows, minted, call, claim>>
      /\ UNCHANGED redeemers \/ Redeem(r)
  BY SMT DEF HolderStep, At, Holding, server, Check,
         VerifyEmailLookup,
         VerifyEmailUpdate,
         ResetPasswordUpdate,
         MagicLinkLookup,
         MagicLinkWriteUser,
         MagicLinkCreateSession,
         OneTimeTokenLookup,
         OneTimeTokenHandOver
<1>3. \E to \in Holding \cup {"done"} :
        /\ Goto(r, to)
        /\ to \in {"lookup", "write", "session"} => claim[r].kind = Endpoint(r)
  <2>1. pc[r] \in {"lookup", "write", "session"} => claim[r].kind = Endpoint(r)
    BY DEF IInv, CallsOK
  <2> QED
    BY <2>1, SMT DEF HolderStep, At, Holding, Rejected, Check,
         VerifyEmailLookup,
         VerifyEmailUpdate,
         ResetPasswordUpdate,
         MagicLinkLookup,
         MagicLinkWriteUser,
         MagicLinkCreateSession,
         OneTimeTokenLookup,
         OneTimeTokenHandOver
<1> QED BY <1>1, <1>2, <1>3, HolderGoesOn

\* A step of the specification keeps the invariant: one step of the proof per
\* action.  A request that wins in one step finds the row, so nobody has won it
\* before (WonIsGone); one that wins with Delete either was alone since it read
\* the row, or splits its consumption.
THEOREM NextIInv ==
  ASSUME IInv, [Next]_vars
  PROVE  IInv'
<1> USE ConstantsAssumption, NoRowAssumption
    DEF IInv, TypeOK, RowsOK, RowOK, CallsOK, DeletesWhatItFound, Alone, WonIsGone,
        WonOnce, RedeemersWon, Won, Holding, InHandler, PCs, Row, Session, Call,
        AllKinds, Endpoint, Token, About, At, Goto, Scheduled, Quiet, server,
        Suspends, Endpoints, Splits, ReadsThenDeletes, Config
<1>0. CASE UNCHANGED vars
  BY <1>0, SMT DEF vars
<1> SUFFICES ASSUME Next PROVE IInv'
  BY <1>0
<1> config' = config
  BY ConfigIsFixed
<1>1. CASE Tick
  BY <1>1, SMT DEF Tick
<1>2. ASSUME NEW t \in Tokens, NEW kind \in AllKinds, NEW about,
             RowOK([kind |-> kind, about |-> about, expiresAt |-> now + TokenTTL]),
             Mint(t, kind, about)
      PROVE  IInv'
  BY <1>2, SMT DEF Mint
<1>3. ASSUME NEW t \in Tokens, HandOut(t)
      PROVE  IInv'
  <2>1. CASE \E e \in Emails : SendVerificationEmail(t, e)
    BY <2>1, <1>2 DEF SendVerificationEmail
  <2>2. CASE \E e \in Emails : ForgetPassword(t, e)
    BY <2>2, <1>2 DEF ForgetPassword
  <2>3. CASE \E e \in Emails : SignInMagicLink(t, e)
    BY <2>3, <1>2 DEF SignInMagicLink
  <2>4. CASE \E s \in sessions : GenerateOneTimeToken(t, s)
    BY <2>4, <1>2 DEF GenerateOneTimeToken
  <2> QED BY <1>3, <2>1, <2>2, <2>3, <2>4 DEF HandOut
<1>4. ASSUME NEW r \in Requests, NEW e \in AllKinds, NEW t \in Tokens,
             Begin(r, e, t)
      PROVE  IInv'
  BY <1>4, SMT DEF Begin
<1>5. ASSUME NEW r \in Requests, Consume(r)
      PROVE  IInv'
  <2> USE <1>5 DEF Consume
  <2>1. CASE Found(r) = NoRow
    <3>1. /\ pc' = [pc EXCEPT ![r] = "done"]
          /\ claim' = claim
      BY <2>1, SMT
    <3>2. TypeOK' /\ RowsOK'
      <4> HIDE DEF Row, Session, Call
      <4> QED BY <2>1, <3>1, SMT
    <3>3. CallsOK' /\ Alone' /\ DeletesWhatItFound'
      BY <2>1, <3>1, SMT
    <3>4. WonIsGone' /\ WonOnce' /\ RedeemersWon'
      BY <2>1, <3>1, SMT
    <3> QED BY <3>2, <3>3, <3>4
  <2>2. CASE Found(r) # NoRow /\ ReadsThenDeletes(Endpoint(r))
    <3>1. Found(r) = rows[Token(r)]
      BY <2>2 DEF Found
    <3>2. /\ Token(r) \in Tokens
          /\ rows[Token(r)] \in Row
          /\ claim' = [claim EXCEPT ![r] = rows[Token(r)]]
      BY <2>2, <3>1, SMT
    <3>3. TypeOK'
      <4> HIDE DEF Row, Session, Call
      <4> QED BY <2>2, <3>2, SMT
    <3>4. RowsOK'
      BY <2>2, <3>1, <3>2, SMT
    <3>5. CallsOK' /\ Alone'
      BY <2>2, <3>1, <3>2, SMT
    <3>6. DeletesWhatItFound'
      BY <2>2, <3>1, <3>2, SMT
    <3>7. WonIsGone' /\ WonOnce' /\ RedeemersWon'
      BY <2>2, <3>1, <3>2, SMT
    <3> QED BY <3>3, <3>4, <3>5, <3>6, <3>7
  <2>3. CASE Found(r) # NoRow /\ ~ReadsThenDeletes(Endpoint(r))
    <3>1. Found(r) = rows[Token(r)]
      BY <2>3 DEF Found
    <3>2. /\ Token(r) \in Tokens
          /\ rows[Token(r)] \in Row
          /\ claim' = [claim EXCEPT ![r] = rows[Token(r)]]
      BY <2>3, <3>1, SMT
    <3>6. TypeOK'
      <4> HIDE DEF Row, Session, Call
      <4> QED BY <2>3, <3>2, SMTT(30)
    <3>7. RowsOK'
      BY <2>3, <3>1, <3>2, SMT
    <3>8. CallsOK' /\ Alone'
      BY <2>3, <3>1, <3>2, SMT
    <3>3. \A q \in Requests : Won(q) => Token(q) # Token(r)
      BY <2>3, <3>1, SMT
    <3>4. WonIsGone' /\ WonOnce' /\ RedeemersWon'
      BY <2>3, <3>1, <3>3, SMT
    <3>5. DeletesWhatItFound'
      BY <2>3, <3>1, SMT
    <3> QED BY <3>4, <3>5, <3>6, <3>7, <3>8
  <2> QED BY <2>1, <2>2, <2>3
<1>6. ASSUME NEW r \in Requests, Delete(r)
      PROVE  IInv'
  BY <1>6, SMT DEF Delete
<1>7. ASSUME NEW r \in Requests, HolderStep(r)
      PROVE  IInv'
  <2> HIDE DEF IInv
  <2> QED BY <1>7, HolderKeepsIInv
<1>8. ASSUME NEW s \in sessions, RevokeSession(s)
      PROVE  IInv'
  BY <1>8, SMT DEF RevokeSession
<1> HIDE DEF IInv
<1> QED
  BY <1>1, <1>3, <1>4, <1>5, <1>6, <1>7, <1>8
  DEF Next, Handle, HolderStep

THEOREM Invariance == Spec => []IInv
<1>1. IInv /\ [Next]_vars => IInv'
  BY NextIInv
<1> QED BY <1>1, InitIInv, PTL DEF Spec

\* Every variable keeps its type.
THEOREM TypeCorrect == Spec => []TypeOK
<1>1. IInv => TypeOK
  BY DEF IInv
<1> QED BY <1>1, Invariance, PTL

\* A token acts at most once, whatever the number of requests that present it
\* and however they interleave, wherever consumption is not split.
THEOREM AtMostOnce == Spec => []RedeemedAtMostOnce
<1>1. IInv => RedeemedAtMostOnce
  BY DEF IInv, TypeOK, RedeemersWon, WonOnce, RedeemedAtMostOnce
<1> QED BY <1>1, Invariance, PTL

-----------------------------------------------------------------------------
\* What was granted stays granted: a request reads one row, once.
LEMMA GrantsStay ==
  ASSUME IInv, Next, NEW r \in Requests, NEW k, NEW a, Granted(r, k, a)
  PROVE  Granted(r, k, a)'
<1>1. claim[r] # NoRow /\ pc[r] # "consume"
  BY DEF Granted, IInv, CallsOK
<1>2. claim'[r] = claim[r]
  <2>1. ASSUME NEW q \in Requests, Consume(q)
        PROVE  claim'[r] = claim[r]
    BY <1>1, <2>1 DEF Consume, At, IInv, TypeOK
  <2>2. CASE UNCHANGED claim
    BY <2>2
  <2> QED
    BY <2>1, <2>2
    DEF Next, Handle, HandOut, Tick, Mint, SendVerificationEmail, ForgetPassword,
        SignInMagicLink, GenerateOneTimeToken, Delete, Check, VerifyEmailLookup,
        VerifyEmailUpdate, ResetPasswordUpdate, MagicLinkLookup, MagicLinkWriteUser,
        MagicLinkCreateSession, OneTimeTokenLookup, OneTimeTokenHandOver, Begin,
        RevokeSession
<1> QED BY <1>2 DEF Granted

\* A handler about to act holds a row of its own kind.
LEMMA ActsOnItsGrant ==
  ASSUME IInv, NEW r \in Requests, pc[r] \in {"lookup", "write", "session"}
  PROVE  Granted(r, Endpoint(r), About(r))
  BY DEF IInv, CallsOK, Granted, About, Holding

\* Every account change and every session goes back to a token of the right
\* kind for that very account.
THEOREM EffectsGranted == Spec => []EffectsWereGranted
<1>1. Init => EffectsWereGranted
  BY InitialPasswordAssumption DEF Init, EffectsWereGranted
<1>2. ASSUME IInv, EffectsWereGranted, Next
      PROVE  EffectsWereGranted'
  <2> USE <1>2 DEF EffectsWereGranted
  <2>0. TypeOK /\ sessions \subseteq Session
    BY DEF IInv, TypeOK
  <2>1. ASSUME NEW r \in Requests, VerifyEmailUpdate(r)
        PROVE  EffectsWereGranted'
    <3>1. Granted(r, "verify-email", About(r))
      BY <2>1, ActsOnItsGrant DEF VerifyEmailUpdate, At
    <3> QED
      BY <2>0, <2>1, <3>1, GrantsStay DEF VerifyEmailUpdate, TypeOK, Session
  <2>2. ASSUME NEW r \in Requests, ResetPasswordUpdate(r)
        PROVE  EffectsWereGranted'
    <3>1. Granted(r, "reset", About(r))
      BY <2>2, ActsOnItsGrant DEF ResetPasswordUpdate, At
    <3> QED
      BY <2>0, <2>2, <3>1, GrantsStay DEF ResetPasswordUpdate, TypeOK, Session
  <2>3. ASSUME NEW r \in Requests, MagicLinkWriteUser(r)
        PROVE  EffectsWereGranted'
    <3>1. Granted(r, "magic-link", About(r))
      BY <2>3, ActsOnItsGrant DEF MagicLinkWriteUser, At
    <3> QED
      BY <2>0, <2>3, <3>1, GrantsStay DEF MagicLinkWriteUser, TypeOK, Session
  <2>4. ASSUME NEW r \in Requests, MagicLinkCreateSession(r)
        PROVE  EffectsWereGranted'
    <3>1. Granted(r, "magic-link", About(r))
      BY <2>4, ActsOnItsGrant DEF MagicLinkCreateSession, At
    <3> QED
      BY <2>0, <2>4, <3>1, GrantsStay DEF MagicLinkCreateSession, TypeOK, Session
  <2>5. CASE UNCHANGED <<users, password>> /\ sessions' \subseteq sessions
    BY <2>0, <2>5, GrantsStay DEF TypeOK, Session
  <2> QED
    BY <2>1, <2>2, <2>3, <2>4, <2>5
    DEF Next, Handle, HandOut, Tick, Mint, SendVerificationEmail, ForgetPassword,
        SignInMagicLink, GenerateOneTimeToken, Consume, Delete, Check,
        VerifyEmailLookup, MagicLinkLookup, OneTimeTokenLookup, OneTimeTokenHandOver,
        Begin, RevokeSession, server
<1>3. EffectsWereGranted /\ UNCHANGED vars => EffectsWereGranted'
  BY DEF EffectsWereGranted, Granted, vars
<1> QED BY <1>1, <1>2, <1>3, Invariance, PTL DEF Spec

-----------------------------------------------------------------------------
(* VerificationTokens implements SingleUse                                  *)

Unsplit == \A e \in Endpoints : ~Splits(e)

\* The abstract holder of a token is the one request that has claimed it.
HolderIsClaimant ==
  \A t \in Tokens :
    /\ \A r \in Requests : Claims(r, t) => holder[t] = r
    /\ (\A r \in Requests : ~Claims(r, t)) => holder[t] = NoRequest

\* Two requests claim one token only if one of them split its consumption.
LEMMA OneClaimant == IInv /\ Unsplit => HolderIsClaimant
<1> SUFFICES ASSUME IInv, Unsplit, NEW t \in Tokens
             PROVE  /\ \A r \in Requests : Claims(r, t) => holder[t] = r
                    /\ (\A r \in Requests : ~Claims(r, t)) => holder[t] = NoRequest
  BY DEF HolderIsClaimant
<1>1. \A r, q \in Requests : Claims(r, t) /\ Claims(q, t) => r = q
  BY DEF IInv, CallsOK, WonOnce, Won, Holding, Claims, Unsplit
<1>2. ASSUME NEW r \in Requests, Claims(r, t)
      PROVE  holder[t] = r
  BY <1>1, <1>2, Zenon DEF holder
<1> QED BY <1>2 DEF holder

\* A token whose claimants are the same before and after has the same holder.
LEMMA HolderStays ==
  ASSUME HolderIsClaimant, HolderIsClaimant', NEW t \in Tokens,
         \A r \in Requests : Claims(r, t)' <=> Claims(r, t)
  PROVE  holder'[t] = holder[t]
<1>1. CASE \E r \in Requests : Claims(r, t)
  BY <1>1 DEF HolderIsClaimant
<1>2. CASE \A r \in Requests : ~Claims(r, t)
  BY <1>2 DEF HolderIsClaimant, NoRequest
<1> QED BY <1>1, <1>2

\* A step that changes no row, no claim and no redeemer is a stutter.
LEMMA StepStutters ==
  ASSUME HolderIsClaimant, HolderIsClaimant',
         \A t \in Tokens : \A r \in Requests : Claims(r, t)' <=> Claims(r, t),
         UNCHANGED <<rows, minted, redeemers>>
  PROVE  UNCHANGED <<phase, holder, redeemers>>
<1>1. \A t \in Tokens : holder'[t] = holder[t]
  BY HolderStays
<1>2. holder' = holder
  BY <1>1 DEF holder
<1>3. phase' = phase
  BY <1>1 DEF phase, NoRequest
<1> QED BY <1>2, <1>3

\* Handing a token out issues it.
LEMMA MintIssues ==
  ASSUME IInv, HolderIsClaimant, HolderIsClaimant', NEW t \in Tokens,
         NEW kind \in AllKinds, NEW about \in Emails \cup Session, Mint(t, kind, about)
  PROVE  SingleUseTokens!Issue(t)
<1>1. \A u \in Tokens : holder'[u] = holder[u]
  BY HolderStays DEF Mint, Claims, Token
<1>2. holder' = holder
  BY <1>1 DEF holder
<1>3. rows'[t] # NoRow
  <2>1. rows'[t] = [kind |-> kind, about |-> about, expiresAt |-> now + TokenTTL]
    BY DEF Mint, IInv, TypeOK
  <2>2. rows'[t] \in Row
    BY <2>1, ConstantsAssumption DEF IInv, TypeOK, Row
  <2> QED BY <2>2, NoRowAssumption
<1>4. \A u \in Tokens : u # t => phase'[u] = phase[u]
  BY <1>1 DEF phase, Mint, IInv, TypeOK, NoRequest
<1>5. phase[t] = "unissued" /\ phase'[t] = "live"
  BY <1>3 DEF phase, Mint
<1>6. phase' = [phase EXCEPT ![t] = "live"]
  BY <1>4, <1>5 DEF phase
<1> QED BY <1>2, <1>5, <1>6 DEF SingleUseTokens!Issue, Mint

\* Taking the row of a token out of the table claims it.
LEMMA WinningClaims ==
  ASSUME IInv, HolderIsClaimant, HolderIsClaimant', NEW r \in Requests,
         Token(r) \in minted \cap Tokens, rows[Token(r)] # NoRow,
         rows' = [rows EXCEPT ![Token(r)] = NoRow],
         Goto(r, "check"), UNCHANGED <<minted, call, redeemers>>
  PROVE  SingleUseTokens!Claim(Token(r), r)
<1> DEFINE t == Token(r)
<1>1. ASSUME NEW u \in Tokens, u # t
      PROVE  holder'[u] = holder[u]
  BY <1>1, HolderStays DEF Goto, Claims, Token, IInv, TypeOK
<1>2. holder'[t] = r
  BY DEF HolderIsClaimant, Claims, Goto, Token, IInv, TypeOK
<1>3. r # NoRow
  BY NoRowAssumption
<1>4. phase[t] = "live" /\ phase'[t] = "claimed"
  BY <1>2, <1>3 DEF phase, NoRequest, IInv, TypeOK
<1>5. \A u \in Tokens : u # t => phase'[u] = phase[u]
  BY <1>1 DEF phase, NoRequest, IInv, TypeOK
<1>6. phase' = [phase EXCEPT ![t] = "claimed"]
  BY <1>4, <1>5 DEF phase
<1>7. holder' = [holder EXCEPT ![t] = r]
  BY <1>1, <1>2 DEF holder
<1> QED BY <1>4, <1>6, <1>7 DEF SingleUseTokens!Claim

\* A request that holds its claim stutters as it goes on, and redeems or
\* abandons the token as it is answered.
LEMMA HolderFollows ==
  ASSUME IInv, HolderIsClaimant, HolderIsClaimant', NEW r \in Requests, pc[r] \in Holding,
         UNCHANGED <<rows, minted, call>>,
         \/ \E to \in Holding : Goto(r, to) /\ UNCHANGED redeemers
         \/ Goto(r, "done") /\ (UNCHANGED redeemers \/ Redeem(r))
  PROVE  \/ UNCHANGED <<phase, holder, redeemers>>
         \/ SingleUseTokens!Redeem(Token(r), r)
         \/ SingleUseTokens!Abandon(Token(r), r)
<1>1. CASE \E to \in Holding : Goto(r, to) /\ UNCHANGED redeemers
  BY <1>1, StepStutters DEF Goto, Claims, Token, Holding, IInv, TypeOK
<1>2. CASE Goto(r, "done") /\ (UNCHANGED redeemers \/ Redeem(r))
  <2> DEFINE t == Token(r)
  <2>1. t \in Tokens /\ t \in minted /\ rows[t] = NoRow
    BY DEF IInv, CallsOK, Call, WonIsGone, Won, Holding, Token
  <2>2. Claims(r, t) /\ holder[t] = r
    BY <2>1 DEF Claims, Holding, HolderIsClaimant
  <2>3. ASSUME NEW q \in Requests
        PROVE  ~Claims(q, t)'
    BY <1>2, <2>1, <2>2, <2>3 DEF Claims, Goto, Token, HolderIsClaimant, IInv, TypeOK
  <2>4. holder'[t] = NoRow
    BY <2>1, <2>3 DEF HolderIsClaimant, NoRequest, Token
  <2>5. ASSUME NEW u \in Tokens, u # t
        PROVE  holder'[u] = holder[u]
    BY <1>2, <2>5, HolderStays DEF Goto, Claims, Token, IInv, TypeOK
  <2>6. holder' = [holder EXCEPT ![t] = NoRow]
    BY <2>4, <2>5 DEF holder
  <2>7. phase[t] = "claimed" /\ phase'[t] = "spent"
    BY <2>1, <2>2, <2>4, NoRowAssumption DEF phase, NoRequest
  <2>8. phase' = [phase EXCEPT ![t] = "spent"]
    BY <2>5, <2>7 DEF phase, NoRequest
  <2> QED
    BY <1>2, <2>2, <2>6, <2>7, <2>8
    DEF SingleUseTokens!Redeem, SingleUseTokens!Abandon, Redeem, NoRequest
<1> QED BY <1>1, <1>2

\* Every step is a step of SingleUse or a stutter, one step of the proof per
\* kind of action.
LEMMA StepImplements ==
  ASSUME IInv, IInv', HolderIsClaimant, HolderIsClaimant', Unsplit, Next
  PROVE  SingleUseTokens!Next \/ UNCHANGED <<phase, holder, redeemers>>
<1>1. CASE Tick \/ \E s \in sessions : RevokeSession(s)
  BY <1>1, StepStutters DEF Tick, RevokeSession, Claims, Token
<1>2. ASSUME NEW t \in Tokens, HandOut(t)
      PROVE  SingleUseTokens!Next
  <2>1. \E kind \in AllKinds, about \in Emails \cup Session : Mint(t, kind, about)
    BY <1>2, Zenon
    DEF HandOut, SendVerificationEmail, ForgetPassword, SignInMagicLink,
        GenerateOneTimeToken, AllKinds, IInv, TypeOK
  <2>2. SingleUseTokens!Issue(t)
    BY <2>1, MintIssues
  <2> QED BY <2>2 DEF SingleUseTokens!Next
<1>3. ASSUME NEW r \in Requests, NEW e \in AllKinds, NEW t \in Tokens, Begin(r, e, t)
      PROVE  UNCHANGED <<phase, holder, redeemers>>
  BY <1>3, StepStutters DEF Begin, At, Goto, Claims, Token, IInv, TypeOK
<1>4. ASSUME NEW r \in Requests, Consume(r)
      PROVE  SingleUseTokens!Next \/ UNCHANGED <<phase, holder, redeemers>>
  <2>1. CASE UNCHANGED rows /\ (Goto(r, "done") \/ Goto(r, "delete"))
    <3>1. \A u \in Tokens : \A q \in Requests : Claims(q, u)' <=> Claims(q, u)
      BY <1>4, <2>1 DEF Consume, At, Goto, Claims, Token, IInv, TypeOK
    <3> QED BY <1>4, <2>1, <3>1, StepStutters DEF Consume
  <2>2. CASE Found(r) # NoRow /\ ~ReadsThenDeletes(Endpoint(r))
    <3>1. Token(r) \in Tokens
      BY <1>4 DEF Consume, At, IInv, CallsOK, Call, Token
    <3>2. rows[Token(r)] # NoRow
      BY <2>2 DEF Found
    <3>3. Token(r) \in minted
      BY <3>1, <3>2 DEF IInv, RowsOK
    <3>4. SingleUseTokens!Claim(Token(r), r)
      BY <1>4, <2>2, <3>1, <3>2, <3>3, WinningClaims DEF Consume
    <3> QED BY <3>1, <3>4 DEF SingleUseTokens!Next
  <2> QED BY <1>4, <2>1, <2>2 DEF Consume
<1>5. ASSUME NEW r \in Requests, Delete(r)
      PROVE  SingleUseTokens!Next
  <2>1. /\ Token(r) \in Tokens
        /\ Endpoint(r) \in Endpoints
        /\ ReadsThenDeletes(Endpoint(r))
    BY <1>5 DEF Delete, At, IInv, CallsOK, DeletesWhatItFound, Call, Token
  <2>2. ~Suspends
    BY <2>1 DEF Unsplit, Splits
  <2>3. Token(r) \in minted /\ rows[Token(r)] # NoRow
    BY <1>5, <2>2 DEF Delete, At, IInv, DeletesWhatItFound
  <2>4. SingleUseTokens!Claim(Token(r), r)
    BY <1>5, <2>1, <2>3, WinningClaims DEF Delete
  <2> QED BY <2>1, <2>4 DEF SingleUseTokens!Next
<1>6. ASSUME NEW r \in Requests, HolderStep(r)
      PROVE  SingleUseTokens!Next \/ UNCHANGED <<phase, holder, redeemers>>
  <2>1. pc[r] \in Holding /\ UNCHANGED <<rows, minted, call>>
    BY <1>6 DEF HolderStep, At, Holding, server, Check, VerifyEmailLookup,
         VerifyEmailUpdate, ResetPasswordUpdate, MagicLinkLookup,
         MagicLinkWriteUser, MagicLinkCreateSession, OneTimeTokenLookup,
         OneTimeTokenHandOver
  <2>2. \/ \E to \in Holding : Goto(r, to) /\ UNCHANGED redeemers
        \/ Goto(r, "done") /\ (UNCHANGED redeemers \/ Redeem(r))
    BY <1>6, SMT DEF HolderStep, Holding, Check, VerifyEmailLookup,
         VerifyEmailUpdate, ResetPasswordUpdate, MagicLinkLookup,
         MagicLinkWriteUser, MagicLinkCreateSession, OneTimeTokenLookup,
         OneTimeTokenHandOver
  <2>3. Token(r) \in Tokens
    BY <2>1 DEF IInv, CallsOK, Holding, Call, Token
  <2> QED BY <2>1, <2>2, <2>3, HolderFollows DEF SingleUseTokens!Next
<1> QED BY <1>1, <1>2, <1>3, <1>4, <1>5, <1>6 DEF Next, Handle, HolderStep

\* Claiming, acting on and giving up tokens follows SingleUse, for any number
\* of tokens and requests, wherever consumption is not split.
THEOREM Implements == Spec => ImplementsSingleUse
<1>1. Init => SingleUseTokens!Init
  <2> SUFFICES ASSUME Init PROVE SingleUseTokens!Init
    OBVIOUS
  <2>1. \A t \in Tokens, r \in Requests : ~Claims(r, t)
    BY DEF Init, Claims
  <2>2. holder = [t \in Tokens |-> NoRequest]
    BY <2>1 DEF holder
  <2>3. phase = [t \in Tokens |-> "unissued"]
    BY DEF Init, phase
  <2> QED BY <2>2, <2>3 DEF Init, SingleUseTokens!Init
<1>2. ASSUME IInv, IInv', HolderIsClaimant \/ ~Unsplit, (HolderIsClaimant \/ ~Unsplit)',
             [Next]_vars
      PROVE  [(\A e \in Endpoints : ~Splits(e)) => SingleUseTokens!Next]_<<phase, holder, redeemers>>
  <2>1. CASE UNCHANGED vars
    BY <2>1 DEF vars, phase, holder, Claims, Token
  <2>2. CASE Next
    <3>1. Unsplit => Unsplit'
      BY <2>2, ConfigIsFixed DEF Unsplit, Splits, Endpoints, Suspends, ReadsThenDeletes
    <3> QED BY <1>2, <2>2, <3>1, StepImplements DEF Unsplit
  <2> QED BY <1>2, <2>1, <2>2
<1>3. IInv => HolderIsClaimant \/ ~Unsplit
  BY OneClaimant
<1> QED BY <1>1, <1>2, <1>3, Invariance, PTL DEF Spec, ImplementsSingleUse

-----------------------------------------------------------------------------
(* Sessions that are handed over                                            *)

\* Without suspension the session that was looked up is still there.
LookedUp ==
  ~Suspends => \A r \in Requests :
    pc[r] = "write" /\ Endpoint(r) = "one-time-token" => About(r) \in sessions

\* Nothing gets in between the look-up and the cookie.
LEMMA LookedUpStays ==
  ASSUME IInv, LookedUp, [Next]_vars
  PROVE  LookedUp'
<1> SUFFICES ASSUME ~Suspends', NEW r \in Requests,
                    pc'[r] = "write", Endpoint(r)' = "one-time-token"
             PROVE  About(r)' \in sessions'
  BY DEF LookedUp
<1>1. CASE UNCHANGED vars
  BY <1>1 DEF vars, LookedUp, Suspends, Endpoint, About
<1>2. CASE Next
  <2>1. config' = config /\ ~Suspends
    BY <1>2, ConfigIsFixed DEF Suspends
  <2>2. CASE Tick \/ \E t \in Tokens : HandOut(t)
    <3>1. UNCHANGED <<pc, call, claim, sessions>>
      BY <2>2 DEF Tick, HandOut, SendVerificationEmail, ForgetPassword, SignInMagicLink,
                  GenerateOneTimeToken, Mint, server
    <3> QED BY <2>1, <3>1 DEF LookedUp, Endpoint, About
  <2>3. CASE \E s \in sessions : RevokeSession(s)
    <3>1. UNCHANGED pc /\ ~InHandler(r)
      BY <2>1, <2>3 DEF RevokeSession, Quiet
    <3> QED BY <3>1, SMT DEF InHandler
  <2>4. ASSUME NEW q \in Requests, Handle(q) \/ \E e \in AllKinds, t \in Tokens : Begin(q, e, t)
        PROVE  About(r)' \in sessions'
    <3>1. Scheduled(q) /\ \E to \in PCs : Goto(q, to)
      BY <2>4, SMT DEF Handle, Begin, At, Goto, PCs, Consume, Delete, Check, VerifyEmailLookup,
           VerifyEmailUpdate, ResetPasswordUpdate, MagicLinkLookup, MagicLinkWriteUser,
           MagicLinkCreateSession, OneTimeTokenLookup, OneTimeTokenHandOver
    <3>2. q = r
      <4> SUFFICES ASSUME q # r
                   PROVE  FALSE
        OBVIOUS
      <4>1. ~InHandler(r)
        BY <2>1, <3>1 DEF Scheduled
      <4>2. pc'[r] = pc[r]
        BY <3>1 DEF Goto, IInv, TypeOK
      <4> QED BY <4>1, <4>2, SMT DEF InHandler
    <3>3. OneTimeTokenLookup(r) /\ About(r) \in sessions
      BY <2>4, <3>2, SMT DEF Handle, Begin, At, Goto, IInv, TypeOK, Endpoint, Consume, Delete,
           Check, VerifyEmailLookup, VerifyEmailUpdate, ResetPasswordUpdate, MagicLinkLookup,
           MagicLinkWriteUser, MagicLinkCreateSession, OneTimeTokenLookup, OneTimeTokenHandOver
    <3> QED BY <3>3 DEF OneTimeTokenLookup, About, server
  <2> QED BY <1>2, <2>2, <2>3, <2>4 DEF Next
<1> QED BY <1>1, <1>2

\* A request acts on its token last of all.
Answered == \A t \in Tokens : \A r \in redeemers[t] : pc[r] = "done"

\* An answered request does nothing more, and who acts is answered.
LEMMA AnsweredStays ==
  ASSUME IInv, Answered, [Next]_vars
  PROVE  Answered'
<1> USE DEF IInv, TypeOK
<1>1. ASSUME UNCHANGED redeemers, UNCHANGED pc
      PROVE  Answered'
  BY <1>1 DEF Answered
<1>2. ASSUME NEW q \in Requests, Handle(q) \/ \E e \in AllKinds, t \in Tokens : Begin(q, e, t)
      PROVE  Answered'
  <2>1. /\ pc[q] # "done" /\ \E to \in PCs : Goto(q, to)
        /\ \/ UNCHANGED redeemers
           \/ Redeem(q) /\ Goto(q, "done")
    BY <1>2, SMT DEF Handle, Begin, At, Goto, PCs, Consume, Delete, Check, VerifyEmailLookup,
         VerifyEmailUpdate, ResetPasswordUpdate, MagicLinkLookup, MagicLinkWriteUser,
         MagicLinkCreateSession, OneTimeTokenLookup, OneTimeTokenHandOver
  <2> QED BY <2>1, SMT DEF Answered, Goto, Redeem
<1>3. CASE UNCHANGED vars
  BY <1>1, <1>3 DEF vars
<1>4. CASE Tick \/ (\E t \in Tokens : HandOut(t)) \/ \E s \in sessions : RevokeSession(s)
  BY <1>1, <1>4 DEF Tick, HandOut, SendVerificationEmail, ForgetPassword, SignInMagicLink,
                    GenerateOneTimeToken, Mint, RevokeSession
<1> QED BY <1>2, <1>3, <1>4 DEF Next

\* /one-time-token/verify hands over no session that has expired, and none that
\* was revoked, unless it can be suspended after looking it up.
THEOREM HandedOverIsLive == Spec => HandedOverSessionIsLive
<1> DEFINE Live(r) ==
      /\ pc[r] = "write"
      /\ Endpoint(r) = "one-time-token"
      /\ redeemers' # redeemers
      /\ r \in redeemers'[Token(r)]
      => ~Expired(About(r)) /\ (About(r) \in sessions \/ Suspends)
<1>1. Init => LookedUp /\ Answered
  BY DEF Init, LookedUp, Answered
<1>2. ASSUME IInv, LookedUp, Answered, [Next]_vars
      PROVE  [\A r \in Requests : Live(r)]_vars
  <2> SUFFICES ASSUME Next, NEW r \in Requests, pc[r] = "write",
                      Endpoint(r) = "one-time-token", redeemers' # redeemers,
                      r \in redeemers'[Token(r)]
               PROVE  ~Expired(About(r)) /\ (About(r) \in sessions \/ Suspends)
    BY <1>2
  <2>1. About(r) \in sessions \/ Suspends
    BY <1>2 DEF LookedUp
  <2>2. PICK q \in Requests : Handle(q) /\ Redeem(q)
    BY ZenonT(60) DEF Next, Tick, HandOut, SendVerificationEmail, ForgetPassword, SignInMagicLink,
         GenerateOneTimeToken, Mint, Begin, RevokeSession, Handle, Consume, Delete, Check,
         VerifyEmailLookup, VerifyEmailUpdate, ResetPasswordUpdate, MagicLinkLookup,
         MagicLinkWriteUser, MagicLinkCreateSession, OneTimeTokenLookup, OneTimeTokenHandOver
  <2>3. q = r
    <3>1. r \notin redeemers[Token(r)]
      BY <1>2, SMT DEF Answered, IInv, CallsOK, Call, Token
    <3> QED BY <1>2, <2>2, <3>1, SMT DEF Redeem, IInv, TypeOK, Token
  <2>4. OneTimeTokenHandOver(r) /\ ~Expired(About(r))
    BY <2>2, <2>3, SMT DEF Handle, At, Consume, Delete, Check, VerifyEmailLookup,
         VerifyEmailUpdate, ResetPasswordUpdate, MagicLinkLookup, MagicLinkWriteUser,
         MagicLinkCreateSession, OneTimeTokenLookup, OneTimeTokenHandOver
  <2> QED BY <2>1, <2>4
<1> QED BY <1>1, <1>2, LookedUpStays, AnsweredStays, Invariance, PTL DEF Spec, HandedOverSessionIsLive
=============================================================================
