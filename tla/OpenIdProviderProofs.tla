------------------------- MODULE OpenIdProviderProofs -------------------------
(***************************************************************************)
(* Proofs about OpenIdProvider, for all requests, grants, clients, users   *)
(* and configurations.                                                     *)
(***************************************************************************)
EXTENDS OpenIdProvider, TLAPS

-----------------------------------------------------------------------------
(* The inductive invariant                                                  *)

\* What request r issues tokens for is settled, and does not change any more.
Decided(r) == pc[r] \notin {"idle", "consume", "remove", "find"}

NeedsKeyFor(r, purposes) == pc[r] \in {"find-key", "create-key"} /\ signing[r] \in purposes

\* Request r has its tokens, or some of them, still to come, ...
Issuing(r) ==
  \/ pc[r] \in {"rotate", "access", "mint"}
  \/ NeedsKeyFor(r, {"access_token", "id_token"})

\* ... its refresh token among them, once the one it presented is used up.
YetToMint(r) == pc[r] \in {"access", "mint"} \/ NeedsKeyFor(r, {"access_token"})

\* The row goes back to what a user granted, or is a client's own.
OfGrant(grants, row) ==
  IF row.root = None
  THEN row.user = None /\ row.scope \cap OfUsers = {}
  ELSE /\ grants[row.root] # None
       /\ grants[row.root].client = row.client
       /\ grants[row.root].user = row.user
       /\ row.scope \subseteq grants[row.root].scope

\* The session, if any, is the one that the user granted the row from.
OfSession(grants, row, session) ==
  session # None => row.root # None /\ grants[row.root].session = session

\* The widest scope that n can have: that of the token it refreshed.
Bound(n) ==
  IF n \in Requests /\ Op(n) = "refresh" THEN ScopeOf(call[n].token) ELSE Scopes

\* A client may issue tokens for h.
Entitled(rows, grants, bound, client, h) ==
  /\ rows[client] # None
  /\ h # None /\ h.client = client
  /\ OfGrant(grants, h) /\ h.scope \subseteq bound
  /\ OfSession(grants, h, h.session)
  /\ h.root # None => h.session # None

\* What a call presented had been issued, by a request that is done, ...
CallOK(r) ==
  pc[r] # "idle" =>
    /\ call[r] # None
    /\ Op(r) \in {"refresh", "end-session"} =>
         \/ call[r].token \in Old
         \/ call[r].token \in Requests /\ pc[call[r].token] = "done"

\* ... or is a code that was handed out; a session is there if one is used.
\* Steps of a handler are taken in calls of its endpoint.
HandlerOK(r) ==
  /\ pc[r] \in {"consume", "remove"} =>
       Op(r) = "code" /\ call[r].token \in Grants /\ granted[call[r].token] # None
  /\ pc[r] = "remove" => ~config.atomic /\ held[r] = granted[call[r].token]
  /\ pc[r] \in {"find", "rotate", "tear-down"} => Op(r) = "refresh"
  /\ pc[r] = "retire-keys" => signing[r] = "rotate"
  /\ pc[r] = "insert-client" => Op(r) \in {"register", "create-client"}
  /\ pc[r] = "mint" => "offline_access" \in held[r].scope
  /\ pc[r] \in {"find-key", "create-key"} =>
       /\ signing[r] \in Purposes
       /\ signing[r] = "session_token" => call[r].session # None
       /\ signing[r] = "id_token" => held[r].root # None

\* A request issues tokens for its own client, and for what it may have.
IssuerOK(r) ==
  /\ pc[r] \in {"consume", "remove", "find"} => clients[Client(r)] # None
  /\ pc[r] = "tear-down" => held[r] # None /\ held[r].client = Client(r)
  /\ Issuing(r) => Entitled(clients, granted, Bound(r), Client(r), held[r])

\* The row that a request is about to rotate belongs to its client.
RotatorOK(r) ==
  pc[r] = "rotate" /\ refresh[call[r].token] # None =>
    refresh[call[r].token].client = Client(r)

\* A request that is about to end a session holds a token for it.
LeaverOK(r) ==
  pc[r] = "end-session" =>
    LET c == call[r]
        row == jwts[c.kind][c.token] IN
    /\ Op(r) = "end-session"
    /\ c.kind \in SignedKinds \ {"session_token"} /\ c.token \in Requests
    /\ row # None /\ row.sid # None
    /\ clients[row.client].logout

\* What a request is about to do it may do.
RequestOK(r) ==
  CallOK(r) /\ HandlerOK(r) /\ IssuerOK(r) /\ RotatorOK(r) /\ LeaverOK(r)

\* A code says what was granted, and is redeemed after that.
GrantOK(g) ==
  /\ granted[g] # None => granted[g].root = g
  /\ codes[g] # None => codes[g] = granted[g]
  /\ redeemed[g] # {} \/ g \in tornDown \/ g \in Old => granted[g] # None

\* Rows go back to grants, and are no wider than what they come from.
RefreshOK(n) ==
  refresh[n] # None =>
    /\ n \in Requests => Decided(n)
    /\ n \in Grants => n \in Old
    /\ OfGrant(granted, refresh[n]) /\ refresh[n].scope \subseteq Bound(n)
    /\ refresh[n].scope = ScopeOf(n)
    /\ OfSession(granted, refresh[n], refresh[n].session)

AccessOK(n) ==
  access[n] # None =>
    /\ n \in Requests /\ Decided(n)
    /\ OfGrant(granted, access[n]) /\ access[n].scope \subseteq Bound(n)

\* Only an access token has a scope; that of /token names no client.
JwtOK(kind, r) ==
  jwts[kind][r] # None =>
    /\ Decided(r)
    /\ kind # "access_token" => jwts[kind][r].scope = {}
    /\ kind = "session_token" => jwts[kind][r].client = None
    /\ kind # "session_token" =>
         /\ OfGrant(granted, jwts[kind][r]) /\ jwts[kind][r].scope \subseteq Bound(r)
         /\ OfSession(granted, jwts[kind][r], jwts[kind][r].sid)
         /\ jwts[kind][r].client # None /\ clients[jwts[kind][r].client] # None

ToldOK(r) ==
  told[r] # None /\ told[r].user # None =>
    \E g \in Grants : /\ granted[g] # None
                      /\ granted[g].user = told[r].user
                      /\ "openid" \in granted[g].scope

\* Whoever may end sessions was let by an administrator.
ClientsOK == \A c \in Clients : clients[c] # None /\ clients[c].logout => clients[c].invited

\* A code that may be consumed once only is gone when it was redeemed.
RedeemedIsGone ==
  config.atomic \/ ~config.suspends =>
    \A g \in Grants : redeemed[g] # {} => codes[g] = None

\* A key is there for every token that it signed, and no token outlives it.
KeysOK ==
  /\ \A k \in KeyNames : keys[k] # None => keys[k].createdAt <= now
  /\ AccessTTL <= GracePeriod /\ TokenTTL <= GracePeriod =>
       \A kind \in SignedKinds, r \in Requests : jwts[kind][r] # None =>
         LET row == jwts[kind][r] IN
         /\ keys[row.key] # None
         /\ \/ row.expiresAt < Epoch
            \/ ~config.rotates
            \/ row.expiresAt <= keys[row.key].createdAt + RotationInterval + GracePeriod

\* Where handlers do not interleave, of a grant there is at any time: its
\* code, a request that exchanges the code or rotates, or one usable token.
Alone == \A r, q \in Requests : InHandler(r) /\ InHandler(q) => r = q

CodesAreFresh ==
  /\ \A g \in Grants : codes[g] # None =>
       /\ g \notin tornDown
       /\ \A n \in Names : refresh[n] # None => refresh[n].root # g
  /\ \A r \in Requests : pc[r] = "remove" => codes[call[r].token] # None

FamiliesEnd == \A n \in Names : refresh[n] # None => refresh[n].root \notin tornDown

OneUsable ==
  \A n, m \in Names : Live(n) /\ Live(m) /\ refresh[n].root = refresh[m].root => n = m

RotatesUsable ==
  \A r \in Requests : pc[r] = "rotate" =>
    Live(call[r].token) /\ refresh[call[r].token].root = held[r].root

IssuesFresh ==
  \A r \in Requests : held[r] # None /\ held[r].root # None =>
    /\ Issuing(r) => codes[held[r].root] = None /\ held[r].root \notin tornDown
    /\ YetToMint(r) => \A n \in Names : Live(n) => refresh[n].root # held[r].root

InTurn ==
  ~config.suspends =>
    Alone /\ CodesAreFresh /\ FamiliesEnd /\ OneUsable /\ RotatesUsable /\ IssuesFresh

RowsOK ==
  /\ \A g \in Grants : GrantOK(g)
  /\ \A n \in Names : RefreshOK(n) /\ AccessOK(n)
  /\ \A kind \in SignedKinds, r \in Requests : JwtOK(kind, r)
  /\ \A r \in Requests : ToldOK(r)
  /\ ClientsOK

RequestsOK == \A r \in Requests : RequestOK(r)

IInv ==
  /\ TypeOK
  /\ RowsOK
  /\ RequestsOK
  /\ RedeemedIsGone /\ CodeExchangedOnce
  /\ KeysOK
  /\ InTurn

-----------------------------------------------------------------------------
(* Steps                                                                    *)

\* A step of request r.
StepOf(r) == (\E c \in config.calls : Begin(r, c)) \/ Handle(r) \/ Fail(r)

\* A step is the clock's, an authorization, the end of a session, or a request's.
LEMMA Steps ==
  ASSUME Next
  PROVE  \/ Tick
         \/ \E g \in Grants, a \in config.asked : Authorize(g, a)
         \/ \E s \in sessions \cap config.leaving : RevokeSession(s)
         \/ \E r \in Requests : StepOf(r)
PROOF BY Zenon DEF Next, StepOf

\* Which steps of a request write which tables.
LEMMA Writes ==
  ASSUME NEW r \in Requests, StepOf(r)
  PROVE  /\ config' = config /\ now' = now /\ granted' = granted
         /\ clients' = clients \/ InsertClient(r)
         /\ sessions' = sessions \/ DeleteSession(r)
         /\ codes' = codes \/ ConsumeCode(r) \/ RemoveCode(r)
         /\ refresh' = refresh \/ Rotate(r) \/ TearDown(r) \/ MintRefresh(r) \/ DropRefresh(r)
         /\ access' = access \/ IssueAccess(r) \/ DropAccess(r)
         /\ keys' = keys \/ CreateKey(r) \/ RetireKeys(r)
         /\ jwts' = jwts \/ FindKey(r) \/ CreateKey(r)
         /\ redeemed' = redeemed \/ ConsumeCode(r) \/ RemoveCode(r)
         /\ tornDown' = tornDown \/ TearDown(r)
PROOF
  <1> USE DEF provider, tables, history
  <1>1. ASSUME NEW c, Begin(r, c)
        PROVE  /\ config' = config /\ now' = now /\ granted' = granted
               /\ clients' = clients /\ sessions' = sessions /\ codes' = codes
               /\ refresh' = refresh /\ access' = access /\ keys' = keys /\ jwts' = jwts
               /\ redeemed' = redeemed /\ tornDown' = tornDown
    BY <1>1, Zenon DEF Begin, Token, Revoke, GetToken, RotateKeys, GetJwks,
         Register, UserInfo, Introspect, EndSession, BeginWith
  <1>2. ASSUME Fail(r)
        PROVE  /\ config' = config /\ now' = now /\ granted' = granted
               /\ clients' = clients /\ sessions' = sessions /\ codes' = codes
               /\ refresh' = refresh /\ access' = access /\ keys' = keys /\ jwts' = jwts
               /\ redeemed' = redeemed /\ tornDown' = tornDown
    BY <1>2, Zenon DEF Fail
  <1>3. ASSUME Handle(r)
        PROVE  /\ config' = config /\ now' = now /\ granted' = granted
               /\ clients' = clients \/ InsertClient(r)
               /\ sessions' = sessions \/ DeleteSession(r)
               /\ codes' = codes \/ ConsumeCode(r) \/ RemoveCode(r)
    BY <1>3, Zenon DEF Handle, Grant, Exchange, CodeNotFound, SelectCode, FindRefresh,
         Rotate, TearDown, DropRefreshTokens, IssueAccess, MintRefresh, Classify,
         DropRefresh, DropAccess, FindKey, CreateKey, RetireKeys, ListKeys, LoadUserInfo,
         LoadIntrospected, LoadSession, InsertClient, DeleteSession, ConsumeCode, RemoveCode
  <1>4. ASSUME Handle(r)
        PROVE  /\ refresh' = refresh \/ Rotate(r) \/ TearDown(r) \/ MintRefresh(r)
                    \/ DropRefresh(r)
               /\ access' = access \/ IssueAccess(r) \/ DropAccess(r)
               /\ keys' = keys \/ CreateKey(r) \/ RetireKeys(r)
               /\ jwts' = jwts \/ FindKey(r) \/ CreateKey(r)
               /\ redeemed' = redeemed \/ ConsumeCode(r) \/ RemoveCode(r)
               /\ tornDown' = tornDown \/ TearDown(r)
    BY <1>4, Zenon DEF Handle, Grant, CodeNotFound, SelectCode, FindRefresh,
         Rotate, TearDown, IssueAccess, MintRefresh, Classify,
         DropRefresh, DropAccess, FindKey, RetireKeys, ListKeys, LoadUserInfo, ConsumeCode,
         RemoveCode, LoadIntrospected, LoadSession, InsertClient, DeleteSession, CreateKey
  <1> QED BY <1>1, <1>2, <1>3, <1>4, Zenon DEF StepOf

\* A call that begins is recorded, and one that is refused at once is done.
LEMMA Beginnings ==
  ASSUME NEW r \in Requests, NEW c, Begin(r, c)
  PROVE  /\ At(r, "idle") /\ call' = [call EXCEPT ![r] = c] /\ told' = told
         /\ held' = held \/ Token(r, c)
PROOF BY Zenon DEF Begin, Token, Revoke, GetToken, RotateKeys, GetJwks, provider,
  Register, UserInfo, Introspect, EndSession, BeginWith

\* Where a request can go from where it is, and that it changes nobody else's
\* state; once it is decided what it issues tokens for, that stays.
Goes(r, to) ==
  /\ pc' = [pc EXCEPT ![r] = to]
  /\ to \in PCs \ {"idle"}
  /\ pc[r] # "idle" => to \notin {"consume", "find"}
  /\ pc[r] \notin {"idle", "consume"} => to # "remove"
  /\ pc[r] # "find" => to \notin {"rotate", "tear-down"}
  /\ pc[r] # "idle" => to # "end-session"

LEMMA IssuingGoes ==
  ASSUME NEW r \in Requests, pc[r] \notin {"done"},
         IssueTokens(r) \/ (\E row : ThenRefresh(r, row)) \/ (\E row : ThenIdToken(r, row))
  PROVE  \E to \in PCs : Goes(r, to) /\ to \in {"access", "mint", "find-key", "done"}
PROOF BY SMT DEF IssueTokens, ThenRefresh, ThenIdToken, NeedKey, Goto, Goes, PCs

LEMMA Moves ==
  ASSUME NEW r \in Requests, StepOf(r)
  PROVE  /\ Scheduled(r) /\ pc[r] # "done"
         /\ \E to \in PCs : Goes(r, to)
PROOF
  <1> USE DEF At, Goto, PCs
  <1>1. ASSUME NEW c, Begin(r, c)
        PROVE  Scheduled(r) /\ pc[r] # "done" /\ \E to \in PCs : Goes(r, to)
    <2>1. Scheduled(r) /\ pc[r] = "idle"
      BY <1>1, Beginnings, Zenon
    <2>2. CASE Token(r, c)
      <3>1. CASE IssueTokens(r)
        BY <2>1, <3>1, IssuingGoes, Zenon
      <3>2. CASE ~IssueTokens(r)
        BY <2>1, <2>2, <3>2, SMT DEF Token, Goes
      <3> QED BY <3>1, <3>2
    <2>3. CASE GetToken(r, c) \/ RotateKeys(r, c) \/ GetJwks(r, c) \/ Register(r, c)
      BY <2>1, <2>3, SMT DEF GetToken, RotateKeys, GetJwks, Register, NeedKey, Goes
    <2>4. CASE Revoke(r, c) \/ UserInfo(r, c) \/ Introspect(r, c) \/ EndSession(r, c)
      BY <2>1, <2>4, SMT DEF Revoke, UserInfo, Introspect, EndSession, Goes
    <2> QED BY <1>1, <2>1, <2>2, <2>3, <2>4, Zenon DEF Begin
  <1>2. ASSUME Fail(r)
        PROVE  Scheduled(r) /\ pc[r] # "done" /\ \E to \in PCs : Goes(r, to)
    BY <1>2, SMT DEF Fail, InHandler, Goes
  <1>3. ASSUME Handle(r)
        PROVE  Scheduled(r) /\ pc[r] # "done" /\ \E to \in PCs : Goes(r, to)
    <2>1. CASE \E row : Exchange(r, row) /\ (At(r, "consume") \/ At(r, "remove"))
      <3>1. PICK row : Exchange(r, row) /\ (At(r, "consume") \/ At(r, "remove"))
        BY <2>1, Zenon
      <3>2. CASE IssueTokens(r)
        BY <3>1, <3>2, IssuingGoes, Zenon
      <3>3. CASE ~IssueTokens(r)
        BY <3>1, <3>3, SMT DEF Exchange, Goes
      <3> QED BY <3>2, <3>3
    <2>2. CASE SelectCode(r) \/ CodeNotFound(r) \/ FindRefresh(r) \/ TearDown(r)
      BY <2>2, SMT DEF SelectCode, CodeNotFound, FindRefresh, TearDown, Goes
    <2>3. CASE Rotate(r) \/ IssueAccess(r) \/ MintRefresh(r)
      BY <2>3, IssuingGoes, Zenon DEF Rotate, IssueAccess, MintRefresh
    <2>4. CASE Classify(r) \/ DropRefresh(r) \/ DropAccess(r) \/ InsertClient(r)
      BY <2>4, SMT DEF Classify, DropRefresh, DropAccess, InsertClient, Goes
    <2>5. CASE (\E k : UseKey(r, k)) /\ (At(r, "find-key") \/ At(r, "create-key"))
      <3>1. PICK k : UseKey(r, k)
        BY <2>5
      <3>2. CASE ThenRefresh(r, held[r])
        BY <2>5, <3>2, IssuingGoes, Zenon
      <3>3. CASE ~ThenRefresh(r, held[r])
        <4>1. Goto(r, "done") \/ Goto(r, "find-key") \/ Goto(r, "publish")
          BY <3>1, <3>3, Zenon DEF UseKey, NeedKey
        <4> QED BY <2>5, <4>1, SMT DEF Goes
      <3> QED BY <3>2, <3>3
    <2>6. CASE FindKey(r) /\ ~(\E k : UseKey(r, k))
      BY <2>6, SMT DEF FindKey, Goes
    <2>7. CASE RetireKeys(r) \/ ListKeys(r) \/ LoadUserInfo(r) \/ LoadIntrospected(r)
                 \/ LoadSession(r) \/ DeleteSession(r)
      <3>1. /\ \/ Goto(r, "done") \/ Goto(r, "create-key") \/ Goto(r, "find-key")
               \/ Goto(r, "load-session")
            /\ \/ At(r, "retire-keys") \/ At(r, "list-keys") \/ At(r, "publish")
               \/ At(r, "load-token") \/ At(r, "load-session") \/ At(r, "end-session")
        <4> HIDE DEF Goto, At
        <4> QED BY <2>7, Zenon DEF RetireKeys, ListKeys, LoadUserInfo, LoadIntrospected,
                 LoadSession, DeleteSession, NeedKey
      <3>2. /\ Scheduled(r)
            /\ pc[r] \in {"retire-keys", "list-keys", "publish", "load-token",
                          "load-session", "end-session"}
        BY <3>1, Zenon
      <3>3. ASSUME NEW to \in {"done", "create-key", "find-key", "load-session"}, Goto(r, to)
            PROVE  Goes(r, to) /\ to \in PCs
        BY <3>2, <3>3, SMT DEF Goes
      <3> QED BY <3>1, <3>2, <3>3, SMT
    <2> QED
      BY <1>3, <2>1, <2>2, <2>3, <2>4, <2>5, <2>6, <2>7, Zenon
         DEF Handle, Grant, ConsumeCode, RemoveCode, CreateKey, FindKey
  <1> QED BY <1>1, <1>2, <1>3, Zenon DEF StepOf

\* A request writes what concerns itself only, its call when it begins, and
\* what it issues tokens for before that is decided.
LEMMA Keeps ==
  ASSUME TypeOK, NEW r \in Requests, StepOf(r)
  PROVE  /\ \A q \in Requests \ {r} :
              /\ pc'[q] = pc[q] /\ call'[q] = call[q] /\ held'[q] = held[q]
              /\ signing'[q] = signing[q] /\ told'[q] = told[q]
              /\ \A kind \in SignedKinds : jwts'[kind][q] = jwts[kind][q]
         /\ pc[r] # "idle" => call' = call
         /\ Decided(r) => held' = held
PROOF
  <1> USE DEF TypeOK
  <1>1. \A q \in Requests \ {r} : pc'[q] = pc[q]
    BY Moves, SMT DEF Goes
  <1>2. /\ call' = call \/ \E c : call' = [call EXCEPT ![r] = c]
        /\ pc[r] # "idle" => call' = call
    <2>1. ASSUME NEW c, Begin(r, c)
          PROVE  pc[r] = "idle" /\ call' = [call EXCEPT ![r] = c]
      BY <2>1, Beginnings, Zenon DEF At
    <2>2. ASSUME Handle(r) \/ Fail(r)
          PROVE  call' = call
      BY <2>2, Zenon DEF Handle, Grant, CodeNotFound, SelectCode, FindRefresh, Fail,
         Rotate, TearDown, IssueAccess, MintRefresh, Classify,
         DropRefresh, DropAccess, FindKey, RetireKeys, ListKeys, LoadUserInfo, ConsumeCode,
         RemoveCode, LoadIntrospected, LoadSession, InsertClient, DeleteSession, CreateKey
    <2> QED BY <2>1, <2>2, Zenon DEF StepOf
  <1>3. /\ held' = held \/ \E h : held' = [held EXCEPT ![r] = h]
        /\ Decided(r) => held' = held
    <2>1. ASSUME NEW c, Token(r, c)
          PROVE  pc[r] = "idle" /\ \E h : held' = [held EXCEPT ![r] = h]
      BY <2>1, Zenon DEF Token, At
    <2>2. ASSUME NEW c, Begin(r, c), ~Token(r, c)
          PROVE  held' = held
      BY <2>2, Beginnings, Zenon
    <2>3. ASSUME Handle(r) \/ Fail(r)
          PROVE  \/ held' = held
                 \/ SelectCode(r) \/ ConsumeCode(r) \/ RemoveCode(r) \/ FindRefresh(r)
      BY <2>3, Zenon DEF Handle, Grant, CodeNotFound, Fail,
         Rotate, TearDown, IssueAccess, MintRefresh, Classify,
         DropRefresh, DropAccess, FindKey, RetireKeys, ListKeys, LoadUserInfo,
         LoadIntrospected, LoadSession, InsertClient, DeleteSession, CreateKey
    <2>4. ASSUME SelectCode(r) \/ ConsumeCode(r) \/ RemoveCode(r) \/ FindRefresh(r)
          PROVE  /\ pc[r] \in {"consume", "remove", "find"}
                 /\ held' = held \/ \E h : held' = [held EXCEPT ![r] = h]
      BY <2>4, Zenon DEF SelectCode, ConsumeCode, RemoveCode, FindRefresh, Exchange, At
    <2> QED BY <2>1, <2>2, <2>3, <2>4, Zenon DEF StepOf, Decided
  <1>4. signing' = signing \/ \E s : signing' = [signing EXCEPT ![r] = s]
    <2>1. ASSUME NEW c, Begin(r, c)
          PROVE  signing' = signing \/ \E s : signing' = [signing EXCEPT ![r] = s]
      BY <2>1, Zenon DEF Begin, Token, Revoke, GetToken, RotateKeys, GetJwks,
         Register, UserInfo, Introspect, EndSession, IssueTokens, NeedKey
    <2>2. ASSUME Handle(r) \/ Fail(r)
          PROVE  signing' = signing \/ \E s : signing' = [signing EXCEPT ![r] = s]
      BY <2>2, Zenon DEF Handle, Grant, CodeNotFound, SelectCode, FindRefresh, Fail,
         Rotate, TearDown, IssueAccess, MintRefresh, Classify,
         DropRefresh, DropAccess, FindKey, RetireKeys, ListKeys, LoadUserInfo, ConsumeCode,
         RemoveCode, LoadIntrospected, LoadSession, InsertClient, DeleteSession, CreateKey,
         Exchange, UseKey, IssueTokens, ThenRefresh, ThenIdToken, NeedKey
    <2> QED BY <2>1, <2>2, Zenon DEF StepOf
  <1>5. told' = told \/ \E a : told' = [told EXCEPT ![r] = a]
    <2>1. ASSUME NEW c, Begin(r, c)
          PROVE  told' = told
      BY <2>1, Beginnings, Zenon
    <2>2. ASSUME Handle(r) \/ Fail(r)
          PROVE  told' = told \/ \E a : told' = [told EXCEPT ![r] = a]
      BY <2>2, Zenon DEF Handle, Grant, CodeNotFound, SelectCode, FindRefresh, Fail,
         Rotate, TearDown, IssueAccess, MintRefresh, Classify, provider,
         DropRefresh, DropAccess, FindKey, RetireKeys, ListKeys, LoadUserInfo, ConsumeCode,
         RemoveCode, LoadIntrospected, LoadSession, InsertClient, DeleteSession, CreateKey,
         UseKey, Said
    <2> QED BY <2>1, <2>2, Zenon DEF StepOf
  <1>6. jwts' = jwts \/ \E s, j : jwts' = [jwts EXCEPT ![s][r] = j]
    <2>1. ASSUME NEW k, UseKey(r, k)
          PROVE  jwts' = jwts \/ \E s, j : jwts' = [jwts EXCEPT ![s][r] = j]
      BY <2>1, Zenon DEF UseKey
    <2> QED BY Writes, <2>1, Zenon DEF FindKey, CreateKey
  <1> HIDE DEF TypeOK
  <1>7. ASSUME NEW q \in Requests \ {r}
        PROVE  /\ call'[q] = call[q] /\ held'[q] = held[q]
               /\ signing'[q] = signing[q] /\ told'[q] = told[q]
    BY <1>2, <1>3, <1>4, <1>5, SMT DEF TypeOK
  <1>8. ASSUME NEW q \in Requests \ {r}, NEW kind \in SignedKinds
        PROVE  jwts'[kind][q] = jwts[kind][q]
    <2>1. jwts \in [SignedKinds -> [Requests -> Jwt \cup {None}]]
      BY Zenon DEF TypeOK
    <2> QED BY <1>6, <2>1, SMT
  <1> QED BY <1>1, <1>2, <1>3, <1>7, <1>8, Zenon

-----------------------------------------------------------------------------
(* Types                                                                    *)

\* None is nobody's name.
LEMMA NoneIsNone ==
  /\ None \notin Users /\ None \notin Grants /\ None \notin Sessions /\ None \notin Clients
  /\ None \notin CodeRow /\ None \notin TokenRow /\ None \notin RefreshRow
  /\ None \notin Call /\ None \notin ClientRow /\ None \notin KeyRow
  /\ None \notin Jwt /\ None \notin Answer
PROOF BY NoneAssumption, Zenon

\* Configurations are what they are said to be.
LEMMA ConfigFields ==
  ASSUME TypeOK
  PROVE  /\ config \in Config
         /\ config.calls \subseteq Call /\ config.asked \subseteq Authorization
         /\ config.clients \in [Clients -> ClientRow \cup {None}]
         /\ config.ticks \in Nat
PROOF
  <1>1. config \in Config
    BY ConstantsAssumption, Zenon DEF TypeOK
  <1> QED BY <1>1, SMT DEF Config

\* The times are natural numbers, and it is no earlier than at the start.
LEMMA Times ==
  ASSUME TypeOK
  PROVE  /\ now \in Nat /\ now >= Epoch /\ Epoch \in Nat
         /\ CodeTTL \in Nat /\ RefreshTTL \in Nat /\ AccessTTL \in Nat
         /\ SessionTTL \in Nat /\ TokenTTL \in Nat /\ RotationInterval \in Nat
         /\ GracePeriod \in Nat /\ TokenTTL < Epoch
PROOF
  <1>1. /\ Epoch \in Nat /\ CodeTTL \in Nat /\ RefreshTTL \in Nat /\ AccessTTL \in Nat
        /\ SessionTTL \in Nat /\ TokenTTL \in Nat /\ RotationInterval \in Nat
        /\ GracePeriod \in Nat /\ TokenTTL < Epoch
    BY ConstantsAssumption, Zenon
  <1>2. now \in Epoch .. Epoch + config.ticks
    BY Zenon DEF TypeOK
  <1> QED BY <1>1, <1>2, ConfigFields, SMT

\* What a request holds has the fields of a row, whichever table it is from.
LEMMA HeldFields ==
  ASSUME TypeOK, NEW r \in Requests, held[r] # None
  PROVE  /\ held[r].client \in Clients /\ held[r].user \in Users \cup {None}
         /\ held[r].scope \in SUBSET Scopes /\ held[r].session \in Sessions \cup {None}
         /\ held[r].root \in Grants \cup {None}
PROOF
  <1>1. held[r] \in TokenRow \/ held[r] \in CodeRow
    BY Zenon DEF TypeOK
  <1> QED BY <1>1, SMT DEF TokenRow, CodeRow

\* A call has the fields of a call.
LEMMA CallFields ==
  ASSUME TypeOK, NEW r \in Requests, call[r] # None
  PROVE  /\ call[r] \in Call
         /\ Client(r) \in Clients /\ call[r].session \in Sessions \cup {None}
         /\ call[r].token \in Names /\ call[r].kind \in Kinds
         /\ call[r].scope \in {None} \cup SUBSET Scopes
PROOF
  <1>1. call[r] \in Call
    BY Zenon DEF TypeOK
  <1> QED BY <1>1, SMT DEF Call, Client

\* The rows have the fields of rows.
LEMMA RowFields ==
  ASSUME TypeOK
  PROVE  /\ \A g \in Grants : granted[g] # None =>
              /\ granted[g] \in CodeRow
              /\ granted[g].client \in Clients /\ granted[g].user \in Users
              /\ granted[g].scope \in SUBSET Scopes /\ granted[g].session \in Sessions
              /\ granted[g].root \in Grants
         /\ \A n \in Names : refresh[n] # None =>
              /\ refresh[n] \in RefreshRow
              /\ refresh[n].client \in Clients /\ refresh[n].user \in Users
              /\ refresh[n].scope \in SUBSET Scopes /\ refresh[n].session \in Sessions
              /\ refresh[n].root \in Grants /\ refresh[n].revoked \in BOOLEAN
         /\ \A n \in Names : access[n] # None =>
              /\ access[n] \in TokenRow
              /\ access[n].client \in Clients /\ access[n].user \in Users \cup {None}
              /\ access[n].scope \in SUBSET Scopes
              /\ access[n].session \in Sessions \cup {None}
              /\ access[n].root \in Grants \cup {None}
         /\ \A kind \in SignedKinds, r \in Requests : jwts[kind][r] # None =>
              /\ jwts[kind][r] \in Jwt
              /\ jwts[kind][r].key \in KeyNames /\ jwts[kind][r].expiresAt \in Nat
              /\ jwts[kind][r].client \in Clients \cup {None}
              /\ jwts[kind][r].user \in Users \cup {None}
              /\ jwts[kind][r].scope \in SUBSET Scopes
              /\ jwts[kind][r].sid \in Sessions \cup {None}
              /\ jwts[kind][r].root \in Grants \cup {None}
         /\ \A k \in KeyNames : keys[k] # None =>
              keys[k] \in KeyRow /\ keys[k].createdAt \in Nat /\ keys[k].active \in BOOLEAN
PROOF
  <1>1. /\ \A g \in Grants : granted[g] # None => granted[g] \in CodeRow
        /\ \A n \in Names : refresh[n] # None => refresh[n] \in RefreshRow
        /\ \A n \in Names : access[n] # None => access[n] \in TokenRow
        /\ \A kind \in SignedKinds, r \in Requests : jwts[kind][r] # None =>
             jwts[kind][r] \in Jwt
        /\ \A k \in KeyNames : keys[k] # None => keys[k] \in KeyRow
    BY SMT DEF TypeOK
  <1>2. ASSUME NEW row \in CodeRow
        PROVE  /\ row.client \in Clients /\ row.user \in Users
               /\ row.scope \in SUBSET Scopes /\ row.session \in Sessions
               /\ row.root \in Grants
    BY SMT DEF CodeRow
  <1>3. ASSUME NEW row \in RefreshRow
        PROVE  /\ row.client \in Clients /\ row.user \in Users
               /\ row.scope \in SUBSET Scopes /\ row.session \in Sessions
               /\ row.root \in Grants /\ row.revoked \in BOOLEAN
    BY SMT DEF RefreshRow
  <1>4. ASSUME NEW row \in TokenRow
        PROVE  /\ row.client \in Clients /\ row.user \in Users \cup {None}
               /\ row.scope \in SUBSET Scopes /\ row.session \in Sessions \cup {None}
               /\ row.root \in Grants \cup {None}
    BY SMT DEF TokenRow
  <1>5. ASSUME NEW row \in Jwt
        PROVE  /\ row.key \in KeyNames /\ row.expiresAt \in Nat
               /\ row.client \in Clients \cup {None} /\ row.user \in Users \cup {None}
               /\ row.scope \in SUBSET Scopes /\ row.sid \in Sessions \cup {None}
               /\ row.root \in Grants \cup {None}
    BY SMT DEF Jwt
  <1>6. ASSUME NEW row \in KeyRow
        PROVE  row.createdAt \in Nat /\ row.active \in BOOLEAN
    BY SMT DEF KeyRow
  <1>7. \A g \in Grants : granted[g] # None =>
          /\ granted[g] \in CodeRow
          /\ granted[g].client \in Clients /\ granted[g].user \in Users
          /\ granted[g].scope \in SUBSET Scopes /\ granted[g].session \in Sessions
          /\ granted[g].root \in Grants
    BY <1>1, <1>2, Zenon
  <1>8. \A n \in Names : refresh[n] # None =>
          /\ refresh[n] \in RefreshRow
          /\ refresh[n].client \in Clients /\ refresh[n].user \in Users
          /\ refresh[n].scope \in SUBSET Scopes /\ refresh[n].session \in Sessions
          /\ refresh[n].root \in Grants /\ refresh[n].revoked \in BOOLEAN
    BY <1>1, <1>3, Zenon
  <1>9. \A n \in Names : access[n] # None =>
          /\ access[n] \in TokenRow
          /\ access[n].client \in Clients /\ access[n].user \in Users \cup {None}
          /\ access[n].scope \in SUBSET Scopes
          /\ access[n].session \in Sessions \cup {None}
          /\ access[n].root \in Grants \cup {None}
    BY <1>1, <1>4, Zenon
  <1> QED BY <1>1, <1>5, <1>6, <1>7, <1>8, <1>9, Zenon

\* A signed token is one, whatever it is signed for.
LEMMA ClaimsType ==
  ASSUME TypeOK, NEW r \in Requests, RequestOK(r), NEW k \in KeyNames,
         pc[r] \in {"find-key", "create-key"}, signing[r] \in SignedKinds
  PROVE  Claims(r, k) \in Jwt
PROOF
  <1>1. CASE signing[r] = "session_token"
    <2>1. call[r] # None /\ call[r].session \in Sessions
      BY <1>1, CallFields, SMT DEF RequestOK, CallOK, HandlerOK
    <2>2. UserOf[call[r].session] \in Users
      BY <2>1, ConstantsAssumption, Zenon
    <2>3. (IF config.seconds THEN TokenTTL ELSE now + TokenTTL) \in Nat
      BY Times, SMT
    <2> QED BY <1>1, <2>2, <2>3, SMT DEF Claims, Jwt
  <1>2. CASE signing[r] # "session_token"
    <2>1. signing[r] \in {"access_token", "id_token"}
      BY <1>2, SMT DEF SignedKinds, Kinds
    <2>2. held[r] # None
      BY <2>1, SMT DEF RequestOK, IssuerOK, Entitled, Issuing, NeedsKeyFor
    <2>3. now + AccessTTL \in Nat
      BY Times, SMT
    <2> QED BY <1>2, <2>2, <2>3, HeldFields, SMT DEF Claims, Jwt
  <1> QED BY <1>1, <1>2

\* What a client_credentials call holds is a row that belongs to no user.
LEMMA ForItselfType ==
  ASSUME TypeOK, NEW c \in Call
  PROVE  /\ ForItself(c) \in TokenRow /\ ForItself(c).client = c.client
         /\ ForItself(c).user = None /\ ForItself(c).root = None
         /\ ForItself(c).session = None
PROOF
  <1>1. c.client \in Clients /\ c.scope \in {None} \cup SUBSET Scopes
    BY SMT DEF Call
  <1>2. (IF c.scope = None THEN {} ELSE c.scope) \in SUBSET Scopes
    BY <1>1, SMT
  <1> QED BY <1>1, <1>2, Times, SMT DEF ForItself, TokenRow

\* What a refresh holds is a row.
LEMMA RenewedType ==
  ASSUME TypeOK, NEW r \in Requests, call[r] # None, NEW row \in RefreshRow
  PROVE  /\ Renewed(r, row) \in TokenRow /\ Renewed(r, row).client = Client(r)
         /\ Renewed(r, row).user = row.user /\ Renewed(r, row).root = row.root
         /\ Renewed(r, row).session = row.session
         /\ Renewed(r, row).scope = NewScope(r, row)
PROOF
  <1>1. /\ row.user \in Users /\ row.session \in Sessions /\ row.root \in Grants
        /\ row.scope \in SUBSET Scopes
    BY SMT DEF RefreshRow
  <1>2. NewScope(r, row) \in SUBSET Scopes
    BY <1>1, CallFields, SMT DEF NewScope
  <1> QED BY <1>1, <1>2, CallFields, Times, SMT DEF Renewed, TokenRow

\* What a request is told, or told of, is an answer.
LEMMA ToldType ==
  ASSUME TypeOK, NEW r \in Requests, RequestOK(r), StepOf(r)
  PROVE  told' \in [Requests -> Answer \cup {None}]
PROOF
  <1> DEFINE Fine == told' \in [Requests -> Answer \cup {None}]
  <1> SUFFICES Fine
    OBVIOUS
  <1>1. told \in [Requests -> Answer \cup {None}] /\ sessions \subseteq Sessions
    BY Zenon DEF TypeOK
  <1>2. ASSUME NEW a \in Answer, told' = [told EXCEPT ![r] = a]
        PROVE  Fine
    BY <1>1, <1>2, SMT
  <1>3. ASSUME told' = told
        PROVE  Fine
    BY <1>1, <1>3
  <1>4. ASSUME told' = [told EXCEPT ![r] = None]
        PROVE  Fine
    BY <1>1, <1>4, SMT
  <1> HIDE DEF Fine
  <1>5. ASSUME NEW c, Begin(r, c)
        PROVE  Fine
    BY <1>3, <1>5, Beginnings, Zenon
  <1>6. ASSUME NEW k \in KeyNames, UseKey(r, k)
        PROVE  Fine
    <2>1. told' = told \/ Said(r, TRUE, None, None, {k})
      BY <1>6, Zenon DEF UseKey
    <2>2. {k} \subseteq KeyNames
      BY Zenon
    <2> DEFINE a == [active |-> TRUE, user |-> None, sid |-> None, keys |-> {k}]
    <2>5. a \in Answer
      BY SMT DEF Answer
    <2>6. told' = told \/ told' = [told EXCEPT ![r] = a]
      BY <2>1, Zenon DEF Said
    <2> HIDE DEF a
    <2> QED BY <1>2, <1>3, <2>5, <2>6, Zenon
  <1>7. CASE FindKey(r)
    <2>1. told' = told \/ \E k \in KeyNames : UseKey(r, k)
      BY <1>7, SMT DEF FindKey, Newest, Active, Rows
    <2> QED BY <1>3, <1>6, <2>1
  <1>8. CASE CreateKey(r)
    <2>1. signing[r] \in Purposes
      BY <1>8, SMT DEF CreateKey, At, RequestOK, HandlerOK
    <2>2. <<r, signing[r]>> \in KeyNames
      BY <2>1, SMT DEF TypeOK, KeyNames
    <2> QED BY <1>6, <1>8, <2>2, Zenon DEF CreateKey
  <1>9. CASE ListKeys(r)
    <2>1. Published \subseteq KeyNames
      BY SMT DEF Published, Rows
    <2>2. told' = told \/ Said(r, TRUE, None, None, Published)
      BY <1>9, Zenon DEF ListKeys
    <2> DEFINE a == [active |-> TRUE, user |-> None, sid |-> None, keys |-> Published]
    <2>5. a \in Answer
      BY <2>1, SMT DEF Answer
    <2>6. told' = told \/ told' = [told EXCEPT ![r] = a]
      BY <2>2, Zenon DEF Said
    <2> HIDE DEF a
    <2> QED BY <1>2, <1>3, <2>5, <2>6, Zenon
  <1>10. ASSUME pc[r] # "idle", IsAccessToken(call[r])
         PROVE  /\ Presented(call[r]).user \in Users \cup {None}
                /\ Presented(call[r]).sid \in Sessions \cup {None}
    <2>1. call[r] # None
      BY <1>10, Zenon DEF RequestOK, CallOK
    <2>2. CASE Signed(call[r])
      <3>1. /\ call[r].kind \in SignedKinds /\ call[r].token \in Requests
            /\ jwts[call[r].kind][call[r].token] # None
        BY <2>2, Zenon DEF Signed, Verifies
      <3>2. Presented(call[r]) = jwts[call[r].kind][call[r].token]
        BY <2>2, Zenon DEF Presented
      <3> QED BY <3>1, <3>2, RowFields, SMT
    <2>3. CASE ~Signed(call[r])
      <3>1. call[r].token \in Names /\ access[call[r].token] # None
        BY <1>10, <2>1, <2>3, CallFields, Zenon DEF IsAccessToken, Opaque
      <3>2. /\ access[call[r].token].user \in Users \cup {None}
            /\ access[call[r].token].session \in Sessions \cup {None}
        BY <3>1, RowFields, Zenon
      <3> QED BY <2>3, <3>2, SMT DEF Presented
    <2> QED BY <2>2, <2>3
  <1>11. CASE LoadUserInfo(r)
    <2>1. CASE told' = told
      BY <1>3, <2>1
    <2>2. CASE told' # told
      <3>1. /\ pc[r] # "idle" /\ IsAccessToken(call[r])
            /\ Said(r, TRUE, Presented(call[r]).user, None, {})
        BY <1>11, <2>2, Zenon DEF LoadUserInfo, At
      <3> DEFINE a == [active |-> TRUE, user |-> Presented(call[r]).user, sid |-> None, keys |-> {}]
      <3>5. a \in Answer
        BY <1>10, <3>1, SMT DEF Answer
      <3>6. told' = [told EXCEPT ![r] = a]
        BY <3>1, Zenon DEF Said
      <3> HIDE DEF a
      <3> QED BY <1>2, <1>3, <3>5, <3>6, Zenon
    <2> QED BY <2>1, <2>2
  <1>12. CASE LoadIntrospected(r)
    <2>1. pc[r] # "idle"
      BY <1>12, Zenon DEF LoadIntrospected, At
    <2>2. CASE Introspected(call[r]) # "none" /\ SessionOf(call[r]) # None
      <3>1. SessionOf(call[r]) \in Sessions \cup {None}
        <4>1. CASE Introspected(call[r]) = "access_token"
          BY <1>10, <2>1, <4>1, SMT DEF SessionOf, Introspected
        <4>2. CASE Introspected(call[r]) # "access_token"
          <5>1. Refreshable(call[r])
            BY <2>2, <4>2, Zenon DEF Introspected
          <5>2. call[r] # None
            BY <2>1, Zenon DEF RequestOK, CallOK
          <5>3. call[r].token \in Names /\ refresh[call[r].token] # None
            BY <5>1, <5>2, CallFields, Zenon DEF Refreshable, Live
          <5>4. refresh[call[r].token].session \in Sessions
            BY <5>3, RowFields, Zenon
          <5> QED BY <4>2, <5>4, Zenon DEF SessionOf
        <4> QED BY <4>1, <4>2
      <3>2. Said(r, TRUE, None, SessionOf(call[r]), {})
        BY <1>12, <2>2, Zenon DEF LoadIntrospected
      <3> DEFINE a == [active |-> TRUE, user |-> None, sid |-> SessionOf(call[r]), keys |-> {}]
      <3>5. a \in Answer
        BY <3>1, SMT DEF Answer
      <3>6. told' = [told EXCEPT ![r] = a]
        BY <3>2, Zenon DEF Said
      <3> HIDE DEF a
      <3> QED BY <1>2, <1>3, <3>5, <3>6, Zenon
    <2>3. CASE ~(Introspected(call[r]) # "none" /\ SessionOf(call[r]) # None)
      <3>1. \E active \in BOOLEAN : told' = [told EXCEPT ![r] =
                [active |-> active, user |-> None, sid |-> None, keys |-> {}]]
        BY <1>12, <2>3, Zenon DEF LoadIntrospected, Said
      <3>2. \A active \in BOOLEAN :
              [active |-> active, user |-> None, sid |-> None, keys |-> {}] \in Answer
        BY SMT DEF Answer
      <3> QED BY <1>2, <3>1, <3>2, Zenon
    <2> QED BY <2>2, <2>3
  <1>13. CASE LoadSession(r)
    <2>1. (IF told[r].sid \in LiveSessions THEN told[r].sid ELSE None) \in Sessions \cup {None}
      BY <1>1, SMT DEF LiveSessions
    <2>2. Said(r, TRUE, None, IF told[r].sid \in LiveSessions THEN told[r].sid ELSE None, {})
      BY <1>13, Zenon DEF LoadSession
    <2> DEFINE a == [active |-> TRUE, user |-> None,
                   sid |-> IF told[r].sid \in LiveSessions THEN told[r].sid ELSE None,
                   keys |-> {}]
    <2>5. a \in Answer
      BY <2>1, SMT DEF Answer
    <2>6. told' = [told EXCEPT ![r] = a]
      BY <2>2, Zenon DEF Said
    <2> HIDE DEF a
    <2> QED BY <1>2, <1>3, <2>5, <2>6, Zenon
  <1>14. CASE Fail(r)
    BY <1>4, <1>14, Zenon DEF Fail
  <1>15. CASE Handle(r) /\ ~(\/ FindKey(r) \/ CreateKey(r) \/ ListKeys(r) \/ LoadUserInfo(r)
                             \/ LoadIntrospected(r) \/ LoadSession(r))
    <2>1. told' = told
      BY <1>15, Zenon DEF Handle, Grant, CodeNotFound, SelectCode, FindRefresh,
         Rotate, TearDown, IssueAccess, MintRefresh, Classify, provider,
         DropRefresh, DropAccess, RetireKeys, ConsumeCode,
         RemoveCode, InsertClient, DeleteSession
    <2> QED BY <1>3, <2>1
  <1> QED
    BY <1>5, <1>7, <1>8, <1>9, <1>11, <1>12, <1>13, <1>14, <1>15, Zenon DEF StepOf

\* The tables keep their types whatever request moves.
LEMMA TablesType ==
  ASSUME TypeOK, RowsOK, NEW r \in Requests, RequestOK(r), StepOf(r)
  PROVE  /\ clients' \in [Clients -> ClientRow \cup {None}]
         /\ sessions' \subseteq Sessions
         /\ codes' \in [Grants -> CodeRow \cup {None}]
         /\ refresh' \in [Names -> RefreshRow \cup {None}]
         /\ access' \in [Names -> TokenRow \cup {None}]
         /\ keys' \in [KeyNames -> KeyRow \cup {None}]
         /\ tornDown' \subseteq Grants
PROOF
  <1>1. clients' \in [Clients -> ClientRow \cup {None}]
    <2>1. clients \in [Clients -> ClientRow \cup {None}]
      BY Zenon DEF TypeOK
    <2>2. CASE InsertClient(r)
      <3>1. call[r] \in Call
        BY <2>2, CallFields, Zenon DEF InsertClient, At, RequestOK, CallOK
      <3>2. NewClient(call[r]) \in ClientRow
        BY <3>1, SMT DEF NewClient, ClientRow, Call
      <3>3. \A row \in ClientRow : [row EXCEPT !.logout = FALSE] \in ClientRow
        BY Zenon DEF ClientRow
      <3>4. Metadata(call[r]) \in ClientRow
        BY <3>2, <3>3, Zenon DEF Metadata
      <3>5. clients' = [clients EXCEPT ![Client(r)] =
               IF @ = None THEN Metadata(call[r]) ELSE @]
        BY <2>2, Zenon DEF InsertClient
      <3> QED BY <2>1, <3>4, <3>5, Zenon
    <2> QED BY <2>1, <2>2, Writes, Zenon
  <1>2. sessions' \subseteq Sessions
    BY Writes, SMT DEF DeleteSession, TypeOK
  <1>3. codes' \in [Grants -> CodeRow \cup {None}]
    <2>1. codes' = codes \/ \E t : codes' = [codes EXCEPT ![t] = None]
      BY Writes, Zenon DEF ConsumeCode, RemoveCode
    <2> QED BY <2>1, SMT DEF TypeOK
  <1>4. refresh' \in [Names -> RefreshRow \cup {None}]
    <2>1. refresh \in [Names -> RefreshRow \cup {None}]
      BY Zenon DEF TypeOK
    <2>2. CASE Rotate(r)
      <3>1. \/ refresh' = refresh
            \/ \E t : refresh[t] # None /\ refresh' = [refresh EXCEPT ![t].revoked = TRUE]
        BY <2>2, Zenon DEF Rotate
      <3>2. \A t \in Names : refresh[t] # None =>
              [refresh[t] EXCEPT !.revoked = TRUE] \in RefreshRow
        <4>1. \A row \in RefreshRow : [row EXCEPT !.revoked = TRUE] \in RefreshRow
          BY Zenon DEF RefreshRow
        <4> QED BY <2>1, <4>1, SMT
      <3> QED BY <2>1, <3>1, <3>2, SMT
    <2>3. CASE TearDown(r) \/ DropRefresh(r)
      <3>1. \E S : refresh' = [n \in Names |-> IF n \in S THEN None ELSE refresh[n]]
        BY <2>3, Zenon DEF TearDown, DropRefresh, DropRefreshTokens
      <3> QED BY <2>1, <3>1, SMT
    <2>4. CASE MintRefresh(r)
      <3>1. pc[r] = "mint" /\ refresh' = [refresh EXCEPT ![r] = Refreshing(r, held[r].user)]
        BY <2>4, Zenon DEF MintRefresh, At
      <3>2. /\ held[r] # None /\ call[r] # None /\ OfGrant(granted, held[r])
            /\ "offline_access" \in held[r].scope
            /\ held[r].root # None => held[r].session # None
        BY <3>1, SMT DEF RequestOK, CallOK, IssuerOK, Entitled, HandlerOK, Issuing
      <3>3. held[r].root # None
        BY <3>2, SMT DEF OfGrant, OfUsers
      <3>4. held[r].user \in Users
        BY <3>2, <3>3, HeldFields, RowFields, SMT DEF OfGrant
      <3>5. now + RefreshTTL \in Nat
        BY Times, SMT
      <3>6. Refreshing(r, held[r].user) \in RefreshRow
        BY <3>2, <3>3, <3>4, <3>5, HeldFields, CallFields, SMT DEF Refreshing, RefreshRow
      <3> QED BY <2>1, <3>1, <3>6, SMT DEF Names
    <2> QED BY <2>1, <2>2, <2>3, <2>4, Writes, Zenon
  <1>5. access' \in [Names -> TokenRow \cup {None}]
    <2>1. access \in [Names -> TokenRow \cup {None}]
      BY Zenon DEF TypeOK
    <2>2. CASE IssueAccess(r)
      <3>1. pc[r] = "access"
        BY <2>2, Zenon DEF IssueAccess, At
      <3>2. held[r] # None /\ call[r] # None
        BY <3>1, SMT DEF RequestOK, CallOK, IssuerOK, Entitled, Issuing
      <3>3. now + AccessTTL \in Nat
        BY Times, SMT
      <3>4. [client |-> Client(r), user |-> held[r].user, scope |-> held[r].scope,
             session |-> held[r].session, expiresAt |-> now + AccessTTL,
             root |-> held[r].root] \in TokenRow
        BY <3>2, <3>3, HeldFields, CallFields, SMT DEF TokenRow
      <3>5. access' = [access EXCEPT ![r] =
              [client |-> Client(r), user |-> held[r].user, scope |-> held[r].scope,
               session |-> held[r].session, expiresAt |-> now + AccessTTL,
               root |-> held[r].root]]
        BY <2>2, Zenon DEF IssueAccess
      <3> QED BY <2>1, <3>4, <3>5, SMT DEF Names
    <2>3. CASE DropAccess(r)
      <3>1. \E P \in [Names -> BOOLEAN] :
              access' = [m \in Names |-> IF P[m] THEN None ELSE access[m]]
        <4> DEFINE P == [m \in Names |-> /\ m = call[r].token /\ call[r].kind = "access_token"
                                         /\ access[m] # None /\ access[m].client = Client(r)]
        <4>1. access' = [m \in Names |-> IF P[m] THEN None ELSE access[m]]
          BY <2>3, SMT DEF DropAccess
        <4>2. P \in [Names -> BOOLEAN]
          BY SMT
        <4> QED BY <4>1, <4>2
      <3> QED BY <2>1, <3>1, SMT
    <2> QED BY <2>1, <2>2, <2>3, Writes, Zenon
  <1>6. keys' \in [KeyNames -> KeyRow \cup {None}]
    <2>1. keys \in [KeyNames -> KeyRow \cup {None}]
      BY Zenon DEF TypeOK
    <2>2. CASE CreateKey(r)
      <3>1. PICK k : keys' = [keys EXCEPT ![k] = [createdAt |-> now, active |-> TRUE]]
        BY <2>2, Zenon DEF CreateKey
      <3>2. [createdAt |-> now, active |-> TRUE] \in KeyRow
        BY Times, SMT DEF KeyRow
      <3>3. ASSUME NEW row \in KeyRow, keys' = [keys EXCEPT ![k] = row]
            PROVE  keys' \in [KeyNames -> KeyRow \cup {None}]
        BY <2>1, <3>3, Zenon
      <3> QED BY <3>1, <3>2, <3>3, Zenon
    <2>3. CASE RetireKeys(r)
      <3>1. \A k \in KeyNames : keys[k] # None =>
              [keys[k] EXCEPT !.active = FALSE] \in KeyRow
        <4>1. \A row \in KeyRow : [row EXCEPT !.active = FALSE] \in KeyRow
          BY Zenon DEF KeyRow
        <4> QED BY <2>1, <4>1, SMT
      <3>2. keys' = [k \in KeyNames |->
              IF k \in Active THEN [keys[k] EXCEPT !.active = FALSE] ELSE keys[k]]
        BY <2>3, Zenon DEF RetireKeys
      <3>3. \A k \in Active : keys[k] # None
        BY Zenon DEF Active, Rows
      <3> QED BY <2>1, <3>1, <3>2, <3>3, SMT
    <2> QED BY <2>1, <2>2, <2>3, Writes, Zenon
  <1>7. tornDown' \subseteq Grants
    <2>1. CASE TearDown(r)
      <3>1. \A n \in Family(held[r]) : refresh[n].root \in Grants
        BY RowFields, Zenon DEF Family
      <3>2. tornDown' = tornDown \cup {refresh[n].root : n \in Family(held[r])}
        BY <2>1, Zenon DEF TearDown
      <3> QED BY <3>1, <3>2, SMT DEF TypeOK
    <2> QED BY <2>1, Writes, Zenon DEF TypeOK
  <1> QED BY <1>1, <1>2, <1>3, <1>4, <1>5, <1>6, <1>7, Zenon

\* The state of the requests keeps its type whatever request moves.
LEMMA RequestsType ==
  ASSUME TypeOK, RowsOK, NEW r \in Requests, RequestOK(r), StepOf(r)
  PROVE  /\ pc' \in [Requests -> PCs]
         /\ call' \in [Requests -> Call \cup {None}]
         /\ held' \in [Requests -> TokenRow \cup CodeRow \cup {None}]
         /\ signing' \in [Requests -> Purposes \cup {None}]
         /\ jwts' \in [SignedKinds -> [Requests -> Jwt \cup {None}]]
         /\ redeemed' \in [Grants -> SUBSET Requests]
PROOF
  <1>1. pc' \in [Requests -> PCs]
    BY Moves, SMT DEF TypeOK, Goes
  <1>2. call' \in [Requests -> Call \cup {None}]
    <2>1. call \in [Requests -> Call \cup {None}]
      BY Zenon DEF TypeOK
    <2>2. ASSUME NEW c \in config.calls, Begin(r, c)
          PROVE  call' \in [Requests -> Call \cup {None}]
      <3>1. c \in Call /\ call' = [call EXCEPT ![r] = c]
        BY <2>2, Beginnings, ConfigFields, Zenon
      <3> QED BY <2>1, <3>1, SMT
    <2>3. CASE pc[r] # "idle"
      BY <2>1, <2>3, Keeps, Zenon
    <2>4. CASE pc[r] = "idle"
      <3>1. \E c \in config.calls : Begin(r, c)
        BY <2>4, Zenon DEF StepOf, Handle, Fail, InHandler, Grant, ConsumeCode, RemoveCode,
           CodeNotFound, SelectCode, FindRefresh, Rotate, TearDown, IssueAccess, MintRefresh,
           Classify, DropRefresh, DropAccess, FindKey, CreateKey, RetireKeys, ListKeys,
           LoadUserInfo, LoadIntrospected, LoadSession, InsertClient, DeleteSession, At
      <3> QED BY <2>2, <3>1
    <2> QED BY <2>3, <2>4
  <1>3. held' \in [Requests -> TokenRow \cup CodeRow \cup {None}]
    <2>1. held \in [Requests -> TokenRow \cup CodeRow \cup {None}]
      BY Zenon DEF TypeOK
    <2>2. ASSUME NEW h \in TokenRow \cup CodeRow \cup {None}, held' = [held EXCEPT ![r] = h]
          PROVE  held' \in [Requests -> TokenRow \cup CodeRow \cup {None}]
      BY <2>1, <2>2, SMT
    <2>3. ASSUME held' = held
          PROVE  held' \in [Requests -> TokenRow \cup CodeRow \cup {None}]
      BY <2>1, <2>3
    <2>4. ASSUME NEW c \in config.calls, Begin(r, c)
          PROVE  held' \in [Requests -> TokenRow \cup CodeRow \cup {None}]
      <3>1. CASE Token(r, c)
        <4>1. ForItself(c) \in TokenRow
          BY ConfigFields, ForItselfType
        <4>2. held' = [held EXCEPT ![r] = ForItself(c)] \/ held' = [held EXCEPT ![r] = None]
          BY <3>1, Zenon DEF Token
        <4> QED BY <2>2, <4>1, <4>2, SMT
      <3> QED BY <2>3, <2>4, <3>1, Beginnings, Zenon
    <2>5. ASSUME pc[r] \in {"consume", "remove"}
          PROVE  call[r].token \in Grants
      BY <2>5, Zenon DEF RequestOK, HandlerOK
    <2>6. CASE ConsumeCode(r) \/ SelectCode(r)
      <3>1. /\ call[r].token \in Grants
            /\ held' = held \/ held' = [held EXCEPT ![r] = codes[call[r].token]]
        BY <2>5, <2>6, Zenon DEF ConsumeCode, SelectCode, Exchange, At
      <3>2. codes[call[r].token] \in CodeRow \cup {None}
        BY <3>1, SMT DEF TypeOK
      <3> QED BY <2>2, <2>3, <3>1, <3>2, SMT
    <2>7. CASE RemoveCode(r)
      <3>1. held' = held \/ held' = [held EXCEPT ![r] = held[r]]
        BY <2>7, Zenon DEF RemoveCode, Exchange
      <3> QED BY <2>1, <2>2, <2>3, <3>1, SMT
    <2>8. CASE FindRefresh(r)
      <3>1. \/ held' = held
            \/ /\ refresh[call[r].token] # None
               /\ held' = [held EXCEPT ![r] = Renewed(r, refresh[call[r].token])]
        BY <2>8, Zenon DEF FindRefresh
      <3>2. call[r] # None
        BY <2>8, Zenon DEF FindRefresh, At, RequestOK, CallOK
      <3>3. refresh[call[r].token] # None => refresh[call[r].token] \in RefreshRow
        BY <3>2, CallFields, RowFields, Zenon
      <3>4. refresh[call[r].token] # None => Renewed(r, refresh[call[r].token]) \in TokenRow
        BY <3>2, <3>3, RenewedType, Zenon
      <3> QED BY <2>2, <2>3, <3>1, <3>4, SMT
    <2>9. CASE ~(ConsumeCode(r) \/ SelectCode(r) \/ RemoveCode(r) \/ FindRefresh(r))
      <3>1. ASSUME Handle(r) \/ Fail(r)
            PROVE  held' = held
        BY <2>9, <3>1, Zenon DEF Handle, Grant, CodeNotFound, Fail,
           Rotate, TearDown, IssueAccess, MintRefresh, Classify,
           DropRefresh, DropAccess, FindKey, RetireKeys, ListKeys, LoadUserInfo,
           LoadIntrospected, LoadSession, InsertClient, DeleteSession, CreateKey
      <3> QED BY <2>3, <2>4, <3>1, Zenon DEF StepOf
    <2> QED BY <2>6, <2>7, <2>8, <2>9
  <1>4. signing' \in [Requests -> Purposes \cup {None}]
    <2>1. signing \in [Requests -> Purposes \cup {None}]
      BY Zenon DEF TypeOK
    <2>2. ASSUME NEW s \in Purposes, signing' = [signing EXCEPT ![r] = s]
          PROVE  signing' \in [Requests -> Purposes \cup {None}]
      BY <2>1, <2>2, SMT
    <2>3. /\ "access_token" \in Purposes /\ "id_token" \in Purposes /\ "session_token" \in Purposes
          /\ "kid" \in Purposes /\ "jwks" \in Purposes /\ "rotate" \in Purposes
      BY Zenon DEF Purposes, SignedKinds, Kinds
    <2>4. \/ signing' = signing
          \/ \E s \in {"access_token", "id_token", "session_token", "kid", "jwks", "rotate"} :
               signing' = [signing EXCEPT ![r] = s]
      <3>1. ASSUME NEW c, Begin(r, c)
            PROVE  \/ signing' = signing
                   \/ \E s \in {"access_token", "id_token", "session_token", "kid", "jwks", "rotate"} :
                        signing' = [signing EXCEPT ![r] = s]
        BY <3>1, Zenon DEF Begin, Token, Revoke, GetToken, RotateKeys, GetJwks,
           Register, UserInfo, Introspect, EndSession, IssueTokens, NeedKey
      <3>2. ASSUME Handle(r) \/ Fail(r)
            PROVE  \/ signing' = signing
                   \/ \E s \in {"access_token", "id_token", "session_token", "kid", "jwks", "rotate"} :
                        signing' = [signing EXCEPT ![r] = s]
        BY <3>2, Zenon DEF Handle, Grant, CodeNotFound, SelectCode, FindRefresh, Fail,
           Rotate, TearDown, IssueAccess, MintRefresh, Classify,
           DropRefresh, DropAccess, FindKey, RetireKeys, ListKeys, LoadUserInfo, ConsumeCode,
           RemoveCode, LoadIntrospected, LoadSession, InsertClient, DeleteSession, CreateKey,
           Exchange, UseKey, IssueTokens, ThenRefresh, ThenIdToken, NeedKey
      <3> QED BY <3>1, <3>2, Zenon DEF StepOf
    <2> QED BY <2>1, <2>2, <2>3, <2>4, Zenon
  <1>5. jwts' \in [SignedKinds -> [Requests -> Jwt \cup {None}]]
    <2>1. jwts \in [SignedKinds -> [Requests -> Jwt \cup {None}]]
      BY Zenon DEF TypeOK
    <2>2. ASSUME NEW k \in KeyNames, UseKey(r, k), pc[r] \in {"find-key", "create-key"}
          PROVE  jwts' \in [SignedKinds -> [Requests -> Jwt \cup {None}]]
      <3>1. CASE jwts' = jwts
        BY <2>1, <3>1
      <3>2. CASE jwts' # jwts
        <4>1. /\ signing[r] \in SignedKinds
              /\ jwts' = [jwts EXCEPT ![signing[r]][r] = Claims(r, k)]
          BY <2>2, <3>2, Zenon DEF UseKey
        <4>2. Claims(r, k) \in Jwt
          BY <2>2, <4>1, ClaimsType
        <4> QED BY <2>1, <4>1, <4>2, SMT
      <3> QED BY <3>1, <3>2
    <2>3. CASE FindKey(r)
      <3>1. jwts' = jwts \/ \E k \in Newest : UseKey(r, k)
        BY <2>3, Zenon DEF FindKey
      <3>2. Newest \subseteq KeyNames
        BY Zenon DEF Newest, Active, Rows
      <3> QED BY <2>1, <2>2, <2>3, <3>1, <3>2, Zenon DEF FindKey, At
    <2>4. CASE CreateKey(r)
      <3>1. pc[r] = "create-key" /\ UseKey(r, <<r, signing[r]>>)
        BY <2>4, Zenon DEF CreateKey, At
      <3>2. signing[r] \in Purposes
        BY <3>1, Zenon DEF RequestOK, HandlerOK
      <3>3. <<r, signing[r]>> \in KeyNames
        BY <3>2, SMT DEF TypeOK, KeyNames
      <3> QED BY <2>2, <3>1, <3>3, Zenon
    <2> QED BY <2>1, <2>3, <2>4, Writes, Zenon
  <1>6. redeemed' \in [Grants -> SUBSET Requests]
    <2>1. \/ redeemed' = redeemed
          \/ \E g : redeemed' = [redeemed EXCEPT ![g] = @ \cup {r}]
      BY Writes, Zenon DEF ConsumeCode, RemoveCode, Exchange
    <2> QED BY <2>1, SMT DEF TypeOK
  <1> QED BY <1>1, <1>2, <1>3, <1>4, <1>5, <1>6, Zenon

\* Every step keeps the types.
LEMMA TypesStep ==
  ASSUME IInv, Next
  PROVE  TypeOK'
PROOF
  <1> USE DEF IInv
  <1>1. CASE Tick
    BY <1>1, ConfigFields, Times, SMT DEF Tick, TypeOK, provider, history, tables
  <1>2. ASSUME NEW g \in Grants, NEW a \in config.asked, Authorize(g, a)
        PROVE  TypeOK'
    <2> DEFINE row == [client |-> a.client, user |-> UserOf[a.session], scope |-> a.scope,
                       session |-> a.session, challenge |-> a.challenge,
                       expiresAt |-> now + CodeTTL, root |-> g]
    <2>1. a \in Authorization /\ a.session \in Sessions
      BY <1>2, ConfigFields, SMT DEF Authorize, LiveSessions, TypeOK
    <2>2. UserOf[a.session] \in Users /\ now + CodeTTL \in Nat
      BY <2>1, ConstantsAssumption, Times, SMT
    <2>3. row \in CodeRow
      BY <2>1, <2>2, SMT DEF Authorization, CodeRow
    <2>4. /\ granted' = [granted EXCEPT ![g] = row] /\ codes' = [codes EXCEPT ![g] = row]
          /\ UNCHANGED <<provider, now, refresh, access, pc, call, held, signing, redeemed, tornDown>>
      BY <1>2, Zenon DEF Authorize
    <2> HIDE DEF row
    <2>5. /\ granted' \in [Grants -> CodeRow \cup {None}]
          /\ codes' \in [Grants -> CodeRow \cup {None}]
      BY <2>3, <2>4, SMT DEF TypeOK
    <2> QED BY <2>4, <2>5, Zenon DEF TypeOK, provider
  <1>3. ASSUME NEW s, RevokeSession(s)
        PROVE  TypeOK'
    <2>1. sessions' \subseteq Sessions
      BY <1>3, SMT DEF RevokeSession, TypeOK
    <2> QED BY <1>3, <2>1, Zenon DEF RevokeSession, TypeOK, history, tables
  <1>4. ASSUME NEW r \in Requests, StepOf(r)
        PROVE  TypeOK'
    <2>1. RequestOK(r)
      BY Zenon DEF RequestsOK
    <2>2. config' = config /\ now' = now /\ granted' = granted
      BY <1>4, Writes, Zenon
    <2> QED BY <1>4, <2>1, <2>2, TablesType, RequestsType, ToldType, Zenon DEF TypeOK
  <1> QED BY <1>1, <1>2, <1>3, <1>4, Steps, Zenon

-----------------------------------------------------------------------------
(* What does not change                                                     *)

\* Grants, clients, calls and what tokens are issued for are settled once.
LEMMA Lasting ==
  ASSUME IInv, Next
  PROVE  /\ config' = config /\ now' \in Nat /\ now' >= now
         /\ \A g \in Grants : granted[g] # None => granted'[g] = granted[g]
         /\ \A c \in Clients : clients[c] # None => clients'[c] = clients[c]
         /\ \A r \in Requests :
              /\ pc[r] # "idle" => pc'[r] # "idle" /\ call'[r] = call[r]
              /\ Decided(r) => Decided(r)' /\ held'[r] = held[r]
              /\ pc[r] = "done" => pc'[r] = "done"
PROOF
  <1> USE DEF IInv
  <1>1. CASE Tick
    BY <1>1, Times, SMT DEF Tick, provider, history, tables, Decided
  <1>2. ASSUME NEW g \in Grants, NEW a \in config.asked, Authorize(g, a)
        PROVE  /\ granted[g] = None
               /\ \E row : granted' = [granted EXCEPT ![g] = row]
               /\ UNCHANGED <<config, clients, now, pc, call, held>>
    BY <1>2, Zenon DEF Authorize, provider
  <1>3. ASSUME NEW s, RevokeSession(s)
        PROVE  UNCHANGED <<config, clients, now, granted, pc, call, held>>
    BY <1>3, Zenon DEF RevokeSession, history
  <1>4. ASSUME NEW r \in Requests, StepOf(r)
        PROVE  /\ config' = config /\ now' = now /\ granted' = granted
               /\ \A c \in Clients : clients[c] # None => clients'[c] = clients[c]
               /\ \A q \in Requests :
                    /\ pc[q] # "idle" => pc'[q] # "idle" /\ call'[q] = call[q]
                    /\ Decided(q) => Decided(q)' /\ held'[q] = held[q]
                    /\ pc[q] = "done" => pc'[q] = "done"
    <2>1. config' = config /\ now' = now /\ granted' = granted
      BY <1>4, Writes, Zenon
    <2>2. \A c \in Clients : clients[c] # None => clients'[c] = clients[c]
      BY <1>4, Writes, SMT DEF InsertClient, TypeOK
    <2>3. ASSUME NEW q \in Requests \ {r}
          PROVE  pc'[q] = pc[q] /\ call'[q] = call[q] /\ held'[q] = held[q]
      BY <1>4, Keeps, Zenon
    <2>4. /\ pc[r] # "done"
          /\ pc[r] # "idle" => pc'[r] # "idle" /\ call'[r] = call[r]
          /\ Decided(r) => Decided(r)' /\ held'[r] = held[r]
      <3>1. PICK to \in PCs : Goes(r, to)
        BY <1>4, Moves
      <3>2. pc'[r] = to
        BY <3>1, SMT DEF Goes, TypeOK
      <3>3. Decided(r) => Decided(r)'
        BY <3>1, <3>2, SMT DEF Goes, Decided
      <3>4. pc[r] # "idle" => pc'[r] # "idle"
        BY <3>1, <3>2, SMT DEF Goes
      <3> QED BY <1>4, <3>3, <3>4, Moves, Keeps, Zenon
    <2> QED BY <2>1, <2>2, <2>3, <2>4, SMT DEF Decided
  <1>5. now \in Nat /\ granted \in [Grants -> CodeRow \cup {None}]
    BY Times, Zenon DEF TypeOK
  <1>6. ASSUME NEW g \in Grants, NEW a \in config.asked, Authorize(g, a), NEW h \in Grants,
               granted[h] # None
        PROVE  granted'[h] = granted[h]
    BY <1>2, <1>5, <1>6, SMT
  <1>7. ASSUME \E g \in Grants, a \in config.asked : Authorize(g, a)
        PROVE  /\ UNCHANGED <<config, clients, now, pc, call, held>>
               /\ \A h \in Grants : granted[h] # None => granted'[h] = granted[h]
    BY <1>2, <1>6, <1>7, Zenon
  <1>8. CASE UNCHANGED <<config, clients, now, pc, call, held>>
    <2>1. \A h \in Grants : granted[h] # None => granted'[h] = granted[h]
      <3>1. CASE Tick
        BY <1>1, <3>1, Zenon
      <3>2. CASE \E r \in Requests : StepOf(r)
        BY <1>4, <3>2, Zenon
      <3> QED BY <1>3, <1>7, <3>1, <3>2, Steps, Zenon
    <2> QED BY <1>5, <1>8, <2>1, SMT DEF Decided
  <1> QED
    <2>1. CASE \E r \in Requests : StepOf(r)
      BY <1>4, <1>5, <2>1, SMT
    <2> QED BY <1>1, <1>3, <1>7, <1>8, <2>1, Steps, Zenon

\* What n may have at most, and has, does not change when it was issued.
LEMMA Bounded ==
  ASSUME IInv, Next
  PROVE  /\ \A n \in Grants : Bound(n)' = Bound(n)
         /\ \A n \in Requests : pc[n] # "idle" => Bound(n)' = Bound(n)
         /\ \A n \in Requests : Decided(n) => ScopeOf(n)' = ScopeOf(n)
         /\ \A n \in Old : ScopeOf(n)' = ScopeOf(n)
PROOF
  <1>1. Old \subseteq Grants /\ Requests \cap Grants = {}
    BY ConstantsAssumption, Zenon
  <1>2. ASSUME NEW n \in Old
        PROVE  ScopeOf(n)' = ScopeOf(n)
    <2>1. granted'[n] = granted[n]
      BY <1>1, Lasting, Zenon DEF IInv, RowsOK, GrantOK
    <2>2. n \notin Requests
      BY <1>1, Zenon
    <2> QED BY <2>1, <2>2, SMT DEF ScopeOf
  <1>3. ASSUME NEW n \in Requests, Decided(n)
        PROVE  ScopeOf(n)' = ScopeOf(n)
    BY <1>3, Lasting, SMT DEF ScopeOf
  <1>4. ASSUME NEW n \in Grants
        PROVE  Bound(n)' = Bound(n)
    BY <1>1, SMT DEF Bound
  <1>5. ASSUME NEW n \in Requests, pc[n] # "idle"
        PROVE  Bound(n)' = Bound(n)
    <2>1. call'[n] = call[n]
      BY <1>5, Lasting, Zenon
    <2>2. CASE Op(n) # "refresh"
      BY <2>1, <2>2, SMT DEF Bound, Op
    <2>3. CASE Op(n) = "refresh"
      <3> DEFINE t == call[n].token
      <3>1. t \in Old \/ (t \in Requests /\ pc[t] = "done")
        BY <1>5, <2>3, SMT DEF IInv, RequestsOK, RequestOK, CallOK
      <3>2. ASSUME NEW u, u = t, u \in Old \/ (u \in Requests /\ pc[u] = "done")
            PROVE  ScopeOf(u)' = ScopeOf(u)
        BY <1>2, <1>3, <3>2, SMT DEF Decided
      <3>3. PICK u : u = t
        OBVIOUS
      <3>4. ScopeOf(u)' = ScopeOf(u)
        BY <3>1, <3>2, <3>3, Zenon
      <3>5. u = call'[n].token /\ Op(n)' = "refresh"
        BY <2>1, <2>3, <3>3, SMT DEF Op
      <3>6. Bound(n) = ScopeOf(u) /\ Bound(n)' = ScopeOf(u)'
        BY <2>3, <3>3, <3>5, SMT DEF Bound, ScopeOf
      <3> QED BY <3>4, <3>6, Zenon
    <2> QED BY <2>2, <2>3
  <1> QED BY <1>2, <1>3, <1>4, <1>5, Zenon

\* A row that goes back to a grant does so for good.
LEMMA OfGrantLasts ==
  ASSUME NEW G, NEW H, \A g \in Grants : G[g] # None => H[g] = G[g],
         NEW row, row.root \in Grants \cup {None}, OfGrant(G, row)
  PROVE  OfGrant(H, row) /\ (row.root # None => H[row.root] = G[row.root])
PROOF BY SMT DEF OfGrant

LEMMA OfSessionLasts ==
  ASSUME NEW G, NEW H, NEW row, NEW s, row.root # None => H[row.root] = G[row.root],
         OfSession(G, row, s)
  PROVE  OfSession(H, row, s)
PROOF BY SMT DEF OfSession

\* So does a row that says the same.
Says(row, other) ==
  /\ row.client = other.client /\ row.user = other.user
  /\ row.scope = other.scope /\ row.root = other.root /\ row.session = other.session

LEMMA OfGrantToo ==
  ASSUME NEW G, NEW row, NEW other, Says(row, other), OfGrant(G, other)
  PROVE  OfGrant(G, row)
PROOF BY SMT DEF OfGrant, Says

-----------------------------------------------------------------------------
(* Rows                                                                     *)

\* A step leaves a refresh token as it is, revokes, deletes or mints it.
LEMMA RefreshRows ==
  ASSUME IInv, Next, NEW n \in Names, refresh'[n] # None
  PROVE  \/ /\ refresh[n] # None /\ Says(refresh'[n], refresh[n])
            /\ refresh[n].revoked => refresh'[n].revoked
         \/ /\ n \in Requests /\ pc[n] = "mint" /\ MintRefresh(n)
            /\ Says(refresh'[n], held[n]) /\ refresh'[n].client = Client(n)
            /\ ~refresh'[n].revoked
PROOF
  <1> USE DEF IInv
  <1> DEFINE Stays == /\ refresh[n] # None /\ Says(refresh'[n], refresh[n])
                      /\ refresh[n].revoked => refresh'[n].revoked
             Minted == /\ n \in Requests /\ pc[n] = "mint" /\ MintRefresh(n)
                       /\ Says(refresh'[n], held[n]) /\ refresh'[n].client = Client(n)
                       /\ ~refresh'[n].revoked
  <1> SUFFICES Stays \/ Minted
    OBVIOUS
  <1>0. refresh \in [Names -> RefreshRow \cup {None}]
    BY Zenon DEF TypeOK
  <1>1. ASSUME refresh' = refresh
        PROVE  Stays
    BY <1>1, Zenon DEF Says
  <1>2. ASSUME NEW r \in Requests, Rotate(r)
        PROVE  Stays
    <2>1. \/ refresh' = refresh
          \/ \E t : refresh[t] # None /\ refresh' = [refresh EXCEPT ![t].revoked = TRUE]
      BY <1>2, Zenon DEF Rotate
    <2>2. ASSUME NEW t, refresh[t] # None, refresh' = [refresh EXCEPT ![t].revoked = TRUE]
          PROVE  Stays
      <3>1. refresh'[n] = refresh[n] \/ (n = t /\ refresh'[n] = [refresh[n] EXCEPT !.revoked = TRUE])
        BY <1>0, <2>2, Zenon
      <3>2. CASE refresh'[n] = refresh[n]
        BY <3>2, Zenon DEF Says
      <3>3. CASE n = t /\ refresh'[n] = [refresh[n] EXCEPT !.revoked = TRUE]
        <4>1. refresh[n] \in RefreshRow
          BY <1>0, <2>2, <3>3, SMT
        <4>2. \A row \in RefreshRow :
                LET new == [row EXCEPT !.revoked = TRUE] IN
                new.client = row.client /\ new.user = row.user /\ new.scope = row.scope
                /\ new.root = row.root /\ new.session = row.session /\ new.revoked
          BY SMT DEF RefreshRow
        <4> QED BY <2>2, <3>3, <4>1, <4>2, SMT DEF Says
      <3> QED BY <3>1, <3>2, <3>3
    <2> QED BY <1>1, <2>1, <2>2, Zenon
  <1>3. ASSUME NEW r \in Requests, TearDown(r) \/ DropRefresh(r)
        PROVE  Stays
    <2>1. \E S : refresh' = [m \in Names |-> IF m \in S THEN None ELSE refresh[m]]
      BY <1>3, Zenon DEF TearDown, DropRefresh, DropRefreshTokens
    <2>2. refresh'[n] = refresh[n]
      BY <2>1, SMT
    <2> QED BY <2>2, Zenon DEF Says
  <1>4. ASSUME NEW r \in Requests, MintRefresh(r)
        PROVE  Stays \/ Minted
    <2>1. pc[r] = "mint" /\ refresh' = [refresh EXCEPT ![r] = Refreshing(r, held[r].user)]
      BY <1>4, Zenon DEF MintRefresh, At
    <2>2. CASE n # r
      <3>1. refresh'[n] = refresh[n]
        BY <1>0, <2>1, <2>2, SMT
      <3> QED BY <3>1, Zenon DEF Says
    <2>3. CASE n = r
      <3>1. refresh'[n] = Refreshing(n, held[n].user)
        BY <1>0, <2>1, <2>3, SMT
      <3>2. held[n].client = Client(n)
        BY <2>1, <2>3, SMT DEF RequestsOK, RequestOK, IssuerOK, Entitled, Issuing
      <3>3. Says(refresh'[n], held[n]) /\ refresh'[n].client = Client(n) /\ ~refresh'[n].revoked
        BY <3>1, <3>2, SMT DEF Refreshing, Says
      <3> QED BY <1>4, <2>1, <2>3, <3>3, Zenon
    <2> QED BY <2>2, <2>3
  <1>5. CASE \E r \in Requests : StepOf(r)
    BY <1>1, <1>2, <1>3, <1>4, <1>5, Writes, Zenon
  <1>6. CASE ~\E r \in Requests : StepOf(r)
    <2>1. refresh' = refresh
      BY <1>6, Steps, Zenon DEF Tick, Authorize, RevokeSession, tables
    <2> QED BY <1>1, <2>1
  <1> QED BY <1>5, <1>6

\* Refresh tokens keep to their grants, and to what they were issued for.
LEMMA RefreshStep ==
  ASSUME IInv, Next, NEW n \in Names
  PROVE  RefreshOK(n)'
PROOF
  <1> SUFFICES ASSUME refresh'[n] # None
               PROVE  /\ n \in Requests => Decided(n)'
                      /\ n \in Grants => n \in Old
                      /\ OfGrant(granted', refresh'[n])
                      /\ refresh'[n].scope \subseteq Bound(n)'
                      /\ refresh'[n].scope = ScopeOf(n)'
                      /\ OfSession(granted', refresh'[n], refresh'[n].session)
    BY DEF RefreshOK
  <1>1. TypeOK /\ Requests \cap Grants = {}
    BY ConstantsAssumption, Zenon DEF IInv
  <1>2. \A g \in Grants : granted[g] # None => granted'[g] = granted[g]
    BY Lasting
  <1>3. CASE refresh[n] # None /\ Says(refresh'[n], refresh[n])
    <2>1. RefreshOK(n)
      BY Zenon DEF IInv, RowsOK
    <2>2. refresh[n].root \in Grants
      BY <1>1, <1>3, RowFields, Zenon
    <2>3. /\ OfGrant(granted', refresh[n])
          /\ refresh[n].root # None => granted'[refresh[n].root] = granted[refresh[n].root]
      BY <1>2, <1>3, <2>1, <2>2, OfGrantLasts, ZenonT(60) DEF RefreshOK
    <2>7. OfSession(granted', refresh[n], refresh[n].session)
      BY <1>3, <2>1, <2>3, OfSessionLasts, Zenon DEF RefreshOK
    <2>8. OfSession(granted', refresh'[n], refresh'[n].session)
      BY <1>3, <2>7, Zenon DEF OfSession, Says
    <2>4. OfGrant(granted', refresh'[n])
      BY <1>3, <2>3, OfGrantToo, Zenon
    <2>5. Bound(n)' = Bound(n) /\ ScopeOf(n)' = ScopeOf(n)
      <3>1. n \in Requests => Decided(n) /\ pc[n] # "idle"
        BY <1>3, <2>1, Zenon DEF RefreshOK, Decided
      <3>2. n \notin Requests => n \in Old /\ n \in Grants
        BY <1>3, <2>1, Zenon DEF RefreshOK, Names
      <3> QED BY <3>1, <3>2, Bounded, Zenon
    <2>6. n \in Requests => Decided(n)'
      BY <1>3, <2>1, Lasting, Zenon DEF RefreshOK
    <2> QED BY <1>3, <2>1, <2>4, <2>5, <2>6, <2>8, Zenon DEF RefreshOK, Says
  <1>4. CASE n \in Requests /\ pc[n] = "mint" /\ Says(refresh'[n], held[n])
    <2>1. /\ held[n] # None /\ OfGrant(granted, held[n])
          /\ OfSession(granted, held[n], held[n].session)
          /\ held[n].scope \subseteq Bound(n)
      BY <1>4, Zenon DEF IInv, RequestsOK, RequestOK, IssuerOK, Entitled, Issuing
    <2>2. held[n].root \in Grants \cup {None}
      BY <1>1, <1>4, <2>1, HeldFields, Zenon
    <2>3. /\ OfGrant(granted', held[n])
          /\ held[n].root # None => granted'[held[n].root] = granted[held[n].root]
      BY <1>2, <2>1, <2>2, OfGrantLasts, Zenon
    <2>8. OfSession(granted', held[n], held[n].session)
      BY <2>1, <2>3, OfSessionLasts, Zenon
    <2>9. OfSession(granted', refresh'[n], refresh'[n].session)
      BY <1>4, <2>8, Zenon DEF OfSession, Says
    <2>4. OfGrant(granted', refresh'[n])
      BY <1>4, <2>3, OfGrantToo, Zenon
    <2>5. Decided(n) /\ pc[n] # "idle"
      BY <1>4, Zenon DEF Decided
    <2>6. Bound(n)' = Bound(n) /\ ScopeOf(n)' = held[n].scope /\ Decided(n)'
      <3>1. ScopeOf(n) = held[n].scope
        BY <1>4, Zenon DEF ScopeOf
      <3> QED BY <1>4, <2>5, <3>1, Bounded, Lasting, Zenon
    <2>7. n \notin Grants
      BY <1>1, <1>4, Zenon
    <2> QED BY <1>4, <2>1, <2>4, <2>6, <2>7, <2>9, Zenon DEF Says
  <1> QED BY <1>3, <1>4, RefreshRows, Zenon

\* So do access tokens that are stored, ...
LEMMA AccessStep ==
  ASSUME IInv, Next, NEW n \in Names
  PROVE  AccessOK(n)'
PROOF
  <1> SUFFICES ASSUME access'[n] # None
               PROVE  /\ n \in Requests /\ Decided(n)'
                      /\ OfGrant(granted', access'[n])
                      /\ access'[n].scope \subseteq Bound(n)'
    BY DEF AccessOK
  <1>1. TypeOK /\ access \in [Names -> TokenRow \cup {None}]
    BY Zenon DEF IInv, TypeOK
  <1>2. \A g \in Grants : granted[g] # None => granted'[g] = granted[g]
    BY Lasting
  <1>3. CASE access'[n] = access[n]
    <2>1. AccessOK(n)
      BY Zenon DEF IInv, RowsOK
    <2>2. access[n].root \in Grants \cup {None}
      BY <1>1, <1>3, RowFields, Zenon
    <2>3. OfGrant(granted', access'[n])
      BY <1>2, <1>3, <2>1, <2>2, OfGrantLasts, Zenon DEF AccessOK
    <2>4. n \in Requests /\ Decided(n) /\ pc[n] # "idle"
      BY <1>3, <2>1, Zenon DEF AccessOK, Decided
    <2> QED BY <1>3, <2>1, <2>3, <2>4, Bounded, Lasting, Zenon DEF AccessOK
  <1>4. CASE n \in Requests /\ pc[n] = "access" /\ Says(access'[n], held[n])
    <2>1. /\ held[n] # None /\ OfGrant(granted, held[n])
          /\ held[n].scope \subseteq Bound(n)
      BY <1>4, Zenon DEF IInv, RequestsOK, RequestOK, IssuerOK, Entitled, Issuing
    <2>2. held[n].root \in Grants \cup {None}
      BY <1>1, <1>4, <2>1, HeldFields, Zenon
    <2>3. OfGrant(granted', held[n])
      BY <1>2, <2>1, <2>2, OfGrantLasts, Zenon
    <2>4. OfGrant(granted', access'[n])
      BY <1>4, <2>3, OfGrantToo, Zenon
    <2>5. Decided(n) /\ pc[n] # "idle"
      BY <1>4, Zenon DEF Decided
    <2> QED BY <1>4, <2>1, <2>4, <2>5, Bounded, Lasting, Zenon DEF Says
  <1>5. ASSUME NEW r \in Requests, StepOf(r)
        PROVE  \/ access'[n] = access[n]
               \/ n \in Requests /\ pc[n] = "access" /\ Says(access'[n], held[n])
    <2>1. CASE IssueAccess(r)
      <3>1. /\ pc[r] = "access"
            /\ access' = [access EXCEPT ![r] =
                 [client |-> Client(r), user |-> held[r].user, scope |-> held[r].scope,
                  session |-> held[r].session, expiresAt |-> now + AccessTTL,
                  root |-> held[r].root]]
        BY <2>1, Zenon DEF IssueAccess, At
      <3>2. held[r].client = Client(r)
        BY <3>1, Zenon DEF IInv, RequestsOK, RequestOK, IssuerOK, Entitled, Issuing
      <3> QED BY <1>1, <3>1, <3>2, SMT DEF Says
    <2>2. CASE DropAccess(r)
      <3>1. access'[n] = None \/ access'[n] = access[n]
        BY <2>2, SMT DEF DropAccess
      <3> QED BY <3>1
    <2> QED BY <1>5, <2>1, <2>2, Writes, Zenon
  <1>6. CASE ~\E r \in Requests : StepOf(r)
    <2>1. access' = access
      BY <1>6, Steps, Zenon DEF Tick, Authorize, RevokeSession, tables
    <2> QED BY <1>3, <2>1
  <1> QED BY <1>3, <1>4, <1>5, <1>6, Zenon

\* A step leaves a signed token as it is, or signs it, with a key that is not
\* due or was made for it.
LEMMA JwtRows ==
  ASSUME IInv, Next, NEW kind \in SignedKinds, NEW r \in Requests
  PROVE  \/ jwts'[kind][r] = jwts[kind][r]
         \/ /\ pc[r] \in {"find-key", "create-key"} /\ signing[r] = kind
            /\ \E k \in KeyNames :
                 /\ jwts'[kind][r] = Claims(r, k)
                 /\ \/ keys' = keys /\ keys[k] # None /\ ~Due(k)
                    \/ keys' = [keys EXCEPT ![k] = [createdAt |-> now, active |-> TRUE]]
PROOF
  <1> DEFINE Signed_ == /\ pc[r] \in {"find-key", "create-key"} /\ signing[r] = kind
                        /\ \E k \in KeyNames :
                             /\ jwts'[kind][r] = Claims(r, k)
                             /\ \/ keys' = keys /\ keys[k] # None /\ ~Due(k)
                                \/ keys' = [keys EXCEPT ![k] = [createdAt |-> now, active |-> TRUE]]
  <1> SUFFICES ASSUME jwts'[kind][r] # jwts[kind][r]
               PROVE  Signed_
    BY Zenon
  <1>1. TypeOK /\ RequestsOK /\ jwts \in [SignedKinds -> [Requests -> Jwt \cup {None}]]
    BY Zenon DEF IInv, TypeOK
  <1>2. StepOf(r)
    <2>1. \E q \in Requests : StepOf(q)
      BY Steps, Zenon DEF Tick, Authorize, RevokeSession, provider
    <2> QED BY <1>1, <2>1, Keeps, Zenon
  <1>3. ASSUME NEW k, UseKey(r, k)
        PROVE  signing[r] = kind /\ jwts'[kind][r] = Claims(r, k)
    <2>1. \/ jwts' = jwts
          \/ /\ signing[r] \in SignedKinds
             /\ jwts' = [jwts EXCEPT ![signing[r]][r] = Claims(r, k)]
      BY <1>3, Zenon DEF UseKey
    <2> QED BY <1>1, <2>1, SMT
  <1>4. CASE FindKey(r)
    <2>1. PICK k \in Newest : ~Due(k) /\ UseKey(r, k)
      BY <1>4, Zenon DEF FindKey
    <2>2. k \in KeyNames /\ keys[k] # None
      BY <2>1, Zenon DEF Newest, Active, Rows
    <2>3. pc[r] = "find-key" /\ keys' = keys
      BY <1>4, Zenon DEF FindKey, At
    <2> QED BY <1>3, <2>1, <2>2, <2>3, Zenon
  <1>5. CASE CreateKey(r)
    <2> DEFINE k == <<r, signing[r]>>
    <2>1. /\ pc[r] = "create-key" /\ UseKey(r, k)
          /\ keys' = [keys EXCEPT ![k] = [createdAt |-> now, active |-> TRUE]]
      BY <1>5, Zenon DEF CreateKey, At
    <2>2. k \in KeyNames
      <3>1. signing[r] \in Purposes
        BY <1>1, <2>1, Zenon DEF RequestsOK, RequestOK, HandlerOK
      <3> QED BY <1>1, <3>1, SMT DEF TypeOK, KeyNames
    <2> HIDE DEF k
    <2> QED BY <1>3, <2>1, <2>2, Zenon
  <1> QED BY <1>2, <1>4, <1>5, Writes, Zenon

\* ... or signed, whatever for.
LEMMA JwtStep ==
  ASSUME IInv, Next, NEW kind \in SignedKinds, NEW r \in Requests
  PROVE  JwtOK(kind, r)'
PROOF
  <1> SUFFICES ASSUME jwts'[kind][r] # None
               PROVE  /\ Decided(r)'
                      /\ kind # "access_token" => jwts'[kind][r].scope = {}
                      /\ kind = "session_token" => jwts'[kind][r].client = None
                      /\ kind # "session_token" =>
                           /\ OfGrant(granted', jwts'[kind][r])
                           /\ jwts'[kind][r].scope \subseteq Bound(r)'
                           /\ OfSession(granted', jwts'[kind][r], jwts'[kind][r].sid)
                           /\ jwts'[kind][r].client # None /\ clients'[jwts'[kind][r].client] # None
    BY DEF JwtOK
  <1>1. TypeOK /\ RequestOK(r) /\ JwtOK(kind, r)
    BY Zenon DEF IInv, RequestsOK, RowsOK
  <1>2. \A g \in Grants : granted[g] # None => granted'[g] = granted[g]
    BY Lasting
  <1>3. CASE jwts'[kind][r] = jwts[kind][r]
    <2> DEFINE row == jwts[kind][r]
    <2>1. Decided(r) /\ pc[r] # "idle"
      BY <1>1, <1>3, Zenon DEF JwtOK, Decided
    <2>2. CASE kind = "session_token"
      BY <1>1, <1>3, <2>1, <2>2, Lasting, Zenon DEF JwtOK
    <2>3. CASE kind # "session_token"
      <3>1. /\ OfGrant(granted, row) /\ OfSession(granted, row, row.sid)
            /\ clients[row.client] # None /\ row.scope \subseteq Bound(r)
            /\ row.root \in Grants \cup {None} /\ row.client \in Clients \cup {None}
        BY <1>1, <1>3, <2>3, RowFields, Zenon DEF JwtOK
      <3>2. row.client \in Clients
        BY <1>1, <1>3, <2>3, <3>1, Zenon DEF JwtOK
      <3>3. OfGrant(granted', row) /\ OfSession(granted', row, row.sid)
        <4>1. /\ OfGrant(granted', row)
              /\ row.root # None => granted'[row.root] = granted[row.root]
          BY <1>2, <3>1, OfGrantLasts, Zenon
        <4> QED BY <3>1, <4>1, OfSessionLasts, Zenon
      <3>4. clients'[row.client] # None
        BY <3>1, <3>2, Lasting, Zenon
      <3> QED BY <1>1, <1>3, <2>1, <3>1, <3>3, <3>4, Bounded, Lasting, Zenon DEF JwtOK
    <2> QED BY <2>2, <2>3
  <1>4. ASSUME NEW k \in KeyNames, pc[r] \in {"find-key", "create-key"}, signing[r] = kind,
               jwts'[kind][r] = Claims(r, k)
        PROVE  /\ Decided(r)'
               /\ kind # "access_token" => jwts'[kind][r].scope = {}
               /\ kind = "session_token" => jwts'[kind][r].client = None
               /\ kind # "session_token" =>
                    /\ OfGrant(granted', jwts'[kind][r])
                    /\ jwts'[kind][r].scope \subseteq Bound(r)'
                    /\ OfSession(granted', jwts'[kind][r], jwts'[kind][r].sid)
                    /\ jwts'[kind][r].client # None /\ clients'[jwts'[kind][r].client] # None
    <2> DEFINE row == Claims(r, k)
    <2>1. Decided(r) /\ pc[r] # "idle" /\ Decided(r)'
      BY <1>4, Lasting, Zenon DEF Decided
    <2>2. CASE kind = "session_token"
      <3>1. row.client = None /\ row.scope = {}
        BY <1>4, <2>2, SMT DEF Claims
      <3> QED BY <1>4, <2>1, <2>2, <3>1, Zenon
    <2>3. CASE kind # "session_token"
      <3>1. kind \in {"access_token", "id_token"}
        BY <2>3, Zenon DEF SignedKinds, Kinds
      <3>2. Issuing(r)
        BY <1>4, <3>1, Zenon DEF Issuing, NeedsKeyFor
      <3>3. /\ held[r] # None /\ held[r].client = Client(r) /\ call[r] # None
            /\ OfGrant(granted, held[r]) /\ held[r].scope \subseteq Bound(r)
            /\ OfSession(granted, held[r], held[r].session)
            /\ clients[Client(r)] # None
        BY <1>1, <2>1, <3>2, Zenon DEF RequestOK, IssuerOK, Entitled, CallOK
      <3>4. /\ held[r].root \in Grants \cup {None} /\ Client(r) \in Clients
        BY <1>1, <3>3, HeldFields, CallFields, Zenon
      <3>5. /\ row.client = held[r].client /\ row.user = held[r].user
            /\ row.root = held[r].root
            /\ row.sid = held[r].session \/ row.sid = None
            /\ row.scope = IF kind = "access_token" THEN held[r].scope ELSE {}
        <4>1. row = [key |-> k, client |-> held[r].client, user |-> held[r].user,
                     scope |-> IF signing[r] = "access_token" THEN held[r].scope ELSE {},
                     sid |-> IF signing[r] = "access_token" \/ clients[held[r].client].logout
                             THEN held[r].session ELSE None,
                     root |-> held[r].root, expiresAt |-> now + AccessTTL]
          BY <1>4, <2>3, Zenon DEF Claims
        <4> HIDE DEF row
        <4> QED BY <1>4, <4>1, SMT
      <3> HIDE DEF row
      <3>6. OfGrant(granted', held[r]) /\ OfSession(granted', held[r], held[r].session)
        <4>1. /\ OfGrant(granted', held[r])
              /\ held[r].root # None => granted'[held[r].root] = granted[held[r].root]
          BY <1>2, <3>3, <3>4, OfGrantLasts, Zenon
        <4> QED BY <3>3, <4>1, OfSessionLasts, Zenon
      <3>7. OfGrant(granted', row) /\ OfSession(granted', row, row.sid)
        BY <3>5, <3>6, SMT DEF OfGrant, OfSession
      <3>8. row.scope \subseteq Bound(r)' /\ (kind # "access_token" => row.scope = {})
        BY <2>1, <3>3, <3>5, Bounded, SMT
      <3>9. row.client # None /\ clients'[row.client] # None
        <4>1. clients'[Client(r)] # None /\ Client(r) # None
          BY <3>3, <3>4, Lasting, NoneIsNone, CallFields, Zenon
        <4> QED BY <3>3, <3>5, <4>1, Zenon
      <3>10. jwts'[kind][r] = row
        BY <1>4 DEF row
      <3> QED BY <2>1, <2>3, <3>7, <3>8, <3>9, <3>10, Zenon
    <2> QED BY <2>2, <2>3
  <1>5. CASE jwts'[kind][r] # jwts[kind][r]
    <2>1. PICK k \in KeyNames : /\ pc[r] \in {"find-key", "create-key"} /\ signing[r] = kind
                                /\ jwts'[kind][r] = Claims(r, k)
      <3>1. /\ pc[r] \in {"find-key", "create-key"} /\ signing[r] = kind
            /\ \E k \in KeyNames : jwts'[kind][r] = Claims(r, k)
        <4> HIDE DEF IInv
        <4> QED BY <1>5, JwtRows
      <3> QED BY <3>1
    <2> QED BY <1>4, <2>1
  <1> QED BY <1>3, <1>5

\* A code says what was granted until it is gone.
LEMMA GrantStep ==
  ASSUME IInv, Next, NEW g \in Grants
  PROVE  GrantOK(g)'
PROOF
  <1>1. /\ TypeOK /\ RequestsOK
        /\ \A h \in Grants : GrantOK(h)
        /\ \A n \in Names : RefreshOK(n)
    BY Zenon DEF IInv, RowsOK
  <1>2. \A h \in Grants : granted[h] # None => granted'[h] = granted[h]
    BY Lasting
  <1>3. ASSUME NEW h \in Grants, NEW a \in config.asked, Authorize(h, a)
        PROVE  GrantOK(g)'
    <2>1. /\ granted[h] = None
          /\ \E row : row.root = h /\ granted' = [granted EXCEPT ![h] = row]
                                   /\ codes' = [codes EXCEPT ![h] = row]
          /\ redeemed' = redeemed /\ tornDown' = tornDown
      <3> DEFINE row == [client |-> a.client, user |-> UserOf[a.session], scope |-> a.scope,
                         session |-> a.session, challenge |-> a.challenge,
                         expiresAt |-> now + CodeTTL, root |-> h]
      <3>1. row.root = h
        BY SMT
      <3>2. /\ granted[h] = None
            /\ granted' = [granted EXCEPT ![h] = row] /\ codes' = [codes EXCEPT ![h] = row]
            /\ redeemed' = redeemed /\ tornDown' = tornDown
        BY <1>3, Zenon DEF Authorize
      <3> HIDE DEF row
      <3> QED BY <3>1, <3>2, Zenon
    <2> QED BY <1>1, <1>2, <2>1, SMT DEF GrantOK, TypeOK
  <1>4. ASSUME NEW r \in Requests, StepOf(r)
        PROVE  GrantOK(g)'
    <2>1. granted' = granted
      BY <1>4, Writes, Zenon
    <2>2. codes'[g] # None => codes'[g] = codes[g]
      <3>1. codes' = codes \/ \E t : codes' = [codes EXCEPT ![t] = None]
        BY <1>4, Writes, Zenon DEF ConsumeCode, RemoveCode
      <3> QED BY <1>1, <3>1, SMT DEF TypeOK
    <2>3. redeemed'[g] # {} => redeemed[g] # {} \/ granted[g] # None
      <3>1. CASE ConsumeCode(r) \/ RemoveCode(r)
        <4> DEFINE t == call[r].token
        <4>1. pc[r] \in {"consume", "remove"}
          BY <3>1, Zenon DEF ConsumeCode, RemoveCode, At
        <4>2. t \in Grants /\ granted[t] # None
          BY <1>1, <4>1, Zenon DEF RequestsOK, RequestOK, HandlerOK
        <4>3. \/ redeemed' = redeemed
              \/ redeemed' = [redeemed EXCEPT ![granted[t].root] = @ \cup {r}]
          <5>1. CASE ConsumeCode(r)
            <6>1. codes[t] = granted[t]
              BY <1>1, <4>2, <5>1, Zenon DEF ConsumeCode, GrantOK
            <6> QED BY <5>1, <6>1, Zenon DEF ConsumeCode, Exchange
          <5>2. CASE RemoveCode(r)
            <6>1. held[r] = granted[t]
              BY <1>1, <5>2, Zenon DEF RemoveCode, At, RequestsOK, RequestOK, HandlerOK
            <6> QED BY <5>2, <6>1, Zenon DEF RemoveCode, Exchange
          <5> QED BY <3>1, <5>1, <5>2
        <4>4. granted[t].root = t
          BY <1>1, <4>2, Zenon DEF GrantOK
        <4> HIDE DEF t
        <4> QED BY <1>1, <4>2, <4>3, <4>4, SMT DEF TypeOK
      <3>2. CASE redeemed' = redeemed
        BY <3>2
      <3> QED BY <1>4, <3>1, <3>2, Writes, Zenon
    <2>4. g \in tornDown' => g \in tornDown \/ granted[g] # None
      <3>1. CASE TearDown(r)
        <4>1. tornDown' = tornDown \cup {refresh[n].root : n \in Family(held[r])}
          BY <3>1, Zenon DEF TearDown
        <4>2. ASSUME NEW n \in Family(held[r])
              PROVE  granted[refresh[n].root] # None
          <5>1. n \in Names /\ refresh[n] # None
            BY Zenon DEF Family
          <5>2. refresh[n].root # None
            BY <1>1, <5>1, RowFields, NoneIsNone, Zenon
          <5> QED BY <1>1, <5>1, <5>2, Zenon DEF RefreshOK, OfGrant
        <4> QED BY <4>1, <4>2, SMT
      <3> QED BY <1>4, <3>1, Writes, Zenon
    <2> QED BY <1>1, <2>1, <2>2, <2>3, <2>4, Zenon DEF GrantOK
  <1>5. CASE UNCHANGED <<granted, codes, redeemed, tornDown>>
    BY <1>1, <1>5, Zenon DEF GrantOK
  <1> QED
    BY <1>3, <1>4, <1>5, Steps, Zenon DEF Tick, RevokeSession, tables, history

\* userinfo tells about users who granted somebody the scope openid only.
LEMMA ToldStep ==
  ASSUME IInv, Next, NEW r \in Requests
  PROVE  ToldOK(r)'
PROOF
  <1>1. /\ TypeOK /\ RequestsOK /\ ToldOK(r)
        /\ told \in [Requests -> Answer \cup {None}]
    BY Zenon DEF IInv, RowsOK, TypeOK
  <1>2. \A g \in Grants : granted[g] # None => granted'[g] = granted[g]
    BY Lasting
  <1>3. CASE told'[r] = told[r]
    BY <1>1, <1>2, <1>3, Zenon DEF ToldOK
  <1>4. CASE told'[r] = None \/ told'[r].user = None
    BY <1>4, Zenon DEF ToldOK
  <1>5. ASSUME NEW q \in Requests, StepOf(q), ~LoadUserInfo(q)
        PROVE  told'[r] = told[r] \/ told'[r] = None \/ told'[r].user = None
    <2> DEFINE None_(a) == a = None \/ a.user = None
    <2>1. told' = told \/ \E a : None_(a) /\ told' = [told EXCEPT ![q] = a]
      <3>1. ASSUME NEW active, NEW sid, NEW ks, Said(q, active, None, sid, ks)
            PROVE  \E a : None_(a) /\ told' = [told EXCEPT ![q] = a]
        <4> DEFINE a == [active |-> active, user |-> None, sid |-> sid, keys |-> ks]
        <4>1. a.user = None
          BY SMT
        <4>2. told' = [told EXCEPT ![q] = a]
          BY <3>1, Zenon DEF Said
        <4> HIDE DEF a
        <4> QED BY <4>1, <4>2, Zenon
      <3>2. \/ told' = told \/ told' = [told EXCEPT ![q] = None]
            \/ \E active, sid, ks : Said(q, active, None, sid, ks)
        <4>1. ASSUME NEW c, Begin(q, c)
              PROVE  told' = told
          BY <4>1, Beginnings, Zenon
        <4>2. ASSUME Handle(q) \/ Fail(q)
              PROVE  \/ told' = told \/ told' = [told EXCEPT ![q] = None]
                     \/ \E active, sid, ks : Said(q, active, None, sid, ks)
          BY <1>5, <4>2, Zenon DEF Handle, Grant, CodeNotFound, SelectCode, FindRefresh, Fail,
             Rotate, TearDown, IssueAccess, MintRefresh, Classify, provider,
             DropRefresh, DropAccess, FindKey, RetireKeys, ListKeys, ConsumeCode,
             RemoveCode, LoadIntrospected, LoadSession, InsertClient, DeleteSession, CreateKey,
             UseKey
        <4> QED BY <1>5, <4>1, <4>2, Zenon DEF StepOf
      <3> QED BY <3>1, <3>2, Zenon
    <2> HIDE DEF None_
    <2>2. told'[r] = told[r] \/ None_(told'[r])
      BY <1>1, <2>1, Zenon
    <2> QED BY <2>2 DEF None_
  <1>6. ASSUME NEW q \in Requests, LoadUserInfo(q), told'[r] # told[r]
        PROVE  ToldOK(r)'
    <2> DEFINE c == call[q]
               row == Presented(c)
    <2>1. /\ IsAccessToken(c) /\ "openid" \in row.scope
          /\ Said(q, TRUE, row.user, None, {}) /\ pc[q] # "idle" /\ granted' = granted
      BY <1>6, Zenon DEF LoadUserInfo, At, history
    <2>2. told'[r] = [active |-> TRUE, user |-> row.user, sid |-> None, keys |-> {}]
      <3> HIDE DEF row
      <3> QED BY <1>1, <1>6, <2>1, SMT DEF Said
    <2>3. call[q] # None /\ c.token \in Names
      BY <1>1, <2>1, CallFields, Zenon DEF RequestsOK, RequestOK, CallOK
    <2>4. OfGrant(granted, row) /\ row.root \in Grants \cup {None}
      <3>1. CASE Signed(c)
        <4>1. /\ c.kind \in SignedKinds /\ c.token \in Requests
              /\ jwts[c.kind][c.token] # None /\ row = jwts[c.kind][c.token]
          BY <3>1, Zenon DEF Signed, Verifies, Presented
        <4>2. JwtOK(c.kind, c.token) /\ row.root \in Grants \cup {None}
          BY <1>1, <4>1, RowFields, Zenon DEF IInv, RowsOK
        <4>3. c.kind = "access_token"
          BY <2>1, <4>1, <4>2, Zenon DEF JwtOK
        <4> QED BY <4>1, <4>2, <4>3, Zenon DEF JwtOK
      <3>2. CASE ~Signed(c)
        <4>1. access[c.token] # None
          BY <2>1, <3>2, Zenon DEF IsAccessToken, Opaque
        <4>2. /\ row.client = access[c.token].client /\ row.user = access[c.token].user
              /\ row.scope = access[c.token].scope /\ row.root = access[c.token].root
          BY <3>2, SMT DEF Presented
        <4>3. OfGrant(granted, access[c.token]) /\ access[c.token].root \in Grants \cup {None}
          BY <1>1, <2>3, <4>1, RowFields, Zenon DEF IInv, RowsOK, AccessOK
        <4> HIDE DEF row, c
        <4> QED BY <4>2, <4>3, SMT DEF OfGrant
      <3> QED BY <3>1, <3>2
    <2> HIDE DEF row, c
    <2>5. CASE row.root = None
      BY <2>2, <2>4, <2>5, SMT DEF OfGrant, ToldOK
    <2>6. CASE row.root # None
      <3>1. /\ row.root \in Grants /\ granted[row.root] # None
            /\ granted[row.root].user = row.user /\ "openid" \in granted[row.root].scope
        BY <2>1, <2>4, <2>6, SMT DEF OfGrant
      <3>2. told'[r].user = row.user
        BY <2>2, SMT
      <3> QED BY <2>1, <3>1, <3>2, Zenon DEF ToldOK
    <2> QED BY <2>5, <2>6
  <1>7. CASE ~\E q \in Requests : StepOf(q)
    <2>1. told' = told
      BY <1>7, Steps, Zenon DEF Tick, Authorize, RevokeSession, provider
    <2> QED BY <1>3, <2>1
  <1> QED BY <1>3, <1>4, <1>5, <1>6, <1>7, Zenon

\* A client that registers itself may not end sessions.
LEMMA ClientsStep ==
  ASSUME IInv, Next
  PROVE  ClientsOK'
PROOF
  <1>1. /\ TypeOK /\ RequestsOK /\ ClientsOK
        /\ clients \in [Clients -> ClientRow \cup {None}]
    BY Zenon DEF IInv, RowsOK, TypeOK
  <1>2. ASSUME NEW r \in Requests, InsertClient(r)
        PROVE  ClientsOK'
    <2>1. call[r] \in Call
      BY <1>1, <1>2, CallFields, Zenon DEF InsertClient, At, RequestsOK, RequestOK, CallOK
    <2>2. clients' = [clients EXCEPT ![Client(r)] =
            IF @ = None THEN Metadata(call[r]) ELSE @]
      BY <1>2, Zenon DEF InsertClient
    <2>3. pc[r] = "insert-client"
      BY <1>2, Zenon DEF InsertClient, At
    <2>4. Op(r) \in {"register", "create-client"}
      BY <1>1, <2>3, Zenon DEF RequestsOK, RequestOK, HandlerOK
    <2>5. Metadata(call[r]).logout => Metadata(call[r]).invited
      <3>1. CASE Op(r) = "register"
        BY <3>1, SMT DEF Metadata, NewClient, Op
      <3>2. CASE Op(r) = "create-client"
        <4>1. Metadata(call[r]) = NewClient(call[r])
          BY <3>2, Zenon DEF Metadata, Op
        <4>2. NewClient(call[r]).invited = (Op(r) = "create-client")
          BY Zenon DEF NewClient, Op
        <4> QED BY <3>2, <4>1, <4>2, Zenon
      <3> QED BY <2>4, <3>1, <3>2
    <2>6. ASSUME NEW c \in Clients
          PROVE  clients'[c] = clients[c] \/ clients'[c] = Metadata(call[r])
      BY <1>1, <2>2, Zenon
    <2> QED BY <1>1, <2>5, <2>6, SMT DEF ClientsOK
  <1>3. CASE clients' = clients
    BY <1>1, <1>3, Zenon DEF ClientsOK
  <1> QED
    BY <1>2, <1>3, Steps, Writes, Zenon DEF Tick, Authorize, RevokeSession, provider

\* All rows keep to what they go back to.
LEMMA RowsStep ==
  ASSUME IInv, Next
  PROVE  RowsOK'
PROOF BY GrantStep, RefreshStep, AccessStep, JwtStep, ToldStep, ClientsStep, Zenon DEF RowsOK

-----------------------------------------------------------------------------
(* Requests                                                                 *)

\* A request that does not move is as well off as before.
LEMMA OthersStep ==
  ASSUME IInv, Next, NEW q \in Requests,
         pc'[q] = pc[q], call'[q] = call[q], held'[q] = held[q], signing'[q] = signing[q]
  PROVE  RequestOK(q)'
PROOF
  <1>1. /\ TypeOK /\ RequestOK(q)
        /\ \A kind \in SignedKinds, r \in Requests : JwtOK(kind, r)
    BY Zenon DEF IInv, RequestsOK, RowsOK
  <1>2. /\ \A g \in Grants : granted[g] # None => granted'[g] = granted[g]
        /\ \A c \in Clients : clients[c] # None => clients'[c] = clients[c]
        /\ \A r \in Requests : pc[r] = "done" => pc'[r] = "done"
        /\ config' = config
    BY Lasting, Zenon
  <1>3. CallOK(q)'
    BY <1>1, <1>2, Zenon DEF RequestOK, CallOK, Op
  <1>4. HandlerOK(q)'
    BY <1>1, <1>2, SMT DEF RequestOK, HandlerOK, Op
  <1>5. IssuerOK(q)'
    <2>1. pc[q] # "idle" => call[q] # None /\ Client(q) \in Clients
      BY <1>1, CallFields, Zenon DEF RequestOK, CallOK
    <2>2. Client(q)' = Client(q)
      BY SMT DEF Client
    <2>3. CASE Issuing(q)
      <3>1. pc[q] # "idle" /\ Bound(q)' = Bound(q)
        BY <2>3, Bounded, Zenon DEF Issuing, NeedsKeyFor
      <3>2. Entitled(clients, granted, Bound(q), Client(q), held[q])
        BY <1>1, <2>3, Zenon DEF RequestOK, IssuerOK
      <3>3. held[q] # None /\ held[q].root \in Grants \cup {None}
        BY <1>1, <3>2, HeldFields, Zenon DEF Entitled
      <3>4. /\ OfGrant(granted', held[q])
            /\ held[q].root # None => granted'[held[q].root] = granted[held[q].root]
        BY <1>2, <3>2, <3>3, OfGrantLasts, Zenon DEF Entitled
      <3>5. OfSession(granted', held[q], held[q].session)
        BY <3>2, <3>4, OfSessionLasts, Zenon DEF Entitled
      <3>6. clients'[Client(q)] # None
        BY <1>2, <2>1, <3>1, <3>2, Zenon DEF Entitled
      <3>7. Entitled(clients', granted', Bound(q)', Client(q)', held'[q])
        BY <2>2, <3>1, <3>2, <3>4, <3>5, <3>6, Zenon DEF Entitled
      <3>8. pc'[q] \notin {"consume", "remove", "find", "tear-down"}
        BY <2>3, Zenon DEF Issuing, NeedsKeyFor
      <3> QED BY <3>7, <3>8, Zenon DEF IssuerOK
    <2>4. CASE ~Issuing(q)
      <3>1. ~Issuing(q)'
        BY <2>4, Zenon DEF Issuing, NeedsKeyFor
      <3> QED BY <1>1, <1>2, <2>1, <2>2, <3>1, SMT DEF RequestOK, IssuerOK
    <2> QED BY <2>3, <2>4
  <1>6. ASSUME pc[q] \in {"rotate", "end-session"}, NEW t, t = call[q].token
        PROVE  t \in Names /\ (t \in Requests => pc[t] = "done")
    <2>1. Op(q) \in {"refresh", "end-session"} /\ call[q] # None
      BY <1>1, <1>6, Zenon DEF RequestOK, HandlerOK, LeaverOK, CallOK
    <2>2. t \in Old \/ (t \in Requests /\ pc[t] = "done")
      BY <1>1, <1>6, <2>1, Zenon DEF RequestOK, CallOK
    <2> QED BY <2>2, ConstantsAssumption, Zenon DEF Names
  <1>7. RotatorOK(q)'
    <2> SUFFICES ASSUME pc'[q] = "rotate", refresh'[call'[q].token] # None
                 PROVE  refresh'[call'[q].token].client = Client(q)'
      BY DEF RotatorOK
    <2>1. PICK t : t = call[q].token
      OBVIOUS
    <2>2. t \in Names /\ (t \in Requests => pc[t] = "done") /\ refresh'[t] # None
      BY <1>6, <2>1, Zenon
    <2>3. refresh[t] # None /\ refresh'[t].client = refresh[t].client
      BY <2>2, RefreshRows, Zenon DEF Says
    <2> QED BY <1>1, <2>1, <2>3, Zenon DEF RequestOK, RotatorOK, Client
  <1>8. LeaverOK(q)'
    <2> SUFFICES ASSUME pc'[q] = "end-session"
                 PROVE  LeaverOK(q)'
      BY DEF LeaverOK
    <2>1. PICK t, kind, row : t = call[q].token /\ kind = call[q].kind /\ row = jwts[kind][t]
      OBVIOUS
    <2>2. /\ Op(q) = "end-session" /\ kind \in SignedKinds \ {"session_token"}
          /\ t \in Requests /\ row # None /\ row.sid # None /\ clients[row.client].logout
      BY <1>1, <2>1, Zenon DEF RequestOK, LeaverOK
    <2>3. pc[t] = "done"
      BY <1>6, <2>1, <2>2, Zenon
    <2>4. jwts'[kind][t] = row
      <3>1. kind \in SignedKinds /\ pc[t] \notin {"find-key", "create-key"}
        BY <2>2, <2>3, SMT
      <3> QED BY <2>1, <2>2, <3>1, JwtRows, ZenonT(60)
    <2>5. row.client \in Clients /\ clients[row.client] # None
      <3>1. kind \in SignedKinds /\ jwts[kind][t] # None /\ jwts[kind][t].sid # None
        BY <2>1, <2>2, Zenon
      <3>2. JwtOK(kind, t)
        BY <1>1, <2>2, <3>1, Zenon
      <3>3. row.client \in Clients \cup {None}
        BY <1>1, <2>1, <2>2, <3>1, RowFields, ZenonT(60)
      <3> QED BY <2>1, <2>2, <3>1, <3>2, <3>3, ZenonT(60) DEF JwtOK
    <2>6. clients'[row.client].logout
      BY <1>2, <2>2, <2>5, Zenon
    <2> QED BY <2>1, <2>2, <2>4, <2>6, Zenon DEF LeaverOK, Op
  <1> QED BY <1>3, <1>4, <1>5, <1>7, <1>8, Zenon DEF RequestOK

\* A request that begins has a call, and what it presents was there.
LEMMA CallStep ==
  ASSUME IInv, Next, NEW r \in Requests, StepOf(r)
  PROVE  CallOK(r)'
PROOF
  <1>1. /\ TypeOK /\ RequestOK(r) /\ call \in [Requests -> Call \cup {None}]
        /\ \A q \in Requests : pc[q] = "done" => pc'[q] = "done"
    BY Lasting, Zenon DEF IInv, RequestsOK, TypeOK
  <1>2. CASE pc[r] # "idle"
    <2>1. call' = call
      BY <1>1, <1>2, Keeps, Zenon
    <2> QED BY <1>1, <1>2, <2>1, Zenon DEF RequestOK, CallOK, Op
  <1>3. ASSUME NEW c \in config.calls, Begin(r, c)
        PROVE  CallOK(r)'
    <2>1. c \in Call /\ c # None
      BY <1>1, ConfigFields, NoneIsNone, Zenon
    <2>2. call'[r] = c
      BY <1>1, <1>3, Beginnings, Zenon
    <2>3. c.op \in {"refresh", "end-session"} => Presentable(c)
      <3>1. CASE Token(r, c)
        BY <3>1, Zenon DEF Token
      <3>2. CASE Revoke(r, c) \/ UserInfo(r, c) \/ Introspect(r, c) \/ EndSession(r, c)
        BY <3>2, Zenon DEF Revoke, UserInfo, Introspect, EndSession
      <3>3. CASE GetToken(r, c) \/ RotateKeys(r, c) \/ GetJwks(r, c) \/ Register(r, c)
        BY <3>3, Zenon DEF GetToken, RotateKeys, GetJwks, Register
      <3> QED BY <1>3, <3>1, <3>2, <3>3, Zenon DEF Begin
    <2>4. c.op \in {"refresh", "end-session"} =>
            c.token \in Old \/ (c.token \in Requests /\ pc[c.token] = "done")
      BY <2>3, Zenon DEF Presentable
    <2> QED BY <1>1, <2>1, <2>2, <2>4, SMT DEF CallOK, Op
  <1>4. CASE pc[r] = "idle"
    <2>1. \E c \in config.calls : Begin(r, c)
      BY <1>4, Zenon DEF StepOf, Handle, Fail, InHandler, Grant, ConsumeCode, RemoveCode,
         CodeNotFound, SelectCode, FindRefresh, Rotate, TearDown, IssueAccess, MintRefresh,
         Classify, DropRefresh, DropAccess, FindKey, CreateKey, RetireKeys, ListKeys,
         LoadUserInfo, LoadIntrospected, LoadSession, InsertClient, DeleteSession, At
    <2> QED BY <1>3, <2>1
  <1> QED BY <1>2, <1>4

\* Places where a request has nothing left to get wrong.
Quiet == {"done", "classify", "drop-refresh", "drop-access", "load-token", "load-session",
          "list-keys", "publish"}

LEMMA QuietStep ==
  ASSUME NEW r \in Requests, CallOK(r)', pc'[r] \in Quiet
  PROVE  RequestOK(r)'
PROOF
  <1>1. /\ pc'[r] # "consume" /\ pc'[r] # "remove" /\ pc'[r] # "find" /\ pc'[r] # "tear-down"
        /\ pc'[r] # "rotate" /\ pc'[r] # "access" /\ pc'[r] # "mint" /\ pc'[r] # "find-key"
        /\ pc'[r] # "create-key" /\ pc'[r] # "insert-client" /\ pc'[r] # "retire-keys"
        /\ pc'[r] # "end-session"
    BY SMT DEF Quiet
  <1> QED BY <1>1, Zenon DEF RequestOK, HandlerOK, IssuerOK, Issuing, NeedsKeyFor, RotatorOK,
       LeaverOK

\* A request that may issue tokens for h goes on to do so.
LEMMA IssuesStep ==
  ASSUME IInv, NEW r \in Requests, CallOK(r)', NEW h, held'[r] = h,
         Entitled(clients', granted', Bound(r)', Client(r)', h),
         IssueTokens(r) \/ ThenRefresh(r, h) \/ ThenIdToken(r, h)
  PROVE  RequestOK(r)'
PROOF
  <1>1. /\ pc \in [Requests -> PCs] /\ signing \in [Requests -> Purposes \cup {None}]
    BY Zenon DEF IInv, TypeOK
  <1>2. \/ pc'[r] = "find-key" /\ signing'[r] = "access_token"
        \/ pc'[r] = "find-key" /\ signing'[r] = "id_token" /\ h.root # None
        \/ pc'[r] = "mint" /\ "offline_access" \in h.scope
        \/ pc'[r] = "access"
        \/ pc'[r] = "done"
    <2>1. CASE IssueTokens(r)
      BY <1>1, <2>1, SMT DEF IssueTokens, NeedKey, Goto
    <2>2. CASE ThenIdToken(r, h)
      BY <1>1, <2>2, SMT DEF ThenIdToken, NeedKey, Goto
    <2>3. CASE ThenRefresh(r, h) /\ ~ThenIdToken(r, h)
      BY <1>1, <2>3, SMT DEF ThenRefresh, Goto
    <2> QED BY <2>1, <2>2, <2>3
  <1>3. "access_token" \in Purposes /\ "id_token" \in Purposes
    BY Zenon DEF Purposes, SignedKinds, Kinds
  <1>4. HandlerOK(r)'
    BY <1>2, <1>3, SMT DEF HandlerOK
  <1>5. IssuerOK(r)'
    BY <1>2, SMT DEF IssuerOK
  <1>6. pc'[r] # "rotate" /\ pc'[r] # "end-session"
    BY <1>2, SMT
  <1> QED BY <1>4, <1>5, <1>6, Zenon DEF RequestOK, RotatorOK, LeaverOK

\* Beginning ...
LEMMA BeginStep ==
  ASSUME IInv, Next, NEW r \in Requests, NEW c \in config.calls, Begin(r, c)
  PROVE  RequestOK(r)'
PROOF
  <1>0. StepOf(r)
    BY Zenon DEF StepOf
  <1>1. /\ TypeOK /\ pc \in [Requests -> PCs] /\ call \in [Requests -> Call \cup {None}]
        /\ held \in [Requests -> TokenRow \cup CodeRow \cup {None}]
        /\ signing \in [Requests -> Purposes \cup {None}]
        /\ sessions \subseteq Sessions
    BY Zenon DEF IInv, TypeOK
  <1>2. c \in Call /\ c.client \in Clients /\ c # None
    <2>1. c \in Call
      BY <1>1, ConfigFields, Zenon
    <2> QED BY <2>1, NoneIsNone, SMT DEF Call
  <1>3. CallOK(r)' /\ call'[r] = c
    <2>1. CallOK(r)'
      BY <1>0, CallStep
    <2>2. call' = [call EXCEPT ![r] = c]
      BY Beginnings, Zenon
    <2> QED BY <1>1, <2>1, <2>2, SMT
  <1>4. UNCHANGED <<config, granted, clients, jwts>>
    BY Zenon DEF Begin, Token, Revoke, GetToken, RotateKeys, GetJwks,
         Register, UserInfo, Introspect, EndSession, BeginWith, provider, history
  <1>5. ASSUME NEW to, Goto(r, to)
        PROVE  pc'[r] = to
    BY <1>1, <1>5, SMT DEF Goto
  <1>6. ASSUME pc'[r] \in Quiet
        PROVE  RequestOK(r)'
    BY <1>3, <1>6, QuietStep
  <1>7. /\ "done" \in Quiet /\ "classify" \in Quiet /\ "load-token" \in Quiet
        /\ "list-keys" \in Quiet
    BY Zenon DEF Quiet
  <1>8. CASE Token(r, c)
    <2>1. CASE IssueTokens(r) /\ c.op = "credentials" /\ Authenticated(c)
                 /\ ForItself(c).scope \cap OfUsers = {}
      <3>1. held'[r] = ForItself(c)
        BY <1>1, <1>8, <2>1, SMT DEF Token
      <3>2. /\ ForItself(c) \in TokenRow /\ ForItself(c).client = c.client
            /\ ForItself(c).user = None /\ ForItself(c).root = None
            /\ ForItself(c).session = None
        BY <1>1, <1>2, ForItselfType
      <3>3. Client(r)' = c.client /\ Op(r)' = "credentials"
        BY <1>3, <2>1, Zenon DEF Client, Op
      <3>4. Bound(r)' = Scopes
        BY <3>3, SMT DEF Bound
      <3>5. ForItself(c).scope \subseteq Scopes /\ ForItself(c) # None
        BY <3>2, NoneIsNone, SMT DEF TokenRow
      <3>6. clients'[c.client] # None
        BY <1>4, <2>1, Zenon DEF Authenticated
      <3>7. Entitled(clients', granted', Bound(r)', Client(r)', ForItself(c))
        BY <2>1, <3>2, <3>3, <3>4, <3>5, <3>6, Zenon DEF Entitled, OfGrant, OfSession
      <3> QED BY <1>3, <2>1, <3>1, <3>7, IssuesStep, Zenon
    <2>2. CASE Goto(r, "consume") /\ c.op = "code" /\ Authenticated(c)
      <3>1. pc'[r] = "consume"
        BY <1>5, <2>2
      <3>2. c.token \in Grants /\ granted'[c.token] # None /\ clients'[c.client] # None
        BY <1>4, <1>8, <2>2, Zenon DEF Token, Presentable, Authenticated
      <3> QED
        BY <1>3, <2>2, <3>1, <3>2, SMT DEF RequestOK, HandlerOK, IssuerOK, Issuing,
           NeedsKeyFor, RotatorOK, LeaverOK, Op, Client
    <2>3. CASE Goto(r, "find") /\ c.op = "refresh" /\ Authenticated(c)
      <3>1. pc'[r] = "find"
        BY <1>5, <2>3
      <3>2. clients'[c.client] # None
        BY <1>4, <2>3, Zenon DEF Authenticated
      <3> QED
        BY <1>3, <2>3, <3>1, <3>2, SMT DEF RequestOK, HandlerOK, IssuerOK, Issuing,
           NeedsKeyFor, RotatorOK, LeaverOK, Op, Client
    <2>4. CASE Goto(r, "done")
      BY <1>5, <1>6, <1>7, <2>4, Zenon
    <2> QED BY <1>8, <2>1, <2>2, <2>3, <2>4, Zenon DEF Token
  <1>9. CASE GetToken(r, c)
    <2>1. pc'[r] = "find-key" /\ signing'[r] = "session_token"
      BY <1>1, <1>9, SMT DEF GetToken, NeedKey, Goto
    <2>2. c.session # None
      BY <1>1, <1>9, NoneIsNone, SMT DEF GetToken, LiveSessions
    <2>3. "session_token" \in Purposes
      BY Zenon DEF Purposes, SignedKinds, Kinds
    <2> QED
      BY <1>3, <2>1, <2>2, <2>3, SMT DEF RequestOK, HandlerOK, IssuerOK, Issuing,
         NeedsKeyFor, RotatorOK, LeaverOK
  <1>10. CASE RotateKeys(r, c)
    <2>1. pc'[r] = "retire-keys" /\ signing'[r] = "rotate"
      BY <1>1, <1>10, SMT DEF RotateKeys, Goto
    <2> QED
      BY <1>3, <2>1, SMT DEF RequestOK, HandlerOK, IssuerOK, Issuing,
         NeedsKeyFor, RotatorOK, LeaverOK
  <1>11. CASE Register(r, c)
    <2>1. Goto(r, "insert-client") \/ Goto(r, "done")
      BY <1>11, SMT DEF Register
    <2>2. CASE Goto(r, "done")
      BY <1>5, <1>6, <1>7, <2>2, Zenon
    <2>3. CASE Goto(r, "insert-client")
      <3>1. pc'[r] = "insert-client" /\ c.op \in {"register", "create-client"}
        BY <1>5, <1>11, <2>3, Zenon DEF Register
      <3> QED
        BY <1>3, <3>1, SMT DEF RequestOK, HandlerOK, IssuerOK, Issuing,
           NeedsKeyFor, RotatorOK, LeaverOK, Op
    <2> QED BY <2>1, <2>2, <2>3
  <1>12. CASE EndSession(r, c)
    <2> DEFINE row == jwts[c.kind][c.token]
    <2>1. \/ Goto(r, "done")
          \/ /\ Goto(r, "end-session") /\ Signed(c) /\ row.client # None
             /\ clients[row.client].logout /\ row.sid # None
      BY <1>12, SMT DEF EndSession
    <2>2. CASE Goto(r, "done")
      BY <1>5, <1>6, <1>7, <2>2, Zenon
    <2>3. CASE Goto(r, "end-session") /\ Signed(c) /\ row.client # None
                 /\ clients[row.client].logout /\ row.sid # None
      <3>1. pc'[r] = "end-session" /\ c.op = "end-session"
        BY <1>5, <1>12, <2>3, Zenon DEF EndSession
      <3>2. c.kind \in SignedKinds /\ c.token \in Requests /\ row # None
        BY <2>3, Zenon DEF Signed, Verifies
      <3>3. c.kind # "session_token"
        BY <2>3, <3>2, Zenon DEF IInv, RowsOK, JwtOK
      <3>4. LeaverOK(r)'
        BY <1>3, <1>4, <2>3, <3>1, <3>2, <3>3, Zenon DEF LeaverOK, Op
      <3> QED
        BY <1>3, <3>1, <3>4, SMT DEF RequestOK, HandlerOK, IssuerOK, Issuing,
           NeedsKeyFor, RotatorOK
    <2> QED BY <2>1, <2>2, <2>3
  <1>13. CASE GetJwks(r, c) \/ Revoke(r, c) \/ UserInfo(r, c) \/ Introspect(r, c)
    <2>1. \/ Goto(r, "done") \/ Goto(r, "classify") \/ Goto(r, "load-token")
          \/ Goto(r, "list-keys")
      BY <1>13, SMT DEF GetJwks, Revoke, UserInfo, Introspect
    <2> QED BY <1>5, <1>6, <1>7, <2>1, Zenon
  <1> QED BY <1>8, <1>9, <1>10, <1>11, <1>12, <1>13, Zenon DEF Begin

\* ... an exchange of a code, or of a refresh token, ...
LEMMA GrantingStep ==
  ASSUME IInv, Next, NEW r \in Requests, StepOf(r), Grant(r)
  PROVE  RequestOK(r)'
PROOF
  <1>1. /\ TypeOK /\ RequestOK(r) /\ pc \in [Requests -> PCs]
        /\ call \in [Requests -> Call \cup {None}]
        /\ held \in [Requests -> TokenRow \cup CodeRow \cup {None}]
        /\ signing \in [Requests -> Purposes \cup {None}]
        /\ \A g \in Grants : GrantOK(g)
        /\ \A n \in Names : RefreshOK(n)
    BY Zenon DEF IInv, TypeOK, RequestsOK, RowsOK
  <1>2. pc[r] # "idle"
    BY Zenon DEF Grant, ConsumeCode, RemoveCode,
       CodeNotFound, SelectCode, FindRefresh, Rotate, TearDown, IssueAccess, MintRefresh,
       Classify, DropRefresh, DropAccess, At
  <1>3. /\ CallOK(r)' /\ call' = call /\ Client(r)' = Client(r) /\ Bound(r)' = Bound(r)
        /\ call[r] # None /\ Client(r) \in Clients /\ call[r].token \in Names
    <2>1. call' = call /\ call[r] # None
      BY <1>1, <1>2, Keeps, Zenon DEF RequestOK, CallOK
    <2> QED BY <1>1, <1>2, <2>1, CallStep, CallFields, Bounded, Zenon DEF Client
  <1>4. UNCHANGED <<config, granted, clients, jwts>>
    BY Zenon DEF Grant, ConsumeCode, RemoveCode,
       CodeNotFound, SelectCode, FindRefresh, Rotate, TearDown, IssueAccess, MintRefresh,
       Classify, DropRefresh, DropAccess, provider, history
  <1>5. ASSUME NEW to, Goto(r, to)
        PROVE  pc'[r] = to
    BY <1>1, <1>5, SMT DEF Goto
  <1>6. ASSUME pc'[r] \in Quiet
        PROVE  RequestOK(r)'
    BY <1>3, <1>6, QuietStep
  <1>7. /\ "done" \in Quiet /\ "classify" \in Quiet /\ "drop-refresh" \in Quiet
        /\ "drop-access" \in Quiet
    BY Zenon DEF Quiet
  <1>8. ASSUME NEW t \in Grants, t = call[r].token, granted[t] # None,
               pc[r] \in {"consume", "remove"}, Exchange(r, granted[t])
        PROVE  RequestOK(r)'
    <2>1. CASE Goto(r, "done")
      BY <1>5, <1>6, <1>7, <2>1, Zenon
    <2>2. CASE IssueTokens(r) /\ CodeAccepted(r, granted[t]) /\ held' = [held EXCEPT ![r] = granted[t]]
      <3> DEFINE h == granted[t]
      <3>1. /\ h.client = Client(r) /\ h.root = t /\ t # None
            /\ h.scope \in SUBSET Scopes /\ h.session # None
        <4>1. h.client = Client(r) /\ h.root = t
          BY <1>1, <1>8, <2>2, ZenonT(60) DEF CodeAccepted, GrantOK
        <4>2. h.scope \in SUBSET Scopes /\ h.session \in Sessions
          BY <1>1, <1>8, RowFields, ZenonT(60)
        <4> QED BY <1>8, <4>1, <4>2, NoneIsNone, ZenonT(60)
      <3>2. Op(r) = "code" /\ clients[Client(r)] # None
        BY <1>1, <1>8, Zenon DEF RequestOK, HandlerOK, IssuerOK
      <3>3. Bound(r) = Scopes
        BY <3>2, SMT DEF Bound
      <3>4. Entitled(clients', granted', Bound(r)', Client(r)', h)
        BY <1>3, <1>4, <1>8, <3>1, <3>2, <3>3, SMT DEF Entitled, OfGrant, OfSession
      <3>5. held'[r] = h
        BY <1>1, <2>2, SMT
      <3> QED BY <1>3, <2>2, <3>4, <3>5, IssuesStep, Zenon
    <2> QED BY <1>8, <2>1, <2>2, Zenon DEF Exchange
  <1>9. ASSUME pc[r] \in {"consume", "remove"}
        PROVE  call[r].token \in Grants /\ granted[call[r].token] # None
    BY <1>1, <1>9, Zenon DEF RequestOK, HandlerOK
  <1>10. CASE ConsumeCode(r)
    <2>1. codes[call[r].token] = granted[call[r].token] /\ pc[r] = "consume"
      BY <1>1, <1>9, <1>10, Zenon DEF ConsumeCode, GrantOK, At
    <2> QED BY <1>8, <1>9, <1>10, <2>1, Zenon DEF ConsumeCode
  <1>11. CASE RemoveCode(r)
    <2>1. held[r] = granted[call[r].token] /\ pc[r] = "remove"
      BY <1>1, <1>11, Zenon DEF RemoveCode, At, RequestOK, HandlerOK
    <2> QED BY <1>8, <1>9, <1>11, <2>1, Zenon DEF RemoveCode
  <1>12. CASE SelectCode(r)
    <2>1. /\ pc[r] = "consume" /\ pc'[r] = "remove" /\ ~config.atomic
          /\ held'[r] = codes[call[r].token] /\ codes[call[r].token] # None
      BY <1>1, <1>12, SMT DEF SelectCode, At, Goto
    <2>2. held'[r] = granted[call[r].token]
      BY <1>1, <1>9, <2>1, Zenon DEF GrantOK
    <2>3. Op(r) = "code" /\ clients[Client(r)] # None
      BY <1>1, <2>1, Zenon DEF RequestOK, HandlerOK, IssuerOK
    <2> QED
      BY <1>3, <1>4, <1>9, <2>1, <2>2, <2>3, SMT DEF RequestOK, HandlerOK, IssuerOK, Issuing,
         NeedsKeyFor, RotatorOK, LeaverOK, Op
  <1>13. CASE FindRefresh(r)
    <2> DEFINE row == refresh[call[r].token]
               h == Renewed(r, row)
    <2>1. /\ pc[r] = "find" /\ refresh' = refresh
          /\ \/ Goto(r, "done")
             \/ /\ row # None /\ row.client = Client(r)
                /\ held' = [held EXCEPT ![r] = h]
                /\ \/ Goto(r, "tear-down")
                   \/ Goto(r, "rotate") /\ NewScope(r, row) \subseteq row.scope
      <3> DEFINE widens == ~(NewScope(r, row) \subseteq row.scope)
      <3>1. /\ pc[r] = "find" /\ refresh' = refresh
            /\ \/ Goto(r, "done")
               \/ /\ row # None /\ row.client = Client(r)
                  /\ held' = [held EXCEPT ![r] = h]
                  /\ Goto(r, IF row.revoked THEN "tear-down"
                             ELSE IF Expired(row) \/ widens THEN "done" ELSE "rotate")
        BY <1>13, Zenon DEF FindRefresh, At, tables
      <3> HIDE DEF widens
      <3>2. \/ Goto(r, "done")
            \/ /\ row # None /\ row.client = Client(r)
               /\ held' = [held EXCEPT ![r] = h]
               /\ Goto(r, "tear-down") \/ (Goto(r, "rotate") /\ ~widens)
        BY <3>1, Zenon
      <3> QED BY <3>1, <3>2 DEF widens
    <2>2. CASE Goto(r, "done")
      BY <1>5, <1>6, <1>7, <2>2, Zenon
    <2>3. CASE ~Goto(r, "done")
      <3>1. row # None /\ row.client = Client(r) /\ held'[r] = h /\ Op(r) = "refresh"
        BY <1>1, <2>1, <2>3, SMT DEF RequestOK, HandlerOK
      <3>2. row \in RefreshRow
        BY <1>1, <1>3, <3>1, RowFields, Zenon
      <3>3. /\ h \in TokenRow /\ h.client = Client(r) /\ h.user = row.user
            /\ h.root = row.root /\ h.session = row.session /\ h.scope = NewScope(r, row)
            /\ h # None
        <4>1. /\ h \in TokenRow /\ h.client = Client(r) /\ h.user = row.user
              /\ h.root = row.root /\ h.session = row.session /\ h.scope = NewScope(r, row)
          BY <1>1, <1>3, <3>2, RenewedType, ZenonT(60)
        <4> QED BY <4>1, NoneIsNone, ZenonT(60)
      <3>4. CASE Goto(r, "tear-down")
        <4>1. pc'[r] = "tear-down"
          BY <1>5, <3>4
        <4> QED
          BY <1>3, <3>1, <3>3, <4>1, SMT DEF RequestOK, HandlerOK, IssuerOK, Issuing,
             NeedsKeyFor, RotatorOK, LeaverOK, Op
      <3>5. CASE Goto(r, "rotate") /\ NewScope(r, row) \subseteq row.scope
        <4>1. pc'[r] = "rotate"
          BY <1>5, <3>5
        <4>2. RefreshOK(call[r].token)
          BY <1>1, <1>3, Zenon
        <4>3. OfGrant(granted, row) /\ row.scope = ScopeOf(call[r].token)
          BY <3>1, <4>2, Zenon DEF RefreshOK
        <4>4. Bound(r) = row.scope
          BY <3>1, <4>3, SMT DEF Bound
        <4>5. clients[Client(r)] # None
          BY <1>1, <2>1, Zenon DEF RequestOK, IssuerOK
        <4>6. /\ row.root \in Grants /\ row.root # None /\ row.session \in Sessions
              /\ row.session # None
          BY <1>1, <1>3, <3>1, RowFields, NoneIsNone, Zenon
        <4>7. row.session = granted[row.root].session
          BY <3>1, <4>2, <4>6, Zenon DEF RefreshOK, OfSession
        <4> HIDE DEF row, h
        <4>8. Entitled(clients', granted', Bound(r)', Client(r)', h)
          BY <1>3, <1>4, <3>1, <3>3, <3>5, <4>3, <4>4, <4>5, <4>6, <4>7, SMT
             DEF Entitled, OfGrant, OfSession
        <4>9. RotatorOK(r)'
          BY <1>3, <2>1, <3>1, Zenon DEF RotatorOK, row
        <4> QED
          BY <1>3, <3>1, <4>1, <4>8, <4>9, SMT DEF RequestOK, HandlerOK, IssuerOK,
             LeaverOK, Op
      <3> QED BY <2>1, <2>3, <3>4, <3>5
    <2> QED BY <2>2, <2>3
  <1>14. ASSUME Issuing(r), held' = held,
                IssueTokens(r) \/ ThenRefresh(r, held[r]) \/ ThenIdToken(r, held[r])
         PROVE  RequestOK(r)'
    <2>1. Entitled(clients', granted', Bound(r)', Client(r)', held[r])
      BY <1>1, <1>3, <1>4, <1>14, Zenon DEF RequestOK, IssuerOK
    <2> QED BY <1>3, <1>14, <2>1, IssuesStep, Zenon
  <1>15. CASE Rotate(r) \/ IssueAccess(r) \/ MintRefresh(r)
    BY <1>14, <1>15, Zenon DEF Rotate, IssueAccess, MintRefresh, Issuing, At
  <1>16. CASE CodeNotFound(r) \/ TearDown(r) \/ Classify(r) \/ DropRefresh(r) \/ DropAccess(r)
    <2>1. \/ Goto(r, "done") \/ Goto(r, "drop-refresh") \/ Goto(r, "drop-access")
      BY <1>16, SMT DEF CodeNotFound, TearDown, Classify, DropRefresh, DropAccess
    <2> QED BY <1>5, <1>6, <1>7, <2>1, Zenon
  <1> QED BY <1>10, <1>11, <1>12, <1>13, <1>15, <1>16, Zenon DEF Grant

\* ... looking for a key and signing with it, ...
LEMMA KeysStep ==
  ASSUME IInv, Next, NEW r \in Requests, StepOf(r),
         FindKey(r) \/ CreateKey(r) \/ RetireKeys(r) \/ ListKeys(r)
  PROVE  RequestOK(r)'
PROOF
  <1>1. /\ TypeOK /\ RequestOK(r) /\ pc \in [Requests -> PCs]
        /\ signing \in [Requests -> Purposes \cup {None}]
    BY Zenon DEF IInv, TypeOK, RequestsOK
  <1>2. pc[r] # "idle" /\ Decided(r)
    BY Zenon DEF FindKey, CreateKey, RetireKeys, ListKeys, At, Decided
  <1>3. /\ CallOK(r)' /\ call' = call /\ held' = held
        /\ Client(r)' = Client(r) /\ Bound(r)' = Bound(r)
    <2>1. call' = call /\ held' = held
      BY <1>1, <1>2, Keeps, Zenon
    <2> QED BY <1>2, <2>1, CallStep, Bounded, Zenon DEF Client
  <1>4. UNCHANGED <<config, granted, clients>>
    BY Zenon DEF FindKey, CreateKey, RetireKeys, ListKeys, history
  <1>5. ASSUME NEW to, Goto(r, to)
        PROVE  pc'[r] = to
    BY <1>1, <1>5, SMT DEF Goto
  <1>6. ASSUME pc'[r] \in Quiet
        PROVE  RequestOK(r)'
    BY <1>3, <1>6, QuietStep
  <1>7. "done" \in Quiet /\ "publish" \in Quiet
    BY Zenon DEF Quiet
  <1>8. ASSUME NEW s \in {"kid", "jwks"}, pc'[r] = "find-key", signing'[r] = s
        PROVE  RequestOK(r)'
    <2>1. s \in Purposes
      BY Zenon DEF Purposes
    <2> QED
      BY <1>3, <1>8, <2>1, SMT DEF RequestOK, HandlerOK, IssuerOK, Issuing,
         NeedsKeyFor, RotatorOK, LeaverOK
  <1>9. ASSUME NEW k, UseKey(r, k), pc[r] \in {"find-key", "create-key"}
        PROVE  RequestOK(r)'
    <2>1. CASE Goto(r, "done") \/ Goto(r, "publish")
      BY <1>5, <1>6, <1>7, <2>1, Zenon
    <2>2. CASE NeedKey(r, "kid")
      BY <1>1, <1>5, <1>8, <2>2, SMT DEF NeedKey
    <2>3. CASE signing[r] = "access_token" /\ ThenRefresh(r, held[r])
      <3>1. Issuing(r)
        BY <1>9, <2>3, SMT DEF Issuing, NeedsKeyFor
      <3>2. Entitled(clients', granted', Bound(r)', Client(r)', held[r])
        BY <1>1, <1>3, <1>4, <3>1, Zenon DEF RequestOK, IssuerOK
      <3> QED BY <1>3, <2>3, <3>2, IssuesStep, Zenon
    <2> QED BY <1>9, <2>1, <2>2, <2>3, Zenon DEF UseKey
  <1>10. ASSUME pc'[r] = "create-key", signing'[r] = signing[r], pc[r] = "find-key"
         PROVE  RequestOK(r)'
    <2>1. HandlerOK(r)'
      BY <1>1, <1>3, <1>4, <1>10, SMT DEF RequestOK, HandlerOK
    <2>2. Issuing(r)' => Issuing(r)
      BY <1>10, SMT DEF Issuing, NeedsKeyFor
    <2>3. IssuerOK(r)'
      BY <1>1, <1>3, <1>4, <1>10, <2>2, SMT DEF RequestOK, IssuerOK
    <2> QED BY <1>3, <1>10, <2>1, <2>3, SMT DEF RequestOK, RotatorOK, LeaverOK
  <1>11. CASE FindKey(r)
    <2>1. CASE \E k : UseKey(r, k)
      BY <1>9, <1>11, <2>1, Zenon DEF FindKey, At
    <2>2. CASE ~\E k : UseKey(r, k)
      <3>1. Goto(r, "create-key") /\ signing' = signing /\ pc[r] = "find-key"
        BY <1>11, <2>2, Zenon DEF FindKey, At
      <3> QED BY <1>5, <1>10, <3>1, Zenon
    <2> QED BY <2>1, <2>2
  <1>12. CASE CreateKey(r)
    BY <1>9, <1>12, Zenon DEF CreateKey, At
  <1>13. CASE RetireKeys(r)
    <2>1. Goto(r, "create-key") /\ signing' = signing /\ pc[r] = "retire-keys"
      BY <1>13, Zenon DEF RetireKeys, At
    <2>2. pc'[r] = "create-key" /\ signing'[r] = "rotate"
      BY <1>1, <1>5, <2>1, Zenon DEF RequestOK, HandlerOK
    <2>3. "rotate" \in Purposes
      BY Zenon DEF Purposes
    <2> QED
      BY <1>3, <2>2, <2>3, SMT DEF RequestOK, HandlerOK, IssuerOK, Issuing,
         NeedsKeyFor, RotatorOK, LeaverOK
  <1>14. CASE ListKeys(r)
    <2>1. CASE Goto(r, "done")
      BY <1>5, <1>6, <1>7, <2>1, Zenon
    <2>2. CASE NeedKey(r, "jwks")
      BY <1>1, <1>5, <1>8, <2>2, SMT DEF NeedKey
    <2> QED BY <1>14, <2>1, <2>2, Zenon DEF ListKeys
  <1> QED BY <1>11, <1>12, <1>13, <1>14, Zenon

\* ... and whatever else a request does, down to failing, leaves it well off.
LEMMA MoverStep ==
  ASSUME IInv, Next, NEW r \in Requests, StepOf(r)
  PROVE  RequestOK(r)'
PROOF
  <1>1. pc \in [Requests -> PCs]
    BY Zenon DEF IInv, TypeOK
  <1>2. ASSUME NEW to, Goto(r, to)
        PROVE  pc'[r] = to
    BY <1>1, <1>2, SMT DEF Goto
  <1>3. CASE \/ InsertClient(r) \/ LoadUserInfo(r) \/ LoadIntrospected(r)
             \/ LoadSession(r) \/ DeleteSession(r) \/ Fail(r)
    <2>1. Goto(r, "done") \/ Goto(r, "load-session")
      BY <1>3, Zenon DEF InsertClient, LoadUserInfo, LoadIntrospected, LoadSession,
         DeleteSession, Fail
    <2>2. pc'[r] \in Quiet
      BY <1>2, <2>1, Zenon DEF Quiet
    <2> QED BY <2>2, CallStep, QuietStep
  <1>4. CASE \E c \in config.calls : Begin(r, c)
    BY <1>4, BeginStep
  <1>5. CASE Grant(r)
    BY <1>5, GrantingStep
  <1>6. CASE FindKey(r) \/ CreateKey(r) \/ RetireKeys(r) \/ ListKeys(r)
    BY <1>6, KeysStep
  <1> QED BY <1>3, <1>4, <1>5, <1>6, Zenon DEF StepOf, Handle

\* All requests stay well off.
LEMMA RequestsStep ==
  ASSUME IInv, Next
  PROVE  RequestsOK'
PROOF
  <1> SUFFICES ASSUME NEW q \in Requests
               PROVE  RequestOK(q)'
    BY DEF RequestsOK
  <1>1. CASE StepOf(q)
    BY <1>1, MoverStep
  <1>2. ASSUME NEW r \in Requests \ {q}, StepOf(r)
        PROVE  /\ pc'[q] = pc[q] /\ call'[q] = call[q] /\ held'[q] = held[q]
               /\ signing'[q] = signing[q]
    BY <1>2, Keeps, Zenon DEF IInv
  <1>3. CASE ~StepOf(q)
    <2>1. /\ pc'[q] = pc[q] /\ call'[q] = call[q] /\ held'[q] = held[q]
          /\ signing'[q] = signing[q]
      BY <1>2, <1>3, Steps, Zenon DEF Tick, Authorize, RevokeSession
    <2> QED BY <2>1, OthersStep
  <1> QED BY <1>1, <1>3

-----------------------------------------------------------------------------
(* Codes                                                                    *)

\* Only an exchange takes codes from the table or redeems one, the code that it
\* was called with; the code is there unless another exchange can intervene.
LEMMA Exchanges ==
  ASSUME IInv, NEW r \in Requests, StepOf(r)
  PROVE  \/ codes' = codes /\ redeemed' = redeemed
         \/ \E t \in Grants :
              /\ t = call[r].token /\ granted[t] # None
              /\ ConsumeCode(r) \/ RemoveCode(r)
              /\ Exchange(r, granted[t])
              /\ codes' = [codes EXCEPT ![t] = None]
              /\ \/ redeemed' = redeemed
                 \/ redeemed' = [redeemed EXCEPT ![t] = @ \cup {r}]
              /\ config.atomic \/ ~config.suspends => codes[t] # None
PROOF
  <1>1. /\ RequestOK(r) /\ \A g \in Grants : GrantOK(g)
    BY Zenon DEF IInv, RequestsOK, RowsOK
  <1>2. ASSUME NEW t, t = call[r].token, pc[r] \in {"consume", "remove"},
               Exchange(r, granted[t])
        PROVE  /\ t \in Grants /\ granted[t] # None
               /\ \/ redeemed' = redeemed
                  \/ redeemed' = [redeemed EXCEPT ![t] = @ \cup {r}]
    <2>1. t \in Grants /\ granted[t] # None
      BY <1>1, <1>2, Zenon DEF RequestOK, HandlerOK
    <2>2. granted[t].root = t
      BY <1>1, <2>1, Zenon DEF GrantOK
    <2> QED BY <1>2, <2>1, <2>2, Zenon DEF Exchange
  <1>3. CASE ConsumeCode(r)
    <2>1. PICK t : t = call[r].token
      OBVIOUS
    <2>2. /\ pc[r] = "consume" /\ codes[t] # None /\ Exchange(r, codes[t])
          /\ codes' = [codes EXCEPT ![t] = None]
      BY <1>3, <2>1, Zenon DEF ConsumeCode, At
    <2>3. t \in Grants
      BY <1>1, <2>1, <2>2, Zenon DEF RequestOK, HandlerOK
    <2>4. codes[t] = granted[t]
      BY <1>1, <2>2, <2>3, Zenon DEF GrantOK
    <2> QED BY <1>2, <1>3, <2>1, <2>2, <2>4, Zenon
  <1>4. CASE RemoveCode(r)
    <2>1. PICK t : t = call[r].token
      OBVIOUS
    <2>2. /\ pc[r] = "remove" /\ Exchange(r, held[r])
          /\ codes' = [codes EXCEPT ![t] = None]
      BY <1>4, <2>1, Zenon DEF RemoveCode, At
    <2>3. held[r] = granted[t] /\ ~config.atomic
      BY <1>1, <2>1, <2>2, Zenon DEF RequestOK, HandlerOK
    <2>4. ~config.suspends => codes[t] # None
      BY <2>1, <2>2, Zenon DEF IInv, InTurn, CodesAreFresh
    <2> QED BY <1>2, <1>4, <2>1, <2>2, <2>3, <2>4, Zenon
  <1> QED BY <1>3, <1>4, Writes, Zenon

\* A code that was redeemed is gone, and so is redeemed once.
LEMMA CodesStep ==
  ASSUME IInv, Next
  PROVE  RedeemedIsGone' /\ CodeExchangedOnce'
PROOF
  <1>1. /\ codes \in [Grants -> CodeRow \cup {None}]
        /\ redeemed \in [Grants -> SUBSET Requests]
        /\ RedeemedIsGone /\ CodeExchangedOnce
        /\ \A g \in Grants : GrantOK(g)
        /\ config' = config
    BY Lasting, Zenon DEF IInv, RowsOK, TypeOK
  <1>2. CASE codes' = codes /\ redeemed' = redeemed
    BY <1>1, <1>2, Zenon DEF RedeemedIsGone, CodeExchangedOnce
  <1>3. ASSUME NEW g \in Grants, NEW a \in config.asked, Authorize(g, a)
        PROVE  RedeemedIsGone' /\ CodeExchangedOnce'
    <2>1. /\ granted[g] = None /\ redeemed' = redeemed
          /\ \E row : codes' = [codes EXCEPT ![g] = row]
      BY <1>3, Zenon DEF Authorize
    <2>2. redeemed[g] = {}
      BY <1>1, <2>1, Zenon DEF GrantOK
    <2>3. \A h \in Grants \ {g} : codes'[h] = codes[h]
      BY <1>1, <2>1, SMT
    <2> QED BY <1>1, <2>1, <2>2, <2>3, Zenon DEF RedeemedIsGone, CodeExchangedOnce
  <1>4. ASSUME NEW r \in Requests, StepOf(r), ~(codes' = codes /\ redeemed' = redeemed)
        PROVE  RedeemedIsGone' /\ CodeExchangedOnce'
    <2>1. PICK t \in Grants :
            /\ codes' = [codes EXCEPT ![t] = None]
            /\ redeemed' = redeemed \/ redeemed' = [redeemed EXCEPT ![t] = @ \cup {r}]
            /\ config.atomic \/ ~config.suspends => codes[t] # None
      BY <1>4, Exchanges, Zenon
    <2>2. /\ codes'[t] = None
          /\ \A h \in Grants \ {t} : codes'[h] = codes[h] /\ redeemed'[h] = redeemed[h]
          /\ redeemed'[t] \in {redeemed[t], redeemed[t] \cup {r}}
      BY <1>1, <2>1, SMT
    <2>3. RedeemedIsGone'
      BY <1>1, <2>2, Zenon DEF RedeemedIsGone
    <2>4. config.atomic \/ ~config.suspends => redeemed[t] = {}
      BY <1>1, <2>1, Zenon DEF RedeemedIsGone
    <2>5. CodeExchangedOnce'
      <3> SUFFICES ASSUME NEW g \in Grants, NEW p \in redeemed'[g], NEW q \in redeemed'[g],
                          p # q, ~config.suspends \/ config.atomic
                   PROVE  FALSE
        BY <1>1, Zenon DEF CodeExchangedOnce
      <3>1. CASE g = t
        BY <2>2, <2>4, <3>1, SMT
      <3>2. CASE g # t
        BY <1>1, <2>2, <3>2, Zenon DEF CodeExchangedOnce
      <3> QED BY <3>1, <3>2
    <2> QED BY <2>3, <2>5
  <1> QED BY <1>2, <1>3, <1>4, Steps, Zenon DEF Tick, RevokeSession, tables, history

-----------------------------------------------------------------------------
(* Keys                                                                     *)

\* A key stays, and becomes no older but by the clock.
LEMMA KeyRows ==
  ASSUME IInv, Next, NEW k \in KeyNames
  PROVE  /\ keys[k] # None =>
              keys'[k] # None /\ keys'[k].createdAt >= keys[k].createdAt
         /\ keys'[k] # None => keys'[k].createdAt \in Nat /\ keys'[k].createdAt <= now'
PROOF
  <1>1. /\ TypeOK /\ keys \in [KeyNames -> KeyRow \cup {None}]
        /\ keys[k] # None => keys[k].createdAt <= now
    BY Zenon DEF IInv, TypeOK, KeysOK
  <1>2. /\ now \in Nat /\ now' \in Nat /\ now' >= now
        /\ keys[k] # None => keys[k] \in KeyRow /\ keys[k].createdAt \in Nat
    BY <1>1, Times, Lasting, RowFields, Zenon
  <1>3. CASE keys'[k] = keys[k]
    BY <1>1, <1>2, <1>3, SMT
  <1>4. CASE keys'[k] # None /\ keys'[k].createdAt = now
    BY <1>1, <1>2, <1>4, SMT
  <1>5. ASSUME NEW r \in Requests, CreateKey(r)
        PROVE  keys'[k] = keys[k] \/ (keys'[k] # None /\ keys'[k].createdAt = now)
    <2> DEFINE row == [createdAt |-> now, active |-> TRUE]
    <2>1. \E j : keys' = [keys EXCEPT ![j] = row]
      BY <1>5, Zenon DEF CreateKey
    <2>2. row.createdAt = now /\ row # None
      <3>1. row \in KeyRow
        BY <1>2, SMT DEF KeyRow
      <3> QED BY <3>1, NoneIsNone
    <2> HIDE DEF row
    <2>3. keys'[k] = keys[k] \/ keys'[k] = row
      BY <1>1, <2>1, Zenon
    <2> QED BY <2>2, <2>3, Zenon
  <1>6. ASSUME NEW r \in Requests, RetireKeys(r), keys'[k] # keys[k]
        PROVE  keys[k] # None /\ keys'[k] # None /\ keys'[k].createdAt = keys[k].createdAt
    <2>1. k \in Active /\ keys'[k] = [keys[k] EXCEPT !.active = FALSE]
      BY <1>6, SMT DEF RetireKeys
    <2>2. keys[k] \in KeyRow /\ keys[k] # None
      BY <1>2, <2>1, Zenon DEF Active, Rows
    <2>3. [keys[k] EXCEPT !.active = FALSE] \in KeyRow
      BY <2>2, Zenon DEF KeyRow
    <2>4. keys'[k].createdAt = keys[k].createdAt
      BY <2>1, <2>2, SMT DEF KeyRow
    <2> QED BY <2>1, <2>2, <2>3, <2>4, NoneIsNone, Zenon
  <1>7. CASE keys[k] # None /\ keys'[k] # None /\ keys'[k].createdAt = keys[k].createdAt
    BY <1>1, <1>2, <1>7, SMT
  <1>8. CASE \E r \in Requests : StepOf(r)
    BY <1>3, <1>4, <1>5, <1>6, <1>7, <1>8, Writes, Zenon
  <1>9. CASE ~\E r \in Requests : StepOf(r)
    BY <1>3, <1>9, Steps, Zenon DEF Tick, Authorize, RevokeSession, provider
  <1> QED BY <1>8, <1>9

\* What is signed by a key that is not due expires while the key is published.
LEMMA KeysLast ==
  ASSUME IInv, Next
  PROVE  KeysOK'
PROOF
  <1>1. TypeOK /\ KeysOK /\ config' = config
    BY Lasting, Zenon DEF IInv
  <1>2. \A k \in KeyNames : keys'[k] # None => keys'[k].createdAt <= now'
    BY KeyRows
  <1>3. SUFFICES ASSUME AccessTTL <= GracePeriod, TokenTTL <= GracePeriod,
                        NEW kind \in SignedKinds, NEW r \in Requests, NEW row,
                        row = jwts'[kind][r], row # None
                 PROVE  /\ keys'[row.key] # None
                        /\ \/ row.expiresAt < Epoch
                           \/ ~config.rotates
                           \/ row.expiresAt <= keys'[row.key].createdAt + RotationInterval + GracePeriod
    BY <1>1, <1>2, Zenon DEF KeysOK
  <1>4. /\ RotationInterval \in Nat /\ GracePeriod \in Nat /\ AccessTTL \in Nat
        /\ TokenTTL \in Nat /\ TokenTTL < Epoch /\ now \in Nat
    BY <1>1, Times
  <1>5. CASE row = jwts[kind][r]
    <2>1. /\ row.key \in KeyNames /\ row.expiresAt \in Nat /\ keys[row.key] # None
          /\ \/ row.expiresAt < Epoch
             \/ ~config.rotates
             \/ row.expiresAt <= keys[row.key].createdAt + RotationInterval + GracePeriod
      BY <1>1, <1>3, <1>5, RowFields, Zenon DEF KeysOK
    <2>2. /\ keys'[row.key] # None /\ keys'[row.key].createdAt >= keys[row.key].createdAt
          /\ keys'[row.key].createdAt \in Nat /\ keys[row.key].createdAt \in Nat
      BY <1>1, <2>1, KeyRows, RowFields, Zenon
    <2> QED BY <1>4, <2>1, <2>2, SMT
  <1>6. CASE row # jwts[kind][r]
    <2>1. PICK k \in KeyNames :
            /\ row = Claims(r, k)
            /\ \/ keys' = keys /\ keys[k] # None /\ ~Due(k)
               \/ keys' = [keys EXCEPT ![k] = [createdAt |-> now, active |-> TRUE]]
      <3>1. \E k \in KeyNames :
              /\ jwts'[kind][r] = Claims(r, k)
              /\ \/ keys' = keys /\ keys[k] # None /\ ~Due(k)
                 \/ keys' = [keys EXCEPT ![k] = [createdAt |-> now, active |-> TRUE]]
        <4> HIDE DEF IInv
        <4>1. jwts'[kind][r] # jwts[kind][r]
          BY <1>3, <1>6
        <4> QED BY <4>1, JwtRows
      <3> QED BY <1>3, <3>1
    <2>2. /\ row.key = k
          /\ \/ row.expiresAt = TokenTTL
             \/ row.expiresAt = now + TokenTTL
             \/ row.expiresAt = now + AccessTTL
      BY <2>1, SMT DEF Claims
    <2>3. /\ keys'[k] # None /\ keys'[k].createdAt \in Nat
          /\ config.rotates => keys'[k].createdAt + RotationInterval >= now
      <3>1. CASE keys' = keys /\ keys[k] # None /\ ~Due(k)
        <4>1. keys[k].createdAt \in Nat
          BY <1>1, <3>1, RowFields
        <4> QED BY <1>4, <3>1, <4>1, SMT DEF Due, Age
      <3>2. CASE keys' = [keys EXCEPT ![k] = [createdAt |-> now, active |-> TRUE]]
        <4>1. [createdAt |-> now, active |-> TRUE] # None
          <5>1. [createdAt |-> now, active |-> TRUE] \in KeyRow
            BY <1>4, SMT DEF KeyRow
          <5> QED BY <5>1, NoneIsNone, Zenon
        <4>2. keys \in [KeyNames -> KeyRow \cup {None}]
          BY <1>1, Zenon DEF TypeOK
        <4> QED BY <1>4, <3>2, <4>1, <4>2, SMT
      <3> QED BY <2>1, <3>1, <3>2
    <2> QED BY <1>3, <1>4, <2>2, <2>3, SMT
  <1> QED BY <1>5, <1>6

-----------------------------------------------------------------------------
(* Where handlers do not interleave                                         *)

\* How a request comes to be about to delete a code, to rotate a token and to
\* issue tokens.
LEMMA Comes ==
  ASSUME IInv, NEW r \in Requests, StepOf(r)
  PROVE  /\ pc'[r] = "remove" => SelectCode(r)
         /\ pc'[r] = "rotate" => FindRefresh(r)
         /\ Issuing(r)' /\ held'[r].root # None =>
              \/ FindRefresh(r) /\ pc'[r] = "rotate"
              \/ ConsumeCode(r) \/ RemoveCode(r)
              \/ Issuing(r) /\ (YetToMint(r)' => YetToMint(r) \/ Rotate(r))
PROOF
  <1> DEFINE Mine == /\ pc'[r] = "remove" => SelectCode(r)
                     /\ pc'[r] = "rotate" => FindRefresh(r)
                     /\ Issuing(r)' /\ held'[r].root # None =>
                          \/ FindRefresh(r) /\ pc'[r] = "rotate"
                          \/ ConsumeCode(r) \/ RemoveCode(r)
                          \/ Issuing(r) /\ (YetToMint(r)' => YetToMint(r) \/ Rotate(r))
  <1> SUFFICES Mine
    OBVIOUS
  <1>1. /\ TypeOK /\ pc \in [Requests -> PCs] /\ signing \in [Requests -> Purposes \cup {None}]
        /\ held \in [Requests -> TokenRow \cup CodeRow \cup {None}] /\ RequestOK(r)
    BY Zenon DEF IInv, TypeOK, RequestsOK
  <1>2. ASSUME NEW to, Goto(r, to)
        PROVE  pc'[r] = to
    BY <1>1, <1>2, SMT DEF Goto
  <1>3. ASSUME NEW to, Goto(r, to),
               to \notin {"remove", "rotate", "access", "mint", "find-key", "create-key"}
        PROVE  Mine
    BY <1>2, <1>3, SMT DEF Issuing, NeedsKeyFor
  <1>4. ASSUME NEW to \in {"find-key", "create-key"}, Goto(r, to),
               signing'[r] \notin {"access_token", "id_token"}
        PROVE  Mine
    BY <1>2, <1>4, SMT DEF Issuing, NeedsKeyFor
  <1>5. ASSUME NEW s, NeedKey(r, s)
        PROVE  Goto(r, "find-key") /\ signing'[r] = s
    BY <1>1, <1>5, SMT DEF NeedKey
  <1>6. ASSUME IssueTokens(r) \/ ThenRefresh(r, held[r]) \/ ThenIdToken(r, held[r])
        PROVE  /\ pc'[r] \in {"access", "mint", "find-key", "done"}
               /\ ThenIdToken(r, held[r]) => ~YetToMint(r)'
    <2>1. pc'[r] \in {"access", "mint", "find-key", "done"}
      BY <1>1, <1>6, SMT DEF IssueTokens, ThenRefresh, ThenIdToken, NeedKey, Goto
    <2>2. ASSUME ThenIdToken(r, held[r])
          PROVE  ~YetToMint(r)'
      BY <1>1, <2>2, SMT DEF ThenIdToken, NeedKey, Goto, YetToMint, NeedsKeyFor
    <2> QED BY <2>1, <2>2
  <1>7. ASSUME Issuing(r), pc'[r] \in {"access", "mint", "find-key", "done"},
               YetToMint(r)' => YetToMint(r) \/ Rotate(r)
        PROVE  Mine
    BY <1>7, SMT
  <1>8. ASSUME ConsumeCode(r) \/ RemoveCode(r)
        PROVE  Mine
    <2>1. IssueTokens(r) \/ Goto(r, "done")
      BY <1>8, Zenon DEF ConsumeCode, RemoveCode, Exchange
    <2>2. pc'[r] \in {"access", "mint", "find-key", "done"}
      BY <1>2, <1>6, <2>1, SMT
    <2> QED BY <1>8, <2>2, SMT
  <1> HIDE DEF Mine
  <1>9. ASSUME NEW k, UseKey(r, k), pc[r] \in {"find-key", "create-key"}
        PROVE  Mine
    <2>1. CASE Goto(r, "done") \/ Goto(r, "publish")
      BY <1>3, <2>1, SMT
    <2>2. CASE NeedKey(r, "kid")
      BY <1>4, <1>5, <2>2, SMT
    <2>3. CASE signing[r] = "access_token" /\ ThenRefresh(r, held[r])
      <3>1. Issuing(r) /\ YetToMint(r)
        BY <1>9, <2>3, SMT DEF Issuing, YetToMint, NeedsKeyFor
      <3> QED BY <1>6, <1>7, <2>3, <3>1
    <2> QED BY <1>9, <2>1, <2>2, <2>3, Zenon DEF UseKey
  <1>10. CASE Rotate(r) \/ IssueAccess(r)
    <2>1. Issuing(r) /\ (YetToMint(r) \/ Rotate(r))
      BY <1>10, Zenon DEF Rotate, IssueAccess, At, Issuing, YetToMint
    <2>2. IssueTokens(r) \/ ThenRefresh(r, held[r])
      BY <1>10, Zenon DEF Rotate, IssueAccess
    <2> QED BY <1>6, <1>7, <2>1, <2>2
  <1>11. CASE MintRefresh(r)
    <2>1. Issuing(r) /\ ThenIdToken(r, held[r])
      BY <1>11, Zenon DEF MintRefresh, At, Issuing
    <2> QED BY <1>6, <1>7, <2>1
  <1>12. CASE FindKey(r)
    <2>1. CASE \E k : UseKey(r, k)
      BY <1>9, <1>12, <2>1, Zenon DEF FindKey, At
    <2>2. CASE ~\E k : UseKey(r, k)
      <3>1. Goto(r, "create-key") /\ signing' = signing /\ pc[r] = "find-key"
        BY <1>12, <2>2, Zenon DEF FindKey, At
      <3> QED BY <1>2, <3>1, SMT DEF Mine, Issuing, YetToMint, NeedsKeyFor
    <2> QED BY <2>1, <2>2
  <1>13. CASE CreateKey(r)
    BY <1>9, <1>13, Zenon DEF CreateKey, At
  <1>14. CASE RetireKeys(r)
    <2>1. Goto(r, "create-key") /\ signing' = signing /\ signing[r] = "rotate"
      BY <1>1, <1>14, Zenon DEF RetireKeys, At, RequestOK, HandlerOK
    <2> QED BY <1>4, <2>1, SMT
  <1>15. CASE ListKeys(r)
    <2>1. CASE Goto(r, "done")
      BY <1>3, <2>1, SMT
    <2>2. CASE NeedKey(r, "jwks")
      BY <1>4, <1>5, <2>2, SMT
    <2> QED BY <1>15, <2>1, <2>2, Zenon DEF ListKeys
  <1>16. CASE SelectCode(r)
    BY <1>2, <1>16, SMT DEF SelectCode, Mine, Issuing, NeedsKeyFor
  <1>17. CASE FindRefresh(r)
    <2>1. Goto(r, "done") \/ Goto(r, "tear-down") \/ Goto(r, "rotate")
      BY <1>17, SMT DEF FindRefresh
    <2> QED BY <1>2, <1>17, <2>1, SMT DEF Mine, Issuing, NeedsKeyFor
  <1>18. CASE \/ CodeNotFound(r) \/ TearDown(r) \/ Classify(r) \/ DropRefresh(r)
              \/ DropAccess(r) \/ InsertClient(r) \/ LoadUserInfo(r) \/ LoadIntrospected(r)
              \/ LoadSession(r) \/ DeleteSession(r) \/ Fail(r)
    <2>1. \/ Goto(r, "done") \/ Goto(r, "drop-refresh") \/ Goto(r, "drop-access")
          \/ Goto(r, "load-session")
      <3> HIDE DEF Goto
      <3> QED BY <1>18, Zenon DEF CodeNotFound, TearDown, Classify, DropRefresh, DropAccess,
                 InsertClient, LoadUserInfo, LoadIntrospected, LoadSession, DeleteSession, Fail
    <2> QED BY <1>3, <2>1, SMT
  <1>19. ASSUME NEW c \in config.calls, Begin(r, c)
         PROVE  Mine
    <2>1. CASE Token(r, c)
      <3>1. CASE c.op = "credentials" /\ IssueTokens(r)
        <4>1. held'[r] = ForItself(c)
          BY <1>1, <2>1, <3>1, SMT DEF Token
        <4>2. held'[r].root = None
          BY <4>1, SMT DEF ForItself
        <4> QED BY <1>6, <3>1, <4>2, SMT DEF Mine
      <3>2. CASE Goto(r, "consume") \/ Goto(r, "find") \/ Goto(r, "done")
        BY <1>3, <3>2, SMT
      <3> QED BY <2>1, <3>1, <3>2, Zenon DEF Token
    <2>2. CASE GetToken(r, c)
      BY <1>4, <1>5, <2>2, SMT DEF GetToken
    <2>3. CASE \/ RotateKeys(r, c) \/ GetJwks(r, c) \/ Register(r, c) \/ Revoke(r, c)
               \/ UserInfo(r, c) \/ Introspect(r, c) \/ EndSession(r, c)
      <3>1. \/ Goto(r, "retire-keys") \/ Goto(r, "list-keys") \/ Goto(r, "insert-client")
            \/ Goto(r, "done") \/ Goto(r, "classify") \/ Goto(r, "load-token")
            \/ Goto(r, "end-session")
        <4> HIDE DEF Goto
        <4> QED BY <2>3, Zenon DEF RotateKeys, GetJwks, Register, Revoke, UserInfo,
               Introspect, EndSession
      <3> QED BY <1>3, <3>1, SMT
    <2> QED BY <1>19, <2>1, <2>2, <2>3, Zenon DEF Begin
  <1> QED
    BY <1>8, <1>10, <1>11, <1>12, <1>13, <1>14, <1>15, <1>16, <1>17, <1>18, <1>19, Zenon
       DEF StepOf, Handle, Grant

\* Where handlers do not interleave, at most one request is in one, the other
\* requests do not move, and what moves tokens on is a step of a request.
LEMMA OneMoves ==
  ASSUME IInv, Next, ~config.suspends
  PROVE  /\ Alone'
         /\ \A r, q \in Requests : StepOf(r) /\ InHandler(q)' => q = r
         /\ (\A r \in Requests : ~StepOf(r)) =>
              /\ UNCHANGED <<refresh, tornDown, pc, call, held, signing>>
              /\ \/ codes' = codes
                 \/ \E g \in Grants :
                      /\ granted[g] = None /\ \A q \in Requests : ~InHandler(q)
                      /\ \A h \in Grants \ {g} : codes'[h] = codes[h]
PROOF
  <1>1. TypeOK /\ Alone /\ codes \in [Grants -> CodeRow \cup {None}]
    BY Zenon DEF IInv, InTurn, TypeOK
  <1>2. ASSUME NEW r \in Requests, NEW q \in Requests, StepOf(r), InHandler(q)', q # r
        PROVE  FALSE
    <2>1. pc'[q] = pc[q] /\ ~InHandler(q)
      BY <1>1, <1>2, Keeps, Moves, Zenon DEF Scheduled
    <2> QED BY <1>2, <2>1, Zenon DEF InHandler
  <1>3. ASSUME \A r \in Requests : ~StepOf(r)
        PROVE  /\ UNCHANGED <<refresh, tornDown, pc, call, held, signing>>
               /\ \/ codes' = codes
                  \/ \E g \in Grants :
                       /\ granted[g] = None /\ \A q \in Requests : ~InHandler(q)
                       /\ \A h \in Grants \ {g} : codes'[h] = codes[h]
    <2>1. ASSUME NEW g \in Grants, NEW a \in config.asked, Authorize(g, a)
          PROVE  /\ UNCHANGED <<refresh, tornDown, pc, call, held, signing>>
                 /\ granted[g] = None /\ \A q \in Requests : ~InHandler(q)
                 /\ \A h \in Grants \ {g} : codes'[h] = codes[h]
      <3>1. /\ UNCHANGED <<refresh, tornDown, pc, call, held, signing>>
            /\ granted[g] = None /\ \A q \in Requests : ~InHandler(q)
            /\ \E row : codes' = [codes EXCEPT ![g] = row]
        BY <2>1, Zenon DEF Authorize
      <3> QED BY <1>1, <3>1, SMT
    <2>2. CASE \E g \in Grants, a \in config.asked : Authorize(g, a)
      BY <2>1, <2>2, Zenon
    <2>3. CASE ~\E g \in Grants, a \in config.asked : Authorize(g, a)
      BY <1>3, <2>3, Steps, Zenon DEF Tick, RevokeSession, tables, history
    <2> QED BY <2>2, <2>3
  <1>4. Alone'
    <2>1. CASE \E r \in Requests : StepOf(r)
      BY <1>2, <2>1, Zenon DEF Alone
    <2>2. CASE \A r \in Requests : ~StepOf(r)
      BY <1>1, <1>3, <2>2, Zenon DEF Alone, InHandler
    <2> QED BY <2>1, <2>2
  <1> QED BY <1>2, <1>3, <1>4, Zenon

\* A refresh token that is there was there before, for the same grant and
\* usable if it is, or has just been issued.
LEMMA Renewals ==
  ASSUME IInv, Next, ~config.suspends, NEW n \in Names, refresh'[n] # None
  PROVE  \/ /\ refresh[n] # None /\ refresh'[n].root = refresh[n].root
            /\ refresh'[n].client = refresh[n].client /\ refresh'[n].user = refresh[n].user
            /\ Live(n)' => Live(n)
         \/ /\ n \in Requests /\ MintRefresh(n) /\ InHandler(n)
            /\ refresh'[n].root = held[n].root
            /\ codes' = codes /\ tornDown' = tornDown
            /\ held[n].root \in Grants
            /\ codes[held[n].root] = None /\ held[n].root \notin tornDown
            /\ \A m \in Names : Live(m) => refresh[m].root # held[n].root
PROOF
  <1>1. TypeOK /\ \A g \in Grants : GrantOK(g)
    BY Zenon DEF IInv, RowsOK
  <1>2. CASE refresh[n] # None /\ Says(refresh'[n], refresh[n])
             /\ (refresh[n].revoked => refresh'[n].revoked)
    BY <1>2, Zenon DEF Says, Live
  <1>3. CASE n \in Requests /\ pc[n] = "mint" /\ MintRefresh(n) /\ Says(refresh'[n], held[n])
    <2>1. /\ held[n] # None /\ OfGrant(granted, held[n])
          /\ "offline_access" \in held[n].scope
      BY <1>3, Zenon DEF IInv, RequestsOK, RequestOK, HandlerOK, IssuerOK, Issuing, Entitled
    <2>2. held[n].root # None /\ held[n].root \in Grants
      BY <1>1, <1>3, <2>1, HeldFields, SMT DEF OfGrant, OfUsers
    <2>3. Issuing(n) /\ YetToMint(n) /\ InHandler(n)
      BY <1>3, SMT DEF Issuing, YetToMint, InHandler
    <2>4. IssuesFresh
      BY Zenon DEF IInv, InTurn
    <2>5. codes' = codes /\ tornDown' = tornDown
      BY <1>3, Zenon DEF MintRefresh, history
    <2> QED BY <1>3, <2>1, <2>2, <2>3, <2>4, <2>5, Zenon DEF IssuesFresh, Says
  <1> QED BY <1>2, <1>3, RefreshRows, Zenon

\* The refresh tokens that a replay leaves are of other clients or users.
LEMMA OthersSurvive ==
  ASSUME IInv, NEW r \in Requests, TearDown(r), NEW n \in Names, refresh'[n] # None
  PROVE  \A m \in Family(held[r]) : m \in Names /\ refresh[m] # None /\
           (refresh[n] # None => refresh[n].root # refresh[m].root)
PROOF
  <1>1. TypeOK /\ \A m \in Names : RefreshOK(m)
    BY Zenon DEF IInv, RowsOK
  <1>2. n \notin Family(held[r])
    BY SMT DEF TearDown, DropRefreshTokens
  <1>3. SUFFICES ASSUME NEW m \in Family(held[r]), refresh[n] # None,
                        refresh[n].root = refresh[m].root
                 PROVE  FALSE
    BY Zenon DEF Family
  <1>4. m \in Names /\ refresh[m] # None
    BY Zenon DEF Family
  <1>5. refresh[m].root # None /\ refresh[n].root # None
    BY <1>1, <1>3, <1>4, RowFields, NoneIsNone, Zenon
  <1>6. refresh[n].client = refresh[m].client /\ refresh[n].user = refresh[m].user
    BY <1>1, <1>3, <1>4, <1>5, Zenon DEF RefreshOK, OfGrant
  <1> QED BY <1>2, <1>3, <1>4, <1>6, Zenon DEF Family

\* A code is there for no grant that has tokens, or lost them.
LEMMA FreshStep ==
  ASSUME IInv, Next, ~config.suspends
  PROVE  CodesAreFresh' /\ FamiliesEnd' /\ OneUsable'
PROOF
  <1>1. /\ TypeOK /\ CodesAreFresh /\ FamiliesEnd /\ OneUsable /\ Alone
        /\ codes \in [Grants -> CodeRow \cup {None}]
        /\ \A g \in Grants : GrantOK(g)
        /\ \A n \in Names : RefreshOK(n)
    BY Zenon DEF IInv, InTurn, RowsOK, TypeOK
  <1>2. ASSUME NEW g, g \in tornDown', g \notin tornDown
        PROVE  \E r \in Requests : StepOf(r) /\ TearDown(r)
    <2>1. CASE \E r \in Requests : StepOf(r)
      BY <1>2, <2>1, Writes, Zenon
    <2>2. CASE \A r \in Requests : ~StepOf(r)
      BY <1>2, <2>2, OneMoves, Zenon
    <2> QED BY <2>1, <2>2
  <1>3. ASSUME NEW r \in Requests, StepOf(r), TearDown(r), NEW g, g \in tornDown'
        PROVE  g \in tornDown \/ \E m \in Family(held[r]) : g = refresh[m].root
    BY <1>3, SMT DEF TearDown
  <1>4. ASSUME NEW g \in Grants, codes'[g] # None
        PROVE  \/ codes[g] # None
               \/ granted[g] = None /\ UNCHANGED <<refresh, tornDown>>
    <2>1. ASSUME NEW r \in Requests, StepOf(r)
          PROVE  codes[g] # None
      <3>1. codes' = codes \/ \E t \in Grants : codes' = [codes EXCEPT ![t] = None]
        BY <2>1, Exchanges, Zenon
      <3> QED BY <1>1, <1>4, <3>1, SMT
    <2>2. CASE \A r \in Requests : ~StepOf(r)
      <3>1. UNCHANGED <<refresh, tornDown>>
        BY <2>2, OneMoves, Zenon
      <3>2. codes'[g] = codes[g] \/ granted[g] = None
        BY <2>2, OneMoves, Zenon
      <3> QED BY <1>4, <3>1, <3>2, Zenon
    <2> QED BY <2>1, <2>2
  <1>5. ASSUME NEW g \in Grants, codes'[g] # None
        PROVE  /\ g \notin tornDown'
               /\ \A n \in Names : refresh'[n] # None => refresh'[n].root # g
    <2>1. CASE granted[g] = None /\ UNCHANGED <<refresh, tornDown>>
      <3>1. g \notin tornDown
        BY <1>1, <2>1, Zenon DEF GrantOK
      <3>2. ASSUME NEW n \in Names, refresh[n] # None
            PROVE  refresh[n].root # g
        <4>1. refresh[n].root # None
          BY <1>1, <3>2, RowFields, NoneIsNone, Zenon
        <4> QED BY <1>1, <2>1, <3>2, <4>1, Zenon DEF RefreshOK, OfGrant
      <3> QED BY <2>1, <3>1, <3>2, Zenon
    <2>2. CASE codes[g] # None
      <3>1. g \notin tornDown /\ \A n \in Names : refresh[n] # None => refresh[n].root # g
        BY <1>1, <2>2, Zenon DEF CodesAreFresh
      <3>2. g \notin tornDown'
        <4>1. SUFFICES ASSUME g \in tornDown'
                       PROVE  FALSE
          OBVIOUS
        <4>2. PICK r \in Requests : StepOf(r) /\ TearDown(r)
          BY <1>2, <3>1, <4>1, Zenon
        <4>3. PICK m \in Family(held[r]) : g = refresh[m].root
          <5>1. g \in tornDown \/ \E m \in Family(held[r]) : g = refresh[m].root
            BY <1>3, <4>1, <4>2
          <5> QED BY <3>1, <5>1
        <4> QED BY <3>1, <4>3, Zenon DEF Family
      <3>3. ASSUME NEW n \in Names, refresh'[n] # None
            PROVE  refresh'[n].root # g
        BY <1>5, <2>2, <3>1, <3>3, Renewals, Zenon
      <3> QED BY <3>2, <3>3
    <2> QED BY <1>4, <1>5, <2>1, <2>2
  <1>6. ASSUME NEW q \in Requests, pc'[q] = "remove"
        PROVE  codes'[call'[q].token] # None
    <2>1. CASE \A r \in Requests : ~StepOf(r)
      <3>1. UNCHANGED <<pc, call>> /\ InHandler(q)
        BY <1>6, <2>1, OneMoves, SMT DEF InHandler
      <3>2. codes' = codes
        BY <2>1, <3>1, OneMoves, Zenon
      <3> QED BY <1>1, <1>6, <3>1, <3>2, Zenon DEF CodesAreFresh
    <2>2. ASSUME NEW r \in Requests, StepOf(r)
          PROVE  codes'[call'[q].token] # None
      <3>1. q = r
        BY <1>6, <2>2, OneMoves, SMT DEF InHandler
      <3>2. SelectCode(q)
        BY <1>6, <2>2, <3>1, Comes, Zenon
      <3> QED BY <3>2, Zenon DEF SelectCode, tables
    <2> QED BY <2>1, <2>2
  <1>7. CodesAreFresh'
    BY <1>5, <1>6, Zenon DEF CodesAreFresh
  <1>8. FamiliesEnd'
    <2> SUFFICES ASSUME NEW n \in Names, refresh'[n] # None, refresh'[n].root \in tornDown'
                 PROVE  FALSE
      BY Zenon DEF FamiliesEnd
    <2>1. CASE refresh[n] # None /\ refresh'[n].root = refresh[n].root
      <3>1. refresh[n].root \notin tornDown
        BY <1>1, <2>1, Zenon DEF FamiliesEnd
      <3>2. PICK r \in Requests : StepOf(r) /\ TearDown(r)
        BY <1>2, <2>1, <3>1, Zenon
      <3>3. PICK m \in Family(held[r]) : refresh[n].root = refresh[m].root
        BY <1>3, <2>1, <3>1, <3>2, Zenon
      <3> QED BY <2>1, <3>2, <3>3, OthersSurvive, Zenon
    <2>2. CASE ~(refresh[n] # None /\ refresh'[n].root = refresh[n].root)
      BY <2>2, Renewals, Zenon
    <2> QED BY <2>1, <2>2
  <1>9. OneUsable'
    <2> SUFFICES ASSUME NEW n \in Names, NEW m \in Names, Live(n)', Live(m)',
                        refresh'[n].root = refresh'[m].root, n # m
                 PROVE  FALSE
      BY Zenon DEF OneUsable
    <2>1. refresh'[n] # None /\ refresh'[m] # None
      BY Zenon DEF Live
    <2>2. CASE /\ Live(n) /\ refresh'[n].root = refresh[n].root
               /\ Live(m) /\ refresh'[m].root = refresh[m].root
      BY <1>1, <2>2, Zenon DEF OneUsable
    <2>3. ASSUME NEW x \in Names, NEW y \in Names, refresh'[x] # None, refresh'[y] # None,
                 x # y, Live(x)', Live(y)', refresh'[x].root = refresh'[y].root,
                 ~(Live(x) /\ refresh'[x].root = refresh[x].root)
          PROVE  FALSE
      <3>1. /\ x \in Requests /\ InHandler(x) /\ refresh'[x].root = held[x].root
            /\ \A z \in Names : Live(z) => refresh[z].root # held[x].root
        BY <2>3, Renewals, Zenon
      <3>2. CASE Live(y) /\ refresh'[y].root = refresh[y].root
        BY <2>3, <3>1, <3>2, Zenon
      <3>3. CASE y \in Requests /\ InHandler(y)
        BY <1>1, <2>3, <3>1, <3>3, Zenon DEF Alone
      <3> QED BY <2>3, <3>2, <3>3, Renewals, Zenon
    <2> QED BY <2>1, <2>2, <2>3, Zenon
  <1> QED BY <1>7, <1>8, <1>9

\* What is rotated is usable, and goes back to what tokens are issued for.
LEMMA RotatesStep ==
  ASSUME IInv, Next, ~config.suspends
  PROVE  RotatesUsable'
PROOF
  <1>1. /\ TypeOK /\ RotatesUsable /\ RequestsOK
        /\ held \in [Requests -> TokenRow \cup CodeRow \cup {None}]
    BY Zenon DEF IInv, InTurn, TypeOK
  <1> SUFFICES ASSUME NEW q \in Requests, pc'[q] = "rotate", NEW t, t = call'[q].token
               PROVE  Live(t)' /\ refresh'[t].root = held'[q].root
    BY Zenon DEF RotatesUsable, Live
  <1>2. CASE \A r \in Requests : ~StepOf(r)
    BY <1>1, <1>2, OneMoves, Zenon DEF RotatesUsable, Live
  <1>3. CASE StepOf(q)
    <2>1. FindRefresh(q)
      BY <1>3, Comes, Zenon
    <2> DEFINE row == refresh[t]
               h == Renewed(q, row)
    <2>2. /\ row # None /\ ~row.revoked /\ refresh' = refresh /\ call' = call
          /\ held' = [held EXCEPT ![q] = h] /\ pc[q] = "find"
      <3>1. /\ refresh' = refresh /\ call' = call /\ pc[q] = "find"
            /\ \/ Goto(q, "done")
               \/ /\ row # None /\ held' = [held EXCEPT ![q] = h]
                  /\ \E to : Goto(q, to) /\ (row.revoked => to = "tear-down")
        <4>1. call' = call
          BY <2>1, Zenon DEF FindRefresh
        <4> QED BY <2>1, <4>1, Zenon DEF FindRefresh, At, tables
      <3>2. \A to : Goto(q, to) => to = "rotate"
        BY <1>1, SMT DEF Goto, TypeOK
      <3> HIDE DEF row, h
      <3> QED BY <3>1, <3>2, SMT
    <2>3. call[q] # None /\ t \in Names
      BY <1>1, <2>2, CallFields, Zenon DEF RequestsOK, RequestOK, CallOK
    <2>4. row \in RefreshRow
      BY <1>1, <2>2, <2>3, RowFields, Zenon
    <2>5. h.root = row.root
      BY <1>1, <2>3, <2>4, RenewedType, Zenon
    <2>6. held'[q] = h
      BY <1>1, <2>2, SMT
    <2> QED BY <2>2, <2>5, <2>6, Zenon DEF Live
  <1>4. ASSUME NEW r \in Requests, StepOf(r)
        PROVE  q = r
    BY <1>4, OneMoves, SMT DEF InHandler
  <1> QED BY <1>2, <1>3, <1>4, Zenon

\* Tokens are issued while the code is gone and no other is usable.
LEMMA IssuesFreshStep ==
  ASSUME IInv, Next, ~config.suspends
  PROVE  IssuesFresh'
PROOF
  <1>1. /\ TypeOK /\ RequestsOK /\ IssuesFresh /\ RotatesUsable /\ OneUsable
        /\ CodesAreFresh /\ FamiliesEnd
        /\ codes \in [Grants -> CodeRow \cup {None}]
        /\ held \in [Requests -> TokenRow \cup CodeRow \cup {None}]
        /\ \A g \in Grants : GrantOK(g)
    BY Zenon DEF IInv, InTurn, RowsOK, TypeOK
  <1>2. ASSUME NEW q \in Requests
        PROVE  YetToMint(q)' => Issuing(q)'
    BY SMT DEF YetToMint, Issuing, NeedsKeyFor
  <1>3. SUFFICES ASSUME NEW q \in Requests, held'[q] # None, held'[q].root # None, Issuing(q)'
                 PROVE  /\ codes'[held'[q].root] = None /\ held'[q].root \notin tornDown'
                        /\ YetToMint(q)' =>
                             \A n \in Names : Live(n)' => refresh'[n].root # held'[q].root
    BY <1>2, Zenon DEF IssuesFresh, Live
  <1>4. InHandler(q)'
    BY <1>3, SMT DEF Issuing, NeedsKeyFor, InHandler
  <1>5. CASE \A r \in Requests : ~StepOf(r)
    <2>1. UNCHANGED <<refresh, tornDown, pc, call, held, signing>> /\ InHandler(q)
      BY <1>4, <1>5, OneMoves, Zenon DEF InHandler
    <2>2. codes' = codes
      BY <1>5, <2>1, OneMoves, Zenon
    <2> QED BY <1>1, <1>3, <2>1, <2>2, Zenon DEF IssuesFresh, Issuing, YetToMint, NeedsKeyFor, Live
  <1>6. ASSUME NEW r \in Requests, StepOf(r)
        PROVE  q = r
    BY <1>4, <1>6, OneMoves
  <1>7. CASE StepOf(q) /\ FindRefresh(q) /\ pc'[q] = "rotate"
    <2>1. /\ refresh' = refresh /\ codes' = codes /\ tornDown' = tornDown /\ call' = call
          /\ pc[q] = "find"
      BY <1>7, Zenon DEF FindRefresh, tables, At
    <2>2. Live(call[q].token) /\ refresh[call[q].token].root = held'[q].root
      BY <1>7, <2>1, RotatesStep, Zenon DEF RotatesUsable, Live
    <2>3. call[q] # None /\ call[q].token \in Names
      BY <1>1, <2>1, CallFields, Zenon DEF RequestsOK, RequestOK, CallOK
    <2>4. held'[q].root \in Grants /\ held'[q].root \notin tornDown
      BY <1>1, <2>2, <2>3, RowFields, Zenon DEF Live, FamiliesEnd
    <2>5. codes[held'[q].root] = None
      BY <1>1, <2>2, <2>3, <2>4, Zenon DEF Live, CodesAreFresh
    <2>6. ~YetToMint(q)'
      BY <1>7, SMT DEF YetToMint, NeedsKeyFor
    <2> QED BY <2>1, <2>4, <2>5, <2>6, Zenon
  <1>8. CASE StepOf(q) /\ (ConsumeCode(q) \/ RemoveCode(q))
    <2>1. /\ refresh' = refresh /\ tornDown' = tornDown
          /\ pc[q] \in {"consume", "remove"} /\ codes'[call[q].token] = None
      <3>1. call[q].token \in Grants
        BY <1>1, <1>8, Zenon DEF ConsumeCode, RemoveCode, At, RequestsOK, RequestOK, HandlerOK
      <3>2. /\ refresh' = refresh /\ tornDown' = tornDown
            /\ pc[q] \in {"consume", "remove"}
            /\ codes' = [codes EXCEPT ![call[q].token] = None]
        BY <1>8, Zenon DEF ConsumeCode, RemoveCode, At
      <3> QED BY <1>1, <3>1, <3>2, SMT
    <2>2. PICK t : t = call[q].token
      OBVIOUS
    <2>3. t \in Grants /\ granted[t] # None /\ granted[t].root = t
      BY <1>1, <2>1, <2>2, Zenon DEF RequestsOK, RequestOK, HandlerOK, GrantOK
    <2>4. codes[t] # None
      <3>1. CASE ConsumeCode(q)
        BY <2>2, <3>1, Zenon DEF ConsumeCode
      <3>2. CASE RemoveCode(q)
        BY <1>1, <2>2, <3>2, Zenon DEF RemoveCode, At, CodesAreFresh
      <3> QED BY <1>8, <3>1, <3>2
    <2>5. held'[q] = granted[t]
      <3>1. Exchange(q, granted[t])
        <4>1. CASE ConsumeCode(q)
          <5>1. codes[t] = granted[t]
            BY <1>1, <2>3, <2>4, Zenon DEF GrantOK
          <5> QED BY <2>2, <4>1, <5>1, Zenon DEF ConsumeCode
        <4>2. CASE RemoveCode(q)
          <5>1. held[q] = granted[t]
            BY <1>1, <2>2, <4>2, Zenon DEF RemoveCode, At, RequestsOK, RequestOK, HandlerOK
          <5> QED BY <4>2, <5>1, Zenon DEF RemoveCode
        <4> QED BY <1>8, <4>1, <4>2
      <3>2. ~Goto(q, "done")
        BY <1>4, SMT DEF Goto, InHandler, IInv, TypeOK
      <3>3. held' = [held EXCEPT ![q] = granted[t]]
        BY <3>1, <3>2, Zenon DEF Exchange
      <3> QED BY <1>1, <3>3, SMT
    <2>6. t \notin tornDown /\ \A n \in Names : refresh[n] # None => refresh[n].root # t
      BY <1>1, <2>3, <2>4, Zenon DEF CodesAreFresh
    <2> QED BY <2>1, <2>2, <2>3, <2>5, <2>6, Zenon DEF Live
  <1>9. CASE StepOf(q) /\ Issuing(q) /\ (YetToMint(q)' => YetToMint(q) \/ Rotate(q))
    <2>1. held'[q] = held[q]
      BY <1>1, <1>9, Keeps, SMT DEF Issuing, NeedsKeyFor, Decided
    <2>2. PICK h : h = held[q]
      OBVIOUS
    <2>3. h # None /\ h.root \in Grants
      BY <1>1, <1>3, <2>1, <2>2, HeldFields, Zenon
    <2>4. codes[h.root] = None /\ h.root \notin tornDown
      BY <1>1, <1>3, <1>9, <2>1, <2>2, Zenon DEF IssuesFresh
    <2>5. codes'[h.root] = None
      <3>1. codes' = codes \/ \E t \in Grants : codes' = [codes EXCEPT ![t] = None]
        BY <1>9, Exchanges, Zenon
      <3> QED BY <1>1, <2>3, <2>4, <3>1, SMT
    <2>6. tornDown' = tornDown
      <3>1. ~TearDown(q)
        BY <1>9, SMT DEF TearDown, At, Issuing, NeedsKeyFor
      <3> QED BY <1>9, <3>1, Writes, Zenon
    <2>7. ASSUME YetToMint(q)', NEW n \in Names, Live(n)'
          PROVE  refresh'[n].root # h.root
      <3>1. ~(n \in Requests /\ MintRefresh(n))
        <4>1. ASSUME n \in Requests, MintRefresh(n)
              PROVE  FALSE
          <5>1. ThenIdToken(n, held[n]) /\ n \in Requests /\ pc[n] = "mint"
            BY <4>1, Zenon DEF MintRefresh, At
          <5>2. n = q
            <6>1. InHandler(n) /\ Scheduled(n)
              BY <4>1, <5>1, SMT DEF MintRefresh, At, InHandler
            <6>2. InHandler(q)
              BY <1>9, SMT DEF Issuing, NeedsKeyFor, InHandler
            <6> QED BY <6>1, <6>2, Zenon DEF Scheduled
          <5> QED BY <1>1, <2>7, <5>1, <5>2, SMT DEF ThenIdToken, NeedKey, Goto, YetToMint, NeedsKeyFor,
                 IInv, TypeOK
        <4> QED BY <4>1
      <3>2. refresh[n] # None /\ refresh'[n].root = refresh[n].root /\ Live(n)
        BY <2>7, <3>1, Renewals, Zenon DEF Live
      <3>3. CASE YetToMint(q)
        BY <1>1, <1>3, <2>1, <2>2, <3>2, <3>3, Zenon DEF IssuesFresh
      <3>4. CASE Rotate(q)
        <4>1. PICK t : t = call[q].token
          OBVIOUS
        <4>2. pc[q] = "rotate" /\ Live(t) /\ refresh[t].root = h.root
          BY <1>1, <2>2, <3>4, <4>1, Zenon DEF Rotate, At, RotatesUsable
        <4>3. t \in Names
          BY <1>1, <4>1, <4>2, CallFields, Zenon DEF RequestsOK, RequestOK, CallOK
        <4>4. refresh'[t].revoked
          <5>1. refresh' = [refresh EXCEPT ![t].revoked = TRUE] /\ refresh[t] # None
            BY <3>4, <4>1, <4>2, Zenon DEF Rotate, Live
          <5>2. refresh'[t] = [refresh[t] EXCEPT !.revoked = TRUE]
            BY <1>1, <4>3, <5>1, Zenon DEF TypeOK
          <5>3. refresh[t] \in RefreshRow
            BY <1>1, <4>3, <5>1, RowFields, Zenon
          <5> QED BY <5>2, <5>3, SMT DEF RefreshRow
        <4>5. n # t
          BY <2>7, <4>4, Zenon DEF Live
        <4> QED BY <1>1, <3>2, <4>2, <4>3, <4>5, Zenon DEF OneUsable
      <3> QED BY <1>9, <2>7, <3>3, <3>4
    <2> QED BY <2>1, <2>2, <2>4, <2>5, <2>6, <2>7, Zenon
  <1> QED BY <1>3, <1>5, <1>6, <1>7, <1>8, <1>9, Comes, Zenon

\* A grant is one thing at a time.
LEMMA InTurnStep ==
  ASSUME IInv, Next
  PROVE  InTurn'
PROOF
  <1>1. config' = config
    BY Lasting
  <1> QED
    BY <1>1, OneMoves, FreshStep, RotatesStep, IssuesFreshStep, Zenon DEF InTurn

-----------------------------------------------------------------------------
(* The invariant                                                            *)

\* It holds at the start: what there is then are the grants of Old.
LEMMA InitIInv == Init => IInv
PROOF
  <1> SUFFICES ASSUME Init
               PROVE  IInv
    OBVIOUS
  <1>1. /\ Old \subseteq Grants /\ Requests \cap Grants = {}
        /\ config \in Config /\ config.clients \in [Clients -> ClientRow \cup {None}]
        /\ config.ticks \in Nat /\ Epoch \in Nat /\ RefreshTTL \in Nat
    BY ConstantsAssumption, SMT DEF Init, Config
  <1>2. ASSUME NEW g \in Old
        PROVE  /\ OldGrant(g) \in CodeRow /\ OldRefresh(g) \in RefreshRow
               /\ OldGrant(g) # None /\ OldRefresh(g) # None
    <2>1. /\ g \in Grants /\ OldClient[g] \in Clients /\ OldSession[g] \in Sessions
          /\ UserOf[OldSession[g]] \in Users
      BY ConstantsAssumption, SMT
    <2>2. OldGrant(g) \in CodeRow
      BY <1>1, <2>1, SMT DEF OldGrant, CodeRow
    <2>3. OldRefresh(g) \in RefreshRow
      BY <1>1, <2>1, SMT DEF OldRefresh, RefreshRow
    <2> QED BY <2>2, <2>3, NoneIsNone
  <1>3. TypeOK
    <2>1. granted \in [Grants -> CodeRow \cup {None}]
      BY <1>2, SMT DEF Init
    <2>2. refresh \in [Names -> RefreshRow \cup {None}]
      BY <1>2, SMT DEF Init
    <2>3. now \in Epoch .. Epoch + config.ticks
      BY <1>1, SMT DEF Init
    <2>4. /\ pc \in [Requests -> PCs] /\ call \in [Requests -> Call \cup {None}]
          /\ held \in [Requests -> TokenRow \cup CodeRow \cup {None}]
          /\ signing \in [Requests -> Purposes \cup {None}]
          /\ told \in [Requests -> Answer \cup {None}]
          /\ redeemed \in [Grants -> SUBSET Requests]
          /\ codes \in [Grants -> CodeRow \cup {None}]
          /\ access \in [Names -> TokenRow \cup {None}]
          /\ keys \in [KeyNames -> KeyRow \cup {None}]
          /\ jwts \in [SignedKinds -> [Requests -> Jwt \cup {None}]]
      BY SMT DEF Init, PCs
    <2> QED BY <1>1, <2>1, <2>2, <2>3, <2>4, Zenon DEF Init, TypeOK
  <1>4. RowsOK
    <2>1. ASSUME NEW g \in Grants
          PROVE  GrantOK(g)
      <3>1. granted[g] = (IF g \in Old THEN OldGrant(g) ELSE None) /\ codes[g] = None
            /\ redeemed[g] = {} /\ tornDown = {}
        BY SMT DEF Init
      <3>2. OldGrant(g).root = g
        BY SMT DEF OldGrant
      <3> QED BY <1>2, <3>1, <3>2, Zenon DEF GrantOK
    <2>2. ASSUME NEW n \in Names
          PROVE  RefreshOK(n) /\ AccessOK(n)
      <3>1. access[n] = None /\ refresh[n] = IF n \in Old THEN OldRefresh(n) ELSE None
        BY SMT DEF Init
      <3>2. CASE n \in Old
        <4>1. n \in Grants /\ n \notin Requests
          BY <1>1, <3>2, Zenon
        <4>2. granted[n] = OldGrant(n) /\ refresh[n] = OldRefresh(n) /\ granted[n] # None
          BY <1>2, <3>1, <3>2, <4>1, SMT DEF Init
        <4>3. /\ refresh[n].root = n /\ refresh[n].client = granted[n].client
              /\ refresh[n].user = granted[n].user /\ refresh[n].scope = Scopes
              /\ granted[n].scope = Scopes /\ refresh[n].session = granted[n].session
          BY <4>2, SMT DEF OldGrant, OldRefresh
        <4>4. n # None
          BY <4>1, NoneIsNone
        <4>5. Bound(n) = Scopes /\ ScopeOf(n) = Scopes
          BY <4>1, <4>3, Zenon DEF Bound, ScopeOf
        <4> QED
          BY <3>1, <3>2, <4>1, <4>2, <4>3, <4>4, <4>5, SMT DEF RefreshOK, AccessOK, OfGrant, OfSession
      <3>3. CASE n \notin Old
        BY <3>1, <3>3, Zenon DEF RefreshOK, AccessOK
      <3> QED BY <3>2, <3>3
    <2>3. /\ \A kind \in SignedKinds, r \in Requests : JwtOK(kind, r)
          /\ \A r \in Requests : ToldOK(r)
      BY SMT DEF Init, JwtOK, ToldOK
    <2>4. ClientsOK
      BY ConstantsAssumption, Zenon DEF Init, ClientsOK
    <2> QED BY <2>1, <2>2, <2>3, <2>4, Zenon DEF RowsOK
  <1>5. \A r \in Requests : pc[r] = "idle" /\ held[r] = None
    BY SMT DEF Init
  <1>6. RequestsOK
    BY <1>5, SMT DEF RequestsOK, RequestOK, CallOK, HandlerOK, IssuerOK, Issuing,
       NeedsKeyFor, RotatorOK, LeaverOK
  <1>7. RedeemedIsGone /\ CodeExchangedOnce
    BY SMT DEF Init, RedeemedIsGone, CodeExchangedOnce
  <1>8. KeysOK
    <2>1. /\ \A k \in KeyNames : keys[k] = None
          /\ \A kind \in SignedKinds, r \in Requests : jwts[kind][r] = None
      BY SMT DEF Init
    <2> QED BY <2>1, Zenon DEF KeysOK
  <1>9. InTurn
    <2>1. /\ tornDown = {} /\ \A g \in Grants : codes[g] = None
          /\ \A n \in Names : refresh[n] # None => n \in Old /\ refresh[n].root = n
      BY SMT DEF Init, OldRefresh
    <2>2. Alone
      BY <1>5, SMT DEF Alone, InHandler
    <2>3. CodesAreFresh /\ RotatesUsable
      BY <1>5, <2>1, SMT DEF CodesAreFresh, RotatesUsable
    <2>4. FamiliesEnd /\ OneUsable
      BY <2>1, Zenon DEF FamiliesEnd, OneUsable, Live
    <2>5. IssuesFresh
      BY <1>5, Zenon DEF IssuesFresh
    <2> QED BY <2>2, <2>3, <2>4, <2>5, Zenon DEF InTurn
  <1> QED BY <1>3, <1>4, <1>6, <1>7, <1>8, <1>9, Zenon DEF IInv

\* Every step preserves it.
LEMMA NextIInv == IInv /\ [Next]_vars => IInv'
PROOF
  <1>1. ASSUME IInv, Next
        PROVE  IInv'
    <2>1. TypeOK'
      BY <1>1, TypesStep
    <2>2. RowsOK' /\ RequestsOK'
      BY <1>1, RowsStep, RequestsStep
    <2>3. RedeemedIsGone' /\ CodeExchangedOnce' /\ KeysOK' /\ InTurn'
      BY <1>1, CodesStep, KeysLast, InTurnStep
    <2> QED BY <2>1, <2>2, <2>3, Zenon DEF IInv
  <1>2. ASSUME IInv, UNCHANGED vars
        PROVE  IInv'
    <2>1. /\ config' = config /\ now' = now /\ clients' = clients /\ sessions' = sessions
          /\ granted' = granted /\ codes' = codes /\ refresh' = refresh /\ access' = access
          /\ keys' = keys /\ jwts' = jwts /\ pc' = pc /\ call' = call /\ held' = held
          /\ signing' = signing /\ told' = told /\ redeemed' = redeemed /\ tornDown' = tornDown
      BY <1>2, Zenon DEF vars, provider, tables, history
    <2>2. TypeOK'
      BY <1>2, <2>1, Zenon DEF IInv, TypeOK
    <2>3. \A n : Bound(n)' = Bound(n) /\ ScopeOf(n)' = ScopeOf(n) /\ Decided(n)' = Decided(n)
      BY <2>1, Zenon DEF Bound, ScopeOf, Op, Decided
    <2>4. RowsOK'
      <3>1. RowsOK
        BY <1>2 DEF IInv
      <3>2. (\A g \in Grants : GrantOK(g)) => (\A g \in Grants : GrantOK(g)')
        BY <2>1, Zenon DEF GrantOK
      <3>3. (\A n \in Names : RefreshOK(n)) => (\A n \in Names : RefreshOK(n)')
        BY <2>1, <2>3, Zenon DEF RefreshOK
      <3>4. (\A n \in Names : AccessOK(n)) => (\A n \in Names : AccessOK(n)')
        BY <2>1, <2>3, Zenon DEF AccessOK
      <3>5. ASSUME NEW kind \in SignedKinds, NEW r \in Requests, JwtOK(kind, r)
            PROVE  JwtOK(kind, r)'
        BY <2>1, <2>3, <3>5, Zenon DEF JwtOK
      <3>6. (\A r \in Requests : ToldOK(r)) => (\A r \in Requests : ToldOK(r)')
        BY <2>1, Zenon DEF ToldOK
      <3>7. ClientsOK => ClientsOK'
        BY <2>1, Zenon DEF ClientsOK
      <3> QED BY <3>1, <3>2, <3>3, <3>4, <3>5, <3>6, <3>7, Zenon DEF RowsOK
    <2>5. \A r : Issuing(r)' = Issuing(r) /\ YetToMint(r)' = YetToMint(r)
      BY <2>1, Zenon DEF Issuing, YetToMint, NeedsKeyFor
    <2>6. RequestsOK'
      <3> SUFFICES ASSUME NEW r \in Requests
                   PROVE  RequestOK(r)'
        BY DEF RequestsOK
      <3>1. RequestOK(r) /\ Client(r)' = Client(r) /\ Op(r)' = Op(r)
        BY <1>2, <2>1, Zenon DEF IInv, RequestsOK, Client, Op
      <3>2. CallOK(r)'
        BY <2>1, <3>1, Zenon DEF RequestOK, CallOK
      <3>3. HandlerOK(r)'
        BY <2>1, <3>1, Zenon DEF RequestOK, HandlerOK
      <3>4. IssuerOK(r)'
        BY <2>1, <2>3, <2>5, <3>1, Zenon DEF RequestOK, IssuerOK
      <3>5. RotatorOK(r)' /\ LeaverOK(r)'
        BY <2>1, <3>1, Zenon DEF RequestOK, RotatorOK, LeaverOK
      <3> QED BY <3>2, <3>3, <3>4, <3>5, Zenon DEF RequestOK
    <2>7. RedeemedIsGone' /\ CodeExchangedOnce'
      BY <1>2, <2>1, Zenon DEF IInv, RedeemedIsGone, CodeExchangedOnce
    <2>8. KeysOK'
      BY <1>2, <2>1, Zenon DEF IInv, KeysOK
    <2>9. InTurn'
      <3>1. \A n : Live(n)' = Live(n) /\ InHandler(n)' = InHandler(n)
        BY <2>1, Zenon DEF Live, InHandler
      <3>2. InTurn
        BY <1>2 DEF IInv
      <3>3. Alone => Alone'
        BY <3>1, Zenon DEF Alone
      <3>4. CodesAreFresh => CodesAreFresh'
        BY <2>1, Zenon DEF CodesAreFresh
      <3>5. FamiliesEnd /\ OneUsable => FamiliesEnd' /\ OneUsable'
        BY <2>1, <3>1, Zenon DEF FamiliesEnd, OneUsable
      <3>6. RotatesUsable => RotatesUsable'
        BY <2>1, Zenon DEF RotatesUsable, Live
      <3>7. IssuesFresh => IssuesFresh'
        BY <2>1, <2>5, <3>1, Zenon DEF IssuesFresh
      <3> QED BY <2>1, <3>2, <3>3, <3>4, <3>5, <3>6, <3>7, Zenon DEF InTurn
    <2> QED BY <2>2, <2>4, <2>6, <2>7, <2>8, <2>9, Zenon DEF IInv
  <1> QED BY <1>1, <1>2

\* So it holds in every behaviour.
LEMMA Invariance == Spec => []IInv
PROOF BY InitIInv, NextIInv, PTL DEF Spec

-----------------------------------------------------------------------------
(* Theorems                                                                 *)

\* The tables, the handlers and what they hold are always of their types.
THEOREM TypeCorrect == Spec => []TypeOK
PROOF
  <1>1. IInv => TypeOK
    BY DEF IInv
  <1> QED BY <1>1, Invariance, PTL

\* Through any chain of exchanges and refreshes, of any clients, a token gives
\* what its user granted and no more than the token it was refreshed with; a
\* code that cannot be consumed twice is exchanged once; and where handlers do
\* not interleave a grant has one usable refresh token, and none after a replay.
THEOREM TokensKeep == Spec => []TokensKeepToGrants
PROOF
  <1>1. IInv => TokensKeepToGrants
    <2> SUFFICES ASSUME IInv
                 PROVE  TokensKeepToGrants
      OBVIOUS
    <2>1. /\ \A n \in Names : RefreshOK(n) /\ AccessOK(n)
          /\ \A kind \in SignedKinds, r \in Requests : JwtOK(kind, r)
          /\ \A r \in Requests : ToldOK(r)
          /\ CodeExchangedOnce /\ InTurn
      BY Zenon DEF IInv, RowsOK
    <2>2. ASSUME NEW n \in Names, NEW row \in TokensOf(n) \ {None}, row.root # None
          PROVE  /\ granted[row.root].client = row.client
                 /\ granted[row.root].user = row.user
                 /\ row.scope \subseteq granted[row.root].scope
                 /\ n \in Requests /\ Op(n) = "refresh" =>
                      row.scope \subseteq ScopeOf(call[n].token)
      <3>1. \/ row = refresh[n] \/ row = access[n]
            \/ n \in Requests /\ row = jwts["access_token"][n]
        BY <2>2, SMT DEF TokensOf
      <3>2. "access_token" \in SignedKinds \ {"session_token"}
        BY SMT DEF SignedKinds, Kinds
      <3>3. OfGrant(granted, row) /\ row.scope \subseteq Bound(n)
        BY <2>1, <2>2, <3>1, <3>2, Zenon DEF RefreshOK, AccessOK, JwtOK
      <3> QED BY <2>2, <3>3, Zenon DEF OfGrant, Bound
    <2>3. NothingWidens
      BY <2>1, <2>2, Zenon DEF NothingWidens, ToldOK
    <2>4. OneUsableRefreshToken /\ ReplayEndsFamily
      BY <2>1, Zenon DEF InTurn, OneUsable, FamiliesEnd, OneUsableRefreshToken, ReplayEndsFamily
    <2> QED BY <2>1, <2>3, <2>4, Zenon DEF TokensKeepToGrants, GrantsAreSingleUse
  <1> QED BY <1>1, Invariance, PTL

\* However keys are rotated, a token that has not expired was signed with one
\* that is published, as long as tokens live no longer than the grace period.
THEOREM KeysOutlive == Spec => []KeysOutliveTokens
PROOF
  <1>1. IInv => KeysOutliveTokens
    <2> SUFFICES ASSUME IInv, AccessTTL <= GracePeriod, TokenTTL <= GracePeriod,
                        NEW kind \in SignedKinds, NEW r \in Requests,
                        jwts[kind][r] # None, jwts[kind][r].expiresAt >= now
                 PROVE  jwts[kind][r].key \in Published
      BY DEF KeysOutliveTokens
    <2> DEFINE row == jwts[kind][r]
    <2>1. TypeOK /\ KeysOK
      BY Zenon DEF IInv
    <2>2. /\ row.key \in KeyNames /\ row.expiresAt \in Nat /\ keys[row.key] # None
          /\ \/ row.expiresAt < Epoch
             \/ ~config.rotates
             \/ row.expiresAt <= keys[row.key].createdAt + RotationInterval + GracePeriod
          /\ row.expiresAt >= now
      BY <2>1, RowFields, Zenon DEF KeysOK
    <2>3. /\ keys[row.key].createdAt \in Nat /\ keys[row.key].createdAt <= now
          /\ RotationInterval \in Nat /\ GracePeriod \in Nat /\ now \in Nat
          /\ Epoch \in Nat /\ now >= Epoch
      BY <2>1, <2>2, Times, RowFields, Zenon DEF KeysOK
    <2> HIDE DEF row
    <2>4. config.rotates => Age(row.key) <= RotationInterval + GracePeriod
      BY <2>2, <2>3, SMT DEF Age
    <2>5. row.key \in Published
      BY <2>2, <2>4, Zenon DEF Published, Rows
    <2> QED BY <2>5 DEF row
  <1> QED BY <1>1, Invariance, PTL

\* A usable refresh token goes by a call of its own client only, and a client
\* ends a session only if an administrator let it and the user authorized it
\* from that session.
THEOREM ClientsKeep == Spec => ClientsKeepToTheirOwn
PROOF
  <1>1. ASSUME IInv, Next, NEW n \in Names, Live(n), refresh'[n] = None \/ refresh'[n].revoked
        PROVE  \E r \in Requests : pc'[r] # pc[r] /\ Client(r) = refresh[n].client
    <2>1. /\ TypeOK /\ refresh[n] # None /\ ~refresh[n].revoked /\ refresh'[n] # refresh[n]
          /\ refresh \in [Names -> RefreshRow \cup {None}] /\ pc \in [Requests -> PCs]
      BY <1>1, Zenon DEF Live, IInv, TypeOK
    <2>2. PICK r \in Requests : StepOf(r) /\ refresh' # refresh
      BY <1>1, <2>1, Steps, Zenon DEF Tick, Authorize, RevokeSession, tables
    <2>3. RequestOK(r)
      BY <1>1, Zenon DEF IInv, RequestsOK
    <2>4. ASSUME NEW to, Goto(r, to), pc[r] # to
          PROVE  pc'[r] # pc[r]
      BY <2>1, <2>4, SMT DEF Goto
    <2>5. CASE Rotate(r)
      <3>1. PICK t : t = call[r].token
        OBVIOUS
      <3>2. pc[r] = "rotate" /\ IssueTokens(r)
            /\ refresh' = [refresh EXCEPT ![t].revoked = TRUE]
        BY <2>2, <2>5, <3>1, Zenon DEF Rotate, At
      <3>3. n = t
        BY <2>1, <3>2, SMT
      <3>4. Goto(r, "find-key") \/ Goto(r, "access")
        BY <3>2, Zenon DEF IssueTokens, NeedKey
      <3>5. refresh[n].client = Client(r)
        BY <2>1, <2>3, <3>1, <3>2, <3>3, Zenon DEF RequestOK, RotatorOK
      <3> QED BY <2>4, <3>2, <3>4, <3>5, SMT
    <2>6. CASE TearDown(r)
      <3>1. /\ pc[r] = "tear-down" /\ Goto(r, "done")
            /\ refresh' = [m \in Names |-> IF m \in Family(held[r]) THEN None ELSE refresh[m]]
        BY <2>6, Zenon DEF TearDown, At, DropRefreshTokens
      <3>2. n \in Family(held[r])
        BY <2>1, <3>1, SMT
      <3>3. refresh[n].client = Client(r)
        BY <2>3, <3>1, <3>2, Zenon DEF Family, RequestOK, IssuerOK
      <3> QED BY <2>4, <3>1, <3>3, SMT
    <2>7. CASE DropRefresh(r)
      <3>1. /\ pc[r] = "drop-refresh" /\ Goto(r, "drop-access")
            /\ \A m \in Names : refresh'[m] # refresh[m] => refresh[m].client = Client(r)
        BY <2>7, SMT DEF DropRefresh, At, DropRefreshTokens
      <3> QED BY <2>1, <2>4, <3>1, SMT
    <2>8. CASE MintRefresh(r)
      <3>1. refresh' = [refresh EXCEPT ![r] = Refreshing(r, held[r].user)]
        BY <2>8, Zenon DEF MintRefresh
      <3>2. n = r /\ refresh'[n] = Refreshing(r, held[r].user)
        BY <2>1, <3>1, SMT
      <3>3. ~refresh'[n].revoked
        BY <3>2, SMT DEF Refreshing
      <3>4. refresh'[n] # None
        <4>1. refresh'[n] \in RefreshRow
          <5>1. pc[r] = "mint" /\ held[r] # None /\ OfGrant(granted, held[r])
                /\ "offline_access" \in held[r].scope /\ call[r] # None
                /\ (held[r].root # None => held[r].session # None)
            BY <2>3, <2>8, Zenon DEF MintRefresh, At, RequestOK, HandlerOK, IssuerOK, Issuing,
               Entitled, CallOK
          <5>2. held[r].root # None
            BY <5>1, SMT DEF OfGrant, OfUsers
          <5>3. held[r].user \in Users /\ held[r].root \in Grants
            BY <2>1, <5>1, <5>2, HeldFields, RowFields, SMT DEF OfGrant
          <5>4. now + RefreshTTL \in Nat
            BY <2>1, Times, SMT
          <5> QED BY <2>1, <3>2, <5>1, <5>2, <5>3, <5>4, HeldFields, CallFields,
                 SMT DEF Refreshing, RefreshRow
        <4> QED BY <4>1, NoneIsNone, Zenon
      <3> QED BY <1>1, <3>3, <3>4
    <2> QED BY <2>2, <2>5, <2>6, <2>7, <2>8, Writes, Zenon
  <1>2. ASSUME IInv, Next, NEW s \in sessions \ sessions', NEW r \in Requests,
               pc[r] = "end-session", pc'[r] = "done"
        PROVE  \E g \in Grants : /\ granted[g] # None
                                 /\ granted[g].session = s
                                 /\ clients[granted[g].client].invited
                                 /\ clients[granted[g].client].logout
    <2>1. /\ TypeOK /\ RequestOK(r) /\ ClientsOK
          /\ \A kind \in SignedKinds, q \in Requests : JwtOK(kind, q)
      BY <1>2, Zenon DEF IInv, RequestsOK, RowsOK
    <2>2. StepOf(r) /\ DeleteSession(r)
      <3>1. PICK q \in Requests : StepOf(q)
        BY <1>2, Steps, Zenon DEF Tick, Authorize, RevokeSession
      <3>2. q = r
        <4>1. pc'[r] # pc[r]
          BY <1>2, SMT
        <4> QED BY <2>1, <3>1, <4>1, Keeps, Zenon
      <3> QED BY <1>2, <3>1, <3>2, Writes, Zenon
    <2>3. PICK kind, t, row : kind = call[r].kind /\ t = call[r].token /\ row = jwts[kind][t]
      OBVIOUS
    <2>4. s = row.sid
      BY <1>2, <2>2, <2>3, SMT DEF DeleteSession
    <2>5. /\ kind \in SignedKinds \ {"session_token"} /\ t \in Requests /\ row # None
          /\ row.sid # None /\ clients[row.client].logout
      BY <1>2, <2>1, <2>3, Zenon DEF RequestOK, LeaverOK
    <2>6. /\ OfGrant(granted, row) /\ OfSession(granted, row, row.sid)
          /\ row.client \in Clients /\ clients[row.client] # None
          /\ row.root \in Grants \cup {None}
      BY <2>1, <2>3, <2>5, RowFields, Zenon DEF JwtOK
    <2>7. /\ row.root \in Grants /\ granted[row.root] # None
          /\ granted[row.root].session = s /\ granted[row.root].client = row.client
      BY <2>4, <2>5, <2>6, Zenon DEF OfGrant, OfSession
    <2>8. clients[row.client].invited
      BY <2>1, <2>5, <2>6, Zenon DEF ClientsOK
    <2> QED BY <2>5, <2>7, <2>8, Zenon
  <1>3. IInv /\ [Next]_vars =>
          [\A n \in Names :
             Live(n) /\ (refresh'[n] = None \/ refresh'[n].revoked) =>
               \E r \in Requests : pc'[r] # pc[r] /\ Client(r) = refresh[n].client]_vars
    BY <1>1
  <1>4. IInv /\ [Next]_vars =>
          [\A s \in sessions \ sessions', r \in Requests :
             pc[r] = "end-session" /\ pc'[r] = "done" =>
               \E g \in Grants : /\ granted[g] # None
                                 /\ granted[g].session = s
                                 /\ clients[granted[g].client].invited
                                 /\ clients[granted[g].client].logout]_vars
    BY <1>2
  <1> QED
    BY <1>3, <1>4, Invariance, PTL
    DEF Spec, ClientsKeepToTheirOwn, OnlyItsClientSpendsAToken, LogoutIsEarned
=============================================================================
