--------------------------- MODULE SignedChallenges ---------------------------
(***************************************************************************)
(* The ways to sign in that answer a challenge with a key of one's own:    *)
(* Ethereum wallets and passkeys.                                          *)
(***************************************************************************)
EXTENDS SignInState

-----------------------------------------------------------------------------
(* Wallets: a nonce for an address on a chain, and a signed message that   *)
(* burns it, finds or creates the user of the address and records the      *)
(* wallet.  Names from ENS only decorate the user.                         *)

Nonces(r) == Rows(<<"siwe", call[r].who>>)

IssueNonce(r) ==
  /\ At(r, "siwe-nonce")
  /\ Finishes(r, {"code"},
       [db EXCEPT !.verification = @ \cup {NewRow(r, <<"siwe", call[r].who>>, None)}])

\* Any nonce row of the wallet may be found; the message must be signed over it.
VerifyWallet(r) ==
  /\ At(r, "siwe-verify")
  /\ \E nonce \in FindOne(Nonces(r)) :
       IF \/ nonce = None
          \/ nonce.expiresAt < now
          \/ ~call[r].right \/ call[r].code # nonce.id
       THEN Refuse(r)
       ELSE Reads(r, "burn", None, nonce)

\* Deleted by identifier: the row that was found, if it is still there, or all.
BurnNonce(r) ==
  /\ At(r, "burn")
  /\ \E hit \in IF mem[r].row \in Nonces(r) THEN {{mem[r].row}, Nonces(r)} ELSE Matched(Nonces(r)) :
       Writes(r, "resolve-wallet", [db EXCEPT !.verification = @ \ hit])

WalletsOf(address) == {w \in db.wallet : AddressOf[w.wallet] = address}

\* The user of this wallet, or else of any wallet with the address.
ResolveWallet(r) ==
  LET exact == {w \in db.wallet : w.wallet = call[r].who}
      any   == WalletsOf(AddressOf[call[r].who]) IN
  /\ At(r, "resolve-wallet")
  /\ IF exact # {} THEN \E w \in exact : Reads(r, "session", w.user, None)
     ELSE \E w \in FindOne(any) :
       IF w = None THEN Reads(r, "wallet-user", None, None)
       ELSE Reads(r, "wallet-row", w.user, None)

\* The user's e-mail address is made from the wallet's address, and unique.
WalletUser(r) ==
  LET row == [twoFactor |-> FALSE, phone |-> None, phoneVerified |-> FALSE] IN
  /\ At(r, "wallet-user")
  /\ \/ WalletsOf(AddressOf[call[r].who]) # {} /\ Refuse(r)
     \/ /\ Goto(r, "wallet-row")
        /\ db' = [db EXCEPT !.user[r] = row]
        /\ mem' = [mem EXCEPT ![r].user = r]
        /\ UNCHANGED <<config, now, call, answer>>

WalletRowFor(r) ==
  /\ At(r, "wallet-row")
  /\ Writes(r, "wallet-account", [db EXCEPT !.wallet = @ \cup
       {[id |-> r, wallet |-> call[r].who, user |-> User(r)]}])

WalletAccount(r) ==
  /\ At(r, "wallet-account")
  /\ Writes(r, "session", [db EXCEPT !.account = @ \cup
       {[id |-> r, user |-> User(r), wallet |-> call[r].who, password |-> None]}])

WalletStep(r) ==
  \/ IssueNonce(r) \/ VerifyWallet(r) \/ BurnNonce(r) \/ ResolveWallet(r)
  \/ WalletUser(r) \/ WalletRowFor(r) \/ WalletAccount(r)

-----------------------------------------------------------------------------
(* Passkeys: a challenge is kept in a verification row behind a cookie;    *)
(* registering and signing in answer it with an authenticator's response.  *)
(* The response's check is py_webauthn's: it must be over the challenge,   *)
(* and its counter must grow unless the authenticator keeps none.          *)

Challenges(r) == Rows(<<"passkey", call[r].cookie>>)

\* Options are for the user who is signed in, if any.
PasskeyOptions(r) ==
  /\ pc[r] \in {"passkey-register-options", "passkey-authenticate-options"} /\ Scheduled(r)
  /\ IF Op(r) = "passkey-register-options" /\ SignedIn(r) = {} THEN Refuse(r)
     ELSE \E user \in FindOne(SignedIn(r)) :
       Finishes(r, {"challenge"},
         [db EXCEPT !.verification = @ \cup {NewRow(r, <<"passkey", r>>, user)}])

\* The challenge must have been made for the user who is signed in; its expiry
\* is not looked at.
RegisterPasskey(r) ==
  /\ At(r, "passkey-register")
  /\ \E row \in FindOne(Challenges(r)) :
       IF row = None \/ row.holder \notin SignedIn(r) \/ call[r].code # row.id
       THEN Refuse(r)
       ELSE Reads(r, "passkey-row", row.holder, row)

InsertPasskey(r) ==
  /\ At(r, "passkey-row")
  /\ Writes(r, "consume", [db EXCEPT !.passkey = @ \cup
       {[id |-> r, user |-> User(r), counter |-> 0]}])

\* external: py_webauthn, verify_authentication_response
CounterGrows(passkey, count) ==
  count > passkey.counter \/ (count = 0 /\ passkey.counter = 0)

Authenticate(r) ==
  /\ At(r, "passkey-authenticate")
  /\ \E row \in FindOne(Challenges(r)),
        passkey \in FindOne({p \in db.passkey : p.id = call[r].device}) :
       IF \/ row = None \/ passkey = None
          \/ ~call[r].right \/ call[r].code # row.id
          \/ ~CounterGrows(passkey, call[r].count)
       THEN Refuse(r)
       ELSE Reads(r, "counter", passkey.user, row)

WriteCounter(r) ==
  /\ At(r, "counter")
  /\ Writes(r, "session", [db EXCEPT !.passkey =
       {IF p.id = call[r].device THEN [p EXCEPT !.counter = call[r].count] ELSE p : p \in @}])

\* Only its owner renames or deletes a passkey; the name is not modelled.
ManagePasskey(r) ==
  /\ pc[r] \in {"passkey-delete", "passkey-update"} /\ Scheduled(r)
  /\ \E passkey \in FindOne({p \in db.passkey : p.id = call[r].device}) :
       IF passkey = None \/ passkey.user \notin SignedIn(r) THEN Refuse(r)
       ELSE IF Op(r) = "passkey-update" THEN Finishes(r, {"ok"}, db)
       ELSE Reads(r, "drop-passkey", passkey.user, passkey)

DropPasskey(r) ==
  /\ At(r, "drop-passkey")
  /\ Finishes(r, {"ok"}, [db EXCEPT !.passkey = {p \in @ : p.id # call[r].device}])

PasskeyStep(r) ==
  \/ PasskeyOptions(r) \/ RegisterPasskey(r) \/ InsertPasskey(r) \/ Authenticate(r)
  \/ WriteCounter(r) \/ ManagePasskey(r) \/ DropPasskey(r)
=============================================================================
