---------------------------- MODULE DeviceCodes ----------------------------
(***************************************************************************)
(* Device authorization: a device asks for a pair of codes and polls with  *)
(* one of them; a signed-in user claims the other and approves or denies.  *)
(***************************************************************************)
EXTENDS SignInState

CodeRows(r) == {d \in db.device : d.id = call[r].device}

UpdateDevice(r, Patch(_)) ==
  [db EXCEPT !.device = {IF d.id = call[r].device THEN Patch(d) ELSE d : d \in @}]

DeviceCode(r) ==
  /\ At(r, "device-code")
  /\ Finishes(r, {"code"}, [db EXCEPT !.device = @ \cup
       {[id |-> r, user |-> None, status |-> "pending", lastPolled |-> None,
         expiresAt |-> now + CodeLife]}])

\* The client must be the one that asked, and not poll too often.
DeviceToken(r) ==
  /\ At(r, "device-token")
  /\ \E row \in FindOne(CodeRows(r)) :
       IF \/ row = None \/ ~call[r].right
          \/ row.lastPolled # None /\ now - row.lastPolled < Interval
       THEN Refuse(r)
       ELSE Reads(r, "poll", row.user, row)

\* Mutant of Poll: whatever is not denied is approved.
PollPending(r) ==
  LET row    == mem[r].row
      tables == UpdateDevice(r, LAMBDA d : [d EXCEPT !.lastPolled = now]) IN
  /\ At(r, "poll")
  /\ Writes(r, IF row.expiresAt < now \/ row.status = "denied" THEN "drop-device" ELSE "session",
            tables)

\* Decided on the row as it was before it was marked as polled.
Poll(r) ==
  LET row    == mem[r].row
      tables == UpdateDevice(r, LAMBDA d : [d EXCEPT !.lastPolled = now]) IN
  /\ At(r, "poll")
  /\ IF row.expiresAt < now \/ row.status = "denied" THEN Writes(r, "drop-device", tables)
     ELSE IF row.status = "approved" THEN Writes(r, "session", tables)
     ELSE Finishes(r, {}, tables)

DropDevice(r) ==
  /\ At(r, "drop-device")
  /\ Finishes(r, IF r \in {s.id : s \in db.session} THEN {"session"} ELSE {},
       [db EXCEPT !.device = @ \ CodeRows(r)])

\* A signed-in visitor of the verification page claims a code nobody has.
DeviceVerify(r) ==
  /\ At(r, "device-verify")
  /\ \E row \in FindOne(CodeRows(r)) :
       IF \/ row = None \/ row.expiresAt < now
          \/ SignedIn(r) = {} \/ row.user # None \/ row.status # "pending"
       THEN Refuse(r)
       ELSE \E user \in SignedIn(r) : Reads(r, "claim", user, row)

\* The update is conditional: a claim never takes a code from another user.
Claim(r) ==
  /\ At(r, "claim")
  /\ Finishes(r, {}, UpdateDevice(r, LAMBDA d :
       IF d.status = "pending" /\ d.user = None THEN [d EXCEPT !.user = User(r)] ELSE d))

\* Mutant of SetStatus: whoever has claimed the code, or nobody.
SetStatusOfAny(r) ==
  /\ pc[r] \in {"device-approve", "device-deny"} /\ Scheduled(r)
  /\ \E row \in FindOne(CodeRows(r)) :
       IF \/ row = None \/ SignedIn(r) = {}
          \/ row.expiresAt < now \/ row.status # "pending"
       THEN Refuse(r)
       ELSE \E user \in SignedIn(r) : Reads(r, "decide", user, row)

\* Only the user who claimed a pending code may approve or deny it.
SetStatus(r) ==
  /\ pc[r] \in {"device-approve", "device-deny"} /\ Scheduled(r)
  /\ \E row \in FindOne(CodeRows(r)) :
       IF \/ row = None \/ row.expiresAt < now \/ row.status # "pending"
          \/ row.user = None \/ row.user \notin SignedIn(r)
       THEN Refuse(r)
       ELSE Reads(r, "decide", row.user, row)

Decided(r, d) ==
  [d EXCEPT !.user = User(r),
            !.status = IF Op(r) = "device-approve" THEN "approved" ELSE "denied"]

Decide(r) ==
  /\ At(r, "decide")
  /\ Finishes(r, {"ok"}, UpdateDevice(r, LAMBDA d : Decided(r, d)))

DeviceStep(r) ==
  \/ DeviceCode(r) \/ DeviceToken(r) \/ Poll(r) \/ DropDevice(r)
  \/ DeviceVerify(r) \/ Claim(r) \/ SetStatus(r) \/ Decide(r)
=============================================================================
