---------------------------- MODULE Subscriptions ----------------------------
(***************************************************************************)
(* The Stripe plugin: local rows that mirror the subscriptions Stripe      *)
(* keeps.  Endpoints change one side and then the other; Stripe reports    *)
(* what happens on its side by webhook events that carry a snapshot of the *)
(* subscription; members who join or leave an organization resize the      *)
(* seats it pays for.                                                      *)
(*                                                                         *)
(* Checkouts, subscriptions, schedules and customers are named by the      *)
(* request that made them, rows by the request that made them or by the    *)
(* subscription whose event did, or they are there from the start.         *)
(***************************************************************************)
EXTENDS Naturals, FiniteSets, Sequences, SequencesExt

CONSTANTS
  Requests,   \* calls of an endpoint; each is made once
  Users,
  Orgs,
  MayActFor,  \* [Users -> SUBSET References]: what authorize_reference allows
  Plans,      \* the plans; all come with a free trial
  SeatPlan,   \* the plan whose seats follow an organization's members
  Seeds,      \* what each scenario finds at the start
  Calls,      \* the calls of each scenario
  Configs,    \* the configurations that are looked at
  MaxEvents,  \* bound: Stripe starts nothing when it has sent so many events
  None

References == Users \cup Orgs
Ids == Requests \cup UNION {DOMAIN Seeds[n].subs : n \in DOMAIN Seeds}

Operations == {"signup", "checkout", "portal", "cancel", "restore", "resume",
               "upgrade", "join", "leave"}

\* suspends: a handler may be suspended wherever it awaits
\* prompt: no request begins while a checkout is open or an event is on its way
\* ordered: events arrive in the order Stripe sent them
\* requests, scenario: how many requests are made, and the calls they make
Config == [suspends : BOOLEAN, prompt : BOOLEAN, ordered : BOOLEAN,
           requests : Nat, scenario : DOMAIN Calls]

Statuses == {"trialing", "active", "canceled"}
Active(s) == s.status \in {"trialing", "active"}

\* A subscription at Stripe.  meta: the row that its metadata names;
\* trialed: it has trial dates; ends: it is to end with its period.
Sub == [customer : Ids, ref : References, meta : Ids \cup {None},
        status : Statuses, trialed : BOOLEAN, plan : Plans, seats : Nat,
        ends : BOOLEAN, schedule : Ids \cup {None}]

Row == [ref : References, customer : Ids, sub : Ids \cup {None},
        status : Statuses \cup {"incomplete"}, trialed : BOOLEAN, plan : Plans,
        seats : Nat \cup {None}, ends : BOOLEAN, schedule : Ids \cup {None}]

Checkout == [customer : Ids, ref : References, meta : Ids \cup {None},
             plan : Plans, seats : Nat, trial : BOOLEAN]

\* at: sent by Stripe; read by the handler, which has found the row it will
\* write; done.
Event == [type : {"created", "completed", "updated", "deleted"}, sub : Ids,
          snapshot : Sub, at : {"sent", "read", "done"}, row : Ids \cup {None},
          ref : References \cup {None}]

ASSUME ConstantsAssumption ==
  /\ MayActFor \in [Users -> SUBSET References]
  /\ SeatPlan \in Plans /\ MaxEvents \in Nat
  /\ Configs \subseteq Config /\ DOMAIN Seeds = DOMAIN Calls

VARIABLES
  config,      \* the configuration
  rows,        \* the subscription table
  customerOf,  \* stripeCustomerId of users and organizations
  members,     \* how many members each organization has
  customers,   \* at Stripe: whose customer each one is, or None
  subs,        \* at Stripe: subscriptions, or None
  checkouts,   \* at Stripe: open checkout sessions, or None
  portals,     \* at Stripe: the subscriptions a portal session may cancel
  events,      \* the events Stripe sent, in that order
  pc, call,    \* what each request does next, and its arguments
  mem,         \* what it remembers
  purged       \* the references whose rows cancel has deleted

local  == <<rows, customerOf, members>>
stripe == <<customers, subs, checkouts, portals, events>>
vars   == <<config, local, stripe, pc, call, mem, purged>>

NoMemory == [customer |-> None, sub |-> None, row |-> None, seats |-> 0,
             status |-> None, trial |-> FALSE]

TypeOK ==
  /\ config \in Configs
  /\ rows \in [Ids -> Row \cup {None}]
  /\ customerOf \in [References -> Ids \cup {None}]
  /\ members \in [Orgs -> Nat]
  /\ customers \in [Ids -> References \cup {None}]
  /\ subs \in [Ids -> Sub \cup {None}]
  /\ checkouts \in [Requests -> Checkout \cup {None}]
  /\ portals \subseteq Ids
  /\ events \in Seq(Event)
  /\ \A r \in Requests : call[r] \in Calls[config.scenario] \cup {None}
  /\ \A s \in Ids : subs[s] # None => customers[subs[s].customer] # None
  /\ \A k \in Ids : rows[k] # None => customers[rows[k].customer] # None
  /\ purged \subseteq References

\* f, and None for every other element of S.
Padded(f, S) == [x \in S |-> IF x \in DOMAIN f THEN f[x] ELSE None]

Init ==
  /\ config \in Configs
  /\ LET seed == Seeds[config.scenario] IN
       /\ rows = Padded(seed.rows, Ids)
       /\ customerOf = Padded(seed.customerOf, References)
       /\ members = seed.members
       /\ customers = Padded(seed.customers, Ids)
       /\ subs = Padded(seed.subs, Ids)
  /\ checkouts = [r \in Requests |-> None]
  /\ portals = {} /\ events = << >> /\ purged = {}
  /\ pc = [r \in Requests |-> "idle"]
  /\ call = [r \in Requests |-> None]
  /\ mem = [r \in Requests |-> NoMemory]

-----------------------------------------------------------------------------
InHandler(r) == pc[r] \notin {"idle", "done"}
Reading(i)   == events[i].at = "read"

Quiet == /\ \A r \in Requests : ~InHandler(r)
         /\ \A i \in DOMAIN events : ~Reading(i)

Scheduled(r) ==
  config.suspends \/ /\ \A q \in Requests \ {r} : ~InHandler(q)
                     /\ \A i \in DOMAIN events : ~Reading(i)

At(r, at)   == pc[r] = at /\ Scheduled(r)
Goto(r, to) == pc' = [pc EXCEPT ![r] = to]

Settled == /\ \A i \in DOMAIN events : events[i].at = "done"
           /\ \A r \in Requests : checkouts[r] = None

\* Steps that only read, that write the database, that call Stripe.
Remembers(r, to, m) ==
  /\ Goto(r, to) /\ mem' = [mem EXCEPT ![r] = m]
  /\ UNCHANGED <<config, local, stripe, call, purged>>
Refuse(r) == Goto(r, "done") /\ UNCHANGED <<config, local, stripe, call, mem, purged>>
Writes(r, to)  == Goto(r, to) /\ UNCHANGED <<config, stripe, call, mem, members>>
Invokes(r, to) == Goto(r, to) /\ UNCHANGED <<config, local, call, purged>>

Ref(r) == call[r].ref
Org(r) == Ref(r) \in Orgs
Payer(r) == IF Org(r) /\ call[r].op # "checkout" THEN Ref(r) ELSE call[r].user

RowsOf(ref)  == {k \in Ids : rows[k] # None /\ rows[k].ref = ref}
RowsFor(s)   == {k \in Ids : rows[k] # None /\ rows[k].sub = s /\ s # None}
\* What /subscription/list shows of a reference.
Listed(ref)  == {k \in RowsOf(ref) : Active(rows[k])}
LiveSubs     == {s \in Ids : subs[s] # None /\ Active(subs[s])}
LiveSubsOf(c) == {s \in LiveSubs : subs[s].customer = c}

\* One of S, whichever the database or Stripe lists first; None of the empty set.
First(S) == IF S = {} THEN {None} ELSE S

Emitted(type, s, snapshot) ==
  [type |-> type, sub |-> s, snapshot |-> snapshot, at |-> "sent",
   row |-> None, ref |-> None]

\* Stripe's subscription s becomes new, and it says so.
Becomes(s, new) ==
  /\ subs' = [subs EXCEPT ![s] = new]
  /\ events' = Append(events, Emitted(IF Active(new) THEN "updated" ELSE "deleted", s, new))

Set(k, new) == rows' = IF rows[k] = None THEN rows ELSE [rows EXCEPT ![k] = new]

Authorized(r) ==
  call[r].op \in {"signup", "resume", "join", "leave"} \/ Ref(r) \in MayActFor[call[r].user]

Begin(r, c) ==
  /\ At(r, "idle")
  /\ config.prompt => Settled
  /\ Cardinality({q \in Requests : pc[q] # "idle"}) < config.requests
  /\ call' = [call EXCEPT ![r] = c]
  /\ Goto(r, c.op)
  /\ UNCHANGED <<config, local, stripe, mem, purged>>

-----------------------------------------------------------------------------
(* A customer at Stripe for the payer: sign-up, checkout and upgrade        *)

AfterCustomer(op) ==
  CASE op = "signup" -> "done" [] op = "checkout" -> "session" [] op = "upgrade" -> "resolve"

\* The row a call's subscriptionId names, if it is of the call's reference.
Named(r) == {k \in RowsFor(call[r].sub) : rows[k].ref = Ref(r)}

\* An organization that has no customer pays as the one of its active row.
KnownCustomer(r) ==
  LET own    == {customerOf[Payer(r)]} \ {None}
  IN IF Payer(r) \in Users THEN own
     ELSE IF call[r].sub # None THEN {rows[k].customer : k \in Named(r)}
     ELSE IF own # {} THEN own
     ELSE {rows[k].customer : k \in Listed(Ref(r))}

\* The seats a line item bills, counted before anything is changed.
Seats(r) ==
  IF Org(r) /\ call[r].plan = SeatPlan THEN members[Ref(r)]
  ELSE IF call[r].seats = None THEN 1 ELSE call[r].seats

MayPay(r) ==
  Authorized(r) /\ (call[r].op = "upgrade" /\ call[r].sub # None => Named(r) # {})

FindCustomer(r) ==
  \E op \in {"signup", "checkout", "upgrade"} :
    /\ At(r, op)
    /\ MayPay(r)
    /\ LET known == KnownCustomer(r)
           found == {k \in Ids : customers[k] = Payer(r)}
       IN \E c \in First(IF known # {} THEN known ELSE found) :
            Remembers(r, IF known # {} THEN AfterCustomer(op)
                         ELSE IF c = None THEN "customer" ELSE "link",
                      [mem[r] EXCEPT !.customer = c, !.trial = TRUE])

RefuseCustomer(r) ==
  /\ At(r, "checkout") \/ At(r, "upgrade")
  /\ ~MayPay(r)
  /\ Refuse(r)

CreateCustomer(r) ==
  /\ At(r, "customer")
  /\ customers' = [customers EXCEPT ![r] = Payer(r)]
  /\ mem' = [mem EXCEPT ![r].customer = r]
  /\ Invokes(r, "link")
  /\ UNCHANGED <<subs, checkouts, portals, events>>

LinkCustomer(r) ==
  /\ At(r, "link")
  /\ customerOf' = [customerOf EXCEPT ![Payer(r)] = mem[r].customer]
  /\ Writes(r, AfterCustomer(call[r].op))
  /\ UNCHANGED <<rows, purged>>

-----------------------------------------------------------------------------
(* Checkout and upgrade                                                     *)

\* The live subscription an upgrade changes: the one it names, or one of the
\* customer's that a row of the reference mirrors.
Targets(r) ==
  IF call[r].sub # None THEN {call[r].sub} \cap LiveSubs
  ELSE {s \in LiveSubsOf(mem[r].customer) : \E k \in RowsFor(s) : rows[k].ref = Ref(r)}

ChangeStep(r) == IF call[r].later THEN "schedule" ELSE "change"

Resolve(r) ==
  /\ At(r, "resolve")
  /\ \E s \in First(Targets(r)) : \E k \in First(RowsFor(s)) :
       Remembers(r, IF s = None THEN "row"
                    ELSE IF subs[s].schedule # None THEN "release"
                    ELSE ChangeStep(r),
                 [mem[r] EXCEPT !.sub = s, !.row = k, !.seats = Seats(r)])

IsTrialing(ref) == \E k \in RowsOf(ref) : rows[k].status = "trialing"
HasEverTrialed(ref) ==
  \E k \in RowsOf(ref) : rows[k].trialed \/ rows[k].status = "trialing"

\* _upgrade_via_checkout: an incomplete row of the reference, else a new one.
IncompleteRow(r) ==
  /\ At(r, "row")
  /\ \E k \in First({k \in RowsOf(Ref(r)) : rows[k].status = "incomplete"}) :
       LET seats == IF call[r].seats = None THEN 1 ELSE call[r].seats
           new   == [ref |-> Ref(r), customer |-> mem[r].customer, sub |-> None,
                     status |-> "incomplete", trialed |-> FALSE,
                     plan |-> call[r].plan, seats |-> seats, ends |-> FALSE,
                     schedule |-> None]
       IN /\ IF k = None
             THEN rows' = [rows EXCEPT ![r] = new]
             ELSE rows' = [rows EXCEPT ![k].plan = call[r].plan, ![k].seats = seats]
          /\ mem' = [mem EXCEPT ![r].row = IF k = None THEN r ELSE k,
                                ![r].trial = ~HasEverTrialed(Ref(r))]
  /\ Goto(r, "session")
  /\ UNCHANGED <<config, customerOf, members, stripe, call, purged>>

\* Only an upgrade's session names the row.
OpenSession(r) ==
  /\ At(r, "session")
  /\ checkouts' = [checkouts EXCEPT ![r] =
       [customer |-> mem[r].customer, ref |-> Ref(r), meta |-> mem[r].row,
        plan |-> call[r].plan, trial |-> mem[r].trial,
        seats |-> IF call[r].op = "checkout" THEN Seats(r) ELSE mem[r].seats]]
  /\ Invokes(r, "done")
  /\ UNCHANGED <<customers, subs, portals, events, mem>>

\* Stripe takes the schedule off; upgrade and restore then forget it.
Release(r) ==
  /\ At(r, "release")
  /\ subs[mem[r].sub].status # "canceled"
  /\ Becomes(mem[r].sub, [subs[mem[r].sub] EXCEPT !.schedule = None])
  /\ Invokes(r, "unschedule")
  /\ UNCHANGED <<customers, checkouts, portals, mem>>

Unschedule(r) ==
  /\ At(r, "unschedule")
  /\ LET k == mem[r].row IN
       IF k = None THEN rows' = rows ELSE Set(k, [rows[k] EXCEPT !.schedule = None])
  /\ Writes(r, IF call[r].op = "restore" THEN "done" ELSE ChangeStep(r))
  /\ UNCHANGED <<customerOf, purged>>

\* The change waits for the end of the period.
Schedule(r) ==
  /\ At(r, "schedule")
  /\ subs[mem[r].sub].status # "canceled"
  /\ Becomes(mem[r].sub, [subs[mem[r].sub] EXCEPT !.schedule = r])
  /\ Invokes(r, "scheduled")
  /\ UNCHANGED <<customers, checkouts, portals, mem>>

KeepSchedule(r) ==
  /\ At(r, "scheduled")
  /\ LET k == mem[r].row IN
       IF k = None THEN rows' = rows ELSE Set(k, [rows[k] EXCEPT !.schedule = r])
  /\ Writes(r, "done")
  /\ UNCHANGED <<customerOf, purged>>

ChangeForgetful(r) ==
  /\ At(r, "change")
  /\ subs[mem[r].sub].status # "canceled"
  /\ Becomes(mem[r].sub, [subs[mem[r].sub] EXCEPT !.plan = call[r].plan])
  /\ Invokes(r, "record")
  /\ UNCHANGED <<customers, checkouts, portals, mem>>

\* Stripe changes the plan at once and answers with the subscription's status.
Change(r) ==
  /\ At(r, "change")
  /\ subs[mem[r].sub].status # "canceled"
  /\ Becomes(mem[r].sub, [subs[mem[r].sub] EXCEPT !.plan = call[r].plan,
                                                 !.seats = mem[r].seats])
  /\ mem' = [mem EXCEPT ![r].status = subs[mem[r].sub].status]
  /\ Invokes(r, "record")
  /\ UNCHANGED <<customers, checkouts, portals>>

\* Stripe refuses to change what has been canceled meanwhile.
Rejected(r) ==
  /\ \E at \in {"release", "schedule", "change", "clear", "resize"} : At(r, at)
  /\ subs[mem[r].sub].status = "canceled"
  /\ Refuse(r)

Record(r) ==
  /\ At(r, "record")
  /\ \E k \in First(RowsFor(mem[r].sub)) :
       IF k = None THEN rows' = rows
       ELSE Set(k, [rows[k] EXCEPT !.plan = call[r].plan, !.status = mem[r].status,
                      !.seats = IF Org(r) /\ call[r].plan = SeatPlan
                                THEN mem[r].seats ELSE call[r].seats])
  /\ Writes(r, "done")
  /\ UNCHANGED <<customerOf, purged>>

-----------------------------------------------------------------------------
(* Portal, cancel, restore, resume                                          *)

\* _resolve_subscription
Resolved(r) ==
  IF call[r].sub # None THEN Named(r) ELSE Listed(Ref(r))

OpenPortal(r, cancelable) ==
  /\ portals' = portals \cup cancelable
  /\ Invokes(r, "done")
  /\ UNCHANGED <<customers, subs, checkouts, events, mem>>

Portal(r) ==
  /\ At(r, "portal")
  /\ \E c \in First(KnownCustomer(r)) :
       IF Authorized(r) /\ c # None THEN OpenPortal(r, LiveSubsOf(c)) ELSE Refuse(r)

\* Rows of a customer for whom Stripe lists nothing live are deleted, all of
\* the reference's.
Cancel(r) ==
  /\ At(r, "cancel")
  /\ \E k \in First(Resolved(r)) :
       IF ~Authorized(r) \/ k = None THEN Refuse(r)
       ELSE IF LiveSubsOf(rows[k].customer) = {} THEN Remembers(r, "purge", mem[r])
       ELSE IF rows[k].sub \in LiveSubsOf(rows[k].customer) THEN OpenPortal(r, {rows[k].sub})
       ELSE Refuse(r)

Purge(r) ==
  /\ At(r, "purge")
  /\ rows' = [k \in Ids |-> IF k \in RowsOf(Ref(r)) THEN None ELSE rows[k]]
  /\ purged' = purged \cup {Ref(r)}
  /\ Writes(r, "done")
  /\ UNCHANGED customerOf

\* A row's schedule is released if it is still attached; a row's cancellation
\* is taken back on the first live subscription of its customer.
Restore(r) ==
  /\ At(r, "restore")
  /\ \E k \in First(Resolved(r)) :
       LET row      == rows[k]
           attached == {s \in LiveSubs : subs[s].schedule = row.schedule}
       IN IF \/ ~Authorized(r) \/ k = None
             \/ ~Active(row) \/ (~row.ends /\ row.schedule = None)
          THEN Refuse(r)
          ELSE IF row.schedule # None
          THEN \E s \in First(attached) :
                 Remembers(r, IF s = None THEN "unschedule" ELSE "release",
                           [mem[r] EXCEPT !.row = k, !.sub = s])
          ELSE \E s \in First(LiveSubsOf(row.customer)) :
                 IF s = None THEN Refuse(r)
                 ELSE Remembers(r, "clear", [mem[r] EXCEPT !.row = k, !.sub = s])

\* Neither whose subscription it is nor whether a row mirrors it is looked at.
Resume(r) ==
  /\ At(r, "resume")
  /\ IF call[r].sub \in LiveSubs
     THEN Remembers(r, "clear", [mem[r] EXCEPT !.sub = call[r].sub])
     ELSE Refuse(r)

Clear(r) ==
  /\ At(r, "clear")
  /\ subs[mem[r].sub].status # "canceled"
  /\ Becomes(mem[r].sub, [subs[mem[r].sub] EXCEPT !.ends = FALSE])
  /\ mem' = [mem EXCEPT ![r].status = subs[mem[r].sub].status]
  /\ Invokes(r, "cleared")
  /\ UNCHANGED <<customers, checkouts, portals>>

Cleared(r) ==
  /\ At(r, "cleared")
  /\ IF call[r].op = "restore"
     THEN Set(mem[r].row, [rows[mem[r].row] EXCEPT !.ends = FALSE])
     ELSE \E k \in First(RowsFor(mem[r].sub)) :
            IF k = None THEN rows' = rows
            ELSE Set(k, [rows[k] EXCEPT !.ends = FALSE, !.status = mem[r].status])
  /\ Writes(r, "done")
  /\ UNCHANGED <<customerOf, purged>>

-----------------------------------------------------------------------------
(* Seats: a member joins or leaves, and the same request resizes            *)

MemberChanges(r) ==
  /\ At(r, "join") \/ At(r, "leave")
  /\ call[r].op = "leave" => members[Ref(r)] > 1
  /\ members' = [members EXCEPT ![Ref(r)] = IF call[r].op = "join" THEN @ + 1 ELSE @ - 1]
  /\ Goto(r, "sync")
  /\ UNCHANGED <<config, rows, customerOf, stripe, call, mem, purged>>

LastMember(r) == At(r, "leave") /\ members[Ref(r)] = 1 /\ Refuse(r)

\* _sync_org_seats, with whichever row of the organization comes first.
Sync(r) ==
  /\ At(r, "sync")
  /\ \E k \in First(RowsOf(Ref(r))) :
       IF /\ k # None /\ rows[k].sub # None
          /\ Active(rows[k]) /\ rows[k].plan = SeatPlan
          /\ rows[k].sub \in LiveSubs
          /\ subs[rows[k].sub].seats # members[Ref(r)]
       THEN Remembers(r, "resize", [mem[r] EXCEPT !.row = k, !.sub = rows[k].sub,
                                                  !.seats = members[Ref(r)]])
       ELSE Refuse(r)

Resize(r) ==
  /\ At(r, "resize")
  /\ subs[mem[r].sub].status # "canceled"
  /\ Becomes(mem[r].sub, [subs[mem[r].sub] EXCEPT !.seats = mem[r].seats])
  /\ Invokes(r, "resized")
  /\ UNCHANGED <<customers, checkouts, portals, mem>>

Resized(r) ==
  /\ At(r, "resized")
  /\ Set(mem[r].row, [rows[mem[r].row] EXCEPT !.seats = mem[r].seats])
  /\ Writes(r, "done")
  /\ UNCHANGED <<customerOf, purged>>

-----------------------------------------------------------------------------
(* Stripe: what happens there without a call                                *)

Happens(s) == Len(events) < MaxEvents /\ s \in LiveSubs /\ (config.suspends \/ Quiet)
OnlyStripe == UNCHANGED <<config, local, customers, pc, call, mem, purged>>

\* The customer completes a checkout.
Complete(r) ==
  /\ checkouts[r] # None /\ Len(events) < MaxEvents /\ (config.suspends \/ Quiet)
  /\ LET c   == checkouts[r]
         new == [customer |-> c.customer, ref |-> c.ref, meta |-> c.meta,
                 status |-> IF c.trial THEN "trialing" ELSE "active",
                 trialed |-> c.trial, plan |-> c.plan, seats |-> c.seats,
                 ends |-> FALSE, schedule |-> None]
     IN /\ subs' = [subs EXCEPT ![r] = new]
        /\ events' = events \o <<Emitted("created", r, new), Emitted("completed", r, new)>>
  /\ checkouts' = [checkouts EXCEPT ![r] = None]
  /\ OnlyStripe /\ UNCHANGED portals

Abandon(r) ==
  /\ checkouts[r] # None /\ (config.suspends \/ Quiet)
  /\ checkouts' = [checkouts EXCEPT ![r] = None]
  /\ OnlyStripe /\ UNCHANGED <<subs, portals, events>>

TrialEnds(s) ==
  /\ Happens(s) /\ subs[s].status = "trialing"
  /\ Becomes(s, [subs[s] EXCEPT !.status = "active"])
  /\ OnlyStripe /\ UNCHANGED <<checkouts, portals>>

CancelsInPortal(s) ==
  /\ Happens(s) /\ s \in portals /\ ~subs[s].ends
  /\ Becomes(s, [subs[s] EXCEPT !.ends = TRUE])
  /\ portals' = portals \ {s}
  /\ OnlyStripe /\ UNCHANGED checkouts

\* At the end of a period a subscription ends, or its schedule is carried out.
PeriodEnds(s) ==
  /\ Happens(s)
  /\ \/ /\ subs[s].ends
        /\ Becomes(s, [subs[s] EXCEPT !.status = "canceled", !.schedule = None])
     \/ /\ ~subs[s].ends /\ subs[s].schedule \in Requests
        /\ Becomes(s, [subs[s] EXCEPT !.plan = call[subs[s].schedule].plan,
                                      !.schedule = None])
  /\ OnlyStripe /\ UNCHANGED <<checkouts, portals>>

-----------------------------------------------------------------------------
(* The webhook                                                              *)

\* An organization is looked for before a user.
ReferenceOf(customer) ==
  LET owners == {o \in References : customerOf[o] = customer} IN
  First(IF owners \cap Orgs # {} THEN owners \cap Orgs ELSE owners)

ExistingBySub(e) == RowsFor(e.sub)

\* The row metadata names, and nothing else if it names one.
Existing(e) ==
  IF e.snapshot.meta # None THEN {k \in {e.snapshot.meta} : rows[k] # None}
  ELSE RowsFor(e.sub)

\* An update of an unknown subscription goes to the only row of its customer,
\* or to the active one of several.
FoundForUpdate(e) ==
  LET others == {k \in Ids : rows[k] # None /\ rows[k].customer = e.snapshot.customer} IN
  IF Existing(e) # {} THEN Existing(e)
  ELSE IF Cardinality(others) > 1 THEN {k \in others : Active(rows[k])}
  ELSE others

\* What handler i reads: it has nothing to write, or knows which row.
Reads(i, e) ==
  /\ events' = [events EXCEPT ![i] = [e EXCEPT !.at = IF e.row = None THEN "done" ELSE "read"]]
  /\ UNCHANGED <<config, local, customers, subs, checkouts, portals, pc, call, mem, purged>>

Receive(i) ==
  LET e == events[i] IN
  /\ e.at = "sent" /\ (config.suspends \/ Quiet)
  /\ config.ordered => \A j \in 1 .. i - 1 : events[j].at = "done"
  /\ CASE e.type = "completed" ->
            Reads(i, [e EXCEPT !.snapshot = subs[e.sub], !.row = e.snapshot.meta])
       [] e.type = "created" ->
            \E ref \in ReferenceOf(e.snapshot.customer) :
              Reads(i, [e EXCEPT !.ref = ref,
                          !.row = IF Existing(e) = {} /\ ref # None THEN e.sub ELSE None])
       [] e.type = "updated" ->
            \E k \in First(FoundForUpdate(e)) : Reads(i, [e EXCEPT !.row = k])
       [] e.type = "deleted" ->
            \E k \in First(RowsFor(e.sub)) : Reads(i, [e EXCEPT !.row = k])

\* A row as an event leaves it; dates of a trial are kept if they are not given.
Trialed(row, e) == row.trialed \/ e.snapshot.trialed

Completed(row, e) ==
  LET s == e.snapshot IN
  [row EXCEPT !.sub = e.sub, !.status = s.status, !.trialed = Trialed(row, e),
              !.plan = s.plan, !.seats = s.seats, !.ends = s.ends]

Updated(row, e) == [Completed(row, e) EXCEPT !.schedule = e.snapshot.schedule]

Ended(row, e) ==
  [row EXCEPT !.status = "canceled", !.trialed = Trialed(row, e),
              !.ends = e.snapshot.ends, !.schedule = None]

Mirror(row, e) ==
  CASE e.type = "completed" -> Completed(row, e)
    [] e.type = "updated"   -> Updated(row, e)
    [] e.type = "deleted"   -> Ended(row, e)

Created(e) ==
  [ref |-> e.ref, customer |-> e.snapshot.customer, sub |-> e.sub,
   status |-> e.snapshot.status, trialed |-> e.snapshot.trialed,
   plan |-> e.snapshot.plan, seats |-> e.snapshot.seats, ends |-> FALSE,
   schedule |-> None]

Store(i) ==
  LET e == events[i] IN
  /\ e.at = "read"
  /\ config.suspends \/ \A r \in Requests : ~InHandler(r)
  /\ IF e.type = "created" THEN rows' = [rows EXCEPT ![e.row] = Created(e)]
     ELSE Set(e.row, Mirror(rows[e.row], e))
  /\ events' = [events EXCEPT ![i].at = "done"]
  /\ UNCHANGED <<config, customerOf, members, customers, subs, checkouts, portals,
                 pc, call, mem, purged>>

-----------------------------------------------------------------------------
Next ==
  \/ \E r \in Requests :
       \/ \E c \in Calls[config.scenario] : Begin(r, c)
       \/ FindCustomer(r) \/ RefuseCustomer(r) \/ CreateCustomer(r) \/ LinkCustomer(r)
       \/ Resolve(r) \/ IncompleteRow(r) \/ OpenSession(r)
       \/ Release(r) \/ Unschedule(r) \/ Schedule(r) \/ KeepSchedule(r)
       \/ Change(r) \/ Record(r) \/ Rejected(r)
       \/ Portal(r) \/ Cancel(r) \/ Purge(r) \/ Restore(r) \/ Resume(r)
       \/ Clear(r) \/ Cleared(r)
       \/ MemberChanges(r) \/ LastMember(r) \/ Sync(r) \/ Resize(r) \/ Resized(r)
       \/ Complete(r) \/ Abandon(r)
  \/ \E s \in Ids : TrialEnds(s) \/ CancelsInPortal(s) \/ PeriodEnds(s)
  \/ \E i \in DOMAIN events : Receive(i) \/ Store(i)

Spec == Init /\ [][Next]_vars

-----------------------------------------------------------------------------
InTurn == ~config.suspends

\* Nothing is on its way: every event has been handled and no request runs.
Still == Quiet /\ \A i \in DOMAIN events : events[i].at = "done"

\* No other subscription of the customer shares a row or a reference with s.
Sole(s) == \A t \in Ids \ {s} : subs[t] # None => subs[t].customer # subs[s].customer

\* When requests run in turn and events arrive in order, a row that names a
\* subscription says what Stripe says of it once everything has been handled,
\* also when requests begin while events are still on their way
\* (kernia_stripe/routes.py and hooks.py: both sides are written).
RowsFollowStripe ==
  InTurn /\ config.ordered /\ Still =>
    \A k \in Ids : rows[k] # None /\ rows[k].sub # None =>
      LET row == rows[k]  s == subs[rows[k].sub] IN
        config.prompt \/ Sole(row.sub) =>
          /\ row.status = s.status /\ row.ends = s.ends
          /\ row.status # "canceled" =>
               row.plan = s.plan /\ row.seats = s.seats /\ row.schedule = s.schedule

\* Whoever is billed sees it: every live subscription of a known customer is
\* listed for its reference, once, whatever is deleted by cancel.
LiveSubsAreKnown ==
  InTurn /\ config.ordered /\ Still =>
    \A s \in LiveSubs : config.prompt \/ Sole(s) =>
      /\ Cardinality(RowsFor(s)) = 1
      /\ RowsFor(s) \subseteq Listed(subs[s].ref)

\* An organization with one row pays for as many seats as it has members
\* (seat_sync.py: "keep the seat line-item quantity == organization member count").
SeatsFollowMembers ==
  InTurn /\ config.prompt /\ config.ordered /\ Still =>
    \A o \in Orgs, s \in LiveSubs :
      subs[s].ref = o /\ subs[s].plan = SeatPlan /\ Cardinality(RowsOf(o)) = 1
        => subs[s].seats = members[o]

BooksAgree == RowsFollowStripe /\ LiveSubsAreKnown /\ SeatsFollowMembers

\* A reference whose rows are kept is given one trial, in whatever order the
\* events of one checkout arrive, if it starts nothing while they are on their
\* way (routes.py: has_ever_trialed).
TrialedOnce ==
  config.prompt =>
    \A s, t \in Ids :
      /\ subs[s] # None /\ subs[s].trialed
      /\ subs[t] # None /\ subs[t].trialed
      /\ subs[s].ref = subs[t].ref /\ subs[s].ref \notin purged
      /\ subs[s].meta # None /\ subs[t].meta # None
      => s = t
=============================================================================
