------------------------------ MODULE AfterHooks ------------------------------
(***************************************************************************)
(* The database-hook runtime: WithHooks, the queue that holds after-hooks  *)
(* back while a transaction is open, and the transaction boundary that     *)
(* drains it.                                                              *)
(*                                                                         *)
(* A task calls WithHooks any number of times, inside or outside           *)
(* `transaction` blocks, which may be nested; each model has one before-   *)
(* and one after-hook.  The queue is a context variable, so each task has  *)
(* its own.  A hook is application code: it may take any time, veto the    *)
(* write (before) or raise.                                                *)
(*   memory      rollsBack = FALSE, atomicConsume = TRUE                   *)
(*   SQLAlchemy  rollsBack = TRUE,  atomicConsume = FALSE                  *)
(***************************************************************************)
EXTENDS Naturals, Sequences, FiniteSets, Functions

CONSTANTS
  Tasks,      \* concurrent requests
  Rows,       \* ids of rows of the hooked model; an id is created once
  Initial,    \* the rows that are there from the start
  Configs,    \* the configurations that are looked at
  MaxDepth,   \* bound on the nesting of transactions
  MaxWrites   \* bound on the writes of all tasks

\* rollsBack:     a transaction that fails takes its writes back
\* atomicConsume: consume_one is one indivisible database operation
Config == [rollsBack : BOOLEAN, atomicConsume : BOOLEAN]

ASSUME ConstantsAssumption ==
  /\ Configs \subseteq Config
  /\ IsFiniteSet(Rows) /\ Initial \subseteq Rows
  /\ MaxDepth \in Nat /\ MaxWrites \in Nat

VARIABLES
  config,
  rows,     \* rows in the table, uncommitted changes included
  minted,   \* ids that were ever in the table
  undo,     \* undo[t][k]: whether k was there before t's transaction wrote it
  depth,    \* depth[t]: how many transaction blocks task t is in
  queue,    \* queue[t]: after-hooks of the open or draining transaction
  todo,     \* todo[t]: after-hooks of the current call, to be run inline
  pc,
  call,     \* call[t]: the helper that was called, the rows it is about, and
            \*          the ones it has read
  log,      \* log[t]: the writes of task t, in order (history)
  ran,      \* ran[t]: the writes whose after-hook was run, in order (history)
  raised    \* raised[t]: an after-hook of task t raised (history)

vars == <<config, rows, minted, undo, depth, queue, todo, pc, call, log, ran, raised>>

Kinds == {"create", "update", "update_many", "delete", "delete_many", "consume_one"}
Removals == {"delete", "delete_many", "consume_one"}
NoCall == [kind |-> "update", rows |-> {}, seen |-> {}]

\* A write and what became of it; `kept` is a write of a failed transaction
\* that the adapter does not take back.
Write == [kind : Kinds, row : Rows,
          status : {"open", "committed", "undone", "kept"}]

TypeOK ==
  /\ config \in Configs
  /\ rows \subseteq minted
  /\ minted \subseteq Rows
  /\ undo \in [Tasks -> [Rows -> {"untouched", "absent", "present"}]]
  /\ depth \in [Tasks -> 0 .. MaxDepth]
  /\ pc \in [Tasks -> {"body", "read", "before", "write", "remove", "after", "drain"}]
  /\ call \in [Tasks -> [kind : Kinds, rows : SUBSET Rows, seen : SUBSET Rows]]
  /\ raised \in [Tasks -> BOOLEAN]
  /\ \A t \in Tasks :
       /\ log[t] \in Seq(Write)
       /\ \A s \in {queue[t], todo[t], ran[t]} : s \in Seq(1 .. Len(log[t]))

Init ==
  /\ config \in Configs
  /\ rows = Initial
  /\ minted = Initial
  /\ undo = [t \in Tasks |-> [k \in Rows |-> "untouched"]]
  /\ depth = [t \in Tasks |-> 0]
  /\ queue = [t \in Tasks |-> <<>>]
  /\ todo = [t \in Tasks |-> <<>>]
  /\ pc = [t \in Tasks |-> "body"]
  /\ call = [t \in Tasks |-> NoCall]
  /\ log = [t \in Tasks |-> <<>>]
  /\ ran = [t \in Tasks |-> <<>>]
  /\ raised = [t \in Tasks |-> FALSE]

-----------------------------------------------------------------------------
(* The database                                                             *)

At(t, at) == pc[t] = at

\* What a call read is gone when its helper returns.
GotoWith(t, to, c) ==
  /\ pc' = [pc EXCEPT ![t] = to]
  /\ call' = [call EXCEPT ![t] = IF to = "body" THEN NoCall ELSE c]

Goto(t, to) == GotoWith(t, to, call[t])

Touched(t, k) == undo[t][k] # "untouched"

\* Rows task t reads: committed ones and its own.
Visible(t) ==
  {k \in Rows : IF \E q \in Tasks \ {t} : Touched(q, k)
                THEN \E q \in Tasks \ {t} : undo[q][k] = "present"
                ELSE k \in rows}

\* A row another open transaction wrote is locked.
Unlocked(t, S) == \A q \in Tasks \ {t}, k \in S : ~Touched(q, k)

\* The table becomes `after`; a transaction remembers what S was before.
Store(t, S, after) ==
  /\ Unlocked(t, S)
  /\ rows' = after
  /\ undo' = IF config.rollsBack /\ depth[t] > 0
             THEN [undo EXCEPT ![t] = [k \in Rows |->
                     IF k \in S /\ @[k] = "untouched"
                     THEN IF k \in rows THEN "present" ELSE "absent"
                     ELSE @[k]]]
             ELSE undo

-----------------------------------------------------------------------------
(* Queueing                                                                 *)

\* Any order of the rows of S, as a query may return them.
Orders(S) == {f \in [1 .. Cardinality(S) -> S] : \A k \in S : \E i \in DOMAIN f : f[i] = k}

\* The current call wrote the rows of `order`: it is logged.
Logged(t, order) ==
  LET status == IF depth[t] > 0 THEN "open" ELSE "committed" IN
  log' = [log EXCEPT ![t] = @ \o [i \in DOMAIN order |->
    [kind |-> call[t].kind, row |-> order[i], status |-> status]]]

AnnounceOffByOne(t, order) ==
  LET hooks == [i \in DOMAIN order |-> Len(log[t]) + i + 1] IN
  /\ queue' = [queue EXCEPT ![t] = @ \o hooks]
  /\ Goto(t, "body")
  /\ UNCHANGED todo

\* _queue_after: into the queue if a transaction collects, inline if not.
Announce(t, order) ==
  LET hooks == [i \in DOMAIN order |-> Len(log[t]) + i] IN
  IF depth[t] > 0
  THEN /\ queue' = [queue EXCEPT ![t] = @ \o hooks]
       /\ Goto(t, "body")
       /\ UNCHANGED todo
  ELSE /\ todo' = [todo EXCEPT ![t] = hooks]
       /\ Goto(t, "after")
       /\ UNCHANGED queue

\* Nothing was written, or nothing is announced.
Silent(t) == Goto(t, "body") /\ UNCHANGED <<queue, todo>>

-----------------------------------------------------------------------------
(* The helpers of WithHooks                                                 *)

\* Writes made and under way.
Writes == FoldFunction(+, 0, [t \in Tasks |-> Len(log[t]) + Cardinality(call[t].rows)])

Call(t, kind, S) ==
  /\ At(t, "body")
  /\ Writes + Cardinality(S) <= MaxWrites
  /\ kind = "create" => S \cap minted = {}
  /\ GotoWith(t, IF kind \in Removals THEN "read" ELSE "before",
              [kind |-> kind, rows |-> S, seen |-> {}])
  /\ UNCHANGED <<config, rows, minted, undo, depth, queue, todo, log, ran, raised>>

\* The read for the delete hooks is best effort: if it raises it finds nothing.
\* A before-hook is only run for a row that was found.
PreRead(t) ==
  /\ At(t, "read")
  /\ \E found \in {Visible(t) \cap call[t].rows, {}} :
       GotoWith(t, IF found = {} THEN "write" ELSE "before",
                [call[t] EXCEPT !.seen = found])
  /\ UNCHANGED <<config, rows, minted, undo, depth, queue, todo, log, ran, raised>>

\* The before-hook allows the write, or vetoes it: the helper returns.
Before(t) ==
  /\ At(t, "before")
  /\ Goto(t, "write") \/ Goto(t, "body")
  /\ UNCHANGED <<config, rows, minted, undo, depth, queue, todo, log, ran, raised>>

Create(t) ==
  LET S == call[t].rows \ minted IN
  /\ At(t, "write") /\ call[t].kind = "create"
  /\ minted' = minted \cup S
  /\ Store(t, S, rows \cup S)
  /\ \E order \in Orders(S) : Logged(t, order) /\ Announce(t, order)
  /\ UNCHANGED <<config, depth, ran, raised>>

\* None if no row matched.
Update(t) ==
  LET S == Visible(t) \cap call[t].rows IN
  /\ At(t, "write") /\ call[t].kind = "update"
  /\ Store(t, S, rows)
  /\ \/ S = {} /\ Silent(t) /\ UNCHANGED log
     \/ S # {} /\ \E order \in Orders(S) : Logged(t, order) /\ Announce(t, order)
  /\ UNCHANGED <<config, minted, depth, ran, raised>>

UpdateMany(t) ==
  LET S == Visible(t) \cap call[t].rows IN
  /\ At(t, "write") /\ call[t].kind = "update_many"
  /\ Store(t, S, rows)
  /\ \E order \in Orders(S) : Logged(t, order)
  /\ Silent(t)
  /\ UNCHANGED <<config, minted, depth, ran, raised>>

\* delete and delete_many remove what matches now and announce what was read.
Delete(t) ==
  LET S == Visible(t) \cap call[t].rows IN
  /\ At(t, "write") /\ call[t].kind \in {"delete", "delete_many"}
  /\ Store(t, S, rows \ S)
  /\ \E order \in Orders(call[t].seen) : Logged(t, order) /\ Announce(t, order)
  /\ UNCHANGED <<config, minted, depth, ran, raised>>

\* consume_one announces the row that the adapter says it consumed.
ConsumeOne(t) ==
  LET S == Visible(t) \cap call[t].rows IN
  /\ At(t, "write") /\ call[t].kind = "consume_one" /\ config.atomicConsume
  /\ Store(t, S, rows \ S)
  /\ \E order \in Orders(S) : Logged(t, order) /\ Announce(t, order)
  /\ UNCHANGED <<config, minted, depth, ran, raised>>

\* SQLAlchemy's consume_one selects the row, ...
ConsumeSelect(t) ==
  LET S == Visible(t) \cap call[t].rows IN
  /\ At(t, "write") /\ call[t].kind = "consume_one" /\ ~config.atomicConsume
  /\ GotoWith(t, IF S = {} THEN "body" ELSE "remove", [call[t] EXCEPT !.seen = S])
  /\ UNCHANGED <<config, rows, minted, undo, depth, queue, todo, log, ran, raised>>

\* ... and then deletes it, whether it is still there or not.
ConsumeRemove(t) ==
  /\ At(t, "remove")
  /\ Store(t, call[t].seen, rows \ call[t].seen)
  /\ \E order \in Orders(call[t].seen) : Logged(t, order) /\ Announce(t, order)
  /\ UNCHANGED <<config, minted, depth, ran, raised>>

\* An after-hook outside a transaction runs before the helper returns.
RunInline(t) ==
  /\ At(t, "after")
  /\ \/ /\ todo[t] = <<>>
        /\ Goto(t, "body")
        /\ UNCHANGED <<todo, ran>>
     \/ /\ todo[t] # <<>>
        /\ ran' = [ran EXCEPT ![t] = Append(@, Head(todo[t]))]
        /\ todo' = [todo EXCEPT ![t] = Tail(@)]
        /\ UNCHANGED <<pc, call>>
  /\ UNCHANGED <<config, rows, minted, undo, depth, queue, log, raised>>

-----------------------------------------------------------------------------
(* The transaction boundary                                                 *)

\* The outermost block installs a queue, a nested one uses it.
Enter(t) ==
  /\ At(t, "body")
  /\ depth[t] < MaxDepth
  /\ depth' = [depth EXCEPT ![t] = @ + 1]
  /\ queue' = IF depth[t] = 0 THEN [queue EXCEPT ![t] = <<>>] ELSE queue
  /\ UNCHANGED <<config, rows, minted, undo, todo, pc, call, log, ran, raised>>

\* Mutant of LeaveNested: the queue is drained at the end of a nested block.
LeaveNestedDraining(t) ==
  /\ At(t, "body")
  /\ depth[t] > 1
  /\ depth' = [depth EXCEPT ![t] = @ - 1]
  /\ Goto(t, "drain")
  /\ UNCHANGED <<config, rows, minted, undo, queue, todo, log, ran, raised>>

LeaveNested(t) ==
  /\ At(t, "body")
  /\ depth[t] > 1
  /\ depth' = [depth EXCEPT ![t] = @ - 1]
  /\ UNCHANGED <<config, rows, minted, undo, queue, todo, pc, call, log, ran,
                 raised>>

\* The writes of the open transaction end as `status`.
Settle(t, status) ==
  log' = [log EXCEPT ![t] = [i \in DOMAIN @ |->
    IF @[i].status = "open" THEN [@[i] EXCEPT !.status = status] ELSE @[i]]]

Forget(t) == undo' = [undo EXCEPT ![t] = [k \in Rows |-> "untouched"]]

\* The adapter's transaction commits, and the queue is drained.
Commit(t) ==
  /\ At(t, "body")
  /\ depth[t] = 1
  /\ depth' = [depth EXCEPT ![t] = 0]
  /\ Settle(t, "committed")
  /\ Forget(t)
  /\ Goto(t, "drain")
  /\ UNCHANGED <<config, rows, minted, queue, todo, ran, raised>>

Drain(t) ==
  /\ At(t, "drain")
  /\ \/ /\ queue[t] = <<>>
        /\ Goto(t, "body")
        /\ UNCHANGED <<queue, ran>>
     \/ /\ queue[t] # <<>>
        /\ ran' = [ran EXCEPT ![t] = Append(@, Head(queue[t]))]
        /\ queue' = [queue EXCEPT ![t] = Tail(@)]
        /\ UNCHANGED <<pc, call>>
  /\ UNCHANGED <<config, rows, minted, undo, depth, todo, log, raised>>

\* An exception in the body, in a before-hook or in an adapter call, which is
\* caught outside all transaction blocks: rollback, and no hook is run.
RollBack(t) ==
  /\ pc[t] \in {"body", "before", "write", "remove"}
  /\ depth[t] > 0
  /\ depth' = [depth EXCEPT ![t] = 0]
  /\ Goto(t, "body")
  /\ queue' = [queue EXCEPT ![t] = <<>>]
  /\ rows' = {k \in Rows : IF Touched(t, k) THEN undo[t][k] = "present" ELSE k \in rows}
  /\ Settle(t, IF config.rollsBack THEN "undone" ELSE "kept")
  /\ Forget(t)
  /\ UNCHANGED <<config, minted, todo, ran, raised>>

\* An exception that the body of an outer transaction block catches: nothing
\* of the inner one is taken back.
CatchNested(t) ==
  /\ pc[t] \in {"body", "before", "write", "remove"}
  /\ depth[t] > 1
  /\ depth' = [depth EXCEPT ![t] = @ - 1]
  /\ Goto(t, "body")
  /\ UNCHANGED <<config, rows, minted, undo, queue, todo, log, ran, raised>>

\* An exception outside of any transaction ends the helper.
CallFails(t) ==
  /\ pc[t] \in {"before", "write", "remove"}
  /\ depth[t] = 0
  /\ Goto(t, "body")
  /\ UNCHANGED <<config, rows, minted, undo, depth, queue, todo, log, ran, raised>>

\* An after-hook raises: the hooks behind it are not run.
AfterHookRaises(t) ==
  /\ \/ At(t, "drain") /\ queue[t] # <<>>
     \/ At(t, "after") /\ todo[t] # <<>>
  /\ Goto(t, "body")
  /\ raised' = [raised EXCEPT ![t] = TRUE]
  /\ queue' = [queue EXCEPT ![t] = <<>>]
  /\ todo' = [todo EXCEPT ![t] = <<>>]
  /\ UNCHANGED <<config, rows, minted, undo, depth, log, ran>>

-----------------------------------------------------------------------------
Helper(t) ==
  \/ PreRead(t) \/ Before(t)
  \/ Create(t) \/ Update(t) \/ UpdateMany(t) \/ Delete(t)
  \/ ConsumeOne(t) \/ ConsumeSelect(t) \/ ConsumeRemove(t)
  \/ RunInline(t)

Boundary(t) ==
  \/ Enter(t) \/ LeaveNested(t) \/ Commit(t) \/ Drain(t)
  \/ RollBack(t) \/ CatchNested(t) \/ CallFails(t) \/ AfterHookRaises(t)

Calls(t) ==
  \/ \E k \in Rows : \E kind \in {"create", "update", "delete", "consume_one"} :
       Call(t, kind, {k})
  \/ \E kind \in {"update_many", "delete_many"} : Call(t, kind, Rows)

Next == \E t \in Tasks : Helper(t) \/ Boundary(t) \/ Calls(t)

Spec == Init /\ [][Next]_vars

-----------------------------------------------------------------------------
(* Properties                                                               *)

\* No after-hook ever runs for a write that is not committed, nor for one
\* that was rolled back, however transactions are nested and fail.
HooksFollowCommit ==
  \A t \in Tasks : \A j \in DOMAIN ran[t] : log[t][ran[t][j]].status = "committed"

Announced(t) == {ran[t][j] : j \in DOMAIN ran[t]}
Settled(t) == At(t, "body") /\ depth[t] = 0 /\ ~raised[t]

\* Once a task is out of its transactions, and no after-hook raised, every
\* write it committed has had its hook run, the ones of a nested block that
\* failed and was caught included.  update_many is the exception.
CommittedWritesAreAnnounced ==
  \A t \in Tasks : Settled(t) =>
    \A i \in DOMAIN log[t] :
      log[t][i].status = "committed" /\ log[t][i].kind # "update_many" =>
        i \in Announced(t)

\* The hooks of a task run in the order of its writes, and none runs twice.
HooksRunInOrder ==
  \A t \in Tasks : \A i, j \in DOMAIN ran[t] : i < j => ran[t][i] < ran[t][j]

\* Of the tasks that race to consume a row one wins: at most one of them is
\* told, and tells the delete hooks, that it consumed the row.
ConsumedOnce ==
  config.atomicConsume =>
    \A t, q \in Tasks : \A i \in DOMAIN log[t], j \in DOMAIN log[q] :
      /\ log[t][i].kind = "consume_one" /\ log[q][j].kind = "consume_one"
      /\ log[t][i].row = log[q][j].row
      /\ "undone" \notin {log[t][i].status, log[q][j].status}
      => t = q /\ i = j

\* An after-hook runs for the writes that are committed, and for all of them.
CommitsAreAnnounced == HooksFollowCommit /\ CommittedWritesAreAnnounced

\* Nothing is announced twice, by one task or by two, nor out of order.
AnnouncedOnceInOrder == HooksRunInOrder /\ ConsumedOnce

\* Every commit is announced, once, and in the order of its writes.
CommitsAreAnnouncedOnce == CommitsAreAnnounced /\ AnnouncedOnceInOrder
=============================================================================
