--------------------------- MODULE AfterHooksProofs ---------------------------
(***************************************************************************)
(* Proofs about AfterHooks, for any number of tasks, rows and nested       *)
(* transactions and for both kinds of database.                            *)
(***************************************************************************)
EXTENDS AfterHooks, FiniteSetTheorems, SequenceTheorems, TLAPS

-----------------------------------------------------------------------------
(* The inductive invariant                                                  *)

Types ==
  /\ config \in Configs
  /\ rows \subseteq minted /\ minted \subseteq Rows
  /\ undo \in [Tasks -> [Rows -> {"untouched", "absent", "present"}]]
  /\ depth \in [Tasks -> 0 .. MaxDepth]
  /\ pc \in [Tasks -> {"body", "read", "before", "write", "remove", "after", "drain"}]
  /\ call \in [Tasks -> [kind : Kinds, rows : SUBSET Rows, seen : SUBSET Rows]]
  /\ raised \in [Tasks -> BOOLEAN]
  /\ log \in [Tasks -> Seq(Write)]
  /\ queue \in [Tasks -> Seq(Nat)]
  /\ todo \in [Tasks -> Seq(Nat)]
  /\ ran \in [Tasks -> Seq(Nat)]

\* The hooks of s are for writes of task t that ended as `status`.
Stand(s, t, status) ==
  \A j \in DOMAIN s : s[j] \in DOMAIN log[t] /\ log[t][s[j]].status = status

\* What is held back is of the open transaction; what is being run is of a
\* transaction that was committed, or of a call outside any.
HeldBack(t) ==
  /\ depth[t] > 0 => pc[t] \notin {"after", "drain"}
  /\ depth[t] = 0 /\ pc[t] # "drain" => queue[t] = <<>>
  /\ pc[t] # "after" => todo[t] = <<>>
  /\ Stand(queue[t], t, IF depth[t] > 0 THEN "open" ELSE "committed")
  /\ Stand(todo[t], t, "committed")
  /\ Stand(ran[t], t, "committed")

NothingOpen(t) ==
  depth[t] = 0 => \A i \in DOMAIN log[t] : log[t][i].status # "open"

Entries(s) == {s[j] : j \in DOMAIN s}

\* No hook is lost as long as none raises.
NothingLost(t) ==
  ~raised[t] => \A i \in DOMAIN log[t] :
    log[t][i].status \in {"open", "committed"} /\ log[t][i].kind # "update_many" =>
      i \in Entries(ran[t]) \cup Entries(queue[t]) \cup Entries(todo[t])

Increasing(s) == \A i, j \in DOMAIN s : i < j => s[i] < s[j]
Ahead(r, s) == \A i \in DOMAIN r, j \in DOMAIN s : r[i] < s[j]

InOrder(t) ==
  /\ Increasing(ran[t]) /\ Increasing(queue[t]) /\ Increasing(todo[t])
  /\ Ahead(ran[t], queue[t]) /\ Ahead(ran[t], todo[t])

TaskOK(t) == HeldBack(t) /\ NothingOpen(t) /\ NothingLost(t) /\ InOrder(t)

HooksOK == \A t \in Tasks : TaskOK(t)

\* Only a transaction that can be rolled back remembers what it wrote over.
UndoOK ==
  \A t \in Tasks, k \in Rows :
    /\ Touched(t, k) => config.rollsBack /\ depth[t] > 0
    /\ undo[t][k] = "present" => k \in minted

\* One row is consumed at a time, and only SQLAlchemy selects it first.
ConsumesOK ==
  \A t \in Tasks :
    /\ call[t].kind = "consume_one" => \E k \in Rows : call[t].rows = {k}
    /\ pc[t] = "remove" => ~config.atomicConsume

\* Write i of task t consumed a row, and has not been taken back.
Consumption(t, i) ==
  i \in DOMAIN log[t] /\ log[t][i].kind = "consume_one" /\ log[t][i].status # "undone"

\* A consumed row is gone for good, except that the transaction that consumed
\* it can bring it back.
ConsumedGone ==
  config.atomicConsume =>
    \A t \in Tasks : \A i \in DOMAIN log[t] :
      Consumption(t, i) =>
        /\ log[t][i].row \in minted \ rows
        /\ \A q \in Tasks : undo[q][log[t][i].row] = "present" =>
             q = t /\ log[t][i].status = "open"

DatabaseOK == UndoOK /\ ConsumesOK /\ ConsumedGone /\ ConsumedOnce

IInv == Types /\ HooksOK /\ DatabaseOK

-----------------------------------------------------------------------------
(* The helpers of the model                                                 *)

\* The order in which a write reports its rows lists them all.
LEMMA OrderFacts ==
  ASSUME NEW S \in SUBSET Rows, NEW order \in Orders(S)
  PROVE  /\ Cardinality(S) \in Nat
         /\ order \in [1 .. Cardinality(S) -> S]
         /\ order \in Seq(Rows) /\ Len(order) = Cardinality(S)
         /\ DOMAIN order = 1 .. Len(order)
         /\ \A i \in 1 .. Len(order) : order[i] \in S
<1>1. Cardinality(S) \in Nat
  BY ConstantsAssumption, FS_Subset, FS_CardinalityType
<1>2. order \in [1 .. Cardinality(S) -> S]
  BY DEF Orders
<1> QED
  BY <1>1, <1>2

\* A logged write is appended to the log of its task, and nothing else changes.
LEMMA LogFacts ==
  ASSUME Types, NEW t \in Tasks, NEW S \in SUBSET Rows, NEW order \in Orders(S),
         Logged(t, order)
  PROVE  /\ log' \in [Tasks -> Seq(Write)]
         /\ \A q \in Tasks \ {t} : log'[q] = log[q]
         /\ Len(log[t]) \in Nat /\ Len(order) \in Nat
         /\ DOMAIN log[t] = 1 .. Len(log[t])
         /\ DOMAIN log'[t] = 1 .. Len(log[t]) + Len(order)
         /\ \A i \in DOMAIN log[t] : i \in DOMAIN log'[t] /\ log'[t][i] = log[t][i]
         /\ \A i \in DOMAIN log'[t] \ DOMAIN log[t] :
              /\ log'[t][i].kind = call[t].kind
              /\ i - Len(log[t]) \in 1 .. Len(order)
              /\ log'[t][i].row = order[i - Len(log[t])]
              /\ log'[t][i].row \in S
              /\ log'[t][i].status = IF depth[t] > 0 THEN "open" ELSE "committed"
<1> DEFINE status == IF depth[t] > 0 THEN "open" ELSE "committed"
           new == [i \in DOMAIN order |->
                     [kind |-> call[t].kind, row |-> order[i], status |-> status]]
           longer == log[t] \o new
<1>1. /\ order \in Seq(Rows) /\ DOMAIN order = 1 .. Len(order) /\ Len(order) \in Nat
      /\ \A i \in 1 .. Len(order) : order[i] \in Rows
  BY OrderFacts
<1>2. \A i \in 1 .. Len(order) :
        [kind |-> call[t].kind, row |-> order[i], status |-> status] \in Write
  BY <1>1, SMT DEF Types, Write
<1>3. new \in Seq(Write) /\ Len(new) = Len(order)
  BY <1>1, <1>2, SMT
<1>4. log[t] \in Seq(Write)
  BY DEF Types
<1>5. log' = [log EXCEPT ![t] = longer]
  BY DEF Logged
<1>6. \A i \in 1 .. Len(order) :
        /\ new[i].kind = call[t].kind
        /\ new[i].row = order[i]
        /\ new[i].status = status
  BY <1>1, SMT
<1> HIDE DEF new, status
<1>7. /\ longer \in Seq(Write)
      /\ Len(longer) = Len(log[t]) + Len(new)
      /\ \A i \in 1 .. Len(log[t]) + Len(new) :
           longer[i] = IF i <= Len(log[t]) THEN log[t][i] ELSE new[i - Len(log[t])]
  <2>1. new \in Seq(Write)
    BY <1>3
  <2> QED
    BY <2>1, <1>4, ConcatProperties, SMT
<1>8. Len(log[t]) \in Nat /\ DOMAIN log[t] = 1 .. Len(log[t]) /\ DOMAIN longer = 1 .. Len(longer)
  BY <1>4, <1>7, LenProperties, SMT
<1> HIDE DEF longer
<1>9. log' \in [Tasks -> Seq(Write)] /\ log'[t] = longer
      /\ \A q \in Tasks \ {t} : log'[q] = log[q]
  BY <1>5, <1>7 DEF Types
<1> QED
  <2> DEFINE n == Len(log[t])
             m == Len(order)
  <2>1. n \in Nat /\ m \in Nat /\ DOMAIN log[t] = 1 .. n /\ DOMAIN longer = 1 .. n + m
    BY <1>1, <1>3, <1>7, <1>8
  <2>2. \A i \in DOMAIN log[t] : i \in DOMAIN longer /\ longer[i] = log[t][i]
    BY <1>3, <1>7, <2>1, SMT
  <2>3. ASSUME NEW i \in DOMAIN longer \ DOMAIN log[t]
        PROVE  /\ longer[i].kind = call[t].kind
               /\ i - n \in 1 .. m
               /\ longer[i].row = order[i - n]
               /\ longer[i].row \in S
               /\ longer[i].status = status
    <3>1. longer[i] = new[i - n] /\ i - n \in 1 .. m
      BY <1>3, <1>7, <2>1, SMT
    <3>2. order[i - n] \in S
      BY <3>1, OrderFacts
    <3> QED
      BY <1>6, <3>1, <3>2
  <2> QED
    BY <1>9, <2>1, <2>2, <2>3 DEF status

\* A task's hooks are its own affair.
LEMMA OwnHooks ==
  ASSUME HooksOK, NEW t \in Tasks, TaskOK(t)',
         \A q \in Tasks \ {t} :
           /\ depth'[q] = depth[q] /\ pc'[q] = pc[q] /\ raised'[q] = raised[q]
           /\ log'[q] = log[q] /\ ran'[q] = ran[q]
           /\ queue'[q] = queue[q] /\ todo'[q] = todo[q]
  PROVE  HooksOK'
BY SMT DEF HooksOK, TaskOK, HeldBack, Stand, NothingOpen, NothingLost, InOrder, Ahead,
           Increasing, Entries

\* Putting the hooks of the next m writes behind s: they come last and in order.
LEMMA QueueFacts ==
  ASSUME NEW s \in Seq(Nat), NEW n \in Nat, NEW m \in Nat,
         \A j \in DOMAIN s : s[j] \in 1 .. n, Increasing(s),
         NEW z, z = s \o [i \in 1 .. m |-> n + i]
  PROVE  /\ z \in Seq(Nat)
         /\ \A j \in DOMAIN s : j \in DOMAIN z /\ z[j] = s[j]
         /\ \A j \in DOMAIN z \ DOMAIN s : z[j] \in (1 .. n + m) \ (1 .. n)
         /\ \A i \in (1 .. n + m) \ (1 .. n) : \E j \in DOMAIN z : z[j] = i
         /\ Increasing(z)
<1> DEFINE hooks == [i \in 1 .. m |-> n + i]
           l == Len(s)
<1>1. hooks \in Seq(Nat) /\ Len(hooks) = m /\ \A i \in 1 .. m : hooks[i] = n + i
  BY SMT
<1> HIDE DEF hooks
<1>2. /\ s \o hooks \in Seq(Nat) /\ Len(s \o hooks) = Len(s) + Len(hooks)
      /\ \A i \in 1 .. Len(s) + Len(hooks) :
           (s \o hooks)[i] = IF i <= Len(s) THEN s[i] ELSE hooks[i - Len(s)]
  <2>1. hooks \in Seq(Nat)
    BY <1>1
  <2> QED
    BY <2>1, ConcatProperties, SMT
<1>3. l \in Nat /\ DOMAIN s = 1 .. l /\ z \in Seq(Nat) /\ DOMAIN z = 1 .. l + m
  BY <1>1, <1>2, LenProperties, SMT DEF hooks
<1>4. \A i \in 1 .. l : z[i] = s[i]
  BY <1>1, <1>2, <1>3, SMT DEF hooks
<1>5. ASSUME NEW i \in 1 .. l + m, i > l
      PROVE  z[i] = n + (i - l)
  <2>1. z[i] = hooks[i - l] /\ i - l \in 1 .. m
    BY <1>1, <1>2, <1>3, <1>5, SMT DEF hooks
  <2> QED
    BY <1>1, <2>1
<1> HIDE DEF l
<1>6. \A j \in DOMAIN s : j \in DOMAIN z /\ z[j] = s[j]
  BY <1>3, <1>4, SMT
<1>7. \A j \in DOMAIN z \ DOMAIN s : z[j] \in (1 .. n + m) \ (1 .. n)
  BY <1>3, <1>5, SMT
<1>8. ASSUME NEW i \in (1 .. n + m) \ (1 .. n)
      PROVE  \E j \in DOMAIN z : z[j] = i
  <2>1. l + (i - n) \in 1 .. l + m /\ l + (i - n) > l /\ n + ((l + (i - n)) - l) = i
    BY <1>3, SMT
  <2> QED
    BY <1>3, <1>5, <2>1
<1>9. ASSUME NEW i \in DOMAIN z, NEW j \in DOMAIN z, i < j
      PROVE  z[i] < z[j]
  <2>1. CASE j <= l
    BY <1>3, <1>4, <1>9, <2>1, SMT DEF Increasing
  <2>2. CASE j > l /\ i <= l
    BY <1>3, <1>4, <1>5, <1>9, <2>2, SMT
  <2>3. CASE j > l /\ i > l
    BY <1>3, <1>5, <1>9, <2>3, SMT
  <2> QED
    BY <1>3, <2>1, <2>2, <2>3, SMT
<1> QED
  BY <1>3, <1>6, <1>7, <1>8, <1>9 DEF Increasing

\* A write that is logged and announced leaves the hooks in order: they are
\* queued in a transaction, and about to be run outside.
LEMMA AnnounceStep ==
  ASSUME Types, HooksOK, NEW t \in Tasks, pc[t] \in {"write", "remove"},
         NEW S \in SUBSET Rows, NEW order \in Orders(S),
         Logged(t, order), Announce(t, order), UNCHANGED <<depth, ran, raised>>
  PROVE  /\ queue' \in [Tasks -> Seq(Nat)] /\ todo' \in [Tasks -> Seq(Nat)]
         /\ HooksOK'
<1> DEFINE n == Len(log[t])
           m == Len(order)
           added == (1 .. n + m) \ (1 .. n)
           hooks == [i \in DOMAIN order |-> n + i]
<1>1. /\ n \in Nat /\ m \in Nat
      /\ DOMAIN log[t] = 1 .. n /\ DOMAIN log'[t] = 1 .. n + m
  BY LogFacts
<1>a. /\ \A q \in Tasks \ {t} : log'[q] = log[q]
      /\ \A i \in DOMAIN log[t] : i \in DOMAIN log'[t] /\ log'[t][i] = log[t][i]
      /\ \A i \in added : i \in DOMAIN log'[t] /\
           log'[t][i].status = IF depth[t] > 0 THEN "open" ELSE "committed"
  BY <1>1, LogFacts
<1>2. /\ depth'[t] = depth[t] /\ ran'[t] = ran[t] /\ raised'[t] = raised[t]
      /\ TaskOK(t) /\ todo[t] = <<>> /\ ran[t] \in Seq(Nat) /\ queue[t] \in Seq(Nat)
      /\ (~(depth[t] > 0) => queue[t] = <<>>)
  BY DEF HooksOK, TaskOK, HeldBack, Types
<1>3. hooks = [i \in 1 .. m |-> n + i]
  BY <1>1, OrderFacts
<1>4. ASSUME NEW s \in Seq(Nat), Increasing(s), \A j \in DOMAIN s : s[j] \in DOMAIN log[t],
             NEW z, z = s \o hooks
      PROVE  /\ z \in Seq(Nat)
             /\ \A j \in DOMAIN s : j \in DOMAIN z /\ z[j] = s[j]
             /\ \A j \in DOMAIN z \ DOMAIN s : z[j] \in added
             /\ \A i \in added : \E j \in DOMAIN z : z[j] = i
             /\ Increasing(z)
  <2>1. \A j \in DOMAIN s : s[j] \in 1 .. n
    BY <1>1, <1>4
  <2>2. z = s \o [i \in 1 .. m |-> n + i]
    BY <1>3, <1>4
  <2>3. n \in Nat /\ m \in Nat
    BY <1>1
  <2> HIDE DEF n, m, hooks
  <2> QED
    BY <1>4, <2>1, <2>2, <2>3, QueueFacts, Zenon
<1>5. \A i \in DOMAIN log[t], j \in added : i < j
  BY <1>1, <1>3, SMT
<1>b. /\ Stand(ran[t], t, "committed") /\ NothingLost(t)
      /\ Stand(queue[t], t, IF depth[t] > 0 THEN "open" ELSE "committed")
      /\ Increasing(ran[t]) /\ Increasing(queue[t]) /\ Ahead(ran[t], queue[t])
  BY <1>2 DEF TaskOK, HeldBack, InOrder
<1>6. Stand(ran[t], t, "committed")'
  BY <1>a, <1>b, <1>2, Zenon DEF Stand
<1>9. \A q \in Tasks \ {t} :
        queue'[q] = queue[q] /\ todo'[q] = todo[q] /\ pc'[q] = pc[q]
  BY DEF Announce, Goto, GotoWith, Types
<1>7. CASE depth[t] > 0
  <2> DEFINE z == queue[t] \o hooks
  <2>1. /\ queue' = [queue EXCEPT ![t] = z] /\ todo' = todo
        /\ pc' = [pc EXCEPT ![t] = "body"]
    BY <1>7 DEF Announce, Goto, GotoWith
  <2> HIDE DEF hooks, added, n, m
  <2>2. /\ z \in Seq(Nat)
        /\ \A j \in DOMAIN queue[t] : j \in DOMAIN z /\ z[j] = queue[t][j]
        /\ \A j \in DOMAIN z \ DOMAIN queue[t] : z[j] \in added
        /\ \A i \in added : \E j \in DOMAIN z : z[j] = i
        /\ Increasing(z)
    BY <1>2, <1>b, <1>4 DEF Stand
  <2> HIDE DEF z
  <2>3. /\ queue'[t] = z /\ todo'[t] = <<>> /\ pc'[t] = "body"
        /\ queue' \in [Tasks -> Seq(Nat)] /\ todo' \in [Tasks -> Seq(Nat)]
    BY <1>2, <2>1, <2>2 DEF Types
  <2>4. HeldBack(t)'
    <3>1. ASSUME NEW j \in DOMAIN z
          PROVE  z[j] \in DOMAIN log'[t] /\ log'[t][z[j]].status = "open"
      <4>1. Stand(queue[t], t, "open")
        BY <1>b, <1>7
      <4>2. CASE j \in DOMAIN queue[t]
        <5>1. z[j] = queue[t][j]
          BY <2>2, <4>2
        <5>2. queue[t][j] \in DOMAIN log[t] /\ log[t][queue[t][j]].status = "open"
          BY <4>1, <4>2 DEF Stand
        <5> QED
          BY <1>a, <5>1, <5>2
      <4>3. CASE j \notin DOMAIN queue[t]
        <5>1. z[j] \in added
          BY <2>2, <4>3
        <5> QED
          BY <1>a, <1>7, <5>1
      <4> QED
        BY <4>2, <4>3
    <3>2. Stand(queue[t], t, "open")' /\ Stand(todo[t], t, "committed")'
      BY <2>3, <3>1 DEF Stand
    <3> QED
      BY <1>2, <1>6, <1>7, <2>3, <3>2 DEF HeldBack
  <2>5. NothingOpen(t)'
    BY <1>2, <1>7 DEF NothingOpen
  <2>6. NothingLost(t)'
    <3> SUFFICES ASSUME ~raised[t], NEW i \in DOMAIN log'[t],
                        log'[t][i].status \in {"open", "committed"},
                        log'[t][i].kind # "update_many"
                 PROVE  i \in Entries(ran[t]) \cup Entries(z)
      BY <1>2, <2>3 DEF NothingLost
    <3>1. CASE i \in DOMAIN log[t]
      <4>1. log'[t][i] = log[t][i]
        BY <1>a, <3>1
      <4>2. i \in Entries(ran[t]) \cup Entries(queue[t]) \cup Entries(todo[t])
        BY <1>b, <3>1, <4>1, Zenon DEF NothingLost
      <4> QED
        BY <1>2, <2>2, <4>2 DEF Entries
    <3>2. CASE i \in added
      BY <2>2, <3>2 DEF Entries
    <3> QED
      BY <1>1, <3>1, <3>2 DEF added
  <2>7. Ahead(ran[t], z)
    BY <1>b, <1>5, <2>2, Zenon DEF Ahead, Stand
  <2>8. InOrder(t)'
    BY <1>b, <1>2, <2>2, <2>3, <2>7 DEF InOrder, Ahead, Increasing
  <2> QED
    BY <1>a, <1>2, <1>9, <2>3, <2>4, <2>5, <2>6, <2>8, OwnHooks DEF TaskOK
<1>8. CASE ~(depth[t] > 0)
  <2>1. /\ todo' = [todo EXCEPT ![t] = hooks] /\ queue' = queue
        /\ pc' = [pc EXCEPT ![t] = "after"]
    BY <1>8 DEF Announce, Goto, GotoWith
  <2> HIDE DEF hooks, added, n, m
  <2>2. /\ hooks \in Seq(Nat)
        /\ \A j \in DOMAIN hooks : hooks[j] \in added
        /\ \A i \in added : \E j \in DOMAIN hooks : hooks[j] = i
        /\ Increasing(hooks)
    <3>1. n \in Nat /\ m \in Nat
      BY <1>1
    <3>2. DOMAIN hooks = 1 .. m /\ \A i \in 1 .. m : hooks[i] = n + i
      BY <1>3
    <3>3. hooks \in Seq(Nat)
      BY <1>3, <3>1, SMT
    <3> HIDE DEF n, m
    <3>4. \A j \in DOMAIN hooks : hooks[j] \in added
      BY <3>1, <3>2, SMT DEF added
    <3>5. ASSUME NEW i \in added
          PROVE  \E j \in DOMAIN hooks : hooks[j] = i
      <4>1. i - n \in 1 .. m /\ n + (i - n) = i
        BY <3>1, SMT DEF added
      <4> QED
        BY <3>2, <4>1
    <3>6. Increasing(hooks)
      BY <3>1, <3>2, SMT DEF Increasing
    <3> QED
      BY <3>3, <3>4, <3>5, <3>6
  <2>3. /\ todo'[t] = hooks /\ queue'[t] = <<>> /\ pc'[t] = "after"
        /\ queue' \in [Tasks -> Seq(Nat)] /\ todo' \in [Tasks -> Seq(Nat)]
    BY <1>2, <1>8, <2>1, <2>2 DEF Types
  <2>4. HeldBack(t)'
    <3>1. Stand(queue[t], t, "committed")' /\ Stand(todo[t], t, "committed")'
      BY <1>a, <1>8, <2>2, <2>3 DEF Stand
    <3> QED
      BY <1>2, <1>6, <1>8, <2>3, <3>1 DEF HeldBack
  <2>5. NothingOpen(t)'
    <3>1. ASSUME NEW i \in DOMAIN log'[t]
          PROVE  log'[t][i].status # "open"
      <4>1. CASE i \in DOMAIN log[t]
        BY <1>2, <1>8, <1>a, <4>1 DEF TaskOK, NothingOpen, Types
      <4>2. CASE i \in added
        BY <1>8, <1>a, <4>2
      <4> QED
        BY <1>1, <4>1, <4>2 DEF added
    <3> QED
      BY <3>1 DEF NothingOpen
  <2>6. NothingLost(t)'
    <3> SUFFICES ASSUME ~raised[t], NEW i \in DOMAIN log'[t],
                        log'[t][i].status \in {"open", "committed"},
                        log'[t][i].kind # "update_many"
                 PROVE  i \in Entries(ran[t]) \cup Entries(hooks)
      BY <1>2, <2>3 DEF NothingLost
    <3>1. CASE i \in DOMAIN log[t]
      <4>1. log'[t][i] = log[t][i]
        BY <1>a, <3>1
      <4>2. i \in Entries(ran[t]) \cup Entries(queue[t]) \cup Entries(todo[t])
        BY <1>b, <3>1, <4>1, Zenon DEF NothingLost
      <4> QED
        BY <1>2, <1>8, <4>2 DEF Entries
    <3>2. CASE i \in added
      BY <2>2, <3>2 DEF Entries
    <3> QED
      BY <1>1, <3>1, <3>2 DEF added
  <2>7. Ahead(ran[t], hooks)
    BY <1>b, <1>5, <2>2, Zenon DEF Ahead, Stand
  <2>8. InOrder(t)'
    BY <1>b, <1>2, <1>8, <2>2, <2>3, <2>7 DEF InOrder, Ahead, Increasing
  <2> QED
    BY <1>a, <1>2, <1>9, <2>3, <2>4, <2>5, <2>6, <2>8, OwnHooks DEF TaskOK
<1> QED
  BY <1>7, <1>8

\* A write that is not announced, as update_many's is not, is no hook's concern.
LEMMA SilentStep ==
  ASSUME Types, HooksOK, NEW t \in Tasks, pc[t] = "write", call[t].kind = "update_many",
         NEW S \in SUBSET Rows, NEW order \in Orders(S),
         Logged(t, order), Silent(t), UNCHANGED <<depth, ran, raised>>
  PROVE  HooksOK'
<1> DEFINE added == DOMAIN log'[t] \ DOMAIN log[t]
<1>1. /\ \A q \in Tasks \ {t} : log'[q] = log[q]
      /\ \A i \in DOMAIN log[t] : i \in DOMAIN log'[t] /\ log'[t][i] = log[t][i]
      /\ \A i \in added : /\ log'[t][i].kind = "update_many"
                          /\ log'[t][i].status =
                               IF depth[t] > 0 THEN "open" ELSE "committed"
  BY LogFacts
<1>2. /\ pc'[t] = "body" /\ \A q \in Tasks \ {t} : pc'[q] = pc[q]
      /\ queue' = queue /\ todo' = todo
  BY DEF Silent, Goto, GotoWith, Types
<1>3. TaskOK(t)
  BY DEF HooksOK
<1>4. HeldBack(t)'
  BY <1>1, <1>2, <1>3 DEF TaskOK, HeldBack, Stand
<1>5. NothingOpen(t)'
  BY <1>1, <1>3 DEF TaskOK, NothingOpen
<1>6. NothingLost(t)'
  BY <1>1, <1>2, <1>3 DEF TaskOK, NothingLost, Entries
<1>7. InOrder(t)'
  BY <1>2, <1>3 DEF TaskOK, InOrder, Ahead, Increasing
<1> QED
  BY <1>1, <1>2, <1>4, <1>5, <1>6, <1>7, OwnHooks DEF TaskOK

\* A step that neither writes nor runs hooks leaves them as they are, also when
\* it leaves a nested transaction block.
LEMMA QuietStep ==
  ASSUME Types, HooksOK, NEW t \in Tasks, pc[t] \notin {"after", "drain"},
         NEW to \in {"body", "read", "before", "write", "remove"},
         pc' = [pc EXCEPT ![t] = to],
         depth' = depth \/ (depth[t] > 1 /\ depth' = [depth EXCEPT ![t] = @ - 1]),
         UNCHANGED <<log, queue, todo, ran, raised>>
  PROVE  HooksOK'
<1>1. /\ pc'[t] = to /\ \A q \in Tasks \ {t} : pc'[q] = pc[q] /\ depth'[q] = depth[q]
      /\ (depth[t] > 0 <=> depth'[t] > 0) /\ (depth[t] = 0 <=> depth'[t] = 0)
  BY SMT DEF Types
<1>2. TaskOK(t)
  BY DEF HooksOK
<1>3. TaskOK(t)'
  BY <1>1, <1>2 DEF TaskOK, HeldBack, Stand, NothingOpen, NothingLost, Entries, InOrder,
                    Ahead, Increasing
<1> QED
  BY <1>1, <1>3, OwnHooks

\* The first hook of s is run: it joins the ones that were.
LEMMA RunFacts ==
  ASSUME NEW r \in Seq(Nat), NEW s \in Seq(Nat), s # <<>>,
         Increasing(r), Increasing(s), Ahead(r, s),
         NEW z, z = Append(r, Head(s))
  PROVE  /\ z \in Seq(Nat) /\ Tail(s) \in Seq(Nat)
         /\ Entries(z) = Entries(r) \cup {Head(s)}
         /\ Entries(s) = {Head(s)} \cup Entries(Tail(s))
         /\ Increasing(z) /\ Increasing(Tail(s)) /\ Ahead(z, Tail(s))
<1> DEFINE m == Len(r)
           n == Len(s)
           u == Tail(s)
<1>1. /\ m \in Nat /\ n \in Nat /\ n > 0
      /\ DOMAIN r = 1 .. m /\ DOMAIN s = 1 .. n
      /\ Head(s) = s[1] /\ Head(s) \in Nat
  BY SMT
<1>2. /\ z \in Seq(Nat) /\ DOMAIN z = 1 .. m + 1
      /\ \A i \in 1 .. m : z[i] = r[i]
      /\ z[m + 1] = s[1]
  BY <1>1, SMT
<1>3. /\ u \in Seq(Nat) /\ DOMAIN u = 1 .. n - 1
      /\ \A i \in 1 .. n - 1 : u[i] = s[i + 1]
  BY <1>1, SMT
<1> HIDE DEF m, n, u
<1>4. Entries(z) = Entries(r) \cup {s[1]}
  BY <1>1, <1>2, SMT DEF Entries
<1>5. Entries(s) = {s[1]} \cup Entries(u)
  <2>1. ASSUME NEW i \in 1 .. n, i # 1
        PROVE  i - 1 \in 1 .. n - 1 /\ u[i - 1] = s[i]
    BY <1>1, <1>3, <2>1, SMT
  <2>2. ASSUME NEW i \in 1 .. n - 1
        PROVE  i + 1 \in 1 .. n /\ u[i] = s[i + 1]
    BY <1>1, <1>3, SMT
  <2>3. 1 \in 1 .. n
    BY <1>1, SMT
  <2>4. ASSUME NEW x \in Entries(s)
        PROVE  x = s[1] \/ x \in Entries(u)
    <3>1. PICK i \in 1 .. n : x = s[i]
      BY <1>1 DEF Entries
    <3>2. CASE i # 1
      <4>1. i - 1 \in DOMAIN u /\ u[i - 1] = x
        BY <1>3, <2>1, <3>1, <3>2
      <4> QED
        BY <4>1 DEF Entries
    <3> QED
      BY <3>1, <3>2
  <2>5. ASSUME NEW x \in Entries(u)
        PROVE  x \in Entries(s)
    <3>1. PICK i \in 1 .. n - 1 : x = u[i]
      BY <1>3 DEF Entries
    <3>2. i + 1 \in DOMAIN s /\ s[i + 1] = x
      BY <1>1, <2>2, <3>1
    <3> QED
      BY <3>2 DEF Entries
  <2>6. s[1] \in Entries(s)
    BY <1>1, <2>3 DEF Entries
  <2> QED
    BY <2>4, <2>5, <2>6
<1>6. Increasing(z)
  <2> SUFFICES ASSUME NEW i \in 1 .. m + 1, NEW j \in 1 .. m + 1, i < j
               PROVE  z[i] < z[j]
    BY <1>2 DEF Increasing
  <2>1. i \in 1 .. m
    BY <1>1, SMT
  <2>2. CASE j \in 1 .. m
    BY <1>1, <1>2, <2>1, <2>2 DEF Increasing
  <2>3. CASE j = m + 1
    <3>1. z[i] = r[i] /\ z[j] = s[1]
      BY <1>2, <2>1, <2>3
    <3>2. i \in DOMAIN r /\ 1 \in DOMAIN s
      BY <1>1, <2>1
    <3> QED
      BY <3>1, <3>2 DEF Ahead
  <2>4. m \in Nat
    BY <1>1
  <2>5. j \in 1 .. m \/ j = m + 1
    BY <2>4, SMT
  <2> QED
    BY <2>2, <2>3, <2>5, Zenon
<1>7. ASSUME NEW i \in 1 .. n - 1, NEW j \in 1 .. n - 1, i < j
      PROVE  u[i] < u[j]
  <2>1. i + 1 \in 1 .. n /\ j + 1 \in 1 .. n /\ i + 1 < j + 1
    BY <1>1, <1>7, SMT
  <2> QED
    BY <1>1, <1>3, <2>1 DEF Increasing
<1>8. ASSUME NEW i \in 1 .. m + 1, NEW j \in 1 .. n - 1
      PROVE  z[i] < u[j]
  <2>1. 1 \in 1 .. n /\ j + 1 \in 1 .. n /\ 1 < j + 1 /\ u[j] = s[j + 1]
    BY <1>1, <1>3, SMT
  <2>2. CASE i \in 1 .. m
    BY <1>1, <1>2, <2>1, <2>2 DEF Ahead
  <2>3. CASE i = m + 1
    BY <1>1, <1>2, <2>1, <2>3 DEF Increasing
  <2> QED
    BY <1>1, <2>2, <2>3, SMT
<1> QED
  BY <1>1, <1>2, <1>3, <1>4, <1>5, <1>6, <1>7, <1>8 DEF u, Increasing, Ahead

\* Stand is about the entries of a sequence, whatever their order.
LEMMA StandEntries ==
  ASSUME NEW s, NEW t, NEW status
  PROVE  Stand(s, t, status) <=>
           \A x \in Entries(s) : x \in DOMAIN log[t] /\ log[t][x].status = status
  BY Zenon DEF Stand, Entries

\* A hook of a call outside any transaction runs, or the call is over.
LEMMA InlineStep ==
  ASSUME Types, HooksOK, NEW t \in Tasks, RunInline(t)
  PROVE  /\ todo' \in [Tasks -> Seq(Nat)] /\ ran' \in [Tasks -> Seq(Nat)]
         /\ HooksOK'
<1> USE DEF RunInline, At, Goto, GotoWith
<1>1. TaskOK(t) /\ todo[t] \in Seq(Nat) /\ ran[t] \in Seq(Nat) /\ queue[t] \in Seq(Nat)
      /\ pc[t] = "after" /\ depth[t] \in Nat
  BY DEF HooksOK, Types
<1>2. ~(depth[t] > 0) /\ queue[t] = <<>>
  BY <1>1, SMT DEF TaskOK, HeldBack
<1>3. CASE todo[t] = <<>>
  <2>1. /\ pc'[t] = "body" /\ \A q \in Tasks \ {t} : pc'[q] = pc[q]
        /\ UNCHANGED <<log, queue, todo, ran, raised, depth>>
    BY <1>3 DEF Types
  <2>2. TaskOK(t)'
    BY <1>1, <1>2, <1>3, <2>1 DEF TaskOK, HeldBack, Stand, NothingOpen, NothingLost, Entries, InOrder,
                      Ahead, Increasing
  <2> QED
    BY <2>1, <2>2, OwnHooks DEF Types
<1>4. CASE todo[t] # <<>>
  <2> DEFINE z == Append(ran[t], Head(todo[t]))
             u == Tail(todo[t])
  <2>1. /\ z \in Seq(Nat) /\ u \in Seq(Nat)
        /\ Entries(z) = Entries(ran[t]) \cup {Head(todo[t])}
        /\ Entries(todo[t]) = {Head(todo[t])} \cup Entries(u)
        /\ Increasing(z) /\ Increasing(u) /\ Ahead(z, u)
    BY <1>1, <1>4, RunFacts DEF TaskOK, InOrder
  <2>2. /\ UNCHANGED <<log, queue, raised, depth, pc>>
        /\ ran' = [ran EXCEPT ![t] = z] /\ todo' = [todo EXCEPT ![t] = u]
    BY <1>4
  <2> HIDE DEF z, u
  <2>3. /\ ran'[t] = z /\ todo'[t] = u
        /\ \A q \in Tasks \ {t} : ran'[q] = ran[q] /\ todo'[q] = todo[q]
        /\ todo' \in [Tasks -> Seq(Nat)] /\ ran' \in [Tasks -> Seq(Nat)]
    BY <2>1, <2>2 DEF Types
  <2>4. Stand(z, t, "committed") /\ Stand(u, t, "committed")
    <3>1. Stand(ran[t], t, "committed") /\ Stand(todo[t], t, "committed")
      BY <1>1 DEF TaskOK, HeldBack
    <3> QED
      BY <2>1, <3>1, StandEntries
  <2>5. HeldBack(t)'
    BY <1>1, <1>2, <2>2, <2>3, <2>4, SMTT(30) DEF HeldBack, Stand
  <2>6. NothingOpen(t)'
    BY <1>1, <2>2 DEF TaskOK, NothingOpen
  <2>7. NothingLost(t)'
    BY <1>1, <2>1, <2>2, <2>3 DEF TaskOK, NothingLost
  <2>8. InOrder(t)'
    BY <1>1, <1>2, <2>1, <2>2, <2>3 DEF TaskOK, InOrder, Ahead, Increasing
  <2> QED
    BY <2>2, <2>3, <2>5, <2>6, <2>7, <2>8, OwnHooks DEF TaskOK
<1> QED
  BY <1>3, <1>4

\* A hook of the transaction that was committed runs, or all have run.
LEMMA DrainStep ==
  ASSUME Types, HooksOK, NEW t \in Tasks, Drain(t)
  PROVE  /\ queue' \in [Tasks -> Seq(Nat)] /\ ran' \in [Tasks -> Seq(Nat)]
         /\ HooksOK'
<1> USE DEF Drain, At, Goto, GotoWith
<1>1. TaskOK(t) /\ todo[t] = <<>> /\ ran[t] \in Seq(Nat) /\ queue[t] \in Seq(Nat)
      /\ pc[t] = "drain" /\ depth[t] \in Nat
  BY DEF HooksOK, TaskOK, HeldBack, Types
<1>2. ~(depth[t] > 0)
  BY <1>1, SMT DEF TaskOK, HeldBack
<1>3. CASE queue[t] = <<>>
  <2>1. /\ pc'[t] = "body" /\ \A q \in Tasks \ {t} : pc'[q] = pc[q]
        /\ UNCHANGED <<log, queue, todo, ran, raised, depth>>
    BY <1>3 DEF Types
  <2>2. TaskOK(t)'
    BY <1>1, <1>2, <1>3, <2>1 DEF TaskOK, HeldBack, Stand, NothingOpen, NothingLost, Entries, InOrder,
                      Ahead, Increasing
  <2> QED
    BY <2>1, <2>2, OwnHooks DEF Types
<1>4. CASE queue[t] # <<>>
  <2> DEFINE z == Append(ran[t], Head(queue[t]))
             u == Tail(queue[t])
  <2>1. /\ z \in Seq(Nat) /\ u \in Seq(Nat)
        /\ Entries(z) = Entries(ran[t]) \cup {Head(queue[t])}
        /\ Entries(queue[t]) = {Head(queue[t])} \cup Entries(u)
        /\ Increasing(z) /\ Increasing(u) /\ Ahead(z, u)
    BY <1>1, <1>4, RunFacts DEF TaskOK, InOrder
  <2>2. /\ UNCHANGED <<log, todo, raised, depth, pc>>
        /\ ran' = [ran EXCEPT ![t] = z] /\ queue' = [queue EXCEPT ![t] = u]
    BY <1>4
  <2> HIDE DEF z, u
  <2>3. /\ ran'[t] = z /\ queue'[t] = u
        /\ \A q \in Tasks \ {t} : ran'[q] = ran[q] /\ queue'[q] = queue[q]
        /\ queue' \in [Tasks -> Seq(Nat)] /\ ran' \in [Tasks -> Seq(Nat)]
    BY <2>1, <2>2 DEF Types
  <2>4. Stand(z, t, "committed") /\ Stand(u, t, "committed")
    <3>1. Stand(ran[t], t, "committed") /\ Stand(queue[t], t, "committed")
      BY <1>1, <1>2 DEF TaskOK, HeldBack
    <3> QED
      BY <2>1, <3>1, StandEntries
  <2>5. HeldBack(t)'
    BY <1>1, <1>2, <2>2, <2>3, <2>4, SMTT(30) DEF HeldBack, Stand
  <2>6. NothingOpen(t)'
    BY <1>1, <2>2 DEF TaskOK, NothingOpen
  <2>7. NothingLost(t)'
    BY <1>1, <2>1, <2>2, <2>3 DEF TaskOK, NothingLost
  <2>8. InOrder(t)'
    BY <1>1, <2>1, <2>2, <2>3 DEF TaskOK, InOrder, Ahead, Increasing
  <2> QED
    BY <2>2, <2>3, <2>5, <2>6, <2>7, <2>8, OwnHooks DEF TaskOK
<1> QED
  BY <1>3, <1>4

\* What a transaction that ends makes of its writes.
LEMMA SettleFacts ==
  ASSUME Types, NEW t \in Tasks, NEW status \in {"committed", "undone", "kept"},
         Settle(t, status)
  PROVE  /\ log' \in [Tasks -> Seq(Write)]
         /\ \A q \in Tasks \ {t} : log'[q] = log[q]
         /\ DOMAIN log'[t] = DOMAIN log[t]
         /\ \A i \in DOMAIN log[t] :
              /\ log'[t][i].kind = log[t][i].kind /\ log'[t][i].row = log[t][i].row
              /\ log'[t][i].status =
                   IF log[t][i].status = "open" THEN status ELSE log[t][i].status
<1> DEFINE After(w) == IF w.status = "open" THEN [w EXCEPT !.status = status] ELSE w
           z == [i \in DOMAIN log[t] |-> After(log[t][i])]
<1>1. ASSUME NEW w \in Write
      PROVE  /\ After(w) \in Write
             /\ After(w).kind = w.kind /\ After(w).row = w.row
             /\ After(w).status = IF w.status = "open" THEN status ELSE w.status
  BY SMT DEF Write
<1>2. log[t] \in Seq(Write) /\ log' = [log EXCEPT ![t] = z]
  BY DEF Types, Settle
<1> HIDE DEF After
<1>3. DOMAIN log[t] = 1 .. Len(log[t]) /\ Len(log[t]) \in Nat
      /\ \A i \in DOMAIN log[t] : log[t][i] \in Write
  BY <1>2, SMT
<1>4. z \in Seq(Write) /\ DOMAIN z = DOMAIN log[t]
      /\ \A i \in DOMAIN log[t] : z[i] = After(log[t][i])
  BY <1>1, <1>3, SMT
<1> HIDE DEF z
<1>5. /\ log' \in [Tasks -> Seq(Write)] /\ log'[t] = z
      /\ \A q \in Tasks \ {t} : log'[q] = log[q]
  BY <1>2, <1>4 DEF Types
<1> QED
  BY <1>1, <1>3, <1>4, <1>5

\* The outermost block finds no hook waiting, a nested one leaves them.
LEMMA EnterStep ==
  ASSUME Types, HooksOK, NEW t \in Tasks, Enter(t)
  PROVE  HooksOK' /\ queue' \in [Tasks -> Seq(Nat)]
<1>1. TaskOK(t) /\ depth[t] \in Nat /\ pc[t] = "body"
  BY DEF HooksOK, Types, Enter, At
<1>2. /\ depth'[t] = depth[t] + 1
      /\ \A q \in Tasks \ {t} : depth'[q] = depth[q] /\ queue'[q] = queue[q]
      /\ UNCHANGED <<log, todo, ran, raised, pc>>
  BY DEF Enter, Types
<1>3. queue'[t] = queue[t] /\ queue' \in [Tasks -> Seq(Nat)]
  <2>1. <<>> \in Seq(Nat)
    OBVIOUS
  <2> QED
    BY <1>1, <2>1, SMT DEF Enter, Types, TaskOK, HeldBack
<1>4. depth'[t] > 0 /\ depth'[t] # 0 /\ (depth[t] > 0 \/ depth[t] = 0)
  BY <1>1, <1>2, SMT
<1>5. Stand(queue[t], t, "open")
  <2>1. CASE depth[t] > 0
    BY <1>1, <2>1 DEF TaskOK, HeldBack
  <2>2. CASE depth[t] = 0
    BY <1>1, <2>2 DEF TaskOK, HeldBack, Stand
  <2> QED
    BY <1>4, <2>1, <2>2
<1>6. TaskOK(t)'
  BY <1>1, <1>2, <1>3, <1>4, <1>5
  DEF TaskOK, HeldBack, Stand, NothingOpen, NothingLost, Entries, InOrder, Ahead, Increasing
<1> QED
  BY <1>2, <1>3, <1>6, OwnHooks

\* At the end of a transaction the hooks held back become due.
LEMMA CommitStep ==
  ASSUME Types, HooksOK, NEW t \in Tasks, Commit(t)
  PROVE  HooksOK'
<1>1. /\ TaskOK(t) /\ pc[t] = "body" /\ depth[t] > 0
      /\ pc'[t] = "drain" /\ depth'[t] = 0 /\ ~(depth'[t] > 0)
      /\ \A q \in Tasks \ {t} : pc'[q] = pc[q] /\ depth'[q] = depth[q]
      /\ UNCHANGED <<queue, todo, ran, raised>>
  BY DEF HooksOK, Types, Commit, At, Goto, GotoWith
<1>2. /\ \A q \in Tasks \ {t} : log'[q] = log[q]
      /\ DOMAIN log'[t] = DOMAIN log[t]
      /\ \A i \in DOMAIN log[t] :
           /\ log'[t][i].kind = log[t][i].kind
           /\ log'[t][i].status =
                IF log[t][i].status = "open" THEN "committed" ELSE log[t][i].status
  BY SettleFacts DEF Commit
<1>3. HeldBack(t)'
  BY <1>1, <1>2 DEF TaskOK, HeldBack, Stand
<1>4. NothingOpen(t)'
  BY <1>2 DEF NothingOpen
<1>5. NothingLost(t)'
  BY <1>1, <1>2 DEF TaskOK, NothingLost, Entries
<1>6. InOrder(t)'
  BY <1>1 DEF TaskOK, InOrder, Ahead, Increasing
<1> QED
  BY <1>1, <1>2, <1>3, <1>4, <1>5, <1>6, OwnHooks DEF TaskOK

\* A rollback drops the hooks held back, all of writes that are not committed.
LEMMA RollBackStep ==
  ASSUME Types, HooksOK, NEW t \in Tasks, RollBack(t)
  PROVE  HooksOK' /\ queue' \in [Tasks -> Seq(Nat)]
<1> DEFINE status == IF config.rollsBack THEN "undone" ELSE "kept"
<1>1. /\ TaskOK(t) /\ pc[t] \notin {"after", "drain"} /\ depth[t] > 0
      /\ pc'[t] = "body" /\ depth'[t] = 0 /\ ~(depth'[t] > 0) /\ queue'[t] = <<>>
      /\ \A q \in Tasks \ {t} :
           pc'[q] = pc[q] /\ depth'[q] = depth[q] /\ queue'[q] = queue[q]
      /\ UNCHANGED <<todo, ran, raised>>
  BY DEF HooksOK, Types, RollBack, Goto, GotoWith
<1>2. /\ \A q \in Tasks \ {t} : log'[q] = log[q]
      /\ DOMAIN log'[t] = DOMAIN log[t]
      /\ \A i \in DOMAIN log[t] :
           /\ log'[t][i].kind = log[t][i].kind
           /\ log'[t][i].status =
                IF log[t][i].status = "open" THEN status ELSE log[t][i].status
  BY SettleFacts DEF RollBack
<1>3. status \in {"undone", "kept"}
  OBVIOUS
<1> HIDE DEF status
<1>4. todo[t] = <<>>
  BY <1>1 DEF TaskOK, HeldBack
<1>5. HeldBack(t)'
  BY <1>1, <1>2, <1>3, <1>4 DEF TaskOK, HeldBack, Stand
<1>6. NothingOpen(t)'
  BY <1>2, <1>3 DEF NothingOpen
<1>7. NothingLost(t)'
  <2> SUFFICES ASSUME ~raised[t], NEW i \in DOMAIN log[t],
                      log'[t][i].status \in {"open", "committed"},
                      log'[t][i].kind # "update_many"
               PROVE  i \in Entries(ran[t])
    BY <1>1, <1>2, Zenon DEF NothingLost
  <2>1. log[t][i].status = "committed" /\ log[t][i].kind # "update_many"
    BY <1>2, <1>3
  <2>2. i \in Entries(ran[t]) \cup Entries(queue[t])
    BY <1>1, <1>4, <2>1 DEF TaskOK, NothingLost, Entries
  <2>3. Stand(queue[t], t, "open")
    BY <1>1 DEF TaskOK, HeldBack
  <2> QED
    BY <2>1, <2>2, <2>3, StandEntries
<1>8. InOrder(t)'
  BY <1>1 DEF TaskOK, InOrder, Ahead, Increasing
<1>9. queue' \in [Tasks -> Seq(Nat)]
  <2>1. <<>> \in Seq(Nat)
    OBVIOUS
  <2> QED
    BY <2>1 DEF RollBack, Types
<1> QED
  BY <1>1, <1>2, <1>5, <1>6, <1>7, <1>8, <1>9, OwnHooks DEF TaskOK

\* A hook that raises takes the ones behind it along.
LEMMA RaiseStep ==
  ASSUME Types, HooksOK, NEW t \in Tasks, AfterHookRaises(t)
  PROVE  /\ HooksOK'
         /\ queue' \in [Tasks -> Seq(Nat)] /\ todo' \in [Tasks -> Seq(Nat)]
<1>1. <<>> \in Seq(Nat)
  OBVIOUS
<1>2. /\ TaskOK(t) /\ pc'[t] = "body" /\ raised'[t] /\ queue'[t] = <<>> /\ todo'[t] = <<>>
      /\ \A q \in Tasks \ {t} : /\ pc'[q] = pc[q] /\ raised'[q] = raised[q]
                                /\ queue'[q] = queue[q] /\ todo'[q] = todo[q]
      /\ UNCHANGED <<log, ran, depth>>
      /\ queue' \in [Tasks -> Seq(Nat)] /\ todo' \in [Tasks -> Seq(Nat)]
  BY <1>1 DEF HooksOK, Types, AfterHookRaises, Goto, GotoWith
<1>3. TaskOK(t)'
  BY <1>2
  DEF TaskOK, HeldBack, Stand, NothingOpen, NothingLost, InOrder, Ahead, Increasing
<1> QED
  BY <1>2, <1>3, OwnHooks

-----------------------------------------------------------------------------
(* The tables                                                               *)

\* Moving on keeps the call, except that its row may have been selected.
LEMMA GotoFacts ==
  ASSUME Types, ConsumesOK, NEW t \in Tasks,
         NEW to \in {"body", "read", "before", "write", "remove", "after", "drain"},
         to = "remove" => ~config.atomicConsume,
         NEW c \in [kind : Kinds, rows : SUBSET Rows, seen : SUBSET Rows],
         c.kind = "consume_one" => \E k \in Rows : c.rows = {k},
         GotoWith(t, to, c), config' = config
  PROVE  /\ pc' \in [Tasks -> {"body", "read", "before", "write", "remove", "after", "drain"}]
         /\ call' \in [Tasks -> [kind : Kinds, rows : SUBSET Rows, seen : SUBSET Rows]]
         /\ ConsumesOK'
<1>1. NoCall \in [kind : Kinds, rows : SUBSET Rows, seen : SUBSET Rows]
      /\ NoCall.kind # "consume_one"
  BY DEF NoCall, Kinds
<1> QED
  BY <1>1 DEF GotoWith, Types, ConsumesOK

\* What storing the rows of S does to the memory of the open transactions.
LEMMA StoreFacts ==
  ASSUME Types, UndoOK, NEW t \in Tasks, NEW S \in SUBSET Rows, NEW after,
         Store(t, S, after), minted \subseteq minted', UNCHANGED <<depth, config>>
  PROVE  /\ undo' \in [Tasks -> [Rows -> {"untouched", "absent", "present"}]]
         /\ UndoOK'
         /\ \A q \in Tasks \ {t} : undo'[q] = undo[q] /\ \A k \in S : ~Touched(q, k)
         /\ \A k \in Rows : undo'[t][k] = "present" =>
              undo[t][k] = "present" \/ (k \in S \cap rows /\ depth[t] > 0)
<1> DEFINE new == [k \in Rows |-> IF k \in S /\ undo[t][k] = "untouched"
                                 THEN IF k \in rows THEN "present" ELSE "absent"
                                 ELSE undo[t][k]]
<1>1. \A q \in Tasks \ {t}, k \in S : ~Touched(q, k)
  BY DEF Store, Unlocked
<1>2. CASE config.rollsBack /\ depth[t] > 0
  <2>1. undo' = [undo EXCEPT ![t] = new]
    BY <1>2 DEF Store
  <2>2. new \in [Rows -> {"untouched", "absent", "present"}]
    BY DEF Types
  <2>3. undo'[t] = new /\ \A q \in Tasks \ {t} : undo'[q] = undo[q]
    BY <2>1, <2>2 DEF Types
  <2>4. undo' \in [Tasks -> [Rows -> {"untouched", "absent", "present"}]]
    BY <2>1, <2>2 DEF Types
  <2>5. UndoOK'
    <3> SUFFICES ASSUME NEW q \in Tasks, NEW k \in Rows
                 PROVE  /\ undo'[q][k] # "untouched" => config.rollsBack /\ depth[q] > 0
                        /\ undo'[q][k] = "present" => k \in minted'
      BY DEF UndoOK, Touched
    <3>1. CASE q = t
      <4>1. undo'[q][k] = "present" => undo[t][k] = "present" \/ k \in rows
        BY <2>3, <3>1
      <4> QED
        BY <1>2, <3>1, <4>1 DEF UndoOK, Types
    <3>2. CASE q # t
      BY <2>3, <3>2 DEF UndoOK, Touched
    <3> QED
      BY <3>1, <3>2
  <2> QED
    BY <1>1, <1>2, <2>3, <2>4, <2>5
<1>3. CASE ~(config.rollsBack /\ depth[t] > 0)
  BY <1>1, <1>3 DEF Store, UndoOK, Touched, Types
<1> QED
  BY <1>2, <1>3

\* A write that consumes nothing brings no consumed row back.
LEMMA PlainWrite ==
  ASSUME Types, DatabaseOK, NEW t \in Tasks, call[t].kind # "consume_one",
         NEW R \in SUBSET Rows, NEW order \in Orders(R), Logged(t, order),
         NEW S \in SUBSET Rows, NEW after, after \cap minted \subseteq rows,
         Store(t, S, after), minted \subseteq minted', UNCHANGED <<depth, config>>
  PROVE  ConsumedGone' /\ ConsumedOnce'
<1>1. ASSUME NEW q \in Tasks, NEW i \in DOMAIN log'[q],
             log'[q][i].kind = "consume_one"
      PROVE  i \in DOMAIN log[q] /\ log'[q][i] = log[q][i]
  <2>1. /\ \A p \in Tasks \ {t} : log'[p] = log[p]
        /\ \A j \in DOMAIN log[t] : j \in DOMAIN log'[t] /\ log'[t][j] = log[t][j]
        /\ \A j \in DOMAIN log'[t] \ DOMAIN log[t] : log'[t][j].kind = call[t].kind
    BY LogFacts
  <2> QED
    BY <1>1, <2>1
<1>2. /\ rows' = after
      /\ \A q \in Tasks \ {t} : undo'[q] = undo[q]
      /\ \A k \in Rows : undo'[t][k] = "present" =>
           undo[t][k] = "present" \/ k \in rows
  BY StoreFacts DEF DatabaseOK, Store
<1>3. ConsumedGone'
  <2> SUFFICES ASSUME config.atomicConsume, NEW q \in Tasks, NEW i \in DOMAIN log'[q],
                      Consumption(q, i)'
               PROVE  /\ log'[q][i].row \in minted' \ rows'
                      /\ \A p \in Tasks : undo'[p][log'[q][i].row] = "present" =>
                           p = q /\ log'[q][i].status = "open"
    BY Zenon DEF ConsumedGone
  <2>1. /\ Consumption(q, i) /\ log'[q][i] = log[q][i] /\ i \in DOMAIN log[q]
    BY <1>1 DEF Consumption
  <2>2. /\ log[q][i].row \in minted \ rows
        /\ \A p \in Tasks : undo[p][log[q][i].row] = "present" =>
             p = q /\ log[q][i].status = "open"
    BY <2>1 DEF DatabaseOK, ConsumedGone
  <2>3. log[q][i].row \in Rows
    BY <2>2 DEF Types
  <2> QED
    BY <1>2, <2>1, <2>2, <2>3
<1>4. ConsumedOnce'
  BY <1>1 DEF DatabaseOK, ConsumedOnce
<1> QED
  BY <1>3, <1>4

\* The one row that is consumed was there, so nobody has consumed it before.
LEMMA ConsumingWrite ==
  ASSUME Types, DatabaseOK, NEW t \in Tasks, ConsumeOne(t)
  PROVE  ConsumedGone' /\ ConsumedOnce'
<1> DEFINE S == Visible(t) \cap call[t].rows
           n == Len(log[t])
<1>1. PICK order \in Orders(S) : Logged(t, order)
  BY DEF ConsumeOne
<1>2. PICK k \in Rows : call[t].rows = {k}
  BY DEF ConsumeOne, DatabaseOK, ConsumesOK
<1>3. /\ S \in SUBSET Rows /\ S \subseteq {k}
      /\ config.atomicConsume /\ call[t].kind = "consume_one"
      /\ UNCHANGED <<config, minted, depth>> /\ depth[t] \in Nat
      /\ Store(t, S, rows \ S) /\ rows' = rows \ S
  BY <1>2 DEF ConsumeOne, Visible, Store, Types
<1>4. /\ \A q \in Tasks \ {t} : log'[q] = log[q]
      /\ \A i \in DOMAIN log[t] : i \in DOMAIN log'[t] /\ log'[t][i] = log[t][i]
      /\ \A i \in DOMAIN log'[t] \ DOMAIN log[t] :
           /\ i - n \in 1 .. Len(order)
           /\ log'[t][i].row \in S
           /\ log'[t][i].status = IF depth[t] > 0 THEN "open" ELSE "committed"
  <2> HIDE DEF S
  <2> QED
    BY <1>1, <1>3, LogFacts
<1>5. n \in Nat /\ DOMAIN log[t] \subseteq Nat /\ DOMAIN log'[t] \subseteq Nat
  <2>1. log' \in [Tasks -> Seq(Write)]
    BY <1>1, <1>3, LogFacts
  <2> QED
    BY <2>1 DEF Types
<1>6. Len(order) <= 1
  <2>1. S = {} \/ S = {k}
    BY <1>3
  <2>2. Cardinality(S) = 0 \/ Cardinality(S) = 1
    BY <2>1, FS_EmptySet, FS_Singleton
  <2>3. Len(order) = Cardinality(S)
    BY <1>1, <1>3, OrderFacts
  <2> QED
    BY <2>2, <2>3, SMT
<1>7. /\ \A q \in Tasks \ {t} : undo'[q] = undo[q] /\ \A j \in S : ~Touched(q, j)
      /\ \A j \in Rows : undo'[t][j] = "present" =>
           undo[t][j] = "present" \/ (j \in S \cap rows /\ depth[t] > 0)
  <2> HIDE DEF S
  <2> QED
    BY <1>3, StoreFacts DEF DatabaseOK
<1>8. S \subseteq rows
  BY <1>7 DEF Visible
<1> HIDE DEF S, n
\* A row that is consumed now was not consumed before.
<1>9. ASSUME NEW q \in Tasks, NEW i \in DOMAIN log[q], Consumption(q, i)
      PROVE  /\ log[q][i].row \in minted \ rows
             /\ \A p \in Tasks : undo[p][log[q][i].row] = "present" =>
                  p = q /\ log[q][i].status = "open"
  BY <1>3, <1>9 DEF DatabaseOK, ConsumedGone
<1>10. ASSUME NEW i \in DOMAIN log'[t] \ DOMAIN log[t], NEW j \in DOMAIN log'[t] \ DOMAIN log[t]
       PROVE  i = j
  BY <1>1, <1>3, <1>4, <1>5, <1>6, OrderFacts, SMT
<1>11. ConsumedGone'
  <2> SUFFICES ASSUME NEW q \in Tasks, NEW i \in DOMAIN log'[q], Consumption(q, i)'
               PROVE  /\ log'[q][i].row \in minted' \ rows'
                      /\ \A p \in Tasks : undo'[p][log'[q][i].row] = "present" =>
                           p = q /\ log'[q][i].status = "open"
    BY Zenon DEF ConsumedGone
  <2>1. CASE q = t /\ i \notin DOMAIN log[t]
    <3>1. log'[t][i].row \in S /\ log'[t][i].row \in minted /\ log'[t][i].row \in Rows
      BY <1>3, <1>4, <1>8, <2>1 DEF Types
    <3>2. \A p \in Tasks \ {t} : undo'[p][log'[q][i].row] # "present"
      BY <1>7, <2>1, <3>1 DEF Touched
    <3>3. undo'[t][log'[t][i].row] = "present" => log'[t][i].status = "open"
      <4>1. undo[t][log'[t][i].row] = "present" => depth[t] > 0
        BY <3>1 DEF DatabaseOK, UndoOK, Touched
      <4> QED
        BY <1>4, <1>7, <2>1, <3>1, <4>1
    <3> QED
      BY <1>3, <2>1, <3>1, <3>2, <3>3
  <2>2. CASE i \in DOMAIN log[q]
    <3>1. log'[q][i] = log[q][i] /\ Consumption(q, i)
      BY <1>4, <2>2 DEF Consumption
    <3>2. /\ log[q][i].row \in minted \ rows /\ log[q][i].row \in Rows
          /\ \A p \in Tasks : undo[p][log[q][i].row] = "present" =>
               p = q /\ log[q][i].status = "open"
      BY <1>9, <2>2, <3>1 DEF Types
    <3> QED
      BY <1>3, <1>7, <3>1, <3>2
  <2> QED
    BY <1>4, <2>1, <2>2
<1>12. ConsumedOnce'
  <2> SUFFICES ASSUME NEW p \in Tasks, NEW q \in Tasks,
                      NEW i \in DOMAIN log'[p], NEW j \in DOMAIN log'[q],
                      log'[p][i].kind = "consume_one", log'[q][j].kind = "consume_one",
                      log'[p][i].row = log'[q][j].row,
                      log'[p][i].status # "undone", log'[q][j].status # "undone"
               PROVE  p = q /\ i = j
    BY DEF ConsumedOnce
  <2>1. ASSUME NEW a \in Tasks, NEW b \in DOMAIN log'[a], b \in DOMAIN log[a],
               log'[a][b].kind = "consume_one", log'[a][b].status # "undone"
        PROVE  log'[a][b] = log[a][b] /\ log'[a][b].row \notin rows
    <3>1. log'[a][b] = log[a][b]
      BY <1>4, <2>1
    <3> QED
      BY <1>9, <2>1, <3>1 DEF Consumption
  <2>2. ASSUME NEW a \in Tasks, NEW b \in DOMAIN log'[a], b \notin DOMAIN log[a]
        PROVE  a = t /\ log'[a][b].row \in rows
    BY <1>4, <1>8, <2>2
  <2>3. CASE i \in DOMAIN log[p] /\ j \in DOMAIN log[q]
    BY <1>3, <2>1, <2>3 DEF DatabaseOK, ConsumedOnce
  <2>4. CASE i \notin DOMAIN log[p] /\ j \notin DOMAIN log[q]
    BY <1>10, <2>2, <2>4
  <2> QED
    BY <2>1, <2>2, <2>3, <2>4
<1> QED
  BY <1>11, <1>12

\* A commit makes what was consumed final, a rollback takes all of it back.
LEMMA SettledTables ==
  ASSUME Types, DatabaseOK, NEW t \in Tasks, Commit(t) \/ RollBack(t)
  PROVE  /\ undo' \in [Tasks -> [Rows -> {"untouched", "absent", "present"}]]
         /\ log' \in [Tasks -> Seq(Write)]
         /\ rows' \subseteq minted
         /\ UndoOK' /\ ConsumedGone' /\ ConsumedOnce'
<1> DEFINE status == IF Commit(t) THEN "committed"
                     ELSE IF config.rollsBack THEN "undone" ELSE "kept"
<1>1. /\ \A q \in Tasks \ {t} : undo'[q] = undo[q] /\ depth'[q] = depth[q]
      /\ undo'[t] = [k \in Rows |-> "untouched"]
      /\ undo' \in [Tasks -> [Rows -> {"untouched", "absent", "present"}]]
      /\ UNCHANGED <<config, minted>>
  <2>1. undo' = [undo EXCEPT ![t] = [k \in Rows |-> "untouched"]]
        /\ depth' = [depth EXCEPT ![t] = 0] /\ UNCHANGED <<config, minted>>
    <3>1. CASE Commit(t)
      BY <3>1 DEF Commit, Forget
    <3>2. CASE RollBack(t)
      BY <3>2 DEF RollBack, Forget
    <3> QED
      BY <3>1, <3>2
  <2> QED
    BY <2>1 DEF Types
<1>2. /\ log' \in [Tasks -> Seq(Write)]
      /\ \A q \in Tasks \ {t} : log'[q] = log[q]
      /\ DOMAIN log'[t] = DOMAIN log[t]
      /\ \A i \in DOMAIN log[t] :
           /\ log'[t][i].kind = log[t][i].kind /\ log'[t][i].row = log[t][i].row
           /\ log'[t][i].status =
                IF log[t][i].status = "open" THEN status ELSE log[t][i].status
  <2>1. CASE Commit(t)
    BY <2>1, SettleFacts DEF Commit
  <2>2. CASE ~Commit(t)
    BY <2>2, SettleFacts DEF RollBack
  <2> QED
    BY <2>1, <2>2
<1>3. UndoOK'
  BY <1>1 DEF DatabaseOK, UndoOK, Touched
<1>4. ASSUME NEW q \in Tasks, NEW i \in DOMAIN log'[q], Consumption(q, i)'
      PROVE  /\ i \in DOMAIN log[q] /\ Consumption(q, i) /\ log'[q][i].row = log[q][i].row
             /\ log[q][i].status = "open" /\ q # t => log'[q][i].status = "open"
             /\ q = t /\ log[t][i].status = "open" => Commit(t) \/ ~config.rollsBack
  BY <1>2, <1>4 DEF Consumption
<1>5. ASSUME NEW k, k \in rows'
      PROVE  \/ k \in rows
             \/ config.rollsBack /\ ~Commit(t) /\ undo[t][k] = "present" /\ k \in Rows
  <2>1. CASE Commit(t)
    <3>1. rows' = rows
      BY <2>1 DEF Commit
    <3> QED
      BY <1>5, <3>1, Zenon
  <2>2. CASE ~Commit(t)
    <3>1. rows' = {j \in Rows : IF Touched(t, j) THEN undo[t][j] = "present" ELSE j \in rows}
      BY <2>2 DEF RollBack
    <3>2. /\ k \in Rows /\ (Touched(t, k) => undo[t][k] = "present")
          /\ ~Touched(t, k) => k \in rows
      BY <1>5, <3>1
    <3>3. Touched(t, k) => config.rollsBack
      BY <3>2 DEF DatabaseOK, UndoOK
    <3> QED
      BY <2>2, <3>2, <3>3, Zenon
  <2> QED
    BY <2>1, <2>2
<1>6. rows' \subseteq minted
  BY <1>5, Zenon DEF Types, DatabaseOK, UndoOK
<1>7. ConsumedGone'
  <2> SUFFICES ASSUME config.atomicConsume, NEW q \in Tasks, NEW i \in DOMAIN log'[q],
                      Consumption(q, i)'
               PROVE  /\ log'[q][i].row \in minted' \ rows'
                      /\ \A p \in Tasks : undo'[p][log'[q][i].row] = "present" =>
                           p = q /\ log'[q][i].status = "open"
    BY <1>1, Zenon DEF ConsumedGone
  <2> DEFINE k == log[q][i].row
  <2>1. /\ log'[q][i].row = k /\ Consumption(q, i) /\ i \in DOMAIN log[q]
        /\ k \in minted /\ k \notin rows /\ k \in Rows
        /\ \A p \in Tasks : undo[p][k] = "present" => p = q /\ log[q][i].status = "open"
    BY <1>4, ZenonT(30) DEF DatabaseOK, ConsumedGone, Types
  <2>2. k \notin rows'
    BY <1>4, <1>5, <2>1
  <2>3. ASSUME NEW p \in Tasks, undo'[p][k] = "present"
        PROVE  p = q /\ log'[q][i].status = "open"
    <3>1. p # t
      BY <1>1, <2>1, <2>3
    <3> QED
      BY <1>1, <1>4, <2>1, <2>3, <3>1
  <2> QED
    BY <1>1, <2>1, <2>2, <2>3
<1>8. ConsumedOnce'
  <2> SUFFICES ASSUME config.atomicConsume, NEW p \in Tasks, NEW q \in Tasks,
                      NEW i \in DOMAIN log'[p], NEW j \in DOMAIN log'[q],
                      log'[p][i].kind = "consume_one", log'[q][j].kind = "consume_one",
                      log'[p][i].row = log'[q][j].row,
                      log'[p][i].status # "undone", log'[q][j].status # "undone"
               PROVE  p = q /\ i = j
    BY <1>1 DEF ConsumedOnce
  <2>1. Consumption(p, i)' /\ Consumption(q, j)'
    BY DEF Consumption
  <2>2. /\ Consumption(p, i) /\ Consumption(q, j)
        /\ log[p][i].row = log[q][j].row
    BY <1>4, <2>1
  <2> QED
    BY <2>2 DEF Consumption, DatabaseOK, ConsumedOnce
<1> QED
  BY <1>1, <1>2, <1>3, <1>6, <1>7, <1>8

\* Where nothing is written the tables are as they were.
LEMMA NothingStored ==
  ASSUME Types, DatabaseOK, NEW t \in Tasks, UNCHANGED <<config, rows, minted, undo, log>>,
         \A q \in Tasks : depth[q] > 0 => depth'[q] > 0
  PROVE  UndoOK' /\ ConsumedGone' /\ ConsumedOnce'
<1>1. config' = config /\ rows' = rows /\ minted' = minted /\ undo' = undo /\ log' = log
  OBVIOUS
<1>2. UndoOK'
  BY <1>1 DEF DatabaseOK, UndoOK, Touched
<1>3. ConsumedGone'
  BY <1>1 DEF DatabaseOK, ConsumedGone, Consumption
<1>4. ConsumedOnce'
  BY <1>1 DEF DatabaseOK, ConsumedOnce
<1> QED
  BY <1>2, <1>3, <1>4

-----------------------------------------------------------------------------
(* The invariant                                                            *)

\* The initial states satisfy the invariant.
THEOREM InitIInv == Init => IInv
<1> SUFFICES ASSUME Init
             PROVE  IInv
  OBVIOUS
<1>1. \A S : <<>> \in Seq(S)
  OBVIOUS
<1>2. NoCall \in [kind : Kinds, rows : SUBSET Rows, seen : SUBSET Rows]
  BY DEF NoCall, Kinds
<1>3. Types
  BY ConstantsAssumption, <1>1, <1>2 DEF Init, Types
<1>4. HooksOK
  BY SMT DEF Init, HooksOK, TaskOK, HeldBack, Stand, NothingOpen, NothingLost, InOrder,
             Increasing, Ahead
<1>5. DatabaseOK
  BY SMT DEF Init, DatabaseOK, UndoOK, Touched, ConsumesOK, NoCall, ConsumedGone,
             Consumption, ConsumedOnce
<1> QED
  BY <1>3, <1>4, <1>5 DEF IInv

\* A step that writes nothing and runs no hook keeps the invariant.
LEMMA QuietIInv ==
  ASSUME IInv, NEW t \in Tasks, pc[t] \notin {"after", "drain"},
         NEW to \in {"body", "read", "before", "write", "remove"},
         to = "remove" => ~config.atomicConsume,
         NEW c \in [kind : Kinds, rows : SUBSET Rows, seen : SUBSET Rows],
         c.kind = "consume_one" => \E k \in Rows : c.rows = {k},
         GotoWith(t, to, c),
         depth' = depth \/ (depth[t] > 1 /\ depth' = [depth EXCEPT ![t] = @ - 1]),
         UNCHANGED <<config, rows, minted, undo, queue, todo, log, ran, raised>>
  PROVE  IInv'
<1> USE DEF IInv
<1>1. /\ pc' \in [Tasks -> {"body", "read", "before", "write", "remove", "after", "drain"}]
      /\ call' \in [Tasks -> [kind : Kinds, rows : SUBSET Rows, seen : SUBSET Rows]]
      /\ ConsumesOK'
  BY GotoFacts DEF DatabaseOK
<1>2. depth' \in [Tasks -> 0 .. MaxDepth] /\ \A q \in Tasks : depth[q] > 0 => depth'[q] > 0
  <2>1. depth \in [Tasks -> 0 .. MaxDepth] /\ MaxDepth \in Nat
    BY ConstantsAssumption DEF Types
  <2>2. CASE depth' = depth
    BY <2>1, <2>2
  <2>3. CASE depth[t] > 1 /\ depth' = [depth EXCEPT ![t] = @ - 1]
    BY <2>1, <2>3, SMT
  <2> QED
    BY <2>2, <2>3
<1>3. HooksOK'
  <2>1. pc' = [pc EXCEPT ![t] = to]
    BY DEF GotoWith
  <2> QED
    BY <2>1, QuietStep
<1>4. Types'
  BY <1>1, <1>2 DEF Types
<1>5. UndoOK' /\ ConsumedGone' /\ ConsumedOnce'
  BY <1>2, NothingStored
<1> QED
  BY <1>1, <1>3, <1>4, <1>5 DEF DatabaseOK

\* A write that is logged and announced keeps the invariant, if it does not
\* consume what was consumed before nor brings it back.
LEMMA AnnouncedWrite ==
  ASSUME IInv, NEW t \in Tasks, pc[t] \in {"write", "remove"},
         NEW R \in SUBSET Rows, NEW order \in Orders(R), Logged(t, order),
         Announce(t, order), NEW S \in SUBSET Rows, NEW after, Store(t, S, after),
         after \subseteq minted', minted \subseteq minted', minted' \subseteq Rows,
         UNCHANGED <<config, depth, ran, raised>>, ConsumedGone', ConsumedOnce'
  PROVE  IInv'
<1> USE DEF IInv
<1>1. queue' \in [Tasks -> Seq(Nat)] /\ todo' \in [Tasks -> Seq(Nat)] /\ HooksOK'
  BY AnnounceStep
<1>2. log' \in [Tasks -> Seq(Write)]
  BY LogFacts
<1>3. /\ undo' \in [Tasks -> [Rows -> {"untouched", "absent", "present"}]]
      /\ UndoOK'
  BY StoreFacts DEF DatabaseOK
<1>4. /\ call[t] \in [kind : Kinds, rows : SUBSET Rows, seen : SUBSET Rows]
      /\ call[t].kind = "consume_one" => \E k \in Rows : call[t].rows = {k}
  BY DEF Types, DatabaseOK, ConsumesOK
<1>5. /\ pc' \in [Tasks -> {"body", "read", "before", "write", "remove", "after", "drain"}]
      /\ call' \in [Tasks -> [kind : Kinds, rows : SUBSET Rows, seen : SUBSET Rows]]
      /\ ConsumesOK'
  <2>1. PICK to \in {"body", "after"} : GotoWith(t, to, call[t])
    BY DEF Announce, Goto
  <2> QED
    BY <1>4, <2>1, GotoFacts DEF DatabaseOK
<1>6. rows' = after
  BY DEF Store
<1>7. Types'
  BY <1>1, <1>2, <1>3, <1>5, <1>6 DEF Types
<1> QED
  BY <1>1, <1>3, <1>5, <1>7 DEF DatabaseOK

\* The helpers of WithHooks keep the invariant.
LEMMA HelperStep ==
  ASSUME IInv, NEW t \in Tasks, Helper(t) \/ Calls(t)
  PROVE  IInv'
<1> USE DEF At
<1> DEFINE S == Visible(t) \cap call[t].rows
<1>1. /\ call[t] \in [kind : Kinds, rows : SUBSET Rows, seen : SUBSET Rows]
      /\ call[t].rows \in SUBSET Rows /\ call[t].seen \in SUBSET Rows
      /\ S \in SUBSET Rows /\ rows \subseteq minted /\ minted \subseteq Rows
      /\ call[t].kind = "consume_one" => \E k \in Rows : call[t].rows = {k}
      /\ Types /\ HooksOK /\ DatabaseOK
  BY DEF IInv, Types, DatabaseOK, ConsumesOK
<1> HIDE DEF S
<1>2. ASSUME NEW kind \in Kinds, NEW K \in SUBSET Rows,
             kind = "consume_one" => \E k \in Rows : K = {k}, Call(t, kind, K)
      PROVE  IInv'
  <2> DEFINE c == [kind |-> kind, rows |-> K, seen |-> {}]
             to == IF kind \in Removals THEN "read" ELSE "before"
  <2>1. /\ c \in [kind : Kinds, rows : SUBSET Rows, seen : SUBSET Rows]
        /\ c.kind = "consume_one" => \E k \in Rows : c.rows = {k}
        /\ GotoWith(t, to, c) /\ to \in {"body", "read", "before", "write", "remove"}
        /\ pc[t] \notin {"after", "drain"} /\ to # "remove" /\ depth' = depth
        /\ UNCHANGED <<config, rows, minted, undo, queue, todo, log, ran, raised>>
    BY <1>2 DEF Call
  <2> HIDE DEF c, to
  <2> QED
    BY <2>1, QuietIInv, Zenon
<1>3. CASE PreRead(t)
  <2>1. PICK found \in {Visible(t) \cap call[t].rows, {}} :
          GotoWith(t, IF found = {} THEN "write" ELSE "before",
                   [call[t] EXCEPT !.seen = found])
    BY <1>3 DEF PreRead
  <2> DEFINE c == [call[t] EXCEPT !.seen = found]
             to == IF found = {} THEN "write" ELSE "before"
  <2>2. found \in SUBSET Rows
    BY <1>1 DEF S
  <2>3. /\ c \in [kind : Kinds, rows : SUBSET Rows, seen : SUBSET Rows]
        /\ c.kind = call[t].kind /\ c.rows = call[t].rows
    BY <1>1, <2>2
  <2>4. /\ GotoWith(t, to, c) /\ to \in {"body", "read", "before", "write", "remove"}
        /\ pc[t] \notin {"after", "drain"} /\ to # "remove" /\ depth' = depth
        /\ UNCHANGED <<config, rows, minted, undo, queue, todo, log, ran, raised>>
    BY <1>3, <2>1 DEF PreRead
  <2>5. c.kind = "consume_one" => \E k \in Rows : c.rows = {k}
    BY <1>1, <2>3
  <2> HIDE DEF c, to
  <2> QED
    BY <2>3, <2>4, <2>5, QuietIInv, Zenon
<1>4. CASE Before(t)
  <2>1. PICK to \in {"write", "body"} : GotoWith(t, to, call[t])
    BY <1>4 DEF Before, Goto
  <2>2. /\ pc[t] \notin {"after", "drain"} /\ depth' = depth
        /\ UNCHANGED <<config, rows, minted, undo, queue, todo, log, ran, raised>>
    BY <1>4 DEF Before
  <2> QED
    BY <1>1, <2>1, <2>2, QuietIInv
<1>5. CASE Create(t)
  <2> DEFINE R == call[t].rows \ minted
  <2>1. PICK order \in Orders(R) : Logged(t, order) /\ Announce(t, order)
    BY <1>5 DEF Create
  <2>2. /\ R \in SUBSET Rows /\ Store(t, R, rows \cup R) /\ minted' = minted \cup R
        /\ rows \cup R \subseteq minted' /\ (rows \cup R) \cap minted \subseteq rows
        /\ minted \subseteq minted' /\ minted' \subseteq Rows
        /\ call[t].kind # "consume_one" /\ pc[t] \in {"write", "remove"}
        /\ UNCHANGED <<config, depth, ran, raised>>
    BY <1>1, <1>5 DEF Create
  <2> HIDE DEF R
  <2>3. ConsumedGone' /\ ConsumedOnce'
    BY <1>1, <2>1, <2>2, PlainWrite
  <2> QED
    BY <2>1, <2>2, <2>3, AnnouncedWrite
<1>6. CASE Update(t)
  <2>1. /\ Store(t, S, rows) /\ pc[t] \in {"write", "remove"}
        /\ call[t].kind # "consume_one"
        /\ minted \subseteq minted' /\ minted' \subseteq Rows /\ rows \subseteq minted'
        /\ UNCHANGED <<config, depth, ran, raised>>
    BY <1>1, <1>6 DEF Update, S
  <2>2. CASE S = {} /\ Silent(t) /\ UNCHANGED log
    <3>1. GotoWith(t, "body", call[t]) /\ UNCHANGED <<queue, todo>>
      BY <2>2 DEF Silent, Goto
    <3>2. undo' = undo /\ rows' = rows /\ minted' = minted
      BY <1>1, <1>6, <2>2, SMT DEF Update, Store, S, Types
    <3> QED
      BY <1>1, <2>1, <2>2, <3>1, <3>2, QuietIInv
  <2>3. CASE \E order \in Orders(S) : Logged(t, order) /\ Announce(t, order)
    <3>1. PICK order \in Orders(S) : Logged(t, order) /\ Announce(t, order)
      BY <2>3
    <3>2. ConsumedGone' /\ ConsumedOnce'
      BY <1>1, <2>1, <3>1, PlainWrite
    <3> QED
      BY <1>1, <2>1, <3>1, <3>2, AnnouncedWrite
  <2> QED
    BY <1>6, <2>2, <2>3 DEF Update, S
<1>7. CASE UpdateMany(t)
  <2>1. PICK order \in Orders(S) : Logged(t, order)
    BY <1>7 DEF UpdateMany, S
  <2>2. /\ Store(t, S, rows) /\ pc[t] = "write" /\ call[t].kind = "update_many"
        /\ Silent(t) /\ GotoWith(t, "body", call[t]) /\ UNCHANGED <<queue, todo>>
        /\ minted \subseteq minted' /\ minted' = minted /\ rows' = rows
        /\ UNCHANGED <<config, depth, ran, raised>>
    BY <1>7 DEF UpdateMany, S, Silent, Goto, Store
  <2>3. ConsumedGone' /\ ConsumedOnce'
    BY <1>1, <2>1, <2>2, PlainWrite
  <2>4. HooksOK'
    BY <1>1, <2>1, <2>2, SilentStep
  <2>5. /\ pc' \in [Tasks -> {"body", "read", "before", "write", "remove", "after", "drain"}]
        /\ call' \in [Tasks -> [kind : Kinds, rows : SUBSET Rows, seen : SUBSET Rows]]
        /\ ConsumesOK'
    BY <1>1, <2>2, GotoFacts DEF DatabaseOK
  <2>6. /\ undo' \in [Tasks -> [Rows -> {"untouched", "absent", "present"}]]
        /\ UndoOK'
    BY <1>1, <2>2, StoreFacts DEF DatabaseOK
  <2>7. log' \in [Tasks -> Seq(Write)]
    BY <1>1, <2>1, LogFacts
  <2>8. Types'
    BY <1>1, <2>2, <2>5, <2>6, <2>7 DEF Types
  <2> QED
    BY <2>3, <2>4, <2>5, <2>6, <2>8 DEF IInv, DatabaseOK
<1>8. CASE Delete(t)
  <2>1. PICK order \in Orders(call[t].seen) : Logged(t, order) /\ Announce(t, order)
    BY <1>8 DEF Delete
  <2>2. /\ Store(t, S, rows \ S) /\ pc[t] \in {"write", "remove"}
        /\ call[t].kind # "consume_one" /\ (rows \ S) \cap minted \subseteq rows
        /\ minted \subseteq minted' /\ minted' \subseteq Rows /\ rows \ S \subseteq minted'
        /\ UNCHANGED <<config, depth, ran, raised>>
    BY <1>1, <1>8 DEF Delete, S
  <2>3. ConsumedGone' /\ ConsumedOnce'
    BY <1>1, <2>1, <2>2, PlainWrite
  <2> QED
    BY <1>1, <2>1, <2>2, <2>3, AnnouncedWrite
<1>9. CASE ConsumeOne(t)
  <2>1. PICK order \in Orders(S) : Logged(t, order) /\ Announce(t, order)
    BY <1>9 DEF ConsumeOne, S
  <2>2. /\ Store(t, S, rows \ S) /\ pc[t] \in {"write", "remove"}
        /\ minted \subseteq minted' /\ minted' \subseteq Rows /\ rows \ S \subseteq minted'
        /\ UNCHANGED <<config, depth, ran, raised>>
    BY <1>1, <1>9 DEF ConsumeOne, S
  <2>3. ConsumedGone' /\ ConsumedOnce'
    BY <1>1, <1>9, ConsumingWrite
  <2> QED
    BY <1>1, <2>1, <2>2, <2>3, AnnouncedWrite
<1>10. CASE ConsumeSelect(t)
  <2> DEFINE c == [call[t] EXCEPT !.seen = S]
             to == IF S = {} THEN "body" ELSE "remove"
  <2>1. /\ c \in [kind : Kinds, rows : SUBSET Rows, seen : SUBSET Rows]
        /\ c.kind = call[t].kind /\ c.rows = call[t].rows
    BY <1>1
  <2>2. /\ GotoWith(t, to, c) /\ to \in {"body", "read", "before", "write", "remove"}
        /\ pc[t] \notin {"after", "drain"} /\ ~config.atomicConsume /\ depth' = depth
        /\ UNCHANGED <<config, rows, minted, undo, queue, todo, log, ran, raised>>
    BY <1>10 DEF ConsumeSelect, S
  <2>3. c.kind = "consume_one" => \E k \in Rows : c.rows = {k}
    BY <1>1, <2>1
  <2> HIDE DEF c, to
  <2> QED
    BY <2>1, <2>2, <2>3, QuietIInv, Zenon
<1>11. CASE ConsumeRemove(t)
  <2> DEFINE R == call[t].seen
  <2>1. PICK order \in Orders(R) : Logged(t, order) /\ Announce(t, order)
    BY <1>11 DEF ConsumeRemove
  <2>2. /\ R \in SUBSET Rows /\ Store(t, R, rows \ R) /\ pc[t] = "remove"
        /\ minted \subseteq minted' /\ minted' \subseteq Rows /\ rows \ R \subseteq minted'
        /\ UNCHANGED <<config, depth, ran, raised>>
    BY <1>1, <1>11 DEF ConsumeRemove
  <2> HIDE DEF R
  <2>3. ConsumedGone' /\ ConsumedOnce'
    <3>1. ~config.atomicConsume /\ config' = config
      BY <1>1, <2>2 DEF DatabaseOK, ConsumesOK
    <3> QED
      BY <3>1, Zenon DEF ConsumedGone, ConsumedOnce
  <2> QED
    BY <1>1, <2>1, <2>2, <2>3, AnnouncedWrite
<1>12. CASE RunInline(t)
  <2>1. /\ UNCHANGED <<config, rows, minted, undo, depth, queue, log, raised>>
        /\ UNCHANGED <<pc, call>> \/ GotoWith(t, "body", call[t])
    BY <1>12 DEF RunInline, Goto
  <2>2. todo' \in [Tasks -> Seq(Nat)] /\ ran' \in [Tasks -> Seq(Nat)] /\ HooksOK'
    BY <1>1, <1>12, InlineStep
  <2>3. /\ pc' \in [Tasks -> {"body", "read", "before", "write", "remove", "after", "drain"}]
        /\ call' \in [Tasks -> [kind : Kinds, rows : SUBSET Rows, seen : SUBSET Rows]]
        /\ ConsumesOK'
    <3>1. CASE UNCHANGED <<pc, call>>
      BY <1>1, <2>1, <3>1 DEF Types, DatabaseOK, ConsumesOK
    <3>2. CASE GotoWith(t, "body", call[t])
      BY <1>1, <2>1, <3>2, GotoFacts DEF DatabaseOK
    <3> QED
      BY <2>1, <3>1, <3>2
  <2>4. UndoOK' /\ ConsumedGone' /\ ConsumedOnce'
    BY <1>1, <2>1, NothingStored
  <2>5. Types'
    BY <1>1, <2>1, <2>2, <2>3 DEF Types
  <2> QED
    BY <2>2, <2>3, <2>4, <2>5 DEF IInv, DatabaseOK
<1>13. CASE Calls(t)
  <2>1. CASE \E k \in Rows : \E kind \in {"create", "update", "delete", "consume_one"} :
               Call(t, kind, {k})
    <3>1. PICK k \in Rows, kind \in {"create", "update", "delete", "consume_one"} :
            Call(t, kind, {k})
      BY <2>1
    <3>2. kind \in Kinds /\ {k} \in SUBSET Rows /\ \E j \in Rows : {k} = {j}
      BY DEF Kinds
    <3> QED
      BY <1>2, <3>1, <3>2
  <2>2. CASE \E kind \in {"update_many", "delete_many"} : Call(t, kind, Rows)
    <3>1. PICK kind \in {"update_many", "delete_many"} : Call(t, kind, Rows)
      BY <2>2
    <3>2. kind \in Kinds /\ Rows \in SUBSET Rows /\ kind # "consume_one"
      BY DEF Kinds
    <3> QED
      BY <1>2, <3>1, <3>2
  <2> QED
    BY <1>13, <2>1, <2>2 DEF Calls
<1> QED
  BY <1>3, <1>4, <1>5, <1>6, <1>7, <1>8, <1>9, <1>10, <1>11, <1>12, <1>13 DEF Helper

\* The transaction boundary keeps the invariant.
LEMMA BoundaryStep ==
  ASSUME IInv, NEW t \in Tasks, Boundary(t)
  PROVE  IInv'
<1> USE DEF At
<1>1. /\ call[t] \in [kind : Kinds, rows : SUBSET Rows, seen : SUBSET Rows]
      /\ call[t].kind = "consume_one" => \E k \in Rows : call[t].rows = {k}
      /\ Types /\ HooksOK /\ DatabaseOK
  BY DEF IInv, Types, DatabaseOK, ConsumesOK
\* What is left to show of a step that moves on with its call or stays.
<1>2. ASSUME Types', HooksOK', UndoOK', ConsumedGone', ConsumedOnce', config' = config,
             UNCHANGED <<pc, call>> \/ \E to \in {"body", "drain"} : GotoWith(t, to, call[t])
      PROVE  IInv'
  <2>1. CASE UNCHANGED <<pc, call>>
    BY <1>1, <1>2, <2>1 DEF IInv, DatabaseOK, ConsumesOK
  <2>2. CASE \E to \in {"body", "drain"} : GotoWith(t, to, call[t])
    <3>1. ConsumesOK'
      BY <1>1, <1>2, <2>2, GotoFacts DEF DatabaseOK
    <3> QED
      BY <1>2, <3>1 DEF IInv, DatabaseOK
  <2> QED
    BY <1>2, <2>1, <2>2
<1>3. ASSUME NEW to \in {"body", "drain"}, GotoWith(t, to, call[t])
      PROVE  /\ pc' \in [Tasks -> {"body", "read", "before", "write", "remove", "after", "drain"}]
             /\ call' \in [Tasks -> [kind : Kinds, rows : SUBSET Rows, seen : SUBSET Rows]]
  BY <1>1, <1>3 DEF GotoWith, NoCall, Kinds, Types
<1>4. CASE Enter(t)
  <2>1. /\ UNCHANGED <<config, rows, minted, undo, todo, pc, call, log, ran, raised>>
        /\ depth[t] < MaxDepth /\ depth' = [depth EXCEPT ![t] = @ + 1]
    BY <1>4 DEF Enter
  <2>2. depth' \in [Tasks -> 0 .. MaxDepth] /\ \A q \in Tasks : depth[q] > 0 => depth'[q] > 0
    BY <1>1, <2>1, ConstantsAssumption, SMT DEF Types
  <2>3. HooksOK' /\ queue' \in [Tasks -> Seq(Nat)]
    BY <1>1, <1>4, EnterStep
  <2>4. UndoOK' /\ ConsumedGone' /\ ConsumedOnce'
    BY <1>1, <2>1, <2>2, NothingStored
  <2>5. Types'
    BY <1>1, <2>1, <2>2, <2>3 DEF Types
  <2> QED
    BY <1>2, <2>1, <2>3, <2>4, <2>5
<1>5. CASE LeaveNested(t)
  <2>1. /\ UNCHANGED <<config, rows, minted, undo, queue, todo, pc, call, log, ran, raised>>
        /\ depth[t] > 1 /\ depth' = [depth EXCEPT ![t] = @ - 1] /\ pc[t] = "body"
        /\ pc' = [pc EXCEPT ![t] = "body"]
    BY <1>1, <1>5 DEF LeaveNested, Types
  <2>2. depth' \in [Tasks -> 0 .. MaxDepth] /\ \A q \in Tasks : depth[q] > 0 => depth'[q] > 0
    BY <1>1, <2>1, ConstantsAssumption, SMT DEF Types
  <2>3. HooksOK'
    BY <1>1, <2>1, QuietStep
  <2>4. UndoOK' /\ ConsumedGone' /\ ConsumedOnce'
    BY <1>1, <2>1, <2>2, NothingStored
  <2>5. Types'
    BY <1>1, <2>1, <2>2 DEF Types
  <2> QED
    BY <1>2, <2>1, <2>3, <2>4, <2>5
<1>6. CASE Commit(t)
  <2>1. /\ UNCHANGED <<config, rows, minted, queue, todo, ran, raised>>
        /\ depth' = [depth EXCEPT ![t] = 0] /\ GotoWith(t, "drain", call[t])
    BY <1>6 DEF Commit, Goto
  <2>2. HooksOK'
    BY <1>1, <1>6, CommitStep
  <2>3. /\ undo' \in [Tasks -> [Rows -> {"untouched", "absent", "present"}]]
        /\ log' \in [Tasks -> Seq(Write)]
        /\ UndoOK' /\ ConsumedGone' /\ ConsumedOnce'
    BY <1>1, <1>6, SettledTables
  <2>4. depth' \in [Tasks -> 0 .. MaxDepth]
    BY <1>1, <2>1, ConstantsAssumption, SMT DEF Types
  <2>5. Types'
    BY <1>1, <1>3, <2>1, <2>3, <2>4 DEF Types
  <2> QED
    BY <1>2, <2>1, <2>2, <2>3, <2>5
<1>7. CASE Drain(t)
  <2>1. /\ UNCHANGED <<config, rows, minted, undo, depth, todo, log, raised>>
        /\ UNCHANGED <<pc, call>> \/ GotoWith(t, "body", call[t])
    BY <1>7 DEF Drain, Goto
  <2>2. queue' \in [Tasks -> Seq(Nat)] /\ ran' \in [Tasks -> Seq(Nat)] /\ HooksOK'
    BY <1>1, <1>7, DrainStep
  <2>3. UndoOK' /\ ConsumedGone' /\ ConsumedOnce'
    BY <1>1, <2>1, NothingStored
  <2>4. Types'
    BY <1>1, <1>3, <2>1, <2>2 DEF Types
  <2> QED
    BY <1>2, <2>1, <2>2, <2>3, <2>4
<1>8. CASE RollBack(t)
  <2>1. /\ UNCHANGED <<config, minted, todo, ran, raised>>
        /\ depth' = [depth EXCEPT ![t] = 0] /\ GotoWith(t, "body", call[t])
    BY <1>8 DEF RollBack, Goto
  <2>2. HooksOK' /\ queue' \in [Tasks -> Seq(Nat)]
    BY <1>1, <1>8, RollBackStep
  <2>3. /\ undo' \in [Tasks -> [Rows -> {"untouched", "absent", "present"}]]
        /\ log' \in [Tasks -> Seq(Write)] /\ rows' \subseteq minted
        /\ UndoOK' /\ ConsumedGone' /\ ConsumedOnce'
    BY <1>1, <1>8, SettledTables
  <2>4. depth' \in [Tasks -> 0 .. MaxDepth]
    BY <1>1, <2>1, ConstantsAssumption, SMT DEF Types
  <2>5. Types'
    BY <1>1, <1>3, <2>1, <2>2, <2>3, <2>4 DEF Types
  <2> QED
    BY <1>2, <2>1, <2>2, <2>3, <2>5
<1>9. CASE CatchNested(t)
  <2>1. /\ GotoWith(t, "body", call[t]) /\ pc[t] \notin {"after", "drain"}
        /\ depth[t] > 1 /\ depth' = [depth EXCEPT ![t] = @ - 1]
        /\ UNCHANGED <<config, rows, minted, undo, queue, todo, log, ran, raised>>
    BY <1>9 DEF CatchNested, Goto
  <2> QED
    BY <1>1, <2>1, QuietIInv
<1>10. CASE CallFails(t)
  <2>1. /\ GotoWith(t, "body", call[t]) /\ pc[t] \notin {"after", "drain"} /\ depth' = depth
        /\ UNCHANGED <<config, rows, minted, undo, queue, todo, log, ran, raised>>
    BY <1>10 DEF CallFails, Goto
  <2> QED
    BY <1>1, <2>1, QuietIInv
<1>11. CASE AfterHookRaises(t)
  <2>1. /\ GotoWith(t, "body", call[t]) /\ raised' = [raised EXCEPT ![t] = TRUE]
        /\ UNCHANGED <<config, rows, minted, undo, depth, log, ran>>
    BY <1>11 DEF AfterHookRaises, Goto
  <2>2. HooksOK' /\ queue' \in [Tasks -> Seq(Nat)] /\ todo' \in [Tasks -> Seq(Nat)]
    BY <1>1, <1>11, RaiseStep
  <2>3. UndoOK' /\ ConsumedGone' /\ ConsumedOnce'
    BY <1>1, <2>1, NothingStored
  <2>4. raised' \in [Tasks -> BOOLEAN]
    BY <1>1, <2>1, Zenon DEF Types
  <2>5. Types'
    BY <1>1, <1>3, <2>1, <2>2, <2>4 DEF Types
  <2> QED
    BY <1>2, <2>1, <2>2, <2>3, <2>5
<1> QED
  BY <1>4, <1>5, <1>6, <1>7, <1>8, <1>9, <1>10, <1>11 DEF Boundary

\* Every step keeps the invariant.
THEOREM NextIInv == IInv /\ [Next]_vars => IInv'
<1> SUFFICES ASSUME IInv, [Next]_vars
             PROVE  IInv'
  OBVIOUS
<1>1. CASE Next
  <2>1. PICK t \in Tasks : Helper(t) \/ Boundary(t) \/ Calls(t)
    BY <1>1 DEF Next
  <2> QED
    BY <2>1, HelperStep, BoundaryStep
<1>2. CASE UNCHANGED vars
  <2>1. /\ config' = config /\ rows' = rows /\ minted' = minted /\ undo' = undo
        /\ depth' = depth /\ queue' = queue /\ todo' = todo /\ pc' = pc
        /\ call' = call /\ log' = log /\ ran' = ran /\ raised' = raised
    BY <1>2 DEF vars
  <2>2. DatabaseOK'
    BY <2>1 DEF IInv, DatabaseOK, UndoOK, Touched, ConsumedGone, Consumption,
                ConsumedOnce, ConsumesOK
  <2>3. HooksOK'
    BY <2>1 DEF IInv, HooksOK, TaskOK, HeldBack, Stand, NothingOpen, NothingLost, Entries,
                InOrder, Increasing, Ahead
  <2>4. Types'
    BY <2>1 DEF IInv, Types
  <2> QED
    BY <2>2, <2>3, <2>4 DEF IInv
<1> QED
  BY <1>1, <1>2

\* The invariant holds in every reachable state.
THEOREM Invariance == Spec => []IInv
  BY InitIInv, NextIInv, PTL DEF Spec

-----------------------------------------------------------------------------
(* What follows from it                                                     *)

\* The state keeps its types: a hook that waits or ran is for a logged write.
THEOREM TypeCorrect == Spec => []TypeOK
<1>1. IInv => TypeOK
  <2> SUFFICES ASSUME IInv
               PROVE  TypeOK
    OBVIOUS
  <2>1. ASSUME NEW t \in Tasks, NEW s \in Seq(Nat), NEW status, Stand(s, t, status)
        PROVE  s \in Seq(1 .. Len(log[t]))
    <3>1. log[t] \in Seq(Write)
      BY DEF IInv, Types
    <3>2. DOMAIN log[t] = 1 .. Len(log[t])
      BY <3>1, LenProperties
    <3>3. \A j \in DOMAIN s : s[j] \in 1 .. Len(log[t])
      BY <2>1, <3>2 DEF Stand
    <3>4. DOMAIN s = 1 .. Len(s) /\ Len(s) \in Nat
      BY LenProperties
    <3> QED
      BY <3>3, <3>4, SMT
  <2>2. ASSUME NEW t \in Tasks
        PROVE  /\ log[t] \in Seq(Write)
               /\ queue[t] \in Seq(1 .. Len(log[t])) /\ todo[t] \in Seq(1 .. Len(log[t]))
               /\ ran[t] \in Seq(1 .. Len(log[t]))
    <3>1. /\ queue[t] \in Seq(Nat) /\ todo[t] \in Seq(Nat) /\ ran[t] \in Seq(Nat)
          /\ log[t] \in Seq(Write)
      BY DEF IInv, Types
    <3>2. HeldBack(t)
      BY DEF IInv, HooksOK, TaskOK
    <3> QED
      BY <2>1, <3>1, <3>2 DEF HeldBack
  <2> QED
    BY <2>2 DEF IInv, Types, TypeOK
<1> QED
  BY <1>1, Invariance, PTL

\* Whatever tasks do and however their transactions nest and fail, an
\* after-hook runs for a write that is committed and for no other, for all of
\* them unless a hook raised, once, in the order of the writes; and where
\* consume_one is atomic a row is consumed, and announced as consumed, once.
THEOREM CommitsAnnouncedOnce == Spec => []CommitsAreAnnouncedOnce
<1>1. IInv => CommitsAreAnnouncedOnce
  <2> SUFFICES ASSUME IInv
               PROVE  CommitsAreAnnouncedOnce
    OBVIOUS
  <2>1. \A t \in Tasks : HeldBack(t) /\ NothingLost(t) /\ InOrder(t)
    BY DEF IInv, HooksOK, TaskOK
  <2>2. HooksFollowCommit
    BY <2>1 DEF HooksFollowCommit, HeldBack, Stand
  <2>3. CommittedWritesAreAnnounced
    <3> SUFFICES ASSUME NEW t \in Tasks, Settled(t), NEW i \in DOMAIN log[t],
                        log[t][i].status = "committed", log[t][i].kind # "update_many"
                 PROVE  i \in Announced(t)
      BY DEF CommittedWritesAreAnnounced
    <3>1. queue[t] = <<>> /\ todo[t] = <<>> /\ ~raised[t]
      BY <2>1 DEF Settled, At, HeldBack
    <3>2. i \in Entries(ran[t]) \cup Entries(queue[t]) \cup Entries(todo[t])
      BY <2>1, <3>1 DEF NothingLost
    <3> QED
      BY <3>1, <3>2 DEF Entries, Announced
  <2>4. HooksRunInOrder
    BY <2>1 DEF HooksRunInOrder, InOrder, Increasing
  <2>5. ConsumedOnce
    BY DEF IInv, DatabaseOK
  <2> QED
    BY <2>2, <2>3, <2>4, <2>5
    DEF CommitsAreAnnouncedOnce, CommitsAreAnnounced, AnnouncedOnceInOrder
<1> QED
  BY <1>1, Invariance, PTL
=============================================================================
