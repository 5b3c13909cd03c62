------------------------------ MODULE Adapters ------------------------------
(***************************************************************************)
(* One table behind each of the three database adapters, and the layer in  *)
(* front of them that knows the schema.  Every call goes to all three, and *)
(* to the table the caller means: named fields, plain values, two truth    *)
(* values, and clauses joined from left to right.                          *)
(*                                                                         *)
(*   caller -> TransformAdapter -> memory | SQLAlchemy | Mongo             *)
(*                                                                         *)
(* Rows are named in the order they are made.  Where a database promises   *)
(* no order, any row may come first.  Each call is one step: AfterHooks    *)
(* and VerificationTokens look at calls that interleave and at             *)
(* transactions.  Joins and `select`, which no package uses, are left out. *)
(***************************************************************************)
EXTENDS Naturals, FiniteSets, SequencesExt

CONSTANTS
  MaxRows,   \* bound on the rows ever made
  MaxTime,   \* bound on the time
  Texts,     \* strings
  Number,    \* [digits -> the number they write], for some strings
  Sealed,    \* [Texts -> Texts], what a field's own transform makes of a value
  Parts,     \* the <<op, string, part>> such that `op` finds the part in the string
  Core,      \* the fields of the table in the core schema, with their definitions
  Configs,   \* the configurations that are looked at
  Created,   \* the rows that are created: [fields -> values]
  Patches,   \* the changes that are made to a row known by its id
  Pending, Revoked, \* values of "state"
  None

Ids    == 1 .. MaxRows
Kinds  == {"memory", "sql", "mongo"}
Values == 0 .. MaxTime \cup Ids \cup Texts \cup {None}

\* default: None if there is none; onUpdate: refreshed by every update;
\* sealed: transformed on its way in and out; column: its name in the database
FieldDef == [type : {"string", "number"}, unique : BOOLEAN, default : Values,
             onUpdate : BOOLEAN, sealed : BOOLEAN, column : STRING]

\* renames: options.<model>.fields; plugin: schema.extend; extra: additional_fields
Config == [renames : [{"owner"} -> STRING], plugin : UNION {[F -> FieldDef] : F \in SUBSET {"seen"}},
           extra : UNION {[F -> FieldDef] : F \in SUBSET {"note"}}]

ASSUME ConstantsAssumption ==
  /\ MaxRows \in Nat /\ MaxTime \in Nat
  /\ DOMAIN Number \subseteq Texts /\ Sealed \in [Texts -> Texts] /\ IsInjective(Sealed)
  /\ Parts \subseteq {"contains", "starts_with", "ends_with", "ilike_eq"} \X Texts \X Texts
  /\ {Pending, Revoked} \subseteq Texts

VARIABLES
  table,    \* the resolved table
  now,
  made,     \* how many rows were made
  meant,    \* [Ids -> the row the callers mean, or None]
  store,    \* store[k]: the same in adapter k's database: [Ids -> row or None]
  astray,   \* the adapters that once answered otherwise than was meant
  strained  \* a call was made that the databases need not agree on: see Strains

vars == <<table, now, made, meant, store, astray, strained>>

-----------------------------------------------------------------------------
(* The schema                                                               *)

\* Core fields under their new names, and what plugins and options add; a field
\* that is there already stops the start.
Renamed(fields, renames) ==
  [f \in DOMAIN fields |-> [fields[f] EXCEPT !.column = IF f \in DOMAIN renames THEN renames[f] ELSE f]]
Mergeable(fields, more) == DOMAIN fields \cap DOMAIN more = {}

Starts(c) ==
  LET core == Renamed(Core, c.renames) IN Mergeable(core, c.plugin) /\ Mergeable(core @@ c.plugin, c.extra)

Resolved(c) == Renamed(Core, c.renames) @@ c.plugin @@ c.extra

Fields    == DOMAIN table
Column(f) == table[f].column

\* Mongo keeps the id under a name of its own.
MongoName(c) == IF c = "id" THEN "_id" ELSE c
Stored(k, c) == IF k = "mongo" THEN MongoName(c) ELSE c

\* SQL tables are built with the fields' own names.
Columns(k) == IF k = "sql" THEN Fields ELSE {Stored(k, Column(f)) : f \in Fields}
IsRenamed  == \E f \in Fields : Column(f) # f

TypeOK ==
  /\ table \in {Resolved(c) : c \in Configs}
  /\ now \in 0 .. MaxTime /\ made \in 0 .. MaxRows
  /\ \A i \in Ids : meant[i] = None \/ meant[i] \in [Fields -> Values]
  /\ \A k \in Kinds, i \in Ids : store[k][i] = None \/
       \E C \in SUBSET Columns(k) : store[k][i] \in [C -> Values]
  /\ astray \subseteq Kinds /\ strained \in BOOLEAN

-----------------------------------------------------------------------------
(* Where                                                                    *)

Clause(f, op, value) == [field |-> f, op |-> op, value |-> value, connector |-> "AND"]
Eq(f, value)         == Clause(f, "eq", value)
Or(clause)           == [clause EXCEPT !.connector = "OR"]

Cell(row, c) == IF c \in DOMAIN row THEN row[c] ELSE None

Ordered(op, a, b) ==
  /\ a \in Nat /\ b \in Nat
  /\ CASE op = "lt" -> a < b [] op = "lte" -> a <= b [] op = "gt" -> a > b [] op = "gte" -> a >= b

\* One clause in memory, and in Mongo, which finds a missing field like one that is null.
Holds(c, row) ==
  LET v == Cell(row, c.field) IN
  CASE c.op = "eq"           -> v = c.value
    [] c.op = "ne"           -> v # c.value
    [] c.op = "in"           -> v \in c.value
    [] c.op = "not_in"       -> v \notin c.value
    [] c.op \in {"lt", "lte", "gt", "gte"} -> Ordered(c.op, v, c.value)
    [] OTHER                 -> <<c.op, v, c.value>> \in Parts

\* From left to right, no connector before another.
MatchMemory(where, row) ==
  where # <<>> =>
    FoldLeft(LAMBDA acc, c : IF c.connector = "AND" THEN acc /\ Holds(c, row) ELSE acc \/ Holds(c, row),
             Holds(Head(where), row), Tail(where))

\* SQL's truth values: 0 false, 1 unknown, 2 true.
Least(a, b)    == IF a < b THEN a ELSE b
Greatest(a, b) == IF a < b THEN b ELSE a

\* Mutant: a comparison with NULL is never true.
TruthOfNull(c, row) ==
  LET v == Cell(row, c.field) IN
  IF \/ v = None \/ c.value = None
     \/ c.op \in {"in", "not_in"} /\ v \notin c.value /\ None \in c.value
  THEN 1 ELSE IF Holds(c, row) THEN 2 ELSE 0

\* `= None` and `!= None` become IS NULL and IS NOT NULL; nothing else is true of NULL.
Truth(c, row) ==
  LET v == Cell(row, c.field) IN
  IF c.value # None /\
     (v = None \/ (c.op \in {"in", "not_in"} /\ v \notin c.value /\ None \in c.value))
  THEN 1 ELSE IF Holds(c, row) THEN 2 ELSE 0

MatchSql(where, row) ==
  where # <<>> =>
    FoldLeft(LAMBDA acc, c : IF c.connector = "AND" THEN Least(acc, Truth(c, row))
                             ELSE Greatest(acc, Truth(c, row)),
             Truth(Head(where), row), Tail(where)) = 2

\* All clauses joined by AND, the first among them, and one of those joined by OR.
MatchMongo(where, row) ==
  LET ors == {i \in DOMAIN where \ {1} : where[i].connector = "OR"} IN
  /\ \A i \in DOMAIN where \ ors : Holds(where[i], row)
  /\ ors # {} => \E i \in ors : Holds(where[i], row)

Match(k, where, row) ==
  CASE k = "sql" -> MatchSql(where, row)
    [] k = "mongo" -> MatchMongo(where, row)
    [] OTHER -> MatchMemory(where, row)

Hits(k, rows, where) == {i \in Ids : rows[i] # None /\ Match(k, where, rows[i])}

-----------------------------------------------------------------------------
(* What passes through TransformAdapter                                     *)

\* A number that came as a string, from a query.
CoerceScalar(type, v) == IF type = "number" /\ v \in DOMAIN Number THEN Number[v] ELSE v
Coerce(type, op, v) ==
  IF op \in {"in", "not_in"} THEN {CoerceScalar(type, x) : x \in v} ELSE CoerceScalar(type, v)

\* Field names are translated and values coerced, but not transformed.
TransformWhere(k, where) ==
  [i \in DOMAIN where |->
     [where[i] EXCEPT !.field = Stored(k, Column(@)),
                      !.value = Coerce(table[where[i].field].type, where[i].op, @)]]

Into(f, v)  == IF table[f].sealed /\ v # None THEN Sealed[v] ELSE v
OutOf(f, v) == IF table[f].sealed /\ v # None THEN CHOOSE x \in Texts : Sealed[x] = v ELSE v

\* What is written besides what was given: defaults at creation, fresh values later.
Added(data, isUpdate) ==
  [f \in {f \in Fields \ DOMAIN data :
            IF isUpdate THEN table[f].onUpdate ELSE table[f].default # None} |->
     IF isUpdate THEN now ELSE table[f].default]

\* Mutant: a value for a renamed field is written under the field's own name.
TransformInputUnnamed(k, data, isUpdate) ==
  LET written == [f \in DOMAIN data |-> Into(f, data[f])] @@ Added(data, isUpdate) IN
  [c \in {Stored(k, f) : f \in DOMAIN written} |->
     written[CHOOSE f \in DOMAIN written : Stored(k, f) = c]]

TransformInput(k, data, isUpdate) ==
  LET written == [f \in DOMAIN data |-> Into(f, data[f])] @@ Added(data, isUpdate) IN
  [c \in {Stored(k, Column(f)) : f \in DOMAIN written} |->
     written[CHOOSE f \in DOMAIN written : Stored(k, Column(f)) = c]]

TransformOutput(k, row) == [f \in Fields |-> OutOf(f, Cell(row, Stored(k, Column(f))))]

-----------------------------------------------------------------------------
(* The adapters' calls: [rows, answer], for each way they can turn out      *)

Outcome(rows, a) == [rows |-> rows, answer |-> a]
Oldest(S) == CHOOSE i \in S : \A j \in S : i <= j
\* Which of the rows found a call for one row takes: the oldest in memory, else any.
Picks(k, S) == IF S = {} THEN {None} ELSE IF k = "memory" THEN {Oldest(S)} ELSE S

Patched(row, patch) == ("updatedAt" :> now) @@ patch @@ row

\* Unique columns: memory has none; an index of Mongo's takes two nulls for equal.
Clashes(k, rows, row) ==
  k # "memory" /\ \E f \in Fields, i \in Ids :
    LET c == Stored(k, Column(f)) IN
    /\ table[f].unique /\ rows[i] # None
    /\ Cell(rows[i], c) = Cell(row, c)
    /\ k = "sql" => Cell(row, c) # None

\* Adapters set the stamp themselves; SQL rows have every column.
Create(k, rows, i, data) ==
  LET stamped == data @@ ("updatedAt" :> now)
      row     == IF k = "sql" THEN [c \in Columns(k) |-> Cell(stamped, c)] ELSE stamped IN
  IF Clashes(k, rows, row) THEN {Outcome(rows, None)} ELSE {Outcome([rows EXCEPT ![i] = row], i)}

\* SQLAlchemy updates every row that matches, then reads one that matches still.
Update(k, rows, where, patch) ==
  LET hits  == Hits(k, rows, where)
      all   == [i \in Ids |-> IF i \in hits THEN Patched(rows[i], patch) ELSE rows[i]] IN
  IF k = "sql"
  THEN IF where = <<>> THEN {Outcome(rows, None)}
       ELSE {Outcome(all, i) : i \in Picks(k, Hits(k, all, where))}
  ELSE {Outcome(IF i = None THEN rows ELSE [rows EXCEPT ![i] = Patched(@, patch)], i) : i \in Picks(k, hits)}

\* Mongo counts the rows that changed.
UpdateMany(k, rows, where, patch) ==
  LET hits == Hits(k, rows, where)
      all  == [i \in Ids |-> IF i \in hits THEN Patched(rows[i], patch) ELSE rows[i]] IN
  {Outcome(all, Cardinality(IF k = "mongo" THEN {i \in hits : all[i] # rows[i]} ELSE hits))}

\* delete and consume_one take one row; SQLAlchemy's none if nothing is asked for.
Discard(k, rows, where) ==
  IF k = "sql" /\ where = <<>> THEN {Outcome(rows, None)}
  ELSE {Outcome([j \in Ids |-> IF j = i THEN None ELSE rows[j]], i) : i \in Picks(k, Hits(k, rows, where))}

DeleteMany(k, rows, where) ==
  LET hits == Hits(k, rows, where) IN
  {Outcome([i \in Ids |-> IF i \in hits THEN None ELSE rows[i]], Cardinality(hits))}

\* A column that a SQL table lacks stops the call.
Perform(k, rows, c, where, data, next) ==
  CASE k = "sql" /\ ~(DOMAIN data \cup {where[i].field : i \in DOMAIN where} \subseteq Columns(k))
                            -> {Outcome(rows, None)}
    [] c.op = "create"      -> Create(k, rows, next, data)
    [] c.op = "update"      -> Update(k, rows, where, data)
    [] c.op = "update_many" -> UpdateMany(k, rows, where, data)
    [] c.op = "delete_many" -> DeleteMany(k, rows, where)
    [] OTHER                -> Discard(k, rows, where)   \* delete, consume_one

-----------------------------------------------------------------------------
(* Reads                                                                    *)

\* Whether a row may come before another: None is last in memory, first elsewhere.
Precedes(k, a, b) ==
  IF a = b \/ b = None \/ a = None THEN a = b \/ (IF k = "memory" THEN b ELSE a) = None
  ELSE a \in Nat /\ b \in Nat => a <= b

\* The orders in which the rows found may be listed.
Listings(k, rows, where, f, descending, offset, limit) ==
  LET key(i)  == Cell(rows[i], f)
      sorted(s) == \A i, j \in DOMAIN s : i < j =>
        /\ IF descending THEN Precedes(k, key(s[j]), key(s[i])) ELSE Precedes(k, key(s[i]), key(s[j]))
        /\ k = "memory" /\ key(s[i]) = key(s[j]) => s[i] < s[j] IN
  {SubSeq(s, offset + 1, Least(Len(s), offset + limit)) : s \in {s \in SetToSeqs(Hits(k, rows, where)) : sorted(s)}}

-----------------------------------------------------------------------------
(* What the packages ask for                                                *)

ById(i)       == <<Eq("id", i)>>
Others(u, t)  == <<Eq("owner", u), Clause("token", "ne", t)>>
Lapsed(t)     == <<Clause("due", "lt", t), Clause("due", "ne", None)>>
Claimable(i)  == <<Eq("id", i), Eq("state", Pending), Eq("owner", None)>>
Among(S)      == <<Clause("id", "in", S)>>
\* The search and the filter of /admin/list-users.
ListUsers(search, filter) == search \o filter

Owners == {d["owner"] : d \in {d \in Created : "owner" \in DOMAIN d}}
Tokens == {d["token"] : d \in {d \in Created : "token" \in DOMAIN d}}

Call(op, where, data) == [op |-> op, where |-> where, data |-> data]
Nothing == [f \in {} |-> None]

Calls ==
  {Call("create", <<>>, d) : d \in {d \in Created : DOMAIN d \subseteq Fields}}
  \cup {Call("update", ById(i), p) : i \in Ids, p \in {p \in Patches : DOMAIN p \subseteq Fields}}
  \cup {Call("update", Claimable(i), [owner |-> u]) : i \in Ids, u \in Owners}
  \cup {Call("update_many", <<Eq("state", Pending)>>, [state |-> Revoked])}
  \cup {Call("delete", ById(i), Nothing) : i \in Ids}
  \cup {Call("consume_one", <<Eq("token", t)>>, Nothing) : t \in Tokens}
  \cup {Call("delete_many", w, Nothing) :
          w \in {Lapsed(now)} \cup {<<Eq("owner", u)>> : u \in Owners}
                \cup {Others(u, t) : u \in Owners, t \in Tokens}}

-----------------------------------------------------------------------------
(* The specification                                                        *)

\* Two rows that share a unique value, or lack it, and a call for one row that
\* finds several: memory, SQL and Mongo differ there.
Strains(c) ==
  \/ c.op = "create" /\ \E f \in Fields \ {"id"}, i \in Ids :
       table[f].unique /\ meant[i] # None /\ meant[i][f] = Cell(c.data, f)
  \/ c.op \in {"update", "delete", "consume_one"} /\ Cardinality(Hits("memory", meant, c.where)) > 1

\* SQLAlchemy's `update` reads the row again by what the call has changed.
LosesSight(k, c, answer) ==
  /\ k = "sql" /\ c.op = "update" /\ answer = None
  /\ \E i \in DOMAIN c.where : c.where[i].field \in DOMAIN c.data

Init ==
  /\ table \in {Resolved(c) : c \in {c \in Configs : Starts(c)}}
  /\ now = 0
  /\ made = 0
  /\ meant = [i \in Ids |-> None]
  /\ store = [k \in Kinds |-> [i \in Ids |-> None]]
  /\ astray = {}
  /\ strained = FALSE

Tick ==
  /\ now < MaxTime
  /\ now' = now + 1
  /\ UNCHANGED <<table, made, meant, store, astray, strained>>

\* The row, or the change, that is meant: defaults and fresh values included.
MeantData(c, data) ==
  LET given == data @@ Added(data, c.op # "create") IN
  IF c.op = "create" THEN [f \in Fields |-> Cell(given @@ ("updatedAt" :> now), f)] ELSE given

Ask(c) ==
  LET next      == made + 1
      data      == IF c.op = "create" THEN c.data @@ ("id" :> next) ELSE c.data
      result(k) == Perform(k, store[k], c, TransformWhere(k, c.where),
                           TransformInput(k, data, c.op # "create"), next) IN
  /\ c.op = "create" => made < MaxRows
  /\ made' = IF c.op = "create" THEN next ELSE made
  /\ \E memory \in result("memory"), sql \in result("sql"), mongo \in result("mongo"),
        right \in Perform("memory", meant, c, c.where, MeantData(c, data), next) :
       /\ store' = [memory |-> memory.rows, sql |-> sql.rows, mongo |-> mongo.rows]
       /\ meant' = right.rows
       /\ LET answer == [memory |-> memory.answer, sql |-> sql.answer, mongo |-> mongo.answer] IN
          astray' = astray \cup {k \in Kinds : answer[k] # right.answer /\ ~LosesSight(k, c, answer[k])}
  /\ strained' = (strained \/ Strains(c))
  /\ UNCHANGED <<table, now>>

Next == Tick \/ \E c \in Calls : Ask(c)

Spec == Init /\ [][Next]_vars

-----------------------------------------------------------------------------
(* Properties                                                               *)

\* What the packages look for; a list of users may be filtered by a string that
\* writes a number.
Reads ==
  {ById(i) : i \in Ids} \cup {Claimable(i) : i \in Ids} \cup {Lapsed(now)}
  \cup {Among(S) : S \in SUBSET Ids}
  \cup {Others(u, t) : u \in Owners, t \in Tokens}
  \cup {ListUsers(search, filter) :
          search \in {<<>>} \cup {<<Clause("token", p[1], p[3])>> : p \in Parts},
          filter \in {<<Clause("due", op, t)>> : op \in {"eq", "lte", "gt"},
                                                        t \in DOMAIN Number}
                          \cup {<<Clause("state", "ne", Pending)>>}}

\* Clauses over fields every row has, joined in any way.
Joined ==
  {<<first, second, third>> :
     first \in {Eq("state", Pending)},
     second \in {Clause("token", "ne", t) : t \in Tokens} \cup {Or(Eq("token", t)) : t \in Tokens},
     third \in {Eq("state", Revoked), Or(Eq("state", Revoked))}}

Typed(where) == [i \in DOMAIN where |->
  [where[i] EXCEPT !.value = Coerce(table[where[i].field].type, where[i].op, @)]]

\* The rows found all have this value, and no two the same.
Tells(where, f) ==
  LET hits == Hits("memory", meant, where) IN
  /\ \A i \in hits : meant[i][f] # None
  /\ \A i, j \in hits : meant[i][f] = meant[j][f] => i = j

Found(k, where) == Hits(k, store[k], TransformWhere(k, where))

\* A table behaves the same behind the three adapters, and as its callers mean it: after every call it holds the rows that are
\* meant, with the same values, defaults and stamps; the call gives the same answer;
\* every query the packages make finds the rows that are meant, also where they lack
\* a value and where a number comes as a string; clauses joined by OR mean the same
\* in memory and in SQL; and a page of an ordered list is the same rows in the same
\* order.  The exceptions are named: calls that strain, an update that loses sight
\* of its row, a renamed field in SQL, OR in Mongo, and keys that do not tell rows
\* apart.
StoresAgree ==
  ~strained => \A k \in Kinds \ (IF IsRenamed THEN {"sql"} ELSE {}) :
    /\ \A i \in Ids : IF meant[i] = None THEN store[k][i] = None
                      ELSE store[k][i] # None /\ TransformOutput(k, store[k][i]) = meant[i]
    /\ k \notin astray
    /\ \A w \in Reads : Found(k, w) = Hits("memory", meant, Typed(w))
    /\ k # "mongo" => \A w \in Joined : Found(k, w) = Hits("memory", meant, w)
    /\ \A f \in {"due", "updatedAt"}, descending \in BOOLEAN, offset \in 0 .. 1, limit \in 1 .. 2 :
         Tells(<<>>, f) =>
           Listings(k, store[k], <<>>, Stored(k, Column(f)), descending, offset, limit)
             = Listings("memory", meant, <<>>, f, descending, offset, limit)
=============================================================================
