----------------------------- MODULE MCAdapters -----------------------------
(***************************************************************************)
(* Three rows of a table with core fields, one of them renamed or not, one *)
(* a plugin adds, and one the options add, whose values are transformed on *)
(* their way.  A configuration whose options repeat a plugin's field does  *)
(* not start.                                                              *)
(***************************************************************************)
EXTENDS Adapters

CONSTANTS NoValue, ann, joanna, one, u1

StringField == [type |-> "string", unique |-> FALSE, default |-> NoValue, onUpdate |-> FALSE,
                sealed |-> FALSE, column |-> ""]
NumberField == [StringField EXCEPT !.type = "number"]

MCTexts  == {ann, joanna, one, Pending, Revoked, u1}
MCNumber == (one :> 1)
\* A transform that is its own inverse.
MCSealed == [t \in MCTexts |-> CASE t = ann -> joanna [] t = joanna -> ann [] OTHER -> t]
MCParts  == {<<"contains", joanna, ann>>, <<"contains", ann, ann>>, <<"starts_with", ann, ann>>,
             <<"ends_with", joanna, ann>>, <<"ends_with", ann, ann>>, <<"ilike_eq", ann, ann>>}

MCCore ==
  [id        |-> [NumberField EXCEPT !.unique = TRUE, !.type = "string", !.column = "id"],
   token     |-> [StringField EXCEPT !.unique = TRUE, !.column = "token"],
   owner     |-> [StringField EXCEPT !.column = "owner"],
   state     |-> [StringField EXCEPT !.default = Pending, !.column = "state"],
   due       |-> [NumberField EXCEPT !.column = "due"],
   updatedAt |-> [NumberField EXCEPT !.column = "updatedAt"]]

Plain   == [f \in {} |-> ""]
SeenAt  == ("seen" :> [NumberField EXCEPT !.onUpdate = TRUE, !.column = "seen"])
NoteOf  == ("note" :> [StringField EXCEPT !.sealed = TRUE, !.column = "note"])
SomeConfig(renames, plugin, extra) == [renames |-> renames, plugin |-> plugin, extra |-> extra]

MCConfigs ==
  {SomeConfig(Plain, SeenAt, NoteOf),
   SomeConfig(("owner" :> "user_id"), SeenAt, NoteOf),
   SomeConfig(Plain, SeenAt, SeenAt)}

MCCreated ==
  {("token" :> ann @@ "owner" :> u1 @@ "due" :> 1),
   ("token" :> joanna @@ "due" :> 0),
   ("token" :> one @@ "owner" :> u1 @@ "state" :> Revoked @@ "note" :> joanna)}

MCPatches == {("due" :> NoValue @@ "note" :> ann)}

\* What follows a call the databases need not agree on is not looked at.
Explored == ~strained
=============================================================================
