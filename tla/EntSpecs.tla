------------------------------ MODULE EntSpecs ------------------------------
(***************************************************************************)
(* What the generated builders of the example ask of the database: for     *)
(* each entity its columns, the defaults and the checks of a builder, and  *)
(* the specification that the sqlSave of its create and its update         *)
(* builders make from the mutation. An edge to many other rows is kept in  *)
(* their foreign key or in the join table, a unique edge in the row's own. *)
(***************************************************************************)
EXTENDS EntMutation, EntGraph

CONSTANTS
  Default,     \* what a default of a column gives
  Tracked      \* the columns a run follows; rows hold no others

UserColumns == Tracked \cap {"name", "bio", "status", "created_at", "username", "score",
  "external_id", "updated_at", "settings", "labels", "tag_names", "metadata"}
PostColumns == Tracked \cap {"title", "published"}
TagColumns == Tracked \cap {"name"}
Columns(table) ==
  IF table = "users" THEN UserColumns ELSE IF table = "posts" THEN PostColumns ELSE TagColumns

\* Optional columns can be cleared and may be left out of a create.
UserOptional == UserColumns \cap {"bio", "score", "updated_at", "settings"}
UserImmutable == UserColumns \cap {"created_at", "username"}

\* defaults() of the create builders: a column that was not set.
WithDefaults(m, columns) ==
  [m EXCEPT !.set = Over(@, [c \in columns |-> Default])]
UserDefaults(m) == WithDefaults(m, UserColumns \cap {"status", "created_at"})
PostDefaults(m) == WithDefaults(m, PostColumns \cap {"published"})
Defaults(table, m) ==
  IF table = "users" THEN UserDefaults(m) ELSE IF table = "posts" THEN PostDefaults(m) ELSE m

\* The validator of an enum: the empty string is no value of it. The create
\* and the update builders both run it.
StatusValidator(m) == "status" \in DOMAIN m.set => m.set["status"] # Zero

\* check() of the create builders.
UserCheck(m) == UserColumns \ UserOptional \subseteq DOMAIN m.set /\ StatusValidator(m)
PostCheck(m) == PostColumns \subseteq DOMAIN m.set
TagCheck(m) == TagColumns \subseteq DOMAIN m.set
Check(table, m) ==
  IF table = "users" THEN UserCheck(m) ELSE IF table = "posts" THEN PostCheck(m) ELSE TagCheck(m)

-----------------------------------------------------------------------------
\* The edges of the three entities: the one in the row's own foreign key, the
\* one in the key of the other rows, and the one in the join table.
Edges(table) ==
  IF table = "users" THEN {"posts", "pinned_post", "tags"}
  ELSE IF table = "posts" THEN {"owner", "pinners"} ELSE {"users"}

\* An update has no statement for an immutable column, whoever set it.
UserUpdateSpec(m) ==
  [table |-> "users",
   set |-> [c \in DOMAIN m.set \ UserImmutable |-> m.set[c]], cleared |-> m.cleared,
   own |-> EdgeChange(m, "pinned_post"),
   key |-> "user_posts", others |-> EdgeChange(m, "posts"),
   joined |-> EdgeChange(m, "tags")]

PostUpdateSpec(m) ==
  [table |-> "posts", set |-> m.set, cleared |-> m.cleared,
   own |-> EdgeChange(m, "owner"),
   key |-> "user_pinned_post", others |-> EdgeChange(m, "pinners"),
   joined |-> NoChange]

TagUpdateSpec(m) ==
  [table |-> "tags", set |-> m.set, cleared |-> m.cleared,
   own |-> NoChange, key |-> NoKey, others |-> NoChange,
   joined |-> EdgeChange(m, "users")]

UpdateSpec(table, m) ==
  IF table = "users" THEN UserUpdateSpec(m)
  ELSE IF table = "posts" THEN PostUpdateSpec(m) ELSE TagUpdateSpec(m)

\* sqlSave of UserUpdateOne, PostUpdateOne and TagUpdateOne.
SaveOne(db, table, i, m, sql) ==
  IF ~StatusValidator(m) THEN Outcome("invalid", db)
  ELSE UpdateNode(db, i, UpdateSpec(table, m), sql)

\* sqlSave of UserUpdate, PostUpdate and TagUpdate, for the rows selected.
SaveMany(db, table, ids, m, sql) ==
  IF ~StatusValidator(m) THEN Outcome("invalid", db)
  ELSE UpdateNodes(db, ids, UpdateSpec(table, m), sql)

\* createSpec() of the create builders: a column nobody set is left to the
\* database, and the edges of a new row are only added to.
Complete(set, columns) == Over(set, [c \in columns |-> Null])
UserCreateSpec(m) ==
  [table |-> "users", set |-> Complete(m.set, UserColumns), cleared |-> {},
   own |-> [NoChange EXCEPT !.added = IDs(m, "pinned_post")],
   key |-> "user_posts", others |-> [NoChange EXCEPT !.added = IDs(m, "posts")],
   joined |-> [NoChange EXCEPT !.added = IDs(m, "tags")]]
PostCreateSpec(m) ==
  [table |-> "posts", set |-> m.set, cleared |-> {},
   own |-> [NoChange EXCEPT !.added = IDs(m, "owner")],
   key |-> "user_pinned_post", others |-> [NoChange EXCEPT !.added = IDs(m, "pinners")],
   joined |-> NoChange]
TagCreateSpec(m) ==
  [table |-> "tags", set |-> m.set, cleared |-> {}, own |-> NoChange,
   key |-> NoKey, others |-> NoChange,
   joined |-> [NoChange EXCEPT !.added = IDs(m, "users")]]
CreateSpec(table, m) ==
  IF table = "users" THEN UserCreateSpec(m)
  ELSE IF table = "posts" THEN PostCreateSpec(m) ELSE TagCreateSpec(m)

\* sqlSave of a create builder, and of a CreateBulk, where the checks of all the
\* builders come before the first statement.
SaveNew(db, table, i, m) ==
  IF ~Check(table, m) THEN Outcome("invalid", db)
  ELSE CreateNode(db, i, CreateSpec(table, m))
SaveBulk(db, table, first, ms) ==
  IF \E k \in DOMAIN ms : ~Check(table, ms[k]) THEN Outcome("invalid", db)
  ELSE BatchCreate(db, first, [k \in DOMAIN ms |-> CreateSpec(table, ms[k])])

=============================================================================
