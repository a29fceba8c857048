----------------------------- MODULE EntBuilder -----------------------------
(***************************************************************************)
(* One client of the generated packages: it opens a create, an update of   *)
(* one row, an update of all rows that a condition selects, or a bulk of   *)
(* creates; calls the builder's methods, ApplyDomain among them, in any    *)
(* order; and saves. Transformers call the same methods later than the     *)
(* caller, so they are calls like any other. A save fills in the defaults  *)
(* and runs the mutation hooks, which change the mutation by the names of  *)
(* its fields and edges; only then come the checks and the statements. The *)
(* plain driver runs them in a transaction of their own. In a transaction  *)
(* the client began, a save that fails rolls back nothing: the Rollback of *)
(* txDriver's Tx is a no-op (ent/tx.go).                                   *)
(***************************************************************************)
EXTENDS EntDatabase

CONSTANTS
  Structs,     \* of a table: the domain structs that are applied to it
  Configs,     \* the option lists of those calls
  Selections,  \* the sets of rows that a condition may select
  Named,       \* the ids that calls name
  Dialects,    \* the SQL that may be in use
  MaxRows, MaxCalls, MaxSaves, MaxBulk   \* bounds of the model

VARIABLES
  base, mode,  \* the transaction: what it goes back to, how it stands
  dbms,     \* sql: what is spoken to it; aborted: it waits for a rollback
  builder,  \* the open builder
  hooked,   \* its save has begun, and the hooks run
  ms,       \* its mutations: one, or one for every create of a bulk
  asked,    \* history: what was asked of each mutation
  calls, saves  \* so far: MaxSaves bounds the saves, MaxCalls the calls before
                \* the first save and one less after each

vars == <<db, last, base, mode, dbms, builder, hooked, ms, asked, calls, saves>>

BlankRows ==
  [t \in Tables |-> [c \in Columns(t) |->
     IF c \in UserOptional \cap Columns(t) THEN Null
     ELSE IF c \in {"status", "created_at", "published"} THEN Default ELSE Null]]
Promise == INSTANCE EntPromise WITH Blank <- BlankRows

ASSUME BuilderAssumption ==
  /\ {MaxRows, MaxCalls, MaxSaves, MaxBulk} \subseteq Nat /\ Dialects \subseteq Sql
  /\ \A t \in Tables : \A d \in Structs[t] : \A c \in Columns(t) : d.val[c] \in Values
  /\ Configs \subseteq ApplyConfig(UserColumns \cup PostColumns \cup TagColumns,
                                  {"post_ids", "tag_ids", "pinner_ids", "user_ids"})

Init ==
  /\ DatabaseInit /\ base = db
  /\ mode = "plain" /\ dbms \in [sql : Dialects, aborted : {FALSE}]
  /\ builder = Promise!Closed /\ hooked = FALSE /\ ms = <<>> /\ asked = <<>>
  /\ calls = 0 /\ saves = 0

-----------------------------------------------------------------------------
\* client.User.Create(), UpdateOneID(id), Update().Where(p), CreateBulk(...).
Open(table, how, ids) ==
  /\ builder.how = "closed" /\ saves < MaxSaves
  /\ builder' = [table |-> table, how |-> how, ids |-> ids]
  /\ ms' = <<NewMutation>> /\ asked' = <<Promise!Nothing>>
  /\ UNCHANGED <<db, last, base, mode, dbms, hooked, calls, saves>>
Another ==
  /\ builder.how = "create" /\ ~hooked /\ Len(ms) < MaxBulk /\ calls + saves < MaxCalls /\ calls' = calls + 1
  /\ ms' = Append(ms, NewMutation) /\ asked' = Append(asked, Promise!Nothing)
  /\ UNCHANGED <<db, last, base, mode, dbms, builder, hooked, saves>>

\* One call on the builder: what it does to the mutation, and what it asks.
Change(m, a) ==
  /\ calls + saves < MaxCalls /\ calls' = calls + 1
  /\ ms' = [ms EXCEPT ![Len(ms)] = m] /\ asked' = [asked EXCEPT ![Len(ms)] = a]
  /\ UNCHANGED <<db, last, base, mode, dbms, builder, hooked, saves>>
Call(hows, m, a) == builder.how \in hows /\ ~hooked /\ Change(m, a)
M == ms[Len(ms)]
A == asked[Len(ms)]
Updates == {"one", "many"}
All == {"create"} \cup Updates
Fixed == IF builder.how = "create" THEN {} ELSE UserImmutable

SetField(c, v) ==
  /\ c \in Columns(builder.table) \ Fixed
  /\ Call(All, SetColumn(M, c, v), Promise!AskColumn(A, c, v))
ClearField(c) ==
  /\ builder.table = "users" /\ c \in UserOptional
  /\ Call(Updates, ClearColumn(M, c), Promise!AskColumn(A, c, Null))

\* The edges to many and the unique ones.
Many == Edges(builder.table) \ {"pinned_post", "owner"}
One == Edges(builder.table) \ Many
AddEdgeIDs(e, j) == e \in Many /\ Call(All, AddIDs(M, e, {j}), Promise!AskMany(A, e, {j}, TRUE))
RemoveEdgeIDs(e, j) ==
  e \in Many /\ Call(Updates, RemoveIDs(M, e, {j}), Promise!AskMany(A, e, {j}, FALSE))
ClearMany(e) == e \in Many /\ Call(Updates, ClearEdge(M, e), Promise!AskOnly(A, e))
SetOne(e, j) == e \in One /\ Call(All, SetID(M, e, j), Promise!AskOne(A, e, j))
ClearOne(e) ==
  /\ e \in One
  /\ Call(Updates, ClearEdge(M, e), IF e \in DOMAIN A.one THEN A ELSE Promise!AskOne(A, e, NoId))

\* What README.md says of an ApplyDomain: the fields that the options let
\* through are asked for, and the edges with IDs() are replaced unless they are
\* appended to.
Lets(cfg, c, v) ==
  /\ InLists(cfg, c) /\ ~(IsPointer(c) /\ v = Null)
  /\ ~(cfg.omitZeroVal /\ ~IsPointer(c) /\ v = Zero)
AskEdge(a, cfg, e, field, ids) ==
  Promise!AskMany(IF IsAppendEdge(cfg, field) \/ builder.how = "create" THEN a
                  ELSE Promise!AskOnly(a, e), e, ids, TRUE)
AskDomain(a, cfg, d) ==
  LET t == builder.table
      cols == {c \in Columns(t) \ Fixed : Lets(cfg, c, d.val[c])}
      told == [a EXCEPT !.col = Over([c \in cols |-> d.val[c]], @)]
  IN  IF t = "users"
        THEN AskEdge(AskEdge(told, cfg, "posts", "post_ids", d.PostIDs), cfg, "tags", "tag_ids", d.TagIDs)
      ELSE IF t = "posts" THEN AskEdge(told, cfg, "pinners", "pinner_ids", d.PinnerIDs)
      ELSE AskEdge(told, cfg, "users", "user_ids", d.UserIDs)
Apply(cfg, d) ==
  Call(All, IF builder.how = "create" THEN CreateApplyDomain(builder.table, M, cfg, d)
            ELSE ApplyDomain(builder.table, M, cfg, d),
       AskDomain(A, cfg, d))

-----------------------------------------------------------------------------
\* Save begins: the defaults of the create builders, then the mutation hooks.
RunHooks ==
  /\ builder.how # "closed" /\ ~hooked /\ hooked' = TRUE
  /\ ms' = IF builder.how = "create" THEN [k \in DOMAIN ms |-> Defaults(builder.table, ms[k])] ELSE ms
  /\ UNCHANGED <<db, last, base, mode, dbms, builder, asked, calls, saves>>

\* What a hook may do to the mutation by name. It may set a column that an
\* update does not write, and take back a default of a create.
HookSetField(c, v) ==
  /\ hooked /\ c \in Columns(builder.table)
  /\ Change(SetColumn(M, c, v), IF c \in Fixed THEN A ELSE Promise!AskColumn(A, c, v))
HookClearField(c) ==
  /\ hooked /\ builder.table = "users" /\ c \in UserOptional
  /\ Change(ClearColumn(M, c), Promise!AskColumn(A, c, Null))
HookResetField(c) ==
  /\ hooked /\ c \in Columns(builder.table) /\ Change(ResetColumn(M, c), Promise!Forget(A, c))
HookResetEdge(e) ==
  /\ hooked /\ e \in Edges(builder.table) /\ Change(ResetEdge(M, e), Promise!ForgetEdge(A, e))

\* Then what the database does with the builder. Of a save that fails the
\* plain driver rolls back everything; in the client's transaction it stays.
Result ==
  LET t == builder.table IN
  IF dbms.aborted THEN Outcome("refused", db)
  ELSE IF builder.how = "one" THEN SaveOne(db, t, CHOOSE i \in builder.ids : TRUE, ms[1], dbms.sql)
  ELSE IF builder.how = "many" THEN SaveMany(db, t, builder.ids \cap DOMAIN db.rows[t], ms[1], dbms.sql)
  ELSE IF Len(ms) = 1 THEN SaveNew(db, t, last[t] + 1, ms[1])
  ELSE SaveBulk(db, t, last[t] + 1, ms)

Ended(r) ==
  /\ builder' = Promise!Closed /\ hooked' = FALSE /\ ms' = <<>> /\ asked' = <<>> /\ saves' = saves + 1
  /\ last' = IF builder.how # "create" \/ r.how = "invalid" THEN last
             ELSE [last EXCEPT ![builder.table] = @ + Len(ms)]
  /\ base' = IF mode = "plain" THEN db' ELSE base
  /\ UNCHANGED calls
Succeeds ==
  /\ hooked /\ Result.how = "ok"
  /\ db' = Result.db /\ Ended(Result) /\ UNCHANGED <<mode, dbms>>

Fails ==
  /\ hooked /\ Result.how # "ok"
  /\ db' = (IF mode = "plain" THEN db ELSE Result.db) /\ Ended(Result)
  /\ mode' = IF mode = "plain" THEN mode ELSE "spoiled"
  /\ dbms' = [dbms EXCEPT !.aborted = @ \/ (mode # "plain" /\ dbms.sql.strict /\ Result.how = "refused")]

\* Delete().Where(p).Exec and DeleteOneID(id).Exec; of no row, the second fails.
DeleteRows(table, ids) ==
  /\ builder.how = "closed" /\ saves < MaxSaves /\ saves' = saves + 1 /\ ~dbms.aborted
  /\ db' = DeleteNodes(db, table, ids)
  /\ base' = (IF mode = "plain" THEN db' ELSE base)
  /\ UNCHANGED <<last, mode, dbms, builder, hooked, ms, asked, calls>>

\* client.Tx(ctx), Commit and Rollback. A database that waits for a rollback
\* makes one of the commit; a commit hook may return an error and commit nothing.
Begin ==
  /\ mode = "plain" /\ builder.how = "closed" /\ mode' = "tx"
  /\ UNCHANGED <<db, last, base, dbms, builder, hooked, ms, asked, calls, saves>>
Commit ==
  /\ mode # "plain" /\ builder.how = "closed" /\ mode' = "plain"
  /\ db' = (IF dbms.aborted THEN base ELSE db) /\ base' = db'
  /\ dbms' = [dbms EXCEPT !.aborted = FALSE]
  /\ UNCHANGED <<last, builder, hooked, ms, asked, calls, saves>>
Rollback ==
  /\ mode # "plain" /\ builder.how = "closed" /\ mode' = "plain"
  /\ db' = base /\ dbms' = [dbms EXCEPT !.aborted = FALSE]
  /\ UNCHANGED <<last, base, builder, hooked, ms, asked, calls, saves>>

Next ==
  \/ \E t \in Tables, i \in Named : Open(t, "one", {i})
  \/ \E t \in Tables, s \in Selections : Open(t, "many", s)
  \/ \E t \in Tables : last[t] + MaxBulk =< MaxRows /\ Open(t, "create", {})
  \/ Another
  \/ \E c \in Tracked, v \in {Zero, Default} : SetField(c, v)
  \/ \E c \in Tracked : ClearField(c)
  \/ \E e \in {"posts", "tags", "pinners", "users"}, j \in Named :
       AddEdgeIDs(e, j) \/ RemoveEdgeIDs(e, j)
  \/ \E e \in {"posts", "tags", "pinners", "users"} : ClearMany(e)
  \/ \E e \in {"pinned_post", "owner"} : ClearOne(e) \/ \E j \in Named : SetOne(e, j)
  \/ builder.how # "closed" /\ \E cfg \in Configs, d \in Structs[builder.table] : Apply(cfg, d)
  \/ RunHooks
  \/ \E c \in Tracked : HookSetField(c, Zero) \/ HookClearField(c) \/ HookResetField(c)
  \/ \E e \in Edges(builder.table) : HookResetEdge(e)
  \/ Succeeds \/ Fails
  \/ \E t \in Tables, s \in Selections : DeleteRows(t, s)
  \/ Begin \/ Commit \/ Rollback

Spec == Init /\ [][Next]_vars

-----------------------------------------------------------------------------
TypeOK ==
  /\ \A t \in Tables :
       /\ DOMAIN db.rows[t] \subseteq 1 .. last[t]
       /\ \A i \in DOMAIN db.rows[t] :
            db.rows[t][i] \in [Columns(t) -> Values]
  /\ mode \in {"plain", "tx", "spoiled"} /\ (mode = "plain" => base = db)
  /\ hooked => builder.how # "closed"
  /\ Len(ms) = Len(asked) /\ (ms = <<>> <=> builder.how = "closed")
  /\ dbms.aborted => mode = "spoiled"
  /\ calls \in 0 .. MaxCalls /\ saves \in 0 .. MaxSaves

\* The builders, their mutations and the statements they make implement the
\* promise: each save makes everything true that was asked, in whatever order
\* the caller, ApplyDomain, a transformer (domain.tmpl:270) or a hook asked for
\* it, and nothing else; or it fails and changes nothing. Inside a transaction
\* that holds until an error is ignored, and a rollback always restores.
PromiseKept == Promise!Spec

\* The state has its type, and no row refers to a row that is gone or was never
\* there, also halfway through a failed save, and after what the foreign keys do
\* on a delete.
ReferencesHold == TypeOK /\ ForeignKeysHold(db)

\* Saving a user takes a post from no other user: a post that has an owner can
\* only lose it, and to be added it must be free. So AppendEdge("post_ids")
\* with a post somebody owns, the user itself included, fails, also where a
\* transaction keeps what the statements before the failure wrote.
NoTheft ==
  [][builder.table = "users" =>
       \A j \in DOMAIN db.fk.user_posts \cap DOMAIN db'.fk.user_posts :
         LET was == db.fk.user_posts[j]
             is == db'.fk.user_posts[j]
         IN  was # is => is = NoId \/ was = NoId \/ was \in builder.ids]_vars

\* A mutation hook learns of every change before it happens: what a save
\* changes was in the mutation's fields, cleared fields, added edges, removed
\* edges or cleared edges (mutation.go:351, 467; the same for tags and users).  It
\* is about the calls of this module: AppendTagNames, which none of them stands
\* for, is in neither Fields() nor AddedFields() (mutation.go:1585).
Seen(edges) == edges \cap UNION {AddedEdges(ms[k]) \cup RemovedEdges(ms[k]) \cup ClearedEdges(ms[k]) : k \in DOMAIN ms} # {}
HooksSeeEveryChange ==
  [][builder.how \in Updates =>
       /\ \A i \in DOMAIN db.rows[builder.table] : \A c \in Columns(builder.table) :
            db'.rows[builder.table][i][c] # db.rows[builder.table][i][c] =>
              c \in Fields(M) \cup ClearedFields(M)
       /\ db'.fk.user_posts # db.fk.user_posts => Seen({"posts", "owner"})
       /\ db'.fk.user_pinned_post # db.fk.user_pinned_post => Seen({"pinned_post", "pinners"})
       /\ db'.user_tags # db.user_tags => Seen({"tags", "users"})]_vars

=============================================================================
