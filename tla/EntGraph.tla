------------------------------ MODULE EntGraph ------------------------------
(***************************************************************************)
(* The database of the example and what ent does to it. The tables and the *)
(* foreign keys are those of migrate/schema.go: posts.user_posts names the *)
(* owner of a post, users.user_pinned_post the post a user pinned, and     *)
(* user_tags joins users and tags. The specifications that the builders    *)
(* make (EntSpecs) are executed by ent's sqlgraph, which is external: the  *)
(* statements of one save run in the order written here, and the first     *)
(* one that fails ends it.                                                 *)
(***************************************************************************)
EXTENDS GoValues, GoMaps, Integers, FiniteSets, Sequences

NoId == 0

\* The foreign key that a row of a table carries, and the table it names.
NoKey == "none"
OwnKey == [users |-> "user_pinned_post", posts |-> "user_posts"]
KeyTarget == [user_pinned_post |-> "posts", user_posts |-> "users"]

Exists(db, table, i) == i \in DOMAIN db.rows[table]

\* Every reference names a row: the database enforces its foreign keys.
ForeignKeysHold(db) ==
  /\ \A t \in DOMAIN OwnKey :
       LET k == OwnKey[t] IN
       /\ DOMAIN db.fk[k] = DOMAIN db.rows[t]
       /\ \A i \in DOMAIN db.fk[k] :
            db.fk[k][i] # NoId => Exists(db, KeyTarget[k], db.fk[k][i])
  /\ \A pair \in db.user_tags :
       Exists(db, "users", pair[1]) /\ Exists(db, "tags", pair[2])

Remaining(f, S) == [i \in DOMAIN f \ S |-> f[i]]
Nulled(f, S) == [i \in DOMAIN f |-> IF f[i] \in S THEN NoId ELSE f[i]]

\* Mutated form: the foreign keys that name a deleted row stay.
DeleteNodesOnly(db, table, ids) ==
  [rows |-> [db.rows EXCEPT ![table] = Remaining(@, ids)],
   fk |-> [k \in DOMAIN db.fk |-> IF table \in DOMAIN OwnKey /\ OwnKey[table] = k
                                  THEN Remaining(db.fk[k], ids) ELSE db.fk[k]],
   user_tags |-> db.user_tags]

\* DeleteNodes, with what the foreign keys do on delete: SET NULL for the
\* two of rows, CASCADE for the two of the join table.
DeleteNodes(db, table, ids) ==
  LET mine == IF table \in DOMAIN OwnKey THEN OwnKey[table] ELSE NoKey
      key(k) == LET left == IF k = mine THEN Remaining(db.fk[k], ids) ELSE db.fk[k]
                IN  IF KeyTarget[k] = table THEN Nulled(left, ids) ELSE left
  IN  [rows |-> [db.rows EXCEPT ![table] = Remaining(@, ids)],
       fk |-> [k \in DOMAIN db.fk |-> key(k)],
       user_tags |-> {pair \in db.user_tags :
                        /\ table = "users" => pair[1] \notin ids
                        /\ table = "tags" => pair[2] \notin ids}]

-----------------------------------------------------------------------------
\* The SQL in use: whether the database refuses a column assigned twice, and
\* whether the insert of pairs ignores those that are there. ent and the
\* database decide; the model has both. A new row has no pairs yet.
Sql == [strict : BOOLEAN, ignores : BOOLEAN]
NewPairs == [strict |-> FALSE, ignores |-> FALSE]

\* How a save ended, and the database that its executed statements leave. A
\* statement the database refuses has no effect; that too few rows were
\* affected is noticed after the statement ran.
Outcome(how, db) == [how |-> how, db |-> db]

\* The pairs of the join table, seen from either side.
Pair(table, i, j) == IF table = "users" THEN <<i, j>> ELSE <<j, i>>
Partner(table) == IF table = "users" THEN "tags" ELSE "users"

\* Columns that are cleared and set: one statement assigns them twice, which
\* SQLite takes (the last one wins) and PostgreSQL refuses.
AssignedTwice(s) == DOMAIN s.set \cap s.cleared # {}

WriteColumns(val, s) ==
  [c \in DOMAIN val |-> IF c \in DOMAIN s.set THEN s.set[c]
                        ELSE IF c \in s.cleared THEN Null ELSE val[c]]

\* 1. the rows themselves, with the foreign key they carry
WriteRows(db, ids, s) ==
  LET own(f) == [i \in DOMAIN f |->
                   IF i \notin ids THEN f[i]
                   ELSE IF s.own.added # {} THEN CHOOSE j \in s.own.added : TRUE
                   ELSE IF s.own.all THEN NoId ELSE f[i]]
  IN  [db EXCEPT
        !.rows[s.table] = [i \in DOMAIN @ |-> IF i \in ids THEN WriteColumns(@[i], s) ELSE @[i]],
        !.fk = [k \in DOMAIN @ |-> IF s.table \in DOMAIN OwnKey /\ OwnKey[s.table] = k
                                   THEN own(@[k]) ELSE @[k]]]
OwnTargetExists(db, s) ==
  \A j \in s.own.added : Exists(db, KeyTarget[OwnKey[s.table]], j)

\* 2. and 3. the join table
ClearJoin(db, ids, s) ==
  [db EXCEPT !.user_tags =
     @ \ {pair \in @ : \E i \in ids : \E j \in s.joined.removed \cup
                          (IF s.joined.all THEN DOMAIN db.rows[Partner(s.table)] ELSE {}) :
                             pair = Pair(s.table, i, j)}]
AddJoin(db, ids, s) ==
  [db EXCEPT !.user_tags = @ \cup {Pair(s.table, i, j) : i \in ids, j \in s.joined.added}]
\* Both columns of the join table are its primary key: a pair that is there
\* already is refused, unless the insert says to ignore it.
JoinTakes(db, ids, s, sql) ==
  \A j \in s.joined.added :
    /\ Exists(db, Partner(s.table), j)
    /\ sql.ignores \/ \A i \in ids : Pair(s.table, i, j) \notin db.user_tags

\* 4. and 5. the foreign key in the rows on the other side
ClearKeys(db, ids, s) ==
  IF s.key = NoKey THEN db ELSE
  [db EXCEPT !.fk[s.key] =
     [j \in DOMAIN @ |-> IF @[j] \in ids /\ (s.others.all \/ j \in s.others.removed)
                         THEN NoId ELSE @[j]]]

\* Mutated form: the rows are linked wherever they were linked before.
AddKeysOver(db, i, s) ==
  IF s.key = NoKey THEN db ELSE
  [db EXCEPT !.fk[s.key] = [j \in DOMAIN @ |-> IF j \in s.others.added THEN i ELSE @[j]]]

AddKeys(db, i, s) ==
  IF s.key = NoKey THEN db ELSE
  [db EXCEPT !.fk[s.key] = [j \in DOMAIN @ |-> IF j \in s.others.added /\ @[j] = NoId
                                               THEN i ELSE @[j]]]
AllFree(db, s) ==
  \A j \in s.others.added : j \in DOMAIN db.fk[s.key] /\ db.fk[s.key][j] = NoId

-----------------------------------------------------------------------------
\* The edges of the rows ids, after the rows themselves were written: first the
\* join table, then the other rows.
WriteJoin(db, ids, s, sql) ==
  LET cleared == ClearJoin(db, ids, s) IN
  IF JoinTakes(cleared, ids, s, sql) THEN Outcome("ok", AddJoin(cleared, ids, s))
  ELSE Outcome("refused", cleared)

WriteKeys(db, ids, s) ==
  LET cleared == ClearKeys(db, ids, s) IN
  IF s.others.added = {} THEN Outcome("ok", cleared)
  ELSE IF Cardinality(ids) > 1 THEN Outcome("failed", cleared)
  ELSE Outcome(IF AllFree(cleared, s) THEN "ok" ELSE "failed",
               AddKeys(cleared, CHOOSE i \in ids : TRUE, s))

WriteEdges(db, ids, s, sql) ==
  LET joined == WriteJoin(db, ids, s, sql) IN
  IF joined.how = "ok" THEN WriteKeys(joined.db, ids, s) ELSE joined

\* UpdateNodes: of the rows a condition selected. UpdateNode: of one row, which
\* is read at the end; statements about a missing row change nothing, or name it
\* and are refused.
UpdateNodes(db, ids, s, sql) ==
  IF ids = {} THEN Outcome("ok", db)
  ELSE IF sql.strict /\ AssignedTwice(s) THEN Outcome("refused", db)
  ELSE IF ~OwnTargetExists(db, s) THEN Outcome("refused", db)
  ELSE WriteEdges(WriteRows(db, ids, s), ids, s, sql)
RefersToMissing(db, s) ==
  \/ s.joined.added # {}
  \/ \E j \in s.others.added : j \in DOMAIN db.fk[s.key] /\ db.fk[s.key][j] = NoId
UpdateNode(db, i, s, sql) ==
  IF ~Exists(db, s.table, i)
    THEN Outcome(IF RefersToMissing(db, s) THEN "refused" ELSE "not found", db)
  ELSE UpdateNodes(db, {i}, s, sql)

\* The rows of new specifications of one table, in one statement: their ids
\* follow each other.
OwnID(s) == IF s.own.added = {} THEN NoId ELSE CHOOSE j \in s.own.added : TRUE
InsertRows(db, first, specs) ==
  LET table == specs[1].table
      new == first .. first + Len(specs) - 1
      spec(i) == specs[i - first + 1]
  IN  [db EXCEPT
        !.rows[table] = [i \in DOMAIN @ \cup new |-> IF i \in new THEN spec(i).set ELSE @[i]],
        !.fk = [k \in DOMAIN @ |->
                  IF table \in DOMAIN OwnKey /\ OwnKey[table] = k
                  THEN [i \in DOMAIN @[k] \cup new |-> IF i \in new THEN OwnID(spec(i)) ELSE @[k][i]]
                  ELSE @[k]]]

\* CreateNode: the new row, then its edges.
CreateNode(db, i, s) ==
  IF ~OwnTargetExists(db, s) THEN Outcome("refused", db)
  ELSE WriteEdges(InsertRows(db, i, <<s>>), {i}, s, NewPairs)

\* BatchCreate: all the rows in one statement, then the join table for all of
\* them, then the foreign keys of one after the other.
JoinAll(db, first, specs) ==
  [db EXCEPT !.user_tags =
     @ \cup UNION {AddJoin(db, {first + k - 1}, specs[k]).user_tags : k \in DOMAIN specs}]
KeyAll(db, first, specs) ==
  LET keyed[k \in 0 .. Len(specs)] ==
        IF k = 0 THEN Outcome("ok", db)
        ELSE IF keyed[k - 1].how # "ok" THEN keyed[k - 1]
        ELSE WriteKeys(keyed[k - 1].db, {first + k - 1}, specs[k])
  IN  keyed
BatchCreate(db, first, specs) ==
  LET inserted == InsertRows(db, first, specs) IN
  IF \E k \in DOMAIN specs : ~OwnTargetExists(db, specs[k]) THEN Outcome("refused", db)
  ELSE IF \E k \in DOMAIN specs : ~JoinTakes(db, {first + k - 1}, specs[k], NewPairs)
    THEN Outcome("refused", inserted)
  ELSE KeyAll(JoinAll(inserted, first, specs), first, specs)[Len(specs)]

=============================================================================
