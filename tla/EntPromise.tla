----------------------------- MODULE EntPromise -----------------------------
(***************************************************************************)
(* What the builders of ent and the generated ApplyDomain promise: a call  *)
(* says what a column or an edge shall be, the last word about it counts,  *)
(* and a save makes all of it true or changes nothing. Only after an error *)
(* that the caller ignores inside a transaction is nothing promised before *)
(* the rollback. No mutation, no statement and no order of statements is   *)
(* seen here; EntBuilder is shown to implement it.                         *)
(***************************************************************************)
EXTENDS GoMaps, Integers, FiniteSets, Sequences

CONSTANTS Blank   \* of a table: the row that a create makes when nothing is asked

VARIABLES
  db,      \* the database as the client sees it
  last,    \* the last id each table gave
  builder, \* what is open: the table, the kind of builder, the rows it selects
  asked,   \* what was asked, one record for each row of a create
  base,    \* the database when the transaction began
  mode     \* "plain", "tx", or "spoiled": an error was ignored in a transaction

vars == <<db, last, builder, asked, base, mode>>

\* Where an edge is kept: in a foreign key of the row, in that of the rows at
\* the other end, or in the join table.
OneKey == [pinned_post |-> "user_pinned_post", owner |-> "user_posts"]
ManyKey == [posts |-> "user_posts", pinners |-> "user_pinned_post"]
Joined == {"tags", "users"}

\* Nothing asked: of a column, of the other end of a unique edge, of the ends
\* of an edge to many (in or out), and of the ends not named.
Nothing == [col |-> <<>>, one |-> <<>>, many |-> <<>>, only |-> {}]

AskColumn(a, c, v) == [a EXCEPT !.col = With(@, c, v)]
AskOne(a, e, i) == [a EXCEPT !.one = With(@, e, i)]
AskMany(a, e, ids, in) == [a EXCEPT !.many = Over([pair \in {e} \X ids |-> in], @)]
AskOnly(a, e) == [a EXCEPT !.only = @ \cup {e}]
\* What was asked is taken back.
Forget(a, c) == [a EXCEPT !.col = Dropped(@, c)]
ForgetEdge(a, e) ==
  [a EXCEPT !.one = Dropped(@, e),
            !.many = [pair \in {q \in DOMAIN @ : q[1] # e} |-> @[pair]],
            !.only = @ \ {e}]
Says(a, e, j, in) == <<e, j>> \in DOMAIN a.many /\ a.many[<<e, j>>] = in

-----------------------------------------------------------------------------
\* The database in which the rows ids of a table are as asked.
AsAsked(d, table, ids, a) ==
  LET col(val) == [c \in DOMAIN val |-> IF c \in DOMAIN a.col THEN a.col[c] ELSE val[c]]
      out(e, j) == e \in a.only \/ Says(a, e, j, FALSE)
      key(k) ==
        [j \in DOMAIN d.fk[k] |->
           IF \E e \in DOMAIN a.one : OneKey[e] = k /\ j \in ids
             THEN a.one[CHOOSE e \in DOMAIN a.one : OneKey[e] = k]
           ELSE IF ids # {} /\ \E e \in DOMAIN ManyKey : ManyKey[e] = k /\ Says(a, e, j, TRUE)
             THEN CHOOSE i \in ids : TRUE
           ELSE IF \E e \in DOMAIN ManyKey : ManyKey[e] = k /\ out(e, j) /\ d.fk[k][j] \in ids
             THEN 0 ELSE d.fk[k][j]]
      in(e, mine, other, now) ==
        IF mine \notin ids THEN now ELSE Says(a, e, other, TRUE) \/ (now /\ ~out(e, other))
      pairs(e, side) ==
        {p \in (DOMAIN d.rows["users"]) \X (DOMAIN d.rows["tags"]) :
           in(e, p[side], p[3 - side], p \in d.user_tags)}
  IN  [rows |-> [d.rows EXCEPT ![table] =
                   [i \in DOMAIN @ |-> IF i \in ids THEN col(@[i]) ELSE @[i]]],
       fk |-> [k \in DOMAIN d.fk |-> key(k)],
       user_tags |-> IF table = "users" THEN pairs("tags", 1)
                     ELSE IF table = "tags" THEN pairs("users", 2) ELSE d.user_tags]

\* The database with one more row.
WithBlank(d, table, i) ==
  [d EXCEPT !.rows[table] = With(@, i, Blank[table]),
            !.fk = [k \in DOMAIN @ |->
                      IF (table = "users" /\ k = "user_pinned_post")
                         \/ (table = "posts" /\ k = "user_posts")
                      THEN With(@[k], i, 0) ELSE @[k]]]

Fulfilled ==
  LET t == builder.table
      made[k \in 0 .. Len(asked)] ==
        IF k = 0 THEN db
        ELSE AsAsked(WithBlank(made[k - 1], t, last[t] + k), t, {last[t] + k}, asked[k])
  IN  IF builder.how = "create" THEN made[Len(asked)]
      ELSE AsAsked(db, t, builder.ids \cap DOMAIN db.rows[t], asked[1])

-----------------------------------------------------------------------------
Closed == [table |-> "none", how |-> "closed", ids |-> {}]

Init == builder = Closed /\ asked = <<>> /\ mode = "plain" /\ base = db

\* Builders are opened and asked; nothing happens to the database.
Ask == builder' # builder \/ asked' # asked
Prepare == Ask /\ builder'.how # "closed" /\ UNCHANGED <<db, last, base, mode>>

Save ==
  /\ builder.how # "closed" /\ builder' = Closed /\ asked' = <<>>
  /\ \A t \in DOMAIN last : last'[t] >= last[t]
  /\ \/ db' = Fulfilled /\ UNCHANGED mode
     \/ mode = "plain" /\ UNCHANGED <<db, mode>>
     \/ mode # "plain" /\ mode' = "spoiled"
  /\ base' = IF mode' = "plain" THEN db' ELSE base

\* Rows are deleted, by a builder of another kind.
Delete ==
  /\ \A t \in DOMAIN db.rows : DOMAIN db'.rows[t] \subseteq DOMAIN db.rows[t]
  /\ UNCHANGED <<last, builder, asked, mode>>
  /\ base' = IF mode = "plain" THEN db' ELSE base

Begin == mode = "plain" /\ mode' = "tx" /\ UNCHANGED <<db, last, builder, asked, base>>
Commit ==
  /\ mode # "plain" /\ mode' = "plain" /\ base' = db'
  /\ mode = "tx" => db' = db
  /\ UNCHANGED <<last, builder, asked>>
Rollback ==
  /\ mode # "plain" /\ mode' = "plain" /\ db' = base
  /\ UNCHANGED <<last, builder, asked, base>>

Next == Prepare \/ Save \/ Delete \/ Begin \/ Commit \/ Rollback
Spec == Init /\ [][Next]_vars
=============================================================================
