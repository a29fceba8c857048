-------------------------- MODULE EntProofs --------------------------
(***************************************************************************)
(* Theorems about EntBuilder and EntSession, for every set of databases,   *)
(* structs, option lists, dialects and ids, and for any number of calls,   *)
(* hooks, saves, queries and clients: references stay whole, no save       *)
(* steals a post, hooks see what changes, the builders implement           *)
(* EntPromise, no query invents an edge, no post is lost. First the        *)
(* statements of EntGraph, one by one; then what a mutation may hold; then *)
(* the invariant and the first three. Then the refinement: what was asked  *)
(* is in the mutations (Told), and what the statements of a save make of   *)
(* them is what the promise says, for rows that are there and for new      *)
(* ones. Last the sessions: SInv relates what a query has read to the      *)
(* databases it ran on.                                                    *)
(***************************************************************************)
EXTENDS EntBuilder, EntSession, FiniteSetTheorems, WellFoundedInduction, TLAPS

-----------------------------------------------------------------------------
(* Databases and specifications *)

\* The parts of a database, and that its tables and keys are maps and its pairs
\* are pairs.
Shaped(d) ==
  /\ d \in [rows : {d.rows}, fk : {d.fk}, user_tags : {d.user_tags}]
  /\ DOMAIN d.rows = Tables /\ DOMAIN d.fk = DOMAIN KeyTarget
  /\ d.rows = [t \in Tables |-> d.rows[t]]
  /\ \A t \in Tables : d.rows[t] = [i \in DOMAIN d.rows[t] |-> d.rows[t][i]]
  /\ d.fk = [k \in DOMAIN KeyTarget |-> d.fk[k]]
  /\ \A k \in DOMAIN KeyTarget : d.fk[k] = [i \in DOMAIN d.fk[k] |-> d.fk[k][i]]
  /\ \A pair \in d.user_tags : pair = <<pair[1], pair[2]>>
RowsOK(d) == \A t \in Tables : \A i \in DOMAIN d.rows[t] : d.rows[t][i] \in [Columns(t) -> Values]
\* Every row has an id that its table's sequence l gave.
Given(d, l) == \A t \in Tables : DOMAIN d.rows[t] \subseteq 1 .. l[t]
DbOK(d) == Shaped(d) /\ RowsOK(d) /\ ForeignKeysHold(d)

\* What a save writes of one table.
SpecOK(s) ==
  /\ s.table \in Tables
  /\ DOMAIN s.set \subseteq Columns(s.table) /\ \A c \in DOMAIN s.set : s.set[c] \in Values
  /\ s.table = "users" => s.key = "user_posts"
  /\ s.table = "posts" => s.key = "user_pinned_post" /\ s.joined = NoChange
  /\ s.table = "tags" => s.key = NoKey /\ s.own = NoChange /\ s.others = NoChange

LEMMA KeyFacts ==
  /\ DOMAIN OwnKey = {"users", "posts"} /\ OwnKey["users"] = "user_pinned_post" /\ OwnKey["posts"] = "user_posts"
  /\ DOMAIN KeyTarget = {"user_pinned_post", "user_posts"}
  /\ KeyTarget["user_pinned_post"] = "posts" /\ KeyTarget["user_posts"] = "users"
  /\ NoKey \notin DOMAIN KeyTarget
BY DEF OwnKey, KeyTarget, NoKey

LEMMA NoChangeFacts == NoChange.all = FALSE /\ NoChange.removed = {} /\ NoChange.added = {}
BY DEF NoChange

-----------------------------------------------------------------------------
(* The statements of a save *)

\* 1. The rows, and the foreign key they carry.
Owned(s, i, ids, was) ==
  IF i \notin ids THEN was
  ELSE IF s.own.added # {} THEN CHOOSE j \in s.own.added : TRUE
  ELSE IF s.own.all THEN NoId ELSE was

LEMMA WriteRowsFacts ==
  ASSUME NEW d, Shaped(d), NEW ids, NEW s, SpecOK(s)
  PROVE  LET w == WriteRows(d, ids, s) IN
         /\ Shaped(w) /\ w.user_tags = d.user_tags
         /\ \A t \in Tables : w.rows[t] =
              IF t = s.table
                THEN [i \in DOMAIN d.rows[t] |-> IF i \in ids THEN WriteColumns(d.rows[t][i], s) ELSE d.rows[t][i]]
              ELSE d.rows[t]
         /\ \A t \in DOMAIN OwnKey : w.fk[OwnKey[t]] =
              IF t = s.table
                THEN [i \in DOMAIN d.fk[OwnKey[t]] |-> Owned(s, i, ids, d.fk[OwnKey[t]][i])]
              ELSE d.fk[OwnKey[t]]
<1> DEFINE w == WriteRows(d, ids, s)
<1>1. /\ w \in [rows : {w.rows}, fk : {w.fk}, user_tags : {w.user_tags}]
      /\ DOMAIN w.rows = Tables /\ DOMAIN w.fk = DOMAIN KeyTarget /\ w.user_tags = d.user_tags
      /\ w.rows = [t \in Tables |-> w.rows[t]] /\ w.fk = [k \in DOMAIN KeyTarget |-> w.fk[k]]
  BY DEF Shaped, WriteRows
<1>2. \A t \in Tables : w.rows[t] =
              IF t = s.table
                THEN [i \in DOMAIN d.rows[t] |-> IF i \in ids THEN WriteColumns(d.rows[t][i], s) ELSE d.rows[t][i]]
              ELSE d.rows[t]
  BY DEF Shaped, WriteRows, SpecOK
<1>3. \A k \in DOMAIN KeyTarget : w.fk[k] =
              IF s.table \in DOMAIN OwnKey /\ OwnKey[s.table] = k
                THEN [i \in DOMAIN d.fk[k] |-> Owned(s, i, ids, d.fk[k][i])]
              ELSE d.fk[k]
  BY DEF Shaped, WriteRows, Owned
<1> HIDE DEF w
<1>4. /\ \A k \in DOMAIN KeyTarget : w.fk[k] = [i \in DOMAIN w.fk[k] |-> w.fk[k][i]]
      /\ \A t \in Tables : w.rows[t] = [i \in DOMAIN w.rows[t] |-> w.rows[t][i]]
  <2>1. \A k \in DOMAIN KeyTarget : w.fk[k] = [i \in DOMAIN w.fk[k] |-> w.fk[k][i]]
    BY <1>3 DEF Shaped
  <2>2. \A t \in Tables : d.rows[t] = [i \in DOMAIN d.rows[t] |-> d.rows[t][i]]
    BY DEF Shaped
  <2>3. \A t \in Tables : w.rows[t] = [i \in DOMAIN w.rows[t] |-> w.rows[t][i]]
    BY <1>2, <2>2
  <2>4. QED
    BY <2>1, <2>3
<1>5. Shaped(w)
  BY <1>1, <1>4 DEF Shaped
<1>6. QED
  BY <1>1, <1>2, <1>3, <1>5, KeyFacts DEF w

SameRows(d, e) == \A t \in Tables : DOMAIN d.rows[t] = DOMAIN e.rows[t]

LEMMA WriteRowsOK ==
  ASSUME NEW d, DbOK(d), NEW ids, NEW s, SpecOK(s), OwnTargetExists(d, s)
  PROVE  DbOK(WriteRows(d, ids, s)) /\ SameRows(WriteRows(d, ids, s), d)
<1> DEFINE w == WriteRows(d, ids, s)
<1>1. /\ Shaped(w) /\ w.user_tags = d.user_tags
      /\ \A t \in Tables : w.rows[t] =
           IF t = s.table
             THEN [i \in DOMAIN d.rows[t] |-> IF i \in ids THEN WriteColumns(d.rows[t][i], s) ELSE d.rows[t][i]]
           ELSE d.rows[t]
      /\ \A t \in DOMAIN OwnKey : w.fk[OwnKey[t]] =
           IF t = s.table
             THEN [i \in DOMAIN d.fk[OwnKey[t]] |-> Owned(s, i, ids, d.fk[OwnKey[t]][i])]
           ELSE d.fk[OwnKey[t]]
  BY WriteRowsFacts DEF DbOK
<1> HIDE DEF w
<1>2. SameRows(w, d)
  BY <1>1 DEF SameRows
<1>3. RowsOK(w)
  <2> SUFFICES ASSUME NEW t \in Tables, NEW i \in DOMAIN w.rows[t] PROVE w.rows[t][i] \in [Columns(t) -> Values]
    BY DEF RowsOK
  <2>1. i \in DOMAIN d.rows[t] /\ d.rows[t][i] \in [Columns(t) -> Values]
    BY <1>2 DEF SameRows, DbOK, RowsOK
  <2>2. CASE t = s.table
    <3>1. WriteColumns(d.rows[t][i], s) \in [Columns(t) -> Values]
      BY <2>1, <2>2 DEF WriteColumns, SpecOK, Values
    <3>2. QED
      BY <1>1, <2>1, <2>2, <3>1
  <2>3. CASE t # s.table
    BY <1>1, <2>1, <2>3
  <2>4. QED
    BY <2>2, <2>3
<1>4. ASSUME NEW t \in DOMAIN OwnKey
      PROVE  /\ DOMAIN w.fk[OwnKey[t]] = DOMAIN w.rows[t]
             /\ \A i \in DOMAIN w.fk[OwnKey[t]] :
                  w.fk[OwnKey[t]][i] # NoId => Exists(w, KeyTarget[OwnKey[t]], w.fk[OwnKey[t]][i])
  <2> DEFINE k == OwnKey[t]
  <2>1. t \in Tables /\ KeyTarget[k] \in Tables
    BY KeyFacts DEF Tables
  <2>2. DOMAIN d.fk[k] = DOMAIN d.rows[t] /\ \A i \in DOMAIN d.fk[k] : d.fk[k][i] # NoId => Exists(d, KeyTarget[k], d.fk[k][i])
    BY DEF DbOK, ForeignKeysHold
  <2>3. \A j : Exists(w, KeyTarget[k], j) <=> Exists(d, KeyTarget[k], j)
    BY <1>2, <2>1 DEF Exists, SameRows
  <2>4. DOMAIN w.fk[k] = DOMAIN w.rows[t]
    BY <1>1, <1>2, <2>1, <2>2 DEF SameRows
  <2>5. ASSUME NEW i \in DOMAIN w.fk[k], w.fk[k][i] # NoId PROVE Exists(d, KeyTarget[k], w.fk[k][i])
    <3>1. CASE t # s.table
      BY <1>1, <2>2, <2>5, <3>1
    <3>2. CASE t = s.table
      <4>1. w.fk[k][i] = Owned(s, i, ids, d.fk[k][i]) /\ i \in DOMAIN d.fk[k]
        BY <1>1, <2>5, <3>2
      <4>2. s.own.added # {} => Exists(d, KeyTarget[k], CHOOSE j \in s.own.added : TRUE)
        BY <3>2 DEF OwnTargetExists
      <4>3. QED
        BY <4>1, <4>2, <2>2, <2>5 DEF Owned
    <3>3. QED
      BY <3>1, <3>2
  <2>6. QED
    BY <2>3, <2>4, <2>5
<1>5. \A pair \in w.user_tags : Exists(w, "users", pair[1]) /\ Exists(w, "tags", pair[2])
  BY <1>1, <1>2 DEF SameRows, DbOK, ForeignKeysHold, Exists, Tables
<1>6. ForeignKeysHold(w)
  BY <1>4, <1>5 DEF ForeignKeysHold
<1>7. QED
  BY <1>1, <1>2, <1>3, <1>6 DEF DbOK, w

\* 2. and 3. The join table.
LEMMA JoinFacts ==
  ASSUME NEW d, Shaped(d), NEW ids, NEW s
  PROVE  /\ Shaped(ClearJoin(d, ids, s)) /\ Shaped(AddJoin(d, ids, s))
         /\ ClearJoin(d, ids, s).rows = d.rows /\ AddJoin(d, ids, s).rows = d.rows
         /\ ClearJoin(d, ids, s).fk = d.fk /\ AddJoin(d, ids, s).fk = d.fk
         /\ ClearJoin(d, ids, s).user_tags \subseteq d.user_tags
         /\ AddJoin(d, ids, s).user_tags =
              d.user_tags \cup {Pair(s.table, i, j) : i \in ids, j \in s.joined.added}
<1>1. \A i, j : LET pair == Pair(s.table, i, j) IN pair = <<pair[1], pair[2]>>
  BY DEF Pair
<1>2. QED
  BY <1>1 DEF Shaped, ClearJoin, AddJoin

LEMMA PairExists ==
  ASSUME NEW d, NEW s, SpecOK(s), NEW i \in DOMAIN d.rows[s.table],
         NEW j \in s.joined.added, Exists(d, Partner(s.table), j)
  PROVE  LET pair == Pair(s.table, i, j) IN Exists(d, "users", pair[1]) /\ Exists(d, "tags", pair[2])
<1>1. s.table \in {"users", "tags"}
  BY NoChangeFacts DEF SpecOK, Tables
<1>2. CASE s.table = "users"
  BY <1>2 DEF Pair, Partner, Exists
<1>3. CASE s.table = "tags"
  BY <1>3 DEF Pair, Partner, Exists
<1>4. QED
  BY <1>1, <1>2, <1>3

\* What does not touch rows and keys keeps them.
LEMMA OnlyPairs ==
  ASSUME NEW d, DbOK(d), NEW e, Shaped(e), e.rows = d.rows, e.fk = d.fk,
         \A pair \in e.user_tags : Exists(d, "users", pair[1]) /\ Exists(d, "tags", pair[2])
  PROVE  DbOK(e)
BY DEF DbOK, RowsOK, ForeignKeysHold, Exists

LEMMA WriteJoinOK ==
  ASSUME NEW d, DbOK(d), NEW s, SpecOK(s), NEW ids, ids \subseteq DOMAIN d.rows[s.table], NEW sql
  PROVE  LET w == WriteJoin(d, ids, s, sql).db IN
         /\ DbOK(w) /\ w.rows = d.rows /\ w.fk = d.fk
         /\ s.joined = NoChange => w.user_tags = d.user_tags
<1> DEFINE c == ClearJoin(d, ids, s)
<1>1. Shaped(c) /\ c.rows = d.rows /\ c.fk = d.fk /\ c.user_tags \subseteq d.user_tags
  BY JoinFacts DEF DbOK
<1>2. DbOK(c)
  <2>1. \A pair \in c.user_tags : Exists(d, "users", pair[1]) /\ Exists(d, "tags", pair[2])
    BY <1>1 DEF DbOK, ForeignKeysHold
  <2>2. QED
    BY <1>1, <2>1, OnlyPairs
<1>3. ASSUME JoinTakes(c, ids, s, sql)
      PROVE  LET w == AddJoin(c, ids, s) IN DbOK(w) /\ w.rows = d.rows /\ w.fk = d.fk
  <2> DEFINE w == AddJoin(c, ids, s)
  <2>1. /\ Shaped(w) /\ w.rows = c.rows /\ w.fk = c.fk
        /\ w.user_tags = c.user_tags \cup {Pair(s.table, i, j) : i \in ids, j \in s.joined.added}
    BY <1>1, JoinFacts
  <2>2. ASSUME NEW pair \in w.user_tags PROVE Exists(c, "users", pair[1]) /\ Exists(c, "tags", pair[2])
    <3>1. CASE pair \in c.user_tags
      BY <3>1, <1>2 DEF DbOK, ForeignKeysHold
    <3>2. CASE pair \notin c.user_tags
      <4>1. PICK i \in ids, j \in s.joined.added : pair = Pair(s.table, i, j)
        BY <2>1, <2>2, <3>2
      <4>2. Exists(c, Partner(s.table), j) /\ i \in DOMAIN c.rows[s.table]
        BY <1>1, <1>3, <4>1 DEF JoinTakes
      <4>3. QED
        BY <4>1, <4>2, PairExists
    <3>3. QED
      BY <3>1, <3>2
  <2> HIDE DEF w
  <2>3. DbOK(w)
    BY <1>2, <2>1, <2>2, OnlyPairs
  <2>4. QED
    BY <2>1, <2>3, <1>1 DEF w
<1> HIDE DEF c
<1>4. WriteJoin(d, ids, s, sql).db = IF JoinTakes(c, ids, s, sql) THEN AddJoin(c, ids, s) ELSE c
  BY DEF WriteJoin, Outcome, c
<1>5. ASSUME s.joined = NoChange
      PROVE  c.user_tags = d.user_tags /\ AddJoin(c, ids, s).user_tags = d.user_tags
  <2>1. s.joined.all = FALSE /\ s.joined.removed = {} /\ s.joined.added = {}
    BY <1>5, NoChangeFacts
  <2>2. c.user_tags = d.user_tags
    BY <2>1 DEF c, ClearJoin, DbOK, Shaped
  <2>3. AddJoin(c, ids, s).user_tags = c.user_tags \cup {Pair(s.table, i, j) : i \in ids, j \in s.joined.added}
    BY <1>1, JoinFacts
  <2> HIDE DEF c
  <2>4. {Pair(s.table, i, j) : i \in ids, j \in s.joined.added} = {}
    BY <2>1
  <2>5. QED
    BY <2>2, <2>3, <2>4
<1>6. QED
  BY <1>1, <1>2, <1>3, <1>4, <1>5

\* 4. and 5. The foreign key in the rows at the other end.
LEMMA SpecKey ==
  ASSUME NEW s, SpecOK(s)
  PROVE  \/ s.key = NoKey /\ s.others = NoChange
         \/ s.key \in DOMAIN KeyTarget /\ KeyTarget[s.key] = s.table /\ s.key # NoKey
BY KeyFacts DEF SpecOK, Tables

\* What touches only one key, and names rows that are there.
LEMMA OnlyKey ==
  ASSUME NEW d, DbOK(d), NEW k \in DOMAIN KeyTarget, NEW e, Shaped(e),
         e.rows = d.rows, e.user_tags = d.user_tags,
         \A other \in DOMAIN KeyTarget \ {k} : e.fk[other] = d.fk[other],
         DOMAIN e.fk[k] = DOMAIN d.fk[k],
         \A j \in DOMAIN e.fk[k] : e.fk[k][j] # NoId => Exists(d, KeyTarget[k], e.fk[k][j])
  PROVE  DbOK(e)
<1>1. ASSUME NEW t \in DOMAIN OwnKey
      PROVE  /\ DOMAIN e.fk[OwnKey[t]] = DOMAIN e.rows[t]
             /\ \A i \in DOMAIN e.fk[OwnKey[t]] :
                  e.fk[OwnKey[t]][i] # NoId => Exists(e, KeyTarget[OwnKey[t]], e.fk[OwnKey[t]][i])
  <2>1. OwnKey[t] \in DOMAIN KeyTarget
    BY KeyFacts
  <2>2. CASE OwnKey[t] = k
    BY <2>2 DEF DbOK, ForeignKeysHold, Exists
  <2>3. CASE OwnKey[t] # k
    BY <2>1, <2>3 DEF DbOK, ForeignKeysHold, Exists
  <2>4. QED
    BY <2>2, <2>3
<1>2. \A pair \in e.user_tags : Exists(e, "users", pair[1]) /\ Exists(e, "tags", pair[2])
  BY DEF DbOK, ForeignKeysHold, Exists
<1>3. ForeignKeysHold(e)
  BY <1>1, <1>2 DEF ForeignKeysHold
<1>4. QED
  BY <1>3 DEF DbOK, RowsOK

\* What clearing and adding keys may change: a key of one of ids is lost, and a
\* row without one gets it.
Rekeyed(d, e, s, ids) ==
  /\ e.rows = d.rows /\ e.user_tags = d.user_tags
  /\ \A k \in DOMAIN KeyTarget \ {s.key} : e.fk[k] = d.fk[k]
  /\ \A k \in DOMAIN KeyTarget : DOMAIN e.fk[k] = DOMAIN d.fk[k]
  /\ \A k \in DOMAIN KeyTarget : \A j \in DOMAIN d.fk[k] :
       e.fk[k][j] = NoId \/ d.fk[k][j] = NoId \/ d.fk[k][j] \in ids \/ e.fk[k][j] = d.fk[k][j]

KeysCleared(d, c, s, ids) ==
  /\ DbOK(c) /\ c.rows = d.rows /\ c.user_tags = d.user_tags
  /\ \A k \in DOMAIN KeyTarget \ {s.key} : c.fk[k] = d.fk[k]
  /\ s.key # NoKey => c.fk[s.key] =
       [j \in DOMAIN d.fk[s.key] |->
          IF d.fk[s.key][j] \in ids /\ (s.others.all \/ j \in s.others.removed) THEN NoId ELSE d.fk[s.key][j]]
KeysAdded(d, a, s, i) ==
  /\ DbOK(a) /\ a.rows = d.rows /\ a.user_tags = d.user_tags
  /\ \A k \in DOMAIN KeyTarget \ {s.key} : a.fk[k] = d.fk[k]
  /\ s.key # NoKey => a.fk[s.key] =
       [j \in DOMAIN d.fk[s.key] |->
          IF j \in s.others.added /\ d.fk[s.key][j] = NoId THEN i ELSE d.fk[s.key][j]]

LEMMA ClearKeysOK ==
  ASSUME NEW d, DbOK(d), NEW s, SpecOK(s), NEW ids
  PROVE  KeysCleared(d, ClearKeys(d, ids, s), s, ids)
<1> DEFINE c == ClearKeys(d, ids, s)
<1>1. CASE s.key = NoKey
  BY <1>1, KeyFacts DEF ClearKeys, KeysCleared
<1>2. CASE s.key \in DOMAIN KeyTarget /\ KeyTarget[s.key] = s.table /\ s.key # NoKey
  <2>1. /\ c \in [rows : {c.rows}, fk : {c.fk}, user_tags : {c.user_tags}]
        /\ DOMAIN c.fk = DOMAIN KeyTarget /\ c.rows = d.rows /\ c.user_tags = d.user_tags
        /\ c.fk = [k \in DOMAIN KeyTarget |-> c.fk[k]]
    BY <1>2 DEF ClearKeys, DbOK, Shaped
  <2>2. /\ \A k \in DOMAIN KeyTarget \ {s.key} : c.fk[k] = d.fk[k]
        /\ c.fk[s.key] =
             [j \in DOMAIN d.fk[s.key] |->
                IF d.fk[s.key][j] \in ids /\ (s.others.all \/ j \in s.others.removed) THEN NoId ELSE d.fk[s.key][j]]
    BY <1>2 DEF ClearKeys, DbOK, Shaped
  <2> HIDE DEF c
  <2>3. Shaped(c)
    BY <2>1, <2>2, <1>2 DEF DbOK, Shaped
  <2>4. \A j \in DOMAIN d.fk[s.key] : d.fk[s.key][j] # NoId => Exists(d, KeyTarget[s.key], d.fk[s.key][j])
    BY <1>2, KeyFacts DEF DbOK, ForeignKeysHold
  <2>5. DbOK(c)
    <3>1. DOMAIN c.fk[s.key] = DOMAIN d.fk[s.key] /\ \A k \in DOMAIN KeyTarget \ {s.key} : c.fk[k] = d.fk[k]
      BY <2>2
    <3>2. \A j \in DOMAIN c.fk[s.key] : c.fk[s.key][j] # NoId => Exists(d, KeyTarget[s.key], c.fk[s.key][j])
      BY <2>2, <2>4
    <3>3. s.key \in DOMAIN KeyTarget /\ c.rows = d.rows /\ c.user_tags = d.user_tags
      BY <1>2, <2>1
    <3>4. QED
      BY <2>3, <3>1, <3>2, <3>3, OnlyKey
  <2>6. QED
    BY <2>1, <2>2, <2>5 DEF c, KeysCleared
<1>3. QED
  BY <1>1, <1>2, SpecKey

LEMMA AddKeysOK ==
  ASSUME NEW d, DbOK(d), NEW s, SpecOK(s), NEW i \in DOMAIN d.rows[s.table]
  PROVE  KeysAdded(d, AddKeys(d, i, s), s, i)
<1> DEFINE a == AddKeys(d, i, s)
<1>1. CASE s.key = NoKey
  BY <1>1, KeyFacts DEF AddKeys, KeysAdded
<1>2. CASE s.key \in DOMAIN KeyTarget /\ KeyTarget[s.key] = s.table /\ s.key # NoKey
  <2>1. /\ a \in [rows : {a.rows}, fk : {a.fk}, user_tags : {a.user_tags}]
        /\ DOMAIN a.fk = DOMAIN KeyTarget /\ a.rows = d.rows /\ a.user_tags = d.user_tags
        /\ a.fk = [k \in DOMAIN KeyTarget |-> a.fk[k]]
    BY <1>2 DEF AddKeys, DbOK, Shaped
  <2>2. /\ \A k \in DOMAIN KeyTarget \ {s.key} : a.fk[k] = d.fk[k]
        /\ a.fk[s.key] =
             [j \in DOMAIN d.fk[s.key] |->
                IF j \in s.others.added /\ d.fk[s.key][j] = NoId THEN i ELSE d.fk[s.key][j]]
    BY <1>2 DEF AddKeys, DbOK, Shaped
  <2> HIDE DEF a
  <2>3. Shaped(a)
    BY <2>1, <2>2, <1>2 DEF DbOK, Shaped
  <2>4. \A j \in DOMAIN d.fk[s.key] : d.fk[s.key][j] # NoId => Exists(d, KeyTarget[s.key], d.fk[s.key][j])
    BY <1>2, KeyFacts DEF DbOK, ForeignKeysHold
  <2>5. Exists(d, KeyTarget[s.key], i)
    BY <1>2 DEF Exists
  <2>6. DbOK(a)
    <3>1. DOMAIN a.fk[s.key] = DOMAIN d.fk[s.key] /\ \A k \in DOMAIN KeyTarget \ {s.key} : a.fk[k] = d.fk[k]
      BY <2>2
    <3>2. \A j \in DOMAIN a.fk[s.key] : a.fk[s.key][j] # NoId => Exists(d, KeyTarget[s.key], a.fk[s.key][j])
      BY <2>2, <2>4, <2>5
    <3>3. s.key \in DOMAIN KeyTarget /\ a.rows = d.rows /\ a.user_tags = d.user_tags
      BY <1>2, <2>1
    <3>4. QED
      BY <2>3, <3>1, <3>2, <3>3, OnlyKey
  <2>7. QED
    BY <2>1, <2>2, <2>6 DEF a, KeysAdded
<1>3. QED
  BY <1>1, <1>2, SpecKey

\* What new rows may change: a row without a key gets one.
Filled(d, e, k) == \A j \in DOMAIN d.fk[k] : e.fk[k][j] = d.fk[k][j] \/ d.fk[k][j] = NoId
OnlyAdds(s) == ~s.others.all /\ s.others.removed = {}

LEMMA WriteKeysOK ==
  ASSUME NEW d, DbOK(d), NEW s, SpecOK(s), NEW ids, ids # {}, ids \subseteq DOMAIN d.rows[s.table]
  PROVE  LET w == WriteKeys(d, ids, s).db IN
         /\ DbOK(w) /\ Rekeyed(d, w, s, ids)
         /\ s.others = NoChange => w.fk = d.fk
         /\ OnlyAdds(s) => \A k \in DOMAIN KeyTarget : Filled(d, w, k)
<1> DEFINE c == ClearKeys(d, ids, s)
           i == CHOOSE x \in ids : TRUE
           a == AddKeys(c, i, s)
<1>1. KeysCleared(d, c, s, ids)
  BY ClearKeysOK
<1>2. i \in ids /\ i \in DOMAIN c.rows[s.table] /\ DbOK(c)
  BY <1>1 DEF KeysCleared
<1> HIDE DEF c, i
<1>3. KeysAdded(c, a, s, i)
  BY <1>2, AddKeysOK
<1> HIDE DEF a
<1>4. Rekeyed(d, c, s, ids) /\ Rekeyed(d, a, s, ids)
  <2>1. c.rows = d.rows /\ c.user_tags = d.user_tags /\ a.rows = d.rows /\ a.user_tags = d.user_tags
    BY <1>1, <1>3 DEF KeysCleared, KeysAdded
  <2>2. \A k \in DOMAIN KeyTarget \ {s.key} : c.fk[k] = d.fk[k] /\ a.fk[k] = d.fk[k]
    BY <1>1, <1>3 DEF KeysCleared, KeysAdded
  <2>3. ASSUME NEW k \in DOMAIN KeyTarget
        PROVE  /\ DOMAIN c.fk[k] = DOMAIN d.fk[k] /\ DOMAIN a.fk[k] = DOMAIN d.fk[k]
               /\ \A j \in DOMAIN d.fk[k] :
                    \A is \in {c.fk[k][j], a.fk[k][j]} :
                      is = NoId \/ d.fk[k][j] = NoId \/ d.fk[k][j] \in ids \/ is = d.fk[k][j]
    <3>1. CASE k # s.key
      BY <2>2, <3>1
    <3>2. CASE k = s.key
      <4>1. s.key # NoKey
        BY <3>2, KeyFacts
      <4>2. c.fk[k] =
              [j \in DOMAIN d.fk[k] |->
                 IF d.fk[k][j] \in ids /\ (s.others.all \/ j \in s.others.removed) THEN NoId ELSE d.fk[k][j]]
        BY <1>1, <3>2, <4>1 DEF KeysCleared
      <4>3. a.fk[k] =
              [j \in DOMAIN c.fk[k] |-> IF j \in s.others.added /\ c.fk[k][j] = NoId THEN i ELSE c.fk[k][j]]
        BY <1>3, <3>2, <4>1 DEF KeysAdded
      <4>4. QED
        BY <4>2, <4>3
    <3>3. QED
      BY <3>1, <3>2
  <2>4. QED
    BY <2>1, <2>2, <2>3 DEF Rekeyed
<1>5. ASSUME s.others = NoChange PROVE c.fk = d.fk /\ s.others.added = {}
  <2>1. \A k \in DOMAIN KeyTarget : c.fk[k] = d.fk[k]
    <3>1. CASE s.key = NoKey
      BY <1>1, <3>1, KeyFacts DEF KeysCleared
    <3>2. CASE s.key # NoKey
      <4>1. s.key \in DOMAIN KeyTarget
        BY <3>2, SpecKey
      <4>2. c.fk[s.key] = [j \in DOMAIN d.fk[s.key] |-> d.fk[s.key][j]]
        BY <1>1, <1>5, <3>2, NoChangeFacts DEF KeysCleared
      <4>3. c.fk[s.key] = d.fk[s.key]
        BY <4>1, <4>2 DEF DbOK, Shaped
      <4>4. QED
        BY <1>1, <4>1, <4>3 DEF KeysCleared
    <3>3. QED
      BY <3>1, <3>2
  <2>2. c.fk = [k \in DOMAIN KeyTarget |-> c.fk[k]] /\ d.fk = [k \in DOMAIN KeyTarget |-> d.fk[k]]
    BY <1>1 DEF KeysCleared, DbOK, Shaped
  <2>3. QED
    BY <1>5, <2>1, <2>2, NoChangeFacts
<1>6. WriteKeys(d, ids, s).db \in {c, a} /\ (s.others.added = {} => WriteKeys(d, ids, s).db = c)
  BY DEF WriteKeys, Outcome, c, a, i
<1>7. ASSUME OnlyAdds(s), NEW k \in DOMAIN KeyTarget PROVE Filled(d, c, k) /\ Filled(d, a, k)
  <2>1. CASE k # s.key
    BY <1>1, <1>3, <2>1 DEF Filled, KeysCleared, KeysAdded
  <2>2. CASE k = s.key
    <3>1. s.key # NoKey /\ \A j \in DOMAIN d.fk[k] : c.fk[k][j] = d.fk[k][j]
      BY <1>1, <1>7, <2>2, KeyFacts DEF KeysCleared, OnlyAdds
    <3>2. \A j \in DOMAIN c.fk[k] : a.fk[k][j] = c.fk[k][j] \/ c.fk[k][j] = NoId
      BY <1>3, <2>2, <3>1 DEF KeysAdded
    <3>3. DOMAIN c.fk[k] = DOMAIN d.fk[k]
      BY <1>4 DEF Rekeyed
    <3>4. QED
      BY <3>1, <3>2, <3>3 DEF Filled
  <2>3. QED
    BY <2>1, <2>2
<1>8. QED
  BY <1>1, <1>3, <1>4, <1>5, <1>6, <1>7 DEF KeysCleared, KeysAdded

-----------------------------------------------------------------------------
(* Saves of rows that are there *)

\* A row at the other end keeps its key, loses one that named one of ids, or
\* had none.
Moved(d, e, k, ids) ==
  \A j \in DOMAIN d.fk[k] :
    e.fk[k][j] = NoId \/ d.fk[k][j] = NoId \/ d.fk[k][j] \in ids \/ e.fk[k][j] = d.fk[k][j]

\* What statements of s for the rows ids leave of a database.
Frame(d, e, s, ids) ==
  /\ SameRows(e, d)
  /\ \A t \in Tables : \A i \in DOMAIN d.rows[t] : \A c \in Columns(t) :
       e.rows[t][i][c] # d.rows[t][i][c] => t = s.table /\ c \in DOMAIN s.set \cup s.cleared
  /\ \A t \in DOMAIN OwnKey :
       e.fk[OwnKey[t]] # d.fk[OwnKey[t]] => (t = s.table /\ s.own # NoChange) \/ (OwnKey[t] = s.key /\ s.others # NoChange)
  /\ e.user_tags # d.user_tags => s.joined # NoChange
  /\ s.table = "users" => Moved(d, e, "user_posts", ids)

LEMMA NothingMoved ==
  ASSUME NEW d, NEW s, NEW ids PROVE Frame(d, d, s, ids)
BY DEF Frame, SameRows, Moved

\* What the statements about edges leave.
EdgesOnly(d, w, s, ids) ==
  /\ w.rows = d.rows
  /\ \A k \in DOMAIN KeyTarget : w.fk[k] # d.fk[k] => k = s.key /\ s.others # NoChange
  /\ w.user_tags # d.user_tags => s.joined # NoChange
  /\ \A k \in DOMAIN KeyTarget : Moved(d, w, k, ids)
  /\ OnlyAdds(s) => \A k \in DOMAIN KeyTarget : Filled(d, w, k)

LEMMA WriteEdgesOK ==
  ASSUME NEW d, DbOK(d), NEW s, SpecOK(s), NEW ids, ids # {}, ids \subseteq DOMAIN d.rows[s.table], NEW sql
  PROVE  LET w == WriteEdges(d, ids, s, sql).db IN DbOK(w) /\ EdgesOnly(d, w, s, ids)
<1> DEFINE j == WriteJoin(d, ids, s, sql).db
           w == WriteKeys(j, ids, s).db
<1>1. DbOK(j) /\ j.rows = d.rows /\ j.fk = d.fk /\ (s.joined = NoChange => j.user_tags = d.user_tags)
  BY WriteJoinOK
<1> HIDE DEF j
<1>2. /\ DbOK(w) /\ Rekeyed(j, w, s, ids) /\ (s.others = NoChange => w.fk = j.fk)
      /\ OnlyAdds(s) => \A k \in DOMAIN KeyTarget : Filled(j, w, k)
  BY <1>1, WriteKeysOK
<1> HIDE DEF w
<1>3. w.rows = d.rows /\ w.user_tags = j.user_tags
  BY <1>1, <1>2 DEF Rekeyed
<1>4. \A k \in DOMAIN KeyTarget : w.fk[k] # d.fk[k] => k = s.key /\ s.others # NoChange
  BY <1>1, <1>2 DEF Rekeyed
<1>5. \A k \in DOMAIN KeyTarget : Moved(d, w, k, ids) /\ Moved(d, j, k, ids)
  BY <1>1, <1>2 DEF Rekeyed, Moved
<1>6. OnlyAdds(s) => \A k \in DOMAIN KeyTarget : Filled(d, w, k) /\ Filled(d, j, k)
  BY <1>1, <1>2 DEF Filled
<1>7. WriteEdges(d, ids, s, sql).db \in {j, w}
  BY DEF WriteEdges, j, w
<1>8. EdgesOnly(d, w, s, ids) /\ EdgesOnly(d, j, s, ids)
  BY <1>1, <1>3, <1>4, <1>5, <1>6 DEF EdgesOnly
<1>9. QED
  BY <1>1, <1>2, <1>7, <1>8

LEMMA UpdateNodesOK ==
  ASSUME NEW d, DbOK(d), NEW s, SpecOK(s), NEW ids, ids \subseteq DOMAIN d.rows[s.table], NEW sql
  PROVE  LET w == UpdateNodes(d, ids, s, sql).db IN DbOK(w) /\ Frame(d, w, s, ids)
<1>1. CASE UpdateNodes(d, ids, s, sql).db = d
  BY <1>1, NothingMoved
<1>2. CASE /\ UpdateNodes(d, ids, s, sql) = WriteEdges(WriteRows(d, ids, s), ids, s, sql)
           /\ ids # {} /\ OwnTargetExists(d, s)
  <2> DEFINE r == WriteRows(d, ids, s)
             w == WriteEdges(r, ids, s, sql).db
  <2>1. DbOK(r) /\ SameRows(r, d)
    BY <1>2, WriteRowsOK
  <2>2. /\ r.user_tags = d.user_tags
        /\ \A t \in Tables : r.rows[t] =
             IF t = s.table
               THEN [i \in DOMAIN d.rows[t] |-> IF i \in ids THEN WriteColumns(d.rows[t][i], s) ELSE d.rows[t][i]]
             ELSE d.rows[t]
        /\ \A t \in DOMAIN OwnKey : r.fk[OwnKey[t]] =
             IF t = s.table
               THEN [i \in DOMAIN d.fk[OwnKey[t]] |-> Owned(s, i, ids, d.fk[OwnKey[t]][i])]
             ELSE d.fk[OwnKey[t]]
    BY WriteRowsFacts DEF DbOK
  <2>3. ids \subseteq DOMAIN r.rows[s.table]
    BY <2>1 DEF SameRows, SpecOK
  <2> HIDE DEF r
  <2>a. DbOK(w) /\ EdgesOnly(r, w, s, ids)
    BY <1>2, <2>1, <2>3, WriteEdgesOK
  <2> HIDE DEF w
  <2>4. /\ DbOK(w) /\ w.rows = r.rows
        /\ \A k \in DOMAIN KeyTarget : w.fk[k] # r.fk[k] => k = s.key /\ s.others # NoChange
        /\ w.user_tags # r.user_tags => s.joined # NoChange
        /\ \A k \in DOMAIN KeyTarget : Moved(r, w, k, ids)
    BY <2>a DEF EdgesOnly
  <2>5. ASSUME NEW t \in Tables, NEW i \in DOMAIN d.rows[t], NEW c \in Columns(t), w.rows[t][i][c] # d.rows[t][i][c]
        PROVE  t = s.table /\ c \in DOMAIN s.set \cup s.cleared
    <3>1. t = s.table /\ w.rows[t][i] = WriteColumns(d.rows[t][i], s)
      <4>1. w.rows[t][i] = r.rows[t][i]
        BY <2>4
      <4>2. t = s.table
        BY <2>2, <2>5, <4>1
      <4>3. r.rows[t][i] = IF i \in ids THEN WriteColumns(d.rows[t][i], s) ELSE d.rows[t][i]
        BY <2>2, <4>2
      <4>4. QED
        BY <2>5, <4>1, <4>2, <4>3
    <3>2. c \in DOMAIN d.rows[t][i]
      BY <2>5 DEF DbOK, RowsOK
    <3>3. QED
      BY <2>5, <3>1, <3>2 DEF WriteColumns
  <2>6. ASSUME NEW t \in DOMAIN OwnKey, w.fk[OwnKey[t]] # d.fk[OwnKey[t]]
        PROVE  (t = s.table /\ s.own # NoChange) \/ (OwnKey[t] = s.key /\ s.others # NoChange)
    <3>1. CASE w.fk[OwnKey[t]] # r.fk[OwnKey[t]]
      BY <2>4, <3>1, KeyFacts
    <3>2. CASE w.fk[OwnKey[t]] = r.fk[OwnKey[t]]
      <4>1. t = s.table /\ r.fk[OwnKey[t]] = [i \in DOMAIN d.fk[OwnKey[t]] |-> Owned(s, i, ids, d.fk[OwnKey[t]][i])]
        BY <2>2, <2>6, <3>2
      <4>2. d.fk[OwnKey[t]] = [i \in DOMAIN d.fk[OwnKey[t]] |-> d.fk[OwnKey[t]][i]]
        BY KeyFacts DEF DbOK, Shaped
      <4>3. s.own = NoChange => \A i : Owned(s, i, ids, d.fk[OwnKey[t]][i]) = d.fk[OwnKey[t]][i]
        BY NoChangeFacts DEF Owned
      <4>4. s.own # NoChange
        BY <2>6, <3>2, <4>1, <4>2, <4>3
      <4>5. QED
        BY <4>1, <4>4
    <3>3. QED
      BY <3>1, <3>2
  <2>7. s.table = "users" => Moved(d, w, "user_posts", ids)
    <3>1. s.table = "users" => r.fk["user_posts"] = d.fk["user_posts"]
      BY <2>2, KeyFacts
    <3>2. Moved(r, w, "user_posts", ids)
      BY <2>4, KeyFacts
    <3>3. QED
      BY <3>1, <3>2 DEF Moved
  <2>8. SameRows(w, d)
    BY <2>1, <2>4 DEF SameRows
  <2>9. Frame(d, w, s, ids)
    BY <2>2, <2>4, <2>5, <2>6, <2>7, <2>8 DEF Frame
  <2>10. QED
    BY <1>2, <2>4, <2>9 DEF w, r
<1>3. QED
  BY <1>1, <1>2 DEF UpdateNodes, Outcome

LEMMA UpdateNodeOK ==
  ASSUME NEW d, DbOK(d), NEW s, SpecOK(s), NEW i, NEW sql
  PROVE  LET w == UpdateNode(d, i, s, sql).db IN DbOK(w) /\ Frame(d, w, s, {i})
<1>1. CASE ~Exists(d, s.table, i)
  <2>1. UpdateNode(d, i, s, sql).db = d
    BY <1>1 DEF UpdateNode, Outcome
  <2>2. QED
    BY <2>1, NothingMoved
<1>2. CASE Exists(d, s.table, i)
  <2>1. UpdateNode(d, i, s, sql) = UpdateNodes(d, {i}, s, sql) /\ {i} \subseteq DOMAIN d.rows[s.table]
    BY <1>2 DEF UpdateNode, Exists
  <2>2. QED
    BY <2>1, UpdateNodesOK
<1>3. QED
  BY <1>1, <1>2

-----------------------------------------------------------------------------
(* New rows *)

\* What a save writes of a new row: all its columns.
NewSpec(s) == SpecOK(s) /\ s.set \in [Columns(s.table) -> Values] /\ OnlyAdds(s)

\* The rows that inserts added, of one table.
Grown(d, e, t, new) ==
  /\ DOMAIN e.rows[t] = DOMAIN d.rows[t] \cup new
  /\ \A other \in Tables \ {t} : DOMAIN e.rows[other] = DOMAIN d.rows[other]
  /\ e.user_tags = d.user_tags
  /\ \A k \in DOMAIN KeyTarget : (t \in DOMAIN OwnKey => k # OwnKey[t]) => e.fk[k] = d.fk[k]

Inserted(d, w, t, first, specs, new) ==
  /\ w.user_tags = d.user_tags
  /\ w.rows[t] = [i \in DOMAIN d.rows[t] \cup new |->
                    IF i \in new THEN specs[i - first + 1].set ELSE d.rows[t][i]]
  /\ \A other \in Tables \ {t} : w.rows[other] = d.rows[other]
  /\ \A k \in DOMAIN KeyTarget : w.fk[k] =
       IF t \in DOMAIN OwnKey /\ OwnKey[t] = k
         THEN [i \in DOMAIN d.fk[k] \cup new |-> IF i \in new THEN OwnID(specs[i - first + 1]) ELSE d.fk[k][i]]
       ELSE d.fk[k]

LEMMA InsertRowsFacts ==
  ASSUME NEW d, Shaped(d), NEW first, NEW specs, specs[1].table \in Tables
  PROVE  LET w == InsertRows(d, first, specs) IN
         Shaped(w) /\ Inserted(d, w, specs[1].table, first, specs, first .. first + Len(specs) - 1)
<1> DEFINE w == InsertRows(d, first, specs)
           t == specs[1].table
           new == first .. first + Len(specs) - 1
<1>1. /\ w \in [rows : {w.rows}, fk : {w.fk}, user_tags : {w.user_tags}]
      /\ DOMAIN w.rows = Tables /\ DOMAIN w.fk = DOMAIN KeyTarget /\ w.user_tags = d.user_tags
      /\ w.fk = [k \in DOMAIN KeyTarget |-> w.fk[k]]
  BY DEF Shaped, InsertRows
<1>a. w.rows = [u \in Tables |-> w.rows[u]]
  <2>1. w.rows = [d.rows EXCEPT ![t] = [i \in DOMAIN @ \cup new |-> IF i \in new THEN specs[i - first + 1].set ELSE @[i]]]
    BY DEF Shaped, InsertRows
  <2> HIDE DEF w, new
  <2>2. QED
    BY <2>1 DEF Shaped
<1>2. /\ w.rows[t] = [i \in DOMAIN d.rows[t] \cup new |->
                        IF i \in new THEN specs[i - first + 1].set ELSE d.rows[t][i]]
      /\ \A other \in Tables \ {t} : w.rows[other] = d.rows[other]
  BY DEF Shaped, InsertRows
<1>3. \A k \in DOMAIN KeyTarget : w.fk[k] =
         IF t \in DOMAIN OwnKey /\ OwnKey[t] = k
           THEN [i \in DOMAIN d.fk[k] \cup new |-> IF i \in new THEN OwnID(specs[i - first + 1]) ELSE d.fk[k][i]]
         ELSE d.fk[k]
  BY DEF Shaped, InsertRows
<1> HIDE DEF w, new
<1>4. /\ \A k \in DOMAIN KeyTarget : w.fk[k] = [i \in DOMAIN w.fk[k] |-> w.fk[k][i]]
      /\ \A u \in Tables : w.rows[u] = [i \in DOMAIN w.rows[u] |-> w.rows[u][i]]
  BY <1>2, <1>3 DEF Shaped
<1>5. Shaped(w)
  BY <1>1, <1>a, <1>4 DEF Shaped
<1>6. Inserted(d, w, t, first, specs, new)
  BY <1>1, <1>2, <1>3 DEF Inserted
<1>7. QED
  BY <1>5, <1>6 DEF w, new

LEMMA InsertRowsOK ==
  ASSUME NEW d, DbOK(d), NEW first \in Nat, NEW t \in Tables,
         NEW specs, Len(specs) \in Nat \ {0}, DOMAIN specs = 1 .. Len(specs),
         \A k \in DOMAIN specs : NewSpec(specs[k]) /\ specs[k].table = t /\ OwnTargetExists(d, specs[k])
  PROVE  LET w == InsertRows(d, first, specs) IN
         DbOK(w) /\ Grown(d, w, t, first .. first + Len(specs) - 1)
<1> DEFINE w == InsertRows(d, first, specs)
           new == first .. first + Len(specs) - 1
<1>1. 1 \in DOMAIN specs /\ specs[1].table = t /\ \A i \in new : i - first + 1 \in DOMAIN specs
  OBVIOUS
<1>a. Shaped(w) /\ Inserted(d, w, t, first, specs, new)
  BY <1>1, InsertRowsFacts DEF DbOK
<1> HIDE DEF w, new
<1>2. /\ Shaped(w) /\ w.user_tags = d.user_tags
      /\ w.rows[t] = [i \in DOMAIN d.rows[t] \cup new |->
                        IF i \in new THEN specs[i - first + 1].set ELSE d.rows[t][i]]
      /\ \A other \in Tables \ {t} : w.rows[other] = d.rows[other]
      /\ \A k \in DOMAIN KeyTarget : w.fk[k] =
           IF t \in DOMAIN OwnKey /\ OwnKey[t] = k
             THEN [i \in DOMAIN d.fk[k] \cup new |-> IF i \in new THEN OwnID(specs[i - first + 1]) ELSE d.fk[k][i]]
           ELSE d.fk[k]
  BY <1>a DEF Inserted
<1>3. Grown(d, w, t, new)
  BY <1>2 DEF Grown
<1>4. \A table \in Tables : \A j : Exists(d, table, j) => Exists(w, table, j)
  BY <1>3 DEF Grown, Exists
<1>5. RowsOK(w)
  <2> SUFFICES ASSUME NEW u \in Tables, NEW i \in DOMAIN w.rows[u] PROVE w.rows[u][i] \in [Columns(u) -> Values]
    BY DEF RowsOK
  <2>1. CASE u # t
    BY <1>2, <2>1 DEF DbOK, RowsOK
  <2>2. CASE u = t /\ i \in new
    BY <1>1, <1>2, <2>2 DEF NewSpec
  <2>3. CASE u = t /\ i \notin new
    BY <1>2, <2>3 DEF DbOK, RowsOK
  <2>4. QED
    BY <2>1, <2>2, <2>3
<1>6. ASSUME NEW u \in DOMAIN OwnKey
      PROVE  /\ DOMAIN w.fk[OwnKey[u]] = DOMAIN w.rows[u]
             /\ \A i \in DOMAIN w.fk[OwnKey[u]] :
                  w.fk[OwnKey[u]][i] # NoId => Exists(w, KeyTarget[OwnKey[u]], w.fk[OwnKey[u]][i])
  <2> DEFINE k == OwnKey[u]
  <2>1. u \in Tables /\ KeyTarget[k] \in Tables /\ k \in DOMAIN KeyTarget
    BY KeyFacts DEF Tables
  <2>2. DOMAIN d.fk[k] = DOMAIN d.rows[u] /\ \A i \in DOMAIN d.fk[k] : d.fk[k][i] # NoId => Exists(d, KeyTarget[k], d.fk[k][i])
    BY DEF DbOK, ForeignKeysHold
  <2>3. CASE u # t
    <3>0. ~(t \in DOMAIN OwnKey /\ OwnKey[t] = k)
      BY <2>3, KeyFacts
    <3>1. w.fk[k] = d.fk[k] /\ w.rows[u] = d.rows[u]
      BY <1>2, <2>1, <2>3, <3>0
    <3>2. QED
      BY <1>4, <2>1, <2>2, <3>1
  <2>4. CASE u = t
    <3>1. w.fk[k] = [i \in DOMAIN d.fk[k] \cup new |->
                       IF i \in new THEN OwnID(specs[i - first + 1]) ELSE d.fk[k][i]]
      BY <1>2, <2>1, <2>4
    <3>2. DOMAIN w.fk[k] = DOMAIN w.rows[u]
      BY <1>2, <2>2, <2>4, <3>1
    <3>3. ASSUME NEW i \in new, OwnID(specs[i - first + 1]) # NoId
          PROVE  Exists(d, KeyTarget[k], OwnID(specs[i - first + 1]))
      <4>1. OwnTargetExists(d, specs[i - first + 1]) /\ specs[i - first + 1].table = u
        BY <1>1, <2>4
      <4>2. QED
        BY <3>3, <4>1 DEF OwnID, OwnTargetExists
    <3>4. QED
      BY <1>4, <2>1, <2>2, <3>1, <3>2, <3>3
  <2>5. QED
    BY <2>3, <2>4
<1>7. \A pair \in w.user_tags : Exists(w, "users", pair[1]) /\ Exists(w, "tags", pair[2])
  BY <1>2, <1>4 DEF DbOK, ForeignKeysHold, Tables
<1>8. ForeignKeysHold(w)
  BY <1>6, <1>7 DEF ForeignKeysHold
<1>9. QED
  BY <1>2, <1>3, <1>5, <1>8 DEF DbOK, w, new

\* What a create leaves: rows of t are new, and if it creates users, posts that
\* had an owner keep it.
Created(d, w, t, new) ==
  /\ DbOK(w)
  /\ \A u \in Tables : DOMAIN w.rows[u] \subseteq DOMAIN d.rows[u] \cup (IF u = t THEN new ELSE {})
  /\ t = "users" => Filled(d, w, "user_posts")

LEMMA NothingCreated == ASSUME NEW d, DbOK(d), NEW t, NEW new PROVE Created(d, d, t, new)
BY DEF Created, Filled

LEMMA CreateNodeOK ==
  ASSUME NEW d, DbOK(d), NEW i \in Nat, NEW s, NewSpec(s)
  PROVE  Created(d, CreateNode(d, i, s).db, s.table, {i})
<1> DEFINE r == InsertRows(d, i, <<s>>)
           w == WriteEdges(r, {i}, s, NewPairs).db
<1>1. CASE ~OwnTargetExists(d, s)
  <2>1. CreateNode(d, i, s).db = d
    BY <1>1 DEF CreateNode, Outcome
  <2>2. QED
    BY <2>1, NothingCreated
<1>2. CASE OwnTargetExists(d, s)
  <2> DEFINE specs == <<s>>
  <2>1. s.table \in Tables
    BY DEF NewSpec, SpecOK
  <2>a. Len(specs) = 1 /\ DOMAIN specs = 1 .. 1 /\ specs[1] = s
    OBVIOUS
  <2>b. r = InsertRows(d, i, specs)
    OBVIOUS
  <2> HIDE DEF specs, r
  <2>c. \A k \in DOMAIN specs : NewSpec(specs[k]) /\ specs[k].table = s.table /\ OwnTargetExists(d, specs[k])
    BY <1>2, <2>a
  <2>d. i .. i + Len(specs) - 1 = {i} /\ Len(specs) \in Nat \ {0} /\ DOMAIN specs = 1 .. Len(specs)
    BY <2>a
  <2>e. DbOK(r) /\ Grown(d, r, s.table, i .. i + Len(specs) - 1)
    BY <2>1, <2>b, <2>c, <2>d, InsertRowsOK
  <2>2. DbOK(r) /\ Grown(d, r, s.table, {i})
    BY <2>d, <2>e
  <2>3. SpecOK(s) /\ OnlyAdds(s)
    BY DEF NewSpec
  <2>4. {i} \subseteq DOMAIN r.rows[s.table]
    BY <2>2 DEF Grown
  <2>5. DbOK(w) /\ EdgesOnly(r, w, s, {i})
    BY <2>2, <2>3, <2>4, WriteEdgesOK
  <2> HIDE DEF w
  <2>6. w.rows = r.rows /\ Filled(r, w, "user_posts")
    BY <2>3, <2>5, KeyFacts DEF EdgesOnly
  <2>7. s.table = "users" => r.fk["user_posts"] = d.fk["user_posts"]
    BY <2>2, KeyFacts DEF Grown
  <2>8. Created(d, w, s.table, {i})
    BY <2>2, <2>5, <2>6, <2>7 DEF Created, Filled, Grown
  <2>9. QED
    BY <1>2, <2>8 DEF CreateNode, w, r
<1>3. QED
  BY <1>1, <1>2

\* A bulk: the keys of one row after the other, until one fails.
NextKeys(o, first, specs, k) ==
  IF o.how # "ok" THEN o ELSE WriteKeys(o.db, {first + k - 1}, specs[k])
KeysUpTo(g, d, first, specs, n) ==
  g = [k \in 0 .. n |-> IF k = 0 THEN Outcome("ok", d) ELSE NextKeys(g[k - 1], first, specs, k)]

\* A set of numbers that is not empty has a least one.
LEMMA LeastNumber ==
  ASSUME NEW T \in SUBSET Nat, T # {}
  PROVE  \E n \in T : \A m \in T : n =< m
<1> DEFINE R == {ss \in Nat \X Nat : ss[1] < ss[2]}
<1>1. IsWellFoundedOn(R, Nat)
  BY NatLessThanWellFounded DEF OpToRel
<1> HIDE DEF R
<1>2. PICK n \in T : \A m \in T : ~ (<<m, n>> \in R)
  BY <1>1, WFMin
<1>3. ASSUME NEW m \in T PROVE n =< m
  <2>1. m \in Nat /\ n \in Nat
    OBVIOUS
  <2>2. m < n => <<m, n>> \in R
    BY <2>1 DEF R
  <2>3. QED
    BY <1>2, <2>1, <2>2
<1>4. QED
  BY <1>3

LEMMA KeysExist ==
  ASSUME NEW d, NEW first, NEW specs, NEW N \in Nat
  PROVE  \E g : KeysUpTo(g, d, first, specs, N)
<1> DEFINE T == {n \in Nat : ~ \E g : KeysUpTo(g, d, first, specs, n)}
<1> SUFFICES ASSUME N \in T PROVE FALSE
  OBVIOUS
<1>1. PICK n \in T : \A m \in T : n =< m
  <2>1. T \in SUBSET Nat /\ T # {}
    OBVIOUS
  <2> HIDE DEF T
  <2>2. QED
    BY <2>1, LeastNumber
<1>2. n # 0
  <2>1. KeysUpTo([k \in 0 .. 0 |-> Outcome("ok", d)], d, first, specs, 0)
    BY DEF KeysUpTo
  <2>2. QED
    BY <2>1
<1>3. PICK g : KeysUpTo(g, d, first, specs, n - 1)
  <2>1. n - 1 \in Nat /\ n - 1 \notin T
    BY <1>1, <1>2
  <2>2. QED
    BY <2>1
<1> DEFINE h == [k \in 0 .. n |-> IF k = n THEN NextKeys(g[n - 1], first, specs, n) ELSE g[k]]
<1>4. \A k \in 0 .. n - 1 : h[k] = g[k] /\ g[k] = IF k = 0 THEN Outcome("ok", d) ELSE NextKeys(g[k - 1], first, specs, k)
  BY <1>1, <1>2, <1>3 DEF KeysUpTo
<1>5. ASSUME NEW k \in 0 .. n
      PROVE  h[k] = IF k = 0 THEN Outcome("ok", d) ELSE NextKeys(h[k - 1], first, specs, k)
  <2>1. CASE k = n
    BY <2>1, <1>1, <1>2
  <2>2. CASE k # n
    <3>1. k \in 0 .. n - 1 /\ (k # 0 => k - 1 \in 0 .. n - 1)
      BY <2>2, <1>1
    <3>2. QED
      BY <3>1, <1>4
  <2>3. QED
    BY <2>1, <2>2
<1>6. KeysUpTo(h, d, first, specs, n)
  BY <1>5 DEF KeysUpTo
<1>7. QED
  BY <1>1, <1>6

LEMMA KeyAllStep ==
  ASSUME NEW d, NEW first, NEW specs, Len(specs) \in Nat
  PROVE  LET g == KeyAll(d, first, specs) IN
         \A k \in 0 .. Len(specs) : g[k] = IF k = 0 THEN Outcome("ok", d) ELSE NextKeys(g[k - 1], first, specs, k)
<1> DEFINE g == KeyAll(d, first, specs)
<1>1. g = CHOOSE f : f = [k \in 0 .. Len(specs) |->
                IF k = 0 THEN Outcome("ok", d)
                ELSE IF f[k - 1].how # "ok" THEN f[k - 1]
                ELSE WriteKeys(f[k - 1].db, {first + k - 1}, specs[k])]
  BY DEF KeyAll
<1>2. \E f : KeysUpTo(f, d, first, specs, Len(specs))
  BY KeysExist
<1>3. KeysUpTo(g, d, first, specs, Len(specs))
  BY <1>1, <1>2 DEF KeysUpTo, NextKeys
<1> HIDE DEF g
<1>4. \A k \in 0 .. Len(specs) : g[k] = IF k = 0 THEN Outcome("ok", d) ELSE NextKeys(g[k - 1], first, specs, k)
  BY <1>3 DEF KeysUpTo
<1>5. QED
  BY <1>4 DEF g

\* The keys of any number of new rows.
LEMMA KeyAllOK ==
  ASSUME NEW d, DbOK(d), NEW first \in Nat, NEW t,
         NEW specs, Len(specs) \in Nat, DOMAIN specs = 1 .. Len(specs),
         \A k \in DOMAIN specs : NewSpec(specs[k]) /\ specs[k].table = t /\ first + k - 1 \in DOMAIN d.rows[t]
  PROVE  LET w == KeyAll(d, first, specs)[Len(specs)].db IN
         DbOK(w) /\ w.rows = d.rows /\ \A key \in DOMAIN KeyTarget : Filled(d, w, key)
<1> DEFINE g == KeyAll(d, first, specs)
           N == Len(specs)
           Good(e) == /\ DbOK(e) /\ e.rows = d.rows
                      /\ \A key \in DOMAIN KeyTarget : DOMAIN e.fk[key] = DOMAIN d.fk[key] /\ Filled(d, e, key)
           T == {n \in 0 .. N : ~Good(g[n].db)}
<1>1. \A k \in 0 .. N : g[k] = IF k = 0 THEN Outcome("ok", d) ELSE NextKeys(g[k - 1], first, specs, k)
  BY KeyAllStep
<1> HIDE DEF g
<1>2. Good(g[0].db)
  BY <1>1 DEF Outcome, Filled
<1>3. ASSUME NEW n \in 1 .. N, Good(g[n - 1].db) PROVE Good(g[n].db)
  <2> DEFINE e == g[n - 1].db
             s == specs[n]
             ids == {first + n - 1}
             w == WriteKeys(e, ids, s).db
  <2>1. g[n] = NextKeys(g[n - 1], first, specs, n)
    BY <1>1
  <2>2. SpecOK(s) /\ OnlyAdds(s) /\ ids # {} /\ ids \subseteq DOMAIN e.rows[s.table]
    BY <1>3 DEF NewSpec
  <2>3. DbOK(e)
    BY <1>3
  <2> HIDE DEF e, s, ids
  <2>4. DbOK(w) /\ Rekeyed(e, w, s, ids) /\ \A key \in DOMAIN KeyTarget : Filled(e, w, key)
    BY <2>2, <2>3, WriteKeysOK
  <2> HIDE DEF w
  <2>5. Good(e)
    BY <1>3 DEF e
  <2>6. \A key \in DOMAIN KeyTarget : DOMAIN w.fk[key] = DOMAIN d.fk[key] /\ Filled(d, w, key)
    <3> SUFFICES ASSUME NEW key \in DOMAIN KeyTarget PROVE DOMAIN w.fk[key] = DOMAIN d.fk[key] /\ Filled(d, w, key)
      OBVIOUS
    <3>1. DOMAIN w.fk[key] = DOMAIN e.fk[key] /\ DOMAIN e.fk[key] = DOMAIN d.fk[key]
      BY <2>4, <2>5 DEF Rekeyed
    <3>2. Filled(e, w, key) /\ Filled(d, e, key)
      BY <2>4, <2>5
    <3>3. QED
      BY <3>1, <3>2 DEF Filled
  <2>7. w.rows = d.rows
    BY <2>4, <2>5 DEF Rekeyed
  <2>8. Good(w)
    BY <2>4, <2>6, <2>7
  <2>9. g[n].db = IF g[n - 1].how # "ok" THEN e ELSE w
    BY <2>1 DEF NextKeys, e, w, ids, s
  <2>10. QED
    BY <2>5, <2>8, <2>9
<1> HIDE DEF Good
<1>4. T = {}
  <2> SUFFICES ASSUME T # {} PROVE FALSE
    OBVIOUS
  <2>1. PICK n \in T : \A m \in T : n =< m
    <3>1. T \in SUBSET Nat
      OBVIOUS
    <3> HIDE DEF T
    <3>2. QED
      BY <3>1, LeastNumber
  <2>2. n # 0 /\ n \in 1 .. N
    BY <1>2, <2>1
  <2>3. Good(g[n - 1].db)
    BY <2>1, <2>2
  <2>4. QED
    BY <1>3, <2>1, <2>2, <2>3
<1>5. Good(g[N].db)
  BY <1>4
<1>6. QED
  BY <1>5 DEF Good, g

\* The pairs of any number of new rows.
LEMMA JoinAllOK ==
  ASSUME NEW d, DbOK(d), NEW first, NEW t, NEW specs,
         \A k \in DOMAIN specs :
           /\ SpecOK(specs[k]) /\ specs[k].table = t /\ first + k - 1 \in DOMAIN d.rows[t]
           /\ \A j \in specs[k].joined.added : Exists(d, Partner(t), j)
  PROVE  LET w == JoinAll(d, first, specs) IN DbOK(w) /\ w.rows = d.rows /\ w.fk = d.fk
<1> DEFINE w == JoinAll(d, first, specs)
<1>1. /\ Shaped(w) /\ w.rows = d.rows /\ w.fk = d.fk
      /\ w.user_tags = d.user_tags \cup UNION {AddJoin(d, {first + k - 1}, specs[k]).user_tags : k \in DOMAIN specs}
  <2>1. /\ w.rows = d.rows /\ w.fk = d.fk /\ w \in [rows : {w.rows}, fk : {w.fk}, user_tags : {w.user_tags}]
        /\ w.user_tags = d.user_tags \cup UNION {AddJoin(d, {first + k - 1}, specs[k]).user_tags : k \in DOMAIN specs}
    BY DEF DbOK, Shaped, JoinAll
  <2>2. \A k \in DOMAIN specs : \A pair \in AddJoin(d, {first + k - 1}, specs[k]).user_tags : pair = <<pair[1], pair[2]>>
    <3>1. \A k : Shaped(AddJoin(d, {first + k - 1}, specs[k]))
      BY JoinFacts DEF DbOK
    <3>2. \A e : Shaped(e) => \A pair \in e.user_tags : pair = <<pair[1], pair[2]>>
      BY DEF Shaped
    <3>3. QED
      BY <3>1, <3>2
  <2>3. \A pair \in d.user_tags : pair = <<pair[1], pair[2]>>
    BY DEF DbOK, Shaped
  <2> HIDE DEF w
  <2>4. \A pair \in w.user_tags : pair = <<pair[1], pair[2]>>
    BY <2>1, <2>2, <2>3
  <2>5. Shaped(w)
    <3>1. w.rows = d.rows /\ w.fk = d.fk /\ w \in [rows : {w.rows}, fk : {w.fk}, user_tags : {w.user_tags}]
      BY <2>1
    <3>2. QED
      BY <2>4, <3>1 DEF DbOK, Shaped
  <2>6. QED
    BY <2>1, <2>5
<1> HIDE DEF w
<1>2. ASSUME NEW pair \in w.user_tags PROVE Exists(d, "users", pair[1]) /\ Exists(d, "tags", pair[2])
  <2>1. CASE pair \in d.user_tags
    BY <2>1 DEF DbOK, ForeignKeysHold
  <2>2. CASE pair \notin d.user_tags
    <3>1. PICK k \in DOMAIN specs : pair \in AddJoin(d, {first + k - 1}, specs[k]).user_tags
      BY <1>1, <2>2
    <3> DEFINE ids == {first + k - 1}
               P == {Pair(specs[k].table, i, j) : i \in ids, j \in specs[k].joined.added}
    <3>2. AddJoin(d, ids, specs[k]).user_tags = d.user_tags \cup P
      BY JoinFacts DEF DbOK
    <3>a. pair \in AddJoin(d, ids, specs[k]).user_tags
      BY <3>1
    <3> HIDE DEF P, ids
    <3>b. pair \in P
      BY <2>2, <3>2, <3>a
    <3>3. PICK i \in ids, j \in specs[k].joined.added : pair = Pair(specs[k].table, i, j)
      BY <3>b DEF P
    <3>4. i \in DOMAIN d.rows[specs[k].table] /\ SpecOK(specs[k]) /\ Exists(d, Partner(specs[k].table), j)
      BY <3>3 DEF ids
    <3>5. QED
      BY <3>3, <3>4, PairExists
  <2>3. QED
    BY <2>1, <2>2
<1>3. DbOK(w)
  BY <1>1, <1>2, OnlyPairs
<1>4. QED
  BY <1>1, <1>3 DEF w

LEMMA BatchCreateOK ==
  ASSUME NEW d, DbOK(d), NEW first \in Nat, NEW t \in Tables,
         NEW specs, Len(specs) \in Nat \ {0}, DOMAIN specs = 1 .. Len(specs),
         \A k \in DOMAIN specs : NewSpec(specs[k]) /\ specs[k].table = t
  PROVE  Created(d, BatchCreate(d, first, specs).db, t, first .. first + Len(specs) - 1)
<1> DEFINE new == first .. first + Len(specs) - 1
           r == InsertRows(d, first, specs)
           p == JoinAll(r, first, specs)
           w == KeyAll(p, first, specs)[Len(specs)].db
<1>1. CASE \E k \in DOMAIN specs : ~OwnTargetExists(d, specs[k])
  <2>1. BatchCreate(d, first, specs).db = d
    BY <1>1 DEF BatchCreate, Outcome
  <2>2. QED
    BY <2>1, NothingCreated
<1>2. CASE \A k \in DOMAIN specs : OwnTargetExists(d, specs[k])
  <2>1. DbOK(r) /\ Grown(d, r, t, new)
    BY <1>2, InsertRowsOK
  <2> HIDE DEF r
  <2>2. \A k \in DOMAIN specs : first + k - 1 \in DOMAIN r.rows[t]
    BY <2>1 DEF Grown
  <2>3. t = "users" => r.fk["user_posts"] = d.fk["user_posts"]
    BY <2>1, KeyFacts DEF Grown
  <2>4. \A u \in Tables : DOMAIN r.rows[u] \subseteq DOMAIN d.rows[u] \cup (IF u = t THEN new ELSE {})
    BY <2>1 DEF Grown
  <2> HIDE DEF new
  <2>5. Created(d, r, t, new)
    BY <2>1, <2>3, <2>4 DEF Created, Filled
  <2>6. CASE \E k \in DOMAIN specs : ~JoinTakes(d, {first + k - 1}, specs[k], NewPairs)
    <3>1. BatchCreate(d, first, specs).db = r
      BY <1>2, <2>6 DEF BatchCreate, Outcome, r
    <3>2. QED
      BY <2>5, <3>1 DEF new
  <2>7. CASE \A k \in DOMAIN specs : JoinTakes(d, {first + k - 1}, specs[k], NewPairs)
    <3>1. ASSUME NEW k \in DOMAIN specs, NEW j \in specs[k].joined.added PROVE Exists(r, Partner(t), j)
      <4>1. Exists(d, Partner(t), j) /\ Partner(t) \in Tables
        BY <2>7 DEF JoinTakes, Partner, Tables
      <4>2. QED
        BY <2>1, <4>1 DEF Grown, Exists
    <3>2. DbOK(p) /\ p.rows = r.rows /\ p.fk = r.fk
      BY <2>1, <2>2, <3>1, JoinAllOK DEF NewSpec
    <3> HIDE DEF p
    <3>3. DbOK(w) /\ w.rows = p.rows /\ \A key \in DOMAIN KeyTarget : Filled(p, w, key)
      BY <2>2, <3>2, KeyAllOK
    <3> HIDE DEF w
    <3>4. Created(d, w, t, new)
      BY <2>3, <2>4, <3>2, <3>3, KeyFacts DEF Created, Filled
    <3>5. BatchCreate(d, first, specs).db = w
      BY <1>2, <2>7 DEF BatchCreate, Outcome, r, p, w
    <3>6. QED
      BY <3>4, <3>5 DEF new
  <2>8. QED
    BY <2>6, <2>7
<1>3. QED
  BY <1>1, <1>2

-----------------------------------------------------------------------------
(* Deletes *)

LEMMA DeleteNodesOK ==
  ASSUME NEW d, DbOK(d), NEW t \in Tables, NEW ids
  PROVE  LET w == DeleteNodes(d, t, ids) IN
         DbOK(w) /\ \A u \in Tables : DOMAIN w.rows[u] \subseteq DOMAIN d.rows[u]
<1> DEFINE w == DeleteNodes(d, t, ids)
<1>1. /\ w \in [rows : {w.rows}, fk : {w.fk}, user_tags : {w.user_tags}]
      /\ DOMAIN w.rows = Tables /\ DOMAIN w.fk = DOMAIN KeyTarget
      /\ w.rows = [u \in Tables |-> w.rows[u]] /\ w.fk = [k \in DOMAIN KeyTarget |-> w.fk[k]]
  BY DEF DbOK, Shaped, DeleteNodes
<1>2. \A u \in Tables : w.rows[u] = IF u = t THEN Remaining(d.rows[u], ids) ELSE d.rows[u]
  BY DEF DbOK, Shaped, DeleteNodes
<1>3. \A k \in DOMAIN KeyTarget :
        LET left == IF t \in DOMAIN OwnKey /\ k = OwnKey[t] THEN Remaining(d.fk[k], ids) ELSE d.fk[k]
        IN  w.fk[k] = IF KeyTarget[k] = t THEN Nulled(left, ids) ELSE left
  <2>1. \A k \in DOMAIN KeyTarget : k # NoKey
    BY KeyFacts
  <2>2. QED
    BY <2>1 DEF DbOK, Shaped, DeleteNodes
<1>4. w.user_tags = {pair \in d.user_tags : (t = "users" => pair[1] \notin ids) /\ (t = "tags" => pair[2] \notin ids)}
  BY DEF DeleteNodes
<1> HIDE DEF w
<1>5. \A u \in Tables : DOMAIN w.rows[u] = IF u = t THEN DOMAIN d.rows[u] \ ids ELSE DOMAIN d.rows[u]
  BY <1>2 DEF Remaining
<1>6. /\ \A k \in DOMAIN KeyTarget : w.fk[k] = [i \in DOMAIN w.fk[k] |-> w.fk[k][i]]
      /\ \A u \in Tables : w.rows[u] = [i \in DOMAIN w.rows[u] |-> w.rows[u][i]]
  BY <1>2, <1>3 DEF Remaining, Nulled, DbOK, Shaped
<1>7. RowsOK(w)
  BY <1>2, <1>5 DEF RowsOK, Remaining, DbOK
<1>8. ASSUME NEW u \in DOMAIN OwnKey
      PROVE  /\ DOMAIN w.fk[OwnKey[u]] = DOMAIN w.rows[u]
             /\ \A i \in DOMAIN w.fk[OwnKey[u]] :
                  w.fk[OwnKey[u]][i] # NoId => Exists(w, KeyTarget[OwnKey[u]], w.fk[OwnKey[u]][i])
  <2> DEFINE k == OwnKey[u]
  <2>1. u \in Tables /\ KeyTarget[k] \in Tables /\ k \in DOMAIN KeyTarget /\ KeyTarget[k] # u
    BY KeyFacts DEF Tables
  <2>2. DOMAIN d.fk[k] = DOMAIN d.rows[u] /\ \A i \in DOMAIN d.fk[k] : d.fk[k][i] # NoId => Exists(d, KeyTarget[k], d.fk[k][i])
    BY DEF DbOK, ForeignKeysHold
  <2>3. CASE u = t
    <3>1. w.fk[k] = Remaining(d.fk[k], ids)
      BY <1>3, <2>1, <2>3
    <3>2. QED
      BY <1>5, <2>1, <2>2, <2>3, <3>1 DEF Remaining, Exists
  <2>4. CASE KeyTarget[k] = t
    <3>1. ~(t \in DOMAIN OwnKey /\ k = OwnKey[t])
      BY <2>1, <2>4, KeyFacts
    <3>2. w.fk[k] = Nulled(d.fk[k], ids)
      BY <1>3, <2>1, <2>4, <3>1
    <3>3. QED
      BY <1>5, <2>1, <2>2, <2>4, <3>2 DEF Nulled, Exists
  <2>5. CASE u # t /\ KeyTarget[k] # t
    <3>1. ~(t \in DOMAIN OwnKey /\ k = OwnKey[t])
      BY <2>5, KeyFacts
    <3>2. w.fk[k] = d.fk[k]
      BY <1>3, <2>1, <2>5, <3>1
    <3>3. QED
      BY <1>5, <2>1, <2>2, <2>5, <3>2 DEF Exists
  <2>6. QED
    BY <2>3, <2>4, <2>5
<1>9. \A pair \in w.user_tags : Exists(w, "users", pair[1]) /\ Exists(w, "tags", pair[2])
  BY <1>4, <1>5 DEF DbOK, ForeignKeysHold, Exists, Tables
<1>10. ForeignKeysHold(w)
  BY <1>8, <1>9 DEF ForeignKeysHold
<1>11. \A pair \in w.user_tags : pair = <<pair[1], pair[2]>>
  BY <1>4 DEF DbOK, Shaped
<1>12. QED
  BY <1>1, <1>5, <1>6, <1>7, <1>10, <1>11 DEF DbOK, Shaped, w

-----------------------------------------------------------------------------
(* Mutations and the specifications made of them *)

MutationOK(m, t) ==
  /\ m \in [set : {m.set}, cleared : {m.cleared}, ids : {m.ids}, removed : {m.removed}, gone : {m.gone}]
  /\ m.set \in [DOMAIN m.set -> Values] /\ DOMAIN m.set \subseteq Columns(t)

LEMMA NewMutationOK == ASSUME NEW t PROVE MutationOK(NewMutation, t)
BY DEF MutationOK, NewMutation

LEMMA ColumnCalls ==
  ASSUME NEW t, NEW m, MutationOK(m, t), NEW c \in Columns(t), NEW v \in Values
  PROVE  MutationOK(SetColumn(m, c, v), t) /\ MutationOK(ClearColumn(m, c), t) /\ MutationOK(ResetColumn(m, c), t)
BY DEF MutationOK, SetColumn, ClearColumn, ResetColumn, With, Dropped

LEMMA EdgeCalls ==
  ASSUME NEW t, NEW m, MutationOK(m, t), NEW e, NEW S, NEW j
  PROVE  /\ MutationOK(AddIDs(m, e, S), t) /\ MutationOK(RemoveIDs(m, e, S), t)
         /\ MutationOK(SetID(m, e, j), t)
         /\ MutationOK(ClearEdge(m, e), t) /\ MutationOK(ResetEdge(m, e), t)
BY DEF MutationOK, AddIDs, RemoveIDs, SetID, ClearEdge, ResetEdge

LEMMA DefaultsOK ==
  ASSUME NEW t \in Tables, NEW m, MutationOK(m, t)
  PROVE  MutationOK(Defaults(t, m), t)
<1>1. ASSUME NEW columns, columns \subseteq Columns(t) PROVE MutationOK(WithDefaults(m, columns), t)
  BY <1>1 DEF WithDefaults, MutationOK, Over, Values
<1>2. QED
  BY <1>1 DEF Defaults, UserDefaults, PostDefaults, Columns

\* A struct of a table.
StructOK(d, t) == \A c \in Columns(t) : d.val[c] \in Values

LEMMA SetColumnsOK ==
  ASSUME NEW t, NEW m, MutationOK(m, t), NEW cfg, NEW d, StructOK(d, t), NEW columns, columns \subseteq Columns(t)
  PROVE  MutationOK(SetColumns(m, cfg, d, columns), t)
<1> DEFINE written == {c \in columns : IF IsPointer(c) THEN ShouldApplyPtr(cfg, c, d.val[c]) /\ d.val[c] # Null
                                       ELSE ShouldApply(cfg, c, d.val[c])}
<1>1. SetColumns(m, cfg, d, columns) = [m EXCEPT !.set = Over([c \in written |-> d.val[c]], @)]
  BY DEF SetColumns
<1>2. written \subseteq Columns(t) /\ \A c \in written : d.val[c] \in Values
  BY DEF StructOK
<1> HIDE DEF written
<1>3. QED
  BY <1>1, <1>2 DEF MutationOK, Over

LEMMA ApplyDomainOK ==
  ASSUME NEW t \in Tables, NEW m, MutationOK(m, t), NEW cfg, NEW d, StructOK(d, t)
  PROVE  MutationOK(ApplyDomain(t, m, cfg, d), t) /\ MutationOK(CreateApplyDomain(t, m, cfg, d), t)
<1>1. ASSUME NEW n, MutationOK(n, t), NEW e, NEW field, NEW ids
      PROVE  MutationOK(ReplaceIDs(n, cfg, e, field, ids), t) /\ MutationOK(AddIfAny(n, e, ids), t)
  <2>1. MutationOK(AddIDs(n, e, ids), t) /\ MutationOK(ClearEdge(n, e), t)
    BY <1>1, EdgeCalls
  <2>2. MutationOK(AddIDs(ClearEdge(n, e), e, ids), t)
    BY <2>1, EdgeCalls
  <2>3. QED
    BY <1>1, <2>1, <2>2 DEF ReplaceIDs, AddIfAny
<1>2. CASE t = "users"
  <2>1. UserColumns \subseteq Columns(t) /\ UserColumns \ UserImmutable \subseteq Columns(t)
    BY <1>2 DEF Columns
  <2>2. MutationOK(SetColumns(m, cfg, d, UserColumns), t) /\ MutationOK(SetColumns(m, cfg, d, UserColumns \ UserImmutable), t)
    BY <2>1, SetColumnsOK
  <2>3. MutationOK(UserUpdateApplyDomain(m, cfg, d), t)
    BY <1>1, <2>2 DEF UserUpdateApplyDomain
  <2>4. MutationOK(UserCreateApplyDomain(m, cfg, d), t)
    BY <1>1, <2>2 DEF UserCreateApplyDomain
  <2>5. QED
    BY <1>2, <2>3, <2>4 DEF ApplyDomain, CreateApplyDomain
<1>3. CASE t = "posts"
  <2>1. MutationOK(SetColumns(m, cfg, d, PostColumns), t)
    BY <1>3, SetColumnsOK DEF Columns
  <2>2. MutationOK(PostUpdateApplyDomain(m, cfg, d), t) /\ MutationOK(PostCreateApplyDomain(m, cfg, d), t)
    BY <1>1, <2>1 DEF PostUpdateApplyDomain, PostCreateApplyDomain
  <2>3. QED
    BY <1>3, <2>2 DEF ApplyDomain, CreateApplyDomain
<1>4. CASE t = "tags"
  <2>1. MutationOK(SetColumns(m, cfg, d, TagColumns), t)
    BY <1>4, SetColumnsOK DEF Columns
  <2>2. MutationOK(TagUpdateApplyDomain(m, cfg, d), t) /\ MutationOK(TagCreateApplyDomain(m, cfg, d), t)
    BY <1>1, <2>1 DEF TagUpdateApplyDomain, TagCreateApplyDomain
  <2>3. QED
    BY <1>4, <2>2 DEF ApplyDomain, CreateApplyDomain
<1>5. QED
  BY <1>2, <1>3, <1>4 DEF Tables

LEMMA ColumnsOf ==
  Columns("users") = UserColumns /\ Columns("posts") = PostColumns /\ Columns("tags") = TagColumns
BY DEF Columns

LEMMA UpdateSpecOK ==
  ASSUME NEW t \in Tables, NEW m, MutationOK(m, t)
  PROVE  SpecOK(UpdateSpec(t, m)) /\ UpdateSpec(t, m).table = t
<1> DEFINE s == UpdateSpec(t, m)
<1>1. CASE t = "users"
  <2>1. s = UserUpdateSpec(m)
    BY <1>1 DEF UpdateSpec
  <2>2. s.table = "users" /\ s.key = "user_posts" /\ s.set = [c \in DOMAIN m.set \ UserImmutable |-> m.set[c]]
    BY <2>1 DEF UserUpdateSpec
  <2> HIDE DEF s
  <2>3. QED
    BY <1>1, <2>2 DEF SpecOK, MutationOK, s
<1>2. CASE t = "posts"
  <2>1. s = PostUpdateSpec(m)
    BY <1>2 DEF UpdateSpec
  <2>2. s.table = "posts" /\ s.key = "user_pinned_post" /\ s.joined = NoChange /\ s.set = m.set
    BY <2>1 DEF PostUpdateSpec
  <2> HIDE DEF s
  <2>3. QED
    BY <1>2, <2>2 DEF SpecOK, MutationOK, s
<1>3. CASE t = "tags"
  <2>1. s = TagUpdateSpec(m)
    BY <1>3 DEF UpdateSpec
  <2>2. s.table = "tags" /\ s.key = NoKey /\ s.own = NoChange /\ s.others = NoChange /\ s.set = m.set
    BY <2>1 DEF TagUpdateSpec
  <2> HIDE DEF s
  <2>3. QED
    BY <1>3, <2>2 DEF SpecOK, MutationOK, s
<1>4. QED
  BY <1>1, <1>2, <1>3 DEF Tables

\* A create that passed the checks has a value for every column.
LEMMA CreateSpecOK ==
  ASSUME NEW t \in Tables, NEW m, MutationOK(m, t), Check(t, m)
  PROVE  NewSpec(CreateSpec(t, m)) /\ CreateSpec(t, m).table = t
<1> DEFINE s == CreateSpec(t, m)
<1>1. CASE t = "users"
  <2>1. s = UserCreateSpec(m)
    BY <1>1 DEF CreateSpec
  <2>2. /\ s.table = "users" /\ s.key = "user_posts" /\ s.set = Complete(m.set, UserColumns)
        /\ s.others.all = FALSE /\ s.others.removed = {}
    BY <2>1 DEF UserCreateSpec, NoChange
  <2>3. Complete(m.set, UserColumns) \in [UserColumns -> Values]
    BY <1>1, ColumnsOf DEF Complete, Over, MutationOK, Values
  <2> HIDE DEF s
  <2>4. QED
    BY <1>1, <2>2, <2>3, ColumnsOf DEF NewSpec, SpecOK, OnlyAdds, s
<1>2. CASE t = "posts"
  <2>1. s = PostCreateSpec(m)
    BY <1>2 DEF CreateSpec
  <2>2. /\ s.table = "posts" /\ s.key = "user_pinned_post" /\ s.joined = NoChange /\ s.set = m.set
        /\ s.others.all = FALSE /\ s.others.removed = {}
    BY <2>1 DEF PostCreateSpec, NoChange
  <2>3. m.set \in [PostColumns -> Values]
    BY <1>2, ColumnsOf DEF MutationOK, Check, PostCheck
  <2> HIDE DEF s
  <2>4. QED
    BY <1>2, <2>2, <2>3, ColumnsOf DEF NewSpec, SpecOK, OnlyAdds, s
<1>3. CASE t = "tags"
  <2>1. s = TagCreateSpec(m)
    BY <1>3 DEF CreateSpec
  <2>2. /\ s.table = "tags" /\ s.key = NoKey /\ s.own = NoChange /\ s.others = NoChange /\ s.set = m.set
        /\ s.others.all = FALSE /\ s.others.removed = {}
    BY <2>1 DEF TagCreateSpec, NoChange
  <2>3. m.set \in [TagColumns -> Values]
    BY <1>3, ColumnsOf DEF MutationOK, Check, TagCheck
  <2> HIDE DEF s
  <2>4. QED
    BY <1>3, <2>2, <2>3, ColumnsOf DEF NewSpec, SpecOK, OnlyAdds, s
<1>4. QED
  BY <1>1, <1>2, <1>3 DEF Tables

-----------------------------------------------------------------------------
(* What a save leaves *)

\* Only the checks of a builder end a save as invalid, before its statements.
LEMMA WriteVerdicts ==
  ASSUME NEW d, NEW ids, NEW s, NEW sql
  PROVE  /\ WriteKeys(d, ids, s).how \in {"ok", "failed"}
         /\ WriteEdges(d, ids, s, sql).how \in {"ok", "failed", "refused"}
<1>1. ASSUME NEW e PROVE WriteKeys(e, ids, s).how \in {"ok", "failed"}
  BY DEF WriteKeys, Outcome
<1>2. WriteJoin(d, ids, s, sql).how \in {"ok", "refused"}
  BY DEF WriteJoin, Outcome
<1>3. QED
  BY <1>1, <1>2 DEF WriteEdges

LEMMA KeyAllVerdict ==
  ASSUME NEW d, NEW first, NEW specs, Len(specs) \in Nat
  PROVE  KeyAll(d, first, specs)[Len(specs)].how \in {"ok", "failed"}
<1> DEFINE g == KeyAll(d, first, specs)
           N == Len(specs)
           T == {n \in 0 .. N : g[n].how \notin {"ok", "failed"}}
<1>1. \A k \in 0 .. N : g[k] = IF k = 0 THEN Outcome("ok", d) ELSE NextKeys(g[k - 1], first, specs, k)
  BY KeyAllStep
<1> HIDE DEF g
<1>2. T = {}
  <2> SUFFICES ASSUME T # {} PROVE FALSE
    OBVIOUS
  <2>1. PICK n \in T : \A m \in T : n =< m
    <3>1. T \in SUBSET Nat
      OBVIOUS
    <3> HIDE DEF T
    <3>2. QED
      BY <3>1, LeastNumber
  <2>2. n # 0
    BY <1>1, <2>1 DEF Outcome
  <2>3. n - 1 \in 0 .. N /\ n - 1 \notin T /\ g[n] = NextKeys(g[n - 1], first, specs, n)
    BY <1>1, <2>1, <2>2
  <2>4. g[n].how \in {"ok", "failed"}
    BY <2>3, WriteVerdicts DEF NextKeys
  <2>5. QED
    BY <2>1, <2>4
<1>3. QED
  BY <1>2 DEF g

\* An update writes nothing, or what its specification says.
LEMMA SaveUpdatesOK ==
  ASSUME NEW d, DbOK(d), NEW t \in Tables, NEW m, MutationOK(m, t), NEW sql
  PROVE  /\ \A i : LET w == SaveOne(d, t, i, m, sql).db IN DbOK(w) /\ Frame(d, w, UpdateSpec(t, m), {i})
         /\ \A ids : ids \subseteq DOMAIN d.rows[t] =>
              LET w == SaveMany(d, t, ids, m, sql).db IN DbOK(w) /\ Frame(d, w, UpdateSpec(t, m), ids)
<1> DEFINE s == UpdateSpec(t, m)
<1>1. SpecOK(s) /\ s.table = t
  BY UpdateSpecOK
<1> HIDE DEF s
<1>2. ASSUME NEW ids PROVE Frame(d, d, s, ids)
  BY NothingMoved
<1>3. ASSUME NEW i PROVE LET w == SaveOne(d, t, i, m, sql).db IN DbOK(w) /\ Frame(d, w, s, {i})
  <2>1. SaveOne(d, t, i, m, sql).db = IF ~StatusValidator(m) THEN d ELSE UpdateNode(d, i, s, sql).db
    BY DEF SaveOne, Outcome, s
  <2>2. QED
    BY <1>1, <1>2, <2>1, UpdateNodeOK
<1>4. ASSUME NEW ids, ids \subseteq DOMAIN d.rows[t]
      PROVE  LET w == SaveMany(d, t, ids, m, sql).db IN DbOK(w) /\ Frame(d, w, s, ids)
  <2>1. SaveMany(d, t, ids, m, sql).db = IF ~StatusValidator(m) THEN d ELSE UpdateNodes(d, ids, s, sql).db
    BY DEF SaveMany, Outcome, s
  <2>2. QED
    BY <1>1, <1>2, <1>4, <2>1, UpdateNodesOK
<1>5. QED
  BY <1>3, <1>4 DEF s

\* A create is invalid and writes nothing, or adds rows with the next ids.
LEMMA SaveNewOK ==
  ASSUME NEW d, DbOK(d), NEW t \in Tables, NEW i \in Nat, NEW m, MutationOK(m, t)
  PROVE  LET o == SaveNew(d, t, i, m) IN Created(d, o.db, t, {i}) /\ (o.how = "invalid" => o.db = d)
<1>1. CASE ~Check(t, m)
  BY <1>1, NothingCreated DEF SaveNew, Outcome
<1>2. CASE Check(t, m)
  <2> DEFINE s == CreateSpec(t, m)
  <2>1. NewSpec(s) /\ s.table = t
    BY <1>2, CreateSpecOK
  <2> HIDE DEF s
  <2>2. Created(d, CreateNode(d, i, s).db, t, {i})
    BY <2>1, CreateNodeOK
  <2>3. CreateNode(d, i, s).how # "invalid"
    BY WriteVerdicts DEF CreateNode, Outcome
  <2>4. QED
    BY <1>2, <2>2, <2>3 DEF SaveNew, s
<1>3. QED
  BY <1>1, <1>2

LEMMA SaveBulkOK ==
  ASSUME NEW d, DbOK(d), NEW t \in Tables, NEW first \in Nat,
         NEW muts, Len(muts) \in Nat \ {0}, muts \in Seq({muts[k] : k \in 1 .. Len(muts)}),
         \A k \in 1 .. Len(muts) : MutationOK(muts[k], t)
  PROVE  LET o == SaveBulk(d, t, first, muts) IN
         Created(d, o.db, t, first .. first + Len(muts) - 1) /\ (o.how = "invalid" => o.db = d)
<1>0. DOMAIN muts = 1 .. Len(muts)
  OBVIOUS
<1>1. CASE \E k \in DOMAIN muts : ~Check(t, muts[k])
  BY <1>1, NothingCreated DEF SaveBulk, Outcome
<1>2. CASE \A k \in DOMAIN muts : Check(t, muts[k])
  <2> DEFINE specs == [k \in DOMAIN muts |-> CreateSpec(t, muts[k])]
             o == BatchCreate(d, first, specs)
  <2>1. \A k \in DOMAIN specs : NewSpec(specs[k]) /\ specs[k].table = t
    BY <1>0, <1>2, CreateSpecOK
  <2>2. Len(specs) = Len(muts) /\ DOMAIN specs = 1 .. Len(specs)
    BY <1>0
  <2>3. SaveBulk(d, t, first, muts) = o
    BY <1>2 DEF SaveBulk
  <2> HIDE DEF specs
  <2>4. Created(d, o.db, t, first .. first + Len(muts) - 1)
    BY <2>1, <2>2, BatchCreateOK
  <2>5. o.how # "invalid"
    BY <2>2, KeyAllVerdict DEF BatchCreate, Outcome
  <2>6. QED
    BY <2>3, <2>4, <2>5
<1>3. QED
  BY <1>1, <1>2

-----------------------------------------------------------------------------
(* The invariant *)

\* A sequence, of whatever it holds.
IsList(q) == q \in Seq({q[k] : k \in 1 .. Len(q)})
Hows == {"one", "many", "create"}
\* What is open: nothing, or a builder with a mutation for every create, and
\* with one for an update.
BuilderOK ==
  \/ builder = Promise!Closed /\ ms = <<>> /\ asked = <<>> /\ ~hooked
  \/ /\ builder \in [table : Tables, how : Hows, ids : {builder.ids}] /\ saves < MaxSaves
     /\ builder.how = "one" => \E i : builder.ids = {i}
     /\ Len(ms) \in Nat \ {0} /\ Len(asked) = Len(ms) /\ (builder.how \in Updates => Len(ms) = 1)
     /\ IsList(ms) /\ IsList(asked)
     /\ \A k \in 1 .. Len(ms) : MutationOK(ms[k], builder.table)
\* The transaction and what it would go back to.
ModeOK ==
  /\ mode \in {"plain", "tx", "spoiled"} /\ (mode = "plain" => base = db)
  /\ dbms \in [sql : Dialects, aborted : BOOLEAN] /\ (dbms.aborted => mode = "spoiled")
  /\ hooked \in BOOLEAN
RowsGiven ==
  /\ last \in [Tables -> Nat]
  /\ DbOK(db) /\ Given(db, last) /\ DbOK(base) /\ Given(base, last)
Bounds == calls \in 0 .. MaxCalls /\ saves \in 0 .. MaxSaves
IInv == RowsGiven /\ ModeOK /\ BuilderOK /\ Bounds

LEMMA DatabaseOK == ASSUME NEW d, Database(d) PROVE DbOK(d)
<1>1. /\ d = [rows |-> d.rows, fk |-> d.fk, user_tags |-> d.user_tags]
      /\ d.rows = [t \in Tables |-> [i \in DOMAIN d.rows[t] |-> d.rows[t][i]]]
      /\ d.fk = [k \in DOMAIN KeyTarget |-> [i \in DOMAIN d.fk[k] |-> d.fk[k][i]]]
      /\ \A pair \in d.user_tags : pair = <<pair[1], pair[2]>>
      /\ RowsOK(d) /\ ForeignKeysHold(d)
  BY DEF Database, RowsOK
<1>2. d \in [rows : {d.rows}, fk : {d.fk}, user_tags : {d.user_tags}]
  BY <1>1
<1>3. /\ DOMAIN d.rows = Tables /\ DOMAIN d.fk = DOMAIN KeyTarget
      /\ \A t \in Tables : d.rows[t] = [i \in DOMAIN d.rows[t] |-> d.rows[t][i]]
      /\ \A k \in DOMAIN KeyTarget : d.fk[k] = [i \in DOMAIN d.fk[k] |-> d.fk[k][i]]
  BY <1>1
<1>4. d.rows = [t \in Tables |-> d.rows[t]] /\ d.fk = [k \in DOMAIN KeyTarget |-> d.fk[k]]
  BY <1>1, <1>3
<1>5. QED
  BY <1>1, <1>2, <1>3, <1>4 DEF DbOK, Shaped

LEMMA InitOK == Init => IInv
<1> SUFFICES ASSUME Init PROVE IInv
  OBVIOUS
<1>1. Database(db)
  BY DatabasesAssumption DEF Init, DatabaseInit
<1>2. DbOK(db)
  BY <1>1, DatabaseOK
<1>3. \A t \in Tables : Cardinality(DOMAIN db.rows[t]) \in Nat /\ DOMAIN db.rows[t] = 1 .. Cardinality(DOMAIN db.rows[t])
  BY <1>1, FS_CardinalityType DEF Database
<1>4. last = [t \in Tables |-> Cardinality(DOMAIN db.rows[t])] /\ base = db
  BY DEF Init, DatabaseInit
<1>5. last \in [Tables -> Nat] /\ Given(db, last)
  BY <1>3, <1>4 DEF Given
<1>6. RowsGiven
  BY <1>2, <1>4, <1>5 DEF RowsGiven
<1>7. ModeOK
  BY DEF Init, ModeOK
<1>8. BuilderOK /\ Bounds
  BY BuilderAssumption DEF Init, BuilderOK, Bounds
<1>9. QED
  BY <1>6, <1>7, <1>8 DEF IInv

-----------------------------------------------------------------------------
(* Building: the mutations and what is asked *)

\* A sequence with another last element, and with one more.
LEMMA SequenceIsList == ASSUME NEW S, NEW q \in Seq(S) PROVE IsList(q) /\ Len(q) \in Nat
<1>1. q \in [1 .. Len(q) -> {q[k] : k \in 1 .. Len(q)}] /\ Len(q) \in Nat
  OBVIOUS
<1>2. QED
  BY <1>1 DEF IsList

LEMMA FunctionIsList == ASSUME NEW n \in Nat, NEW q, q = [k \in 1 .. n |-> q[k]] PROVE IsList(q) /\ Len(q) = n
<1> DEFINE S == {q[k] : k \in 1 .. n}
<1>1. q \in [1 .. n -> S]
  OBVIOUS
<1> HIDE DEF S
<1>2. q \in Seq(S) /\ Len(q) = n
  BY <1>1
<1>3. QED
  BY <1>2, SequenceIsList

LEMMA LastChanged ==
  ASSUME NEW q, Len(q) \in Nat \ {0}, IsList(q), NEW x
  PROVE  LET r == [q EXCEPT ![Len(q)] = x] IN
         /\ Len(r) = Len(q) /\ IsList(r)
         /\ \A k \in 1 .. Len(q) : r[k] = IF k = Len(q) THEN x ELSE q[k]
<1> DEFINE Q == {q[k] : k \in 1 .. Len(q)}
           S == Q \cup {x}
           r == [q EXCEPT ![Len(q)] = x]
<1>1. q \in Seq(Q)
  BY DEF IsList
<1> HIDE DEF Q
<1>2. q \in Seq(S) /\ x \in S
  BY <1>1
<1> HIDE DEF S
<1>3. r \in Seq(S) /\ Len(r) = Len(q) /\ \A k \in 1 .. Len(q) : r[k] = IF k = Len(q) THEN x ELSE q[k]
  BY <1>2
<1> HIDE DEF r
<1>4. IsList(r)
  BY <1>3, SequenceIsList
<1>5. QED
  BY <1>3, <1>4 DEF r

LEMMA OneMore ==
  ASSUME NEW q, Len(q) \in Nat \ {0}, IsList(q), NEW x
  PROVE  LET r == Append(q, x) IN
         /\ Len(r) = Len(q) + 1 /\ IsList(r)
         /\ \A k \in 1 .. Len(r) : r[k] = IF k = Len(r) THEN x ELSE q[k]
<1> DEFINE Q == {q[k] : k \in 1 .. Len(q)}
           S == Q \cup {x}
           r == Append(q, x)
<1>1. q \in Seq(Q)
  BY DEF IsList
<1> HIDE DEF Q
<1>2. q \in Seq(S) /\ x \in S
  BY <1>1
<1> HIDE DEF S
<1>3. r \in Seq(S) /\ Len(r) = Len(q) + 1 /\ \A k \in 1 .. Len(r) : r[k] = IF k = Len(r) THEN x ELSE q[k]
  BY <1>2
<1> HIDE DEF r
<1>4. IsList(r)
  BY <1>3, SequenceIsList
<1>5. QED
  BY <1>3, <1>4 DEF r

LEMMA OpenBuilder ==
  ASSUME IInv, builder.how # "closed"
  PROVE  /\ builder \in [table : Tables, how : Hows, ids : {builder.ids}] /\ saves < MaxSaves
         /\ builder.how = "one" => \E i : builder.ids = {i}
         /\ Len(ms) \in Nat \ {0} /\ Len(asked) = Len(ms) /\ (builder.how \in Updates => Len(ms) = 1)
         /\ IsList(ms) /\ IsList(asked)
         /\ \A k \in 1 .. Len(ms) : MutationOK(ms[k], builder.table)
         /\ MutationOK(M, builder.table)
BY DEF IInv, BuilderOK, M, Promise!Closed

LEMMA ClosedBuilder ==
  ASSUME IInv, builder.how = "closed"
  PROVE  builder = Promise!Closed /\ ms = <<>> /\ asked = <<>> /\ hooked = FALSE
BY DEF IInv, BuilderOK, Hows, ModeOK

LEMMA DatabaseKept ==
  ASSUME IInv, UNCHANGED <<db, last, base, mode, dbms>>, hooked' \in BOOLEAN
  PROVE  RowsGiven' /\ ModeOK'
<1>1. RowsGiven'
  BY DEF IInv, RowsGiven
<1>2. ModeOK'
  BY DEF IInv, ModeOK
<1>3. QED
  BY <1>1, <1>2

\* One call, whatever it asks, on the last mutation.
LEMMA ChangeStep ==
  ASSUME IInv, builder.how # "closed", NEW m, NEW a, MutationOK(m, builder.table), Change(m, a)
  PROVE  IInv'
<1>0. Len(ms) \in Nat \ {0} /\ Len(asked) = Len(ms) /\ IsList(ms) /\ IsList(asked)
  BY OpenBuilder
<1>1. ms' = [ms EXCEPT ![Len(ms)] = m] /\ asked' = [asked EXCEPT ![Len(asked)] = a]
  BY <1>0 DEF Change
<1>2. /\ Len(ms') = Len(ms) /\ IsList(ms')
      /\ \A k \in 1 .. Len(ms) : ms'[k] = IF k = Len(ms) THEN m ELSE ms[k]
  BY <1>0, <1>1, LastChanged
<1>3. Len(asked') = Len(asked) /\ IsList(asked')
  BY <1>0, <1>1, LastChanged
<1>4. builder' = builder /\ saves' = saves /\ hooked' \in BOOLEAN
  BY DEF Change, IInv, ModeOK
<1>5. BuilderOK'
  BY <1>2, <1>3, <1>4, OpenBuilder DEF BuilderOK
<1>6. RowsGiven' /\ ModeOK'
  BY <1>4, DatabaseKept DEF Change
<1>7. Bounds'
  BY BuilderAssumption DEF Change, IInv, Bounds
<1>8. QED
  BY <1>5, <1>6, <1>7 DEF IInv

LEMMA OpenStep ==
  ASSUME IInv, NEW t \in Tables, NEW how \in Hows, NEW ids, how = "one" => \E i : ids = {i}, Open(t, how, ids)
  PROVE  IInv'
<1>1. builder' = [table |-> t, how |-> how, ids |-> ids] /\ saves' = saves /\ saves < MaxSaves
  BY DEF Open
<1>2. ms' = <<NewMutation>> /\ Len(asked') = 1 /\ asked' = <<asked'[1]>>
  BY DEF Open
<1>3. MutationOK(NewMutation, t)
  BY NewMutationOK
<1>4. Len(ms') = 1 /\ ms'[1] = NewMutation /\ IsList(ms') /\ IsList(asked')
  <2>1. \A x : Len(<<x>>) = 1 /\ <<x>>[1] = x /\ <<x>> \in Seq({x})
    OBVIOUS
  <2>2. QED
    BY <1>2, <2>1, SequenceIsList
<1>5. BuilderOK'
  BY <1>1, <1>2, <1>3, <1>4 DEF BuilderOK, Updates
<1>6. RowsGiven' /\ ModeOK'
  BY DatabaseKept DEF Open, IInv, ModeOK
<1>7. Bounds'
  BY DEF Open, IInv, Bounds
<1>8. QED
  BY <1>5, <1>6, <1>7 DEF IInv

LEMMA AnotherStep == ASSUME IInv, Another PROVE IInv'
<1>1. builder.how # "closed" /\ builder.how \notin Updates
  BY DEF Another, Updates
<1>0. Len(ms) \in Nat \ {0} /\ Len(asked) = Len(ms) /\ IsList(ms) /\ IsList(asked)
  BY <1>1, OpenBuilder
<1>2. /\ ms' = Append(ms, NewMutation) /\ asked' = Append(asked, Promise!Nothing)
      /\ builder' = builder /\ saves' = saves /\ hooked' \in BOOLEAN
  BY DEF Another, IInv, ModeOK
<1>3. /\ Len(ms') = Len(ms) + 1 /\ IsList(ms')
      /\ \A k \in 1 .. Len(ms') : ms'[k] = IF k = Len(ms') THEN NewMutation ELSE ms[k]
  BY <1>0, <1>2, OneMore
<1>4. Len(asked') = Len(asked) + 1 /\ IsList(asked')
  BY <1>0, <1>2, OneMore
<1>5. \A k \in 1 .. Len(ms') : MutationOK(ms'[k], builder.table)
  BY <1>0, <1>1, <1>3, OpenBuilder, NewMutationOK
<1>6. BuilderOK'
  BY <1>0, <1>1, <1>2, <1>3, <1>4, <1>5, OpenBuilder DEF BuilderOK
<1>7. RowsGiven' /\ ModeOK'
  BY <1>2, DatabaseKept DEF Another
<1>8. Bounds'
  BY BuilderAssumption DEF Another, IInv, Bounds
<1>9. QED
  BY <1>6, <1>7, <1>8 DEF IInv

LEMMA RunHooksStep == ASSUME IInv, RunHooks PROVE IInv'
<1>1. builder.how # "closed"
  BY DEF RunHooks
<1>2. /\ builder' = builder /\ saves' = saves /\ asked' = asked /\ hooked' \in BOOLEAN
      /\ ms' = IF builder.how = "create" THEN [k \in DOMAIN ms |-> Defaults(builder.table, ms[k])] ELSE ms
  BY DEF RunHooks
<1>3. DOMAIN ms = 1 .. Len(ms) /\ Len(ms) \in Nat /\ builder.table \in Tables
  BY <1>1, OpenBuilder
<1>4. Len(ms') = Len(ms) /\ IsList(ms')
  <2>1. CASE builder.how = "create"
    <3>1. ms' = [k \in 1 .. Len(ms) |-> ms'[k]]
      BY <1>2, <1>3, <2>1
    <3>2. QED
      BY <1>3, <3>1, FunctionIsList
  <2>2. CASE builder.how # "create"
    BY <1>1, <1>2, <2>2, OpenBuilder
  <2>3. QED
    BY <2>1, <2>2
<1>5. ASSUME NEW k \in 1 .. Len(ms) PROVE MutationOK(ms'[k], builder.table)
  <2>1. MutationOK(ms[k], builder.table)
    BY <1>1, OpenBuilder
  <2>2. MutationOK(Defaults(builder.table, ms[k]), builder.table)
    BY <1>3, <2>1, DefaultsOK
  <2>3. QED
    BY <1>2, <1>3, <2>1, <2>2
<1>6. BuilderOK'
  BY <1>1, <1>2, <1>4, <1>5, OpenBuilder DEF BuilderOK
<1>7. RowsGiven' /\ ModeOK'
  BY <1>2, DatabaseKept DEF RunHooks
<1>8. Bounds'
  BY DEF RunHooks, IInv, Bounds
<1>9. QED
  BY <1>6, <1>7, <1>8 DEF IInv

-----------------------------------------------------------------------------
(* The calls and the hooks *)

LEMMA ColumnNames ==
  /\ UserOptional \subseteq Columns("users") /\ UserImmutable \subseteq Columns("users")
  /\ Zero \in Values /\ Default \in Values
BY DEF UserOptional, UserImmutable, Columns, Values

LEMMA CallStep ==
  ASSUME IInv, NEW hows \in {All, Updates}, NEW m, NEW a, MutationOK(m, builder.table), Call(hows, m, a)
  PROVE  IInv'
<1>1. builder.how # "closed" /\ Change(m, a)
  BY DEF Call, All, Updates
<1>2. QED
  BY <1>1, ChangeStep

LEMMA ColumnCallStep ==
  ASSUME IInv, NEW c, NEW v \in {Zero, Default}, SetField(c, v) \/ ClearField(c)
  PROVE  IInv'
<1>1. builder.how # "closed"
  BY DEF SetField, ClearField, Call, All, Updates
<1>2. MutationOK(M, builder.table)
  BY <1>1, OpenBuilder
<1>3. CASE SetField(c, v)
  <2>1. MutationOK(SetColumn(M, c, v), builder.table)
    BY <1>2, <1>3, ColumnNames, ColumnCalls DEF SetField
  <2>2. QED
    BY <1>3, <2>1, CallStep DEF SetField
<1>4. CASE ClearField(c)
  <2>1. MutationOK(ClearColumn(M, c), builder.table)
    BY <1>2, <1>4, ColumnNames, ColumnCalls DEF ClearField
  <2>2. QED
    BY <1>4, <2>1, CallStep DEF ClearField
<1>5. QED
  BY <1>3, <1>4

LEMMA EdgeCallStep ==
  ASSUME IInv, NEW e, NEW j,
         AddEdgeIDs(e, j) \/ RemoveEdgeIDs(e, j) \/ ClearMany(e) \/ SetOne(e, j) \/ ClearOne(e)
  PROVE  IInv'
<1>1. builder.how # "closed"
  BY DEF AddEdgeIDs, RemoveEdgeIDs, ClearMany, SetOne, ClearOne, Call, All, Updates
<1>2. MutationOK(M, builder.table)
  BY <1>1, OpenBuilder
<1>3. /\ MutationOK(AddIDs(M, e, {j}), builder.table) /\ MutationOK(RemoveIDs(M, e, {j}), builder.table)
      /\ MutationOK(SetID(M, e, j), builder.table) /\ MutationOK(ClearEdge(M, e), builder.table)
  BY <1>2, EdgeCalls
<1>4. CASE AddEdgeIDs(e, j)
  BY <1>3, <1>4, CallStep DEF AddEdgeIDs
<1>5. CASE RemoveEdgeIDs(e, j)
  BY <1>3, <1>5, CallStep DEF RemoveEdgeIDs
<1>6. CASE ClearMany(e)
  BY <1>3, <1>6, CallStep DEF ClearMany
<1>7. CASE SetOne(e, j)
  BY <1>3, <1>7, CallStep DEF SetOne
<1>8. CASE ClearOne(e)
  BY <1>3, <1>8, CallStep DEF ClearOne
<1>9. QED
  BY <1>4, <1>5, <1>6, <1>7, <1>8

LEMMA ApplyStep ==
  ASSUME IInv, builder.how # "closed", NEW cfg \in Configs, NEW d \in Structs[builder.table], Apply(cfg, d)
  PROVE  IInv'
<1>1. builder.table \in Tables /\ MutationOK(M, builder.table)
  BY OpenBuilder
<1>2. StructOK(d, builder.table)
  BY <1>1, BuilderAssumption DEF StructOK
<1>3. /\ MutationOK(ApplyDomain(builder.table, M, cfg, d), builder.table)
      /\ MutationOK(CreateApplyDomain(builder.table, M, cfg, d), builder.table)
  BY <1>1, <1>2, ApplyDomainOK
<1>4. CASE builder.how = "create"
  BY <1>3, <1>4, CallStep DEF Apply
<1>5. CASE builder.how # "create"
  BY <1>3, <1>5, CallStep DEF Apply
<1>6. QED
  BY <1>4, <1>5

LEMMA HookStep ==
  ASSUME IInv, NEW c, NEW e,
         HookSetField(c, Zero) \/ HookClearField(c) \/ HookResetField(c) \/ HookResetEdge(e)
  PROVE  IInv'
<1>1. hooked
  BY DEF HookSetField, HookClearField, HookResetField, HookResetEdge
<1>2. builder.how # "closed"
  BY <1>1, ClosedBuilder
<1>3. MutationOK(M, builder.table)
  BY <1>2, OpenBuilder
<1>4. CASE HookSetField(c, Zero)
  <2>1. MutationOK(SetColumn(M, c, Zero), builder.table)
    BY <1>3, <1>4, ColumnNames, ColumnCalls DEF HookSetField
  <2>2. QED
    BY <1>2, <1>4, <2>1, ChangeStep DEF HookSetField
<1>5. CASE HookClearField(c)
  <2>1. MutationOK(ClearColumn(M, c), builder.table)
    BY <1>3, <1>5, ColumnNames, ColumnCalls DEF HookClearField
  <2>2. QED
    BY <1>2, <1>5, <2>1, ChangeStep DEF HookClearField
<1>6. CASE HookResetField(c)
  <2>1. MutationOK(ResetColumn(M, c), builder.table)
    BY <1>3, <1>6, ColumnNames, ColumnCalls DEF HookResetField
  <2>2. QED
    BY <1>2, <1>6, <2>1, ChangeStep DEF HookResetField
<1>7. CASE HookResetEdge(e)
  <2>1. MutationOK(ResetEdge(M, e), builder.table)
    BY <1>3, EdgeCalls
  <2>2. QED
    BY <1>2, <1>7, <2>1, ChangeStep DEF HookResetEdge
<1>8. QED
  BY <1>4, <1>5, <1>6, <1>7

-----------------------------------------------------------------------------
(* The saves *)

LEMMA UpdateResult ==
  ASSUME IInv, builder.how \in Updates
  PROVE  DbOK(Result.db) /\ Frame(db, Result.db, UpdateSpec(builder.table, ms[1]), builder.ids)
<1> DEFINE t == builder.table
           s == UpdateSpec(t, ms[1])
<1>1. builder.how # "closed" /\ builder.how # "create"
  BY DEF Updates
<1>2. t \in Tables /\ MutationOK(ms[1], t)
  BY <1>1, OpenBuilder
<1>3. DbOK(db)
  BY DEF IInv, RowsGiven
<1>4. CASE dbms.aborted
  BY <1>3, <1>4, NothingMoved DEF Result, Outcome
<1>5. CASE ~dbms.aborted /\ builder.how = "one"
  <2> DEFINE i == CHOOSE x \in builder.ids : TRUE
             w == SaveOne(db, t, i, ms[1], dbms.sql).db
  <2>1. builder.ids = {i}
    BY <1>1, <1>5, OpenBuilder
  <2>2. Result.db = w
    BY <1>5 DEF Result
  <2> HIDE DEF i
  <2>3. DbOK(w) /\ Frame(db, w, s, {i})
    BY <1>2, <1>3, SaveUpdatesOK
  <2>4. QED
    BY <2>1, <2>2, <2>3
<1>6. CASE ~dbms.aborted /\ builder.how # "one"
  <2> DEFINE ids == builder.ids \cap DOMAIN db.rows[t]
             w == SaveMany(db, t, ids, ms[1], dbms.sql).db
  <2>1. Result.db = w
    BY <1>6 DEF Result, Updates
  <2>2. ids \subseteq DOMAIN db.rows[t] /\ ids \subseteq builder.ids
    OBVIOUS
  <2> HIDE DEF ids
  <2>3. DbOK(w) /\ Frame(db, w, s, ids)
    BY <1>2, <1>3, <2>2, SaveUpdatesOK
  <2>4. Frame(db, w, s, builder.ids)
    BY <2>2, <2>3 DEF Frame, Moved
  <2>5. QED
    BY <2>1, <2>3, <2>4
<1>7. QED
  BY <1>4, <1>5, <1>6

LEMMA CreateResult ==
  ASSUME IInv, builder.how = "create"
  PROVE  /\ Created(db, Result.db, builder.table, last[builder.table] + 1 .. last[builder.table] + Len(ms))
         /\ Result.how = "invalid" => Result.db = db
<1> DEFINE t == builder.table
           first == last[t] + 1
<1>1. /\ t \in Tables /\ Len(ms) \in Nat \ {0} /\ IsList(ms)
      /\ \A k \in 1 .. Len(ms) : MutationOK(ms[k], t)
  BY OpenBuilder
<1>2. DbOK(db) /\ last[t] \in Nat /\ first \in Nat
  BY <1>1 DEF IInv, RowsGiven
<1>3. first + Len(ms) - 1 = last[t] + Len(ms) /\ (Len(ms) = 1 => last[t] + 1 .. last[t] + Len(ms) = {first})
  BY <1>1, <1>2
<1>4. CASE dbms.aborted
  BY <1>2, <1>4, NothingCreated DEF Result, Outcome
<1>5. CASE ~dbms.aborted /\ Len(ms) = 1
  <2>1. Result = SaveNew(db, t, first, ms[1])
    BY <1>5 DEF Result
  <2>2. MutationOK(ms[1], t)
    BY <1>1
  <2> HIDE DEF first, t
  <2>a. t \in Tables /\ DbOK(db) /\ first \in Nat
    BY <1>1, <1>2
  <2>3. LET o == SaveNew(db, t, first, ms[1]) IN Created(db, o.db, t, {first}) /\ (o.how = "invalid" => o.db = db)
    BY <2>a, <2>2, SaveNewOK
  <2>4. Created(db, Result.db, t, {first}) /\ (Result.how = "invalid" => Result.db = db)
    BY <2>1, <2>3
  <2>5. {first} = last[t] + 1 .. last[t] + Len(ms)
    BY <1>3, <1>5 DEF first
  <2>6. QED
    BY <2>4, <2>5 DEF t
<1>6. CASE ~dbms.aborted /\ Len(ms) # 1
  <2>1. Result = SaveBulk(db, t, first, ms)
    BY <1>6 DEF Result
  <2>2. ms \in Seq({ms[k] : k \in 1 .. Len(ms)})
    BY <1>1 DEF IsList
  <2> HIDE DEF first
  <2>3. Created(db, Result.db, t, first .. first + Len(ms) - 1) /\ (Result.how = "invalid" => Result.db = db)
    BY <1>1, <1>2, <2>1, <2>2, SaveBulkOK
  <2>4. QED
    BY <1>3, <2>3 DEF first
<1>7. QED
  BY <1>4, <1>5, <1>6

\* A save ends with the database as it was, or as its result leaves it.
LEMMA SaveStep == ASSUME IInv, Succeeds \/ Fails PROVE IInv'
<1>1. hooked /\ Ended(Result) /\ db' \in {db, Result.db}
  BY DEF Succeeds, Fails
<1>2. builder.how # "closed"
  BY <1>1, ClosedBuilder
<1>3. builder.table \in Tables /\ builder.how \in Hows /\ Len(ms) \in Nat /\ saves < MaxSaves
  BY <1>2, OpenBuilder
<1>4. last' = IF builder.how # "create" \/ Result.how = "invalid" THEN last
              ELSE [last EXCEPT ![builder.table] = @ + Len(ms)]
  BY <1>1 DEF Ended
<1>5. /\ last \in [Tables -> Nat] /\ DbOK(db) /\ Given(db, last) /\ DbOK(base) /\ Given(base, last)
  BY DEF IInv, RowsGiven
<1>6. last' \in [Tables -> Nat] /\ \A u \in Tables : last[u] =< last'[u]
  BY <1>3, <1>4, <1>5
<1>7. \A d : Given(d, last) => Given(d, last')
  BY <1>5, <1>6 DEF Given
<1>8. DbOK(Result.db) /\ Given(Result.db, last')
  <2>1. CASE builder.how \in Updates
    <3>1. DbOK(Result.db) /\ SameRows(Result.db, db)
      BY <2>1, UpdateResult DEF Frame
    <3>2. Given(Result.db, last)
      BY <1>5, <3>1 DEF Given, SameRows
    <3>3. QED
      BY <3>1, <3>2, <1>7
  <2>2. CASE builder.how = "create" /\ Result.how = "invalid"
    BY <1>5, <1>7, <2>2, CreateResult
  <2>3. CASE builder.how = "create" /\ Result.how # "invalid"
    <3>1. Created(db, Result.db, builder.table, last[builder.table] + 1 .. last[builder.table] + Len(ms))
      BY <2>3, CreateResult
    <3>2. last' = [last EXCEPT ![builder.table] = @ + Len(ms)]
      BY <1>4, <2>3
    <3>3. ASSUME NEW u \in Tables PROVE DOMAIN Result.db.rows[u] \subseteq 1 .. last'[u]
      <4>1. DOMAIN Result.db.rows[u] \subseteq DOMAIN db.rows[u]
              \cup (IF u = builder.table THEN last[builder.table] + 1 .. last[builder.table] + Len(ms) ELSE {})
        BY <3>1 DEF Created
      <4>2. DOMAIN db.rows[u] \subseteq 1 .. last[u] /\ last[u] \in Nat
        BY <1>5 DEF Given
      <4>3. CASE u = builder.table
        <5>1. last'[u] = last[u] + Len(ms)
          BY <1>5, <3>2, <4>3
        <5>2. QED
          BY <1>3, <4>1, <4>2, <4>3, <5>1
      <4>4. CASE u # builder.table
        BY <1>5, <3>2, <4>1, <4>2, <4>4
      <4>5. QED
        BY <4>3, <4>4
    <3>4. QED
      BY <3>1, <3>3 DEF Created, Given
  <2>4. QED
    BY <1>3, <2>1, <2>2, <2>3 DEF Hows, Updates
<1>9. DbOK(db') /\ Given(db', last')
  BY <1>1, <1>5, <1>7, <1>8
<1>10. base' = IF mode = "plain" THEN db' ELSE base
  BY <1>1 DEF Ended
<1>11. RowsGiven'
  <2>1. DbOK(base') /\ Given(base', last')
    BY <1>5, <1>7, <1>9, <1>10
  <2>2. QED
    BY <1>6, <1>9, <2>1 DEF RowsGiven
<1>12. ModeOK'
  <2>1. ModeOK /\ hooked' = FALSE
    BY <1>1 DEF IInv, Ended
  <2>2. CASE Succeeds
    BY <1>10, <2>1, <2>2 DEF Succeeds, ModeOK
  <2>3. CASE Fails
    <3>1. mode' = IF mode = "plain" THEN mode ELSE "spoiled"
      BY <2>3 DEF Fails
    <3>2. dbms' = [dbms EXCEPT !.aborted = dbms.aborted \/ (mode # "plain" /\ dbms.sql.strict /\ Result.how = "refused")]
      BY <2>3 DEF Fails
    <3>3. dbms' \in [sql : Dialects, aborted : BOOLEAN]
      BY <2>1, <3>2 DEF ModeOK
    <3>4. dbms'.aborted => dbms.aborted \/ mode # "plain"
      BY <2>1, <3>2 DEF ModeOK
    <3>5. QED
      BY <1>10, <2>1, <3>1, <3>3, <3>4 DEF ModeOK
  <2>4. QED
    BY <2>2, <2>3
<1>13. BuilderOK' /\ Bounds'
  BY <1>1, <1>3, BuilderAssumption DEF Ended, BuilderOK, Bounds, IInv
<1>14. QED
  BY <1>11, <1>12, <1>13 DEF IInv

-----------------------------------------------------------------------------
(* Deletes and transactions *)

LEMMA ClosedKept ==
  ASSUME IInv, builder.how = "closed", UNCHANGED <<builder, hooked, ms, asked>>
  PROVE  BuilderOK'
BY ClosedBuilder DEF BuilderOK

LEMMA DeleteStep ==
  ASSUME IInv, NEW t \in Tables, NEW ids, DeleteRows(t, ids) PROVE IInv'
<1>1. DbOK(DeleteNodes(db, t, ids)) /\ \A u \in Tables : DOMAIN DeleteNodes(db, t, ids).rows[u] \subseteq DOMAIN db.rows[u]
  BY DeleteNodesOK DEF IInv, RowsGiven
<1>2. db' = DeleteNodes(db, t, ids) /\ base' = (IF mode = "plain" THEN db' ELSE base) /\ last' = last
  BY DEF DeleteRows
<1>3. DbOK(db') /\ Given(db', last')
  BY <1>1, <1>2 DEF Given, IInv, RowsGiven
<1>4. RowsGiven'
  BY <1>2, <1>3 DEF IInv, RowsGiven
<1>5. ModeOK'
  BY <1>2 DEF DeleteRows, IInv, ModeOK
<1>6. BuilderOK'
  BY ClosedKept DEF DeleteRows
<1>7. Bounds'
  BY BuilderAssumption DEF DeleteRows, IInv, Bounds
<1>8. QED
  BY <1>4, <1>5, <1>6, <1>7 DEF IInv

LEMMA TransactionStep == ASSUME IInv, Begin \/ Commit \/ Rollback PROVE IInv'
<1>1. BuilderOK' /\ Bounds'
  BY ClosedKept DEF Begin, Commit, Rollback, IInv, Bounds
<1>2. CASE Begin
  <2>1. RowsGiven'
    BY <1>2 DEF Begin, IInv, RowsGiven
  <2>2. ModeOK'
    BY <1>2 DEF Begin, IInv, ModeOK
  <2>3. QED
    BY <1>1, <2>1, <2>2 DEF IInv
<1>3. CASE Commit \/ Rollback
  <2>1. db' \in {db, base} /\ base' = db' /\ last' = last /\ mode' = "plain"
    BY <1>3 DEF Commit, Rollback
  <2>2. RowsGiven'
    BY <2>1 DEF IInv, RowsGiven
  <2>3. dbms' = [dbms EXCEPT !.aborted = FALSE] /\ hooked' = hooked
    BY <1>3 DEF Commit, Rollback
  <2>4. ModeOK'
    BY <2>1, <2>3 DEF IInv, ModeOK
  <2>5. QED
    BY <1>1, <2>2, <2>4 DEF IInv
<1>4. QED
  BY <1>2, <1>3

LEMMA NextOK == ASSUME IInv, Next PROVE IInv'
<1>1. ASSUME NEW t \in Tables, NEW i \in Named, Open(t, "one", {i}) PROVE IInv'
  BY <1>1, OpenStep DEF Hows
<1>2. ASSUME NEW t \in Tables, NEW ids \in Selections, Open(t, "many", ids) PROVE IInv'
  BY <1>2, OpenStep DEF Hows
<1>3. ASSUME NEW t \in Tables, Open(t, "create", {}) PROVE IInv'
  BY <1>3, OpenStep DEF Hows
<1>4. ASSUME NEW c \in Tracked, NEW v \in {Zero, Default}, SetField(c, v) PROVE IInv'
  BY <1>4, ColumnCallStep
<1>5. ASSUME NEW c \in Tracked, ClearField(c) PROVE IInv'
  BY <1>5, ColumnCallStep
<1>6. ASSUME NEW e, NEW j,
             AddEdgeIDs(e, j) \/ RemoveEdgeIDs(e, j) \/ ClearMany(e) \/ SetOne(e, j) \/ ClearOne(e)
      PROVE  IInv'
  BY <1>6, EdgeCallStep
<1>7. ASSUME builder.how # "closed", NEW cfg \in Configs, NEW d \in Structs[builder.table], Apply(cfg, d) PROVE IInv'
  BY <1>7, ApplyStep
<1>8. ASSUME NEW c, NEW e, HookSetField(c, Zero) \/ HookClearField(c) \/ HookResetField(c) \/ HookResetEdge(e) PROVE IInv'
  BY <1>8, HookStep
<1>9. ASSUME NEW t \in Tables, NEW ids \in Selections, DeleteRows(t, ids) PROVE IInv'
  BY <1>9, DeleteStep
<1>10. CASE \/ \E t \in Tables, i \in Named : Open(t, "one", {i})
            \/ \E t \in Tables, ids \in Selections : Open(t, "many", ids)
            \/ \E t \in Tables : last[t] + MaxBulk =< MaxRows /\ Open(t, "create", {})
  BY <1>1, <1>2, <1>3, <1>10
<1>11. CASE \/ \E c \in Tracked, v \in {Zero, Default} : SetField(c, v)
            \/ \E c \in Tracked : ClearField(c)
            \/ \E e \in {"posts", "tags", "pinners", "users"}, j \in Named :
                 AddEdgeIDs(e, j) \/ RemoveEdgeIDs(e, j)
            \/ \E e \in {"posts", "tags", "pinners", "users"} : ClearMany(e)
            \/ \E e \in {"pinned_post", "owner"} : ClearOne(e) \/ \E j \in Named : SetOne(e, j)
            \/ builder.how # "closed" /\ \E cfg \in Configs, d \in Structs[builder.table] : Apply(cfg, d)
  BY <1>4, <1>5, <1>6, <1>7, <1>11
<1>12. CASE \/ \E c \in Tracked : HookSetField(c, Zero) \/ HookClearField(c) \/ HookResetField(c)
            \/ \E e \in Edges(builder.table) : HookResetEdge(e)
  BY <1>8, <1>12
<1>13. CASE Another \/ RunHooks \/ Succeeds \/ Fails \/ Begin \/ Commit \/ Rollback
  BY <1>13, AnotherStep, RunHooksStep, SaveStep, TransactionStep
<1>14. CASE \E t \in Tables, ids \in Selections : DeleteRows(t, ids)
  BY <1>9, <1>14
<1>15. QED
  BY <1>10, <1>11, <1>12, <1>13, <1>14 DEF Next

LEMMA IInvHolds == Spec => []IInv
<1>1. ASSUME IInv, UNCHANGED vars PROVE IInv'
  <2>1. UNCHANGED <<db, last, base, mode, dbms, builder, hooked, ms, asked, calls, saves>>
    BY <1>1 DEF vars
  <2>2. RowsGiven'
    BY <1>1, <2>1 DEF IInv, RowsGiven
  <2>3. ModeOK'
    BY <1>1, <2>1 DEF IInv, ModeOK
  <2>4. BuilderOK'
    BY <1>1, <2>1 DEF IInv, BuilderOK
  <2>5. Bounds'
    BY <1>1, <2>1 DEF IInv, Bounds
  <2>6. QED
    BY <2>2, <2>3, <2>4, <2>5 DEF IInv
<1>2. IInv /\ [Next]_vars => IInv'
  BY <1>1, NextOK
<1>3. QED
  BY InitOK, <1>2, PTL DEF Spec

-----------------------------------------------------------------------------
(* The properties *)

LEMMA IInvIsEnough == IInv => ReferencesHold
<1> SUFFICES ASSUME IInv PROVE TypeOK /\ ForeignKeysHold(db)
  BY DEF ReferencesHold
<1>1. DbOK(db) /\ Given(db, last)
  BY DEF IInv, RowsGiven
<1>2. \A t \in Tables : /\ DOMAIN db.rows[t] \subseteq 1 .. last[t]
                        /\ \A i \in DOMAIN db.rows[t] : db.rows[t][i] \in [Columns(t) -> Values]
  BY <1>1 DEF DbOK, RowsOK, Given
<1>3. Len(ms) = Len(asked) /\ (ms = <<>> <=> builder.how = "closed") /\ (hooked => builder.how # "closed")
  <2>1. CASE builder.how = "closed"
    BY <2>1, ClosedBuilder
  <2>2. CASE builder.how # "closed"
    <3>1. Len(ms) # 0 /\ Len(asked) = Len(ms)
      BY <2>2, OpenBuilder
    <3>2. Len(<<>>) = 0
      OBVIOUS
    <3>3. QED
      BY <2>2, <3>1, <3>2
  <2>3. QED
    BY <2>1, <2>2
<1>4. TypeOK
  BY <1>2, <1>3 DEF TypeOK, IInv, ModeOK, Bounds
<1>5. QED
  BY <1>1, <1>4 DEF DbOK

\* No row ever refers to a row that is gone or was never there: not halfway
\* through a save that failed in the client's transaction, not after the foreign
\* keys of the schema (migrate/schema.go) acted on a delete, and not after a
\* rollback; and the ids of rows are those that the sequences gave.
THEOREM ReferencesStand == Spec => []ReferencesHold
<1>1. Spec => []IInv
  BY IInvHolds
<1>2. QED
  BY <1>1, IInvIsEnough, PTL

\* While a builder is open, only its save changes the database.
LEMMA OnlySaves ==
  ASSUME IInv, Next, builder.how # "closed"
  PROVE  db' = db \/ (db' = Result.db /\ builder.how \in Hows)
<1>1. builder.how \in Hows
  BY OpenBuilder
<1>2. CASE \/ \E t \in Tables, i \in Named : Open(t, "one", {i})
           \/ \E t \in Tables, ids \in Selections : Open(t, "many", ids)
           \/ \E t \in Tables : last[t] + MaxBulk =< MaxRows /\ Open(t, "create", {})
           \/ \E t \in Tables, ids \in Selections : DeleteRows(t, ids)
           \/ Begin \/ Commit \/ Rollback
  BY <1>2 DEF Open, DeleteRows, Begin, Commit, Rollback
<1>3. ASSUME NEW m, NEW a, Change(m, a) PROVE db' = db
  BY <1>3 DEF Change
<1>4. ASSUME NEW hows, NEW m, NEW a, Call(hows, m, a) PROVE db' = db
  BY <1>4, <1>3 DEF Call
<1>5. CASE \/ \E c \in Tracked, v \in {Zero, Default} : SetField(c, v)
           \/ \E c \in Tracked : ClearField(c)
           \/ \E e \in {"posts", "tags", "pinners", "users"}, j \in Named :
                AddEdgeIDs(e, j) \/ RemoveEdgeIDs(e, j)
           \/ \E e \in {"posts", "tags", "pinners", "users"} : ClearMany(e)
           \/ \E e \in {"pinned_post", "owner"} : ClearOne(e) \/ \E j \in Named : SetOne(e, j)
           \/ builder.how # "closed" /\ \E cfg \in Configs, d \in Structs[builder.table] : Apply(cfg, d)
  BY <1>4, <1>5 DEF SetField, ClearField, AddEdgeIDs, RemoveEdgeIDs, ClearMany, ClearOne, SetOne, Apply
<1>6. CASE \/ \E c \in Tracked : HookSetField(c, Zero) \/ HookClearField(c) \/ HookResetField(c)
           \/ \E e \in Edges(builder.table) : HookResetEdge(e)
  BY <1>3, <1>6 DEF HookSetField, HookClearField, HookResetField, HookResetEdge
<1>7. CASE Another \/ RunHooks
  BY <1>7 DEF Another, RunHooks
<1>8. CASE Succeeds \/ Fails
  BY <1>1, <1>8 DEF Succeeds, Fails
<1>9. QED
  BY <1>2, <1>5, <1>6, <1>7, <1>8 DEF Next

TheftFreeStep ==
  builder.table = "users" =>
    \A j \in DOMAIN db.fk.user_posts \cap DOMAIN db'.fk.user_posts :
      LET was == db.fk.user_posts[j]
          is == db'.fk.user_posts[j]
      IN  was # is => is = NoId \/ was = NoId \/ was \in builder.ids

LEMMA NoStepSteals == ASSUME IInv, Next PROVE TheftFreeStep
<1> SUFFICES ASSUME builder.table = "users", NEW j \in DOMAIN db.fk.user_posts \cap DOMAIN db'.fk.user_posts
             PROVE  LET was == db.fk.user_posts[j]
                        is == db'.fk.user_posts[j]
                    IN  was # is => is = NoId \/ was = NoId \/ was \in builder.ids
  BY DEF TheftFreeStep
<1>1. builder.how # "closed"
  <2>1. SUFFICES ASSUME builder.how = "closed" PROVE FALSE
    OBVIOUS
  <2>2. builder = Promise!Closed
    BY <2>1, ClosedBuilder
  <2>3. QED
    BY <2>2 DEF Promise!Closed
<1>2. CASE db' = db
  BY <1>2
<1>3. CASE db' = Result.db /\ builder.how \in Updates
  <2> DEFINE s == UpdateSpec(builder.table, ms[1])
  <2>1. s.table = "users"
    BY <1>1, UpdateSpecOK, OpenBuilder, <1>3
  <2>2. Moved(db, db', "user_posts", builder.ids)
    BY <1>3, <2>1, UpdateResult DEF Frame
  <2>3. QED
    BY <2>2 DEF Moved
<1>4. CASE db' = Result.db /\ builder.how = "create"
  <2>1. Filled(db, db', "user_posts")
    BY <1>4, CreateResult DEF Created
  <2>2. QED
    BY <2>1 DEF Filled
<1>5. QED
  BY <1>1, <1>2, <1>3, <1>4, OnlySaves DEF Hows, Updates

\* A save of a user takes no post from another user, whatever was called, asked
\* by hooks or replaced by an ApplyDomain, also where it fails halfway inside a
\* transaction: sqlgraph links a post only where its foreign key is NULL.
THEOREM TheftFree == Spec => NoTheft
<1>1. IInv /\ UNCHANGED vars => TheftFreeStep
  BY DEF vars, TheftFreeStep
<1>2. IInv /\ [Next]_vars => TheftFreeStep
  BY <1>1, NoStepSteals
<1>3. Spec => []IInv
  BY IInvHolds
<1>4. (builder.table = "users" =>
         \A j \in DOMAIN db.fk.user_posts \cap DOMAIN db'.fk.user_posts :
           LET was == db.fk.user_posts[j]
               is == db'.fk.user_posts[j]
           IN  was # is => is = NoId \/ was = NoId \/ was \in builder.ids) <=> TheftFreeStep
  BY DEF TheftFreeStep
<1>5. QED
  BY <1>2, <1>3, <1>4, PTL DEF Spec, NoTheft

\* A change of an edge is in what a hook reads of the mutation.
LEMMA EdgeSeen ==
  ASSUME NEW m, NEW e, EdgeChange(m, e) # NoChange
  PROVE  e \in AddedEdges(m) \cup RemovedEdges(m) \cup ClearedEdges(m)
<1> SUFFICES ASSUME e \notin DOMAIN m.ids, e \notin DOMAIN m.removed, e \notin m.gone
             PROVE  EdgeChange(m, e) = NoChange
  BY DEF AddedEdges, RemovedEdges, ClearedEdges
<1>1. IDs(m, e) = {} /\ RemovedIDs(m, e) = {} /\ (e \in m.gone) = FALSE
  BY DEF IDs, RemovedIDs
<1>2. EdgeChange(m, e) = [all |-> FALSE, removed |-> {}, added |-> {}]
  BY <1>1 DEF EdgeChange
<1>3. QED
  BY <1>2 DEF NoChange

SeenStep ==
  builder.how \in Updates =>
    /\ \A i \in DOMAIN db.rows[builder.table] : \A c \in Columns(builder.table) :
         db'.rows[builder.table][i][c] # db.rows[builder.table][i][c] => c \in Fields(M) \cup ClearedFields(M)
    /\ db'.fk.user_posts # db.fk.user_posts => Seen({"posts", "owner"})
    /\ db'.fk.user_pinned_post # db.fk.user_pinned_post => Seen({"pinned_post", "pinners"})
    /\ db'.user_tags # db.user_tags => Seen({"tags", "users"})

\* The parts of an update's specification are the mutation's edges.
LEMMA SpecEdges ==
  ASSUME NEW t \in Tables, NEW m
  PROVE  LET s == UpdateSpec(t, m) IN
         /\ s.table = t /\ DOMAIN s.set \subseteq Fields(m) /\ s.cleared = ClearedFields(m)
         /\ t = "users" => /\ s.own = EdgeChange(m, "pinned_post") /\ s.others = EdgeChange(m, "posts")
                           /\ s.key = "user_posts" /\ s.joined = EdgeChange(m, "tags")
         /\ t = "posts" => /\ s.own = EdgeChange(m, "owner") /\ s.others = EdgeChange(m, "pinners")
                           /\ s.key = "user_pinned_post" /\ s.joined = NoChange
         /\ t = "tags" => s.own = NoChange /\ s.others = NoChange /\ s.joined = EdgeChange(m, "users")
<1>1. CASE t = "users"
  BY <1>1 DEF UpdateSpec, UserUpdateSpec, Fields, ClearedFields
<1>2. CASE t = "posts"
  BY <1>2 DEF UpdateSpec, PostUpdateSpec, Fields, ClearedFields
<1>3. CASE t = "tags"
  BY <1>3 DEF UpdateSpec, TagUpdateSpec, Fields, ClearedFields
<1>4. QED
  BY <1>1, <1>2, <1>3 DEF Tables

LEMMA NoStepUnseen == ASSUME IInv, Next PROVE SeenStep
<1> SUFFICES ASSUME builder.how \in Updates
             PROVE  /\ \A i \in DOMAIN db.rows[builder.table] : \A c \in Columns(builder.table) :
                         db'.rows[builder.table][i][c] # db.rows[builder.table][i][c] => c \in Fields(M) \cup ClearedFields(M)
                    /\ db'.fk.user_posts # db.fk.user_posts => Seen({"posts", "owner"})
                    /\ db'.fk.user_pinned_post # db.fk.user_pinned_post => Seen({"pinned_post", "pinners"})
                    /\ db'.user_tags # db.user_tags => Seen({"tags", "users"})
  BY DEF SeenStep
<1> DEFINE t == builder.table
           s == UpdateSpec(t, ms[1])
<1>1. builder.how # "closed" /\ builder.how # "create"
  BY DEF Updates
<1>2. t \in Tables /\ Len(ms) = 1 /\ M = ms[1] /\ DOMAIN ms = {1}
  <2>1. t \in Tables /\ Len(ms) = 1 /\ IsList(ms)
    BY <1>1, OpenBuilder
  <2>2. DOMAIN ms = 1 .. Len(ms)
    BY <2>1 DEF IsList
  <2>3. QED
    BY <2>1, <2>2 DEF M
<1>3. CASE db' = db
  BY <1>3
<1>4. CASE db' = Result.db
  <2>1. Frame(db, db', s, builder.ids)
    BY <1>4, UpdateResult
  <2>2. /\ s.table = t /\ DOMAIN s.set \subseteq Fields(M) /\ s.cleared = ClearedFields(M)
        /\ t = "users" => /\ s.own = EdgeChange(M, "pinned_post") /\ s.others = EdgeChange(M, "posts")
                          /\ s.key = "user_posts" /\ s.joined = EdgeChange(M, "tags")
        /\ t = "posts" => /\ s.own = EdgeChange(M, "owner") /\ s.others = EdgeChange(M, "pinners")
                          /\ s.key = "user_pinned_post" /\ s.joined = NoChange
        /\ t = "tags" => s.own = NoChange /\ s.others = NoChange /\ s.joined = EdgeChange(M, "users")
    BY <1>2, SpecEdges
  <2> HIDE DEF s
  <2>3. ASSUME NEW edges, NEW e \in edges, EdgeChange(M, e) # NoChange PROVE Seen(edges)
    <3>1. e \in AddedEdges(ms[1]) \cup RemovedEdges(ms[1]) \cup ClearedEdges(ms[1])
      BY <1>2, <2>3, EdgeSeen
    <3>2. QED
      BY <1>2, <2>3, <3>1 DEF Seen
  <2>4. \A i \in DOMAIN db.rows[t] : \A c \in Columns(t) :
           db'.rows[t][i][c] # db.rows[t][i][c] => c \in Fields(M) \cup ClearedFields(M)
    BY <1>2, <2>1, <2>2 DEF Frame
  <2>5. ASSUME db'.fk.user_posts # db.fk.user_posts PROVE Seen({"posts", "owner"})
    <3>1. (t = "posts" /\ s.own # NoChange) \/ (s.key = "user_posts" /\ s.others # NoChange)
      BY <2>1, <2>2, <2>5, KeyFacts DEF Frame
    <3>2. CASE t = "posts"
      BY <2>2, <2>3, <3>1, <3>2
    <3>3. CASE t = "users"
      BY <2>2, <2>3, <3>1, <3>3
    <3>4. QED
      BY <1>2, <2>2, <3>1, <3>2, <3>3 DEF Tables
  <2>6. ASSUME db'.fk.user_pinned_post # db.fk.user_pinned_post PROVE Seen({"pinned_post", "pinners"})
    <3>1. (t = "users" /\ s.own # NoChange) \/ (s.key = "user_pinned_post" /\ s.others # NoChange)
      BY <2>1, <2>2, <2>6, KeyFacts DEF Frame
    <3>2. CASE t = "posts"
      BY <2>2, <2>3, <3>1, <3>2
    <3>3. CASE t = "users"
      BY <2>2, <2>3, <3>1, <3>3
    <3>4. QED
      BY <1>2, <2>2, <3>1, <3>2, <3>3 DEF Tables
  <2>7. ASSUME db'.user_tags # db.user_tags PROVE Seen({"tags", "users"})
    <3>1. s.joined # NoChange
      BY <2>1, <2>7 DEF Frame
    <3>2. CASE t = "users"
      BY <2>2, <2>3, <3>1, <3>2
    <3>3. CASE t = "tags"
      BY <2>2, <2>3, <3>1, <3>3
    <3>4. QED
      BY <1>2, <2>2, <3>1, <3>2, <3>3 DEF Tables
  <2>8. QED
    BY <2>4, <2>5, <2>6, <2>7
<1>5. QED
  BY <1>1, <1>3, <1>4, OnlySaves

\* Whatever an update changes, the mutation said so to the hooks that ran before
\* it: the columns among its fields and cleared fields, the edges among the
\* added, removed and cleared ones (mutation.go:351, 467).
THEOREM HooksSee == Spec => HooksSeeEveryChange
<1>1. IInv /\ UNCHANGED vars => SeenStep
  BY DEF vars, SeenStep
<1>2. IInv /\ [Next]_vars => SeenStep
  BY <1>1, NoStepUnseen
<1>3. Spec => []IInv
  BY IInvHolds
<1>4. (builder.how \in Updates =>
         /\ \A i \in DOMAIN db.rows[builder.table] : \A c \in Columns(builder.table) :
              db'.rows[builder.table][i][c] # db.rows[builder.table][i][c] =>
                c \in Fields(M) \cup ClearedFields(M)
         /\ db'.fk.user_posts # db.fk.user_posts => Seen({"posts", "owner"})
         /\ db'.fk.user_pinned_post # db.fk.user_pinned_post => Seen({"pinned_post", "pinners"})
         /\ db'.user_tags # db.user_tags => Seen({"tags", "users"})) <=> SeenStep
  BY DEF SeenStep
<1>5. QED
  BY <1>2, <1>3, <1>4, PTL DEF Spec, HooksSeeEveryChange

-----------------------------------------------------------------------------
(* What a mutation holds and what was asked of it *)

ManyEdges == {"posts", "pinners", "tags", "users"}
OneEdges == {"pinned_post", "owner"}
Defaulted == {"status", "created_at", "published"}

AskedOK(a) == a \in [col : {a.col}, one : {a.one}, many : {a.many}, only : {a.only}]
\* A column that was set or cleared is asked for with its value; but for one that
\* a default gave, and one that an update does not write.
ColumnsMeant(how, m, a) ==
  /\ DOMAIN a.col \subseteq DOMAIN m.set \cup m.cleared
  /\ \A c \in DOMAIN a.col : a.col[c] = IF c \in DOMAIN m.set THEN m.set[c] ELSE Null
  /\ m.cleared \subseteq DOMAIN a.col \cap UserOptional
  /\ IF how = "create" THEN \A c \in DOMAIN m.set \ DOMAIN a.col : c \in Defaulted /\ m.set[c] = Default
     ELSE DOMAIN a.col \cap UserImmutable = {} /\ DOMAIN m.set \ DOMAIN a.col \subseteq UserImmutable
\* The ids of an edge are the last word about each; a unique edge that was both
\* set and cleared keeps what was set.
ManyMeant(m, a) ==
  \A e \in ManyEdges :
    /\ \A j : /\ Promise!Says(a, e, j, TRUE) <=> j \in IDs(m, e)
              /\ Promise!Says(a, e, j, FALSE) <=> j \in RemovedIDs(m, e) \ IDs(m, e)
    /\ e \in a.only <=> e \in m.gone
OneMeant(m, a) ==
  /\ DOMAIN a.one \subseteq OneEdges
  /\ \A e \in OneEdges :
       /\ e \in DOMAIN a.one <=> e \in DOMAIN m.ids \cup m.gone
       /\ e \in DOMAIN m.ids => m.ids[e] = {a.one[e]}
       /\ e \in m.gone \ DOMAIN m.ids => a.one[e] = NoId
EdgesMeant(t, how, m, a) ==
  /\ DOMAIN m.ids \cup DOMAIN m.removed \cup m.gone \subseteq Edges(t)
  /\ ManyMeant(m, a) /\ OneMeant(m, a)
  /\ how = "create" => m.gone = {} /\ DOMAIN m.removed = {}
Meant(t, how, m, a) == AskedOK(a) /\ MutationOK(m, t) /\ ColumnsMeant(how, m, a) /\ EdgesMeant(t, how, m, a)

\* A mutation nobody has touched means that nothing was asked.
LEMMA NothingMeant == ASSUME NEW t, NEW how PROVE Meant(t, how, NewMutation, Promise!Nothing)
<1> DEFINE m == NewMutation
           a == Promise!Nothing
<1>1. AskedOK(a) /\ DOMAIN a.col = {} /\ DOMAIN a.one = {} /\ DOMAIN a.many = {} /\ a.only = {}
  BY DEF AskedOK, Promise!Nothing
<1>2. /\ MutationOK(m, t) /\ DOMAIN m.set = {} /\ m.cleared = {}
      /\ DOMAIN m.ids = {} /\ DOMAIN m.removed = {} /\ m.gone = {}
  BY NewMutationOK DEF NewMutation
<1> HIDE DEF m, a
<1>3. ColumnsMeant(how, m, a) /\ EdgesMeant(t, how, m, a)
  BY <1>1, <1>2 DEF ColumnsMeant, EdgesMeant, ManyMeant, OneMeant, Promise!Says, IDs, RemovedIDs
<1>4. QED
  BY <1>1, <1>2, <1>3 DEF Meant, m, a

\* Calls about columns leave the edges, and calls about edges the columns.
LEMMA SameEdges ==
  ASSUME NEW t, NEW how, NEW m, NEW a, EdgesMeant(t, how, m, a), NEW n, NEW b,
         n.ids = m.ids, n.removed = m.removed, n.gone = m.gone,
         b.one = a.one, b.many = a.many, b.only = a.only
  PROVE  EdgesMeant(t, how, n, b)
<1>1. ManyMeant(n, b)
  BY DEF EdgesMeant, ManyMeant, Promise!Says, IDs, RemovedIDs
<1>2. OneMeant(n, b)
  BY DEF EdgesMeant, OneMeant
<1>3. QED
  BY <1>1, <1>2 DEF EdgesMeant
LEMMA SameColumns ==
  ASSUME NEW how, NEW m, NEW a, ColumnsMeant(how, m, a), NEW n, NEW b,
         n.set = m.set, n.cleared = m.cleared, b.col = a.col
  PROVE  ColumnsMeant(how, n, b)
BY DEF ColumnsMeant

LEMMA ColumnClasses ==
  /\ UserOptional \cap UserImmutable = {} /\ UserOptional \cap Defaulted = {}
  /\ PostColumns \cap (UserOptional \cup UserImmutable) = {} /\ TagColumns \cap (UserOptional \cup UserImmutable) = {}
BY DEF UserOptional, UserImmutable, Defaulted, PostColumns, TagColumns

\* A call about a column, on the mutation and on what is asked.
LEMMA SetMeant ==
  ASSUME NEW t, NEW how, NEW m, NEW a, Meant(t, how, m, a), NEW c \in Columns(t), NEW v \in Values,
         how = "create" \/ c \notin UserImmutable
  PROVE  Meant(t, how, SetColumn(m, c, v), Promise!AskColumn(a, c, v))
<1> DEFINE n == SetColumn(m, c, v)
           b == Promise!AskColumn(a, c, v)
<1>1. /\ n.set = With(m.set, c, v) /\ n.cleared = m.cleared
      /\ n.ids = m.ids /\ n.removed = m.removed /\ n.gone = m.gone
  BY DEF SetColumn, Meant, MutationOK
<1>2. AskedOK(b) /\ b.col = With(a.col, c, v) /\ b.one = a.one /\ b.many = a.many /\ b.only = a.only
  BY DEF Promise!AskColumn, Promise!With, With, Meant, AskedOK
<1>3. MutationOK(n, t)
  BY ColumnCalls DEF Meant
<1> HIDE DEF n, b
<1>4. EdgesMeant(t, how, n, b)
  BY <1>1, <1>2, SameEdges DEF Meant
<1>5. ColumnsMeant(how, n, b)
  BY <1>1, <1>2 DEF ColumnsMeant, With, Meant
<1>6. QED
  BY <1>2, <1>3, <1>4, <1>5 DEF Meant, n, b

\* An update that sets an immutable column asks nothing: it is not written.
LEMMA SetUnasked ==
  ASSUME NEW t, NEW how, NEW m, NEW a, Meant(t, how, m, a), NEW c \in Columns(t), NEW v \in Values,
         how # "create", c \in UserImmutable
  PROVE  Meant(t, how, SetColumn(m, c, v), a)
<1> DEFINE n == SetColumn(m, c, v)
<1>1. /\ n.set = With(m.set, c, v) /\ n.cleared = m.cleared
      /\ n.ids = m.ids /\ n.removed = m.removed /\ n.gone = m.gone
  BY DEF SetColumn, Meant, MutationOK
<1>3. MutationOK(n, t)
  BY ColumnCalls DEF Meant
<1> HIDE DEF n
<1>4. EdgesMeant(t, how, n, a)
  BY <1>1, SameEdges DEF Meant
<1>5. ColumnsMeant(how, n, a)
  BY <1>1 DEF ColumnsMeant, With, Meant
<1>6. QED
  BY <1>3, <1>4, <1>5 DEF Meant, n

LEMMA ClearMeant ==
  ASSUME NEW t, NEW how, NEW m, NEW a, Meant(t, how, m, a), NEW c \in UserOptional, c \in Columns(t)
  PROVE  Meant(t, how, ClearColumn(m, c), Promise!AskColumn(a, c, Null))
<1> DEFINE n == ClearColumn(m, c)
           b == Promise!AskColumn(a, c, Null)
<1>1. /\ n.set = Dropped(m.set, c) /\ n.cleared = m.cleared \cup {c}
      /\ n.ids = m.ids /\ n.removed = m.removed /\ n.gone = m.gone
  BY DEF ClearColumn, Meant, MutationOK
<1>2. AskedOK(b) /\ b.col = With(a.col, c, Null) /\ b.one = a.one /\ b.many = a.many /\ b.only = a.only
  BY DEF Promise!AskColumn, Promise!With, With, Meant, AskedOK
<1>3. MutationOK(n, t)
  BY ColumnCalls DEF Meant, Values
<1> HIDE DEF n, b
<1>4. EdgesMeant(t, how, n, b)
  BY <1>1, <1>2, SameEdges DEF Meant
<1>5. ColumnsMeant(how, n, b)
  BY <1>1, <1>2, ColumnClasses DEF ColumnsMeant, With, Dropped, Meant
<1>6. QED
  BY <1>2, <1>3, <1>4, <1>5 DEF Meant, n, b

LEMMA ResetMeant ==
  ASSUME NEW t, NEW how, NEW m, NEW a, Meant(t, how, m, a), NEW c \in Columns(t)
  PROVE  Meant(t, how, ResetColumn(m, c), Promise!Forget(a, c))
<1> DEFINE n == ResetColumn(m, c)
           b == Promise!Forget(a, c)
<1>1. /\ n.set = Dropped(m.set, c) /\ n.cleared = m.cleared \ {c}
      /\ n.ids = m.ids /\ n.removed = m.removed /\ n.gone = m.gone
  BY DEF ResetColumn, Meant, MutationOK
<1>2. AskedOK(b) /\ b.col = Dropped(a.col, c) /\ b.one = a.one /\ b.many = a.many /\ b.only = a.only
  BY DEF Promise!Forget, Promise!Dropped, Dropped, Meant, AskedOK
<1>3. MutationOK(n, t)
  BY ColumnCalls DEF Meant, Values
<1> HIDE DEF n, b
<1>4. EdgesMeant(t, how, n, b)
  BY <1>1, <1>2, SameEdges DEF Meant
<1>5. ColumnsMeant(how, n, b)
  BY <1>1, <1>2 DEF ColumnsMeant, Dropped, Meant
<1>6. QED
  BY <1>2, <1>3, <1>4, <1>5 DEF Meant, n, b

\* The defaults of a create are asked by nobody.
LEMMA DefaultsMeant ==
  ASSUME NEW t \in Tables, NEW m, NEW a, Meant(t, "create", m, a)
  PROVE  Meant(t, "create", Defaults(t, m), a)
<1>1. ASSUME NEW columns, columns \subseteq Columns(t), columns \subseteq Defaulted
      PROVE  Meant(t, "create", WithDefaults(m, columns), a)
  <2> DEFINE n == WithDefaults(m, columns)
  <2>1. /\ n.set = Over(m.set, [c \in columns |-> Default]) /\ n.cleared = m.cleared
        /\ n.ids = m.ids /\ n.removed = m.removed /\ n.gone = m.gone
    BY DEF WithDefaults, Meant, MutationOK
  <2>2. MutationOK(n, t)
    BY <1>1 DEF WithDefaults, MutationOK, Over, Values, Meant
  <2> HIDE DEF n
  <2>3. EdgesMeant(t, "create", n, a)
    BY <2>1, SameEdges DEF Meant
  <2>4. ColumnsMeant("create", n, a)
    BY <1>1, <2>1, ColumnClasses DEF ColumnsMeant, Over, Meant
  <2>5. QED
    BY <2>2, <2>3, <2>4 DEF Meant, n
<1>2. QED
  BY <1>1 DEF Defaults, UserDefaults, PostDefaults, Columns, Defaulted

\* What the calls of the promise do to what was asked.
LEMMA AskManyFacts ==
  ASSUME NEW a, AskedOK(a), NEW e, NEW S, NEW in
  PROVE  LET b == Promise!AskMany(a, e, S, in) IN
         /\ AskedOK(b) /\ b.col = a.col /\ b.one = a.one /\ b.only = a.only
         /\ \A x, j, v : Promise!Says(b, x, j, v) <=>
              IF x = e /\ j \in S THEN in = v ELSE Promise!Says(a, x, j, v)
<1> DEFINE b == Promise!AskMany(a, e, S, in)
           P == {e} \X S
<1>1. /\ AskedOK(b) /\ b.col = a.col /\ b.one = a.one /\ b.only = a.only
      /\ b.many = [y \in P \cup DOMAIN a.many |-> IF y \in P THEN in ELSE a.many[y]]
  BY DEF Promise!AskMany, Promise!Over, AskedOK
<1>2. \A x, j : <<x, j>> \in P <=> x = e /\ j \in S
  OBVIOUS
<1> HIDE DEF b, P
<1>3. \A x, j, v : Promise!Says(b, x, j, v) <=> IF x = e /\ j \in S THEN in = v ELSE Promise!Says(a, x, j, v)
  BY <1>1, <1>2 DEF Promise!Says
<1>4. QED
  BY <1>1, <1>3 DEF b

LEMMA AskOneFacts ==
  ASSUME NEW a, AskedOK(a), NEW e, NEW j
  PROVE  LET b == Promise!AskOne(a, e, j) IN
         AskedOK(b) /\ b.col = a.col /\ b.many = a.many /\ b.only = a.only /\ b.one = With(a.one, e, j)
BY DEF Promise!AskOne, Promise!With, With, AskedOK

LEMMA AskOnlyFacts ==
  ASSUME NEW a, AskedOK(a), NEW e
  PROVE  LET b == Promise!AskOnly(a, e) IN
         AskedOK(b) /\ b.col = a.col /\ b.many = a.many /\ b.one = a.one /\ b.only = a.only \cup {e}
BY DEF Promise!AskOnly, AskedOK

LEMMA ForgetEdgeFacts ==
  ASSUME NEW a, AskedOK(a), NEW e
  PROVE  LET b == Promise!ForgetEdge(a, e) IN
         /\ AskedOK(b) /\ b.col = a.col /\ b.one = Dropped(a.one, e) /\ b.only = a.only \ {e}
         /\ \A x, j, v : Promise!Says(b, x, j, v) <=> x # e /\ Promise!Says(a, x, j, v)
<1> DEFINE b == Promise!ForgetEdge(a, e)
<1>1. /\ AskedOK(b) /\ b.col = a.col /\ b.one = Dropped(a.one, e) /\ b.only = a.only \ {e}
      /\ b.many = [pair \in {q \in DOMAIN a.many : q[1] # e} |-> a.many[pair]]
  BY DEF Promise!ForgetEdge, Promise!Dropped, Dropped, AskedOK
<1> HIDE DEF b
<1>2. ASSUME NEW x, NEW j, NEW v PROVE Promise!Says(b, x, j, v) <=> x # e /\ Promise!Says(a, x, j, v)
  <2> DEFINE p == <<x, j>>
  <2>1. p[1] = x
    OBVIOUS
  <2>2. Promise!Says(b, x, j, v) <=> p \in DOMAIN b.many /\ b.many[p] = v
    BY DEF Promise!Says
  <2>3. Promise!Says(a, x, j, v) <=> p \in DOMAIN a.many /\ a.many[p] = v
    BY DEF Promise!Says
  <2> HIDE DEF p
  <2>4. QED
    BY <1>1, <2>1, <2>2, <2>3
<1>3. QED
  BY <1>1, <1>2 DEF b

LEMMA EdgeNames ==
  /\ ManyEdges \cap OneEdges = {} /\ \A t : Edges(t) \subseteq ManyEdges \cup OneEdges
BY DEF ManyEdges, OneEdges, Edges

\* What the edge calls do to a mutation.
LEMMA AddFacts ==
  ASSUME NEW t, NEW m, MutationOK(m, t), NEW e, NEW S
  PROVE  LET n == AddIDs(m, e, S) IN
         /\ n.set = m.set /\ n.cleared = m.cleared /\ n.removed = m.removed /\ n.gone = m.gone
         /\ n.ids = With(m.ids, e, IDs(m, e) \cup S)
BY DEF MutationOK, AddIDs
LEMMA RemoveFacts ==
  ASSUME NEW t, NEW m, MutationOK(m, t), NEW e, NEW S
  PROVE  LET n == RemoveIDs(m, e, S) IN
         /\ n.set = m.set /\ n.cleared = m.cleared /\ n.gone = m.gone
         /\ n.ids = [x \in DOMAIN m.ids |-> IF x = e THEN m.ids[x] \ S ELSE m.ids[x]]
         /\ n.removed = With(m.removed, e, RemovedIDs(m, e) \cup S)
BY DEF MutationOK, RemoveIDs
LEMMA SetIDFacts ==
  ASSUME NEW t, NEW m, MutationOK(m, t), NEW e, NEW j
  PROVE  LET n == SetID(m, e, j) IN
         /\ n.set = m.set /\ n.cleared = m.cleared /\ n.removed = m.removed /\ n.gone = m.gone
         /\ n.ids = With(m.ids, e, {j})
BY DEF MutationOK, SetID
LEMMA ClearResetFacts ==
  ASSUME NEW t, NEW m, MutationOK(m, t), NEW e
  PROVE  /\ LET n == ClearEdge(m, e) IN
              /\ n.set = m.set /\ n.cleared = m.cleared /\ n.removed = m.removed /\ n.ids = m.ids
              /\ n.gone = m.gone \cup {e}
         /\ LET n == ResetEdge(m, e) IN
              /\ n.set = m.set /\ n.cleared = m.cleared
              /\ n.ids = Dropped(m.ids, e) /\ n.removed = Dropped(m.removed, e) /\ n.gone = m.gone \ {e}
BY DEF MutationOK, ClearEdge, ResetEdge

\* AddPostIDs, AddTagIDs, AddPinnerIDs, AddUserIDs.
LEMMA AddMeant ==
  ASSUME NEW t, NEW how, NEW m, NEW a, Meant(t, how, m, a), NEW e \in ManyEdges, e \in Edges(t), NEW S
  PROVE  Meant(t, how, AddIDs(m, e, S), Promise!AskMany(a, e, S, TRUE))
<1> DEFINE n == AddIDs(m, e, S)
           b == Promise!AskMany(a, e, S, TRUE)
<1>1. /\ n.set = m.set /\ n.cleared = m.cleared /\ n.removed = m.removed /\ n.gone = m.gone
      /\ n.ids = With(m.ids, e, IDs(m, e) \cup S)
  BY AddFacts DEF Meant
<1>2. /\ AskedOK(b) /\ b.col = a.col /\ b.one = a.one /\ b.only = a.only
      /\ \A x, j, v : Promise!Says(b, x, j, v) <=> IF x = e /\ j \in S THEN TRUE = v ELSE Promise!Says(a, x, j, v)
  BY AskManyFacts DEF Meant
<1>3. MutationOK(n, t)
  BY EdgeCalls DEF Meant
<1> HIDE DEF n, b
<1>4. ColumnsMeant(how, n, b)
  BY <1>1, <1>2, SameColumns DEF Meant
<1>5. /\ \A x : IDs(n, x) = IF x = e THEN IDs(m, e) \cup S ELSE IDs(m, x)
      /\ \A x : RemovedIDs(n, x) = RemovedIDs(m, x)
  BY <1>1 DEF IDs, With, RemovedIDs
<1>6. ManyMeant(n, b)
  <2>1. ASSUME NEW x \in ManyEdges, NEW j
        PROVE  /\ Promise!Says(b, x, j, TRUE) <=> j \in IDs(n, x)
               /\ Promise!Says(b, x, j, FALSE) <=> j \in RemovedIDs(n, x) \ IDs(n, x)
    <3>1. /\ Promise!Says(a, x, j, TRUE) <=> j \in IDs(m, x)
          /\ Promise!Says(a, x, j, FALSE) <=> j \in RemovedIDs(m, x) \ IDs(m, x)
      BY DEF Meant, EdgesMeant, ManyMeant
    <3>2. CASE x = e
      BY <3>1, <3>2, <1>2, <1>5
    <3>3. CASE x # e
      BY <3>1, <3>3, <1>2, <1>5
    <3>4. QED
      BY <3>2, <3>3
  <2>2. QED
    BY <2>1, <1>1, <1>2 DEF Meant, EdgesMeant, ManyMeant
<1>7. OneMeant(n, b)
  BY <1>1, <1>2, EdgeNames DEF Meant, EdgesMeant, OneMeant, With
<1>8. EdgesMeant(t, how, n, b)
  BY <1>1, <1>6, <1>7 DEF EdgesMeant, Meant, With
<1>9. QED
  BY <1>2, <1>3, <1>4, <1>8 DEF Meant, n, b

\* A create that adds no ids makes no call.
LEMMA AddNoneMeant ==
  ASSUME NEW t, NEW how, NEW m, NEW a, Meant(t, how, m, a), NEW e \in ManyEdges
  PROVE  Meant(t, how, m, Promise!AskMany(a, e, {}, TRUE))
<1> DEFINE b == Promise!AskMany(a, e, {}, TRUE)
<1>2. /\ AskedOK(b) /\ b.col = a.col /\ b.one = a.one /\ b.only = a.only
      /\ \A x, j, v : Promise!Says(b, x, j, v) <=> IF x = e /\ j \in {} THEN TRUE = v ELSE Promise!Says(a, x, j, v)
  BY AskManyFacts DEF Meant
<1> HIDE DEF b
<1>3. \A x, j, v : Promise!Says(b, x, j, v) <=> Promise!Says(a, x, j, v)
  BY <1>2
<1>4. ColumnsMeant(how, m, b)
  BY <1>2, SameColumns DEF Meant
<1>5. ManyMeant(m, b) /\ OneMeant(m, b)
  BY <1>2, <1>3 DEF Meant, EdgesMeant, ManyMeant, OneMeant
<1>6. QED
  BY <1>2, <1>4, <1>5 DEF Meant, EdgesMeant, b

\* RemovePostIDs and the like: what was added before is taken back.
LEMMA RemoveMeant ==
  ASSUME NEW t, NEW how, how # "create", NEW m, NEW a, Meant(t, how, m, a), NEW e \in ManyEdges, e \in Edges(t), NEW S
  PROVE  Meant(t, how, RemoveIDs(m, e, S), Promise!AskMany(a, e, S, FALSE))
<1> DEFINE n == RemoveIDs(m, e, S)
           b == Promise!AskMany(a, e, S, FALSE)
<1>1. /\ n.set = m.set /\ n.cleared = m.cleared /\ n.gone = m.gone
      /\ n.ids = [x \in DOMAIN m.ids |-> IF x = e THEN m.ids[x] \ S ELSE m.ids[x]]
      /\ n.removed = With(m.removed, e, RemovedIDs(m, e) \cup S)
  BY RemoveFacts DEF Meant
<1>2. /\ AskedOK(b) /\ b.col = a.col /\ b.one = a.one /\ b.only = a.only
      /\ \A x, j, v : Promise!Says(b, x, j, v) <=> IF x = e /\ j \in S THEN FALSE = v ELSE Promise!Says(a, x, j, v)
  BY AskManyFacts DEF Meant
<1>3. MutationOK(n, t)
  BY EdgeCalls DEF Meant
<1> HIDE DEF n, b
<1>4. ColumnsMeant(how, n, b)
  BY <1>1, <1>2, SameColumns DEF Meant
<1>5. /\ \A x : IDs(n, x) = IF x = e THEN IDs(m, e) \ S ELSE IDs(m, x)
      /\ \A x : RemovedIDs(n, x) = IF x = e THEN RemovedIDs(m, x) \cup S ELSE RemovedIDs(m, x)
  BY <1>1 DEF IDs, With, RemovedIDs
<1>6. ManyMeant(n, b)
  <2>1. ASSUME NEW x \in ManyEdges, NEW j
        PROVE  /\ Promise!Says(b, x, j, TRUE) <=> j \in IDs(n, x)
               /\ Promise!Says(b, x, j, FALSE) <=> j \in RemovedIDs(n, x) \ IDs(n, x)
    <3>1. /\ Promise!Says(a, x, j, TRUE) <=> j \in IDs(m, x)
          /\ Promise!Says(a, x, j, FALSE) <=> j \in RemovedIDs(m, x) \ IDs(m, x)
      BY DEF Meant, EdgesMeant, ManyMeant
    <3>2. CASE x = e
      BY <3>1, <3>2, <1>2, <1>5
    <3>3. CASE x # e
      BY <3>1, <3>3, <1>2, <1>5
    <3>4. QED
      BY <3>2, <3>3
  <2>2. QED
    BY <2>1, <1>1, <1>2 DEF Meant, EdgesMeant, ManyMeant
<1>7. OneMeant(n, b)
  BY <1>1, <1>2, EdgeNames DEF Meant, EdgesMeant, OneMeant
<1>8. EdgesMeant(t, how, n, b)
  BY <1>1, <1>6, <1>7 DEF EdgesMeant, Meant, With
<1>9. QED
  BY <1>2, <1>3, <1>4, <1>8 DEF Meant, n, b

\* ClearPosts and the like.
LEMMA ClearManyMeant ==
  ASSUME NEW t, NEW how, how # "create", NEW m, NEW a, Meant(t, how, m, a), NEW e \in ManyEdges, e \in Edges(t)
  PROVE  Meant(t, how, ClearEdge(m, e), Promise!AskOnly(a, e))
<1> DEFINE n == ClearEdge(m, e)
           b == Promise!AskOnly(a, e)
<1>1. /\ n.set = m.set /\ n.cleared = m.cleared /\ n.removed = m.removed /\ n.ids = m.ids
      /\ n.gone = m.gone \cup {e}
  BY ClearResetFacts DEF Meant
<1>2. AskedOK(b) /\ b.col = a.col /\ b.many = a.many /\ b.one = a.one /\ b.only = a.only \cup {e}
  BY AskOnlyFacts DEF Meant
<1>3. MutationOK(n, t)
  BY EdgeCalls DEF Meant
<1> HIDE DEF n, b
<1>4. ColumnsMeant(how, n, b)
  BY <1>1, <1>2, SameColumns DEF Meant
<1>6. ManyMeant(n, b)
  BY <1>1, <1>2 DEF Meant, EdgesMeant, ManyMeant, Promise!Says, IDs, RemovedIDs
<1>7. OneMeant(n, b)
  BY <1>1, <1>2, EdgeNames DEF Meant, EdgesMeant, OneMeant
<1>8. EdgesMeant(t, how, n, b)
  BY <1>1, <1>6, <1>7 DEF EdgesMeant, Meant
<1>9. QED
  BY <1>2, <1>3, <1>4, <1>8 DEF Meant, n, b

\* SetOwnerID, SetPinnedPostID.
LEMMA SetOneMeant ==
  ASSUME NEW t, NEW how, NEW m, NEW a, Meant(t, how, m, a), NEW e \in OneEdges, e \in Edges(t), NEW j
  PROVE  Meant(t, how, SetID(m, e, j), Promise!AskOne(a, e, j))
<1> DEFINE n == SetID(m, e, j)
           b == Promise!AskOne(a, e, j)
<1>1. /\ n.set = m.set /\ n.cleared = m.cleared /\ n.removed = m.removed /\ n.gone = m.gone
      /\ n.ids = With(m.ids, e, {j})
  BY SetIDFacts DEF Meant
<1>2. AskedOK(b) /\ b.col = a.col /\ b.many = a.many /\ b.only = a.only /\ b.one = With(a.one, e, j)
  BY AskOneFacts DEF Meant
<1>3. MutationOK(n, t)
  BY EdgeCalls DEF Meant
<1> HIDE DEF n, b
<1>4. ColumnsMeant(how, n, b)
  BY <1>1, <1>2, SameColumns DEF Meant
<1>5. \A x \in ManyEdges : IDs(n, x) = IDs(m, x) /\ RemovedIDs(n, x) = RemovedIDs(m, x)
  BY <1>1, EdgeNames DEF IDs, With, RemovedIDs
<1>6. ManyMeant(n, b)
  BY <1>1, <1>2, <1>5 DEF Meant, EdgesMeant, ManyMeant, Promise!Says
<1>7. OneMeant(n, b)
  BY <1>1, <1>2 DEF Meant, EdgesMeant, OneMeant, With
<1>8. EdgesMeant(t, how, n, b)
  BY <1>1, <1>6, <1>7 DEF EdgesMeant, Meant, With
<1>9. QED
  BY <1>2, <1>3, <1>4, <1>8 DEF Meant, n, b

\* ClearOwner, ClearPinnedPost.
LEMMA ClearOneMeant ==
  ASSUME NEW t, NEW how, how # "create", NEW m, NEW a, Meant(t, how, m, a), NEW e \in OneEdges, e \in Edges(t)
  PROVE  Meant(t, how, ClearEdge(m, e), IF e \in DOMAIN a.one THEN a ELSE Promise!AskOne(a, e, NoId))
<1> DEFINE n == ClearEdge(m, e)
           b == IF e \in DOMAIN a.one THEN a ELSE Promise!AskOne(a, e, NoId)
<1>1. /\ n.set = m.set /\ n.cleared = m.cleared /\ n.removed = m.removed /\ n.ids = m.ids
      /\ n.gone = m.gone \cup {e}
  BY ClearResetFacts DEF Meant
<1>2. /\ AskedOK(b) /\ b.col = a.col /\ b.many = a.many /\ b.only = a.only
      /\ b.one = IF e \in DOMAIN a.one THEN a.one ELSE With(a.one, e, NoId)
  <2>1. CASE e \in DOMAIN a.one
    BY <2>1 DEF Meant
  <2>2. CASE e \notin DOMAIN a.one
    BY <2>2, AskOneFacts DEF Meant
  <2>3. QED
    BY <2>1, <2>2
<1>3. MutationOK(n, t)
  BY EdgeCalls DEF Meant
<1> HIDE DEF n, b
<1>4. ColumnsMeant(how, n, b)
  BY <1>1, <1>2, SameColumns DEF Meant
<1>5. \A x \in ManyEdges : IDs(n, x) = IDs(m, x) /\ RemovedIDs(n, x) = RemovedIDs(m, x)
  BY <1>1 DEF IDs, RemovedIDs
<1>6. ManyMeant(n, b)
  BY <1>1, <1>2, <1>5, EdgeNames DEF Meant, EdgesMeant, ManyMeant, Promise!Says
<1>7. OneMeant(n, b)
  BY <1>1, <1>2 DEF Meant, EdgesMeant, OneMeant, With
<1>8. EdgesMeant(t, how, n, b)
  BY <1>1, <1>6, <1>7 DEF EdgesMeant, Meant
<1>9. QED
  BY <1>2, <1>3, <1>4, <1>8 DEF Meant, n, b

\* ResetEdge of a hook forgets what was asked of the edge.
LEMMA ResetEdgeMeant ==
  ASSUME NEW t, NEW how, NEW m, NEW a, Meant(t, how, m, a), NEW e \in Edges(t)
  PROVE  Meant(t, how, ResetEdge(m, e), Promise!ForgetEdge(a, e))
<1> DEFINE n == ResetEdge(m, e)
           b == Promise!ForgetEdge(a, e)
<1>1. /\ n.set = m.set /\ n.cleared = m.cleared
      /\ n.ids = Dropped(m.ids, e) /\ n.removed = Dropped(m.removed, e) /\ n.gone = m.gone \ {e}
  BY ClearResetFacts DEF Meant
<1>2. /\ AskedOK(b) /\ b.col = a.col /\ b.one = Dropped(a.one, e) /\ b.only = a.only \ {e}
      /\ \A x, j, v : Promise!Says(b, x, j, v) <=> x # e /\ Promise!Says(a, x, j, v)
  BY ForgetEdgeFacts DEF Meant
<1>3. MutationOK(n, t)
  BY EdgeCalls DEF Meant
<1> HIDE DEF n, b
<1>4. ColumnsMeant(how, n, b)
  BY <1>1, <1>2, SameColumns DEF Meant
<1>5. \A x : /\ IDs(n, x) = IF x = e THEN {} ELSE IDs(m, x)
             /\ RemovedIDs(n, x) = IF x = e THEN {} ELSE RemovedIDs(m, x)
  BY <1>1 DEF IDs, Dropped, RemovedIDs
<1>6. ManyMeant(n, b)
  BY <1>1, <1>2, <1>5 DEF Meant, EdgesMeant, ManyMeant
<1>7. OneMeant(n, b)
  BY <1>1, <1>2 DEF Meant, EdgesMeant, OneMeant, Dropped
<1>8. EdgesMeant(t, how, n, b)
  BY <1>1, <1>6, <1>7 DEF EdgesMeant, Meant, Dropped
<1>9. QED
  BY <1>2, <1>3, <1>4, <1>8 DEF Meant, n, b

\* The columns of an ApplyDomain are the ones that README.md says.
LEMMA ColumnsApplied ==
  ASSUME NEW t, NEW how, NEW m, NEW a, Meant(t, how, m, a), NEW cfg, NEW d, StructOK(d, t),
         NEW columns, columns \subseteq Columns(t), how = "create" \/ columns \cap UserImmutable = {}
  PROVE  LET told == [a EXCEPT !.col = Over([c \in {x \in columns : Lets(cfg, x, d.val[x])} |-> d.val[c]], @)]
         IN  Meant(t, how, SetColumns(m, cfg, d, columns), told)
<1> DEFINE written == {c \in columns : IF IsPointer(c) THEN ShouldApplyPtr(cfg, c, d.val[c]) /\ d.val[c] # Null
                                       ELSE ShouldApply(cfg, c, d.val[c])}
           cols == {x \in columns : Lets(cfg, x, d.val[x])}
           new == [c \in cols |-> d.val[c]]
           n == SetColumns(m, cfg, d, columns)
           b == [a EXCEPT !.col = Over(new, @)]
<1>1. written = cols
  <2>1. \A c : (IF IsPointer(c) THEN ShouldApplyPtr(cfg, c, d.val[c]) /\ d.val[c] # Null
                ELSE ShouldApply(cfg, c, d.val[c])) <=> Lets(cfg, c, d.val[c])
    BY DEF ShouldApply, ShouldApplyPtr, Lets
  <2>2. QED
    BY <2>1
<1>2. n = [m EXCEPT !.set = Over([c \in written |-> d.val[c]], @)]
  BY DEF SetColumns
<1>3. n = [m EXCEPT !.set = Over(new, @)]
  BY <1>1, <1>2
<1>4. DOMAIN new = cols /\ cols \subseteq columns
  OBVIOUS
<1>5. MutationOK(n, t)
  BY SetColumnsOK DEF Meant
<1> HIDE DEF n, new, cols, written
<1>6. /\ n.set = Over(new, m.set) /\ n.cleared = m.cleared
      /\ n.ids = m.ids /\ n.removed = m.removed /\ n.gone = m.gone
  BY <1>3 DEF Meant, MutationOK
<1>7. AskedOK(b) /\ b.col = Over(new, a.col) /\ b.one = a.one /\ b.many = a.many /\ b.only = a.only
  BY DEF AskedOK, Meant
<1> HIDE DEF b
<1>8. EdgesMeant(t, how, n, b)
  BY <1>6, <1>7, SameEdges DEF Meant
<1>9. ColumnsMeant(how, n, b)
  BY <1>4, <1>6, <1>7, ColumnClasses DEF Meant, ColumnsMeant, Over
<1>10. QED
  BY <1>5, <1>7, <1>8, <1>9 DEF Meant, n, b, new, cols

LEMMA EdgeApplied ==
  ASSUME NEW t, NEW m, NEW a, Meant(t, builder.how, m, a),
         NEW e \in ManyEdges, e \in Edges(t), NEW cfg, NEW field, NEW ids
  PROVE  /\ builder.how = "create" => Meant(t, builder.how, AddIfAny(m, e, ids), AskEdge(a, cfg, e, field, ids))
         /\ builder.how # "create" => Meant(t, builder.how, ReplaceIDs(m, cfg, e, field, ids), AskEdge(a, cfg, e, field, ids))
<1>1. CASE builder.how = "create"
  <2>1. AskEdge(a, cfg, e, field, ids) = Promise!AskMany(a, e, ids, TRUE)
    BY <1>1 DEF AskEdge
  <2>2. CASE ids = {}
    BY <1>1, <2>1, <2>2, AddNoneMeant DEF AddIfAny
  <2>3. CASE ids # {}
    BY <1>1, <2>1, <2>3, AddMeant DEF AddIfAny
  <2>4. QED
    BY <1>1, <2>2, <2>3
<1>2. CASE builder.how # "create" /\ IsAppendEdge(cfg, field)
  <2>1. /\ AskEdge(a, cfg, e, field, ids) = Promise!AskMany(a, e, ids, TRUE)
        /\ ReplaceIDs(m, cfg, e, field, ids) = AddIDs(m, e, ids)
    BY <1>2 DEF AskEdge, ReplaceIDs
  <2>2. QED
    BY <1>2, <2>1, AddMeant
<1>3. CASE builder.how # "create" /\ ~IsAppendEdge(cfg, field)
  <2> DEFINE n == ClearEdge(m, e)
             b == Promise!AskOnly(a, e)
  <2>1. /\ AskEdge(a, cfg, e, field, ids) = Promise!AskMany(b, e, ids, TRUE)
        /\ ReplaceIDs(m, cfg, e, field, ids) = AddIDs(n, e, ids)
    BY <1>3 DEF AskEdge, ReplaceIDs
  <2>2. Meant(t, builder.how, n, b)
    BY <1>3, ClearManyMeant
  <2> HIDE DEF n, b
  <2>3. Meant(t, builder.how, AddIDs(n, e, ids), Promise!AskMany(b, e, ids, TRUE))
    BY <2>2, AddMeant
  <2>4. QED
    BY <1>3, <2>1, <2>3
<1>4. QED
  BY <1>1, <1>2, <1>3

\* An ApplyDomain asks the columns and ids of its struct, under its options.
LEMMA ApplyMeant ==
  ASSUME builder.table \in Tables, NEW m, NEW a, Meant(builder.table, builder.how, m, a),
         NEW cfg, NEW d, StructOK(d, builder.table)
  PROVE  Meant(builder.table, builder.how,
               IF builder.how = "create" THEN CreateApplyDomain(builder.table, m, cfg, d)
               ELSE ApplyDomain(builder.table, m, cfg, d),
               AskDomain(a, cfg, d))
<1> DEFINE t == builder.table
           how == builder.how
           columns == Columns(t) \ Fixed
           told == [a EXCEPT !.col = Over([c \in {x \in columns : Lets(cfg, x, d.val[x])} |-> d.val[c]], @)]
           set == SetColumns(m, cfg, d, columns)
<1>1. /\ columns \subseteq Columns(t) /\ (how = "create" => columns = Columns(t))
      /\ how # "create" => columns = Columns(t) \ UserImmutable
  BY DEF Fixed
<1>2. Meant(t, how, set, told)
  <2>1. how = "create" \/ columns \cap UserImmutable = {}
    BY <1>1
  <2> HIDE DEF columns
  <2>2. QED
    BY <1>1, <2>1, ColumnsApplied
<1>3. AskDomain(a, cfg, d) =
        IF t = "users"
          THEN AskEdge(AskEdge(told, cfg, "posts", "post_ids", d.PostIDs), cfg, "tags", "tag_ids", d.TagIDs)
        ELSE IF t = "posts" THEN AskEdge(told, cfg, "pinners", "pinner_ids", d.PinnerIDs)
        ELSE AskEdge(told, cfg, "users", "user_ids", d.UserIDs)
  BY DEF AskDomain
<1> HIDE DEF told
<1>4. CASE t = "users"
  <2>0. {"posts", "tags"} \subseteq Edges(t) /\ {"posts", "tags"} \subseteq ManyEdges
    BY <1>4 DEF Edges, ManyEdges
  <2>1. CASE how = "create"
    <3>1. CreateApplyDomain(t, m, cfg, d) = AddIfAny(AddIfAny(set, "posts", d.PostIDs), "tags", d.TagIDs)
      BY <1>1, <1>4, <2>1, ColumnsOf DEF CreateApplyDomain, UserCreateApplyDomain
    <3> DEFINE n == AddIfAny(set, "posts", d.PostIDs)
               b == AskEdge(told, cfg, "posts", "post_ids", d.PostIDs)
    <3> HIDE DEF set
    <3>2. Meant(t, how, n, b)
      BY <1>2, <2>0, <2>1, EdgeApplied
    <3> HIDE DEF n, b
    <3>3. Meant(t, how, AddIfAny(n, "tags", d.TagIDs), AskEdge(b, cfg, "tags", "tag_ids", d.TagIDs))
      BY <2>0, <2>1, <3>2, EdgeApplied
    <3>4. QED
      BY <1>3, <1>4, <2>1, <3>1, <3>3 DEF n, b
  <2>2. CASE how # "create"
    <3>1. ApplyDomain(t, m, cfg, d) =
            ReplaceIDs(ReplaceIDs(set, cfg, "posts", "post_ids", d.PostIDs), cfg, "tags", "tag_ids", d.TagIDs)
      BY <1>1, <1>4, <2>2, ColumnsOf DEF ApplyDomain, UserUpdateApplyDomain
    <3> DEFINE n == ReplaceIDs(set, cfg, "posts", "post_ids", d.PostIDs)
               b == AskEdge(told, cfg, "posts", "post_ids", d.PostIDs)
    <3> HIDE DEF set
    <3>2. Meant(t, how, n, b)
      BY <1>2, <2>0, <2>2, EdgeApplied
    <3> HIDE DEF n, b
    <3>3. Meant(t, how, ReplaceIDs(n, cfg, "tags", "tag_ids", d.TagIDs), AskEdge(b, cfg, "tags", "tag_ids", d.TagIDs))
      BY <2>0, <2>2, <3>2, EdgeApplied
    <3>4. QED
      BY <1>3, <1>4, <2>2, <3>1, <3>3 DEF n, b
  <2>3. QED
    BY <2>1, <2>2
<1>5. CASE t = "posts"
  <2>0. "pinners" \in Edges(t) /\ "pinners" \in ManyEdges /\ columns = PostColumns
    BY <1>1, <1>5, ColumnsOf, ColumnClasses DEF Edges, ManyEdges
  <2>1. CASE how = "create"
    <3>1. CreateApplyDomain(t, m, cfg, d) = AddIfAny(set, "pinners", d.PinnerIDs)
      BY <1>5, <2>0 DEF CreateApplyDomain, PostCreateApplyDomain
    <3> HIDE DEF set
    <3>2. Meant(t, how, AddIfAny(set, "pinners", d.PinnerIDs), AskEdge(told, cfg, "pinners", "pinner_ids", d.PinnerIDs))
      BY <1>2, <2>0, <2>1, EdgeApplied
    <3>3. QED
      BY <1>3, <1>5, <2>1, <3>1, <3>2
  <2>2. CASE how # "create"
    <3>1. ApplyDomain(t, m, cfg, d) = ReplaceIDs(set, cfg, "pinners", "pinner_ids", d.PinnerIDs)
      BY <1>5, <2>0 DEF ApplyDomain, PostUpdateApplyDomain
    <3> HIDE DEF set
    <3>2. Meant(t, how, ReplaceIDs(set, cfg, "pinners", "pinner_ids", d.PinnerIDs), AskEdge(told, cfg, "pinners", "pinner_ids", d.PinnerIDs))
      BY <1>2, <2>0, <2>2, EdgeApplied
    <3>3. QED
      BY <1>3, <1>5, <2>2, <3>1, <3>2
  <2>3. QED
    BY <2>1, <2>2
<1>6. CASE t = "tags"
  <2>0. "users" \in Edges(t) /\ "users" \in ManyEdges /\ columns = TagColumns
    BY <1>1, <1>6, ColumnsOf, ColumnClasses DEF Edges, ManyEdges
  <2>1. CASE how = "create"
    <3>1. CreateApplyDomain(t, m, cfg, d) = AddIfAny(set, "users", d.UserIDs)
      BY <1>6, <2>0 DEF CreateApplyDomain, TagCreateApplyDomain
    <3> HIDE DEF set
    <3>2. Meant(t, how, AddIfAny(set, "users", d.UserIDs), AskEdge(told, cfg, "users", "user_ids", d.UserIDs))
      BY <1>2, <2>0, <2>1, EdgeApplied
    <3>3. QED
      BY <1>3, <1>6, <2>1, <3>1, <3>2
  <2>2. CASE how # "create"
    <3>1. ApplyDomain(t, m, cfg, d) = ReplaceIDs(set, cfg, "users", "user_ids", d.UserIDs)
      BY <1>6, <2>0 DEF ApplyDomain, TagUpdateApplyDomain
    <3> HIDE DEF set
    <3>2. Meant(t, how, ReplaceIDs(set, cfg, "users", "user_ids", d.UserIDs), AskEdge(told, cfg, "users", "user_ids", d.UserIDs))
      BY <1>2, <2>0, <2>2, EdgeApplied
    <3>3. QED
      BY <1>3, <1>6, <2>2, <3>1, <3>2
  <2>3. QED
    BY <2>1, <2>2
<1>7. QED
  BY <1>4, <1>5, <1>6 DEF Tables

-----------------------------------------------------------------------------
(* So it stays while a builder is open *)

Told ==
  builder.how # "closed" =>
    /\ Len(ms) \in Nat \ {0} /\ Len(asked) = Len(ms)
    /\ \A k \in 1 .. Len(ms) : Meant(builder.table, builder.how, ms[k], asked[k])

LEMMA LastTold ==
  ASSUME IInv, Told, builder.how # "closed"
  PROVE  Meant(builder.table, builder.how, M, A)
<1>1. Len(ms) \in 1 .. Len(ms)
  BY DEF Told
<1>2. QED
  BY <1>1 DEF Told, M, A

LEMMA ChangeTold ==
  ASSUME IInv, Told, builder.how # "closed", NEW m, NEW a,
         Meant(builder.table, builder.how, m, a), Change(m, a)
  PROVE  Told'
<1>1. Len(ms) \in Nat \ {0} /\ Len(asked) = Len(ms) /\ IsList(ms) /\ IsList(asked)
  BY OpenBuilder
<1>2. ms' = [ms EXCEPT ![Len(ms)] = m] /\ asked' = [asked EXCEPT ![Len(asked)] = a] /\ builder' = builder
  BY <1>1 DEF Change
<1>3. Len(ms') = Len(ms) /\ \A k \in 1 .. Len(ms) : ms'[k] = IF k = Len(ms) THEN m ELSE ms[k]
  BY <1>1, <1>2, LastChanged
<1>4. Len(asked') = Len(asked) /\ \A k \in 1 .. Len(asked) : asked'[k] = IF k = Len(asked) THEN a ELSE asked[k]
  BY <1>1, <1>2, LastChanged
<1>5. \A k \in 1 .. Len(ms') : Meant(builder'.table, builder'.how, ms'[k], asked'[k])
  BY <1>1, <1>2, <1>3, <1>4 DEF Told
<1>6. QED
  BY <1>1, <1>3, <1>4, <1>5 DEF Told

LEMMA OpenTold ==
  ASSUME IInv, NEW t, NEW how, NEW ids, Open(t, how, ids)
  PROVE  Told'
<1>1. builder' = [table |-> t, how |-> how, ids |-> ids] /\ ms' = <<NewMutation>> /\ asked' = <<Promise!Nothing>>
  BY DEF Open
<1>2. Len(ms') = 1 /\ Len(asked') = 1 /\ ms'[1] = NewMutation /\ asked'[1] = Promise!Nothing
  BY <1>1
<1>3. QED
  BY <1>1, <1>2, NothingMeant DEF Told

LEMMA AnotherTold == ASSUME IInv, Told, Another PROVE Told'
<1>1. builder.how # "closed"
  BY DEF Another
<1>2. Len(ms) \in Nat \ {0} /\ Len(asked) = Len(ms) /\ IsList(ms) /\ IsList(asked)
  BY <1>1, OpenBuilder
<1>3. ms' = Append(ms, NewMutation) /\ asked' = Append(asked, Promise!Nothing) /\ builder' = builder
  BY DEF Another
<1>4. Len(ms') = Len(ms) + 1 /\ \A k \in 1 .. Len(ms') : ms'[k] = IF k = Len(ms') THEN NewMutation ELSE ms[k]
  BY <1>2, <1>3, OneMore
<1>5. Len(asked') = Len(asked) + 1 /\ \A k \in 1 .. Len(asked') : asked'[k] = IF k = Len(asked') THEN Promise!Nothing ELSE asked[k]
  BY <1>2, <1>3, OneMore
<1>6. ASSUME NEW k \in 1 .. Len(ms') PROVE Meant(builder'.table, builder'.how, ms'[k], asked'[k])
  <2>1. CASE k = Len(ms')
    BY <1>2, <1>3, <1>4, <1>5, <2>1, NothingMeant
  <2>2. CASE k # Len(ms')
    BY <1>1, <1>2, <1>3, <1>4, <1>5, <2>2 DEF Told
  <2>3. QED
    BY <2>1, <2>2
<1>7. QED
  BY <1>2, <1>4, <1>5, <1>6 DEF Told

LEMMA RunHooksTold == ASSUME IInv, Told, RunHooks PROVE Told'
<1>1. builder.how # "closed"
  BY DEF RunHooks
<1>2. /\ Len(ms) \in Nat \ {0} /\ Len(asked) = Len(ms) /\ DOMAIN ms = 1 .. Len(ms) /\ builder.table \in Tables
      /\ IsList(ms)
  BY <1>1, OpenBuilder DEF IsList
<1>3. /\ builder' = builder /\ asked' = asked
      /\ ms' = IF builder.how = "create" THEN [k \in DOMAIN ms |-> Defaults(builder.table, ms[k])] ELSE ms
  BY DEF RunHooks
<1>4. CASE builder.how = "create"
  <2>1. ms' = [k \in 1 .. Len(ms) |-> Defaults(builder.table, ms[k])]
    BY <1>2, <1>3, <1>4
  <2>2. Len(ms') = Len(ms)
    BY <1>2, <2>1, FunctionIsList
  <2>3. \A k \in 1 .. Len(ms) : Meant(builder.table, "create", Defaults(builder.table, ms[k]), asked[k])
    BY <1>1, <1>2, <1>4, DefaultsMeant DEF Told
  <2>4. \A k \in 1 .. Len(ms') : Meant(builder'.table, builder'.how, ms'[k], asked'[k])
    BY <1>3, <1>4, <2>1, <2>2, <2>3
  <2>5. QED
    BY <1>2, <1>3, <2>2, <2>4 DEF Told
<1>5. CASE builder.how # "create"
  BY <1>3, <1>5 DEF Told
<1>6. QED
  BY <1>4, <1>5

LEMMA CallsTold ==
  ASSUME IInv, Told, builder.how # "closed", NEW c, NEW v \in {Zero, Default}, NEW e, NEW j,
         \/ SetField(c, v) \/ ClearField(c)
         \/ AddEdgeIDs(e, j) \/ RemoveEdgeIDs(e, j) \/ ClearMany(e) \/ SetOne(e, j) \/ ClearOne(e)
  PROVE  Told'
<1> DEFINE t == builder.table
           how == builder.how
<1>1. Meant(t, how, M, A) /\ t \in Tables
  BY LastTold, OpenBuilder
<1>2. /\ Many \subseteq ManyEdges \cap Edges(t) /\ One \subseteq OneEdges \cap Edges(t)
  BY DEF Many, One, ManyEdges, OneEdges, Edges
<1>3. \A hows, m, a : Call(hows, m, a) => Change(m, a) /\ how \in hows
  BY DEF Call
<1>4. "create" \notin Updates
  BY DEF Updates
<1>5. CASE SetField(c, v)
  <2>1. c \in Columns(t) /\ (how = "create" \/ c \notin UserImmutable) /\ v \in Values
    BY <1>5, ColumnNames DEF SetField, Fixed
  <2>2. Meant(t, how, SetColumn(M, c, v), Promise!AskColumn(A, c, v))
    BY <1>1, <2>1, SetMeant
  <2>3. QED
    BY <1>3, <1>5, <2>2, ChangeTold DEF SetField
<1>6. CASE ClearField(c)
  <2>1. c \in UserOptional /\ c \in Columns(t)
    BY <1>6, ColumnNames DEF ClearField
  <2>2. Meant(t, how, ClearColumn(M, c), Promise!AskColumn(A, c, Null))
    BY <1>1, <2>1, ClearMeant
  <2>3. QED
    BY <1>3, <1>6, <2>2, ChangeTold DEF ClearField
<1>7. CASE AddEdgeIDs(e, j)
  <2>1. e \in ManyEdges /\ e \in Edges(t)
    BY <1>2, <1>7 DEF AddEdgeIDs
  <2>2. Meant(t, how, AddIDs(M, e, {j}), Promise!AskMany(A, e, {j}, TRUE))
    BY <1>1, <2>1, AddMeant
  <2>3. QED
    BY <1>3, <1>7, <2>2, ChangeTold DEF AddEdgeIDs
<1>8. CASE RemoveEdgeIDs(e, j)
  <2>1. e \in ManyEdges /\ e \in Edges(t) /\ how # "create"
    BY <1>2, <1>3, <1>4, <1>8 DEF RemoveEdgeIDs
  <2>2. Meant(t, how, RemoveIDs(M, e, {j}), Promise!AskMany(A, e, {j}, FALSE))
    BY <1>1, <2>1, RemoveMeant
  <2>3. QED
    BY <1>3, <1>8, <2>2, ChangeTold DEF RemoveEdgeIDs
<1>9. CASE ClearMany(e)
  <2>1. e \in ManyEdges /\ e \in Edges(t) /\ how # "create"
    BY <1>2, <1>3, <1>4, <1>9 DEF ClearMany
  <2>2. Meant(t, how, ClearEdge(M, e), Promise!AskOnly(A, e))
    BY <1>1, <2>1, ClearManyMeant
  <2>3. QED
    BY <1>3, <1>9, <2>2, ChangeTold DEF ClearMany
<1>10. CASE SetOne(e, j)
  <2>1. e \in OneEdges /\ e \in Edges(t)
    BY <1>2, <1>10 DEF SetOne
  <2>2. Meant(t, how, SetID(M, e, j), Promise!AskOne(A, e, j))
    BY <1>1, <2>1, SetOneMeant
  <2>3. QED
    BY <1>3, <1>10, <2>2, ChangeTold DEF SetOne
<1>11. CASE ClearOne(e)
  <2>1. e \in OneEdges /\ e \in Edges(t) /\ how # "create"
    BY <1>2, <1>3, <1>4, <1>11 DEF ClearOne
  <2>2. Meant(t, how, ClearEdge(M, e), IF e \in DOMAIN A.one THEN A ELSE Promise!AskOne(A, e, NoId))
    BY <1>1, <2>1, ClearOneMeant
  <2>3. QED
    BY <1>3, <1>11, <2>2, ChangeTold DEF ClearOne
<1>12. QED
  BY <1>5, <1>6, <1>7, <1>8, <1>9, <1>10, <1>11

LEMMA ApplyTold ==
  ASSUME IInv, Told, builder.how # "closed", NEW cfg \in Configs, NEW d \in Structs[builder.table], Apply(cfg, d)
  PROVE  Told'
<1>1. builder.table \in Tables /\ Meant(builder.table, builder.how, M, A)
  BY OpenBuilder, LastTold
<1>2. StructOK(d, builder.table)
  BY <1>1, BuilderAssumption DEF StructOK
<1> DEFINE m == IF builder.how = "create" THEN CreateApplyDomain(builder.table, M, cfg, d)
                ELSE ApplyDomain(builder.table, M, cfg, d)
           a == AskDomain(A, cfg, d)
<1>3. Meant(builder.table, builder.how, m, a)
  BY <1>1, <1>2, ApplyMeant
<1>4. Change(m, a)
  BY DEF Apply, Call
<1> HIDE DEF m, a
<1>5. QED
  BY <1>3, <1>4, ChangeTold

LEMMA HooksTold ==
  ASSUME IInv, Told, builder.how # "closed", NEW c, NEW e,
         \/ HookSetField(c, Zero) \/ HookClearField(c) \/ HookResetField(c)
         \/ e \in Edges(builder.table) /\ HookResetEdge(e)
  PROVE  Told'
<1> DEFINE t == builder.table
           how == builder.how
<1>1. Meant(t, how, M, A) /\ t \in Tables
  BY LastTold, OpenBuilder
<1>2. CASE HookSetField(c, Zero)
  <2> DEFINE a == IF c \in Fixed THEN A ELSE Promise!AskColumn(A, c, Zero)
  <2>1. c \in Columns(t) /\ Zero \in Values /\ Change(SetColumn(M, c, Zero), a)
    BY <1>2, ColumnNames DEF HookSetField
  <2>2. Meant(t, how, SetColumn(M, c, Zero), a)
    <3>1. CASE c \in Fixed
      <4>1. how # "create" /\ c \in UserImmutable
        BY <3>1 DEF Fixed
      <4>2. QED
        BY <1>1, <2>1, <3>1, <4>1, SetUnasked
    <3>2. CASE c \notin Fixed
      <4>1. how = "create" \/ c \notin UserImmutable
        BY <3>2 DEF Fixed
      <4>2. QED
        BY <1>1, <2>1, <3>2, <4>1, SetMeant
    <3>3. QED
      BY <3>1, <3>2
  <2> HIDE DEF a
  <2>3. QED
    BY <2>1, <2>2, ChangeTold
<1>3. CASE HookClearField(c)
  <2>1. c \in UserOptional /\ c \in Columns(t)
    BY <1>3, ColumnNames DEF HookClearField
  <2>2. Meant(t, how, ClearColumn(M, c), Promise!AskColumn(A, c, Null))
    BY <1>1, <2>1, ClearMeant
  <2>3. QED
    BY <1>3, <2>2, ChangeTold DEF HookClearField
<1>4. CASE HookResetField(c)
  <2>1. Meant(t, how, ResetColumn(M, c), Promise!Forget(A, c))
    BY <1>1, <1>4, ResetMeant DEF HookResetField
  <2>2. QED
    BY <1>4, <2>1, ChangeTold DEF HookResetField
<1>5. CASE e \in Edges(t) /\ HookResetEdge(e)
  <2>1. Meant(t, how, ResetEdge(M, e), Promise!ForgetEdge(A, e))
    BY <1>1, <1>5, ResetEdgeMeant
  <2>2. QED
    BY <1>5, <2>1, ChangeTold DEF HookResetEdge
<1>6. QED
  BY <1>2, <1>3, <1>4, <1>5

\* No step lets the mutations and what was asked drift apart.
LEMMA ToldKept == ASSUME IInv, Told, Next PROVE Told'
<1>0. builder.how \in Hows \cup {"closed"}
  BY OpenBuilder
<1>1. CASE \/ \E t \in Tables, i \in Named : Open(t, "one", {i})
           \/ \E t \in Tables, ids \in Selections : Open(t, "many", ids)
           \/ \E t \in Tables : last[t] + MaxBulk =< MaxRows /\ Open(t, "create", {})
  BY <1>1, OpenTold
<1>2. CASE \/ \E c \in Tracked, v \in {Zero, Default} : SetField(c, v)
           \/ \E c \in Tracked : ClearField(c)
           \/ \E e \in {"posts", "tags", "pinners", "users"}, j \in Named :
                AddEdgeIDs(e, j) \/ RemoveEdgeIDs(e, j)
           \/ \E e \in {"posts", "tags", "pinners", "users"} : ClearMany(e)
           \/ \E e \in {"pinned_post", "owner"} : ClearOne(e) \/ \E j \in Named : SetOne(e, j)
  <2>1. builder.how # "closed"
    BY <1>2 DEF SetField, ClearField, AddEdgeIDs, RemoveEdgeIDs, ClearMany, SetOne, ClearOne, Call, All, Updates
  <2>2. QED
    BY <1>2, <2>1, CallsTold
<1>3. CASE builder.how # "closed" /\ \E cfg \in Configs, d \in Structs[builder.table] : Apply(cfg, d)
  BY <1>3, ApplyTold
<1>4. CASE \/ \E c \in Tracked : HookSetField(c, Zero) \/ HookClearField(c) \/ HookResetField(c)
           \/ \E e \in Edges(builder.table) : HookResetEdge(e)
  <2>1. hooked
    BY <1>4 DEF HookSetField, HookClearField, HookResetField, HookResetEdge
  <2>2. builder.how # "closed"
    BY <2>1, ClosedBuilder
  <2>3. QED
    BY <1>4, <2>2, HooksTold
<1>5. CASE Another \/ RunHooks
  BY <1>5, AnotherTold, RunHooksTold
<1>6. CASE Succeeds \/ Fails
  <2>1. builder'.how = "closed"
    BY <1>6 DEF Succeeds, Fails, Ended, Promise!Closed
  <2>2. QED
    BY <2>1 DEF Told
<1>7. CASE (\E t \in Tables, ids \in Selections : DeleteRows(t, ids)) \/ Begin \/ Commit \/ Rollback
  BY <1>7 DEF DeleteRows, Begin, Commit, Rollback, Told
<1>8. QED
  BY <1>1, <1>2, <1>3, <1>4, <1>5, <1>6, <1>7 DEF Next

\* So the mutations hold what was asked at every moment.
LEMMA ToldHolds == Spec => [](IInv /\ Told)
<1>1. Init => Told
  BY DEF Init, Told, Promise!Closed
<1>2. Told /\ UNCHANGED vars => Told'
  BY DEF vars, Told
<1>3. IInv /\ Told /\ [Next]_vars => Told'
  BY <1>2, ToldKept
<1>4. Spec => []IInv
  BY IInvHolds
<1>5. QED
  BY <1>1, <1>3, <1>4, PTL DEF Spec

-----------------------------------------------------------------------------
(* What the promise says a save leaves *)

LEMMA SameDatabase ==
  ASSUME NEW d, Shaped(d), NEW e, Shaped(e),
         \A t \in Tables : d.rows[t] = e.rows[t],
         \A k \in DOMAIN KeyTarget : d.fk[k] = e.fk[k],
         d.user_tags = e.user_tags
  PROVE  d = e
<1>1. d.rows = e.rows
  BY DEF Shaped
<1>2. d.fk = e.fk
  BY DEF Shaped
<1>3. QED
  BY <1>1, <1>2 DEF Shaped

\* The parts of the database in which the rows ids are as asked.
RowAsked(a, val) == [c \in DOMAIN val |-> IF c \in DOMAIN a.col THEN a.col[c] ELSE val[c]]
OutAsked(a, e, j) == e \in a.only \/ Promise!Says(a, e, j, FALSE)
OneOf(ids) == CHOOSE i \in ids : TRUE
KeyAsked(d, ids, a, k, j) ==
  IF \E e \in DOMAIN a.one : Promise!OneKey[e] = k /\ j \in ids
    THEN a.one[CHOOSE e \in DOMAIN a.one : Promise!OneKey[e] = k]
  ELSE IF ids # {} /\ \E e \in DOMAIN Promise!ManyKey : Promise!ManyKey[e] = k /\ Promise!Says(a, e, j, TRUE)
    THEN OneOf(ids)
  ELSE IF \E e \in DOMAIN Promise!ManyKey : Promise!ManyKey[e] = k /\ OutAsked(a, e, j) /\ d.fk[k][j] \in ids
    THEN 0 ELSE d.fk[k][j]
PairAsked(d, ids, a, e, mine, other, now) ==
  IF mine \notin ids THEN now ELSE Promise!Says(a, e, other, TRUE) \/ (now /\ ~OutAsked(a, e, other))

AsAskedIs(d, w, t, ids, a) ==
  /\ Shaped(w)
  /\ \A u \in Tables : w.rows[u] =
       IF u = t THEN [i \in DOMAIN d.rows[u] |-> IF i \in ids THEN RowAsked(a, d.rows[u][i]) ELSE d.rows[u][i]]
       ELSE d.rows[u]
  /\ \A k \in DOMAIN KeyTarget : w.fk[k] = [j \in DOMAIN d.fk[k] |-> KeyAsked(d, ids, a, k, j)]
  /\ t = "users" => w.user_tags =
       {p \in (DOMAIN d.rows["users"]) \X (DOMAIN d.rows["tags"]) :
          PairAsked(d, ids, a, "tags", p[1], p[2], p \in d.user_tags)}
  /\ t = "tags" => w.user_tags =
       {p \in (DOMAIN d.rows["users"]) \X (DOMAIN d.rows["tags"]) :
          PairAsked(d, ids, a, "users", p[2], p[1], p \in d.user_tags)}
  /\ t = "posts" => w.user_tags = d.user_tags

LEMMA AsAskedFacts ==
  ASSUME NEW d, Shaped(d), NEW t \in Tables, NEW ids, NEW a
  PROVE  AsAskedIs(d, Promise!AsAsked(d, t, ids, a), t, ids, a)
<1> DEFINE w == Promise!AsAsked(d, t, ids, a)
           P == (DOMAIN d.rows["users"]) \X (DOMAIN d.rows["tags"])
<1>1. /\ w \in [rows : {w.rows}, fk : {w.fk}, user_tags : {w.user_tags}]
      /\ w.rows = [d.rows EXCEPT ![t] = [i \in DOMAIN @ |-> IF i \in ids THEN RowAsked(a, @[i]) ELSE @[i]]]
      /\ w.fk = [k \in DOMAIN d.fk |-> [j \in DOMAIN d.fk[k] |-> KeyAsked(d, ids, a, k, j)]]
  BY DEF Promise!AsAsked, RowAsked, KeyAsked, OutAsked, OneOf
<1>2. t = "users" => w.user_tags = {p \in P : PairAsked(d, ids, a, "tags", p[1], p[3 - 1], p \in d.user_tags)}
  BY DEF Promise!AsAsked, PairAsked, OutAsked
<1>3. t = "tags" => w.user_tags = {p \in P : PairAsked(d, ids, a, "users", p[2], p[3 - 2], p \in d.user_tags)}
  BY DEF Promise!AsAsked, PairAsked, OutAsked
<1>4. t = "posts" => w.user_tags = d.user_tags
  BY DEF Promise!AsAsked
<1> HIDE DEF w
<1>5. 3 - 1 = 2 /\ 3 - 2 = 1
  OBVIOUS
<1>6. /\ DOMAIN w.rows = Tables /\ DOMAIN w.fk = DOMAIN KeyTarget
      /\ w.rows = [u \in Tables |-> w.rows[u]] /\ w.fk = [k \in DOMAIN KeyTarget |-> w.fk[k]]
      /\ \A k \in DOMAIN KeyTarget : w.fk[k] = [j \in DOMAIN d.fk[k] |-> KeyAsked(d, ids, a, k, j)]
      /\ \A u \in Tables : w.rows[u] =
           IF u = t THEN [i \in DOMAIN d.rows[u] |-> IF i \in ids THEN RowAsked(a, d.rows[u][i]) ELSE d.rows[u][i]]
           ELSE d.rows[u]
  BY <1>1 DEF Shaped
<1>7. \A pair \in w.user_tags : pair = <<pair[1], pair[2]>>
  <2>1. \A pair \in P : pair = <<pair[1], pair[2]>>
    OBVIOUS
  <2>2. \A pair \in d.user_tags : pair = <<pair[1], pair[2]>>
    BY DEF Shaped
  <2> HIDE DEF P
  <2>3. CASE t = "posts"
    BY <2>2, <2>3, <1>4
  <2>4. CASE t # "posts"
    BY <2>1, <2>4, <1>2, <1>3 DEF Tables
  <2>5. QED
    BY <2>3, <2>4
<1>8. Shaped(w)
  <2>1. \A k \in DOMAIN KeyTarget : w.fk[k] = [i \in DOMAIN w.fk[k] |-> w.fk[k][i]]
    BY <1>6
  <2>2. \A u \in Tables : w.rows[u] = [i \in DOMAIN w.rows[u] |-> w.rows[u][i]]
    BY <1>6 DEF Shaped
  <2>3. QED
    BY <1>1, <1>6, <1>7, <2>1, <2>2 DEF Shaped
<1>9. QED
  BY <1>2, <1>3, <1>4, <1>5, <1>6, <1>8 DEF AsAskedIs, w

LEMMA PromiseKeys ==
  /\ DOMAIN Promise!OneKey = {"pinned_post", "owner"}
  /\ Promise!OneKey["pinned_post"] = "user_pinned_post" /\ Promise!OneKey["owner"] = "user_posts"
  /\ DOMAIN Promise!ManyKey = {"posts", "pinners"}
  /\ Promise!ManyKey["posts"] = "user_posts" /\ Promise!ManyKey["pinners"] = "user_pinned_post"
BY DEF Promise!OneKey, Promise!ManyKey

\* The three kinds of edges of a table.
OwnEdge == [users |-> "pinned_post", posts |-> "owner"]
KeyEdge == [users |-> "posts", posts |-> "pinners"]
LEMMA EdgesOf ==
  /\ OwnEdge["users"] = "pinned_post" /\ OwnEdge["posts"] = "owner"
  /\ KeyEdge["users"] = "posts" /\ KeyEdge["posts"] = "pinners"
  /\ Edges("users") = {"posts", "pinned_post", "tags"} /\ Edges("posts") = {"owner", "pinners"} /\ Edges("tags") = {"users"}
BY DEF OwnEdge, KeyEdge, Edges

\* Of a row that ids names, its own key is what its unique edge was asked to be.
LEMMA OwnAsked ==
  ASSUME NEW t \in DOMAIN OwnKey, NEW how, NEW m, NEW a, Meant(t, how, m, a), NEW d, NEW ids, NEW j
  PROVE  KeyAsked(d, ids, a, OwnKey[t], j) =
           IF j \in ids /\ OwnEdge[t] \in DOMAIN a.one THEN a.one[OwnEdge[t]] ELSE d.fk[OwnKey[t]][j]
<1> DEFINE k == OwnKey[t]
<1>1. DOMAIN a.one \subseteq {OwnEdge[t]}
  BY EdgesOf, KeyFacts DEF Meant, EdgesMeant, OneMeant, OneEdges
<1>2. Promise!OneKey[OwnEdge[t]] = k
  BY PromiseKeys, EdgesOf, KeyFacts
<1>3. ASSUME NEW e \in DOMAIN Promise!ManyKey, Promise!ManyKey[e] = k
      PROVE  ~Promise!Says(a, e, j, TRUE) /\ ~OutAsked(a, e, j)
  <2>1. e \in ManyEdges /\ e \notin Edges(t)
    BY <1>3, PromiseKeys, EdgesOf, KeyFacts DEF ManyEdges
  <2>2. IDs(m, e) = {} /\ RemovedIDs(m, e) = {} /\ e \notin m.gone
    BY <2>1 DEF Meant, EdgesMeant, IDs, RemovedIDs
  <2>3. QED
    BY <2>1, <2>2 DEF Meant, EdgesMeant, ManyMeant, OutAsked
<1>4. OwnEdge[t] \in DOMAIN a.one => (CHOOSE e \in DOMAIN a.one : Promise!OneKey[e] = k) = OwnEdge[t]
  BY <1>1, <1>2
<1> HIDE DEF k
<1>5. (\E e \in DOMAIN a.one : Promise!OneKey[e] = k /\ j \in ids) <=> j \in ids /\ OwnEdge[t] \in DOMAIN a.one
  BY <1>1, <1>2
<1>6. CASE j \in ids /\ OwnEdge[t] \in DOMAIN a.one
  <2>1. KeyAsked(d, ids, a, k, j) = a.one[CHOOSE e \in DOMAIN a.one : Promise!OneKey[e] = k]
    BY <1>5, <1>6 DEF KeyAsked
  <2>2. QED
    BY <1>4, <1>6, <2>1 DEF k
<1>7. CASE ~(j \in ids /\ OwnEdge[t] \in DOMAIN a.one)
  <2>1. ~\E e \in DOMAIN a.one : Promise!OneKey[e] = k /\ j \in ids
    BY <1>5, <1>7
  <2>2. /\ ~\E e \in DOMAIN Promise!ManyKey : Promise!ManyKey[e] = k /\ Promise!Says(a, e, j, TRUE)
        /\ ~\E e \in DOMAIN Promise!ManyKey : Promise!ManyKey[e] = k /\ OutAsked(a, e, j) /\ d.fk[k][j] \in ids
    BY <1>3
  <2>3. KeyAsked(d, ids, a, k, j) = d.fk[k][j]
    BY <2>1, <2>2 DEF KeyAsked
  <2>4. QED
    BY <1>7, <2>3 DEF k
<1>8. QED
  BY <1>6, <1>7

\* A row at the other end is keyed by one of ids, by none, or as it was.
LEMMA OtherAsked ==
  ASSUME NEW t \in DOMAIN OwnKey, NEW how, NEW m, NEW a, Meant(t, how, m, a), NEW d, NEW ids, NEW j,
         NEW k \in DOMAIN KeyTarget, k # OwnKey[t]
  PROVE  LET e == KeyEdge[t] IN
         KeyAsked(d, ids, a, k, j) =
           IF ids # {} /\ j \in IDs(m, e) THEN OneOf(ids)
           ELSE IF d.fk[k][j] \in ids /\ (e \in m.gone \/ (j \in RemovedIDs(m, e) /\ j \notin IDs(m, e))) THEN 0
           ELSE d.fk[k][j]
<1> DEFINE e == KeyEdge[t]
<1>1. e \in ManyEdges /\ e \in DOMAIN Promise!ManyKey /\ Promise!ManyKey[e] = k
      /\ \A x \in DOMAIN Promise!ManyKey : Promise!ManyKey[x] = k => x = e
  BY PromiseKeys, EdgesOf, KeyFacts DEF ManyEdges
<1>2. ~\E x \in DOMAIN a.one : Promise!OneKey[x] = k
  <2>1. DOMAIN a.one \subseteq {OwnEdge[t]}
    BY EdgesOf, KeyFacts DEF Meant, EdgesMeant, OneMeant, OneEdges
  <2>2. Promise!OneKey[OwnEdge[t]] # k
    BY PromiseKeys, EdgesOf, KeyFacts
  <2>3. QED
    BY <2>1, <2>2
<1> HIDE DEF e
<1>3. /\ Promise!Says(a, e, j, TRUE) <=> j \in IDs(m, e)
      /\ OutAsked(a, e, j) <=> e \in m.gone \/ (j \in RemovedIDs(m, e) /\ j \notin IDs(m, e))
  BY <1>1 DEF Meant, EdgesMeant, ManyMeant, OutAsked
<1>4. KeyAsked(d, ids, a, k, j) =
        IF ids # {} /\ j \in IDs(m, e) THEN OneOf(ids)
        ELSE IF d.fk[k][j] \in ids /\ (e \in m.gone \/ (j \in RemovedIDs(m, e) /\ j \notin IDs(m, e))) THEN 0
        ELSE d.fk[k][j]
  <2>1. /\ ~\E x \in DOMAIN a.one : Promise!OneKey[x] = k /\ j \in ids
        /\ (\E x \in DOMAIN Promise!ManyKey : Promise!ManyKey[x] = k /\ Promise!Says(a, x, j, TRUE)) <=> j \in IDs(m, e)
        /\ (\E x \in DOMAIN Promise!ManyKey : Promise!ManyKey[x] = k /\ OutAsked(a, x, j) /\ d.fk[k][j] \in ids)
             <=> d.fk[k][j] \in ids /\ (e \in m.gone \/ (j \in RemovedIDs(m, e) /\ j \notin IDs(m, e)))
    BY <1>1, <1>2, <1>3
  <2>2. QED
    BY <2>1 DEF KeyAsked
<1>5. QED
  BY <1>4 DEF e

\* The keys of other tables are as they were.
LEMMA TagsKeepKeys ==
  ASSUME NEW how, NEW m, NEW a, Meant("tags", how, m, a), NEW d, NEW ids, NEW j, NEW k \in DOMAIN KeyTarget
  PROVE  KeyAsked(d, ids, a, k, j) = d.fk[k][j]
<1>1. DOMAIN a.one = {}
  BY EdgesOf DEF Meant, EdgesMeant, OneMeant, OneEdges
<1>2. ASSUME NEW e \in DOMAIN Promise!ManyKey PROVE ~Promise!Says(a, e, j, TRUE) /\ ~OutAsked(a, e, j)
  <2>1. e \in ManyEdges /\ e \notin Edges("tags")
    BY PromiseKeys, EdgesOf DEF ManyEdges
  <2>2. IDs(m, e) = {} /\ RemovedIDs(m, e) = {} /\ e \notin m.gone
    BY <2>1 DEF Meant, EdgesMeant, IDs, RemovedIDs
  <2>3. QED
    BY <2>1, <2>2 DEF Meant, EdgesMeant, ManyMeant, OutAsked
<1>3. /\ ~\E e \in DOMAIN a.one : Promise!OneKey[e] = k /\ j \in ids
      /\ ~\E e \in DOMAIN Promise!ManyKey : Promise!ManyKey[e] = k /\ Promise!Says(a, e, j, TRUE)
      /\ ~\E e \in DOMAIN Promise!ManyKey : Promise!ManyKey[e] = k /\ OutAsked(a, e, j) /\ d.fk[k][j] \in ids
  BY <1>1, <1>2
<1>4. QED
  BY <1>3 DEF KeyAsked

-----------------------------------------------------------------------------
(* An update that succeeds leaves what was asked *)

\* There is only one such database.
LEMMA AskedUnique ==
  ASSUME NEW d, NEW w, NEW v, NEW t \in Tables, NEW ids, NEW a,
         AsAskedIs(d, w, t, ids, a), AsAskedIs(d, v, t, ids, a)
  PROVE  w = v
<1>1. Shaped(w) /\ Shaped(v)
  BY DEF AsAskedIs
<1>2. \A u \in Tables : w.rows[u] = v.rows[u]
  BY DEF AsAskedIs
<1>3. \A k \in DOMAIN KeyTarget : w.fk[k] = v.fk[k]
  BY DEF AsAskedIs
<1>4. w.user_tags = v.user_tags
  <2>1. CASE t = "users"
    BY <2>1 DEF AsAskedIs
  <2>2. CASE t = "tags"
    BY <2>2 DEF AsAskedIs
  <2>3. CASE t = "posts"
    BY <2>3 DEF AsAskedIs
  <2>4. QED
    BY <2>1, <2>2, <2>3 DEF Tables
<1>5. QED
  BY <1>1, <1>2, <1>3, <1>4, SameDatabase

LEMMA ChangeFacts ==
  ASSUME NEW m, NEW e
  PROVE  /\ EdgeChange(m, e).all <=> e \in m.gone
         /\ EdgeChange(m, e).removed = IF e \in m.gone THEN {} ELSE RemovedIDs(m, e)
         /\ EdgeChange(m, e).added = IDs(m, e)
BY DEF EdgeChange

\* The columns, but for those that an update does not write.
LEMMA ColumnsAsAsked ==
  ASSUME NEW t \in Tables, NEW how, how # "create", NEW m, NEW a, Meant(t, how, m, a), NEW val, DOMAIN val = Columns(t)
  PROVE  WriteColumns(val, UpdateSpec(t, m)) = RowAsked(a, val)
<1> DEFINE s == UpdateSpec(t, m)
<1>1. /\ s.cleared = m.cleared
      /\ t = "users" => s.set = [c \in DOMAIN m.set \ UserImmutable |-> m.set[c]]
      /\ t # "users" => s.set = m.set
  BY DEF UpdateSpec, UserUpdateSpec, PostUpdateSpec, TagUpdateSpec
<1>2. t # "users" => DOMAIN m.set \cap UserImmutable = {}
  <2>1. DOMAIN m.set \subseteq Columns(t)
    BY DEF Meant, MutationOK
  <2>2. QED
    BY <2>1, ColumnClasses, ColumnsOf DEF Tables
<1>3. DOMAIN s.set = DOMAIN m.set \ UserImmutable /\ \A c \in DOMAIN s.set : s.set[c] = m.set[c]
  BY <1>1, <1>2
<1> HIDE DEF s
<1>4. ASSUME NEW c
      PROVE  (IF c \in DOMAIN s.set THEN s.set[c] ELSE IF c \in s.cleared THEN Null ELSE val[c])
               = IF c \in DOMAIN a.col THEN a.col[c] ELSE val[c]
  <2>1. ColumnsMeant(how, m, a)
    BY DEF Meant
  <2>2. CASE c \in DOMAIN s.set
    <3>1. c \in DOMAIN m.set /\ c \in DOMAIN a.col
      BY <1>3, <2>1, <2>2 DEF ColumnsMeant
    <3>2. QED
      BY <1>3, <2>1, <2>2, <3>1 DEF ColumnsMeant
  <2>3. CASE c \notin DOMAIN s.set /\ c \in s.cleared
    <3>1. c \in DOMAIN a.col /\ c \in UserOptional
      BY <1>1, <2>1, <2>3 DEF ColumnsMeant
    <3>2. c \notin DOMAIN m.set
      BY <1>3, <2>3, <3>1, ColumnClasses
    <3>3. QED
      BY <2>1, <2>3, <3>1, <3>2 DEF ColumnsMeant
  <2>4. CASE c \notin DOMAIN s.set /\ c \notin s.cleared
    <3>1. c \notin DOMAIN a.col
      BY <1>1, <1>3, <2>1, <2>4 DEF ColumnsMeant
    <3>2. QED
      BY <2>4, <3>1
  <2>5. QED
    BY <2>2, <2>3, <2>4
<1>5. QED
  BY <1>4 DEF WriteColumns, RowAsked, s

\* The row's own foreign key.
LEMMA OwnAsAsked ==
  ASSUME NEW t \in DOMAIN OwnKey, NEW how, NEW m, NEW a, Meant(t, how, m, a),
         NEW s, s.own = EdgeChange(m, OwnEdge[t]), NEW d, NEW ids, NEW i
  PROVE  Owned(s, i, ids, d.fk[OwnKey[t]][i]) = KeyAsked(d, ids, a, OwnKey[t], i)
<1> DEFINE e == OwnEdge[t]
           was == d.fk[OwnKey[t]][i]
<1>1. KeyAsked(d, ids, a, OwnKey[t], i) = IF i \in ids /\ e \in DOMAIN a.one THEN a.one[e] ELSE was
  BY OwnAsked
<1>2. /\ e \in DOMAIN a.one <=> e \in DOMAIN m.ids \cup m.gone
      /\ e \in DOMAIN m.ids => m.ids[e] = {a.one[e]}
      /\ e \in m.gone \ DOMAIN m.ids => a.one[e] = NoId
  <2>1. e \in OneEdges
    BY EdgesOf, KeyFacts DEF OneEdges
  <2> HIDE DEF e
  <2>2. QED
    BY <2>1 DEF Meant, EdgesMeant, OneMeant
<1>3. (s.own.all <=> e \in m.gone) /\ s.own.added = IDs(m, e)
  BY ChangeFacts
<1> HIDE DEF e, was
<1>4. CASE e \in DOMAIN m.ids
  <2>1. s.own.added = {a.one[e]}
    BY <1>2, <1>3, <1>4 DEF IDs
  <2>2. (CHOOSE j \in s.own.added : TRUE) = a.one[e]
    BY <2>1
  <2>3. Owned(s, i, ids, was) = IF i \in ids THEN a.one[e] ELSE was
    BY <2>1, <2>2 DEF Owned
  <2>4. QED
    BY <1>1, <1>2, <1>4, <2>3 DEF was
<1>5. CASE e \notin DOMAIN m.ids
  <2>1. s.own.added = {}
    BY <1>3, <1>5 DEF IDs
  <2>2. Owned(s, i, ids, was) = IF i \in ids /\ e \in m.gone THEN NoId ELSE was
    BY <1>3, <2>1 DEF Owned
  <2>3. QED
    BY <1>1, <1>2, <1>5, <2>2 DEF was
<1>6. QED
  BY <1>4, <1>5

\* The foreign keys at the other end.
KeysWritten(r, w, s, ids) ==
  /\ DbOK(w) /\ w.rows = r.rows /\ w.user_tags = r.user_tags
  /\ \A k \in DOMAIN KeyTarget \ {s.key} : w.fk[k] = r.fk[k]
  /\ s.key # NoKey => w.fk[s.key] =
       [j \in DOMAIN r.fk[s.key] |->
          IF j \in s.others.added THEN OneOf(ids)
          ELSE IF r.fk[s.key][j] \in ids /\ (s.others.all \/ j \in s.others.removed) THEN NoId ELSE r.fk[s.key][j]]
\* Clearing and adding, which succeeded, have written each key of the others.
LEMMA KeysWrittenWhole ==
  ASSUME NEW r, DbOK(r), NEW s, SpecOK(s), NEW ids, ids # {}, ids \subseteq DOMAIN r.rows[s.table],
         WriteKeys(r, ids, s).how = "ok"
  PROVE  KeysWritten(r, WriteKeys(r, ids, s).db, s, ids)
<1> DEFINE c == ClearKeys(r, ids, s)
           i == OneOf(ids)
           w == AddKeys(c, i, s)
<1>1. KeysCleared(r, c, s, ids)
  BY ClearKeysOK
<1>2. i \in ids
  BY DEF OneOf
<1> HIDE DEF c, i
<1>3. KeysAdded(c, w, s, i)
  BY <1>1, <1>2, AddKeysOK DEF KeysCleared
<1> HIDE DEF w
<1>4. WriteKeys(r, ids, s) =
        IF s.others.added = {} THEN Outcome("ok", c)
        ELSE IF Cardinality(ids) > 1 THEN Outcome("failed", c)
        ELSE Outcome(IF AllFree(c, s) THEN "ok" ELSE "failed", w)
  BY DEF WriteKeys, c, w, i, OneOf
<1>5. CASE s.others.added = {}
  <2>1. WriteKeys(r, ids, s).db = c
    BY <1>4, <1>5 DEF Outcome
  <2>2. KeysWritten(r, c, s, ids)
    BY <1>1, <1>5 DEF KeysCleared, KeysWritten
  <2>3. QED
    BY <2>1, <2>2
<1>6. CASE s.others.added # {}
  <2>1. AllFree(c, s) /\ WriteKeys(r, ids, s).db = w
    BY <1>4, <1>6 DEF Outcome
  <2>2. DbOK(w) /\ w.rows = r.rows /\ w.user_tags = r.user_tags /\ \A k \in DOMAIN KeyTarget \ {s.key} : w.fk[k] = r.fk[k]
    BY <1>1, <1>3 DEF KeysCleared, KeysAdded
  <2>3. ASSUME s.key # NoKey
        PROVE  w.fk[s.key] =
                 [j \in DOMAIN r.fk[s.key] |->
                    IF j \in s.others.added THEN OneOf(ids)
                    ELSE IF r.fk[s.key][j] \in ids /\ (s.others.all \/ j \in s.others.removed) THEN NoId
                    ELSE r.fk[s.key][j]]
    <3>1. c.fk[s.key] =
            [j \in DOMAIN r.fk[s.key] |->
               IF r.fk[s.key][j] \in ids /\ (s.others.all \/ j \in s.others.removed) THEN NoId ELSE r.fk[s.key][j]]
      BY <1>1, <2>3 DEF KeysCleared
    <3>2. w.fk[s.key] = [j \in DOMAIN c.fk[s.key] |->
                           IF j \in s.others.added /\ c.fk[s.key][j] = NoId THEN i ELSE c.fk[s.key][j]]
      BY <1>3, <2>3 DEF KeysAdded
    <3>3. \A j \in s.others.added : c.fk[s.key][j] = NoId
      BY <2>1 DEF AllFree
    <3>4. QED
      BY <3>1, <3>2, <3>3 DEF i
  <2>4. QED
    BY <2>1, <2>2, <2>3 DEF KeysWritten
<1>7. QED
  BY <1>5, <1>6

\* These are the keys that were asked.
LEMMA OthersAsAsked ==
  ASSUME NEW t \in DOMAIN OwnKey, NEW how, NEW m, NEW a, Meant(t, how, m, a),
         NEW s, s.others = EdgeChange(m, KeyEdge[t]), s.key \in DOMAIN KeyTarget, s.key # OwnKey[t],
         NEW r, NEW w, NEW ids, ids # {}, KeysWritten(r, w, s, ids), NEW j \in DOMAIN r.fk[s.key]
  PROVE  w.fk[s.key][j] = KeyAsked(r, ids, a, s.key, j)
<1> DEFINE e == KeyEdge[t]
           k == s.key
<1>1. KeyAsked(r, ids, a, k, j) =
           IF ids # {} /\ j \in IDs(m, e) THEN OneOf(ids)
           ELSE IF r.fk[k][j] \in ids /\ (e \in m.gone \/ (j \in RemovedIDs(m, e) /\ j \notin IDs(m, e))) THEN 0
           ELSE r.fk[k][j]
  BY OtherAsked
<1>2. /\ s.others.all <=> e \in m.gone
      /\ s.others.removed = IF e \in m.gone THEN {} ELSE RemovedIDs(m, e)
      /\ s.others.added = IDs(m, e)
  BY ChangeFacts
<1> HIDE DEF e
<1>3. w.fk[k][j] =
        IF j \in s.others.added THEN OneOf(ids)
        ELSE IF r.fk[k][j] \in ids /\ (s.others.all \/ j \in s.others.removed) THEN NoId ELSE r.fk[k][j]
  BY KeyFacts DEF KeysWritten
<1> HIDE DEF k
<1>4. QED
  BY <1>1, <1>2, <1>3 DEF NoId, k

\* The join table, for the rows ids at either side.
JoinWritten(r, w, s, ids) ==
  /\ \A j \in s.joined.added : Exists(r, Partner(s.table), j)
  /\ \A x, y :
       LET pair == Pair(s.table, x, y) IN
       pair \in w.user_tags <=>
         \/ /\ pair \in r.user_tags
            /\ ~(x \in ids /\ (y \in s.joined.removed \/ (s.joined.all /\ y \in DOMAIN r.rows[Partner(s.table)])))
         \/ x \in ids /\ y \in s.joined.added
LEMMA PairsDiffer == ASSUME NEW t, NEW x, NEW y, NEW u, NEW v PROVE Pair(t, x, y) = Pair(t, u, v) <=> x = u /\ y = v
BY DEF Pair
\* The pairs, likewise.
LEMMA JoinWrittenWhole ==
  ASSUME NEW r, DbOK(r), NEW s, NEW ids, NEW sql, WriteJoin(r, ids, s, sql).how = "ok"
  PROVE  JoinWritten(r, WriteJoin(r, ids, s, sql).db, s, ids)
<1> DEFINE c == ClearJoin(r, ids, s)
           w == AddJoin(c, ids, s)
           gone == s.joined.removed \cup (IF s.joined.all THEN DOMAIN r.rows[Partner(s.table)] ELSE {})
<1>1. Shaped(c) /\ c.rows = r.rows
  BY JoinFacts DEF DbOK
<1>2. c.user_tags = r.user_tags \ {pair \in r.user_tags : \E i \in ids : \E j \in gone : pair = Pair(s.table, i, j)}
  BY DEF ClearJoin, DbOK, Shaped
<1> HIDE DEF c, gone
<1>3. w.user_tags = c.user_tags \cup {Pair(s.table, i, j) : i \in ids, j \in s.joined.added}
  BY <1>1, JoinFacts
<1>4. JoinTakes(c, ids, s, sql) /\ WriteJoin(r, ids, s, sql).db = w
  BY DEF WriteJoin, Outcome, c
<1> HIDE DEF w
<1>5. ASSUME NEW x, NEW y
      PROVE  LET pair == Pair(s.table, x, y) IN
             pair \in w.user_tags <=>
               \/ pair \in r.user_tags /\ ~(x \in ids /\ y \in gone)
               \/ x \in ids /\ y \in s.joined.added
  <2> DEFINE pair == Pair(s.table, x, y)
  <2>1. pair \in c.user_tags <=> pair \in r.user_tags /\ ~(x \in ids /\ y \in gone)
    BY <1>2, PairsDiffer
  <2>2. pair \in {Pair(s.table, i, j) : i \in ids, j \in s.joined.added} <=> x \in ids /\ y \in s.joined.added
    BY PairsDiffer
  <2> HIDE DEF pair
  <2>3. QED
    BY <1>3, <2>1, <2>2 DEF pair
<1>6. \A y : y \in gone <=> y \in s.joined.removed \/ (s.joined.all /\ y \in DOMAIN r.rows[Partner(s.table)])
  BY DEF gone
<1>7. \A j \in s.joined.added : Exists(r, Partner(s.table), j)
  BY <1>1, <1>4 DEF JoinTakes, Exists
<1>8. QED
  BY <1>4, <1>5, <1>6, <1>7 DEF JoinWritten

\* Of one pair of rows that are there.
LEMMA PairAsAsked ==
  ASSUME NEW t \in {"users", "tags"}, NEW how, NEW m, NEW a, Meant(t, how, m, a), NEW e \in ManyEdges,
         NEW s, s.table = t, s.joined = EdgeChange(m, e),
         NEW r, NEW w, NEW ids, JoinWritten(r, w, s, ids), NEW x, NEW y \in DOMAIN r.rows[Partner(t)]
  PROVE  Pair(t, x, y) \in w.user_tags <=> PairAsked(r, ids, a, e, x, y, Pair(t, x, y) \in r.user_tags)
<1>1. /\ s.joined.all <=> e \in m.gone
      /\ s.joined.removed = IF e \in m.gone THEN {} ELSE RemovedIDs(m, e)
      /\ s.joined.added = IDs(m, e)
  BY ChangeFacts
<1>2. /\ Promise!Says(a, e, y, TRUE) <=> y \in IDs(m, e)
      /\ OutAsked(a, e, y) <=> e \in m.gone \/ (y \in RemovedIDs(m, e) /\ y \notin IDs(m, e))
  BY DEF Meant, EdgesMeant, ManyMeant, OutAsked
<1>3. Pair(t, x, y) \in w.user_tags <=>
         \/ /\ Pair(t, x, y) \in r.user_tags
            /\ ~(x \in ids /\ (y \in s.joined.removed \/ s.joined.all))
         \/ x \in ids /\ y \in s.joined.added
  BY DEF JoinWritten
<1>4. QED
  BY <1>1, <1>2, <1>3 DEF PairAsked

\* These are the pairs that were asked.
LEMMA JoinAsAsked ==
  ASSUME NEW t \in {"users", "tags"}, NEW how, NEW m, NEW a, Meant(t, how, m, a), NEW e \in ManyEdges,
         NEW s, s.table = t, s.joined = EdgeChange(m, e),
         NEW r, NEW w, NEW ids, JoinWritten(r, w, s, ids),
         \A p \in w.user_tags : p = <<p[1], p[2]>> /\ Exists(r, "users", p[1]) /\ Exists(r, "tags", p[2])
  PROVE  LET P == (DOMAIN r.rows["users"]) \X (DOMAIN r.rows["tags"]) IN
         /\ t = "users" => w.user_tags = {p \in P : PairAsked(r, ids, a, e, p[1], p[2], p \in r.user_tags)}
         /\ t = "tags" => w.user_tags = {p \in P : PairAsked(r, ids, a, e, p[2], p[1], p \in r.user_tags)}
<1> DEFINE P == (DOMAIN r.rows["users"]) \X (DOMAIN r.rows["tags"])
<1>1. w.user_tags \subseteq P
  BY DEF Exists
<1>2. \A p \in P : p = <<p[1], p[2]>> /\ p[1] \in DOMAIN r.rows["users"] /\ p[2] \in DOMAIN r.rows["tags"]
  OBVIOUS
<1> HIDE DEF P
<1>3. CASE t = "users"
  <2>1. Partner(t) = "tags" /\ \A x, y : Pair(t, x, y) = <<x, y>>
    BY <1>3 DEF Partner, Pair
  <2>2. ASSUME NEW p \in P PROVE p \in w.user_tags <=> PairAsked(r, ids, a, e, p[1], p[2], p \in r.user_tags)
    <3>1. p[2] \in DOMAIN r.rows[Partner(t)] /\ Pair(t, p[1], p[2]) = p
      BY <1>2, <2>1
    <3>2. Pair(t, p[1], p[2]) \in w.user_tags
             <=> PairAsked(r, ids, a, e, p[1], p[2], Pair(t, p[1], p[2]) \in r.user_tags)
      BY <3>1, PairAsAsked
    <3>3. QED
      BY <3>1, <3>2
  <2>3. w.user_tags = {p \in P : PairAsked(r, ids, a, e, p[1], p[2], p \in r.user_tags)}
    BY <1>1, <2>2
  <2>4. QED
    BY <1>3, <2>3 DEF P
<1>4. CASE t = "tags"
  <2>1. Partner(t) = "users" /\ \A x, y : Pair(t, x, y) = <<y, x>>
    BY <1>4 DEF Partner, Pair
  <2>2. ASSUME NEW p \in P PROVE p \in w.user_tags <=> PairAsked(r, ids, a, e, p[2], p[1], p \in r.user_tags)
    <3>1. p[1] \in DOMAIN r.rows[Partner(t)] /\ Pair(t, p[2], p[1]) = p
      BY <1>2, <2>1
    <3>2. Pair(t, p[2], p[1]) \in w.user_tags
             <=> PairAsked(r, ids, a, e, p[2], p[1], Pair(t, p[2], p[1]) \in r.user_tags)
      BY <3>1, PairAsAsked
    <3>3. QED
      BY <3>1, <3>2
  <2>3. w.user_tags = {p \in P : PairAsked(r, ids, a, e, p[2], p[1], p \in r.user_tags)}
    BY <1>1, <2>2
  <2>4. QED
    BY <1>4, <2>3 DEF P
<1>5. QED
  BY <1>3, <1>4

\* No rows, and so nothing asked.
LEMMA NoneAsked ==
  ASSUME NEW d, DbOK(d), NEW t \in Tables, NEW a
  PROVE  AsAskedIs(d, d, t, {}, a)
<1> DEFINE P == (DOMAIN d.rows["users"]) \X (DOMAIN d.rows["tags"])
<1>1. Shaped(d) /\ ForeignKeysHold(d)
  BY DEF DbOK
<1>2. \A u \in Tables : d.rows[u] = [i \in DOMAIN d.rows[u] |-> d.rows[u][i]]
  BY <1>1 DEF Shaped
<1>3. \A k \in DOMAIN KeyTarget : d.fk[k] = [j \in DOMAIN d.fk[k] |-> KeyAsked(d, {}, a, k, j)]
  <2>1. \A k, j : KeyAsked(d, {}, a, k, j) = d.fk[k][j]
    BY DEF KeyAsked
  <2>2. \A k \in DOMAIN KeyTarget : d.fk[k] = [j \in DOMAIN d.fk[k] |-> d.fk[k][j]]
    BY <1>1 DEF Shaped
  <2>3. QED
    BY <2>1, <2>2
<1>4. d.user_tags \subseteq P
  <2> SUFFICES ASSUME NEW p \in d.user_tags PROVE p \in P
    OBVIOUS
  <2>1. p = <<p[1], p[2]>> /\ Exists(d, "users", p[1]) /\ Exists(d, "tags", p[2])
    BY <1>1 DEF Shaped, ForeignKeysHold
  <2>2. QED
    BY <2>1 DEF Exists
<1> HIDE DEF P
<1>5. \A p \in P : /\ PairAsked(d, {}, a, "tags", p[1], p[2], p \in d.user_tags) <=> p \in d.user_tags
                   /\ PairAsked(d, {}, a, "users", p[2], p[1], p \in d.user_tags) <=> p \in d.user_tags
  BY DEF PairAsked
<1>6. /\ d.user_tags = {p \in P : PairAsked(d, {}, a, "tags", p[1], p[2], p \in d.user_tags)}
      /\ d.user_tags = {p \in P : PairAsked(d, {}, a, "users", p[2], p[1], p \in d.user_tags)}
  BY <1>4, <1>5
<1>7. QED
  BY <1>1, <1>2, <1>3, <1>6 DEF AsAskedIs, P

\* Row, key, keys of others and pairs together: an update does what was asked.
LEMMA UpdateAsAsked ==
  ASSUME NEW d, DbOK(d), NEW t \in Tables, NEW how, how # "create", NEW m, NEW a, Meant(t, how, m, a),
         NEW ids, ids \subseteq DOMAIN d.rows[t], NEW sql, UpdateNodes(d, ids, UpdateSpec(t, m), sql).how = "ok"
  PROVE  UpdateNodes(d, ids, UpdateSpec(t, m), sql).db = Promise!AsAsked(d, t, ids, a)
<1> DEFINE s == UpdateSpec(t, m)
           u == UpdateNodes(d, ids, s, sql)
<1>1. SpecOK(s) /\ s.table = t
  BY UpdateSpecOK DEF Meant
<1>2. /\ t = "users" => /\ s.own = EdgeChange(m, "pinned_post") /\ s.others = EdgeChange(m, "posts")
                        /\ s.key = "user_posts" /\ s.joined = EdgeChange(m, "tags")
      /\ t = "posts" => /\ s.own = EdgeChange(m, "owner") /\ s.others = EdgeChange(m, "pinners")
                        /\ s.key = "user_pinned_post" /\ s.joined = NoChange
      /\ t = "tags" => /\ s.own = NoChange /\ s.others = NoChange /\ s.joined = EdgeChange(m, "users")
                       /\ s.key = NoKey
  BY <1>1, SpecEdges DEF SpecOK
<1>3. AsAskedIs(d, Promise!AsAsked(d, t, ids, a), t, ids, a)
  BY AsAskedFacts DEF DbOK
<1>4. CASE ids = {}
  <2>1. u.db = d
    BY <1>4 DEF UpdateNodes, Outcome
  <2>2. QED
    BY <1>3, <1>4, <2>1, NoneAsked, AskedUnique
<1>5. CASE ids # {}
  <2> DEFINE r == WriteRows(d, ids, s)
             o == WriteJoin(r, ids, s, sql)
             j == o.db
             k == WriteKeys(j, ids, s)
             w == k.db
  <2>1. OwnTargetExists(d, s) /\ u = IF o.how = "ok" THEN k ELSE o
    <3>1. u.how = "ok"
      OBVIOUS
    <3>2. u = IF sql.strict /\ AssignedTwice(s) THEN Outcome("refused", d)
              ELSE IF ~OwnTargetExists(d, s) THEN Outcome("refused", d)
              ELSE WriteEdges(r, ids, s, sql)
      BY <1>5 DEF UpdateNodes
    <3>3. WriteEdges(r, ids, s, sql) = IF o.how = "ok" THEN k ELSE o
      BY DEF WriteEdges
    <3> HIDE DEF u, k, o
    <3>4. Outcome("refused", d).how # "ok"
      BY DEF Outcome
    <3>5. QED
      BY <3>1, <3>2, <3>3, <3>4
  <2>2. o.how = "ok" /\ k.how = "ok" /\ u.db = w
    BY <2>1
  <2>3. DbOK(r) /\ SameRows(r, d)
    BY <1>1, <2>1, WriteRowsOK
  <2>4. /\ r.user_tags = d.user_tags
        /\ \A x \in Tables : r.rows[x] =
             IF x = t
               THEN [i \in DOMAIN d.rows[x] |-> IF i \in ids THEN WriteColumns(d.rows[x][i], s) ELSE d.rows[x][i]]
             ELSE d.rows[x]
        /\ \A x \in DOMAIN OwnKey : r.fk[OwnKey[x]] =
             IF x = t
               THEN [i \in DOMAIN d.fk[OwnKey[x]] |-> Owned(s, i, ids, d.fk[OwnKey[x]][i])]
             ELSE d.fk[OwnKey[x]]
    BY <1>1, WriteRowsFacts DEF DbOK
  <2>5. ids \subseteq DOMAIN r.rows[s.table]
    BY <1>1, <2>3 DEF SameRows
  <2> HIDE DEF u, r
  <2>6. /\ DbOK(j) /\ j.rows = r.rows /\ j.fk = r.fk
        /\ s.joined = NoChange => j.user_tags = r.user_tags
    BY <1>1, <2>3, <2>5, WriteJoinOK
  <2>7. JoinWritten(r, j, s, ids)
    BY <2>2, <2>3, JoinWrittenWhole
  <2> HIDE DEF o
  <2>8. KeysWritten(j, w, s, ids)
    <3>1. ids \subseteq DOMAIN j.rows[s.table]
      BY <2>5, <2>6
    <3>2. QED
      BY <1>1, <1>5, <2>2, <2>6, <3>1, KeysWrittenWhole
  <2> HIDE DEF k
  <2>9. DbOK(w) /\ w.rows = r.rows /\ w.user_tags = j.user_tags
    BY <2>6, <2>8 DEF KeysWritten
  <2>10. ASSUME NEW x \in Tables
         PROVE  w.rows[x] =
           IF x = t THEN [i \in DOMAIN d.rows[x] |-> IF i \in ids THEN RowAsked(a, d.rows[x][i]) ELSE d.rows[x][i]]
           ELSE d.rows[x]
    <3>1. \A i \in DOMAIN d.rows[t] : WriteColumns(d.rows[t][i], s) = RowAsked(a, d.rows[t][i])
      <4>1. \A i \in DOMAIN d.rows[t] : DOMAIN d.rows[t][i] = Columns(t)
        BY DEF DbOK, RowsOK
      <4>2. QED
        BY <4>1, ColumnsAsAsked
    <3> HIDE DEF s
    <3>2. CASE x = t
      <4>1. w.rows[x] = [i \in DOMAIN d.rows[t] |-> IF i \in ids THEN WriteColumns(d.rows[t][i], s) ELSE d.rows[t][i]]
        BY <2>4, <2>9, <3>2
      <4>2. QED
        BY <3>1, <3>2, <4>1
    <3>3. CASE x # t
      BY <2>4, <2>9, <3>3
    <3>4. QED
      BY <3>2, <3>3
  <2>11. ASSUME NEW key \in DOMAIN KeyTarget
         PROVE  w.fk[key] = [i \in DOMAIN d.fk[key] |-> KeyAsked(d, ids, a, key, i)]
    <3>1. CASE t = "tags"
      <4>1. s.key = NoKey /\ key # NoKey
        BY <1>2, <3>1, KeyFacts
      <4>2. w.fk[key] = r.fk[key]
        BY <2>6, <2>8, <4>1 DEF KeysWritten
      <4>3. r.fk[key] = d.fk[key]
        BY <2>4, <3>1, KeyFacts
      <4>4. \A i : KeyAsked(d, ids, a, key, i) = d.fk[key][i]
        BY <3>1, TagsKeepKeys
      <4>5. d.fk[key] = [i \in DOMAIN d.fk[key] |-> d.fk[key][i]]
        BY DEF DbOK, Shaped
      <4>6. QED
        BY <4>2, <4>3, <4>4, <4>5
    <3>2. CASE t # "tags" /\ key = OwnKey[t]
      <4>1. t \in DOMAIN OwnKey /\ s.key # key /\ s.own = EdgeChange(m, OwnEdge[t])
        BY <1>2, <3>2, KeyFacts, EdgesOf DEF Tables
      <4>2. w.fk[key] = r.fk[key]
        BY <2>6, <2>8, <4>1 DEF KeysWritten
      <4>3. r.fk[key] = [i \in DOMAIN d.fk[key] |-> Owned(s, i, ids, d.fk[key][i])]
        BY <2>4, <3>2, <4>1
      <4>4. \A i : Owned(s, i, ids, d.fk[key][i]) = KeyAsked(d, ids, a, key, i)
        BY <3>2, <4>1, OwnAsAsked
      <4>5. QED
        BY <4>2, <4>3, <4>4
    <3>3. CASE t # "tags" /\ key # OwnKey[t]
      <4>1. t \in DOMAIN OwnKey /\ s.key = key /\ s.others = EdgeChange(m, KeyEdge[t]) /\ s.key # NoKey
        BY <1>2, <3>3, KeyFacts, EdgesOf DEF Tables
      <4>2. r.fk[key] = d.fk[key]
        BY <2>4, <3>3, KeyFacts DEF Tables
      <4>3. \A i \in DOMAIN j.fk[key] : w.fk[key][i] = KeyAsked(j, ids, a, key, i)
        BY <1>5, <2>8, <3>3, <4>1, OthersAsAsked
      <4>4. \A i : KeyAsked(j, ids, a, key, i) = KeyAsked(d, ids, a, key, i)
        BY <2>6, <4>2 DEF KeyAsked
      <4>5. w.fk[key] = [i \in DOMAIN d.fk[key] |-> w.fk[key][i]]
        BY <2>6, <2>8, <4>1, <4>2 DEF KeysWritten
      <4>6. QED
        BY <2>6, <4>2, <4>3, <4>4, <4>5
    <3>4. QED
      BY <3>1, <3>2, <3>3
  <2>12. /\ t = "users" => w.user_tags =
              {p \in (DOMAIN d.rows["users"]) \X (DOMAIN d.rows["tags"]) :
                 PairAsked(d, ids, a, "tags", p[1], p[2], p \in d.user_tags)}
         /\ t = "tags" => w.user_tags =
              {p \in (DOMAIN d.rows["users"]) \X (DOMAIN d.rows["tags"]) :
                 PairAsked(d, ids, a, "users", p[2], p[1], p \in d.user_tags)}
    <3>1. DOMAIN r.rows["users"] = DOMAIN d.rows["users"] /\ DOMAIN r.rows["tags"] = DOMAIN d.rows["tags"]
      BY <2>3 DEF SameRows, Tables
    <3>a. \A p \in j.user_tags : p = <<p[1], p[2]>> /\ Exists(r, "users", p[1]) /\ Exists(r, "tags", p[2])
      BY <2>6 DEF DbOK, Shaped, ForeignKeysHold, Exists
    <3>2. \A e, mine, other, now : PairAsked(d, ids, a, e, mine, other, now) = PairAsked(r, ids, a, e, mine, other, now)
      BY DEF PairAsked
    <3>3. {"tags", "users"} \subseteq ManyEdges
      BY DEF ManyEdges
    <3>4. CASE t = "users"
      <4>1. t \in {"users", "tags"} /\ s.joined = EdgeChange(m, "tags")
        BY <1>2, <3>4
      <4>2. j.user_tags = {p \in (DOMAIN r.rows["users"]) \X (DOMAIN r.rows["tags"]) :
                             PairAsked(r, ids, a, "tags", p[1], p[2], p \in r.user_tags)}
        BY <1>1, <2>7, <3>a, <3>3, <3>4, <4>1, JoinAsAsked
      <4>3. QED
        BY <2>4, <2>9, <3>1, <3>2, <3>4, <4>2
    <3>5. CASE t = "tags"
      <4>1. t \in {"users", "tags"} /\ s.joined = EdgeChange(m, "users")
        BY <1>2, <3>5
      <4>2. j.user_tags = {p \in (DOMAIN r.rows["users"]) \X (DOMAIN r.rows["tags"]) :
                             PairAsked(r, ids, a, "users", p[2], p[1], p \in r.user_tags)}
        BY <1>1, <2>7, <3>a, <3>3, <3>5, <4>1, JoinAsAsked
      <4>3. QED
        BY <2>4, <2>9, <3>1, <3>2, <3>5, <4>2
    <3>6. QED
      BY <3>4, <3>5
  <2>13. t = "posts" => w.user_tags = d.user_tags
    BY <1>2, <2>4, <2>6, <2>9
  <2>14. AsAskedIs(d, w, t, ids, a)
    BY <2>9, <2>10, <2>11, <2>12, <2>13 DEF AsAskedIs, DbOK
  <2>15. QED
    BY <1>3, <2>2, <2>14, AskedUnique DEF u
<1>6. QED
  BY <1>4, <1>5

-----------------------------------------------------------------------------
(* What the promise makes of new rows *)

LEMMA BlankFacts ==
  ASSUME NEW e, Shaped(e), NEW t \in Tables, NEW i
  PROVE  LET b == Promise!WithBlank(e, t, i) IN
         /\ Shaped(b) /\ b.user_tags = e.user_tags
         /\ \A u \in Tables : b.rows[u] = IF u = t THEN With(e.rows[t], i, BlankRows[t]) ELSE e.rows[u]
         /\ \A k \in DOMAIN KeyTarget :
              b.fk[k] = IF t \in DOMAIN OwnKey /\ k = OwnKey[t] THEN With(e.fk[k], i, 0) ELSE e.fk[k]
<1> DEFINE b == Promise!WithBlank(e, t, i)
<1>1. /\ b \in [rows : {b.rows}, fk : {b.fk}, user_tags : {b.user_tags}] /\ b.user_tags = e.user_tags
      /\ DOMAIN b.rows = Tables /\ DOMAIN b.fk = DOMAIN KeyTarget
      /\ b.rows = [u \in Tables |-> b.rows[u]] /\ b.fk = [k \in DOMAIN KeyTarget |-> b.fk[k]]
  BY DEF Promise!WithBlank, Shaped
<1>2. \A u \in Tables : b.rows[u] = IF u = t THEN With(e.rows[t], i, BlankRows[t]) ELSE e.rows[u]
  BY DEF Promise!WithBlank, Promise!With, With, Shaped
<1>3. \A k \in DOMAIN KeyTarget :
        b.fk[k] = IF (t = "users" /\ k = "user_pinned_post") \/ (t = "posts" /\ k = "user_posts")
                    THEN With(e.fk[k], i, 0) ELSE e.fk[k]
  BY DEF Promise!WithBlank, Promise!With, With, Shaped
<1>4. \A k \in DOMAIN KeyTarget :
        (t = "users" /\ k = "user_pinned_post") \/ (t = "posts" /\ k = "user_posts") <=> t \in DOMAIN OwnKey /\ k = OwnKey[t]
  BY KeyFacts
<1> HIDE DEF b
<1>5. \A k \in DOMAIN KeyTarget :
        b.fk[k] = IF t \in DOMAIN OwnKey /\ k = OwnKey[t] THEN With(e.fk[k], i, 0) ELSE e.fk[k]
  BY <1>3, <1>4
<1>6. /\ \A k \in DOMAIN KeyTarget : b.fk[k] = [x \in DOMAIN b.fk[k] |-> b.fk[k][x]]
      /\ \A u \in Tables : b.rows[u] = [x \in DOMAIN b.rows[u] |-> b.rows[u][x]]
  BY <1>2, <1>5 DEF With, Shaped
<1>7. Shaped(b)
  BY <1>1, <1>6 DEF Shaped
<1>8. QED
  BY <1>1, <1>2, <1>5, <1>7 DEF b

\* A row for which nothing was asked, and what was asked over it, is the row that
\* a create writes: its defaults and NULLs are the blank row's.
LEMMA NewRow ==
  ASSUME NEW t \in Tables, NEW m, NEW a, Meant(t, "create", m, a), Check(t, m)
  PROVE  RowAsked(a, BlankRows[t]) = CreateSpec(t, m).set
<1> DEFINE blank == BlankRows[t]
           set == CreateSpec(t, m).set
<1>1. /\ DOMAIN blank = Columns(t)
      /\ \A c \in Columns(t) : blank[c] = IF c \notin UserOptional /\ c \in Defaulted THEN Default ELSE Null
  BY DEF BlankRows, Defaulted
<1>2. /\ DOMAIN set = Columns(t)
      /\ \A c \in Columns(t) : set[c] = IF c \in DOMAIN m.set THEN m.set[c] ELSE Null
      /\ set = [c \in Columns(t) |-> set[c]]
  <2>1. m.set \in [DOMAIN m.set -> Values] /\ DOMAIN m.set \subseteq Columns(t)
    BY DEF Meant, MutationOK
  <2>2. CASE t = "users"
    <3>1. set = [c \in DOMAIN m.set \cup UserColumns |-> IF c \in DOMAIN m.set THEN m.set[c] ELSE Null]
      BY <2>2 DEF CreateSpec, UserCreateSpec, Complete, Over
    <3> HIDE DEF set
    <3>2. QED
      BY <2>1, <2>2, <3>1, ColumnsOf
  <2>3. CASE t = "posts"
    <3>1. set = m.set /\ DOMAIN m.set = Columns(t)
      BY <2>1, <2>3, ColumnsOf DEF CreateSpec, PostCreateSpec, Check, PostCheck
    <3> HIDE DEF set
    <3>2. QED
      BY <2>1, <3>1
  <2>4. CASE t = "tags"
    <3>1. set = m.set /\ DOMAIN m.set = Columns(t)
      BY <2>1, <2>4, ColumnsOf DEF CreateSpec, TagCreateSpec, Check, TagCheck
    <3> HIDE DEF set
    <3>2. QED
      BY <2>1, <3>1
  <2>5. QED
    BY <2>2, <2>3, <2>4 DEF Tables
<1>3. ColumnsMeant("create", m, a)
  BY DEF Meant
<1>4. \A c \in Columns(t) \ DOMAIN m.set : c \in UserOptional
  <2>1. CASE t = "users"
    BY <2>1, ColumnsOf DEF Check, UserCheck
  <2>2. CASE t = "posts"
    BY <2>2, ColumnsOf DEF Check, PostCheck
  <2>3. CASE t = "tags"
    BY <2>3, ColumnsOf DEF Check, TagCheck
  <2>4. QED
    BY <2>1, <2>2, <2>3 DEF Tables
<1> HIDE DEF blank, set
<1>5. ASSUME NEW c \in Columns(t) PROVE (IF c \in DOMAIN a.col THEN a.col[c] ELSE blank[c]) = set[c]
  <2>1. CASE c \in DOMAIN a.col
    BY <1>2, <1>3, <2>1 DEF ColumnsMeant
  <2>2. CASE c \notin DOMAIN a.col /\ c \in DOMAIN m.set
    BY <1>1, <1>2, <1>3, <2>2, ColumnClasses DEF ColumnsMeant
  <2>3. CASE c \notin DOMAIN a.col /\ c \notin DOMAIN m.set
    BY <1>1, <1>2, <1>4, <2>3
  <2>4. QED
    BY <2>1, <2>2, <2>3
<1>6. RowAsked(a, blank) = set
  BY <1>1, <1>2, <1>5 DEF RowAsked
<1>7. QED
  BY <1>6 DEF blank, set

LEMMA AddedSet ==
  ASSUME NEW S, NEW x, NEW y, NEW z
  PROVE  [[all |-> x, removed |-> y, added |-> z] EXCEPT !.added = S] = [all |-> x, removed |-> y, added |-> S]
OBVIOUS
LEMMA OnlyAdded == ASSUME NEW S PROVE [NoChange EXCEPT !.added = S] = [all |-> FALSE, removed |-> {}, added |-> S]
<1>1. NoChange = [all |-> FALSE, removed |-> {}, added |-> {}]
  BY DEF NoChange
<1>2. QED
  BY AddedSet, <1>1, Zenon

\* The edges of a create are those of its mutation, from which nothing is cleared
\* or removed.
CreateParts(s, t, m) ==
  /\ s.table = t
  /\ t = "users" => /\ s.own = EdgeChange(m, "pinned_post") /\ s.others = EdgeChange(m, "posts")
                    /\ s.key = "user_posts" /\ s.joined = EdgeChange(m, "tags")
  /\ t = "posts" => /\ s.own = EdgeChange(m, "owner") /\ s.others = EdgeChange(m, "pinners")
                    /\ s.key = "user_pinned_post" /\ s.joined = NoChange
  /\ t = "tags" => /\ s.own = NoChange /\ s.others = NoChange /\ s.joined = EdgeChange(m, "users")
                   /\ s.key = NoKey
  /\ s.own.all = FALSE /\ s.joined.all = FALSE /\ s.joined.removed = {}

LEMMA CreateEdges ==
  ASSUME NEW t \in Tables, NEW m, NEW a, Meant(t, "create", m, a)
  PROVE  CreateParts(CreateSpec(t, m), t, m)
<1>1. m.gone = {} /\ DOMAIN m.removed = {}
  BY DEF Meant, EdgesMeant
<1>2. ASSUME NEW e
      PROVE  /\ [NoChange EXCEPT !.added = IDs(m, e)] = EdgeChange(m, e)
             /\ EdgeChange(m, e).all = FALSE /\ EdgeChange(m, e).removed = {}
  <2>1. (e \in m.gone) = FALSE /\ RemovedIDs(m, e) = {}
    BY <1>1 DEF RemovedIDs
  <2>2. EdgeChange(m, e) = [all |-> FALSE, removed |-> {}, added |-> IDs(m, e)]
    BY <2>1 DEF EdgeChange
  <2>3. [NoChange EXCEPT !.added = IDs(m, e)] = [all |-> FALSE, removed |-> {}, added |-> IDs(m, e)]
    BY OnlyAdded
  <2>4. QED
    BY <2>2, <2>3
<1>3. \A e : EdgeChange(m, e).all = FALSE /\ EdgeChange(m, e).removed = {}
  BY <1>2
<1>4. CASE t = "users"
  BY <1>2, <1>3, <1>4 DEF CreateSpec, UserCreateSpec, CreateParts
<1>5. CASE t = "posts"
  BY <1>2, <1>3, <1>5, NoChangeFacts DEF CreateSpec, PostCreateSpec, CreateParts
<1>6. CASE t = "tags"
  BY <1>2, <1>3, <1>6, NoChangeFacts DEF CreateSpec, TagCreateSpec, CreateParts
<1>7. QED
  BY <1>4, <1>5, <1>6 DEF Tables

\* Row after row, as Promise!Fulfilled makes them.
MadeNext(e, t, l, told, k) == Promise!AsAsked(Promise!WithBlank(e, t, l + k), t, {l + k}, told[k])
MadeUpTo(g, d, t, l, told, n) ==
  g = [k \in 0 .. n |-> IF k = 0 THEN d ELSE MadeNext(g[k - 1], t, l, told, k)]
Made(d, t, l, told) == CHOOSE g : MadeUpTo(g, d, t, l, told, Len(told))

LEMMA MadeExists ==
  ASSUME NEW d, NEW t, NEW l, NEW told, NEW N \in Nat
  PROVE  \E g : MadeUpTo(g, d, t, l, told, N)
<1> DEFINE Bad == {x \in Nat : ~ \E g : MadeUpTo(g, d, t, l, told, x)}
<1> SUFFICES ASSUME N \in Bad PROVE FALSE
  OBVIOUS
<1>1. PICK n \in Bad : \A m \in Bad : n =< m
  <2>1. Bad \in SUBSET Nat /\ Bad # {}
    OBVIOUS
  <2> HIDE DEF Bad
  <2>2. QED
    BY <2>1, LeastNumber
<1>2. n # 0 /\ n \in Nat /\ n - 1 \in Nat
  <2>1. MadeUpTo([k \in 0 .. 0 |-> d], d, t, l, told, 0)
    BY DEF MadeUpTo
  <2>2. n # 0 /\ n \in Nat
    BY <2>1
  <2>3. QED
    BY <2>2
<1>3. n - 1 \notin Bad
  <2> HIDE DEF Bad
  <2>1. ~ (n =< n - 1)
    BY <1>2
  <2>2. QED
    BY <2>1, <1>1
<1>4. PICK g : MadeUpTo(g, d, t, l, told, n - 1)
  BY <1>2, <1>3
<1> DEFINE h == [k \in 0 .. n |-> IF k = n THEN MadeNext(g[n - 1], t, l, told, n) ELSE g[k]]
<1> HIDE DEF Bad
<1>5. \A k \in 0 .. n - 1 : h[k] = g[k] /\ g[k] = IF k = 0 THEN d ELSE MadeNext(g[k - 1], t, l, told, k)
  BY <1>2, <1>4 DEF MadeUpTo
<1>6. ASSUME NEW k \in 0 .. n
      PROVE  h[k] = IF k = 0 THEN d ELSE MadeNext(h[k - 1], t, l, told, k)
  <2>1. CASE k = n
    <3>1. h[n] = MadeNext(g[n - 1], t, l, told, n)
      BY <1>2
    <3>2. h[n - 1] = g[n - 1]
      BY <1>2, <1>5
    <3>3. QED
      BY <2>1, <3>1, <3>2, <1>2
  <2>2. CASE k # n
    <3>1. k \in 0 .. n - 1 /\ (k # 0 => k - 1 \in 0 .. n - 1)
      BY <2>2, <1>2
    <3>2. QED
      BY <3>1, <1>5
  <2>3. QED
    BY <2>1, <2>2
<1>7. MadeUpTo(h, d, t, l, told, n)
  BY <1>6 DEF MadeUpTo
<1>8. QED
  BY <1>2, <1>7 DEF Bad

\* The promise makes the new rows one after the other.
LEMMA MadeStep ==
  ASSUME NEW d, NEW t, NEW l, NEW told, Len(told) \in Nat
  PROVE  LET g == Made(d, t, l, told) IN
         \A k \in 0 .. Len(told) : g[k] = IF k = 0 THEN d ELSE MadeNext(g[k - 1], t, l, told, k)
<1> DEFINE g == Made(d, t, l, told)
<1>1. MadeUpTo(g, d, t, l, told, Len(told))
  BY MadeExists DEF Made
<1> HIDE DEF g
<1>2. \A k \in 0 .. Len(told) : g[k] = IF k = 0 THEN d ELSE MadeNext(g[k - 1], t, l, told, k)
  BY <1>1 DEF MadeUpTo
<1>3. QED
  BY <1>2 DEF g

LEMMA FulfilledMade ==
  ASSUME builder.how = "create"
  PROVE  Promise!Fulfilled = Made(db, builder.table, last[builder.table], asked)[Len(asked)]
BY DEF Promise!Fulfilled, Made, MadeUpTo, MadeNext

-----------------------------------------------------------------------------
(* A create that succeeds leaves what was asked *)

\* A database with one more row, written as a create writes it.
RowWritten(e, w, t, s, i) ==
  /\ Shaped(w)
  /\ \A u \in Tables : w.rows[u] = IF u = t THEN With(e.rows[t], i, s.set) ELSE e.rows[u]
  /\ \A k \in DOMAIN KeyTarget :
       w.fk[k] = IF t \in DOMAIN OwnKey /\ k = OwnKey[t] THEN With(e.fk[k], i, OwnID(s))
                 ELSE [j \in DOMAIN e.fk[k] |-> IF j \in s.others.added THEN i ELSE e.fk[k][j]]
  /\ \A j \in s.joined.added : Exists(e, Partner(t), j)
  /\ \A x, y : Pair(t, x, y) \in w.user_tags <=> Pair(t, x, y) \in e.user_tags \/ (x = i /\ y \in s.joined.added)
  /\ \A p \in w.user_tags : Exists(w, "users", p[1]) /\ Exists(w, "tags", p[2])

\* What was asked of a new row's edge can only be ids to add.
LEMMA CreateChange ==
  ASSUME NEW t, NEW m, NEW a, Meant(t, "create", m, a), NEW e
  PROVE  m.gone = {} /\ RemovedIDs(m, e) = {} /\ ~EdgeChange(m, e).all
         /\ EdgeChange(m, e).removed = {} /\ EdgeChange(m, e).added = IDs(m, e)
<1>1. m.gone = {} /\ DOMAIN m.removed = {}
  BY DEF Meant, EdgesMeant
<1>2. RemovedIDs(m, e) = {}
  BY <1>1 DEF RemovedIDs
<1>3. QED
  BY <1>1, <1>2, ChangeFacts

KeyMade(b, w, a, k, i) == w.fk[k] = [j \in DOMAIN b.fk[k] |-> KeyAsked(b, {i}, a, k, j)]

\* The keys of the row a create writes, and of the rows it links.
LEMMA KeysMade ==
  ASSUME NEW t \in Tables, NEW m, NEW a, Meant(t, "create", m, a), NEW s, s = CreateSpec(t, m),
         NEW e, NEW b, NEW w, NEW i, NEW k \in DOMAIN KeyTarget, RowWritten(e, w, t, s, i),
         b.fk[k] = IF t \in DOMAIN OwnKey /\ k = OwnKey[t] THEN With(e.fk[k], i, 0) ELSE e.fk[k]
  PROVE  KeyMade(b, w, a, k, i)
<1> DEFINE asked_(j) == KeyAsked(b, {i}, a, k, j)
<1>p. CreateParts(s, t, m)
  BY CreateEdges
<1>0. OneOf({i}) = i
  BY DEF OneOf
<1>1. CASE t \in DOMAIN OwnKey /\ k = OwnKey[t]
  <2>1. w.fk[k] = With(e.fk[k], i, OwnID(s)) /\ b.fk[k] = With(e.fk[k], i, 0)
    BY <1>1 DEF RowWritten
  <2>2. s.own = EdgeChange(m, OwnEdge[t]) /\ s.own.all = FALSE
    BY <1>1, <1>p, KeyFacts, EdgesOf DEF CreateParts
  <2>3. DOMAIN w.fk[k] = DOMAIN b.fk[k] /\ w.fk[k] = [j \in DOMAIN w.fk[k] |-> w.fk[k][j]]
    BY <2>1 DEF With
  <2>4. ASSUME NEW j \in DOMAIN b.fk[k] PROVE w.fk[k][j] = asked_(j)
    <3>1. asked_(j) = Owned(s, j, {i}, b.fk[k][j])
      BY <1>1, <2>2, OwnAsAsked
    <3> HIDE DEF asked_
    <3>2. CASE j = i
      <4>1. w.fk[k][j] = OwnID(s) /\ b.fk[k][j] = 0
        BY <2>1, <3>2 DEF With
      <4>2. Owned(s, j, {i}, 0) = OwnID(s)
        BY <2>2, <3>2 DEF Owned, OwnID, NoId
      <4>3. QED
        BY <3>1, <4>1, <4>2
    <3>3. CASE j # i
      <4>1. w.fk[k][j] = b.fk[k][j]
        BY <2>1, <3>3 DEF With
      <4>2. Owned(s, j, {i}, b.fk[k][j]) = b.fk[k][j]
        BY <3>3 DEF Owned
      <4>3. QED
        BY <3>1, <4>1, <4>2
    <3>4. QED
      BY <3>2, <3>3
  <2> HIDE DEF asked_
  <2>5. w.fk[k] = [j \in DOMAIN b.fk[k] |-> asked_(j)]
    BY <2>3, <2>4
  <2>6. QED
    BY <2>5 DEF asked_, KeyMade
<1>2. CASE t \in DOMAIN OwnKey /\ k # OwnKey[t]
  <2>1. w.fk[k] = [j \in DOMAIN e.fk[k] |-> IF j \in s.others.added THEN i ELSE e.fk[k][j]] /\ b.fk[k] = e.fk[k]
    BY <1>2 DEF RowWritten
  <2>2. s.others = EdgeChange(m, KeyEdge[t])
    BY <1>2, <1>p, KeyFacts, EdgesOf DEF CreateParts
  <2>3. s.others.added = IDs(m, KeyEdge[t]) /\ m.gone = {} /\ RemovedIDs(m, KeyEdge[t]) = {}
    BY <2>2, CreateChange
  <2>4. ASSUME NEW j PROVE asked_(j) = IF j \in s.others.added THEN i ELSE b.fk[k][j]
    <3>1. asked_(j) = IF {i} # {} /\ j \in IDs(m, KeyEdge[t]) THEN OneOf({i})
                      ELSE IF b.fk[k][j] \in {i} /\ (KeyEdge[t] \in m.gone \/ (j \in RemovedIDs(m, KeyEdge[t]) /\ j \notin IDs(m, KeyEdge[t]))) THEN 0
                      ELSE b.fk[k][j]
      BY <1>2, OtherAsked
    <3> HIDE DEF asked_
    <3>2. QED
      BY <1>0, <2>3, <3>1
  <2> HIDE DEF asked_
  <2>5. w.fk[k] = [j \in DOMAIN b.fk[k] |-> asked_(j)]
    BY <2>1, <2>4
  <2>6. QED
    BY <2>5 DEF asked_, KeyMade
<1>3. CASE t \notin DOMAIN OwnKey
  <2>1. t = "tags"
    BY <1>3, KeyFacts DEF Tables
  <2>2. w.fk[k] = [j \in DOMAIN e.fk[k] |-> IF j \in s.others.added THEN i ELSE e.fk[k][j]] /\ b.fk[k] = e.fk[k]
    BY <1>3 DEF RowWritten
  <2>3. s.others.added = {}
    BY <2>1, <1>p, NoChangeFacts DEF CreateParts
  <2>4. \A j : asked_(j) = b.fk[k][j]
    BY <2>1, TagsKeepKeys
  <2> HIDE DEF asked_
  <2>5. w.fk[k] = [j \in DOMAIN b.fk[k] |-> asked_(j)]
    BY <2>2, <2>3, <2>4
  <2>6. QED
    BY <2>5 DEF asked_, KeyMade
<1>4. QED
  BY <1>1, <1>2, <1>3

\* The blank row, and what was asked over it, is what a create writes.
LEMMA RowMade ==
  ASSUME NEW t \in Tables, NEW m, NEW a, Meant(t, "create", m, a), Check(t, m), NEW s, s = CreateSpec(t, m),
         NEW e, Shaped(e), NEW w, NEW i, RowWritten(e, w, t, s, i)
  PROVE  Promise!AsAsked(Promise!WithBlank(e, t, i), t, {i}, a) = w
<1> DEFINE b == Promise!WithBlank(e, t, i)
           v == Promise!AsAsked(b, t, {i}, a)
<1>1. /\ Shaped(b) /\ b.user_tags = e.user_tags
      /\ \A u \in Tables : b.rows[u] = IF u = t THEN With(e.rows[t], i, BlankRows[t]) ELSE e.rows[u]
      /\ \A k \in DOMAIN KeyTarget :
           b.fk[k] = IF t \in DOMAIN OwnKey /\ k = OwnKey[t] THEN With(e.fk[k], i, 0) ELSE e.fk[k]
  BY BlankFacts
<1> HIDE DEF b
<1>2. AsAskedIs(b, v, t, {i}, a)
  BY <1>1, AsAskedFacts
<1> HIDE DEF v
<1>p. CreateParts(s, t, m)
  BY CreateEdges
<1>3. RowAsked(a, BlankRows[t]) = s.set
  BY NewRow
<1>4. ASSUME NEW u \in Tables
      PROVE  w.rows[u] =
               IF u = t THEN [x \in DOMAIN b.rows[u] |-> IF x \in {i} THEN RowAsked(a, b.rows[u][x]) ELSE b.rows[u][x]]
               ELSE b.rows[u]
  <2>1. w.rows[u] = IF u = t THEN With(e.rows[t], i, s.set) ELSE e.rows[u]
    BY DEF RowWritten
  <2>2. b.rows[u] = IF u = t THEN With(e.rows[t], i, BlankRows[t]) ELSE e.rows[u]
    BY <1>1
  <2>3. CASE u = t
    BY <1>3, <2>1, <2>2, <2>3 DEF With
  <2>4. QED
    BY <2>1, <2>2, <2>3
<1>5. ASSUME NEW k \in DOMAIN KeyTarget PROVE w.fk[k] = [j \in DOMAIN b.fk[k] |-> KeyAsked(b, {i}, a, k, j)]
  <2>0. RowWritten(e, w, t, s, i) /\ Meant(t, "create", m, a) /\ s = CreateSpec(t, m)
    OBVIOUS
  <2>1. b.fk[k] = IF t \in DOMAIN OwnKey /\ k = OwnKey[t] THEN With(e.fk[k], i, 0) ELSE e.fk[k]
    BY <1>1
  <2>2. KeyMade(b, w, a, k, i)
    BY ONLY <2>0, <2>1, KeysMade
  <2>3. QED
    BY <2>2 DEF KeyMade
<1>6. \A u \in Tables : DOMAIN w.rows[u] = DOMAIN b.rows[u]
  BY <1>1 DEF RowWritten, With
<1>7. \A p \in w.user_tags : p = <<p[1], p[2]>> /\ Exists(b, "users", p[1]) /\ Exists(b, "tags", p[2])
  <2>1. \A p \in w.user_tags : p = <<p[1], p[2]>>
    BY DEF RowWritten, Shaped
  <2>2. "users" \in Tables /\ "tags" \in Tables
    BY DEF Tables
  <2>3. QED
    BY <1>6, <2>1, <2>2 DEF RowWritten, Exists
<1>8. s.table = t /\ s.joined.all = FALSE /\ s.joined.removed = {}
  BY <1>p DEF CreateParts
<1>9. ASSUME t \in {"users", "tags"} PROVE JoinWritten(b, w, s, {i})
  <2>1. \A j \in s.joined.added : Exists(b, Partner(s.table), j)
    <3>1. Partner(t) \in Tables /\ Partner(t) # t
      BY <1>9 DEF Partner, Tables
    <3>2. QED
      BY <3>1, <1>1, <1>8 DEF RowWritten, Exists
  <2>2. \A x, y : Pair(t, x, y) \in w.user_tags <=> Pair(t, x, y) \in b.user_tags \/ (x = i /\ y \in s.joined.added)
    BY <1>1 DEF RowWritten
  <2>3. QED
    BY <1>8, <2>1, <2>2 DEF JoinWritten
<1>10. CASE t = "users"
  <2>1. "tags" \in ManyEdges /\ s.joined = EdgeChange(m, "tags")
    BY <1>10, <1>p DEF ManyEdges, CreateParts
  <2>2. w.user_tags = {p \in (DOMAIN b.rows["users"]) \X (DOMAIN b.rows["tags"]) :
                         PairAsked(b, {i}, a, "tags", p[1], p[2], p \in b.user_tags)}
    BY <1>7, <1>8, <1>9, <1>10, <2>1, JoinAsAsked
  <2>3. AsAskedIs(b, w, t, {i}, a)
    BY <1>4, <1>5, <1>10, <2>2 DEF AsAskedIs, RowWritten
  <2>4. QED
    BY <1>2, <2>3, AskedUnique DEF v, b
<1>11. CASE t = "tags"
  <2>1. "users" \in ManyEdges /\ s.joined = EdgeChange(m, "users")
    BY <1>11, <1>p DEF ManyEdges, CreateParts
  <2>2. w.user_tags = {p \in (DOMAIN b.rows["users"]) \X (DOMAIN b.rows["tags"]) :
                         PairAsked(b, {i}, a, "users", p[2], p[1], p \in b.user_tags)}
    BY <1>7, <1>8, <1>9, <1>11, <2>1, JoinAsAsked
  <2>3. AsAskedIs(b, w, t, {i}, a)
    BY <1>4, <1>5, <1>11, <2>2 DEF AsAskedIs, RowWritten
  <2>4. QED
    BY <1>2, <2>3, AskedUnique DEF v, b
<1>12. CASE t = "posts"
  <2>1. s.joined.added = {}
    BY <1>12, <1>p, NoChangeFacts DEF CreateParts
  <2>2. \A p : p = <<p[1], p[2]>> => (p \in w.user_tags <=> p \in b.user_tags)
    <3>1. \A x, y : <<y, x>> \in w.user_tags <=> <<y, x>> \in b.user_tags
      BY <1>1, <1>12, <2>1 DEF RowWritten, Pair
    <3>2. QED
      BY <3>1
  <2>3. w.user_tags = b.user_tags
    BY <1>1, <2>2 DEF Shaped, RowWritten
  <2>4. AsAskedIs(b, w, t, {i}, a)
    BY <1>4, <1>5, <1>12, <2>3 DEF AsAskedIs, RowWritten
  <2>5. QED
    BY <1>2, <2>4, AskedUnique DEF v, b
<1>13. QED
  BY <1>10, <1>11, <1>12 DEF Tables

\* The pairs that the first n new rows join, and the database with these rows,
\* in which the rows at the other end have the keys given.
PairsUpTo(d, t, l, specs, n) ==
  d.user_tags \cup UNION {{Pair(t, l + k, j) : j \in specs[k].joined.added} : k \in 1 .. n}
Partly(d, t, l, specs, keys, n) ==
  LET new == l + 1 .. l + n IN
  [rows |-> [u \in Tables |->
     IF u = t THEN [i \in DOMAIN d.rows[t] \cup new |-> IF i \in new THEN specs[i - l].set ELSE d.rows[t][i]]
     ELSE d.rows[u]],
   fk |-> [k \in DOMAIN KeyTarget |->
     IF t \in DOMAIN OwnKey /\ k = OwnKey[t]
       THEN [i \in DOMAIN d.fk[k] \cup new |-> IF i \in new THEN OwnID(specs[i - l]) ELSE d.fk[k][i]]
     ELSE keys[k]],
   user_tags |-> PairsUpTo(d, t, l, specs, n)]

\* Specifications of new rows of a table, that the database has everything for.
BulkOK(d, t, l, specs) ==
  /\ DbOK(d) /\ t \in Tables /\ l \in Nat
  /\ Len(specs) \in Nat \ {0} /\ DOMAIN specs = 1 .. Len(specs)
  /\ \A k \in 1 .. Len(specs) :
       /\ NewSpec(specs[k]) /\ specs[k].table = t /\ OwnTargetExists(d, specs[k])
       /\ \A j \in specs[k].joined.added : Exists(d, Partner(t), j)
KeysShaped(keys) == \A k \in DOMAIN KeyTarget : keys[k] = [j \in DOMAIN keys[k] |-> keys[k][j]]

PartlyIs(w, d, t, l, specs, keys, n) ==
  LET new == l + 1 .. l + n IN
  /\ Shaped(w)
  /\ w.rows[t] = [i \in DOMAIN d.rows[t] \cup new |-> IF i \in new THEN specs[i - l].set ELSE d.rows[t][i]]
  /\ \A u \in Tables \ {t} : w.rows[u] = d.rows[u]
  /\ \A k \in DOMAIN KeyTarget : w.fk[k] =
       IF t \in DOMAIN OwnKey /\ k = OwnKey[t]
         THEN [i \in DOMAIN d.fk[k] \cup new |-> IF i \in new THEN OwnID(specs[i - l]) ELSE d.fk[k][i]]
       ELSE keys[k]
  /\ w.user_tags = PairsUpTo(d, t, l, specs, n)

\* The pairs there were and those that the first n new rows bring.
LEMMA PairsFacts ==
  ASSUME NEW d, NEW t, NEW l, NEW specs, NEW n
  PROVE  \A p : p \in PairsUpTo(d, t, l, specs, n) <=>
           p \in d.user_tags \/ \E k \in 1 .. n : \E j \in specs[k].joined.added : p = Pair(t, l + k, j)
BY DEF PairsUpTo

\* What the edges of the first n new rows leave, part by part.
LEMMA PartlyFacts ==
  ASSUME NEW d, Shaped(d), NEW t \in Tables, NEW l, NEW specs, NEW keys, KeysShaped(keys), NEW n
  PROVE  PartlyIs(Partly(d, t, l, specs, keys, n), d, t, l, specs, keys, n)
<1> DEFINE w == Partly(d, t, l, specs, keys, n)
<1>1. /\ w \in [rows : {w.rows}, fk : {w.fk}, user_tags : {w.user_tags}]
      /\ DOMAIN w.rows = Tables /\ DOMAIN w.fk = DOMAIN KeyTarget
      /\ w.rows = [u \in Tables |-> w.rows[u]] /\ w.fk = [k \in DOMAIN KeyTarget |-> w.fk[k]]
      /\ w.user_tags = PairsUpTo(d, t, l, specs, n)
  BY DEF Partly
<1>2. /\ w.rows[t] = [i \in DOMAIN d.rows[t] \cup (l + 1 .. l + n) |->
                        IF i \in l + 1 .. l + n THEN specs[i - l].set ELSE d.rows[t][i]]
      /\ \A u \in Tables \ {t} : w.rows[u] = d.rows[u]
  BY DEF Partly
<1>3. \A k \in DOMAIN KeyTarget : w.fk[k] =
        IF t \in DOMAIN OwnKey /\ k = OwnKey[t]
          THEN [i \in DOMAIN d.fk[k] \cup (l + 1 .. l + n) |->
                  IF i \in l + 1 .. l + n THEN OwnID(specs[i - l]) ELSE d.fk[k][i]]
        ELSE keys[k]
  BY DEF Partly
<1> HIDE DEF w
<1>4. \A u \in Tables : w.rows[u] = [i \in DOMAIN w.rows[u] |-> w.rows[u][i]]
  <2>1. w.rows[t] = [i \in DOMAIN w.rows[t] |-> w.rows[t][i]]
    BY <1>2
  <2>2. \A u \in Tables \ {t} : w.rows[u] = [i \in DOMAIN w.rows[u] |-> w.rows[u][i]]
    BY <1>2 DEF Shaped
  <2>3. QED
    BY <2>1, <2>2
<1>5. ASSUME NEW k \in DOMAIN KeyTarget PROVE w.fk[k] = [i \in DOMAIN w.fk[k] |-> w.fk[k][i]]
  <2>1. CASE t \in DOMAIN OwnKey /\ k = OwnKey[t]
    <3>1. w.fk[k] = [i \in DOMAIN d.fk[k] \cup (l + 1 .. l + n) |->
                  IF i \in l + 1 .. l + n THEN OwnID(specs[i - l]) ELSE d.fk[k][i]]
      BY <1>3, <2>1
    <3>2. QED
      BY <3>1
  <2>2. CASE ~(t \in DOMAIN OwnKey /\ k = OwnKey[t])
    BY <1>3, <2>2 DEF KeysShaped
  <2>3. QED
    BY <2>1, <2>2
<1>6. \A p \in w.user_tags : p = <<p[1], p[2]>>
  <2>1. \A x, y : Pair(t, x, y) = <<Pair(t, x, y)[1], Pair(t, x, y)[2]>>
    BY DEF Pair
  <2>2. QED
    BY <1>1, <2>1, PairsFacts DEF Shaped
<1>7. Shaped(w)
  BY <1>1, <1>4, <1>5, <1>6 DEF Shaped
<1>8. QED
  BY <1>1, <1>2, <1>3, <1>7 DEF PartlyIs, w

\* The next row.
LEMMA PartlyStep ==
  ASSUME NEW d, NEW t, NEW l, NEW specs, BulkOK(d, t, l, specs), NEW n \in 1 .. Len(specs), NEW keys, NEW now,
         \A k \in DOMAIN KeyTarget : (t \in DOMAIN OwnKey => k # OwnKey[t]) =>
           now[k] = [j \in DOMAIN keys[k] |-> IF j \in specs[n].others.added THEN l + n ELSE keys[k][j]],
         NEW e, PartlyIs(e, d, t, l, specs, keys, n - 1), NEW w, PartlyIs(w, d, t, l, specs, now, n)
  PROVE  RowWritten(e, w, t, specs[n], l + n)
<1> DEFINE s == specs[n]
           i == l + n
           old == l + 1 .. l + (n - 1)
           new == l + 1 .. l + n
<1>1. /\ t \in Tables /\ n \in Nat /\ l \in Nat /\ new = old \cup {i} /\ i \notin old /\ i \in new /\ i - l = n
  BY DEF BulkOK
<1>2. /\ w.rows[t] = [x \in DOMAIN d.rows[t] \cup new |-> IF x \in new THEN specs[x - l].set ELSE d.rows[t][x]]
      /\ e.rows[t] = [x \in DOMAIN d.rows[t] \cup old |-> IF x \in old THEN specs[x - l].set ELSE d.rows[t][x]]
      /\ \A u \in Tables \ {t} : w.rows[u] = d.rows[u] /\ e.rows[u] = d.rows[u]
      /\ w.user_tags = PairsUpTo(d, t, l, specs, n) /\ e.user_tags = PairsUpTo(d, t, l, specs, n - 1)
      /\ Shaped(w)
  BY DEF PartlyIs
<1>3. ASSUME t \in DOMAIN OwnKey
      PROVE  /\ w.fk[OwnKey[t]] = [x \in DOMAIN d.fk[OwnKey[t]] \cup new |->
                                     IF x \in new THEN OwnID(specs[x - l]) ELSE d.fk[OwnKey[t]][x]]
             /\ e.fk[OwnKey[t]] = [x \in DOMAIN d.fk[OwnKey[t]] \cup old |->
                                     IF x \in old THEN OwnID(specs[x - l]) ELSE d.fk[OwnKey[t]][x]]
  BY <1>3, KeyFacts DEF PartlyIs
<1>4. \A k \in DOMAIN KeyTarget : ~(t \in DOMAIN OwnKey /\ k = OwnKey[t]) => w.fk[k] = now[k] /\ e.fk[k] = keys[k]
  BY DEF PartlyIs
<1>5. \A k \in 1 .. Len(specs) : \A j \in specs[k].joined.added : Exists(d, Partner(t), j)
  BY DEF BulkOK
<1>6. Partner(t) \in Tables
  BY DEF Partner, Tables
<1> HIDE DEF old, new
<1>7. w.rows[t] = With(e.rows[t], i, s.set)
  <2>1. DOMAIN w.rows[t] = DOMAIN e.rows[t] \cup {i}
    BY <1>1, <1>2
  <2>2. ASSUME NEW x \in DOMAIN w.rows[t] PROVE w.rows[t][x] = IF x = i THEN s.set ELSE e.rows[t][x]
    <3>1. CASE x = i
      BY <1>1, <1>2, <3>1
    <3>2. CASE x # i
      BY <1>1, <1>2, <3>2
    <3>3. QED
      BY <3>1, <3>2
  <2>3. w.rows[t] = [x \in DOMAIN w.rows[t] |-> w.rows[t][x]]
    BY <1>2
  <2>4. QED
    BY <2>1, <2>2, <2>3 DEF With
<1>8. ASSUME NEW k \in DOMAIN KeyTarget
      PROVE  w.fk[k] = IF t \in DOMAIN OwnKey /\ k = OwnKey[t] THEN With(e.fk[k], i, OwnID(s))
                       ELSE [j \in DOMAIN e.fk[k] |-> IF j \in s.others.added THEN i ELSE e.fk[k][j]]
  <2>1. CASE t \in DOMAIN OwnKey /\ k = OwnKey[t]
    <3>1. /\ w.fk[k] = [x \in DOMAIN d.fk[k] \cup new |-> IF x \in new THEN OwnID(specs[x - l]) ELSE d.fk[k][x]]
          /\ e.fk[k] = [x \in DOMAIN d.fk[k] \cup old |-> IF x \in old THEN OwnID(specs[x - l]) ELSE d.fk[k][x]]
      BY <1>3, <2>1
    <3>2. DOMAIN w.fk[k] = DOMAIN e.fk[k] \cup {i} /\ w.fk[k] = [x \in DOMAIN w.fk[k] |-> w.fk[k][x]]
      BY <1>1, <3>1
    <3>3. ASSUME NEW x \in DOMAIN w.fk[k] PROVE w.fk[k][x] = IF x = i THEN OwnID(s) ELSE e.fk[k][x]
      <4>1. CASE x = i
        BY <1>1, <3>1, <4>1
      <4>2. CASE x # i
        BY <1>1, <3>1, <4>2
      <4>3. QED
        BY <4>1, <4>2
    <3>4. w.fk[k] = With(e.fk[k], i, OwnID(s))
      BY <3>2, <3>3 DEF With
    <3>5. QED
      BY <2>1, <3>4
  <2>2. CASE ~(t \in DOMAIN OwnKey /\ k = OwnKey[t])
    BY <1>4, <2>2
  <2>3. QED
    BY <2>1, <2>2
<1>9. \A u \in Tables : DOMAIN d.rows[u] \subseteq DOMAIN w.rows[u] /\ DOMAIN d.rows[u] \subseteq DOMAIN e.rows[u]
  BY <1>2
<1>10. \A j \in s.joined.added : Exists(e, Partner(t), j)
  BY <1>5, <1>6, <1>9 DEF Exists
<1>11. ASSUME NEW x, NEW y
       PROVE  Pair(t, x, y) \in w.user_tags <=> Pair(t, x, y) \in e.user_tags \/ (x = i /\ y \in s.joined.added)
  <2>1. \A m : Pair(t, x, y) \in PairsUpTo(d, t, l, specs, m) <=>
          Pair(t, x, y) \in d.user_tags \/ \E k \in 1 .. m : y \in specs[k].joined.added /\ x = l + k
    BY PairsFacts, PairsDiffer
  <2>2. \A k : k \in 1 .. n <=> k \in 1 .. n - 1 \/ k = n
    BY <1>1
  <2>3. QED
    BY <1>2, <2>1, <2>2
<1>12. ASSUME NEW p \in w.user_tags PROVE Exists(w, "users", p[1]) /\ Exists(w, "tags", p[2])
  <2>1. CASE p \in d.user_tags
    <3>1. Exists(d, "users", p[1]) /\ Exists(d, "tags", p[2])
      BY <2>1 DEF BulkOK, DbOK, ForeignKeysHold
    <3>2. QED
      BY <3>1, <1>9 DEF Exists, Tables
  <2>2. CASE p \notin d.user_tags
    <3>1. PICK k \in 1 .. n : \E j \in specs[k].joined.added : p = Pair(t, l + k, j)
      BY <1>2, <2>2, PairsFacts
    <3>2. PICK j \in specs[k].joined.added : p = Pair(t, l + k, j)
      BY <3>1
    <3>3. k \in 1 .. Len(specs)
      BY DEF BulkOK
    <3>4. l + k \in new
      BY <1>1 DEF new
    <3>5. Exists(w, t, l + k)
      BY <1>2, <3>4 DEF Exists
    <3>6. Exists(w, Partner(t), j)
      BY <1>5, <1>6, <1>9, <3>3 DEF Exists
    <3>7. t = "posts" => specs[k].joined = NoChange
      BY <3>3 DEF BulkOK, NewSpec, SpecOK
    <3>8. t # "posts"
      BY <3>2, <3>7, NoChangeFacts
    <3>9. CASE t = "users"
      BY <3>2, <3>5, <3>6, <3>9 DEF Pair, Partner
    <3>10. CASE t = "tags"
      BY <3>2, <3>5, <3>6, <3>10 DEF Pair, Partner
    <3>11. QED
      BY <1>1, <3>8, <3>9, <3>10 DEF Tables
  <2>3. QED
    BY <2>1, <2>2
<1>13. \A u \in Tables : w.rows[u] = IF u = t THEN With(e.rows[t], i, s.set) ELSE e.rows[u]
  BY <1>2, <1>7
<1> HIDE DEF s, i
<1>14. RowWritten(e, w, t, s, i)
  BY <1>2, <1>8, <1>10, <1>11, <1>12, <1>13 DEF RowWritten
<1>15. QED
  BY <1>14 DEF s, i

\* What the first two statements of a bulk leave.
Joined(d, l, specs) == JoinAll(InsertRows(d, l + 1, specs), l + 1, specs)
LEMMA JoinedFacts ==
  ASSUME NEW d, NEW t, NEW l, NEW specs, BulkOK(d, t, l, specs)
  PROVE  LET p == Joined(d, l, specs) IN
         DbOK(p) /\ PartlyIs(p, d, t, l, specs, d.fk, Len(specs))
<1> DEFINE N == Len(specs)
           first == l + 1
           r == InsertRows(d, first, specs)
           p == JoinAll(r, first, specs)
           new == l + 1 .. l + N
<1>1. /\ DbOK(d) /\ Shaped(d) /\ t \in Tables /\ l \in Nat /\ first \in Nat
      /\ Len(specs) \in Nat \ {0} /\ DOMAIN specs = 1 .. Len(specs) /\ first .. first + Len(specs) - 1 = new
      /\ 1 \in DOMAIN specs /\ specs[1].table = t /\ specs[1].table \in Tables
      /\ \A k \in DOMAIN specs : NewSpec(specs[k]) /\ specs[k].table = t /\ OwnTargetExists(d, specs[k])
  BY DEF BulkOK, DbOK
<1> HIDE DEF N, first, new
<1>2. DbOK(r) /\ Grown(d, r, t, first .. first + Len(specs) - 1)
  BY <1>1, InsertRowsOK
<1>3. Inserted(d, r, specs[1].table, first, specs, first .. first + Len(specs) - 1)
  BY <1>1, InsertRowsFacts
<1> HIDE DEF r
<1>4. ASSUME NEW k \in DOMAIN specs
      PROVE  /\ SpecOK(specs[k]) /\ specs[k].table = t /\ first + k - 1 = l + k /\ first + k - 1 \in DOMAIN r.rows[t]
             /\ \A j \in specs[k].joined.added : Exists(r, Partner(t), j)
  <2>1. SpecOK(specs[k]) /\ specs[k].table = t
    BY <1>1 DEF NewSpec
  <2>2. k \in Nat /\ first + k - 1 = l + k /\ l + k \in new
    BY <1>1 DEF first, new, N
  <2>3. first + k - 1 \in DOMAIN r.rows[t]
    BY <1>1, <1>2, <2>2 DEF Grown
  <2>4. \A j \in specs[k].joined.added : Exists(d, Partner(t), j)
    BY <1>1 DEF BulkOK
  <2>5. \A u \in Tables : DOMAIN d.rows[u] \subseteq DOMAIN r.rows[u]
    BY <1>1, <1>2 DEF Grown
  <2>6. Partner(t) \in Tables
    BY DEF Partner, Tables
  <2>7. QED
    BY <2>1, <2>2, <2>3, <2>4, <2>5, <2>6 DEF Exists
<1>5. DbOK(p) /\ p.rows = r.rows /\ p.fk = r.fk
  <2>1. \A k \in DOMAIN specs :
          /\ SpecOK(specs[k]) /\ specs[k].table = t /\ first + k - 1 \in DOMAIN r.rows[t]
          /\ \A j \in specs[k].joined.added : Exists(r, Partner(t), j)
    BY <1>4
  <2>2. QED
    BY <1>2, <2>1, JoinAllOK
<1>6. p.user_tags = r.user_tags \cup UNION {AddJoin(r, {first + k - 1}, specs[k]).user_tags : k \in DOMAIN specs}
  BY DEF JoinAll
<1> HIDE DEF p
<1>7. p.user_tags = PairsUpTo(d, t, l, specs, Len(specs))
  <2>1. r.user_tags = d.user_tags
    BY <1>2 DEF Grown
  <2>2. ASSUME NEW k \in DOMAIN specs, NEW q
        PROVE  q \in AddJoin(r, {first + k - 1}, specs[k]).user_tags <=>
                 q \in d.user_tags \/ \E j \in specs[k].joined.added : q = Pair(t, l + k, j)
    <3>1. AddJoin(r, {first + k - 1}, specs[k]).user_tags =
            r.user_tags \cup {Pair(specs[k].table, i, j) : i \in {first + k - 1}, j \in specs[k].joined.added}
      BY <1>2, JoinFacts DEF DbOK
    <3>2. specs[k].table = t /\ first + k - 1 = l + k
      BY <1>4
    <3>3. QED
      BY <2>1, <3>1, <3>2
  <2>3. ASSUME NEW q PROVE q \in p.user_tags <=> q \in PairsUpTo(d, t, l, specs, Len(specs))
    <3>1. q \in p.user_tags <=>
            q \in d.user_tags \/ \E k \in DOMAIN specs : q \in AddJoin(r, {first + k - 1}, specs[k]).user_tags
      BY <1>6, <2>1
    <3>2. q \in p.user_tags <=>
            q \in d.user_tags \/ \E k \in DOMAIN specs : \E j \in specs[k].joined.added : q = Pair(t, l + k, j)
      BY <2>2, <3>1
    <3>3. QED
      BY <1>1, <3>2, PairsFacts
  <2>4. QED
    BY <2>3
<1>8. \A i : i - first + 1 = i - l \/ i \notin new
  BY <1>1 DEF first, new
<1>9. p.rows[t] = [i \in DOMAIN d.rows[t] \cup new |-> IF i \in new THEN specs[i - l].set ELSE d.rows[t][i]]
  <2>1. p.rows[t] = [i \in DOMAIN d.rows[t] \cup new |-> IF i \in new THEN specs[i - first + 1].set ELSE d.rows[t][i]]
    BY <1>1, <1>3, <1>5 DEF Inserted
  <2>2. QED
    BY <1>8, <2>1
<1>10. \A u \in Tables \ {t} : p.rows[u] = d.rows[u]
  BY <1>1, <1>3, <1>5 DEF Inserted
<1>11. ASSUME NEW k \in DOMAIN KeyTarget
       PROVE  p.fk[k] = IF t \in DOMAIN OwnKey /\ k = OwnKey[t]
                          THEN [i \in DOMAIN d.fk[k] \cup new |-> IF i \in new THEN OwnID(specs[i - l]) ELSE d.fk[k][i]]
                        ELSE d.fk[k]
  <2>1. Inserted(d, r, t, first, specs, new)
    BY <1>1, <1>3
  <2>2. r.fk[k] = IF t \in DOMAIN OwnKey /\ OwnKey[t] = k
                    THEN [i \in DOMAIN d.fk[k] \cup new |-> IF i \in new THEN OwnID(specs[i - first + 1]) ELSE d.fk[k][i]]
                  ELSE d.fk[k]
    BY <2>1 DEF Inserted
  <2>3. [i \in DOMAIN d.fk[k] \cup new |-> IF i \in new THEN OwnID(specs[i - first + 1]) ELSE d.fk[k][i]] =
        [i \in DOMAIN d.fk[k] \cup new |-> IF i \in new THEN OwnID(specs[i - l]) ELSE d.fk[k][i]]
    BY <1>8
  <2>4. p.fk[k] = r.fk[k]
    BY <1>5
  <2>5. QED
    BY <2>2, <2>3, <2>4
<1>12. Shaped(p)
  BY <1>5 DEF DbOK
<1>13. PartlyIs(p, d, t, l, specs, d.fk, Len(specs))
  BY <1>7, <1>9, <1>10, <1>11, <1>12 DEF PartlyIs, new, N
<1>14. QED
  BY <1>5, <1>13 DEF Joined, p, r, first

\* There is one such database.
LEMMA PartlyUnique ==
  ASSUME NEW d, NEW t, NEW l, NEW specs, NEW keys, NEW n, NEW v, PartlyIs(v, d, t, l, specs, keys, n),
         NEW w, PartlyIs(w, d, t, l, specs, keys, n)
  PROVE  v = w
<1>1. \A u \in Tables : v.rows[u] = w.rows[u]
  BY DEF PartlyIs
<1>2. ASSUME NEW k \in DOMAIN KeyTarget PROVE v.fk[k] = w.fk[k]
  BY DEF PartlyIs
<1>3. Shaped(v) /\ Shaped(w) /\ v.user_tags = w.user_tags
  BY DEF PartlyIs
<1>4. QED
  BY <1>1, <1>2, <1>3, SameDatabase

\* Before the first row.
LEMMA PartlyNone ==
  ASSUME NEW d, NEW t, NEW l, NEW specs, BulkOK(d, t, l, specs), NEW keys,
         \A k \in DOMAIN KeyTarget : (t \in DOMAIN OwnKey => k # OwnKey[t]) => keys[k] = d.fk[k]
  PROVE  PartlyIs(d, d, t, l, specs, keys, 0)
<1>1. l + 1 .. l + 0 = {} /\ 1 .. 0 = {} /\ Shaped(d) /\ t \in Tables
  BY DEF BulkOK, DbOK
<1>2. d.rows[t] = [i \in DOMAIN d.rows[t] |-> d.rows[t][i]] /\ \A k \in DOMAIN KeyTarget : d.fk[k] = [i \in DOMAIN d.fk[k] |-> d.fk[k][i]]
  BY <1>1 DEF Shaped
<1>3. d.rows[t] = [i \in DOMAIN d.rows[t] \cup (l + 1 .. l + 0) |->
                     IF i \in l + 1 .. l + 0 THEN specs[i - l].set ELSE d.rows[t][i]]
  BY <1>1, <1>2
<1>4. ASSUME NEW k \in DOMAIN KeyTarget
      PROVE  d.fk[k] = IF t \in DOMAIN OwnKey /\ k = OwnKey[t]
                         THEN [i \in DOMAIN d.fk[k] \cup (l + 1 .. l + 0) |->
                                 IF i \in l + 1 .. l + 0 THEN OwnID(specs[i - l]) ELSE d.fk[k][i]]
                       ELSE keys[k]
  BY <1>1, <1>2
<1>5. d.user_tags = PairsUpTo(d, t, l, specs, 0)
  BY <1>1 DEF PairsUpTo
<1>6. QED
  BY <1>1, <1>3, <1>4, <1>5 DEF PartlyIs

\* Everything that a create was asked to be is in the mutations it saves.
AllMeant(t, muts, told, specs) ==
  /\ Len(told) = Len(specs)
  /\ \A k \in 1 .. Len(specs) :
       Meant(t, "create", muts[k], told[k]) /\ Check(t, muts[k]) /\ specs[k] = CreateSpec(t, muts[k])

\* Row after row, what the statements about keys leave is what the promise makes.
KeysSoFar(o, d, t, l, specs, p, made, n) ==
  o.how = "ok" =>
    /\ DbOK(o.db) /\ o.db.rows = p.rows /\ o.db.user_tags = p.user_tags
    /\ t \in DOMAIN OwnKey => o.db.fk[OwnKey[t]] = p.fk[OwnKey[t]]
    /\ PartlyIs(made, d, t, l, specs, o.db.fk, n)

\* The keys that one more row writes are those that the promise makes of it.
LEMMA NextMade ==
  ASSUME NEW d, NEW t, NEW l, NEW specs, BulkOK(d, t, l, specs), NEW muts, NEW told, AllMeant(t, muts, told, specs),
         NEW p, DbOK(p), NEW n \in 1 .. Len(specs), l + n \in DOMAIN p.rows[t],
         NEW o, NEW made, KeysSoFar(o, d, t, l, specs, p, made, n - 1)
  PROVE  KeysSoFar(NextKeys(o, l + 1, specs, n), d, t, l, specs, p, MadeNext(made, t, l, told, n), n)
<1> SUFFICES ASSUME NextKeys(o, l + 1, specs, n).how = "ok"
             PROVE  LET q == NextKeys(o, l + 1, specs, n).db IN
                    /\ DbOK(q) /\ q.rows = p.rows /\ q.user_tags = p.user_tags
                    /\ t \in DOMAIN OwnKey => q.fk[OwnKey[t]] = p.fk[OwnKey[t]]
                    /\ PartlyIs(MadeNext(made, t, l, told, n), d, t, l, specs, q.fk, n)
  BY DEF KeysSoFar
<1> DEFINE s == specs[n]
           e == o.db
           i == l + n
           q == WriteKeys(e, {i}, s).db
           w == Partly(d, t, l, specs, q.fk, n)
<1>1. o.how = "ok" /\ l + 1 + n - 1 = i /\ n \in Nat /\ l \in Nat /\ t \in Tables
  BY DEF NextKeys, BulkOK
<1>2. NextKeys(o, l + 1, specs, n) = WriteKeys(e, {i}, s)
  BY <1>1 DEF NextKeys
<1>3. /\ DbOK(e) /\ e.rows = p.rows /\ e.user_tags = p.user_tags
      /\ t \in DOMAIN OwnKey => e.fk[OwnKey[t]] = p.fk[OwnKey[t]]
      /\ PartlyIs(made, d, t, l, specs, e.fk, n - 1)
  BY <1>1 DEF KeysSoFar
<1>4. /\ SpecOK(s) /\ s.table = t /\ OnlyAdds(s)
      /\ Meant(t, "create", muts[n], told[n]) /\ Check(t, muts[n]) /\ s = CreateSpec(t, muts[n])
  BY DEF BulkOK, NewSpec, AllMeant
<1>5. WriteKeys(e, {i}, s).how = "ok"
  BY <1>2
<1>6. {i} # {} /\ {i} \subseteq DOMAIN e.rows[s.table] /\ OneOf({i}) = i
  BY <1>3, <1>4 DEF OneOf
<1>7. CreateParts(s, t, muts[n])
  BY <1>1, <1>4, CreateEdges
<1> HIDE DEF s, e, i
<1>8. KeysWritten(e, q, s, {i})
  BY <1>3, <1>4, <1>5, <1>6, KeysWrittenWhole
<1> HIDE DEF q
<1>9. /\ DbOK(q) /\ q.rows = p.rows /\ q.user_tags = p.user_tags
      /\ \A k \in DOMAIN KeyTarget \ {s.key} : q.fk[k] = e.fk[k]
      /\ s.key # NoKey => q.fk[s.key] = [j \in DOMAIN e.fk[s.key] |-> IF j \in s.others.added THEN i ELSE e.fk[s.key][j]]
  <2>1. ~s.others.all /\ s.others.removed = {}
    BY <1>4 DEF OnlyAdds
  <2>2. QED
    BY <1>3, <1>6, <1>8, <2>1 DEF KeysWritten
<1>10. t \in DOMAIN OwnKey => q.fk[OwnKey[t]] = p.fk[OwnKey[t]]
  <2>1. ASSUME t \in DOMAIN OwnKey PROVE OwnKey[t] \in DOMAIN KeyTarget \ {s.key}
    BY <1>7, <2>1, KeyFacts DEF CreateParts
  <2>2. QED
    BY <1>3, <1>9, <2>1
<1>11. ASSUME NEW k \in DOMAIN KeyTarget, t \in DOMAIN OwnKey => k # OwnKey[t]
       PROVE  q.fk[k] = [j \in DOMAIN e.fk[k] |-> IF j \in s.others.added THEN i ELSE e.fk[k][j]]
  <2>1. CASE t = "tags"
    <3>1. s.key = NoKey /\ s.others.added = {}
      BY <1>7, <2>1, NoChangeFacts DEF CreateParts
    <3>2. q.fk[k] = e.fk[k] /\ e.fk[k] = [j \in DOMAIN e.fk[k] |-> e.fk[k][j]]
      BY <1>3, <1>9, <3>1, KeyFacts DEF DbOK, Shaped
    <3>3. QED
      BY <3>1, <3>2
  <2>2. CASE t # "tags"
    <3>1. s.key # NoKey /\ k = s.key
      BY <1>1, <1>7, <1>11, <2>2, KeyFacts DEF CreateParts, Tables
    <3>2. QED
      BY <1>9, <3>1
  <2>3. QED
    BY <2>1, <2>2
<1>12. Shaped(d) /\ KeysShaped(q.fk)
  BY <1>9 DEF BulkOK, DbOK, Shaped, KeysShaped
<1>13. PartlyIs(w, d, t, l, specs, q.fk, n)
  BY <1>1, <1>12, PartlyFacts
<1> HIDE DEF w
<1>14. RowWritten(made, w, t, s, i)
  <2>1. \A k \in DOMAIN KeyTarget : (t \in DOMAIN OwnKey => k # OwnKey[t]) =>
          q.fk[k] = [j \in DOMAIN e.fk[k] |-> IF j \in specs[n].others.added THEN l + n ELSE e.fk[k][j]]
    BY <1>11 DEF s, i
  <2>2. RowWritten(made, w, t, specs[n], l + n)
    BY <1>3, <1>13, <2>1, PartlyStep
  <2>3. QED
    BY <2>2 DEF s, i
<1>15. Shaped(made)
  BY <1>3 DEF PartlyIs
<1>16. Promise!AsAsked(Promise!WithBlank(made, t, i), t, {i}, told[n]) = w
  BY <1>1, <1>4, <1>14, <1>15, RowMade
<1>17. MadeNext(made, t, l, told, n) = w
  BY <1>16 DEF MadeNext, i
<1>18. NextKeys(o, l + 1, specs, n).db = q
  BY <1>2 DEF q
<1>19. QED
  BY <1>9, <1>10, <1>13, <1>17, <1>18

\* A bulk that ends well leaves what the promise makes.
LEMMA BulkAsAsked ==
  ASSUME NEW d, NEW t, NEW l, NEW specs, BulkOK(d, t, l, specs), NEW muts, NEW told, AllMeant(t, muts, told, specs),
         KeyAll(Joined(d, l, specs), l + 1, specs)[Len(specs)].how = "ok"
  PROVE  KeyAll(Joined(d, l, specs), l + 1, specs)[Len(specs)].db = Made(d, t, l, told)[Len(told)]
<1> DEFINE p == Joined(d, l, specs)
           g == KeyAll(p, l + 1, specs)
           made == Made(d, t, l, told)
           N == Len(specs)
           Good(n) == KeysSoFar(g[n], d, t, l, specs, p, made[n], n)
           Bad == {n \in 0 .. N : ~Good(n)}
<1>1. N \in Nat \ {0} /\ Len(told) = N /\ t \in Tables /\ l \in Nat
  BY DEF BulkOK, AllMeant
<1>2. DbOK(p) /\ PartlyIs(p, d, t, l, specs, d.fk, N)
  BY JoinedFacts
<1>3. \A k \in 0 .. N : g[k] = IF k = 0 THEN Outcome("ok", p) ELSE NextKeys(g[k - 1], l + 1, specs, k)
  BY <1>1, KeyAllStep
<1>4. \A k \in 0 .. N : made[k] = IF k = 0 THEN d ELSE MadeNext(made[k - 1], t, l, told, k)
  BY <1>1, MadeStep
<1>5. PartlyIs(p, d, t, l, specs, p.fk, N)
  BY <1>2 DEF PartlyIs
<1> HIDE DEF p, g, made
<1>6. Good(0)
  <2>1. g[0] = Outcome("ok", p) /\ made[0] = d
    BY <1>1, <1>3, <1>4
  <2>2. \A k \in DOMAIN KeyTarget : (t \in DOMAIN OwnKey => k # OwnKey[t]) => p.fk[k] = d.fk[k]
    BY <1>2 DEF PartlyIs
  <2>3. PartlyIs(d, d, t, l, specs, p.fk, 0)
    BY <2>2, PartlyNone
  <2>4. Outcome("ok", p).db = p
    BY DEF Outcome
  <2>5. QED
    BY <1>2, <2>1, <2>3, <2>4 DEF KeysSoFar
<1>7. ASSUME NEW n \in 1 .. N, Good(n - 1) PROVE Good(n)
  <2>1. l + n \in DOMAIN p.rows[t]
    <3>1. l + n \in l + 1 .. l + N
      BY <1>1
    <3>2. DOMAIN p.rows[t] = DOMAIN d.rows[t] \cup (l + 1 .. l + N)
      BY <1>5 DEF PartlyIs
    <3>3. QED
      BY <3>1, <3>2
  <2>2. g[n] = NextKeys(g[n - 1], l + 1, specs, n) /\ made[n] = MadeNext(made[n - 1], t, l, told, n)
    BY <1>1, <1>3, <1>4
  <2>3. KeysSoFar(NextKeys(g[n - 1], l + 1, specs, n), d, t, l, specs, p, MadeNext(made[n - 1], t, l, told, n), n)
    BY <1>2, <1>7, <2>1, NextMade
  <2>4. QED
    BY <2>2, <2>3
<1> HIDE DEF Good
<1>8. Good(N)
  <2> SUFFICES ASSUME Bad # {} PROVE FALSE
    BY <1>1
  <2>1. PICK n \in Bad : \A m \in Bad : n =< m
    <3>1. Bad \in SUBSET Nat
      OBVIOUS
    <3> HIDE DEF Bad
    <3>2. QED
      BY <3>1, LeastNumber
  <2>2. n \in 0 .. N /\ ~Good(n) /\ n # 0 /\ n \in 1 .. N /\ n - 1 \in 0 .. N
    BY <1>1, <1>6, <2>1
  <2>3. n - 1 \notin Bad
    <3>1. ~(n =< n - 1)
      BY <2>2
    <3> HIDE DEF Bad
    <3>2. QED
      BY <2>1, <3>1
  <2>4. Good(n - 1)
    BY <2>2, <2>3
  <2>5. QED
    BY <1>7, <2>2, <2>4
<1> DEFINE e == g[N].db
<1>9. /\ DbOK(e) /\ e.rows = p.rows /\ e.user_tags = p.user_tags
      /\ t \in DOMAIN OwnKey => e.fk[OwnKey[t]] = p.fk[OwnKey[t]]
      /\ PartlyIs(made[N], d, t, l, specs, e.fk, N)
  <2>1. g[N].how = "ok"
    BY DEF g, p
  <2>2. QED
    BY <1>8, <2>1 DEF Good, KeysSoFar
<1> HIDE DEF e
<1>10. PartlyIs(e, d, t, l, specs, e.fk, N)
  <2>1. Shaped(e)
    BY <1>9 DEF DbOK
  <2>2. QED
    BY <1>5, <1>9, <2>1 DEF PartlyIs
<1>11. e = made[N]
  BY <1>9, <1>10, PartlyUnique
<1>12. QED
  BY <1>1, <1>11 DEF e, g, p, made

\* The partners of new rows are rows that were there.
LEMMA PartnersThere ==
  ASSUME NEW d, DbOK(d), NEW t \in Tables, NEW l \in Nat,
         NEW specs, Len(specs) \in Nat \ {0}, DOMAIN specs = 1 .. Len(specs),
         \A k \in 1 .. Len(specs) : NewSpec(specs[k]) /\ specs[k].table = t /\ OwnTargetExists(d, specs[k]),
         \A k \in 1 .. Len(specs) :
           \A j \in specs[k].joined.added : Exists(InsertRows(d, l + 1, specs), Partner(t), j)
  PROVE  BulkOK(d, t, l, specs)
<1> DEFINE first == l + 1
           r == InsertRows(d, first, specs)
           new == first .. first + Len(specs) - 1
<1>1. Shaped(d) /\ 1 \in 1 .. Len(specs) /\ specs[1].table = t /\ specs[1].table \in Tables
  BY DEF DbOK
<1> HIDE DEF first
<1>2. Inserted(d, r, specs[1].table, first, specs, new)
  BY <1>1, InsertRowsFacts
<1> HIDE DEF r, new
<1>3. Partner(t) \in Tables \ {t}
  BY DEF Partner, Tables
<1>4. r.rows[Partner(t)] = d.rows[Partner(t)]
  BY <1>1, <1>2, <1>3 DEF Inserted
<1>5. \A k \in 1 .. Len(specs) : \A j \in specs[k].joined.added : Exists(d, Partner(t), j)
  BY <1>4 DEF r, first, Exists
<1>6. QED
  BY <1>5 DEF BulkOK

\* A bulk that succeeds found all that its rows name and wrote the edges of the last.
LEMMA BatchEndsWell ==
  ASSUME NEW d, NEW first, NEW specs, BatchCreate(d, first, specs).how = "ok"
  PROVE  LET r == InsertRows(d, first, specs) IN
         /\ \A k \in DOMAIN specs : OwnTargetExists(d, specs[k])
         /\ \A k \in DOMAIN specs : JoinTakes(d, {first + k - 1}, specs[k], NewPairs)
         /\ BatchCreate(d, first, specs) = KeyAll(JoinAll(r, first, specs), first, specs)[Len(specs)]
<1> DEFINE r == InsertRows(d, first, specs)
           Takes(k) == JoinTakes(d, {first + k - 1}, specs[k], NewPairs)
           end == KeyAll(JoinAll(r, first, specs), first, specs)[Len(specs)]
<1>1. BatchCreate(d, first, specs) =
        IF \E k \in DOMAIN specs : ~OwnTargetExists(d, specs[k]) THEN Outcome("refused", d)
        ELSE IF \E k \in DOMAIN specs : ~Takes(k) THEN Outcome("refused", r)
        ELSE end
  BY DEF BatchCreate
<1>2. \A x : Outcome("refused", x).how # "ok"
  BY DEF Outcome
<1> HIDE DEF r, Takes, end
<1>3. ~ \E k \in DOMAIN specs : ~OwnTargetExists(d, specs[k])
  BY <1>1, <1>2
<1>4. ~ \E k \in DOMAIN specs : ~Takes(k)
  BY <1>1, <1>2, <1>3
<1>5. BatchCreate(d, first, specs) = end
  BY <1>1, <1>3, <1>4
<1>6. \A k \in DOMAIN specs : Takes(k)
  BY <1>4
<1>7. QED
  BY <1>3, <1>5, <1>6 DEF r, Takes, end

\* Of several creates.
LEMMA SaveBulkAsAsked ==
  ASSUME NEW d, DbOK(d), NEW t \in Tables, NEW l \in Nat,
         NEW muts, Len(muts) \in Nat \ {0}, DOMAIN muts = 1 .. Len(muts), NEW told, Len(told) = Len(muts),
         \A k \in 1 .. Len(muts) : Meant(t, "create", muts[k], told[k]),
         SaveBulk(d, t, l + 1, muts).how = "ok"
  PROVE  SaveBulk(d, t, l + 1, muts).db = Made(d, t, l, told)[Len(told)]
<1> DEFINE specs == [k \in DOMAIN muts |-> CreateSpec(t, muts[k])]
           r == InsertRows(d, l + 1, specs)
<1>1. \A k \in 1 .. Len(muts) : Check(t, muts[k])
  <2>1. CASE \E k \in DOMAIN muts : ~Check(t, muts[k])
    <3>1. SaveBulk(d, t, l + 1, muts) = Outcome("invalid", d)
      BY <2>1 DEF SaveBulk
    <3>2. QED
      BY <3>1 DEF Outcome
  <2>2. QED
    BY <2>1
<1>2. SaveBulk(d, t, l + 1, muts) = BatchCreate(d, l + 1, specs)
  BY <1>1 DEF SaveBulk
<1>3. specs = [k \in 1 .. Len(muts) |-> specs[k]] /\ \A k \in 1 .. Len(muts) : specs[k] = CreateSpec(t, muts[k])
  OBVIOUS
<1> HIDE DEF specs
<1>4. Len(specs) = Len(muts) /\ DOMAIN specs = 1 .. Len(specs)
  BY <1>3, FunctionIsList
<1>5. ASSUME NEW k \in 1 .. Len(specs) PROVE NewSpec(specs[k]) /\ specs[k].table = t
  <2>1. MutationOK(muts[k], t) /\ Check(t, muts[k]) /\ specs[k] = CreateSpec(t, muts[k])
    BY <1>1, <1>3, <1>4 DEF Meant
  <2>2. QED
    BY <2>1, CreateSpecOK
<1>6. /\ \A k \in DOMAIN specs : OwnTargetExists(d, specs[k])
      /\ \A k \in DOMAIN specs : JoinTakes(d, {l + 1 + k - 1}, specs[k], NewPairs)
      /\ BatchCreate(d, l + 1, specs) = KeyAll(JoinAll(r, l + 1, specs), l + 1, specs)[Len(specs)]
  BY <1>2, BatchEndsWell
<1>10. BatchCreate(d, l + 1, specs) = KeyAll(Joined(d, l, specs), l + 1, specs)[Len(specs)]
  BY <1>6 DEF Joined
<1>11. BulkOK(d, t, l, specs)
  <2>1. \A k \in 1 .. Len(specs) : \A j \in specs[k].joined.added : Exists(d, Partner(t), j)
    BY <1>4, <1>5, <1>6 DEF JoinTakes
  <2>2. \A k \in 1 .. Len(specs) : NewSpec(specs[k]) /\ specs[k].table = t /\ OwnTargetExists(d, specs[k])
    BY <1>4, <1>5, <1>6
  <2>3. QED
    BY <1>4, <2>1, <2>2 DEF BulkOK
<1>12. AllMeant(t, muts, told, specs)
  BY <1>1, <1>3, <1>4 DEF AllMeant
<1>13. KeyAll(Joined(d, l, specs), l + 1, specs)[Len(specs)].how = "ok"
  BY <1>2, <1>10
<1>14. QED
  BY <1>2, <1>10, <1>11, <1>12, <1>13, BulkAsAsked

\* Of one create: its statements are those of a bulk of one.
LEMMA OneCreated ==
  ASSUME NEW d, DbOK(d), NEW t \in Tables, NEW l \in Nat, NEW s, NewSpec(s), s.table = t,
         ~s.joined.all, s.joined.removed = {}, CreateNode(d, l + 1, s).how = "ok"
  PROVE  BulkOK(d, t, l, <<s>>) /\ CreateNode(d, l + 1, s) = KeyAll(Joined(d, l, <<s>>), l + 1, <<s>>)[1]
<1> DEFINE specs == <<s>>
           i == l + 1
           r == InsertRows(d, i, specs)
           c == ClearJoin(r, {i}, s)
           p == Joined(d, l, specs)
<1>1. Len(specs) = 1 /\ DOMAIN specs = 1 .. 1 /\ specs[1] = s /\ 1 .. 1 = {1} /\ i + 1 - 1 = i
  OBVIOUS
<1>2. OwnTargetExists(d, s)
  <2>1. CASE ~OwnTargetExists(d, s)
    <3>1. CreateNode(d, i, s) = Outcome("refused", d)
      BY <2>1 DEF CreateNode
    <3>2. QED
      BY <3>1 DEF Outcome
  <2>2. QED
    BY <2>1
<1>3. CreateNode(d, i, s) = WriteEdges(r, {i}, s, NewPairs)
  BY <1>2 DEF CreateNode
<1> HIDE DEF specs
<1>4. DbOK(r)
  <2>1. \A k \in DOMAIN specs : NewSpec(specs[k]) /\ specs[k].table = t /\ OwnTargetExists(d, specs[k])
    BY <1>1, <1>2
  <2>2. Len(specs) \in Nat \ {0} /\ DOMAIN specs = 1 .. Len(specs) /\ i \in Nat
    BY <1>1
  <2> HIDE DEF i
  <2>3. QED
    BY <2>1, <2>2, InsertRowsOK
<1>5. /\ Shaped(c) /\ c.rows = r.rows /\ c.fk = r.fk /\ c.user_tags = r.user_tags
  <2>1. Shaped(c) /\ c.rows = r.rows /\ c.fk = r.fk
    BY <1>4, JoinFacts DEF DbOK
  <2>2. c.user_tags = r.user_tags
    <3>1. s.joined.removed \cup (IF s.joined.all THEN DOMAIN r.rows[Partner(s.table)] ELSE {}) = {}
      OBVIOUS
    <3>2. c.user_tags = r.user_tags \ {pair \in r.user_tags : \E x \in {i} :
                          \E j \in s.joined.removed \cup (IF s.joined.all THEN DOMAIN r.rows[Partner(s.table)] ELSE {}) :
                             pair = Pair(s.table, x, j)}
      BY <1>4 DEF ClearJoin, DbOK, Shaped
    <3>3. QED
      BY <3>1, <3>2
  <2>3. QED
    BY <2>1, <2>2
<1>6. c = r
  BY <1>4, <1>5, SameDatabase DEF DbOK
<1>7. JoinTakes(r, {i}, s, NewPairs)
  <2>1. CASE ~JoinTakes(c, {i}, s, NewPairs)
    <3>1. WriteJoin(r, {i}, s, NewPairs) = Outcome("refused", c)
      BY <2>1 DEF WriteJoin
    <3>2. WriteEdges(r, {i}, s, NewPairs).how = "refused"
      BY <3>1 DEF WriteEdges, Outcome
    <3>3. QED
      BY <1>3, <3>2
  <2>2. QED
    BY <1>6, <2>1
<1>8. WriteJoin(r, {i}, s, NewPairs) = Outcome("ok", AddJoin(r, {i}, s))
  BY <1>6, <1>7 DEF WriteJoin
<1>9. WriteEdges(r, {i}, s, NewPairs) = WriteKeys(AddJoin(r, {i}, s), {i}, s)
  BY <1>8 DEF WriteEdges, Outcome
<1>10. BulkOK(d, t, l, specs)
  <2>1. \A k \in 1 .. Len(specs) : \A j \in specs[k].joined.added : Exists(InsertRows(d, l + 1, specs), Partner(t), j)
    BY <1>1, <1>7 DEF JoinTakes
  <2>2. \A k \in 1 .. Len(specs) : NewSpec(specs[k]) /\ specs[k].table = t /\ OwnTargetExists(d, specs[k])
    BY <1>1, <1>2
  <2>3. Len(specs) \in Nat \ {0} /\ DOMAIN specs = 1 .. Len(specs)
    BY <1>1
  <2>4. QED
    BY ONLY <2>1, <2>2, <2>3, PartnersThere, DbOK(d), t \in Tables, l \in Nat
<1>11. p = AddJoin(r, {i}, s)
  <2>1. p = JoinAll(r, i, specs)
    BY DEF Joined
  <2>2. Shaped(p)
    BY <1>10, JoinedFacts DEF DbOK
  <2> HIDE DEF p, r
  <2>3. /\ p.rows = r.rows /\ p.fk = r.fk
        /\ p.user_tags = r.user_tags \cup UNION {AddJoin(r, {i + k - 1}, specs[k]).user_tags : k \in DOMAIN specs}
    BY <1>4, <2>1 DEF JoinAll, DbOK, Shaped
  <2>4. /\ Shaped(AddJoin(r, {i}, s)) /\ AddJoin(r, {i}, s).rows = r.rows /\ AddJoin(r, {i}, s).fk = r.fk
        /\ AddJoin(r, {i}, s).user_tags = r.user_tags \cup {Pair(s.table, x, j) : x \in {i}, j \in s.joined.added}
    BY <1>4, JoinFacts DEF DbOK
  <2>5. UNION {AddJoin(r, {i + k - 1}, specs[k]).user_tags : k \in DOMAIN specs} = AddJoin(r, {i}, s).user_tags
    <3>1. \A k \in DOMAIN specs : AddJoin(r, {i + k - 1}, specs[k]).user_tags = AddJoin(r, {i}, s).user_tags
      BY <1>1
    <3>2. 1 \in DOMAIN specs
      BY <1>1
    <3>3. QED
      BY <3>1, <3>2
  <2>6. p.user_tags = AddJoin(r, {i}, s).user_tags
    <3>1. r.user_tags \subseteq AddJoin(r, {i}, s).user_tags
      BY <2>4
    <3>2. p.user_tags = r.user_tags \cup AddJoin(r, {i}, s).user_tags
      BY <2>3, <2>5
    <3>3. QED
      BY <3>1, <3>2
  <2>7. QED
    BY <2>2, <2>3, <2>4, <2>6, SameDatabase
<1>12. KeyAll(p, i, specs)[1] = WriteKeys(p, {i}, s)
  <2>1. \A k \in 0 .. 1 : KeyAll(p, i, specs)[k] = IF k = 0 THEN Outcome("ok", p) ELSE NextKeys(KeyAll(p, i, specs)[k - 1], i, specs, k)
    <3> HIDE DEF p, i
    <3>1. Len(specs) \in Nat
      BY <1>1
    <3>2. \A k \in 0 .. Len(specs) :
            KeyAll(p, i, specs)[k] = IF k = 0 THEN Outcome("ok", p) ELSE NextKeys(KeyAll(p, i, specs)[k - 1], i, specs, k)
      BY <3>1, KeyAllStep
    <3>3. QED
      BY <1>1, <3>2
  <2>2. KeyAll(p, i, specs)[0] = Outcome("ok", p) /\ KeyAll(p, i, specs)[1] = NextKeys(Outcome("ok", p), i, specs, 1)
    BY <2>1
  <2>3. NextKeys(Outcome("ok", p), i, specs, 1) = WriteKeys(p, {i + 1 - 1}, specs[1])
    BY DEF NextKeys, Outcome
  <2>4. QED
    BY <1>1, <2>2, <2>3
<1>13. QED
  BY <1>3, <1>9, <1>10, <1>11, <1>12 DEF specs

\* One new row or a bulk: a create does what was asked.
LEMMA SaveNewAsAsked ==
  ASSUME NEW d, DbOK(d), NEW t \in Tables, NEW l \in Nat, NEW m, NEW told, Len(told) = 1,
         Meant(t, "create", m, told[1]), SaveNew(d, t, l + 1, m).how = "ok"
  PROVE  SaveNew(d, t, l + 1, m).db = Made(d, t, l, told)[Len(told)]
<1> DEFINE s == CreateSpec(t, m)
           specs == <<s>>
           muts == <<m>>
<1>1. Check(t, m)
  <2>1. CASE ~Check(t, m)
    <3>1. SaveNew(d, t, l + 1, m) = Outcome("invalid", d)
      BY <2>1 DEF SaveNew
    <3>2. QED
      BY <3>1 DEF Outcome
  <2>2. QED
    BY <2>1
<1>2. SaveNew(d, t, l + 1, m) = CreateNode(d, l + 1, s)
  BY <1>1 DEF SaveNew
<1>3. NewSpec(s) /\ s.table = t
  BY <1>1, CreateSpecOK DEF Meant
<1>4. ~s.joined.all /\ s.joined.removed = {}
  <2>1. CreateParts(s, t, m)
    BY CreateEdges
  <2>2. QED
    BY <2>1 DEF CreateParts
<1>5. Len(specs) = 1 /\ 1 .. 1 = {1} /\ specs[1] = s /\ muts[1] = m
  OBVIOUS
<1>6. AllMeant(t, muts, told, specs)
  BY <1>1, <1>5 DEF AllMeant
<1> HIDE DEF s
<1>7. BulkOK(d, t, l, specs) /\ CreateNode(d, l + 1, s) = KeyAll(Joined(d, l, specs), l + 1, specs)[1]
  BY <1>2, <1>3, <1>4, OneCreated
<1> HIDE DEF specs, muts
<1>8. KeyAll(Joined(d, l, specs), l + 1, specs)[Len(specs)].how = "ok"
  BY <1>2, <1>5, <1>7
<1>9. KeyAll(Joined(d, l, specs), l + 1, specs)[Len(specs)].db = Made(d, t, l, told)[Len(told)]
  <2>1. BulkOK(d, t, l, specs)
    BY <1>7
  <2>2. QED
    BY ONLY <2>1, <1>6, <1>8, BulkAsAsked
<1>10. QED
  BY <1>2, <1>5, <1>7, <1>9

-----------------------------------------------------------------------------
(* The refinement *)

\* A save that ends well made everything true that was asked, and nothing else.
LEMMA UpdateFulfils ==
  ASSUME IInv, Told, builder.how \in Updates, Result.how = "ok"
  PROVE  Result.db = Promise!Fulfilled
<1> DEFINE t == builder.table
           m == ms[1]
           s == UpdateSpec(t, m)
           ids == builder.ids \cap DOMAIN db.rows[t]
<1>1. builder.how # "closed" /\ builder.how # "create"
  BY DEF Updates
<1>2. t \in Tables /\ DbOK(db) /\ Len(ms) = 1
  BY <1>1, OpenBuilder DEF IInv, RowsGiven
<1>3. Meant(t, builder.how, m, asked[1])
  BY <1>1, <1>2 DEF Told
<1>4. Promise!Fulfilled = Promise!AsAsked(db, t, ids, asked[1])
  BY <1>1 DEF Promise!Fulfilled
<1>5. ~dbms.aborted
  BY DEF Result, Outcome
<1>6. s.table = t
  BY <1>2, <1>3, UpdateSpecOK DEF Meant
<1>7. CASE builder.how = "one"
  <2> DEFINE i == CHOOSE x \in builder.ids : TRUE
  <2>1. Result = SaveOne(db, t, i, m, dbms.sql)
    BY <1>5, <1>7 DEF Result
  <2>2. builder.ids = {i}
    BY <1>1, <1>7, OpenBuilder
  <2> HIDE DEF i
  <2>3. Result = UpdateNode(db, i, s, dbms.sql)
    BY <2>1 DEF SaveOne, Outcome
  <2>4. i \in DOMAIN db.rows[t]
    <3>1. CASE ~Exists(db, s.table, i)
      <4>1. UpdateNode(db, i, s, dbms.sql).how \in {"refused", "not found"}
        BY <3>1 DEF UpdateNode, Outcome
      <4>2. QED
        BY <2>3, <4>1
    <3>2. QED
      BY <1>6, <3>1 DEF Exists
  <2>5. Result = UpdateNodes(db, {i}, s, dbms.sql)
    BY <1>6, <2>3, <2>4 DEF UpdateNode, Exists
  <2>6. ids = {i}
    BY <2>2, <2>4
  <2>7. {i} \subseteq DOMAIN db.rows[t]
    BY <2>4
  <2>8. UpdateNodes(db, {i}, s, dbms.sql).db = Promise!AsAsked(db, t, {i}, asked[1])
    BY <1>1, <1>2, <1>3, <2>5, <2>7, UpdateAsAsked
  <2>9. QED
    BY <1>4, <2>5, <2>6, <2>8
<1>8. CASE builder.how # "one"
  <2>1. Result = SaveMany(db, t, ids, m, dbms.sql)
    BY <1>5, <1>8 DEF Result, Updates
  <2>2. ids \subseteq DOMAIN db.rows[t]
    OBVIOUS
  <2> HIDE DEF ids
  <2>3. Result = UpdateNodes(db, ids, s, dbms.sql)
    BY <2>1 DEF SaveMany, Outcome
  <2>4. UpdateNodes(db, ids, s, dbms.sql).db = Promise!AsAsked(db, t, ids, asked[1])
    BY <1>1, <1>2, <1>3, <2>2, <2>3, UpdateAsAsked
  <2>5. QED
    BY <1>4, <2>3, <2>4
<1>9. QED
  BY <1>7, <1>8

\* Which is what the promise calls fulfilled.
LEMMA CreateFulfils ==
  ASSUME IInv, Told, builder.how = "create", Result.how = "ok"
  PROVE  Result.db = Promise!Fulfilled
<1> DEFINE t == builder.table
           l == last[t]
<1>1. /\ t \in Tables /\ Len(ms) \in Nat \ {0} /\ IsList(ms) /\ Len(asked) = Len(ms)
      /\ DbOK(db) /\ l \in Nat
  BY OpenBuilder DEF IInv, RowsGiven
<1>2. DOMAIN ms = 1 .. Len(ms)
  BY <1>1 DEF IsList
<1>3. \A k \in 1 .. Len(ms) : Meant(t, "create", ms[k], asked[k])
  BY DEF Told
<1>4. ~dbms.aborted
  BY DEF Result, Outcome
<1>5. Promise!Fulfilled = Made(db, t, l, asked)[Len(asked)]
  BY FulfilledMade
<1>6. CASE Len(ms) = 1
  <2>1. Result = SaveNew(db, t, l + 1, ms[1])
    BY <1>4, <1>6 DEF Result
  <2>2. Meant(t, "create", ms[1], asked[1]) /\ Len(asked) = 1
    BY <1>1, <1>3, <1>6
  <2> HIDE DEF t, l
  <2>3. t \in Tables /\ DbOK(db) /\ l \in Nat /\ SaveNew(db, t, l + 1, ms[1]).how = "ok"
    BY <1>1, <2>1
  <2>4. SaveNew(db, t, l + 1, ms[1]).db = Made(db, t, l, asked)[Len(asked)]
    BY ONLY <2>2, <2>3, SaveNewAsAsked
  <2>5. QED
    BY <1>5, <2>1, <2>4
<1>7. CASE Len(ms) # 1
  <2>1. Result = SaveBulk(db, t, l + 1, ms)
    BY <1>4, <1>7 DEF Result
  <2> HIDE DEF t, l
  <2>2. SaveBulk(db, t, l + 1, ms).db = Made(db, t, l, asked)[Len(asked)]
    BY <1>1, <1>2, <1>3, <2>1, SaveBulkAsAsked
  <2>3. QED
    BY <1>5, <2>1, <2>2
<1>8. QED
  BY <1>6, <1>7

PromiseStep == Promise!Next \/ UNCHANGED Promise!vars

\* Opening a builder begins a promise.
LEMMA OpenPromised ==
  ASSUME IInv, NEW t, NEW how \in Hows, NEW ids, Open(t, how, ids)
  PROVE  PromiseStep
<1>1. builder'.how = how /\ how # "closed" /\ builder.how = "closed" /\ UNCHANGED <<db, last, base, mode>>
  BY DEF Open, Hows
<1>2. Promise!Prepare
  BY <1>1 DEF Promise!Prepare, Promise!Ask
<1>3. QED
  BY <1>2 DEF PromiseStep, Promise!Next

\* A call is asked for, or has asked nothing new.
LEMMA AskingPromised ==
  ASSUME builder.how # "closed", UNCHANGED <<db, last, base, mode, builder>>
  PROVE  PromiseStep
<1>1. CASE asked' = asked
  BY <1>1 DEF PromiseStep, Promise!vars
<1>2. CASE asked' # asked
  BY <1>2 DEF PromiseStep, Promise!Next, Promise!Prepare, Promise!Ask
<1>3. QED
  BY <1>1, <1>2

\* Calls and hooks ask on both sides.
LEMMA CallsPromised ==
  ASSUME IInv, builder.how # "closed", NEW c, NEW v, NEW e, NEW j, NEW cfg, NEW d,
         \/ SetField(c, v) \/ ClearField(c)
         \/ AddEdgeIDs(e, j) \/ RemoveEdgeIDs(e, j) \/ ClearMany(e) \/ SetOne(e, j) \/ ClearOne(e)
         \/ Apply(cfg, d)
         \/ HookSetField(c, v) \/ HookClearField(c) \/ HookResetField(c) \/ HookResetEdge(e)
  PROVE  PromiseStep
<1>1. UNCHANGED <<db, last, base, mode, builder>>
  BY DEF SetField, ClearField, AddEdgeIDs, RemoveEdgeIDs, ClearMany, SetOne, ClearOne, Apply, HookSetField,
         HookClearField, HookResetField, HookResetEdge, Call, Change
<1>2. QED
  BY <1>1, AskingPromised

\* The ids of a table never go back.
LEMMA IdsOnward ==
  ASSUME IInv, builder.how # "closed", Ended(Result)
  PROVE  \A u \in DOMAIN last : last'[u] >= last[u]
<1>1. builder.table \in Tables /\ Len(ms) \in Nat /\ last \in [Tables -> Nat]
  BY OpenBuilder DEF IInv, RowsGiven
<1>2. last' = IF builder.how # "create" \/ Result.how = "invalid" THEN last
              ELSE [last EXCEPT ![builder.table] = @ + Len(ms)]
  BY DEF Ended
<1>3. QED
  BY <1>1, <1>2

\* A save fulfils the promise or fails as it may.
LEMMA SavePromised == ASSUME IInv, Told, Succeeds \/ Fails PROVE PromiseStep
<1>1. hooked /\ Ended(Result)
  BY DEF Succeeds, Fails
<1>2. builder.how # "closed" /\ builder.how \in Hows
  BY <1>1, ClosedBuilder, OpenBuilder
<1>3. builder' = Promise!Closed /\ asked' = <<>> /\ base' = IF mode = "plain" THEN db' ELSE base
  BY <1>1 DEF Ended
<1>4. \A u \in DOMAIN last : last'[u] >= last[u]
  BY <1>1, <1>2, IdsOnward
<1>5. CASE Succeeds
  <2>1. Result.how = "ok" /\ db' = Result.db /\ mode' = mode
    BY <1>5 DEF Succeeds
  <2>2. db' = Promise!Fulfilled
    BY <1>2, <2>1, UpdateFulfils, CreateFulfils DEF Hows, Updates
  <2>3. Promise!Save
    BY <1>2, <1>3, <1>4, <2>1, <2>2 DEF Promise!Save
  <2>4. QED
    BY <2>3 DEF PromiseStep, Promise!Next
<1>6. CASE Fails
  <2>1. db' = (IF mode = "plain" THEN db ELSE Result.db) /\ mode' = IF mode = "plain" THEN mode ELSE "spoiled"
    BY <1>6 DEF Fails
  <2>2. Promise!Save
    BY <1>2, <1>3, <1>4, <2>1 DEF Promise!Save
  <2>3. QED
    BY <2>2 DEF PromiseStep, Promise!Next
<1>7. QED
  BY <1>5, <1>6

\* A delete is one of the promise.
LEMMA DeletePromised ==
  ASSUME IInv, NEW t \in Tables, NEW ids, DeleteRows(t, ids)
  PROVE  PromiseStep
<1>1. DbOK(db) /\ DOMAIN db.rows = Tables
  BY DEF IInv, RowsGiven, DbOK, Shaped
<1>2. \A u \in Tables : DOMAIN DeleteNodes(db, t, ids).rows[u] \subseteq DOMAIN db.rows[u]
  BY <1>1, DeleteNodesOK
<1>3. /\ db' = DeleteNodes(db, t, ids) /\ base' = (IF mode = "plain" THEN db' ELSE base)
      /\ UNCHANGED <<last, builder, asked, mode>>
  BY DEF DeleteRows
<1>4. Promise!Delete
  BY <1>1, <1>2, <1>3 DEF Promise!Delete
<1>5. QED
  BY <1>4 DEF PromiseStep, Promise!Next

\* Begin, Commit and Rollback are those of the promise.
LEMMA TransactionPromised == ASSUME IInv, Begin \/ Commit \/ Rollback PROVE PromiseStep
<1>1. CASE Begin
  BY <1>1 DEF Begin, PromiseStep, Promise!Next, Promise!Begin
<1>2. CASE Commit
  <2>1. mode = "tx" => ~dbms.aborted
    BY DEF IInv, ModeOK
  <2>2. Promise!Commit
    BY <1>2, <2>1 DEF Commit, Promise!Commit
  <2>3. QED
    BY <2>2 DEF PromiseStep, Promise!Next
<1>3. CASE Rollback
  BY <1>3 DEF Rollback, PromiseStep, Promise!Next, Promise!Rollback
<1>4. QED
  BY <1>1, <1>2, <1>3

LEMMA EveryStepPromised == ASSUME IInv, Told, Next PROVE PromiseStep
<1>1. CASE \/ \E t \in Tables, i \in Named : Open(t, "one", {i})
           \/ \E t \in Tables, ids \in Selections : Open(t, "many", ids)
           \/ \E t \in Tables : last[t] + MaxBulk =< MaxRows /\ Open(t, "create", {})
  <2>1. {"one", "many", "create"} \subseteq Hows
    BY DEF Hows
  <2>2. QED
    BY <1>1, <2>1, OpenPromised
<1>2. CASE \/ \E c \in Tracked, v \in {Zero, Default} : SetField(c, v)
           \/ \E c \in Tracked : ClearField(c)
           \/ \E e \in {"posts", "tags", "pinners", "users"}, j \in Named :
                AddEdgeIDs(e, j) \/ RemoveEdgeIDs(e, j)
           \/ \E e \in {"posts", "tags", "pinners", "users"} : ClearMany(e)
           \/ \E e \in {"pinned_post", "owner"} : ClearOne(e) \/ \E j \in Named : SetOne(e, j)
  <2>1. builder.how # "closed"
    BY <1>2 DEF SetField, ClearField, AddEdgeIDs, RemoveEdgeIDs, ClearMany, SetOne, ClearOne, Call, All, Updates
  <2>2. QED
    BY <1>2, <2>1, CallsPromised
<1>3. CASE builder.how # "closed" /\ \E cfg \in Configs, d \in Structs[builder.table] : Apply(cfg, d)
  BY <1>3, CallsPromised
<1>4. CASE \/ \E c \in Tracked : HookSetField(c, Zero) \/ HookClearField(c) \/ HookResetField(c)
           \/ \E e \in Edges(builder.table) : HookResetEdge(e)
  <2>1. hooked
    BY <1>4 DEF HookSetField, HookClearField, HookResetField, HookResetEdge
  <2>2. builder.how # "closed"
    BY <2>1, ClosedBuilder
  <2>3. QED
    BY <1>4, <2>2, CallsPromised
<1>5. CASE Another \/ RunHooks
  <2>1. builder.how # "closed" /\ UNCHANGED <<db, last, base, mode, builder>>
    BY <1>5 DEF Another, RunHooks
  <2>2. QED
    BY <2>1, AskingPromised
<1>6. CASE Succeeds \/ Fails
  BY <1>6, SavePromised
<1>7. CASE \E t \in Tables, ids \in Selections : DeleteRows(t, ids)
  BY <1>7, DeletePromised
<1>8. CASE Begin \/ Commit \/ Rollback
  BY <1>8, TransactionPromised
<1>9. QED
  BY <1>1, <1>2, <1>3, <1>4, <1>5, <1>6, <1>7, <1>8 DEF Next

\* What the builders promise a reader of their documentation, for any databases,
\* structs, hooks and orders of calls: a save makes true all that the caller,
\* ApplyDomain, the transformer and the hooks asked, and nothing else, or fails
\* and changes nothing; so in a client's transaction until an error is ignored in
\* it; and a rollback always restores what there was (mutation.go, user_create.go,
\* user_update.go, tx.go, template/domain.tmpl:133-278).
THEOREM BuildersKeepPromise == Spec => PromiseKept
<1>1. Init => Promise!Init
  BY DEF Init, Promise!Init
<1>2. IInv /\ Told /\ [Next]_vars => [Promise!Next]_(Promise!vars)
  <2> SUFFICES ASSUME IInv, Told, [Next]_vars PROVE PromiseStep
    BY DEF PromiseStep
  <2>1. CASE Next
    BY <2>1, EveryStepPromised
  <2>2. CASE UNCHANGED vars
    BY <2>2 DEF vars, PromiseStep, Promise!vars
  <2>3. QED
    BY <2>1, <2>2
<1>3. QED
  BY <1>1, <1>2, ToldHolds, PTL DEF Spec, PromiseKept, Promise!Spec

-----------------------------------------------------------------------------
(* Sessions: what a query and a client hold *)

\* An entity that a query has scanned: a row's id and columns, and the loaded
\* edges of its table.
NodeOK(n, t, l) ==
  /\ n \in [id : {n.id}, val : {n.val}, loaded : {n.loaded}, fk : {n.fk},
            posts : {n.posts}, pinned_post : {n.pinned_post}, tags : {n.tags},
            owner : {n.owner}, pinners : {n.pinners}, users : {n.users}]
  /\ n.id \in 1 .. l[t] /\ n.loaded \subseteq Edges(t) /\ n.val \in [Columns(t) -> Values]
\* The foreign key it carries was the row's in one of the databases seen, and is
\* an id that a sequence gave.
KeyWas(n, t, seen, l) ==
  t \in DOMAIN OwnKey =>
    /\ n.fk = NoId \/ n.fk \in 1 .. l[KeyTarget[OwnKey[t]]]
    /\ \E s \in seen : n.id \in DOMAIN s.fk[OwnKey[t]] /\ s.fk[OwnKey[t]][n.id] = n.fk
\* So was each edge it loaded, or its key names a row that is gone.
EdgeWas(n, t, e, seen, d) ==
  \/ \E s \in seen : Linked(s, e, n.id) = IdsOf(n, e)
  \/ /\ e \in {"pinned_post", "owner"} /\ n[e] = {} /\ n.fk # NoId
     /\ ~Exists(d, KeyTarget[OwnKey[t]], n.fk)
Scanned(n, t, seen, d, l) ==
  NodeOK(n, t, l) /\ KeyWas(n, t, seen, l) /\ \A e \in n.loaded : EdgeWas(n, t, e, seen, d)

\* A query that is running sees the database, and has seen it since its rows.
QueryOK(q, d, l) ==
  /\ q \in [table : {q.table}, nodes : {q.nodes}, todo : {q.todo}, seen : {q.seen}]
  /\ \/ q = Idle
     \/ /\ q.table \in Tables /\ q.todo \subseteq Edges(q.table) /\ d \in q.seen
        /\ IsFiniteSet(q.nodes) /\ \A n \in q.nodes : Scanned(n, q.table, q.seen, d, l)

\* A struct that a client may save to its table.
StructHeld(s, t, l) ==
  /\ StructOK(s, t) /\ s.ID \in 1 .. l[t]
  /\ t = "users" => s \in [ID : {s.ID}, val : {s.val}, PostIDs : {s.PostIDs}, Posts : {s.Posts},
                           PinnedPostID : {s.PinnedPostID}, PinnedPost : {s.PinnedPost},
                           TagIDs : {s.TagIDs}, Tags : {s.Tags}]
HeldOK(h, l) ==
  /\ h \in [table : {h.table}, structs : {h.structs}]
  /\ \/ h = Nil
     \/ /\ h.table \in Tables /\ IsList(h.structs)
        /\ \A k \in 1 .. Len(h.structs) : StructHeld(h.structs[k], h.table, l)

RowsKnown == last \in [Tables -> Nat] /\ DbOK(db) /\ Given(db, last)
Queries == load = [c \in Clients |-> load[c]] /\ \A c \in Clients : QueryOK(load[c], db, last)
Holdings == held = [c \in Clients |-> held[c]] /\ \A c \in Clients : HeldOK(held[c], last)
Counts == reads \in 0 .. MaxReads /\ writes \in 0 .. MaxWrites /\ edits \in 0 .. MaxEdits
SInv == RowsKnown /\ Queries /\ Holdings /\ Counts

\* A client that has nothing under way.
LEMMA IdleFacts ==
  /\ QueryOK(Idle, db, last) /\ Idle.nodes = {} /\ \A l : HeldOK(Nil, l)
  /\ Nil.structs = <<>> /\ Nil.table \notin Tables
  BY DEF QueryOK, Idle, HeldOK, Nil, Tables

\* ToDomain gives structs that may be saved: NULL reads as the zero value.
LEMMA ToDomainOK ==
  ASSUME NEW t \in Tables, NEW n, NEW l, NodeOK(n, t, l)
  PROVE  StructHeld(ToDomain(t, n), t, l)
<1>1. Read(n.val) \in [Columns(t) -> Values]
  BY DEF NodeOK, Read, Values
<1>2. CASE t = "users"
  <2>1. ToDomain(t, n) = UserToDomain(n)
    BY <1>2 DEF ToDomain
  <2>2. UserToDomain(n).val = Read(n.val) /\ UserToDomain(n).ID = n.id
    BY DEF UserToDomain
  <2>3. LET s == UserToDomain(n) IN
        s \in [ID : {s.ID}, val : {s.val}, PostIDs : {s.PostIDs}, Posts : {s.Posts},
               PinnedPostID : {s.PinnedPostID}, PinnedPost : {s.PinnedPost}, TagIDs : {s.TagIDs}, Tags : {s.Tags}]
    BY DEF UserToDomain
  <2>4. QED
    BY <1>1, <2>1, <2>2, <2>3 DEF StructHeld, StructOK, NodeOK
<1>3. CASE t = "posts"
  <2>1. ToDomain(t, n).val = Read(n.val) /\ ToDomain(t, n).ID = n.id
    BY <1>3 DEF ToDomain, PostToDomain
  <2>2. QED
    BY <1>1, <1>3, <2>1 DEF StructHeld, StructOK, NodeOK
<1>4. CASE t = "tags"
  <2>1. ToDomain(t, n).val = Read(n.val) /\ ToDomain(t, n).ID = n.id
    BY <1>4 DEF ToDomain, TagToDomain
  <2>2. QED
    BY <1>1, <1>4, <2>1 DEF StructHeld, StructOK, NodeOK
<1>5. QED
  BY <1>2, <1>3, <1>4 DEF Tables

\* A row as a query scans it.
LEMMA NodeFresh ==
  ASSUME NEW d, DbOK(d), NEW l \in [Tables -> Nat], Given(d, l), NEW t \in Tables, NEW i \in DOMAIN d.rows[t],
         NEW seen, d \in seen, NEW e
  PROVE  Scanned(Node(d, t, i), t, seen, e, l)
<1> DEFINE n == Node(d, t, i)
<1>1. /\ n.id = i /\ n.loaded = {} /\ n.val = d.rows[t][i]
      /\ n.fk = IF t \in DOMAIN OwnKey THEN d.fk[OwnKey[t]][i] ELSE NoId
  BY DEF Node
<1>2. n \in [id : {n.id}, val : {n.val}, loaded : {n.loaded}, fk : {n.fk},
            posts : {n.posts}, pinned_post : {n.pinned_post}, tags : {n.tags},
            owner : {n.owner}, pinners : {n.pinners}, users : {n.users}]
  BY DEF Node
<1> HIDE DEF n
<1>3. NodeOK(n, t, l)
  BY <1>1, <1>2 DEF NodeOK, DbOK, RowsOK, Given
<1>4. ASSUME t \in DOMAIN OwnKey
      PROVE  /\ n.fk = NoId \/ n.fk \in 1 .. l[KeyTarget[OwnKey[t]]]
             /\ n.id \in DOMAIN d.fk[OwnKey[t]] /\ d.fk[OwnKey[t]][n.id] = n.fk
  <2> DEFINE k == OwnKey[t]
  <2>1. k \in DOMAIN KeyTarget /\ KeyTarget[k] \in Tables
    BY <1>4, KeyFacts DEF Tables
  <2>2. DOMAIN d.fk[k] = DOMAIN d.rows[t] /\ \A j \in DOMAIN d.fk[k] : d.fk[k][j] # NoId => Exists(d, KeyTarget[k], d.fk[k][j])
    BY <1>4 DEF DbOK, ForeignKeysHold
  <2>3. QED
    BY <1>1, <1>4, <2>1, <2>2 DEF Exists, Given
<1>5. KeyWas(n, t, seen, l)
  BY <1>4 DEF KeyWas
<1>6. QED
  BY <1>1, <1>3, <1>5 DEF Scanned, n

-----------------------------------------------------------------------------
(* Sessions: one more edge of a query *)

EdgeNamesOf == {"posts", "pinned_post", "tags", "owner", "pinners", "users"}
Carried(n, e, found) == [n EXCEPT ![e] = found, !.loaded = @ \cup {e}]

\* A node and the edge that it got.
LEMMA CarriedFacts ==
  ASSUME NEW t, NEW l, NEW n, NodeOK(n, t, l), NEW e \in EdgeNamesOf, NEW found
  PROVE  LET m == Carried(n, e, found) IN
         /\ m \in [id : {m.id}, val : {m.val}, loaded : {m.loaded}, fk : {m.fk},
                   posts : {m.posts}, pinned_post : {m.pinned_post}, tags : {m.tags},
                   owner : {m.owner}, pinners : {m.pinners}, users : {m.users}]
         /\ m.id = n.id /\ m.val = n.val /\ m.fk = n.fk /\ m.loaded = n.loaded \cup {e}
         /\ m[e] = found /\ \A f \in EdgeNamesOf \ {e} : m[f] = n[f]
<1>1. CASE e = "posts"
  BY <1>1 DEF NodeOK, Carried, EdgeNamesOf
<1>2. CASE e = "pinned_post"
  BY <1>2 DEF NodeOK, Carried, EdgeNamesOf
<1>3. CASE e = "tags"
  BY <1>3 DEF NodeOK, Carried, EdgeNamesOf
<1>4. CASE e = "owner"
  BY <1>4 DEF NodeOK, Carried, EdgeNamesOf
<1>5. CASE e = "pinners"
  BY <1>5 DEF NodeOK, Carried, EdgeNamesOf
<1>6. CASE e = "users"
  BY <1>6 DEF NodeOK, Carried, EdgeNamesOf
<1>7. QED
  BY <1>1, <1>2, <1>3, <1>4, <1>5, <1>6 DEF EdgeNamesOf

LEMMA EdgesNamed == \A t : Edges(t) \subseteq EdgeNamesOf
  BY DEF Edges, EdgeNamesOf

\* One more edge, if it was the row's, leaves the others.
LEMMA OneMoreEdge ==
  ASSUME NEW t, NEW l, NEW seen, NEW d, NEW n, Scanned(n, t, seen, d, l), NEW e \in Edges(t), NEW found,
         EdgeWas(Carried(n, e, found), t, e, seen, d)
  PROVE  Scanned(Carried(n, e, found), t, seen, d, l)
<1> DEFINE m == Carried(n, e, found)
<1>1. NodeOK(n, t, l) /\ KeyWas(n, t, seen, l) /\ e \in EdgeNamesOf
  BY EdgesNamed DEF Scanned
<1>2. /\ m \in [id : {m.id}, val : {m.val}, loaded : {m.loaded}, fk : {m.fk},
                posts : {m.posts}, pinned_post : {m.pinned_post}, tags : {m.tags},
                owner : {m.owner}, pinners : {m.pinners}, users : {m.users}]
      /\ m.id = n.id /\ m.val = n.val /\ m.fk = n.fk /\ m.loaded = n.loaded \cup {e}
      /\ m[e] = found /\ \A f \in EdgeNamesOf \ {e} : m[f] = n[f]
  BY <1>1, CarriedFacts
<1> HIDE DEF m
<1>3. NodeOK(m, t, l)
  BY <1>1, <1>2 DEF NodeOK
<1>4. KeyWas(m, t, seen, l)
  BY <1>1, <1>2 DEF KeyWas
<1>5. ASSUME NEW f \in n.loaded, f # e PROVE EdgeWas(m, t, f, seen, d)
  <2>1. f \in EdgeNamesOf
    BY <1>1, EdgesNamed DEF NodeOK
  <2>2. m[f] = n[f] /\ m.id = n.id /\ m.fk = n.fk
    BY <1>2, <1>5, <2>1
  <2>3. IdsOf(m, f) = IdsOf(n, f)
    BY <2>2 DEF IdsOf
  <2>4. EdgeWas(n, t, f, seen, d)
    BY DEF Scanned
  <2>5. QED
    BY <2>2, <2>3, <2>4 DEF EdgeWas
<1>6. EdgeWas(m, t, e, seen, d)
  BY DEF m
<1>7. QED
  BY <1>2, <1>3, <1>4, <1>5, <1>6 DEF Scanned, m

LEMMA NodeId == ASSUME NEW d, NEW t, NEW i PROVE Node(d, t, i).id = i
  BY DEF Node
\* Which entities an edge's statement finds.
FoundBy(d, e, n) ==
  IF e = "posts" THEN {Node(d, "posts", j) : j \in {k \in DOMAIN d.fk.user_posts : d.fk.user_posts[k] = n.id}}
  ELSE IF e = "pinned_post" THEN {Node(d, "posts", j) : j \in DOMAIN d.rows.posts \cap {n.fk}}
  ELSE IF e = "tags" THEN {Node(d, "tags", p[2]) : p \in {q \in d.user_tags : q[1] = n.id}}
  ELSE IF e = "owner" THEN DOMAIN d.rows.users \cap {n.fk}
  ELSE IF e = "pinners" THEN {i \in DOMAIN d.fk.user_pinned_post : d.fk.user_pinned_post[i] = n.id}
  ELSE {Node(d, "users", p[1]) : p \in {q \in d.user_tags : q[2] = n.id}}

\* A loader gives every node what its statement found for it.
LEMMA LoadedFound ==
  ASSUME NEW e \in EdgeNamesOf, NEW nodes
  PROVE  Loaded(nodes, e) = {Carried(n, e, FoundBy(db, e, n)) : n \in nodes}
<1>1. CASE e = "posts"
  BY <1>1 DEF Loaded, loadPosts, Assigned, Carried, FoundBy
<1>2. CASE e = "pinned_post"
  BY <1>2 DEF Loaded, loadPinnedPost, Assigned, Carried, FoundBy
<1>3. CASE e = "tags"
  BY <1>3 DEF Loaded, loadTags, Assigned, Carried, FoundBy
<1>4. CASE e = "owner"
  BY <1>4 DEF Loaded, loadOwner, Assigned, Carried, FoundBy
<1>5. CASE e = "pinners"
  BY <1>5 DEF Loaded, loadPinners, Assigned, Carried, FoundBy
<1>6. CASE e = "users"
  BY <1>6 DEF Loaded, loadUsers, Assigned, Carried, FoundBy
<1>7. QED
  BY <1>1, <1>2, <1>3, <1>4, <1>5, <1>6 DEF EdgeNamesOf

\* The edges that are looked up by the row's id are those of the database now.
LEMMA FoundById ==
  ASSUME NEW d, NEW n, NEW e \in {"posts", "tags", "pinners", "users"}, NEW m, m.id = n.id, m[e] = FoundBy(d, e, n)
  PROVE  Linked(d, e, m.id) = IdsOf(m, e)
<1>1. CASE e = "posts"
  BY <1>1, NodeId DEF FoundBy, Linked, IdsOf
<1>2. CASE e = "tags"
  BY <1>2, NodeId DEF FoundBy, Linked, IdsOf
<1>3. CASE e = "pinners"
  BY <1>3 DEF FoundBy, Linked, IdsOf
<1>4. CASE e = "users"
  BY <1>4, NodeId DEF FoundBy, Linked, IdsOf
<1>5. QED
  BY <1>1, <1>2, <1>3, <1>4

\* The row's own key was read before: it is a row that is there, which is then
\* what it named in the database whose key it is; or it is none; or one that is
\* gone.
LEMMA FoundByKey ==
  ASSUME NEW d, DbOK(d), NEW l \in [Tables -> Nat], Given(d, l), NEW t \in DOMAIN OwnKey, NEW seen,
         NEW n, KeyWas(n, t, seen, l), NEW m, m.id = n.id, m.fk = n.fk, m[OwnEdge[t]] = FoundBy(d, OwnEdge[t], n)
  PROVE  EdgeWas(m, t, OwnEdge[t], seen, d)
<1> DEFINE e == OwnEdge[t]
           k == OwnKey[t]
           target == KeyTarget[k]
<1>1. /\ k \in DOMAIN KeyTarget /\ target \in Tables /\ e \in {"pinned_post", "owner"}
      /\ t = "users" => k = "user_pinned_post" /\ target = "posts" /\ e = "pinned_post"
      /\ t = "posts" => k = "user_posts" /\ target = "users" /\ e = "owner"
      /\ t \in {"users", "posts"}
  BY KeyFacts, EdgesOf DEF Tables
<1>2. PICK s \in seen : n.id \in DOMAIN s.fk[k] /\ s.fk[k][n.id] = n.fk
  BY DEF KeyWas
<1>3. NoId \notin DOMAIN d.rows[target] /\ NoId = 0
  BY <1>1 DEF Given, NoId
<1>4. Linked(s, e, n.id) = {n.fk} \ {NoId}
  <2>1. CASE t = "users"
    BY <1>1, <1>2, <2>1 DEF Linked
  <2>2. CASE t = "posts"
    BY <1>1, <1>2, <2>2 DEF Linked
  <2>3. QED
    BY <1>1, <2>1, <2>2
<1>5. IdsOf(m, e) = DOMAIN d.rows[target] \cap {n.fk} /\ (n.fk \notin DOMAIN d.rows[target] => m[e] = {})
  <2>1. CASE t = "users"
    BY <1>1, <2>1, NodeId DEF IdsOf, FoundBy
  <2>2. CASE t = "posts"
    BY <1>1, <2>2 DEF IdsOf, FoundBy
  <2>3. QED
    BY <1>1, <2>1, <2>2
<1>6. CASE n.fk \in DOMAIN d.rows[target]
  <2>1. Linked(s, e, m.id) = IdsOf(m, e)
    BY <1>3, <1>4, <1>5, <1>6
  <2>2. QED
    BY <2>1 DEF EdgeWas
<1>7. CASE n.fk = NoId
  <2>1. Linked(s, e, m.id) = IdsOf(m, e)
    BY <1>3, <1>4, <1>5, <1>7
  <2>2. QED
    BY <2>1 DEF EdgeWas
<1>8. CASE n.fk # NoId /\ n.fk \notin DOMAIN d.rows[target]
  BY <1>1, <1>5, <1>8 DEF EdgeWas, Exists
<1>9. QED
  BY <1>6, <1>7, <1>8

\* An edge is looked up by the row's id or by the key that the row carries.
LEMMA EdgeKinds ==
  /\ \A t \in Tables : \A e \in Edges(t) :
       e \in {"posts", "tags", "pinners", "users"} \/ (t \in DOMAIN OwnKey /\ e = OwnEdge[t])
  BY KeyFacts, EdgesOf DEF Edges, Tables

\* The next edge of a query, at a database that is seen.
LEMMA NextEdge ==
  ASSUME RowsKnown, NEW t \in Tables, NEW e \in Edges(t), NEW seen, db \in seen,
         NEW n, Scanned(n, t, seen, db, last)
  PROVE  Scanned(Carried(n, e, FoundBy(db, e, n)), t, seen, db, last)
<1> DEFINE m == Carried(n, e, FoundBy(db, e, n))
<1>1. m.id = n.id /\ m.fk = n.fk /\ m[e] = FoundBy(db, e, n)
  <2>1. NodeOK(n, t, last) /\ e \in EdgeNamesOf
    BY EdgesNamed DEF Scanned
  <2>2. QED
    BY <2>1, CarriedFacts
<1> HIDE DEF m
<1>2. CASE e \in {"posts", "tags", "pinners", "users"}
  <2>1. Linked(db, e, m.id) = IdsOf(m, e)
    BY <1>1, <1>2, FoundById
  <2>2. EdgeWas(m, t, e, seen, db)
    BY <2>1 DEF EdgeWas
  <2>3. QED
    BY <2>2, OneMoreEdge DEF m
<1>3. CASE t \in DOMAIN OwnKey /\ e = OwnEdge[t]
  <2>1. EdgeWas(m, t, e, seen, db)
    BY <1>1, <1>3, FoundByKey DEF RowsKnown, Scanned
  <2>2. QED
    BY <2>1, OneMoreEdge DEF m
<1>4. QED
  BY <1>2, <1>3, EdgeKinds

-----------------------------------------------------------------------------
(* Sessions: writes, and the queries that see them *)

\* Rows of a database after a write: some of those before, and some with new ids.
RowsFollow(d, w, l, m) ==
  /\ m \in [Tables -> Nat] /\ \A u \in Tables : l[u] =< m[u]
  /\ \A u \in Tables : DOMAIN w.rows[u] \subseteq DOMAIN d.rows[u] \cup (l[u] + 1 .. m[u])

\* What a query has read stays true of the databases it saw when one more is seen.
LEMMA ScannedStill ==
  ASSUME NEW d, NEW w, NEW l \in [Tables -> Nat], NEW m, RowsFollow(d, w, l, m),
         NEW t \in Tables, NEW seen, NEW n, Scanned(n, t, seen, d, l)
  PROVE  Scanned(n, t, seen \cup {w}, w, m)
<1>1. NodeOK(n, t, m)
  <2>1. n.id \in 1 .. m[t]
    BY DEF Scanned, NodeOK, RowsFollow
  <2>2. QED
    BY <2>1 DEF Scanned, NodeOK
<1>2. ASSUME t \in DOMAIN OwnKey
      PROVE  LET u == KeyTarget[OwnKey[t]] IN
             /\ u \in Tables
             /\ n.fk = NoId \/ n.fk \in 1 .. l[u]
             /\ n.fk = NoId \/ n.fk \in 1 .. m[u]
             /\ n.fk # NoId /\ n.fk \notin DOMAIN d.rows[u] => n.fk \notin DOMAIN w.rows[u]
  <2> DEFINE u == KeyTarget[OwnKey[t]]
  <2>1. u \in Tables
    BY <1>2, KeyFacts DEF Tables
  <2>2. n.fk = NoId \/ n.fk \in 1 .. l[u]
    BY <1>2 DEF Scanned, KeyWas
  <2>3. l[u] \in Nat /\ m[u] \in Nat /\ l[u] =< m[u]
    BY <2>1 DEF RowsFollow
  <2>4. DOMAIN w.rows[u] \subseteq DOMAIN d.rows[u] \cup (l[u] + 1 .. m[u])
    BY <2>1 DEF RowsFollow
  <2> HIDE DEF u
  <2>5. QED
    BY <2>1, <2>2, <2>3, <2>4 DEF u
<1>3. KeyWas(n, t, seen \cup {w}, m)
  BY <1>2 DEF Scanned, KeyWas
<1>4. ASSUME NEW e \in n.loaded PROVE EdgeWas(n, t, e, seen \cup {w}, w)
  <2>1. EdgeWas(n, t, e, seen, d)
    BY DEF Scanned
  <2>2. CASE \E s \in seen : Linked(s, e, n.id) = IdsOf(n, e)
    BY <2>2 DEF EdgeWas
  <2>3. CASE /\ e \in {"pinned_post", "owner"} /\ n[e] = {} /\ n.fk # NoId
             /\ ~Exists(d, KeyTarget[OwnKey[t]], n.fk)
    <3>1. t \in DOMAIN OwnKey
      <4>1. e \in Edges(t)
        BY DEF Scanned, NodeOK
      <4>2. QED
        BY <2>3, <4>1, KeyFacts DEF Edges, Tables
    <3>2. QED
      BY <1>2, <2>3, <3>1 DEF EdgeWas, Exists
  <2>4. QED
    BY <2>1, <2>2, <2>3 DEF EdgeWas
<1>5. QED
  BY <1>1, <1>3, <1>4 DEF Scanned

LEMMA QueryStill ==
  ASSUME NEW d, NEW w, NEW l \in [Tables -> Nat], NEW m, RowsFollow(d, w, l, m),
         NEW q, QueryOK(q, d, l), q # Idle
  PROVE  QueryOK([q EXCEPT !.seen = @ \cup {w}], w, m)
<1> DEFINE r == [q EXCEPT !.seen = @ \cup {w}]
<1>1. /\ q \in [table : {q.table}, nodes : {q.nodes}, todo : {q.todo}, seen : {q.seen}]
      /\ q.table \in Tables /\ q.todo \subseteq Edges(q.table) /\ d \in q.seen
      /\ IsFiniteSet(q.nodes) /\ \A n \in q.nodes : Scanned(n, q.table, q.seen, d, l)
  BY DEF QueryOK
<1>2. r.table = q.table /\ r.nodes = q.nodes /\ r.todo = q.todo /\ r.seen = q.seen \cup {w}
  BY <1>1
<1>3. r \in [table : {r.table}, nodes : {r.nodes}, todo : {r.todo}, seen : {r.seen}]
  BY <1>1
<1> HIDE DEF r
<1>4. \A n \in q.nodes : Scanned(n, q.table, q.seen \cup {w}, w, m)
  BY <1>1, ScannedStill
<1>5. QED
  BY <1>1, <1>2, <1>3, <1>4 DEF QueryOK, r

\* Structs outlive the ids that are given after them.
LEMMA HeldStill ==
  ASSUME NEW l \in [Tables -> Nat], NEW m \in [Tables -> Nat], \A u \in Tables : l[u] =< m[u],
         NEW h, HeldOK(h, l)
  PROVE  HeldOK(h, m)
<1>1. ASSUME NEW t \in Tables, NEW s, StructHeld(s, t, l) PROVE StructHeld(s, t, m)
  <2>1. s.ID \in 1 .. l[t] /\ l[t] \in Nat /\ m[t] \in Nat /\ l[t] =< m[t]
    BY <1>1 DEF StructHeld
  <2>2. s.ID \in 1 .. m[t]
    BY <2>1
  <2>3. QED
    BY <1>1, <2>2 DEF StructHeld
<1>2. QED
  BY <1>1 DEF HeldOK

\* A write whose ids follow.
LEMMA WriteSeen ==
  ASSUME SInv, NEW w, Writes(w), DbOK(w), Given(w, last'), RowsFollow(db, w, last, last')
  PROVE  /\ RowsKnown' /\ Queries' /\ writes' \in 0 .. MaxWrites
         /\ \A h : HeldOK(h, last) => HeldOK(h, last')
<1>1. /\ last \in [Tables -> Nat] /\ load = [c \in Clients |-> load[c]] /\ \A c \in Clients : QueryOK(load[c], db, last)
  BY DEF SInv, RowsKnown, Queries
<1>2. last' \in [Tables -> Nat] /\ \A u \in Tables : last[u] =< last'[u]
  BY DEF RowsFollow
<1>3. RowsKnown'
  BY <1>2 DEF RowsKnown, Writes
<1>4. db' = w /\ load' = [c \in Clients |-> IF load[c] = Idle THEN Idle ELSE [load[c] EXCEPT !.seen = @ \cup {w}]]
  BY DEF Writes
<1>5. ASSUME NEW c \in Clients PROVE QueryOK(load'[c], w, last')
  <2>1. CASE load[c] = Idle
    <3>1. load'[c] = Idle
      BY <1>4, <2>1
    <3>2. QED
      BY <3>1 DEF QueryOK, Idle
  <2>2. CASE load[c] # Idle
    <3>1. load'[c] = [load[c] EXCEPT !.seen = @ \cup {w}]
      BY <1>4, <2>2
    <3>2. QueryOK(load[c], db, last)
      BY <1>1
    <3>3. QED
      BY <1>1, <2>2, <3>1, <3>2, QueryStill
  <2>3. QED
    BY <2>1, <2>2
<1>6. Queries'
  BY <1>4, <1>5 DEF Queries
<1>7. writes' \in 0 .. MaxWrites
  BY SessionAssumption DEF Writes, SInv, Counts
<1>8. \A h : HeldOK(h, last) => HeldOK(h, last')
  BY <1>1, <1>2, HeldStill
<1>9. QED
  BY <1>3, <1>6, <1>7, <1>8

-----------------------------------------------------------------------------
(* Sessions: the steps *)

LEMMA ImageFinite ==
  ASSUME NEW S, IsFiniteSet(S), NEW f
  PROVE  IsFiniteSet({f[x] : x \in S})
<1> DEFINE T == {f[x] : x \in S}
           g == [x \in S |-> f[x]]
<1>1. g \in Surjection(S, T)
  BY DEF Surjection
<1> HIDE DEF g, T
<1>2. IsFiniteSet(T)
  BY <1>1, FS_Surjection
<1>3. QED
  BY <1>2 DEF T
LEMMA ListLength == ASSUME NEW q, IsList(q) PROVE Len(q) \in Nat /\ DOMAIN q = 1 .. Len(q)
  BY DEF IsList
LEMMA ListParts ==
  ASSUME NEW q, IsList(q), q # <<>>
  PROVE  /\ Len(q) \in Nat \ {0} /\ DOMAIN q = 1 .. Len(q)
         /\ IsList(Tail(q)) /\ \A k \in 1 .. Len(Tail(q)) : \E j \in 1 .. Len(q) : Tail(q)[k] = q[j]
<1> DEFINE S == {q[k] : k \in 1 .. Len(q)}
<1>1. q \in Seq(S)
  BY DEF IsList
<1> HIDE DEF S
<1>2. Len(q) \in Nat /\ DOMAIN q = 1 .. Len(q)
  BY <1>1
<1>3. Len(q) # 0
  BY <1>1
<1>4. Tail(q) \in Seq(S) /\ Len(Tail(q)) = Len(q) - 1 /\ \A k \in 1 .. Len(q) - 1 : Tail(q)[k] = q[k + 1]
  BY <1>1
<1>5. IsList(Tail(q))
  BY <1>4, SequenceIsList
<1>6. \A k \in 1 .. Len(q) - 1 : k + 1 \in 1 .. Len(q)
  BY <1>2
<1>7. QED
  BY <1>2, <1>3, <1>4, <1>5, <1>6

LEMMA SessionInitOK == SessionInit => SInv
<1> SUFFICES ASSUME SessionInit PROVE SInv
  OBVIOUS
<1>1. Database(db) /\ last = [t \in Tables |-> Cardinality(DOMAIN db.rows[t])]
  BY DatabasesAssumption DEF SessionInit, DatabaseInit
<1>2. DbOK(db)
  BY <1>1, DatabaseOK
<1>3. \A t \in Tables : Cardinality(DOMAIN db.rows[t]) \in Nat /\ DOMAIN db.rows[t] = 1 .. Cardinality(DOMAIN db.rows[t])
  BY <1>1, FS_CardinalityType DEF Database
<1>4. RowsKnown
  BY <1>1, <1>2, <1>3 DEF RowsKnown, Given
<1>5. Queries /\ Holdings
  BY IdleFacts DEF SessionInit, Queries, Holdings
<1>6. Counts
  BY SessionAssumption DEF SessionInit, Counts
<1>7. QED
  BY <1>4, <1>5, <1>6 DEF SInv

\* A step that does not write changes what one query or client holds.
LEMMA NoWrite ==
  ASSUME SInv, UNCHANGED <<db, last>>, NEW c \in Clients, NEW q, NEW h, QueryOK(q, db, last), HeldOK(h, last),
         load' = [load EXCEPT ![c] = q], held' = [held EXCEPT ![c] = h], Counts'
  PROVE  SInv'
<1>1. RowsKnown'
  BY DEF SInv, RowsKnown
<1>2. Queries'
  BY DEF SInv, Queries
<1>3. Holdings'
  BY DEF SInv, Holdings
<1>4. QED
  BY <1>1, <1>2, <1>3 DEF SInv

\* What the invariant says of one client.
LEMMA Same ==
  ASSUME SInv, NEW c \in Clients
  PROVE  /\ QueryOK(load[c], db, last) /\ HeldOK(held[c], last)
         /\ load = [load EXCEPT ![c] = load[c]] /\ held = [held EXCEPT ![c] = held[c]]
<1>1. QueryOK(load[c], db, last) /\ HeldOK(held[c], last) /\ load = [x \in Clients |-> load[x]] /\ held = [x \in Clients |-> held[x]]
  BY DEF SInv, Queries, Holdings
<1>2. QED
  BY <1>1

\* The rows of a query are those of the database.
LEMMA QueryStep ==
  ASSUME SInv, NEW c \in Clients, NEW t \in Tables, NEW with \in Withs[t], Query(c, t, 1 .. last[t], with)
  PROVE  SInv'
<1> DEFINE ids == (1 .. last[t]) \cap DOMAIN db.rows[t]
           nodes == {Node(db, t, i) : i \in ids}
           q == [table |-> t, nodes |-> nodes, todo |-> with, seen |-> {db}]
<1>1. last \in [Tables -> Nat] /\ DbOK(db) /\ Given(db, last)
  BY DEF SInv, RowsKnown
<1>2. IsFiniteSet(nodes)
  <2>1. IsFiniteSet(1 .. last[t])
    BY <1>1, FS_Interval
  <2>2. IsFiniteSet(ids)
    BY <2>1, FS_Subset
  <2> HIDE DEF ids
  <2> DEFINE f == [i \in ids |-> Node(db, t, i)]
  <2>3. IsFiniteSet({f[i] : i \in ids})
    BY <2>2, ImageFinite
  <2>4. {f[i] : i \in ids} = nodes
    OBVIOUS
  <2>5. QED
    BY <2>3, <2>4
<1>3. \A n \in nodes : Scanned(n, t, {db}, db, last)
  BY <1>1, NodeFresh
<1>4. with \subseteq Edges(t)
  BY SessionAssumption
<1>5. QueryOK(q, db, last)
  <2> HIDE DEF nodes
  <2>1. q.table = t /\ q.nodes = nodes /\ q.todo = with /\ q.seen = {db}
    OBVIOUS
  <2>2. q \in [table : {q.table}, nodes : {q.nodes}, todo : {q.todo}, seen : {q.seen}]
    OBVIOUS
  <2> HIDE DEF q
  <2>3. QED
    BY <1>2, <1>3, <1>4, <2>1, <2>2 DEF QueryOK
<1>6. HeldOK(Nil, last)
  BY IdleFacts
<1>7. Counts'
  BY SessionAssumption DEF Query, SInv, Counts
<1>8. load' = [load EXCEPT ![c] = q] /\ held' = [held EXCEPT ![c] = Nil] /\ UNCHANGED <<db, last>>
  BY DEF Query
<1> HIDE DEF q
<1>9. QED
  BY <1>5, <1>6, <1>7, <1>8, NoWrite

\* The next edge is the rows' in the database, or in the one whose key was read.
LEMMA LoadEdgeStep ==
  ASSUME SInv, NEW c \in Clients, NEW e, LoadEdge(c, e)
  PROVE  SInv'
<1> DEFINE q == load[c]
           nodes == {Carried(n, e, FoundBy(db, e, n)) : n \in q.nodes}
           r == [q EXCEPT !.nodes = nodes, !.todo = @ \ {e}]
<1>1. q.nodes # {} /\ e \in q.todo
  BY DEF LoadEdge
<1>2. /\ q \in [table : {q.table}, nodes : {q.nodes}, todo : {q.todo}, seen : {q.seen}]
      /\ q.table \in Tables /\ q.todo \subseteq Edges(q.table) /\ db \in q.seen
      /\ IsFiniteSet(q.nodes) /\ \A n \in q.nodes : Scanned(n, q.table, q.seen, db, last)
  <2>1. QueryOK(q, db, last) /\ q # Idle
    BY <1>1, Same, IdleFacts
  <2>2. QED
    BY <2>1 DEF QueryOK
<1>3. e \in Edges(q.table) /\ e \in EdgeNamesOf /\ RowsKnown
  BY <1>1, <1>2, EdgesNamed DEF SInv
<1>4. Loaded(q.nodes, e) = nodes
  BY <1>3, LoadedFound
<1>5. \A n \in nodes : Scanned(n, q.table, q.seen, db, last)
  BY <1>2, <1>3, NextEdge
<1>6. IsFiniteSet(nodes)
  <2> DEFINE f == [n \in q.nodes |-> Carried(n, e, FoundBy(db, e, n))]
  <2>1. IsFiniteSet({f[n] : n \in q.nodes})
    BY <1>2, ImageFinite
  <2>2. {f[n] : n \in q.nodes} = nodes
    OBVIOUS
  <2>3. QED
    BY <2>1, <2>2
<1> HIDE DEF nodes
<1>7. load' = [load EXCEPT ![c] = r]
  <2>1. load' = [load EXCEPT ![c].nodes = Loaded(@, e), ![c].todo = @ \ {e}]
    BY DEF LoadEdge
  <2>2. load = [x \in Clients |-> load[x]]
    BY DEF SInv, Queries
  <2>3. QED
    BY <1>2, <1>4, <2>1, <2>2
<1>8. QueryOK(r, db, last)
  <2>1. r.table = q.table /\ r.nodes = nodes /\ r.todo = q.todo \ {e} /\ r.seen = q.seen
    BY <1>2
  <2>2. r \in [table : {r.table}, nodes : {r.nodes}, todo : {r.todo}, seen : {r.seen}]
    BY <1>2
  <2> HIDE DEF r
  <2>3. QED
    BY <1>2, <1>5, <1>6, <2>1, <2>2 DEF QueryOK
<1> HIDE DEF r
<1>9. UNCHANGED <<db, last, held, reads, writes, edits>>
  BY DEF LoadEdge
<1>10. HeldOK(held[c], last) /\ held' = [held EXCEPT ![c] = held[c]]
  BY <1>9, Same
<1>11. Counts'
  BY <1>9 DEF SInv, Counts
<1>12. QED
  BY <1>7, <1>8, <1>9, <1>10, <1>11, NoWrite

\* A result becomes structs that can be saved.
LEMMA DeliverStep ==
  ASSUME SInv, NEW c \in Clients, Deliver(c)
  PROVE  SInv'
<1> DEFINE q == load[c]
<1>1. PICK l \in Listings(q.nodes) :
        held' = [held EXCEPT ![c] = [table |-> q.table, structs |-> [k \in DOMAIN l |-> ToDomain(q.table, l[k])]]]
  BY DEF Deliver
<1>2. /\ q.table \in Tables /\ IsFiniteSet(q.nodes) /\ \A n \in q.nodes : NodeOK(n, q.table, last)
  <2>1. QueryOK(q, db, last) /\ q # Idle
    BY Same DEF Deliver
  <2>2. QED
    BY <2>1 DEF QueryOK, Scanned
<1>3. l \in [1 .. Cardinality(q.nodes) -> q.nodes] /\ Cardinality(q.nodes) \in Nat
  BY <1>2, FS_CardinalityType DEF Listings
<1> DEFINE f == [k \in DOMAIN l |-> ToDomain(q.table, l[k])]
           h == [table |-> q.table, structs |-> f]
<1>4. IsList(f) /\ Len(f) = Cardinality(q.nodes)
  <2>1. f = [k \in 1 .. Cardinality(q.nodes) |-> f[k]]
    BY <1>3
  <2> HIDE DEF f
  <2>2. QED
    BY <1>3, <2>1, FunctionIsList
<1>5. \A k \in 1 .. Len(f) : StructHeld(f[k], q.table, last)
  BY <1>2, <1>3, <1>4, ToDomainOK
<1>6. HeldOK(h, last)
  <2> HIDE DEF f
  <2>1. h.table = q.table /\ h.structs = f /\ h \in [table : {h.table}, structs : {h.structs}]
    OBVIOUS
  <2> HIDE DEF h
  <2>2. QED
    BY <1>2, <1>4, <1>5, <2>1 DEF HeldOK
<1>7. held' = [held EXCEPT ![c] = h] /\ load' = [load EXCEPT ![c] = Idle] /\ UNCHANGED <<db, last, reads, writes, edits>>
  BY <1>1 DEF Deliver
<1> HIDE DEF h
<1>8. Counts'
  BY <1>7 DEF SInv, Counts
<1>9. QueryOK(Idle, db, last)
  BY IdleFacts
<1>10. QED
  BY <1>6, <1>7, <1>8, <1>9, NoWrite

LEMMA EditPostsStep ==
  ASSUME SInv, NEW c \in Clients, NEW k \in DOMAIN held[c].structs, NEW j, EditPosts(c, k, j)
  PROVE  SInv'
<1> DEFINE h == held[c]
           s == h.structs[k]
           now == [s EXCEPT !.PostIDs = IF j \in @ THEN @ \ {j} ELSE @ \cup {j}]
           g == [h EXCEPT !.structs = [h.structs EXCEPT ![k] = now]]
<1>1. /\ h \in [table : {h.table}, structs : {h.structs}] /\ h.table = "users" /\ "users" \in Tables
      /\ IsList(h.structs) /\ \A x \in 1 .. Len(h.structs) : StructHeld(h.structs[x], h.table, last)
  <2>1. HeldOK(h, last) /\ h.table = "users"
    BY Same DEF EditPosts
  <2>2. QED
    BY <2>1, IdleFacts DEF HeldOK, Tables
<1>2. Len(h.structs) \in Nat /\ DOMAIN h.structs = 1 .. Len(h.structs)
  BY <1>1, ListLength
<1>3. StructHeld(now, "users", last)
  <2>1. StructHeld(s, "users", last)
    BY <1>1, <1>2
  <2> HIDE DEF s
  <2>2. s \in [ID : {s.ID}, val : {s.val}, PostIDs : {s.PostIDs}, Posts : {s.Posts},
               PinnedPostID : {s.PinnedPostID}, PinnedPost : {s.PinnedPost}, TagIDs : {s.TagIDs}, Tags : {s.Tags}]
    BY <2>1 DEF StructHeld
  <2>3. now.ID = s.ID /\ now.val = s.val
    BY <2>2
  <2>4. now \in [ID : {now.ID}, val : {now.val}, PostIDs : {now.PostIDs}, Posts : {now.Posts},
                 PinnedPostID : {now.PinnedPostID}, PinnedPost : {now.PinnedPost}, TagIDs : {now.TagIDs}, Tags : {now.Tags}]
    BY <2>2
  <2> HIDE DEF now
  <2>5. QED
    BY <2>1, <2>3, <2>4 DEF StructHeld, StructOK
<1>4. held' = [held EXCEPT ![c] = g]
  BY DEF EditPosts
<1> HIDE DEF now
<1> DEFINE f == [h.structs EXCEPT ![k] = now]
<1>5. f = [x \in 1 .. Len(h.structs) |-> f[x]] /\ \A x \in 1 .. Len(h.structs) : f[x] = IF x = k THEN now ELSE h.structs[x]
  BY <1>2
<1>6. IsList(f) /\ Len(f) = Len(h.structs)
  <2> HIDE DEF f
  <2>1. QED
    BY <1>2, <1>5, FunctionIsList
<1>7. g.table = h.table /\ g.structs = f /\ g \in [table : {g.table}, structs : {g.structs}]
  BY <1>1
<1> HIDE DEF f, g, h
<1>8. HeldOK(g, last)
  BY <1>1, <1>3, <1>5, <1>6, <1>7 DEF HeldOK
<1>9. UNCHANGED <<db, last, load, reads, writes>> /\ edits < MaxEdits /\ edits' = edits + 1
  BY DEF EditPosts
<1>10. Counts'
  BY <1>9, SessionAssumption DEF SInv, Counts
<1>11. QueryOK(load[c], db, last) /\ load' = [load EXCEPT ![c] = load[c]]
  BY <1>9, Same
<1>12. QED
  BY <1>4, <1>8, <1>9, <1>10, <1>11, NoWrite

-----------------------------------------------------------------------------
(* Sessions: the saves *)

\* A write, and what a client holds after it.
LEMMA WithWrite ==
  ASSUME SInv, NEW w, Writes(w), DbOK(w), Given(w, last'), RowsFollow(db, w, last, last'),
         UNCHANGED <<reads, edits>>, NEW c \in Clients, NEW h, HeldOK(h, last), held' = [held EXCEPT ![c] = h]
  PROVE  SInv'
<1>1. /\ RowsKnown' /\ Queries' /\ writes' \in 0 .. MaxWrites
      /\ \A g : HeldOK(g, last) => HeldOK(g, last')
  BY WriteSeen
<1>2. Holdings'
  BY <1>1 DEF SInv, Holdings
<1>3. Counts'
  BY <1>1 DEF SInv, Counts
<1>4. QED
  BY <1>1, <1>2, <1>3 DEF SInv

\* A write of somebody else, after which all clients hold what they held.
LEMMA OthersWrite ==
  ASSUME SInv, NEW w, Writes(w), DbOK(w), Given(w, last'), RowsFollow(db, w, last, last'), UNCHANGED <<held, reads, edits>>
  PROVE  SInv'
<1>1. /\ RowsKnown' /\ Queries' /\ writes' \in 0 .. MaxWrites
      /\ \A g : HeldOK(g, last) => HeldOK(g, last')
  BY WriteSeen
<1>2. Holdings'
  BY <1>1 DEF SInv, Holdings
<1>3. Counts'
  BY <1>1 DEF SInv, Counts
<1>4. QED
  BY <1>1, <1>2, <1>3 DEF SInv

\* A write that makes no row gives no id.
LEMMA RowsStay ==
  ASSUME RowsKnown, NEW w, \A u \in Tables : DOMAIN w.rows[u] \subseteq DOMAIN db.rows[u], last' = last
  PROVE  RowsFollow(db, w, last, last') /\ Given(w, last')
<1>1. last \in [Tables -> Nat] /\ Given(db, last)
  BY DEF RowsKnown
<1>2. Given(w, last')
  BY <1>1 DEF Given
<1>3. QED
  BY <1>1, <1>2 DEF RowsFollow

\* The struct at the head of a bulk, and the mutation made of it.
Applied(c) == ApplyDomain(held[c].table, NewMutation, Options[c], Current(c))
LEMMA HeadHeld ==
  ASSUME SInv, NEW c \in Clients, held[c].structs # <<>>
  PROVE  /\ held[c].table \in Tables /\ StructHeld(Current(c), held[c].table, last)
         /\ held[c] \in [table : {held[c].table}, structs : {held[c].structs}]
         /\ IsList(held[c].structs) /\ \A k \in 1 .. Len(held[c].structs) : StructHeld(held[c].structs[k], held[c].table, last)
         /\ MutationOK(Applied(c), held[c].table)
<1>1. HeldOK(held[c], last) /\ held[c] # Nil
  BY Same, IdleFacts
<1>2. /\ held[c].table \in Tables /\ held[c] \in [table : {held[c].table}, structs : {held[c].structs}]
      /\ IsList(held[c].structs) /\ \A k \in 1 .. Len(held[c].structs) : StructHeld(held[c].structs[k], held[c].table, last)
  BY <1>1 DEF HeldOK
<1>3. 1 \in 1 .. Len(held[c].structs)
  BY <1>2, ListParts
<1>4. StructHeld(Current(c), held[c].table, last)
  BY <1>2, <1>3 DEF Current
<1>5. MutationOK(Applied(c), held[c].table)
  BY <1>2, <1>4, NewMutationOK, ApplyDomainOK DEF StructHeld, Applied
<1>6. QED
  BY <1>2, <1>4, <1>5

\* A save that succeeds is an update of the row that the struct names.
LEMMA SavedFacts ==
  ASSUME SInv, NEW c \in Clients, held[c].structs # <<>>
  PROVE  LET s == UpdateSpec(held[c].table, Applied(c)) IN
         /\ DbOK(Saved(c).db) /\ Frame(db, Saved(c).db, s, {Current(c).ID})
         /\ Saved(c).how = "ok" =>
              /\ Current(c).ID \in DOMAIN db.rows[held[c].table]
              /\ UpdateNodes(db, {Current(c).ID}, s, Dialect) = Saved(c)
<1> DEFINE t == held[c].table
           i == Current(c).ID
           m == Applied(c)
           s == UpdateSpec(t, m)
<1>1. t \in Tables /\ MutationOK(m, t) /\ DbOK(db)
  BY HeadHeld DEF SInv, RowsKnown
<1>2. Saved(c) = SaveOne(db, t, i, m, Dialect)
  BY DEF Saved, Applied
<1>3. SpecOK(s) /\ s.table = t
  BY <1>1, UpdateSpecOK
<1> HIDE DEF t, i, m
<1>4. DbOK(Saved(c).db) /\ Frame(db, Saved(c).db, s, {i})
  BY <1>1, <1>2, SaveUpdatesOK
<1> HIDE DEF s
<1>5. ASSUME Saved(c).how = "ok"
      PROVE  i \in DOMAIN db.rows[t] /\ UpdateNodes(db, {i}, s, Dialect) = Saved(c)
  <2>1. SaveOne(db, t, i, m, Dialect) = IF ~StatusValidator(m) THEN Outcome("invalid", db) ELSE UpdateNode(db, i, s, Dialect)
    BY DEF SaveOne, s
  <2>2. Outcome("invalid", db).how # "ok" /\ \A x \in {"refused", "not found"} : Outcome(x, db).how # "ok"
    BY DEF Outcome
  <2>3. Saved(c) = UpdateNode(db, i, s, Dialect)
    BY <1>2, <1>5, <2>1, <2>2
  <2>4. UpdateNode(db, i, s, Dialect) =
          IF ~Exists(db, t, i) THEN Outcome(IF RefersToMissing(db, s) THEN "refused" ELSE "not found", db)
          ELSE UpdateNodes(db, {i}, s, Dialect)
    BY <1>3 DEF UpdateNode
  <2>5. Exists(db, t, i)
    BY <1>5, <2>2, <2>3, <2>4
  <2>6. QED
    BY <2>3, <2>4, <2>5 DEF Exists
<1>6. QED
  BY <1>4, <1>5 DEF s, t, i, m

\* A save leaves the rest of the bulk, or the struct it returned, or nothing.
LEMMA SaveNextStep ==
  ASSUME SInv, NEW c \in Clients, SaveNext(c)
  PROVE  SInv'
<1> DEFINE h == held[c]
           w == Saved(c).db
<1>1. h.structs # <<>> /\ UNCHANGED <<reads, edits>> /\ RowsKnown
  BY DEF SaveNext, SInv
<1>2. /\ h.table \in Tables /\ StructHeld(Current(c), h.table, last)
      /\ h \in [table : {h.table}, structs : {h.structs}]
      /\ IsList(h.structs) /\ \A k \in 1 .. Len(h.structs) : StructHeld(h.structs[k], h.table, last)
  BY <1>1, HeadHeld
<1>3. CASE Saved(c).how # "ok"
  <2>1. held' = [held EXCEPT ![c] = Nil] /\ UNCHANGED <<db, last, load, writes>>
    BY <1>3 DEF SaveNext
  <2>2. Counts'
    BY <1>1, <2>1 DEF SInv, Counts
  <2>3. QueryOK(load[c], db, last) /\ load' = [load EXCEPT ![c] = load[c]]
    BY <2>1, Same
  <2>4. HeldOK(Nil, last)
    BY IdleFacts
  <2>5. QED
    BY <2>1, <2>2, <2>3, <2>4, NoWrite
<1>4. CASE Saved(c).how = "ok"
  <2>1. Writes(w) /\ last' = last
    BY <1>4 DEF SaveNext
  <2>2. DbOK(w) /\ SameRows(w, db) /\ Current(c).ID \in DOMAIN db.rows[h.table]
    BY <1>1, <1>4, SavedFacts DEF Frame
  <2>3. RowsFollow(db, w, last, last') /\ Given(w, last') /\ Given(w, last)
    <3>1. \A u \in Tables : DOMAIN w.rows[u] \subseteq DOMAIN db.rows[u]
      BY <2>2 DEF SameRows
    <3>2. RowsFollow(db, w, last, last') /\ Given(w, last')
      BY <1>1, <2>1, <3>1, RowsStay
    <3>3. QED
      BY <2>1, <3>2
  <2>4. Current(c).ID \in DOMAIN w.rows[h.table] /\ last \in [Tables -> Nat]
    BY <1>1, <1>2, <2>2 DEF SameRows, RowsKnown
  <2>5. held = [x \in Clients |-> held[x]]
    BY DEF SInv, Holdings
  <2> HIDE DEF w
  <2>6. CASE held' = [held EXCEPT ![c].structs = Tail(@)]
    <3> DEFINE g == [h EXCEPT !.structs = Tail(@)]
    <3>1. held' = [held EXCEPT ![c] = g]
      BY <2>6
    <3>2. g.table = h.table /\ g.structs = Tail(h.structs) /\ g \in [table : {g.table}, structs : {g.structs}]
      BY <1>2
    <3> HIDE DEF g
    <3>3. IsList(Tail(h.structs)) /\ \A k \in 1 .. Len(Tail(h.structs)) : StructHeld(Tail(h.structs)[k], h.table, last)
      BY <1>1, <1>2, ListParts
    <3>4. HeldOK(g, last)
      BY <1>2, <3>2, <3>3 DEF HeldOK
    <3>5. QED
      BY <1>1, <2>1, <2>2, <2>3, <3>1, <3>4, WithWrite
  <2>7. CASE held' = [held EXCEPT ![c].structs = <<ToDomain(h.table, Node(w, h.table, Current(c).ID))>>]
    <3> DEFINE s == ToDomain(h.table, Node(w, h.table, Current(c).ID))
               g == [h EXCEPT !.structs = <<s>>]
    <3>1. held' = [held EXCEPT ![c] = g]
      BY <2>7
    <3>2. StructHeld(s, h.table, last)
      <4>1. Scanned(Node(w, h.table, Current(c).ID), h.table, {w}, w, last)
        BY <1>2, <2>2, <2>3, <2>4, NodeFresh
      <4>2. QED
        BY <1>2, <4>1, ToDomainOK DEF Scanned
    <3> HIDE DEF s
    <3>3. g.table = h.table /\ g.structs = <<s>> /\ g \in [table : {g.table}, structs : {g.structs}]
      BY <1>2
    <3>4. IsList(<<s>>) /\ Len(<<s>>) = 1 /\ <<s>>[1] = s
      <4>1. <<s>> \in Seq({s}) /\ Len(<<s>>) = 1 /\ <<s>>[1] = s
        OBVIOUS
      <4>2. QED
        BY <4>1, SequenceIsList
    <3> HIDE DEF g
    <3>5. \A k \in 1 .. Len(<<s>>) : StructHeld(<<s>>[k], h.table, last)
      BY <3>2, <3>4
    <3>6. HeldOK(g, last)
      BY <1>2, <3>3, <3>4, <3>5 DEF HeldOK
    <3>7. QED
      BY <1>1, <2>1, <2>2, <2>3, <3>1, <3>6, WithWrite
  <2>8. QED
    BY <1>4, <2>6, <2>7 DEF SaveNext, w
<1>5. QED
  BY <1>3, <1>4

NewPostMutation(owner) == SetID(Defaults("posts", NewMutation), "owner", owner)
LEMMA NewPostFacts ==
  ASSUME RowsKnown, NEW owner
  PROVE  /\ MutationOK(NewPostMutation(owner), "posts")
         /\ Created(db, SaveNew(db, "posts", last["posts"] + 1, NewPostMutation(owner)).db, "posts", {last["posts"] + 1})
<1>1. "posts" \in Tables /\ last["posts"] + 1 \in Nat /\ DbOK(db)
  BY DEF Tables, RowsKnown
<1>2. MutationOK(NewPostMutation(owner), "posts")
  BY <1>1, NewMutationOK, DefaultsOK, EdgeCalls DEF NewPostMutation
<1>3. QED
  BY <1>1, <1>2, SaveNewOK

LEMMA NewPostStep ==
  ASSUME SInv, NEW owner, NewPost(owner)
  PROVE  SInv'
<1> DEFINE w == SaveNew(db, "posts", last["posts"] + 1, NewPostMutation(owner)).db
<1>1. Writes(w) /\ last' = [last EXCEPT !["posts"] = @ + 1] /\ UNCHANGED <<held, reads, edits>>
  BY DEF NewPost, NewPostMutation
<1>2. Created(db, w, "posts", {last["posts"] + 1}) /\ last \in [Tables -> Nat] /\ Given(db, last)
  BY NewPostFacts DEF SInv, RowsKnown
<1> HIDE DEF w
<1>3. last' \in [Tables -> Nat] /\ \A u \in Tables : last'[u] = IF u = "posts" THEN last[u] + 1 ELSE last[u]
  BY <1>1, <1>2 DEF Tables
<1>4. ASSUME NEW u \in Tables
      PROVE  /\ DOMAIN w.rows[u] \subseteq DOMAIN db.rows[u] \cup (last[u] + 1 .. last'[u])
             /\ DOMAIN w.rows[u] \subseteq 1 .. last'[u]
  <2>1. DOMAIN w.rows[u] \subseteq DOMAIN db.rows[u] \cup (IF u = "posts" THEN {last["posts"] + 1} ELSE {})
    BY <1>2 DEF Created
  <2>2. DOMAIN db.rows[u] \subseteq 1 .. last[u] /\ last[u] \in Nat
    BY <1>2 DEF Given
  <2>3. QED
    BY <1>3, <2>1, <2>2
<1>5. RowsFollow(db, w, last, last') /\ Given(w, last') /\ DbOK(w)
  BY <1>2, <1>3, <1>4 DEF RowsFollow, Given, Created
<1>6. QED
  BY <1>1, <1>5, OthersWrite

LEMMA PinFacts ==
  ASSUME RowsKnown, NEW i, NEW j
  PROVE  LET m == SetID(NewMutation, "pinned_post", j)
             w == SaveOne(db, "users", i, m, Dialect).db
         IN  MutationOK(m, "users") /\ DbOK(w) /\ Frame(db, w, UpdateSpec("users", m), {i})
<1>1. "users" \in Tables /\ DbOK(db) /\ MutationOK(SetID(NewMutation, "pinned_post", j), "users")
  BY NewMutationOK, EdgeCalls DEF Tables, RowsKnown
<1>2. QED
  BY <1>1, SaveUpdatesOK

LEMMA PinDeleteStep ==
  ASSUME SInv, NEW i, NEW j, NEW t \in Tables, Pin(i, j) \/ Delete(t, i)
  PROVE  SInv'
<1>1. UNCHANGED <<last, held, reads, edits>> /\ RowsKnown
  BY DEF Pin, Delete, SInv
<1>3. ASSUME NEW w, Writes(w), DbOK(w), \A u \in Tables : DOMAIN w.rows[u] \subseteq DOMAIN db.rows[u] PROVE SInv'
  <2>1. RowsFollow(db, w, last, last') /\ Given(w, last')
    BY <1>1, <1>3, RowsStay
  <2>2. QED
    BY <1>1, <1>3, <2>1, OthersWrite
<1>4. CASE Pin(i, j)
  <2> DEFINE w == SaveOne(db, "users", i, SetID(NewMutation, "pinned_post", j), Dialect).db
  <2>1. Writes(w)
    BY <1>4 DEF Pin
  <2>2. DbOK(w) /\ SameRows(w, db)
    BY <1>1, PinFacts DEF Frame
  <2> HIDE DEF w
  <2>3. QED
    BY <1>3, <2>1, <2>2 DEF SameRows
<1>5. CASE Delete(t, i)
  <2> DEFINE w == DeleteNodes(db, t, {i})
  <2>1. Writes(w)
    BY <1>5 DEF Delete
  <2>2. DbOK(w) /\ \A u \in Tables : DOMAIN w.rows[u] \subseteq DOMAIN db.rows[u]
    BY <1>1, DeleteNodesOK DEF RowsKnown
  <2> HIDE DEF w
  <2>3. QED
    BY <1>3, <2>1, <2>2
<1>6. QED
  BY <1>4, <1>5

LEMMA SessionNextOK == ASSUME SInv, SessionNext PROVE SInv'
<1>1. CASE \E c \in Clients :
             \/ \E t \in Tables : \E with \in Withs[t] : Query(c, t, 1 .. last[t], with)
             \/ \E e \in DOMAIN Statement : LoadEdge(c, e)
             \/ Deliver(c)
             \/ \E k \in DOMAIN held[c].structs, j \in 1 .. last.posts : EditPosts(c, k, j)
             \/ SaveNext(c)
  BY <1>1, QueryStep, LoadEdgeStep, DeliverStep, EditPostsStep, SaveNextStep
<1>2. CASE \E i \in 1 .. last.users : NewPost(i) \/ \E j \in 1 .. last.posts : Pin(i, j)
  <2>1. "users" \in Tables
    BY DEF Tables
  <2>2. QED
    BY <1>2, <2>1, NewPostStep, PinDeleteStep
<1>3. CASE \E t \in Tables : \E i \in 1 .. last[t] : Delete(t, i)
  BY <1>3, PinDeleteStep
<1>4. QED
  BY <1>1, <1>2, <1>3 DEF SessionNext

\* What queries and clients hold stays true of the databases they saw.
LEMMA SInvHolds == SessionSpec => []SInv
<1>1. SInv /\ UNCHANGED sessionVars => SInv'
  <2> SUFFICES ASSUME SInv, UNCHANGED sessionVars PROVE SInv'
    OBVIOUS
  <2>1. UNCHANGED <<db, last>> /\ UNCHANGED <<load, held>> /\ UNCHANGED <<reads, writes, edits>>
    BY DEF sessionVars
  <2>2. RowsKnown'
    BY <2>1 DEF SInv, RowsKnown
  <2>3. Queries' /\ Holdings' /\ Counts'
    BY <2>1 DEF SInv, Queries, Holdings, Counts
  <2>4. QED
    BY <2>2, <2>3 DEF SInv
<1>2. SInv /\ [SessionNext]_sessionVars => SInv'
  BY <1>1, SessionNextOK
<1>3. QED
  BY <1>2, SessionInitOK, PTL DEF SessionSpec

\* However the saves, new posts, pins and deletes of several clients follow each
\* other, no foreign key and no pair of the shared database refers to a row that is
\* gone, and every row has an id that its sequence gave (domain.go:898-936 and
\* client.go of the example, migrate/schema.go:43-113): what ReferencesStand says of
\* one client, for bulks of stale structs saved between the writes of others.
THEOREM SharedReferencesStand == SessionSpec => [](ForeignKeysHold(db) /\ Given(db, last))
<1>1. SInv => ForeignKeysHold(db) /\ Given(db, last)
  BY DEF SInv, RowsKnown, DbOK
<1>2. QED
  BY <1>1, SInvHolds, PTL

\* EdgesWereTrue is a part of the invariant.
LEMMA SInvIsEnough == SInv => EdgesWereTrue
<1> SUFFICES ASSUME SInv PROVE EdgesWereTrue
  OBVIOUS
<1>1. SInv
  OBVIOUS
<1>2. ASSUME NEW c \in Clients, NEW n \in load[c].nodes
      PROVE  Scanned(n, load[c].table, load[c].seen, db, last)
  <2>1. QueryOK(load[c], db, last) /\ load[c] # Idle
    BY Same, IdleFacts
  <2>2. QED
    BY <2>1 DEF QueryOK
<1>3. ASSUME NEW c \in Clients, NEW k \in DOMAIN held[c].structs
      PROVE  held[c].structs[k].ID \in 1 .. last[held[c].table]
  <2>1. HeldOK(held[c], last) /\ held[c] # Nil
    BY Same, IdleFacts
  <2>2. IsList(held[c].structs) /\ \A x \in 1 .. Len(held[c].structs) : StructHeld(held[c].structs[x], held[c].table, last)
    BY <2>1 DEF HeldOK
  <2>3. QED
    BY <2>2, ListLength DEF StructHeld
<1>4. SessionTyped
  BY <1>1, <1>2, <1>3 DEF SInv, RowsKnown, Given, Counts, SessionTyped, Scanned, NodeOK
<1>5. QED
  BY <1>2, <1>4 DEF EdgesWereTrue, Scanned, EdgeWas

\* Whatever clients write between the statements of a query, every edge that it
\* loads was the row's in one of the databases it was running on, or is a key
\* that names a row deleted since: the keys that the first statement read and the
\* rows that a later one finds make no link that never was (user_query.go:500-623,
\* post_query.go and tag_query.go of the example).
THEOREM NoEdgeInvented == SessionSpec => []EdgesWereTrue
  BY SInvHolds, SInvIsEnough, PTL

-----------------------------------------------------------------------------
(* Sessions: who lets go of a post *)

\* What an ApplyDomain asks of an edge it replaces.
Replaced(n, m, t, cfg, e, field, ids) ==
  /\ MutationOK(n, t) /\ n.removed = m.removed
  /\ n.ids = With(m.ids, e, IDs(m, e) \cup ids)
  /\ n.gone = IF IsAppendEdge(cfg, field) THEN m.gone ELSE m.gone \cup {e}

LEMMA ReplaceFacts ==
  ASSUME NEW t, NEW m, MutationOK(m, t), NEW cfg, NEW e, NEW field, NEW ids
  PROVE  Replaced(ReplaceIDs(m, cfg, e, field, ids), m, t, cfg, e, field, ids)
<1>1. CASE IsAppendEdge(cfg, field)
  <2> DEFINE n == AddIDs(m, e, ids)
  <2>1. MutationOK(n, t)
    BY EdgeCalls
  <2>2. n.removed = m.removed /\ n.gone = m.gone /\ n.ids = With(m.ids, e, IDs(m, e) \cup ids)
    BY AddFacts
  <2>3. ReplaceIDs(m, cfg, e, field, ids) = n
    BY <1>1 DEF ReplaceIDs
  <2> HIDE DEF n
  <2>4. QED
    BY <1>1, <2>1, <2>2, <2>3 DEF Replaced
<1>2. CASE ~IsAppendEdge(cfg, field)
  <2> DEFINE c == ClearEdge(m, e)
             n == AddIDs(c, e, ids)
  <2>1. MutationOK(c, t)
    BY EdgeCalls
  <2>2. c.removed = m.removed /\ c.ids = m.ids /\ c.gone = m.gone \cup {e}
    BY ClearResetFacts
  <2>3. ReplaceIDs(m, cfg, e, field, ids) = n
    BY <1>2 DEF ReplaceIDs
  <2> HIDE DEF c
  <2>4. IDs(c, e) = IDs(m, e)
    BY <2>2 DEF IDs
  <2>5. MutationOK(n, t)
    BY <2>1, EdgeCalls
  <2>6. n.removed = c.removed /\ n.gone = c.gone /\ n.ids = With(c.ids, e, IDs(c, e) \cup ids)
    BY <2>1 DEF AddIDs, MutationOK
  <2> HIDE DEF n
  <2>7. QED
    BY <1>2, <2>2, <2>3, <2>4, <2>5, <2>6 DEF Replaced
<1>3. QED
  BY <1>1, <1>2

\* The ids of an ApplyDomain's edges and no others.
LEMMA ColumnsOnly ==
  ASSUME NEW t, NEW cfg, NEW d, StructOK(d, t), NEW columns, columns \subseteq Columns(t)
  PROVE  LET n == SetColumns(NewMutation, cfg, d, columns) IN
         MutationOK(n, t) /\ DOMAIN n.ids = {} /\ DOMAIN n.removed = {} /\ n.gone = {}
<1> DEFINE n == SetColumns(NewMutation, cfg, d, columns)
<1>1. MutationOK(NewMutation, t)
  BY NewMutationOK
<1>2. MutationOK(n, t)
  BY <1>1, SetColumnsOK
<1>3. n.ids = NewMutation.ids /\ n.removed = NewMutation.removed /\ n.gone = NewMutation.gone
  BY <1>1 DEF SetColumns, MutationOK
<1>4. DOMAIN NewMutation.ids = {} /\ DOMAIN NewMutation.removed = {} /\ NewMutation.gone = {}
  BY DEF NewMutation
<1>5. QED
  BY <1>2, <1>3, <1>4

\* Of a user's posts an ApplyDomain adds those of the struct, and lets go all others or none.
LEMMA UserApplied ==
  ASSUME NEW cfg, NEW d, StructOK(d, "users")
  PROVE  LET x == EdgeChange(ApplyDomain("users", NewMutation, cfg, d), "posts") IN
         x.removed = {} /\ x.added = d.PostIDs /\ (x.all => ~IsAppendEdge(cfg, "post_ids"))
<1> DEFINE a == SetColumns(NewMutation, cfg, d, UserColumns \ UserImmutable)
           b == ReplaceIDs(a, cfg, "posts", "post_ids", d.PostIDs)
           m == ReplaceIDs(b, cfg, "tags", "tag_ids", d.TagIDs)
<1>1. ApplyDomain("users", NewMutation, cfg, d) = m
  BY DEF ApplyDomain, UserUpdateApplyDomain
<1>2. MutationOK(a, "users") /\ DOMAIN a.ids = {} /\ DOMAIN a.removed = {} /\ a.gone = {}
  BY ColumnsOnly, ColumnsOf
<1> HIDE DEF a
<1>3. Replaced(b, a, "users", cfg, "posts", "post_ids", d.PostIDs)
  BY <1>2, ReplaceFacts
<1>10. MutationOK(b, "users")
  BY <1>3 DEF Replaced
<1> HIDE DEF b
<1>4. Replaced(m, b, "users", cfg, "tags", "tag_ids", d.TagIDs)
  BY <1>10, ReplaceFacts
<1> HIDE DEF m
<1>5. RemovedIDs(m, "posts") = {}
  BY <1>2, <1>3, <1>4 DEF RemovedIDs, Replaced
<1>6. IDs(a, "posts") = {}
  BY <1>2 DEF IDs
<1>7. IDs(m, "posts") = d.PostIDs
  BY <1>3, <1>4, <1>6 DEF IDs, With, Replaced
<1>8. "posts" \in m.gone => ~IsAppendEdge(cfg, "post_ids")
  BY <1>2, <1>3, <1>4 DEF Replaced
<1>9. QED
  BY <1>1, <1>5, <1>7, <1>8, ChangeFacts

\* Of a post's owner it asks nothing.
LEMMA PostApplied ==
  ASSUME NEW cfg, NEW d, StructOK(d, "posts")
  PROVE  EdgeChange(ApplyDomain("posts", NewMutation, cfg, d), "owner") = NoChange
<1> DEFINE a == SetColumns(NewMutation, cfg, d, PostColumns)
           m == ReplaceIDs(a, cfg, "pinners", "pinner_ids", d.PinnerIDs)
<1>1. ApplyDomain("posts", NewMutation, cfg, d) = m
  BY DEF ApplyDomain, PostUpdateApplyDomain
<1>2. MutationOK(a, "posts") /\ DOMAIN a.ids = {} /\ DOMAIN a.removed = {} /\ a.gone = {}
  BY ColumnsOnly, ColumnsOf
<1> HIDE DEF a
<1>3. Replaced(m, a, "posts", cfg, "pinners", "pinner_ids", d.PinnerIDs)
  BY <1>2, ReplaceFacts
<1> HIDE DEF m
<1>4. "owner" \notin DOMAIN m.ids /\ "owner" \notin DOMAIN m.removed /\ "owner" \notin m.gone
  BY <1>2, <1>3 DEF With, Replaced
<1>5. QED
  BY <1>1, <1>4, EdgeSeen DEF AddedEdges, RemovedEdges, ClearedEdges

\* A save of a user writes, of the posts that it had, those that it lets go.
PostsAfter(d, s, i) ==
  [j \in DOMAIN d.fk["user_posts"] |->
     IF j \in s.others.added THEN OneOf({i})
     ELSE IF d.fk["user_posts"][j] \in {i} /\ (s.others.all \/ j \in s.others.removed) THEN NoId
     ELSE d.fk["user_posts"][j]]

LEMMA PostsWritten ==
  ASSUME NEW d, DbOK(d), NEW s, SpecOK(s), s.table = "users", NEW i \in DOMAIN d.rows["users"], NEW sql,
         UpdateNodes(d, {i}, s, sql).how = "ok"
  PROVE  UpdateNodes(d, {i}, s, sql).db.fk["user_posts"] = PostsAfter(d, s, i)
<1> DEFINE r == WriteRows(d, {i}, s)
           o == WriteJoin(r, {i}, s, sql)
           k == WriteKeys(o.db, {i}, s)
           u == UpdateNodes(d, {i}, s, sql)
<1>1. OwnTargetExists(d, s) /\ u = IF o.how = "ok" THEN k ELSE o
  <2>1. u.how = "ok" /\ {i} # {}
    OBVIOUS
  <2>2. u = IF sql.strict /\ AssignedTwice(s) THEN Outcome("refused", d)
            ELSE IF ~OwnTargetExists(d, s) THEN Outcome("refused", d)
            ELSE WriteEdges(r, {i}, s, sql)
    BY <2>1 DEF UpdateNodes
  <2>3. WriteEdges(r, {i}, s, sql) = IF o.how = "ok" THEN k ELSE o
    BY DEF WriteEdges
  <2> HIDE DEF u, k, o
  <2>4. Outcome("refused", d).how # "ok"
    BY DEF Outcome
  <2>5. QED
    BY <2>1, <2>2, <2>3, <2>4
<1>2. o.how = "ok" /\ k.how = "ok" /\ u = k
  BY <1>1
<1>3. DbOK(r) /\ SameRows(r, d)
  BY <1>1, WriteRowsOK
<1>4. r.fk["user_posts"] = d.fk["user_posts"]
  <2>1. \A t \in DOMAIN OwnKey : r.fk[OwnKey[t]] =
          IF t = s.table
            THEN [x \in DOMAIN d.fk[OwnKey[t]] |-> Owned(s, x, {i}, d.fk[OwnKey[t]][x])]
          ELSE d.fk[OwnKey[t]]
    <3>1. Shaped(d)
      BY DEF DbOK
    <3> HIDE DEF o, k, u
    <3>2. QED
      BY ONLY <3>1, SpecOK(s), WriteRowsFacts
  <2>2. "posts" \in DOMAIN OwnKey /\ OwnKey["posts"] = "user_posts"
    BY KeyFacts
  <2> HIDE DEF r
  <2>3. QED
    BY <2>1, <2>2
<1>5. {i} \subseteq DOMAIN r.rows[s.table]
  BY <1>3 DEF SameRows, Tables
<1> HIDE DEF r
<1>6. DbOK(o.db) /\ o.db.rows = r.rows /\ o.db.fk = r.fk
  BY <1>3, <1>5, WriteJoinOK
<1> HIDE DEF o
<1>7. KeysWritten(o.db, k.db, s, {i})
  <2>1. {i} # {} /\ {i} \subseteq DOMAIN o.db.rows[s.table] /\ WriteKeys(o.db, {i}, s).how = "ok"
    BY <1>2, <1>5, <1>6
  <2>2. QED
    BY <1>6, <2>1, KeysWrittenWhole
<1>8. s.key = "user_posts" /\ s.key # NoKey
  BY KeyFacts DEF SpecOK
<1> HIDE DEF k, u
<1>9. k.db.fk["user_posts"] = [j \in DOMAIN o.db.fk["user_posts"] |->
        IF j \in s.others.added THEN OneOf({i})
        ELSE IF o.db.fk["user_posts"][j] \in {i} /\ (s.others.all \/ j \in s.others.removed) THEN NoId
        ELSE o.db.fk["user_posts"][j]]
  BY <1>7, <1>8 DEF KeysWritten
<1>10. o.db.fk["user_posts"] = d.fk["user_posts"]
  BY <1>4, <1>6
<1>11. QED
  <2>1. UpdateNodes(d, {i}, s, sql).db = k.db
    BY <1>2 DEF u
  <2>2. QED
    BY <1>9, <1>10, <2>1 DEF PostsAfter

\* What PostsStay says of one step.
LetGoStep ==
  \A j \in DOMAIN db.fk.user_posts \cap DOMAIN db'.fk.user_posts :
    LET was == db.fk.user_posts[j] IN
    was # NoId /\ db'.fk.user_posts[j] # was =>
      \/ was \notin DOMAIN db'.rows.users
      \/ \E c \in Clients :
           /\ SaveNext(c) /\ ~IsAppendEdge(Options[c], "post_ids")
           /\ held[c].table = "users" /\ Current(c).ID = was /\ j \notin Current(c).PostIDs

\* A save drops the posts of its own row alone, and only when told to.
LEMMA SaveLetsGo ==
  ASSUME SInv, NEW c \in Clients, SaveNext(c)
  PROVE  LetGoStep
<1> DEFINE t == held[c].table
           s == UpdateSpec(t, Applied(c))
           i == Current(c).ID
           w == Saved(c).db
<1>1. held[c].structs # <<>> /\ DbOK(db)
  BY DEF SaveNext, SInv, RowsKnown
<1>2. /\ t \in Tables /\ StructHeld(Current(c), t, last) /\ MutationOK(Applied(c), t)
  BY <1>1, HeadHeld
<1>3. SpecOK(s) /\ s.table = t
  BY <1>2, UpdateSpecOK
<1>4. /\ DbOK(w) /\ Frame(db, w, s, {i})
      /\ Saved(c).how = "ok" => i \in DOMAIN db.rows[t] /\ UpdateNodes(db, {i}, s, Dialect) = Saved(c)
  BY <1>1, SavedFacts
<1>5. CASE Saved(c).how # "ok"
  <2>1. db' = db
    BY <1>5 DEF SaveNext
  <2>2. QED
    BY <2>1 DEF LetGoStep
<1>6. CASE Saved(c).how = "ok" /\ t # "users"
  <2>1. db' = w
    BY <1>6 DEF SaveNext, Writes
  <2>2. s.key # "user_posts" /\ (t = "posts" => s.own = NoChange)
    <3>1. CASE t = "posts"
      <4>1. s.own = EdgeChange(Applied(c), "owner") /\ s.key = "user_pinned_post"
        BY <3>1, <1>2, SpecEdges
      <4>2. EdgeChange(Applied(c), "owner") = NoChange
        BY <1>2, <3>1, PostApplied DEF Applied, StructHeld
      <4>3. QED
        BY <4>1, <4>2
    <3>2. CASE t = "tags"
      BY <1>3, <3>2, KeyFacts DEF SpecOK
    <3>3. QED
      BY <1>2, <1>6, <3>1, <3>2 DEF Tables
  <2> HIDE DEF s, w
  <2>3. w.fk["user_posts"] = db.fk["user_posts"]
    BY <1>3, <1>4, <2>2, KeyFacts DEF Frame
  <2>4. QED
    BY <2>1, <2>3 DEF LetGoStep
<1>7. CASE Saved(c).how = "ok" /\ t = "users"
  <2>1. db' = w
    BY <1>7 DEF SaveNext, Writes
  <2>2. s.others = EdgeChange(Applied(c), "posts")
    BY <1>2, <1>7, SpecEdges
  <2>3. /\ s.others.removed = {} /\ s.others.added = Current(c).PostIDs
        /\ s.others.all => ~IsAppendEdge(Options[c], "post_ids")
    BY <1>2, <1>7, <2>2, UserApplied DEF Applied, StructHeld
  <2>4. w.fk["user_posts"] = PostsAfter(db, s, i)
    <3> HIDE DEF s
    <3>1. i \in DOMAIN db.rows["users"] /\ UpdateNodes(db, {i}, s, Dialect) = Saved(c) /\ s.table = "users"
      BY <1>3, <1>4, <1>7
    <3>2. UpdateNodes(db, {i}, s, Dialect).how = "ok"
      BY <1>7, <3>1
    <3> HIDE DEF i
    <3>3. UpdateNodes(db, {i}, s, Dialect).db.fk["user_posts"] = PostsAfter(db, s, i)
      BY <1>1, <1>3, <3>1, <3>2, PostsWritten
    <3>4. QED
      BY <3>1, <3>3
  <2>5. Moved(db, w, "user_posts", {i})
    BY <1>3, <1>4, <1>7 DEF Frame
  <2>6. OneOf({i}) = i /\ i # NoId /\ "user_posts" \in DOMAIN KeyTarget
    BY <1>2, KeyFacts DEF OneOf, StructHeld, NoId, SInv, RowsKnown
  <2> HIDE DEF s, w, i
  <2>7. ASSUME NEW j \in DOMAIN db.fk["user_posts"], db.fk["user_posts"][j] # NoId,
               w.fk["user_posts"][j] # db.fk["user_posts"][j]
        PROVE  s.others.all /\ db.fk["user_posts"][j] = i /\ j \notin s.others.added
    BY <2>3, <2>4, <2>5, <2>6, <2>7 DEF Moved, PostsAfter
  <2>8. QED
    BY <1>7, <2>1, <2>3, <2>7 DEF LetGoStep, i
<1>8. QED
  BY <1>5, <1>6, <1>7

\* A new post has a key of its own.
LEMMA NewPostKeepsPosts ==
  ASSUME SInv, NEW owner, NewPost(owner)
  PROVE  LetGoStep
<1> DEFINE m == NewPostMutation(owner)
           i == last["posts"] + 1
           s == CreateSpec("posts", m)
           r == InsertRows(db, i, <<s>>)
           o == SaveNew(db, "posts", i, m)
<1>1. o.how = "ok" /\ db' = o.db
  BY DEF NewPost, Writes, NewPostMutation
<1>2. /\ MutationOK(m, "posts") /\ DbOK(db) /\ Given(db, last) /\ "posts" \in Tables /\ last["posts"] \in Nat
  BY NewPostFacts DEF SInv, RowsKnown, Tables
<1> HIDE DEF m
<1>3. Check("posts", m) /\ o = CreateNode(db, i, s)
  <2>1. Outcome("invalid", db).how # "ok"
    BY DEF Outcome
  <2>2. o = IF ~Check("posts", m) THEN Outcome("invalid", db) ELSE CreateNode(db, i, s)
    BY DEF SaveNew
  <2>3. QED
    BY <1>1, <2>1, <2>2
<1>4. NewSpec(s) /\ s.table = "posts"
  BY <1>2, <1>3, CreateSpecOK
<1> HIDE DEF s
<1>5. OwnTargetExists(db, s) /\ o = WriteEdges(r, {i}, s, NewPairs)
  <2>1. Outcome("refused", db).how # "ok"
    BY DEF Outcome
  <2>2. o = IF ~OwnTargetExists(db, s) THEN Outcome("refused", db) ELSE WriteEdges(r, {i}, s, NewPairs)
    BY <1>3 DEF CreateNode
  <2>3. QED
    BY <1>1, <2>1, <2>2
<1>6. DbOK(r) /\ i \in DOMAIN r.rows["posts"] /\ \A j \in DOMAIN db.fk["user_posts"] : r.fk["user_posts"][j] = db.fk["user_posts"][j]
  <2> DEFINE specs == <<s>>
  <2>1. Len(specs) = 1 /\ DOMAIN specs = 1 .. 1 /\ specs[1] = s
    OBVIOUS
  <2>2. r = InsertRows(db, i, specs)
    OBVIOUS
  <2> HIDE DEF specs, r
  <2>3. i .. i + Len(specs) - 1 = {i} /\ Len(specs) \in Nat \ {0} /\ DOMAIN specs = 1 .. Len(specs) /\ i \in Nat
    BY <1>2, <2>1
  <2>4. DbOK(r) /\ Grown(db, r, "posts", i .. i + Len(specs) - 1)
    <3>1. \A k \in DOMAIN specs : NewSpec(specs[k]) /\ specs[k].table = "posts" /\ OwnTargetExists(db, specs[k])
      BY <1>4, <1>5, <2>1
    <3> HIDE DEF i
    <3>2. LET v == InsertRows(db, i, specs) IN DbOK(v) /\ Grown(db, v, "posts", i .. i + Len(specs) - 1)
      BY <1>2, <2>3, <3>1, InsertRowsOK
    <3>3. QED
      BY <2>2, <3>2
  <2>5. Inserted(db, r, "posts", i, specs, i .. i + Len(specs) - 1)
    BY <1>2, <1>4, <2>1, <2>2, InsertRowsFacts DEF DbOK
  <2>6. r.fk["user_posts"] = [x \in DOMAIN db.fk["user_posts"] \cup {i} |->
          IF x \in {i} THEN OwnID(specs[x - i + 1]) ELSE db.fk["user_posts"][x]]
    <3> DEFINE new == i .. i + Len(specs) - 1
    <3>1. Inserted(db, r, "posts", i, specs, new) /\ new = {i}
      BY <2>3, <2>5
    <3> HIDE DEF new, i
    <3>2. r.fk["user_posts"] = [x \in DOMAIN db.fk["user_posts"] \cup new |->
            IF x \in new THEN OwnID(specs[x - i + 1]) ELSE db.fk["user_posts"][x]]
      BY ONLY <3>1, KeyFacts DEF Inserted
    <3>3. QED
      BY <3>1, <3>2
  <2>7. i \notin DOMAIN db.fk["user_posts"]
    <3>1. DOMAIN db.fk["user_posts"] = DOMAIN db.rows["posts"]
      BY <1>2, KeyFacts DEF DbOK, ForeignKeysHold
    <3>2. DOMAIN db.rows["posts"] \subseteq 1 .. last["posts"]
      BY <1>2 DEF Given
    <3>3. QED
      BY <1>2, <3>1, <3>2
  <2> HIDE DEF i
  <2>8. i \in DOMAIN r.rows["posts"]
    BY <2>3, <2>4 DEF Grown
  <2>9. QED
    BY <2>4, <2>6, <2>7, <2>8
<1> HIDE DEF r, o
<1>7. EdgesOnly(r, o.db, s, {i})
  <2>1. SpecOK(s) /\ {i} # {} /\ {i} \subseteq DOMAIN r.rows[s.table]
    BY <1>4, <1>6 DEF NewSpec
  <2> HIDE DEF i
  <2>2. QED
    BY <1>5, <1>6, <2>1, WriteEdgesOK
<1>8. o.db.fk["user_posts"] = r.fk["user_posts"]
  BY <1>4, <1>7, KeyFacts DEF EdgesOnly, NewSpec, SpecOK
<1>9. QED
  BY <1>1, <1>6, <1>8 DEF LetGoStep

\* A pin writes another key, a delete nulls those that named its row.
LEMMA PinDeleteKeepPosts ==
  ASSUME SInv, NEW i, NEW j, NEW t \in Tables, Pin(i, j) \/ Delete(t, i)
  PROVE  LetGoStep
<1>1. RowsKnown
  BY DEF SInv
<1>2. CASE Pin(i, j)
  <2> DEFINE m == SetID(NewMutation, "pinned_post", j)
             s == UpdateSpec("users", m)
             w == SaveOne(db, "users", i, m, Dialect).db
  <2>1. db' = w
    BY <1>2 DEF Pin, Writes
  <2>2. MutationOK(m, "users") /\ Frame(db, w, s, {i})
    BY <1>1, PinFacts
  <2>3. s.table = "users" /\ s.others = NoChange
    <3>1. s.table = "users" /\ s.others = EdgeChange(m, "posts")
      BY SpecEdges DEF Tables
    <3>2. m.ids = With(NewMutation.ids, "pinned_post", {j}) /\ m.removed = NewMutation.removed /\ m.gone = NewMutation.gone
      BY NewMutationOK, SetIDFacts
    <3> HIDE DEF m
    <3>3. "posts" \notin DOMAIN m.ids /\ "posts" \notin DOMAIN m.removed /\ "posts" \notin m.gone
      BY <3>2 DEF NewMutation, With
    <3>4. EdgeChange(m, "posts") = NoChange
      BY <3>3, EdgeSeen DEF AddedEdges, RemovedEdges, ClearedEdges
    <3>5. QED
      BY <3>1, <3>4
  <2> HIDE DEF s, w, m
  <2>4. w.fk["user_posts"] = db.fk["user_posts"]
    BY <2>2, <2>3, KeyFacts DEF Frame
  <2>5. QED
    BY <2>1, <2>4 DEF LetGoStep
<1>3. CASE Delete(t, i)
  <2> DEFINE w == DeleteNodes(db, t, {i})
             left == IF t = "posts" THEN Remaining(db.fk["user_posts"], {i}) ELSE db.fk["user_posts"]
  <2>1. db' = w
    BY <1>3 DEF Delete, Writes
  <2>2. w.fk["user_posts"] = IF t = "users" THEN Nulled(left, {i}) ELSE left
    <3>1. "user_posts" \in DOMAIN db.fk /\ "user_posts" # NoKey
      BY <1>1, KeyFacts DEF RowsKnown, DbOK, Shaped
    <3>2. QED
      BY <3>1, KeyFacts DEF DeleteNodes, Tables
  <2>3. w.rows["users"] = IF t = "users" THEN Remaining(db.rows["users"], {i}) ELSE db.rows["users"]
    BY <1>1 DEF DeleteNodes, Tables, RowsKnown, DbOK, Shaped
  <2> HIDE DEF w
  <2>4. ASSUME NEW k \in DOMAIN db.fk["user_posts"] \cap DOMAIN w.fk["user_posts"],
               w.fk["user_posts"][k] # db.fk["user_posts"][k]
        PROVE  db.fk["user_posts"][k] \notin DOMAIN w.rows["users"]
    BY <2>2, <2>3, <2>4 DEF Nulled, Remaining
  <2>5. QED
    BY <2>1, <2>4 DEF LetGoStep
<1>4. QED
  BY <1>2, <1>3

LEMMA EveryStepLetsGo == ASSUME SInv, SessionNext PROVE LetGoStep
<1>1. CASE UNCHANGED db
  BY <1>1 DEF LetGoStep
<1>2. CASE \E c \in Clients : SaveNext(c)
  BY <1>2, SaveLetsGo
<1>3. CASE \E i \in 1 .. last.users : NewPost(i) \/ \E j \in 1 .. last.posts : Pin(i, j)
  <2>1. "users" \in Tables
    BY DEF Tables
  <2>2. QED
    BY <1>3, <2>1, NewPostKeepsPosts, PinDeleteKeepPosts
<1>4. CASE \E t \in Tables : \E i \in 1 .. last[t] : Delete(t, i)
  BY <1>4, PinDeleteKeepPosts
<1>5. QED
  BY <1>1, <1>2, <1>3, <1>4 DEF SessionNext, Query, LoadEdge, Deliver, EditPosts

\* However clients read, edit, save and delete, with bulks that stop in the middle
\* and structs that come back without edges, a post loses its owner only because
\* the owner is deleted or a struct of the owner is saved without the post and
\* without append: the statements of any other save leave its key (domain.go:
\* 898-936 of the example, sqlgraph's UpdateNode).
THEOREM PostsStay == SessionSpec => LetGo
<1>1. SInv /\ UNCHANGED sessionVars => LetGoStep
  BY DEF sessionVars, LetGoStep
<1>2. SInv /\ [SessionNext]_sessionVars => LetGoStep
  BY <1>1, EveryStepLetsGo
<1>3. SessionSpec => []SInv
  BY SInvHolds
<1>4. (\A j \in DOMAIN db.fk.user_posts \cap DOMAIN db'.fk.user_posts :
         LET was == db.fk.user_posts[j] IN
         was # NoId /\ db'.fk.user_posts[j] # was =>
           \/ was \notin DOMAIN db'.rows.users
           \/ \E c \in Clients :
                /\ SaveNext(c) /\ ~IsAppendEdge(Options[c], "post_ids")
                /\ held[c].table = "users" /\ Current(c).ID = was /\ j \notin Current(c).PostIDs) <=> LetGoStep
  BY DEF LetGoStep
<1>5. QED
  BY <1>2, <1>3, <1>4, PTL DEF SessionSpec, LetGo

=============================================================================
