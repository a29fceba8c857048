----------------------------- MODULE EntSession -----------------------------
(***************************************************************************)
(* Clients that read users, posts or tags with eager-loaded edges, turn    *)
(* them into domain structs, edit the structs of users and save them one   *)
(* by one, all on one database. A query with WithPosts, WithPinnedPost and *)
(* WithTags is one statement for the rows and one for every edge, in no    *)
(* transaction: what other clients write in between is seen by the later   *)
(* ones only.                                                              *)
(***************************************************************************)
EXTENDS EntDatabase

CONSTANTS
  Clients,
  Options,     \* of a client: the options it saves with
  Dialect,     \* the SQL in use
  Withs,       \* of a table: the sets of edges that a query may load
  MaxReads, MaxWrites, MaxEdits   \* bounds of the model

VARIABLES
  load,      \* of a client: the query that is running
  held,      \* of a client: the structs of a table it holds, in the order of a bulk
  reads, writes, edits   \* how many so far

sessionVars == <<db, last, load, held, reads, writes, edits>>

Nil == [table |-> "none", structs |-> <<>>]
Idle == [table |-> "none", nodes |-> {}, todo |-> {}, seen |-> {}]

ASSUME SessionAssumption ==
  /\ {MaxReads, MaxWrites, MaxEdits} \subseteq Nat /\ Dialect \in Sql
  /\ DOMAIN Options = Clients
  /\ \A t \in Tables : Withs[t] \subseteq SUBSET Edges(t)

SessionInit ==
  /\ DatabaseInit
  /\ load = [c \in Clients |-> Idle] /\ held = [c \in Clients |-> Nil]
  /\ reads = 0 /\ writes = 0 /\ edits = 0

-----------------------------------------------------------------------------
\* An entity as a query scans it: its columns, the foreign key it carries, and
\* edges that are not loaded.
Node(d, table, i) ==
  [id |-> i, val |-> d.rows[table][i], loaded |-> {},
   fk |-> IF table \in DOMAIN OwnKey THEN d.fk[OwnKey[table]][i] ELSE NoId,
   posts |-> {}, pinned_post |-> {}, tags |-> {}, owner |-> {}, pinners |-> {}, users |-> {}]

\* Of the entities that one more query found, each goes to the nodes it belongs
\* to. The rows keyed by this one are looked for by their foreign key, the row
\* that this one names by the key that the first query read.
Assigned(nodes, e, found(_)) == {[n EXCEPT ![e] = found(n), !.loaded = @ \cup {e}] : n \in nodes}

loadPosts(nodes) ==
  Assigned(nodes, "posts",
           LAMBDA n : {Node(db, "posts", j) : j \in {k \in DOMAIN db.fk.user_posts : db.fk.user_posts[k] = n.id}})

\* Mutated form: a post that several users pinned goes to the last of them.
loadPinnedPostOnce(nodes) ==
  Assigned(nodes, "pinned_post",
           LAMBDA n : {Node(db, "posts", j) : j \in {k \in DOMAIN db.rows.posts :
                         n.fk = k /\ ~\E other \in nodes : other.fk = k /\ other.id > n.id}})

loadPinnedPost(nodes) ==
  Assigned(nodes, "pinned_post", LAMBDA n : {Node(db, "posts", j) : j \in DOMAIN db.rows.posts \cap {n.fk}})
loadTags(nodes) ==
  Assigned(nodes, "tags", LAMBDA n : {Node(db, "tags", p[2]) : p \in {q \in db.user_tags : q[1] = n.id}})
loadOwner(nodes) == Assigned(nodes, "owner", LAMBDA n : DOMAIN db.rows.users \cap {n.fk})
loadPinners(nodes) ==
  Assigned(nodes, "pinners",
           LAMBDA n : {i \in DOMAIN db.fk.user_pinned_post : db.fk.user_pinned_post[i] = n.id})
loadUsers(nodes) ==
  Assigned(nodes, "users", LAMBDA n : {Node(db, "users", p[1]) : p \in {q \in db.user_tags : q[2] = n.id}})

Loaded(nodes, e) ==
  CASE e = "posts" -> loadPosts(nodes) [] e = "pinned_post" -> loadPinnedPost(nodes)
    [] e = "tags" -> loadTags(nodes) [] e = "owner" -> loadOwner(nodes)
    [] e = "pinners" -> loadPinners(nodes) [] e = "users" -> loadUsers(nodes)

\* sqlAll of the three queries: the rows, then the edges in the order of the
\* schema. No row, no more statements.
Statement == [posts |-> 1, pinned_post |-> 2, tags |-> 3, owner |-> 4, pinners |-> 5, users |-> 6]
Query(c, table, ids, with) ==
  /\ load[c] = Idle /\ reads < MaxReads /\ reads' = reads + 1
  /\ load' = [load EXCEPT ![c] =
                [table |-> table, nodes |-> {Node(db, table, i) : i \in ids \cap DOMAIN db.rows[table]},
                 todo |-> with, seen |-> {db}]]
  /\ held' = [held EXCEPT ![c] = Nil] /\ UNCHANGED <<db, last, writes, edits>>
LoadEdge(c, e) ==
  /\ load[c].nodes # {}
  /\ e \in load[c].todo /\ \A f \in load[c].todo : Statement[e] =< Statement[f]
  /\ load' = [load EXCEPT ![c].nodes = Loaded(@, e), ![c].todo = @ \ {e}]
  /\ UNCHANGED <<db, last, held, reads, writes, edits>>

\* ToDomain of the list, whose order is the database's.
ToDomain(table, n) ==
  IF table = "users" THEN UserToDomain(n) ELSE IF table = "posts" THEN PostToDomain(n) ELSE TagToDomain(n)
Listings(nodes) == {l \in [1 .. Cardinality(nodes) -> nodes] : \A n \in nodes : \E k \in DOMAIN l : l[k] = n}
Deliver(c) ==
  /\ load[c] # Idle /\ (load[c].todo = {} \/ load[c].nodes = {})
  /\ load' = [load EXCEPT ![c] = Idle]
  /\ \E l \in Listings(load[c].nodes) :
       held' = [held EXCEPT ![c] = [table |-> load[c].table,
                                    structs |-> [k \in DOMAIN l |-> ToDomain(load[c].table, l[k])]]]
  /\ UNCHANGED <<db, last, reads, writes, edits>>

-----------------------------------------------------------------------------
\* Every query that is running may see the database that a write leaves.
Writes(d) ==
  /\ writes < MaxWrites /\ writes' = writes + 1 /\ db' = d
  /\ load' = [c \in Clients |-> IF load[c] = Idle THEN Idle ELSE [load[c] EXCEPT !.seen = @ \cup {d}]]

\* The application adds or drops a post of a user it holds.
EditPosts(c, k, j) ==
  /\ edits < MaxEdits /\ edits' = edits + 1 /\ held[c].table = "users"
  /\ held' = [held EXCEPT ![c].structs[k].PostIDs = IF j \in @ THEN @ \ {j} ELSE @ \cup {j}]
  /\ UNCHANGED <<db, last, load, reads, writes>>

\* Save of an UpdateOneBulk: the next builder of the list, in a transaction of
\* its own. The first error ends it; the rows saved before stay. The struct that
\* comes back has no edges, and the client may save it in its turn.
Current(c) == held[c].structs[1]
Saved(c) ==
  LET t == held[c].table IN
  SaveOne(db, t, Current(c).ID, ApplyDomain(t, NewMutation, Options[c], Current(c)), Dialect)
SaveNext(c) ==
  /\ held[c].structs # <<>>
  /\ \/ /\ Saved(c).how = "ok" /\ Writes(Saved(c).db) /\ UNCHANGED last
        /\ \/ held' = [held EXCEPT ![c].structs = Tail(@)]
           \/ held' = [held EXCEPT ![c].structs = <<ToDomain(held[c].table, Node(Saved(c).db, held[c].table, Current(c).ID))>>]
     \/ /\ Saved(c).how # "ok" /\ held' = [held EXCEPT ![c] = Nil]
        /\ UNCHANGED <<db, last, load, writes>>
  /\ UNCHANGED <<reads, edits>>

\* What else is written to the tables meanwhile, by whatever client.
NewPost(owner) ==
  /\ last' = [last EXCEPT !["posts"] = @ + 1]
  /\ LET r == SaveNew(db, "posts", last.posts + 1,
                      SetID(Defaults("posts", NewMutation), "owner", owner))
     IN  r.how = "ok" /\ Writes(r.db)
  /\ UNCHANGED <<held, reads, edits>>
Pin(i, j) ==
  LET r == SaveOne(db, "users", i, SetID(NewMutation, "pinned_post", j), Dialect) IN
  /\ r.how = "ok" /\ db.fk.user_pinned_post[i] # j /\ Writes(r.db) /\ UNCHANGED <<last, held, reads, edits>>
Delete(table, i) ==
  /\ Exists(db, table, i) /\ Writes(DeleteNodes(db, table, {i})) /\ UNCHANGED <<last, held, reads, edits>>

SessionNext ==
  \/ \E c \in Clients :
       \/ \E t \in Tables : \E with \in Withs[t] : Query(c, t, 1 .. last[t], with)
       \/ \E e \in DOMAIN Statement : LoadEdge(c, e)
       \/ Deliver(c)
       \/ \E k \in DOMAIN held[c].structs, j \in 1 .. last.posts : EditPosts(c, k, j)
       \/ SaveNext(c)
  \/ \E i \in 1 .. last.users : NewPost(i) \/ \E j \in 1 .. last.posts : Pin(i, j)
  \/ \E t \in Tables : \E i \in 1 .. last[t] : Delete(t, i)

SessionSpec == SessionInit /\ [][SessionNext]_sessionVars

-----------------------------------------------------------------------------
SessionTyped ==
  /\ \A t \in Tables : DOMAIN db.rows[t] \subseteq 1 .. last[t]
  /\ \A c \in Clients :
       /\ \A n \in load[c].nodes : n.id \in 1 .. last[load[c].table] /\ n.loaded \subseteq Edges(load[c].table)
       /\ \A k \in DOMAIN held[c].structs : held[c].structs[k].ID \in 1 .. last[held[c].table]
  /\ reads \in 0 .. MaxReads /\ writes \in 0 .. MaxWrites /\ edits \in 0 .. MaxEdits

\* The ids at the other end of an edge of row i.
Linked(d, e, i) ==
  CASE e = "posts" -> {j \in DOMAIN d.fk.user_posts : d.fk.user_posts[j] = i}
    [] e = "pinners" -> {j \in DOMAIN d.fk.user_pinned_post : d.fk.user_pinned_post[j] = i}
    [] e = "tags" -> {p[2] : p \in {q \in d.user_tags : q[1] = i}}
    [] e = "users" -> {p[1] : p \in {q \in d.user_tags : q[2] = i}}
    [] e = "pinned_post" -> IF i \in DOMAIN d.fk.user_pinned_post THEN {d.fk.user_pinned_post[i]} \ {NoId} ELSE {}
    [] e = "owner" -> IF i \in DOMAIN d.fk.user_posts THEN {d.fk.user_posts[i]} \ {NoId} ELSE {}
IdsOf(n, e) == IF e \in {"posts", "pinned_post", "tags", "users"} THEN {m.id : m \in n[e]} ELSE n[e]

\* The state has its type; and however the statements of a query interleave
\* with writes, each edge it loads is one the row had at some moment of the
\* query: the keys read first and the rows read later make no link that never
\* was (user_query.go:500-623 and the loaders of posts and tags). The exception
\* is a unique edge shown as none though the row always had one: it named
\* another row after the first statement, and the row it named then was deleted
\* before its own statement.
EdgesWereTrue ==
  /\ SessionTyped
  /\ \A c \in Clients : \A n \in load[c].nodes : \A e \in n.loaded :
       \/ \E d \in load[c].seen : Linked(d, e, n.id) = IdsOf(n, e)
       \/ /\ e \in {"pinned_post", "owner"} /\ n[e] = {} /\ n.fk # NoId
          /\ ~Exists(db, KeyTarget[OwnKey[load[c].table]], n.fk)

\* A post loses its owner only when the owner is deleted, or when a client saves
\* a struct of the owner that leaves the post out and does not append: a move
\* between the structs of a bulk that fails in the middle, a save of the struct
\* that a save returned, and writes of others lose no post in any other way.
LetGo ==
  [][\A j \in DOMAIN db.fk.user_posts \cap DOMAIN db'.fk.user_posts :
       LET was == db.fk.user_posts[j] IN
       was # NoId /\ db'.fk.user_posts[j] # was =>
         \/ was \notin DOMAIN db'.rows.users
         \/ \E c \in Clients :
              /\ SaveNext(c) /\ ~IsAppendEdge(Options[c], "post_ids")
              /\ held[c].table = "users" /\ Current(c).ID = was /\ j \notin Current(c).PostIDs]_sessionVars

=============================================================================
