---------------------------- MODULE MCEntSession ----------------------------
\* Instances of EntSession: two users who may pin the same post, two posts and
\* one tag. No column is followed.
EXTENDS EntSession, TLC

Row(t) == [c \in Columns(t) |-> Default]
Base(owners, pinned, pairs) ==
  [rows |-> [users |-> [i \in 1 .. 2 |-> Row("users")], posts |-> [i \in 1 .. 2 |-> Row("posts")],
             tags |-> [i \in 1 .. 1 |-> Row("tags")]],
   fk |-> [user_posts |-> owners, user_pinned_post |-> pinned], user_tags |-> pairs]

InitialDatabases == {Base(<<1, 2>>, <<1, 1>>, {<<1, 1>>})}
CONSTANTS c1, c2
SomeOptions == (c1 :> NoConfig) @@ (c2 :> AppendEdge(AppendEdge(NoConfig, "post_ids"), "tag_ids"))
SomeDialect == [strict |-> FALSE, ignores |-> TRUE]

\* Both edges that a key makes, from either end, and the pairs from that of a tag.
SomeWiths == [users |-> {{"posts", "pinned_post"}}, posts |-> {{"owner", "pinners"}}, tags |-> {{"users"}}]
=============================================================================
