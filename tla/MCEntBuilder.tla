---------------------------- MODULE MCEntBuilder ----------------------------
\* Instances of EntBuilder: two users, two posts and a tag; of the columns an
\* enum with a validator, an optional one, an immutable one and a required one.
EXTENDS EntBuilder

Followed == {"bio", "status", "username", "title"}

Row(t) == [c \in Columns(t) |-> Default]
Base(owners, pinned, pairs) ==
  [rows |-> [users |-> [i \in 1 .. 2 |-> Row("users")], posts |-> [i \in 1 .. 2 |-> Row("posts")],
             tags |-> [i \in 1 .. 1 |-> Row("tags")]],
   fk |-> [user_posts |-> owners, user_pinned_post |-> pinned],
   user_tags |-> pairs]

\* Nothing linked; a post of the other user, who pinned it; all linked.
InitialDatabases ==
  {Base(<<1, 2>>, <<0, 2>>, {<<1, 1>>}), Base(<<1, 0>>, <<1, 1>>, {<<1, 1>>, <<2, 1>>})}

User(bio, status, posts, tags) ==
  [ID |-> 1, val |-> [bio |-> bio, status |-> status, username |-> Zero], PostIDs |-> posts, TagIDs |-> tags]
SomeStructs ==
  [users |-> {User(Null, Zero, {1}, {}), User(Zero, Default, {1, 2}, {1})},
   posts |-> {[ID |-> 1, val |-> [title |-> Zero], PinnerIDs |-> {2}]},
   tags |-> {[ID |-> 1, val |-> <<>>, UserIDs |-> {1}]}]

SomeConfigs ==
  {NoConfig, OmitZeroVal(OnlyFields(NoConfig, {"bio", "status"})),
   AppendEdge(AppendEdge(OnlyFields(NoConfig, {"bio"}), "post_ids"), "tag_ids")}
SomeDialects == {[strict |-> FALSE, ignores |-> FALSE], [strict |-> TRUE, ignores |-> TRUE]}
SomeSelections == {{1}, {1, 2}}
=============================================================================
