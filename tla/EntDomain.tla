----------------------------- MODULE EntDomain -----------------------------
(***************************************************************************)
(* The mapping that entdomain generated for the example (ent/domain.go):   *)
(* ToDomain of the three entities as a query loaded them, and the calls    *)
(* that the ApplyDomain methods make on a builder's mutation. The ids and  *)
(* the nested structs of an edge are read from the same loaded entities.   *)
(***************************************************************************)
EXTENDS EntSpecs, ApplyOptions

\* A pointer in the struct; settings is a map and has a nil of its own.
IsPointer(c) == c \in UserOptional \ {"settings"}

Read(val) == [c \in DOMAIN val |-> IF val[c] = Null THEN Zero ELSE val[c]]

\* An entity e has its id, its columns, and the entities of the edges that
\* were loaded; the set of an edge that was not loaded is empty. The entities of
\* an edge come without edges of their own: queries that load those too are left
\* out.
Nested(e) == [ID |-> e.id, val |-> Read(e.val)]
PostToDomain(e) ==
  [ID |-> e.id, val |-> Read(e.val),
   OwnerID |-> IF e.owner = {} THEN NoId ELSE CHOOSE i \in e.owner : TRUE,
   PinnerIDs |-> e.pinners]
TagToDomain(e) ==
  [ID |-> e.id, val |-> Read(e.val),
   UserIDs |-> {u.id : u \in e.users}, Users |-> {Nested(u) : u \in e.users}]

UserToDomain(e) ==
  [ID |-> e.id, val |-> Read(e.val),
   PostIDs |-> {p.id : p \in e.posts},
   Posts |-> {Nested(p) : p \in e.posts},
   PinnedPostID |-> IF e.pinned_post = {} THEN NoId ELSE (CHOOSE p \in e.pinned_post : TRUE).id,
   PinnedPost |-> {Nested(p) : p \in e.pinned_post},
   TagIDs |-> {t.id : t \in e.tags},
   Tags |-> {Nested(t) : t \in e.tags}]

-----------------------------------------------------------------------------
\* The columns an ApplyDomain sets; a nil pointer leaves the builder alone.
SetColumns(m, cfg, d, columns) ==
  LET written == {c \in columns : IF IsPointer(c)
                                    THEN ShouldApplyPtr(cfg, c, d.val[c]) /\ d.val[c] # Null
                                    ELSE ShouldApply(cfg, c, d.val[c])}
  IN  [m EXCEPT !.set = Over([c \in written |-> d.val[c]], @)]

\* A create adds the ids it has; an update replaces unless it appends.
AddIfAny(m, e, ids) == IF ids = {} THEN m ELSE AddIDs(m, e, ids)
\* Mutated form: the edge is cleared whatever the options say.
ReplaceIDsAlways(m, cfg, e, field, ids) == AddIDs(ClearEdge(m, e), e, ids)

ReplaceIDs(m, cfg, e, field, ids) ==
  IF IsAppendEdge(cfg, field) THEN AddIDs(m, e, ids)
  ELSE AddIDs(ClearEdge(m, e), e, ids)

UserCreateApplyDomain(m, cfg, d) ==
  AddIfAny(AddIfAny(SetColumns(m, cfg, d, UserColumns), "posts", d.PostIDs), "tags", d.TagIDs)
PostCreateApplyDomain(m, cfg, d) ==
  AddIfAny(SetColumns(m, cfg, d, PostColumns), "pinners", d.PinnerIDs)
TagCreateApplyDomain(m, cfg, d) ==
  AddIfAny(SetColumns(m, cfg, d, TagColumns), "users", d.UserIDs)

\* UserUpdateOne and UserUpdate alike; the pinned post is not written.
UserUpdateApplyDomain(m, cfg, d) ==
  ReplaceIDs(ReplaceIDs(SetColumns(m, cfg, d, UserColumns \ UserImmutable),
                        cfg, "posts", "post_ids", d.PostIDs),
             cfg, "tags", "tag_ids", d.TagIDs)
\* PostUpdateOne and PostUpdate; the owner is not written.
PostUpdateApplyDomain(m, cfg, d) ==
  ReplaceIDs(SetColumns(m, cfg, d, PostColumns), cfg, "pinners", "pinner_ids", d.PinnerIDs)
TagUpdateApplyDomain(m, cfg, d) ==
  ReplaceIDs(SetColumns(m, cfg, d, TagColumns), cfg, "users", "user_ids", d.UserIDs)

ApplyDomain(table, m, cfg, d) ==
  IF table = "users" THEN UserUpdateApplyDomain(m, cfg, d)
  ELSE IF table = "posts" THEN PostUpdateApplyDomain(m, cfg, d)
  ELSE TagUpdateApplyDomain(m, cfg, d)
CreateApplyDomain(table, m, cfg, d) ==
  IF table = "users" THEN UserCreateApplyDomain(m, cfg, d)
  ELSE IF table = "posts" THEN PostCreateApplyDomain(m, cfg, d)
  ELSE TagCreateApplyDomain(m, cfg, d)

=============================================================================
