----------------------------- MODULE MCGenerator -----------------------------
(***************************************************************************)
(* A user and a post.  The user has a version with every field and edge    *)
(* the example schema has, one with every other field type that is mapped  *)
(* or left out, and a plain one; the post is nested, and may lose its      *)
(* annotation when no user nests it.                                       *)
(***************************************************************************)
EXTENDS Generator

Field(name, type, go, optional) ==
    [name |-> name, type |-> type, go |-> go, optional |-> optional, enum |-> "", skip |-> FALSE, bound |-> FALSE,
     override |-> "", exprs |-> <<"", "">>]
As(field, proto, exprs) == [field EXCEPT !.override = proto, !.exprs = exprs]
Edge(name, one, unique, modes, target, entity) ==
    [name |-> name, one |-> one, unique |-> unique, modes |-> modes, target |-> target, entity |-> entity, skip |-> FALSE]
Virtual(name, go, packaged, optional) ==
    [name |-> name, go |-> go, packaged |-> packaged, optional |-> optional, override |-> "", exprs |-> <<"", "">>]
IntId == Field(<<"id">>, "int", "", FALSE)
Entity(fields, edges, virtual) == [id |-> IntId, fields |-> fields, edges |-> edges, virtual |-> virtual]

Both == {"ids", "nest"}
Example == Entity(
    {Field(<<"name">>, "string", "", FALSE), Field(<<"bio">>, "string", "", TRUE),
     [Field(<<"status">>, "enum", "", FALSE) EXCEPT !.enum = "UserStatus"],
     Field(<<"created", "at">>, "time", "", FALSE), [Field(<<"username">>, "string", "", FALSE) EXCEPT !.skip = TRUE],
     Field(<<"score">>, "int", "", TRUE), Field(<<"external", "id">>, "uuid", "uuid.UUID", FALSE),
     Field(<<"updated", "at">>, "time", "", TRUE), Field(<<"settings">>, "json", "map[string]any", TRUE),
     As(Field(<<"labels">>, "json", "map[string]any", FALSE), "google.protobuf.Struct", <<"", "">>),
     As(Field(<<"tag", "names">>, "json", "[]string", FALSE), "string", <<"", "">>),
     As(Field(<<"metadata">>, "json", "UserMetadata", FALSE), "UserMetadata", <<"own", "own">>)},
    {Edge(<<"posts">>, "post", FALSE, Both, "int", "Post"), Edge(<<"pinned", "post">>, "post", TRUE, Both, "int", "Post")},
    {Virtual(<<"full", "name">>, "string", FALSE, FALSE), Virtual(<<"is", "premium">>, "bool", FALSE, FALSE),
     [Virtual(<<"expires", "at">>, "time.Time", TRUE, FALSE) EXCEPT !.override = "google.protobuf.Timestamp"],
     Virtual(<<"subscription", "duration">>, "time.Duration", TRUE, FALSE)})

\* The rest of the types: those with a proto type, then those without.  A name
\* with an acronym may be that of a field or of what is nested; one of the fields
\* is bound to an edge that is not in the domain, one to an edge that is.
Types == Entity(
    {Field(<<t>>, t, "", FALSE) : t \in GoInts \cup {"bool", "float32", "float64", "bytes"}}
    \cup {Field(<<"opt", t>>, t, "", TRUE) : t \in {"int", "uint", "int32", "int64", "uint32", "uint64", "bool", "float64"}}
    \cup {Field(<<"api", "uuid">>, "uuid", "uuid.UUID", TRUE), Field(<<"custom">>, "uuid", "custom", FALSE),
          Field(<<"typed">>, "json", "Typed", FALSE), Field(<<"text">>, "string", "Text", FALSE),
          Field(<<"span">>, "int64", "time.Duration", FALSE), Field(<<"opt", "span">>, "int64", "time.Duration", TRUE),
          [Field(<<"owner", "id">>, "uuid", "uuid.UUID", FALSE) EXCEPT !.bound = TRUE],
          [Field(<<"tenant", "id">>, "int", "", TRUE) EXCEPT !.bound = TRUE]},
    {Edge(<<"posts">>, "post", FALSE, {"ids"}, "int", "Post"), Edge(<<"owner">>, "owner", TRUE, {"ids"}, "uuid", "Account"),
     Edge(<<"peers">>, "peer", FALSE, {"ids"}, "uuid", "Account"), Edge(<<"odd">>, "odd", TRUE, {"ids"}, "custom", "Odd"),
     Edge(<<"api", "posts">>, "post", FALSE, {"nest"}, "int", "Post"),
     [Edge(<<"api", "keys">>, "key", FALSE, {"ids"}, "float64", "Key") EXCEPT !.skip = TRUE]},
    {Virtual(<<"opt", "count">>, "int", FALSE, TRUE), Virtual(<<"amount">>, "Decimal", TRUE, FALSE),
     Virtual(<<"opt", "until">>, "time.Time", TRUE, TRUE)})

\* An edge with ids that are many int64 is all that calls a helper.
Plainer == Entity({Field(<<"name">>, "string", "", FALSE)}, {Edge(<<"posts">>, "post", FALSE, {"ids"}, "int", "Post")}, {})
Post == Entity({Field(<<"title">>, "string", "", FALSE), Field(<<"published">>, "bool", "", FALSE),
                [Field(<<"owner", "id">>, "int", "", FALSE) EXCEPT !.bound = TRUE]},
               {Edge(<<"owner">>, "owner", TRUE, {"ids"}, "int", "User"),
                [Edge(<<"pinners">>, "pinner", FALSE, Both, "int", "User") EXCEPT !.skip = TRUE]}, {})
PostTitle == Entity({Field(<<"title">>, "string", "", TRUE)}, {}, {})

Examples == [full |-> Example, types |-> Types, plainer |-> Plainer, post |-> Post, title |-> PostTitle]
Graph(user, post) == [User |-> user, Post |-> post]
ExampleSchemas ==
    {Graph("full", "post"), Graph("full", "title"), Graph("types", "title"), Graph("plainer", NotAnnotated),
     Graph(NotAnnotated, "title")}
Two == {"User", "Post"}
Opted == {"Post"}
Unknown == "none"

\* What the code converts and names, said in one sentence for a kind of field, is
\* what the compiler accepts: no more, and no less.
FieldTypes == GoInts \cup {"bool", "bytes", "enum", "float32", "float64", "json", "string", "time", "uuid"}
GoTypes == {"", "[]string", "custom", "map[string]any"} \cup DOMAIN WellKnown
Names == {<<"keys">>, <<"api", "keys">>, <<"urls">>, <<"sha", "2">>, <<"external", "id">>}
Fits(m, name, spec) ==
    LET p == ProtoGoType(spec)
    IN  m.proto = GoCamelCase(name) /\ Converts(m.to, m.dom, p) /\ Converts(m.from, p, m.dom)
ASSUME MapsAreExact ==
    /\ \A type \in FieldTypes, go \in GoTypes, optional \in BOOLEAN, name \in Names :
         LET f == [Field(name, type, go, optional) EXCEPT !.enum = "Enum"]
             spec == resolveEntFieldProtoSpec(f)
         IN  ~spec.excluded => (FieldMaps(f) <=> Fits(MappedField(f), f.name, spec))
    /\ \A go \in FieldTypes \cup GoTypes, packaged, optional \in BOOLEAN, name \in Names :
         LET v == Virtual(name, go, packaged, optional)
             spec == resolveVirtualFieldProtoSpec(v)
         IN  ~spec.excluded => (VirtualMaps(v) <=> Fits(MappedVirtual(v), v.name, spec))
    /\ \A target \in FieldTypes \cup {"custom"}, unique \in BOOLEAN, name \in Names, one \in {"key", "url", "2", "id"} :
         LET e == Edge(name, one, unique, {"ids"}, target, "E")
         IN  ~IDsSpec(e).excluded => (EdgeMaps(e) <=> Fits(MappedIDs(e), IDsName(e), IDsSpec(e)))
    /\ \A name \in Names, unique \in BOOLEAN :
         LET e == Edge(name, "x", unique, {"nest"}, "int", "E")
         IN  Without(name, Numbered) <=> Fits(MappedNest(e), e.name, NestSpec(e))

\* The graphs of the run are graphs the theorems are about.
ASSUME ExamplesAreSupported == WellNested /\ WellNamed /\ WellTyped
=============================================================================
