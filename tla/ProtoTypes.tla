----------------------------- MODULE ProtoTypes -----------------------------
(***************************************************************************)
(* How a schema becomes a proto message and a mapper: the proto type of a  *)
(* field, a virtual field or an edge (proto_types.go), the Go type it has  *)
(* in the domain struct (generate.go), the fields of the message and those *)
(* left out (proto_generate.go), and the fields of the mapper with the     *)
(* expressions that convert them (proto_mapper_generate.go). The message   *)
(* and the mapper are built by two functions that walk the schema each on  *)
(* its own and must come to the same fields.                               *)
(***************************************************************************)
EXTENDS Integers, Sequences, FiniteSets

CONSTANTS
    Acronyms,  \* the words that ent writes in capitals: id, api, url
    Numbered   \* the words that start with a digit, or have a letter after one
ASSUME NumberedAssumption == {"id", "ids"} \cap Numbered = {}

-----------------------------------------------------------------------------
\* A name in a schema is in snake case: a sequence of words.  As a Go name it is
\* the same words, each in a form.  ent's pascal knows acronyms, the mapper's own
\* protoPascal does not, and protoc-gen-go gives the field of a message the name
\* GoCamelCase, which keeps the underscore before a digit and starts a new
\* capital after one.
Capital(w) == <<"Capital", w>>
InCapitals(w) == <<"CAPITALS", w>>
pascal(n) == [i \in DOMAIN n |-> IF n[i] \in Acronyms THEN InCapitals(n[i]) ELSE Capital(n[i])]
protoPascal(n) == [i \in DOMAIN n |-> Capital(n[i])]
GoCamelCase(n) == [i \in DOMAIN n |-> IF n[i] \in Numbered THEN <<"split", n[i]>> ELSE Capital(n[i])]

-----------------------------------------------------------------------------
\* A Go type is a base in a form.
Plain(b) == [base |-> b, form |-> "plain"]
Ptr(b) == [base |-> b, form |-> "pointer"]
Slice(b) == [base |-> b, form |-> "slice"]
PtrIf(optional, b) == IF optional THEN Ptr(b) ELSE Plain(b)

SmallInts == {"int", "int8", "int16"}
SmallUints == {"uint", "uint8", "uint16"}
GoInts == SmallInts \cup SmallUints \cup {"int32", "int64", "uint32", "uint64"}
Direct ==
  [string |-> "string", bool |-> "bool", float32 |-> "float", float64 |-> "double",
   int32 |-> "int32", int64 |-> "int64", uint32 |-> "uint32", uint64 |-> "uint64"]

\* The Go types that have a proto type of their own.
WellKnown ==
  [go \in {"time.Time", "time.Duration", "uuid.UUID"} |->
    CASE go = "time.Time" -> "google.protobuf.Timestamp"
      [] go = "time.Duration" -> "google.protobuf.Duration"
      [] go = "uuid.UUID" -> "string"]

-----------------------------------------------------------------------------
\* A proto field: its type, optional or repeated, and the expressions that
\* convert it to proto and back; "" copies.
ProtoFieldSpec(proto, optional, to, from) ==
  [excluded |-> FALSE, proto |-> proto, optional |-> optional, repeated |-> FALSE,
   enum |-> FALSE, nest |-> FALSE, to |-> to, from |-> from]
Excluded == [ProtoFieldSpec("", FALSE, "", "") EXCEPT !.excluded = TRUE]

inferConversionExprs(proto, optional) ==
  CASE proto = "google.protobuf.Timestamp" ->
         IF optional THEN <<"timeToTimestampProto", "timestampProtoToTime">> ELSE <<"timestamppb.New", "AsTime">>
    [] proto = "google.protobuf.Duration" ->
         IF optional THEN <<"durationToDurationProto", "durationProtoToDuration">> ELSE <<"durationpb.New", "AsDuration">>
    [] proto = "google.protobuf.Struct" -> <<"mapToProtoStruct", "protoStructToMap">>
    [] OTHER -> <<"", "">>
Inferred(proto, optional) ==
  LET both == inferConversionExprs(proto, optional) IN ProtoFieldSpec(proto, optional, both[1], both[2])

resolveWellKnownGoType(go, optional) ==
  IF go \in DOMAIN WellKnown THEN Inferred(WellKnown[go], optional) ELSE Excluded

\* A ProtoType annotation wins over everything; its own expressions win over the
\* inferred ones. A slice becomes a repeated field.
Overridden(type, go, optional, exprs) ==
  IF go = "[]string" THEN [ProtoFieldSpec(type, FALSE, "", "") EXCEPT !.repeated = TRUE, !.to = exprs[1], !.from = exprs[2]]
  ELSE IF exprs # <<"", "">> THEN ProtoFieldSpec(type, optional, exprs[1], exprs[2])
  ELSE Inferred(type, optional)

\* A small int is converted to the widest; only int and uint have helpers for
\* their pointers.
Widened(type, optional) ==
  IF type \in SmallInts
    THEN ProtoFieldSpec("int64", optional, IF optional THEN "toInt64Ptr" ELSE "int64", IF optional THEN "fromInt64Ptr" ELSE type)
    ELSE ProtoFieldSpec("uint64", optional, IF optional THEN "toUint64Ptr" ELSE "uint64", IF optional THEN "fromUint64Ptr" ELSE type)

\* A field of the schema f has a type, the Go type go it was given ("" if none),
\* the name of its enum type, whether it is optional, and a ProtoType annotation
\* with its expressions.
resolveEntFieldProtoSpec(f) ==
  IF f.override # "" THEN Overridden(f.override, f.go, f.optional, f.exprs)
  ELSE IF f.type = "uuid" THEN
    IF f.go # "uuid.UUID" THEN Excluded
    ELSE IF f.optional THEN ProtoFieldSpec("string", TRUE, "uuidPtrToProtoString", "protoStringToUUIDPtr")
    ELSE ProtoFieldSpec("string", FALSE, "String", "uuid.MustParse")
  ELSE IF f.type = "json" THEN IF f.go = "map[string]any" THEN Inferred("google.protobuf.Struct", FALSE) ELSE Excluded
  ELSE IF f.go # "" THEN resolveWellKnownGoType(f.go, f.optional)
  ELSE IF f.type \in DOMAIN Direct THEN ProtoFieldSpec(Direct[f.type], f.optional, "", "")
  ELSE IF f.type \in SmallInts \cup SmallUints THEN Widened(f.type, f.optional)
  ELSE IF f.type = "time" THEN [Inferred("google.protobuf.Timestamp", f.optional) EXCEPT !.optional = FALSE]
  ELSE IF f.type = "enum" THEN [ProtoFieldSpec(f.enum, f.optional, "enumToProto", "enumFromProto") EXCEPT !.enum = TRUE]
  ELSE Excluded

\* A virtual field v has a Go type without or with a package.
VirtualDirect == {"string", "bool", "float64", "float32"}
resolveVirtualFieldProtoSpec(v) ==
  IF v.override # "" THEN Overridden(v.override, "", v.optional, v.exprs)
  ELSE IF v.packaged THEN resolveWellKnownGoType(v.go, v.optional)
  ELSE IF v.go \in VirtualDirect \/ (v.go \in {"int64", "int32"} /\ ~v.optional) THEN ProtoFieldSpec(Direct[v.go], v.optional, "", "")
  ELSE IF v.go = "int" THEN Widened("int", v.optional)
  ELSE Excluded

\* The ids of an edge to an entity whose id is of a type; those of any type that
\* is not listed are converted as if they were UUIDs.
CopiedIDs == {"string", "int32", "int64", "uint32", "uint64"}
resolveIDTypeSpec(type, unique) ==
  LET ids == IF type \in SmallInts THEN <<"int64", "int64", "int">>
             ELSE IF type \in SmallUints THEN <<"uint64", "uint64", "uint">>
             ELSE IF type \in CopiedIDs THEN <<type, "", "">>
             ELSE IF unique THEN <<"string", "String", "uuid.MustParse">>
             ELSE <<"string", "uuidSliceToStringSlice", "stringSliceToUUIDSlice">>
  IN  [ProtoFieldSpec(ids[1], FALSE, ids[2], ids[3]) EXCEPT !.repeated = ~unique]

\* An edge e names its target, the type of the target's id, and its modes.
IDsSpec(e) == IF e.skip \/ e.target = "custom" THEN Excluded ELSE resolveIDTypeSpec(e.target, e.unique)
NestSpec(e) ==
  IF e.skip THEN Excluded
  ELSE [ProtoFieldSpec(e.entity, FALSE, "EntityToProto", "EntityFromProto") EXCEPT !.repeated = ~e.unique, !.nest = TRUE]

-----------------------------------------------------------------------------
\* The Go types in the domain struct.
fieldToDomainType(f) ==
  IF f.go # "" THEN IF f.go = "[]string" THEN Slice("string") ELSE PtrIf(f.optional /\ f.go # "map[string]any", f.go)
  ELSE IF f.type = "time" THEN PtrIf(f.optional, "time.Time")
  ELSE IF f.type = "enum" THEN PtrIf(f.optional, f.enum)
  ELSE IF f.type = "bytes" THEN Slice("byte")
  ELSE PtrIf(f.optional, f.type)
IDGoType(e) == IF e.target = "uuid" THEN "uuid.UUID" ELSE e.target
EdgeIDType(e) == IF e.unique THEN Plain(IDGoType(e)) ELSE Slice(IDGoType(e))
EdgeNestType(e) == IF e.unique THEN Ptr(e.entity) ELSE Slice(e.entity)
resolveGoTypeDomainStr(v) == PtrIf(v.optional, v.go)

\* The Go types that protoc-gen-go gives the fields of a message.
ProtoGo ==
  [string |-> "string", bool |-> "bool", float |-> "float32", double |-> "float64",
   int32 |-> "int32", int64 |-> "int64", uint32 |-> "uint32", uint64 |-> "uint64"]
ProtoGoType(spec) ==
  IF spec.repeated THEN Slice(IF spec.nest THEN "*" \o spec.proto
                              ELSE IF spec.proto \in DOMAIN ProtoGo THEN ProtoGo[spec.proto] ELSE "*" \o spec.proto)
  ELSE IF spec.enum THEN PtrIf(spec.optional, "pb." \o spec.proto)
  ELSE IF spec.proto \in DOMAIN ProtoGo THEN PtrIf(spec.optional, ProtoGo[spec.proto])
  ELSE Ptr(spec.proto)

\* What the helpers take and return (proto_helpers.tmpl).
Helpers ==
  [toInt64Ptr |-> <<Ptr("int"), Ptr("int64")>>, fromInt64Ptr |-> <<Ptr("int64"), Ptr("int")>>,
   toUint64Ptr |-> <<Ptr("uint"), Ptr("uint64")>>, fromUint64Ptr |-> <<Ptr("uint64"), Ptr("uint")>>,
   toInt64Slice |-> <<Slice("int"), Slice("int64")>>, fromInt64Slice |-> <<Slice("int64"), Slice("int")>>,
   timeToTimestampProto |-> <<Ptr("time.Time"), Ptr("google.protobuf.Timestamp")>>,
   timestampProtoToTime |-> <<Ptr("google.protobuf.Timestamp"), Ptr("time.Time")>>,
   durationToDurationProto |-> <<Ptr("time.Duration"), Ptr("google.protobuf.Duration")>>,
   durationProtoToDuration |-> <<Ptr("google.protobuf.Duration"), Ptr("time.Duration")>>,
   uuidPtrToProtoString |-> <<Ptr("uuid.UUID"), Ptr("string")>>,
   protoStringToUUIDPtr |-> <<Ptr("string"), Ptr("uuid.UUID")>>,
   uuidSliceToStringSlice |-> <<Slice("uuid.UUID"), Slice("string")>>,
   stringSliceToUUIDSlice |-> <<Slice("string"), Slice("uuid.UUID")>>,
   mapToProtoStruct |-> <<Plain("map[string]any"), Ptr("google.protobuf.Struct")>>,
   protoStructToMap |-> <<Ptr("google.protobuf.Struct"), Plain("map[string]any")>>]
Methods == {"timestamppb.New", "AsTime", "durationpb.New", "AsDuration", "String", "uuid.MustParse"}
Calls ==
  [call \in Methods \cup DOMAIN Helpers |->
    CASE call = "timestamppb.New" -> <<Plain("time.Time"), Ptr("google.protobuf.Timestamp")>>
      [] call = "AsTime" -> <<Ptr("google.protobuf.Timestamp"), Plain("time.Time")>>
      [] call = "durationpb.New" -> <<Plain("time.Duration"), Ptr("google.protobuf.Duration")>>
      [] call = "AsDuration" -> <<Ptr("google.protobuf.Duration"), Plain("time.Duration")>>
      [] call = "String" -> <<Plain("uuid.UUID"), Plain("string")>>
      [] call = "uuid.MustParse" -> <<Plain("string"), Plain("uuid.UUID")>>
      [] OTHER -> Helpers[call]]

\* Whether an expression takes a value of one type and gives one of another, as
\* the compiler sees it; own expressions are their author's business.
Converts(expr, from, to) ==
  \/ expr = "own" \/ (expr = "" /\ from = to)
  \/ expr \in DOMAIN Calls /\ Calls[expr] = <<from, to>>
  \/ expr \in GoInts /\ from.form = "plain" /\ from.base \in GoInts /\ to = Plain(expr)
  \/ expr = "enumToProto" /\ from.form = "plain" /\ to = Plain("pb." \o from.base)
  \/ expr = "enumFromProto" /\ to.form = "plain" /\ from = Plain("pb." \o to.base)
  \/ expr \in {"EntityToProto", "EntityFromProto"}

-----------------------------------------------------------------------------
\* A definition d of an entity: its id, its fields, its edges and its virtual
\* fields.  A field that is bound to an edge holds its foreign key: every function
\* passes over it.  No annotation of the id is asked for: its override is "".  The
\* singular of an edge's name is that of its last word.
singular(n, e) == [n EXCEPT ![Len(n)] = e.one]
HasIDs(e) == "ids" \in e.modes
HasNest(e) == "nest" \in e.modes
FieldSpec(f) == IF f.skip THEN Excluded ELSE resolveEntFieldProtoSpec(f)

\* buildProtoMessageData: the message, its fields named in snake case, and the
\* names of those left out of it.
IDsName(e) == IF e.unique THEN Append(e.name, "id") ELSE Append(singular(e.name, e), "ids")
Wire(name, spec) == [name |-> name, go |-> ProtoGoType(spec)]
Message(d) ==
  {Wire(<<"id">>, [resolveEntFieldProtoSpec(i) EXCEPT !.optional = FALSE]) : i \in {x \in {d.id} : ~resolveEntFieldProtoSpec(x).excluded}}
  \cup {Wire(f.name, resolveEntFieldProtoSpec(f)) : f \in {x \in d.fields : ~x.bound /\ ~x.skip /\ ~resolveEntFieldProtoSpec(x).excluded}}
  \cup {Wire(IDsName(e), IDsSpec(e)) : e \in {x \in d.edges : HasIDs(x) /\ ~IDsSpec(x).excluded}}
  \cup {Wire(e.name, NestSpec(e)) : e \in {x \in d.edges : HasNest(x) /\ ~NestSpec(x).excluded}}
  \cup {Wire(v.name, resolveVirtualFieldProtoSpec(v)) : v \in {x \in d.virtual : ~resolveVirtualFieldProtoSpec(x).excluded}}

\* Mutated form: a field with SkipProto is left out and not recorded.
SkippedUntold(d) ==
  {f.name : f \in {x \in d.fields : ~x.bound /\ ~x.skip /\ resolveEntFieldProtoSpec(x).excluded}}
  \cup {IDsName(e) : e \in {x \in d.edges : HasIDs(x) /\ IDsSpec(x).excluded}}
  \cup {e.name : e \in {x \in d.edges : HasNest(x) /\ NestSpec(x).excluded}}
  \cup {v.name : v \in {x \in d.virtual : resolveVirtualFieldProtoSpec(x).excluded}}

Skipped(d) ==
  (IF resolveEntFieldProtoSpec(d.id).excluded THEN {<<"id">>} ELSE {})
  \cup {f.name : f \in {x \in d.fields : ~x.bound /\ (x.skip \/ resolveEntFieldProtoSpec(x).excluded)}}
  \cup {IDsName(e) : e \in {x \in d.edges : HasIDs(x) /\ IDsSpec(x).excluded}}
  \cup {e.name : e \in {x \in d.edges : HasNest(x) /\ NestSpec(x).excluded}}
  \cup {v.name : v \in {x \in d.virtual : resolveVirtualFieldProtoSpec(x).excluded}}

\* buildProtoMapperFileData: the id, whatever its specification says, then the
\* rest.  A field of the mapper names one of the domain struct and one of the Go
\* struct of the message; for the ids of an edge both names are made by pascal.
\* The ids of an edge that are many int64 are converted by a helper.
Mapped(name, proto, dom, spec) == [name |-> name, proto |-> proto, dom |-> dom, to |-> spec.to, from |-> spec.from]
MappedID(d) == Mapped(<<InCapitals("id")>>, <<Capital("id")>>, fieldToDomainType(d.id), resolveEntFieldProtoSpec(d.id))
MappedField(f) == Mapped(pascal(f.name), protoPascal(f.name), fieldToDomainType(f), resolveEntFieldProtoSpec(f))
EdgeIDName(e) ==
  IF e.unique THEN Append(pascal(e.name), InCapitals("id"))
  ELSE Append([pascal(e.name) EXCEPT ![Len(e.name)][2] = e.one], InCapitals("ids"))

EdgeProtoName(e) ==
  IF e.unique THEN Append(pascal(e.name), Capital("id"))
  ELSE Append(pascal(singular(e.name, e)), Capital("ids"))
MappedIDs(e) ==
  LET spec == IDsSpec(e)
      slices == spec.repeated /\ spec.proto = "int64"
  IN  Mapped(EdgeIDName(e), EdgeProtoName(e), EdgeIDType(e),
             IF slices THEN [spec EXCEPT !.to = "toInt64Slice", !.from = "fromInt64Slice"] ELSE spec)
MappedNest(e) == Mapped(pascal(e.name), protoPascal(e.name), EdgeNestType(e), NestSpec(e))
MappedVirtual(v) == Mapped(pascal(v.name), protoPascal(v.name), resolveGoTypeDomainStr(v), resolveVirtualFieldProtoSpec(v))

\* Mutated form: the mapper does not ask for SkipProto.
MapperFieldsAll(d) ==
  {MappedID(d)}
  \cup {MappedField(f) : f \in {x \in d.fields : ~x.bound /\ ~resolveEntFieldProtoSpec(x).excluded}}
  \cup {MappedIDs(e) : e \in {x \in d.edges : HasIDs(x) /\ ~IDsSpec(x).excluded}}
  \cup {MappedNest(e) : e \in {x \in d.edges : HasNest(x) /\ ~NestSpec(x).excluded}}
  \cup {MappedVirtual(v) : v \in {x \in d.virtual : ~resolveVirtualFieldProtoSpec(x).excluded}}

MapperFields(d) ==
  {MappedID(d)}
  \cup {MappedField(f) : f \in {x \in d.fields : ~x.bound /\ ~x.skip /\ ~resolveEntFieldProtoSpec(x).excluded}}
  \cup {MappedIDs(e) : e \in {x \in d.edges : HasIDs(x) /\ ~IDsSpec(x).excluded}}
  \cup {MappedNest(e) : e \in {x \in d.edges : HasNest(x) /\ ~NestSpec(x).excluded}}
  \cup {MappedVirtual(v) : v \in {x \in d.virtual : ~resolveVirtualFieldProtoSpec(x).excluded}}

NeedsHelpers(fields) == \E m \in fields : m.to \in DOMAIN Helpers \/ m.from \in DOMAIN Helpers

\* buildDomainFileData: the domain struct, with what is excluded from proto.  The
\* Go names of its fields are the expressions that the mapper has.
StructField(name, go) == [name |-> name, go |-> go]
Struct(d) ==
  {StructField(<<InCapitals("id")>>, fieldToDomainType(d.id))}
  \cup {StructField(pascal(f.name), fieldToDomainType(f)) : f \in {x \in d.fields : ~x.bound}}
  \cup {StructField(EdgeIDName(e), EdgeIDType(e)) : e \in {x \in d.edges : HasIDs(x)}}
  \cup {StructField(pascal(e.name), EdgeNestType(e)) : e \in {x \in d.edges : HasNest(x)}}
  \cup {StructField(pascal(v.name), resolveGoTypeDomainStr(v)) : v \in d.virtual}

\* A mapper compiles against a message and a domain struct when every field it
\* names is in both, and its expressions convert between their types.
Compiles(fields, message, struct) ==
  \A m \in fields :
    /\ StructField(m.name, m.dom) \in struct
    /\ \E p \in message : GoCamelCase(p.name) = m.proto /\ Converts(m.to, m.dom, p.go) /\ Converts(m.from, p.go, m.dom)

-----------------------------------------------------------------------------
\* The definitions whose mappers compile.  What a field, a virtual field or an
\* edge has to be is read off the tables above.  Its name has no word that
\* protoc-gen-go and protoPascal write differently; the name before the ids of
\* an edge has no acronym either.  An expression that an annotation gives
\* converts; pointers to small ints other than int and uint have no helper, nor
\* have pointers to enums; a UUID in a field of another type, or virtual, is
\* copied as if it were a string; ids that are small ints are read back as int or
\* uint, of the many ids only those of type int are widened, and ids of other
\* types than those listed are handled as UUIDs.
ConvertsAs(spec, type) == Converts(spec.to, type, ProtoGoType(spec)) /\ Converts(spec.from, ProtoGoType(spec), type)
Without(n, words) == \A i \in DOMAIN n : n[i] \notin words
FieldMaps(f) ==
  /\ f.optional \in BOOLEAN /\ Without(f.name, Numbered)
  /\ f.override # "" => ConvertsAs(resolveEntFieldProtoSpec(f), fieldToDomainType(f))
  /\ f.override = "" =>
       /\ f.go = "uuid.UUID" => f.type \in {"uuid", "json"}
       /\ f.go = "" /\ f.optional => f.type \notin {"int8", "int16", "uint8", "uint16", "enum"}
VirtualMaps(v) ==
  /\ v.optional \in BOOLEAN /\ Without(v.name, Numbered)
  /\ v.override # "" => ConvertsAs(resolveVirtualFieldProtoSpec(v), resolveGoTypeDomainStr(v))
  /\ v.override = "" /\ v.packaged => v.go # "uuid.UUID"
EdgeMaps(e) ==
  /\ e.unique \in BOOLEAN /\ e.name \in Seq(STRING) /\ e.name # <<>> /\ e.one \in STRING
  /\ Without(IF e.unique THEN e.name ELSE singular(e.name, e), Acronyms \cup Numbered)
  /\ e.target \in {"int", "uuid"} \cup IF e.unique THEN CopiedIDs \cup {"uint"} ELSE CopiedIDs \ {"int64"}
Mappable(d) ==
  /\ ~resolveEntFieldProtoSpec(d.id).excluded /\ ~d.id.optional /\ FieldMaps(d.id)
  /\ \A f \in d.fields : ~f.bound /\ ~FieldSpec(f).excluded => FieldMaps(f)
  /\ \A v \in d.virtual : ~resolveVirtualFieldProtoSpec(v).excluded => VirtualMaps(v)
  /\ \A e \in d.edges : HasIDs(e) /\ ~IDsSpec(e).excluded => EdgeMaps(e)
  /\ \A e \in d.edges : HasNest(e) /\ ~NestSpec(e).excluded => Without(e.name, Numbered)

\* No two of the fields that the functions walk have one name in snake case.
Candidates(d) ==
  {[name |-> <<"id">>, kind |-> "id", of |-> d.id]}
  \cup {[name |-> f.name, kind |-> "field", of |-> f] : f \in {x \in d.fields : ~x.bound}}
  \cup {[name |-> IDsName(e), kind |-> "ids", of |-> e] : e \in {x \in d.edges : HasIDs(x)}}
  \cup {[name |-> e.name, kind |-> "nest", of |-> e] : e \in {x \in d.edges : HasNest(x)}}
  \cup {[name |-> v.name, kind |-> "virtual", of |-> v] : v \in d.virtual}
Distinct(d) ==
  /\ \A f \in d.fields \cup d.edges \cup d.virtual : f.name \in Seq(STRING) \ {<<>>}
  /\ \A c1, c2 \in Candidates(d) : c1.name = c2.name => c1 = c2
=============================================================================
