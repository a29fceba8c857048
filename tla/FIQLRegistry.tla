---------------------------- MODULE FIQLRegistry ----------------------------
(***************************************************************************)
(* The field registry of one entity, from the annotations of its schema to *)
(* the answers of a running service: entdomain.Field(FIQL(...)), merged by *)
(* ent (annotation.go), the kind of each field (kinds.go), the generated   *)
(* XxxFIQLFields (template.go, template/fiql.tmpl), the build of that file *)
(* and apply of each FIQL type (fiql.go).                                  *)
(*                                                                         *)
(* The schema goes on changing while a build of an older one is serving.   *)
(*                                                                         *)
(* A cell is the set of the values it holds: {} for NULL, {v} otherwise.   *)
(***************************************************************************)
EXTENDS Integers, Sequences, FiniteSets, SequencesExt

CONSTANTS
    Declared,       \* for each field of the entity the declarations it may have
    Meaning,        \* for each kind the texts its parser reads, with their values
    Texts,          \* operands of a query
    MaxListValues,  \* maxFIQLListValues
    MaxEdits        \* bound on the changes of the schema

ListOps == {"In", "NotIn"}
NullOps == {"IsNull", "NotNull"}
OrderOps == {"GT", "LT", "GTE", "LTE"}
Op == {"EQ", "NEQ", "Contains", "HasPrefix"} \cup OrderOps \cup ListOps \cup NullOps

Field == DOMAIN Declared
Decl == UNION {Declared[f] : f \in Field}

\* optional: Optional() or Nillable(); edge: the column of an edge (IsEdgeField);
\* values: those of an enum, as texts; annotations: the operators of each entdomain.Field(...) on the field.
Declaration(type, optional, edge, values, annotations) ==
    [type |-> type, optional |-> optional, edge |-> edge, values |-> values,
     annotations |-> annotations]

ASSUME RegistryAssumption ==
    /\ MaxListValues \in Nat \ {0} /\ MaxEdits \in Nat
    /\ \A d \in Decl :
          /\ d.annotations \in Seq(Seq(Op)) /\ d.edge \in BOOLEAN /\ d.optional \in BOOLEAN
          /\ d.type = "enum" => d.values \subseteq DOMAIN Meaning["Enum"]

VARIABLES
    schema,     \* the declarations in the source tree
    generated,  \* the generated registry, with the schema it is of
    serving,    \* the same of the build that is running
    answer,     \* the comparison CompileFIQL was asked for, with what it returned
    edits

vars == <<schema, generated, serving, answer, edits>>

-----------------------------------------------------------------------------
(***************************************************************************)
(* Generation                                                              *)
(***************************************************************************)

\* Mutated form: the later annotation wins.
MergeLast(a, b) == IF b = <<>> THEN a ELSE b

\* FieldAnnotation.Merge: an annotation with operators is kept as it is.
Merge(a, b) == IF a = <<>> THEN b ELSE a
Merged(annotations) ==
    LET merged[n \in 0..Len(annotations)] ==
            IF n = 0 THEN <<>> ELSE Merge(merged[n - 1], annotations[n])
    IN  merged
FIQLOps(d) == Merged(d.annotations)[Len(d.annotations)]

resolveFieldKind(type) ==
    CASE type = "string" -> "String"
      [] type \in {"int", "int64"} -> "Int"
      [] type \in {"float64", "float32"} -> "Float"
      [] type = "bool" -> "Bool"
      [] type = "time" -> "Time"
      [] type = "enum" -> "Enum"
      [] type = "uuid.UUID" -> "UUID"
      [] OTHER -> ""  \* a UUID of another Go type, JSON, bytes, other

\* The members of each FIQL type, which hold ent's predicates.
FIQLString == {"EQ", "NEQ", "Contains", "HasPrefix"} \cup ListOps \cup NullOps
FIQLInt == {"EQ", "NEQ"} \cup OrderOps \cup ListOps \cup NullOps
FIQLFloat == FIQLInt
FIQLTime == {"EQ", "NEQ"} \cup OrderOps \cup NullOps
FIQLBool == {"EQ"} \cup NullOps
FIQLUUID == {"EQ", "NEQ"} \cup ListOps \cup NullOps
FIQLEnum == {"EQ", "NEQ"} \cup NullOps

Members(kind) ==
    CASE kind = "String" -> FIQLString
      [] kind = "Int" -> FIQLInt
      [] kind = "Float" -> FIQLFloat
      [] kind = "Time" -> FIQLTime
      [] kind = "Bool" -> FIQLBool
      [] kind = "UUID" -> FIQLUUID
      [] kind = "Enum" -> FIQLEnum

\* Mutated form: only one of the two null tests is looked for.
RefusedForIsNull(d) == ~ d.edge /\ ~ d.optional /\ "IsNull" \in Range(FIQLOps(d))

\* fieldFIQLAnnotation fails, and with it the generation.
Refused(d) == ~ d.edge /\ ~ d.optional /\ Range(FIQLOps(d)) \cap NullOps # {}

\* One entry of the registry.  The template has a list of branches for enums
\* and one for the rest, and writes a member for each operator that has one:
\* members are by the place of the operator in the annotation.
Entry(d) ==
    LET kind == resolveFieldKind(d.type)
        HasBranch(op) == kind # "Enum" \/ op \in FIQLEnum
        ops == FIQLOps(d)
    IN  [kind |-> kind, type |-> d.type, values |-> d.values,
         members |-> [i \in {k \in DOMAIN ops : HasBranch(ops[k])} |-> ops[i]]]

Registered(s) == {f \in Field : ~ s[f].edge /\ FIQLOps(s[f]) # <<>>}
Registry(s) == [f \in Registered(s) |-> Entry(s[f])]

\* Whether the Go compiler takes an entry: a FIQL type of that name, its
\* members, each once, and predicates of ent that take the operands it passes.
OperandMatches(type) == type \notin {"int64", "float32"}
EntryBuilds(e) ==
    /\ e.kind # ""
    /\ Range(e.members) \subseteq Members(e.kind)
    /\ IsInjective(e.members)
    /\ OperandMatches(e.type) \/ Range(e.members) \subseteq NullOps

-----------------------------------------------------------------------------
(***************************************************************************)
(* apply                                                                   *)
(***************************************************************************)

\* The cells ent's predicate for op selects, given the values vs.
Selects(op, vs, c) ==
    CASE op = "EQ" -> c = {vs[1]}
      [] op = "NEQ" -> c # {} /\ c # {vs[1]}
      [] op = "GT" -> \E x \in c : x > vs[1]
      [] op = "LT" -> \E x \in c : x < vs[1]
      [] op = "GTE" -> \E x \in c : x >= vs[1]
      [] op = "LTE" -> \E x \in c : x <= vs[1]
      [] op = "Contains" -> \E x \in c : \E i, j \in 1..Len(x) : SubSeq(x, i, j) = vs[1]
      [] op = "HasPrefix" -> \E x \in c : IsPrefix(vs[1], x)
      [] op = "In" -> c # {} /\ c \subseteq Range(vs)
      [] op = "NotIn" -> c # {} /\ c \cap Range(vs) = {}
      [] op = "IsNull" -> c = {}
      [] op = "NotNull" -> c # {}

\* The cells a column of that kind may hold.
Cell(kind) == {{}} \cup {{v} : v \in Range(Meaning[kind])}

Rejected == [accepted |-> FALSE, cells |-> {}]
Predicate(cells) == [accepted |-> TRUE, cells |-> cells]
NativePredicate(kind, op, vs) == Predicate({c \in Cell(kind) : Selects(op, vs, c)})

\* Of the operands a comparison carries, those its operator uses.
Used(op, val, vals) ==
    CASE op \in ListOps -> vals
      [] op \in NullOps -> <<>>
      [] OTHER -> <<val>>

\* apply of every kind but enum: a member that is set, operands that parse.
applyTyped(e, op, operands) ==
    IF op \notin Range(e.members) \/ ~ Range(operands) \subseteq DOMAIN Meaning[e.kind]
    THEN Rejected
    ELSE NativePredicate(e.kind, op, [i \in DOMAIN operands |-> Meaning[e.kind][operands[i]]])

\* Mutated form: the predicates of =out= are joined with orPreds.
ComposedWithOr(e, op, operands) ==
    {c \in Cell("Enum") :
        \E i \in DOMAIN operands :
            Selects(IF op = "In" THEN "EQ" ELSE "NEQ", <<Meaning["Enum"][operands[i]]>>, c)}

\* A list of an enum: orPreds of its == predicates, andPreds of its != ones.
Composed(e, op, operands) ==
    LET Holds(scalar, i, c) == Selects(scalar, <<Meaning["Enum"][operands[i]]>>, c)
    IN  {c \in Cell("Enum") :
            IF op = "In" THEN \E i \in DOMAIN operands : Holds("EQ", i, c)
            ELSE \A i \in DOMAIN operands : Holds("NEQ", i, c)}

\* FIQLEnum.apply: predicates are looked up by the value they were built for.
applyEnum(e, op, operands) ==
    LET member == CASE op = "In" -> "EQ" [] op = "NotIn" -> "NEQ" [] OTHER -> op
    IN  IF member \notin Range(e.members) \/ ~ Range(operands) \subseteq e.values
        THEN Rejected
        ELSE IF op \in ListOps THEN Predicate(Composed(e, op, operands))
        ELSE NativePredicate("Enum", op, [i \in DOMAIN operands |-> Meaning["Enum"][operands[i]]])

\* The comparison case of compileNode.
CompileCmp(reg, f, op, val, vals) ==
    IF (op \in ListOps /\ Len(vals) \notin 1..MaxListValues) \/ f \notin DOMAIN reg
    THEN Rejected
    ELSE IF reg[f].kind = "Enum" THEN applyEnum(reg[f], op, Used(op, val, vals))
    ELSE applyTyped(reg[f], op, Used(op, val, vals))

-----------------------------------------------------------------------------
NoAnswer == [op |-> "none", result |-> Rejected]
NoBuild == [schema |-> <<>>, registry |-> <<>>]

Init ==
    /\ schema \in [Field -> Decl]
    /\ \A f \in Field : schema[f] \in Declared[f]
    /\ generated = NoBuild
    /\ serving = NoBuild
    /\ answer = NoAnswer
    /\ edits = 0

\* The author gives a field another declaration.
Declare(f, d) ==
    /\ edits < MaxEdits
    /\ edits' = edits + 1
    /\ schema' = [schema EXCEPT ![f] = d]
    /\ UNCHANGED <<generated, serving, answer>>

\* ent generates; an error leaves the files as they are.
Generate ==
    /\ \A f \in Field : ~ Refused(schema[f])
    /\ generated' = [schema |-> schema, registry |-> Registry(schema)]
    /\ UNCHANGED <<schema, serving, answer, edits>>

\* The generated package is built and takes over.
Deploy ==
    /\ generated # NoBuild
    /\ \A f \in DOMAIN generated.registry : EntryBuilds(generated.registry[f])
    /\ serving' = generated
    /\ answer' = NoAnswer
    /\ UNCHANGED <<schema, generated, edits>>

\* CompileFIQL of a comparison: val for a scalar operator, vals for a list.
Compile(f, op, val, vals) ==
    /\ serving # NoBuild /\ answer = NoAnswer
    /\ answer' = [field |-> f, op |-> op, val |-> val, vals |-> vals,
                  result |-> CompileCmp(serving.registry, f, op, val, vals)]
    /\ UNCHANGED <<schema, generated, serving, edits>>

\* The caller has its answer.
Return ==
    /\ answer # NoAnswer
    /\ answer' = NoAnswer
    /\ UNCHANGED <<schema, generated, serving, edits>>

\* The lists have up to one value more than accepted.  A scalar operator uses no
\* list and a list operator no scalar operand.
Lists == UNION {[1..n -> Texts] : n \in 0..MaxListValues + 1}
Query(op) == IF op \in ListOps THEN {<<>>} \X Lists ELSE Texts \X {<<>>}

Next ==
    \/ \E f \in Field : \E d \in Declared[f] : Declare(f, d)
    \/ Generate
    \/ Deploy
    \/ \E f \in Field, op \in Op : \E q \in Query(op) : Compile(f, op, q[1], q[2])
    \/ Return

Spec == Init /\ [][Next]_vars

-----------------------------------------------------------------------------
TypeOK ==
    /\ schema \in [Field -> Decl]
    /\ \A g \in {generated, serving} :
          /\ DOMAIN g.registry \subseteq Field
          /\ \A f \in DOMAIN g.registry : Range(g.registry[f].members) \subseteq Op
    /\ edits \in 0..MaxEdits
    /\ answer.result.accepted =>
          /\ answer.field \in DOMAIN serving.registry
          /\ answer.result.cells \subseteq Cell(serving.registry[answer.field].kind)

\* What the first annotation with operators of the deployed schema grants.
Granted(d) ==
    {op \in Op : \E i \in DOMAIN d.annotations :
        /\ op \in Range(d.annotations[i])
        /\ \A j \in 1..i - 1 : d.annotations[j] = <<>>}

\* The list operators of an enum come with the scalar ones they are made of; an
\* enum has no order and no parts, and what it is granted of these is dropped.
Grants(d, op) ==
    IF d.type = "enum" /\ op \in ListOps
    THEN (IF op = "In" THEN "EQ" ELSE "NEQ") \in Granted(d)
    ELSE op \in Granted(d) /\ (d.type = "enum" => op \in FIQLEnum)

\* The state has its type, and a comparison on a field is accepted exactly if the schema that was deployed,
\* not the one in the tree, grants its operator on that field and every operand
\* is a text the field's type has a value for: nothing is lost and nothing is
\* let through between annotation, merge, template, build and apply.
AnsweredIffGranted ==
    /\ TypeOK
    /\ answer # NoAnswer =>
        LET d == serving.schema[answer.field]
            operands == Used(answer.op, answer.val, answer.vals)
            Known(t) == IF d.type = "enum" THEN t \in d.values
                        ELSE t \in DOMAIN Meaning[resolveFieldKind(d.type)]
        IN  answer.result.accepted <=>
                /\ ~ d.edge /\ Grants(d, answer.op)
                /\ answer.op \in ListOps => Len(operands) \in 1..MaxListValues
                /\ \A i \in DOMAIN operands : Known(operands[i])

\* Set membership means the same on every kind, whether ent has a predicate for
\* it or apply assembles it ("same SQL semantics as the typed FieldIn"): =in=
\* and =out= part the cells that are not NULL by the values listed.
ListsPartition ==
    (answer.result.accepted /\ answer.op \in ListOps) =>
        LET kind == serving.registry[answer.field].kind
            listed == {Meaning[kind][t] : t \in Range(answer.vals)}
        IN  answer.result.cells =
                {{v} : v \in IF answer.op = "In" THEN listed ELSE Range(Meaning[kind]) \ listed}

\* A null test is never deployed for a required column, on which ent has no
\* IsNil predicate: the error of fieldFIQLAnnotation stops the generation of the
\* whole file, and the next one starts from the declarations as they are then.
NullTestsApply ==
    \A f \in DOMAIN serving.registry :
        Range(serving.registry[f].members) \cap NullOps # {} => serving.schema[f].optional
=============================================================================
