------------------------------ MODULE FIQLTree ------------------------------
(***************************************************************************)
(* The traversals of a FIQL tree: CompileFIQL, WalkFIQL, FindFIQL, ToFIQL. *)
(* Each counts depth on its own, for a tree assembled by hand never went   *)
(* through the parser.  The root is at depth 0.                            *)
(***************************************************************************)
EXTENDS FIQLSyntax

CONSTANTS
    Allowed,    \* the field registry: the operators of each registered field
    Cell        \* the values a column may hold, NullCell among them

NullCell == <<"NULL">>
Field == DOMAIN Allowed

ASSUME RegistryAssumption ==
    /\ \A f \in Field : Allowed[f] \subseteq ScalarOps \cup ListOps \cup NullOps
    /\ NullCell \in Cell

\* A row of the table; a predicate is the set of rows it selects.
Row == [Field -> Cell]

\* A compound that no traversal accepts: no child, or a nil entry.
Hollow(n) == IsCompound(n) /\ (n.nodes = <<>> \/ Nil \in Range(n.nodes))

-----------------------------------------------------------------------------
(***************************************************************************)
(* CompileFIQL                                                             *)
(***************************************************************************)

\* Mutated form: an empty compound folds into a predicate without terms.
CompileRejectsNil(n, d) ==
    d > MaxDepth \/ n \in {Nil, TypedNil} \/ (IsCompound(n) /\ Nil \in Range(n.nodes))

CompileRejects(n, d) == d > MaxDepth \/ n \in {Nil, TypedNil} \/ Hollow(n)

\* The SQL meaning of a comparison: null is only matched by a null test.
Holds(c, v) ==
    CASE c.op = "==" -> v = c.value /\ v # NullCell
      [] c.op = "!=" -> v # c.value /\ v # NullCell
      [] c.op = "=in=" -> v \in Range(c.values) /\ v # NullCell
      [] c.op = "=out=" -> v \notin Range(c.values) /\ v # NullCell
      [] c.op = IsNull -> v = NullCell
      [] c.op = NotNull -> v # NullCell

Selected(c) == {r \in Row : Holds(c, r[c.field])}

Predicate(rows) == [kind |-> "predicate", rows |-> rows]

\* The comparison case: list bounds, the registry, and the operator gate of
\* apply (of a string field, on which every value is accepted).
CompileCmp(c) ==
    IF \/ c.op \in ListOps /\ Len(c.values) \notin 1..MaxListValues
       \/ c.field \notin Field
       \/ c.field \in Field /\ c.op \notin Allowed[c.field]
    THEN Error
    ELSE Predicate(Selected(c))

\* andPreds and orPreds
Combine(kind, preds) ==
    {r \in Row : IF kind = "and" THEN \A i \in DOMAIN preds : r \in preds[i].rows
                                 ELSE \E i \in DOMAIN preds : r \in preds[i].rows}

RECURSIVE compileNode(_, _)
compileNode(n, d) ==
    IF CompileRejects(n, d) THEN Error
    ELSE IF n.kind = "cmp" THEN CompileCmp(n)
    ELSE LET preds == [i \in DOMAIN n.nodes |-> compileNode(n.nodes[i], d + 1)]
         IN  IF \E i \in DOMAIN preds : Failed(preds[i]) THEN Error
             ELSE Predicate(Combine(n.kind, preds))

CompileFIQL(n) == compileNode(n, 0)

-----------------------------------------------------------------------------
(***************************************************************************)
(* WalkFIQL.  The callback fn replaces every comparison on fn.field by     *)
(* fn.out (Nil prunes, Error rejects, any other node is taken as it is) and*)
(* keeps the others.                                                       *)
(***************************************************************************)

\* Mutated form: empty compounds and nil children fold to nil and are dropped.
WalkRejectsTypedNil(n, d) == d > MaxDepth \/ n = TypedNil

WalkRejects(n, d) == d > MaxDepth \/ n = TypedNil \/ Hollow(n)

Callback(field, out) == [field |-> field, out |-> out]
Keep == Callback("", Nil)

\* Mutated form: the first surviving child stands for the compound.
RebuildFirst(kind, kids) == IF kids = <<>> THEN Nil ELSE kids[1]

\* What is left of a compound: nil, its one surviving child, or a compound.
Rebuild(kind, kids) == IF kids = <<>> THEN Nil ELSE Collapse(kind, kids)

RECURSIVE walkNode(_, _, _)
walkNode(n, fn, d) ==
    IF WalkRejects(n, d) THEN Error
    ELSE IF n = Nil THEN Nil
    ELSE IF n.kind = "cmp" THEN IF n.field = fn.field THEN fn.out ELSE n
    ELSE LET kids == [i \in DOMAIN n.nodes |-> walkNode(n.nodes[i], fn, d + 1)]
         IN  IF Error \in Range(kids) THEN Error
             ELSE Rebuild(n.kind, SelectSeq(kids, LAMBDA k : k # Nil))

WalkFIQL(n, fn) == walkNode(n, fn, 0)

-----------------------------------------------------------------------------
(***************************************************************************)
(* FindFIQL: it has no error to return and skips what it cannot descend.   *)
(***************************************************************************)

\* Mutated form: the comparisons at the bound are skipped.
SkippedAtBound(n, d) == d >= MaxDepth \/ n \in {Nil, TypedNil}

Skipped(n, d) == d > MaxDepth \/ n \in {Nil, TypedNil}

RECURSIVE collectCmp(_, _, _)
collectCmp(n, field, d) ==
    IF Skipped(n, d) THEN <<>>
    ELSE IF n.kind = "cmp" THEN IF n.field = field THEN <<n>> ELSE <<>>
    ELSE FlattenSeq([i \in DOMAIN n.nodes |-> collectCmp(n.nodes[i], field, d + 1)])

FindFIQL(n, field) == collectCmp(n, field, 0)

-----------------------------------------------------------------------------
(***************************************************************************)
(* ToFIQL                                                                  *)
(***************************************************************************)
RenderRejects(n, d) == d > MaxDepth \/ n \in {Nil, TypedNil} \/ Hollow(n)

\* Follows compounds with one child, at most MaxDepth + 1 of them.
RECURSIVE effectiveFrom(_, _)
effectiveFrom(n, i) ==
    IF i > MaxDepth \/ ~ IsCompound(n) THEN n
    ELSE IF Len(n.nodes) # 1 THEN n
    ELSE effectiveFrom(n.nodes[1], i + 1)
effectiveNode(n) == effectiveFrom(n, 0)

\* Mutated form: precedence is judged before the collapse.
rendersAsOr(n) == n.kind = "or" /\ Len(n.nodes) > 1

rendersAsDisjunction(n) ==
    LET e == effectiveNode(n) IN e.kind = "or" /\ Len(e.nodes) > 1

\* What ToFIQL writes, or Error.
Text(tokens) == [kind |-> "text", tokens |-> tokens]

\* strings.Join
Joined(parts, separator) ==
    FlattenSeq([i \in DOMAIN parts |-> IF i = 1 THEN parts[i] ELSE <<separator>> \o parts[i]])

\* Mutated form: a scalar operand may hold any character.
CheckNotEmpty(v) == v # <<>>

\* The operands the grammar can carry back; ';' does not end a list.
checkFIQLValue(v) == v # <<>> /\ Range(v) \cap Terminators = {}
checkFIQLListValue(v) == Range(v) \cap {",", ")"} = {}

writeFIQLCmp(c) ==
    CASE c.field \notin Selector \/ ~ knownFIQLOp(c.op) -> Error
      [] c.field \in Selector /\ c.op \in NullOps ->
           Text(<<c.field, "=is=", IF c.op = IsNull THEN "null" ELSE "notnull">>)
      [] c.field \in Selector /\ c.op \in ListOps ->
           IF Len(c.values) \in 1..MaxListValues /\ \A v \in Range(c.values) : checkFIQLListValue(v)
           THEN Text(<<c.field, c.op, "(">> \o Joined(c.values, ",") \o <<")">>)
           ELSE Error
      [] c.field \in Selector /\ c.op \in ScalarOps ->
           IF checkFIQLValue(c.value) THEN Text(<<c.field, c.op>> \o c.value) ELSE Error

\* Parentheses stand around a disjunction inside a conjunction only.
Parenthesised(n, child, tokens) ==
    IF n.kind = "and" /\ Len(n.nodes) > 1 /\ rendersAsDisjunction(child)
    THEN <<"(">> \o tokens \o <<")">>
    ELSE tokens

RECURSIVE writeFIQL(_, _)
writeFIQL(n, d) ==
    IF RenderRejects(n, d) THEN Error
    ELSE IF n.kind = "cmp" THEN writeFIQLCmp(n)
    ELSE LET parts == [i \in DOMAIN n.nodes |-> writeFIQL(n.nodes[i], d + 1)]
             separator == IF n.kind = "and" THEN ";" ELSE ","
         IN  IF Error \in Range(parts) THEN Error
             ELSE Text(Joined([i \in DOMAIN parts |->
                                 Parenthesised(n, n.nodes[i], parts[i].tokens)], separator))

ToFIQL(n) == writeFIQL(n, 0)
=============================================================================
