----------------------------- MODULE FIQLSyntax -----------------------------
(***************************************************************************)
(* Nodes and text of FIQL (fiql.go, fiql_ast.go).                          *)
(*                                                                         *)
(* A node is a record.  A tree assembled by hand may share nodes or contain*)
(* itself; every traversal of the library follows paths and looks at depth *)
(* only, so such a graph is modelled by its unfolding, of which nothing    *)
(* below depth MaxDepth + 1 is ever reached.                               *)
(*                                                                         *)
(* Text is a sequence of tokens.  A selector and an operator are one token *)
(* each; a value is a sequence of tokens, so that it may hold the          *)
(* characters the grammar reserves.  Two name-like tokens are never        *)
(* adjacent where a selector is read, so cutting the characters into       *)
(* tokens loses nothing.                                                   *)
(***************************************************************************)
EXTENDS Integers, Sequences, FiniteSets, SequencesExt

CONSTANTS
    MaxDepth,       \* maxFIQLDepth
    MaxListValues,  \* maxFIQLListValues
    Selector        \* the tokens a field name may be

ASSUME BoundAssumption == MaxDepth \in Nat \ {0} /\ MaxListValues \in Nat \ {0}

\* Operators with a scalar operand (two of the eight, which are read alike),
\* list operators, null tests.  "=is=" is the wire form of the null tests and
\* never appears in a tree.
ScalarOps == {"==", "!="}
ListOps == {"=in=", "=out="}
NullOps == {"=is=null", "=is=notnull"}
IsNull == "=is=null"
NotNull == "=is=notnull"
knownFIQLOp(op) == op \in ScalarOps \cup ListOps \cup NullOps

\* A nil interface value and a nil pointer inside a non-nil interface value.
Nil == [kind |-> "nil"]
TypedNil == [kind |-> "typednil"]
FIQLCmp(field, op, value, values) ==
    [kind |-> "cmp", field |-> field, op |-> op, value |-> value, values |-> values]
FIQLAnd(nodes) == [kind |-> "and", nodes |-> nodes]
FIQLOr(nodes) == [kind |-> "or", nodes |-> nodes]
IsCompound(n) == n.kind \in {"and", "or"}

\* What a traversal that rejects its input returns.
Error == [kind |-> "error"]
Failed(r) == r.kind = "error"

\* The parser and WalkFIQL give a compound with one child as the child.
Collapse(kind, nodes) == IF Len(nodes) = 1 THEN nodes[1] ELSE [kind |-> kind, nodes |-> nodes]

Terminators == {";", ",", ")"}

\* strings.Split at the commas: the parts between one comma and the next.
CommaPositions(s) == {i \in DOMAIN s : s[i] = ","}

SplitAtComma(s) ==
    LET n == Cardinality(CommaPositions(s))
        Cut(k) == IF k = 0 THEN 0
                  ELSE IF k = n + 1 THEN Len(s) + 1
                  ELSE CHOOSE i \in CommaPositions(s) :
                           Cardinality({j \in CommaPositions(s) : j <= i}) = k
    IN  [k \in 1..n + 1 |-> SubSeq(s, Cut(k - 1) + 1, Cut(k) - 1)]
=============================================================================
