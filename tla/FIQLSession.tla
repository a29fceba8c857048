---------------------------- MODULE FIQLSession -----------------------------
(***************************************************************************)
(* A caller at work on one FIQL tree.  It starts from an expression it was *)
(* sent or from a node of its own, assembles compounds around it, rewrites *)
(* it with WalkFIQL, wraps it in a scope, and forwards it as text to a     *)
(* service that parses it and goes on in the same way.                     *)
(***************************************************************************)
EXTENDS FIQLTree, FIQLParser

CONSTANTS
    Texts,      \* the expressions it may be sent
    Leaves,     \* the nodes a caller has at hand, malformed ones among them
    Callbacks,  \* the callbacks it rewrites with
    Scopes,     \* the comparisons it restricts a query to
    MaxSteps    \* bound on the compounds it builds and the walks it makes

VARIABLES
    tree,   \* the caller's FIQLNode
    scope,  \* the comparison every row must satisfy from here on, or Nil
    steps

sessionVars == <<tree, scope, steps, parserVars>>

Init ==
    /\ tree \in Leaves \cup {Nil}
    /\ scope = Nil
    /\ steps = 0
    /\ Idle

\* The expression of a request is parsed.
Submit(t) ==
    /\ tree = Nil
    /\ steps = 0
    /\ ParseFIQLExpr(t)
    /\ UNCHANGED <<tree, scope, steps>>

\* A compound around the tree: alone in it, or with a leaf before or after it.
\* A tree that was scoped is not put into a disjunction with anything else.
Assemble(kind, nodes) ==
    /\ mode = "idle"
    /\ steps < MaxSteps
    /\ scope # Nil /\ Len(nodes) > 1 => kind = "and"
    /\ tree' = [kind |-> kind, nodes |-> nodes]
    /\ steps' = steps + 1
    /\ UNCHANGED <<scope, parserVars>>

\* The README's way to scope a query: an FIQLAnd of the tree and the scope.
Confine(s) ==
    /\ mode = "idle"
    /\ steps < MaxSteps
    /\ scope = Nil
    /\ tree' = FIQLAnd(<<tree, s>>)
    /\ scope' = s
    /\ steps' = steps + 1
    /\ UNCHANGED parserVars

\* The callback leaves the terms of the scope alone; an error is reported and
\* the tree stays as it was.
Rewrite(fn) ==
    /\ mode = "idle"
    /\ steps < MaxSteps
    /\ scope # Nil => fn.field # scope.field
    /\ ~ Failed(WalkFIQL(tree, fn))
    /\ tree' = WalkFIQL(tree, fn)
    /\ steps' = steps + 1
    /\ UNCHANGED <<scope, parserVars>>

Forward ==
    /\ ~ Failed(ToFIQL(tree))
    /\ ParseFIQLExpr(ToFIQL(tree).tokens)
    /\ UNCHANGED <<tree, scope, steps>>

\* The result of a parse is the tree to go on with; an expression that does
\* not parse is refused.
Receive ==
    /\ Return
    /\ tree' = IF Failed(result) THEN tree ELSE result
    /\ UNCHANGED <<scope, steps>>

Next ==
    \/ \E t \in Texts : Submit(t)
    \/ \E kind \in {"and", "or"} :
          \/ Assemble(kind, <<tree>>)
          \/ \E leaf \in Leaves : \/ Assemble(kind, <<tree, leaf>>)
                                  \/ Assemble(kind, <<leaf, tree>>)
    \/ \E s \in Scopes : Confine(s)
    \/ \E fn \in Callbacks : Rewrite(fn)
    \/ Forward
    \/ ParserNext /\ UNCHANGED <<tree, scope, steps>>
    \/ Receive

Spec == Init /\ [][Next]_sessionVars

-----------------------------------------------------------------------------
(***************************************************************************)
(* Properties                                                              *)
(***************************************************************************)
TypeOK ==
    /\ tree.kind \in {"nil", "typednil", "cmp", "and", "or"}
    /\ scope \in Scopes \cup {Nil}
    /\ steps \in 0..MaxSteps
    /\ pos \in 1..Len(text) + 1

\* Every node of a tree, by its depth.
RECURSIVE NodesAt(_, _)
NodesAt(n, d) ==
    {<<n, d>>} \cup IF IsCompound(n) THEN UNION {NodesAt(m, d + 1) : m \in Range(n.nodes)} ELSE {}

\* Its comparisons from left to right.
RECURSIVE Comparisons(_)
Comparisons(n) ==
    CASE n.kind = "cmp" -> <<n>>
      [] IsCompound(n) -> FlattenSeq([i \in DOMAIN n.nodes |-> Comparisons(n.nodes[i])])
      [] OTHER -> <<>>

Malformed(n) ==
    \E nd \in NodesAt(n, 0) :
        nd[2] > MaxDepth \/ nd[1] \in {Nil, TypedNil} \/ (IsCompound(nd[1]) /\ nd[1].nodes = <<>>)

\* The state has its type, and a malformed tree fails closed everywhere: it selects no rows at all, is not
\* rendered, and no walk turns it into a tree that does either (a nil tree
\* stays nil).  "the same fail-open the nil case guards against", "laundering
\* a malformed AST into an accepted one".
FailsClosed ==
    /\ TypeOK
    /\ Malformed(tree) =>
        /\ Failed(CompileFIQL(tree))
        /\ Failed(ToFIQL(tree))
        /\ tree = Nil \/ Failed(WalkFIQL(tree, Keep))

\* A walk that changes no comparison changes no rows, whatever it collapses.
WalkKeepsMeaning ==
    LET w == WalkFIQL(tree, Keep)
    IN  ~ Failed(w) => CompileFIQL(w) = CompileFIQL(tree)

\* Pruning a field removes its terms at every depth, leaves all other terms in
\* their order, and never ends in a tree that selects rows without a term.
PruneIsExact ==
    \A f \in Field :
        LET w == WalkFIQL(tree, Callback(f, Nil))
        IN  ~ Failed(w) => Comparisons(w) = SelectSeq(Comparisons(tree), LAMBDA c : c.field # f)
                           /\ (Comparisons(w) = <<>> => Failed(CompileFIQL(w)))

\* Whatever a query runs on was visible to FindFIQL: no comparison of a tree
\* that compiles is hidden from the code that inspects it.
FindIsComplete ==
    ~ Failed(CompileFIQL(tree)) =>
        \A f \in Field :
            FindFIQL(tree, f) = SelectSeq(Comparisons(tree), LAMBDA c : c.field = f)

\* Text that was rendered parses back to a tree that compiles to the same
\* predicate and renders to the same text (ToFIQL: "the output parses back to a
\* tree that compiles to the same predicate"), with one exception: a list of
\* nothing but an empty value is rendered as "()", which the parser refuses.
\* The refusal is what such text comes to; it never reads as another tree.
HoldsEmptyList(n) == \E c \in Range(Comparisons(n)) : c.values = <<<<>>>>
RoundTrip ==
    mode = "done" /\ ~ Failed(ToFIQL(tree)) =>
        IF HoldsEmptyList(tree) THEN Failed(result)
        ELSE /\ ~ Failed(result)
             /\ CompileFIQL(result) = CompileFIQL(tree)
             /\ ToFIQL(result) = ToFIQL(tree)

\* Once a tree is restricted to a scope, nothing selected lies outside it,
\* however it is assembled, rewritten and forwarded after that.
ScopeHolds ==
    LET c == CompileFIQL(tree)
    IN  scope # Nil /\ ~ Failed(c) => c.rows \subseteq Selected(scope)
=============================================================================
