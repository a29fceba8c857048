------------------------------ MODULE FIQLCall ------------------------------
(***************************************************************************)
(* One call of ParseFIQLExpr on any of a set of texts: the machine of      *)
(* FIQLParser from the state in which the call leaves it to its return.    *)
(***************************************************************************)
EXTENDS FIQLParser

CONSTANT Texts  \* the expressions the parser is given

ASSUME TextsAssumption == \A t \in Texts : t \in Seq(Range(t))

\* The state in which the action ParseFIQLExpr(t) leaves the parser.
Init ==
    /\ text \in Texts
    /\ pos = 1
    /\ depth = 0
    /\ frames = <<EmptyFrame>>
    /\ mode = "atom"
    /\ result = Nil

Next == ParserNext
Spec == Init /\ [][Next]_parserVars

\* ParseFIQLExpr is one sequential call that nothing interrupts.
FairSpec == Spec /\ WF_parserVars(Next)

-----------------------------------------------------------------------------
\* The parser never reads outside the text.
TypeOK ==
    /\ pos \in 1..Len(text) + 1
    /\ depth \in 0..MaxDepth
    /\ mode \in {"atom", "after", "done"}
    /\ mode \in {"atom", "after"} <=> frames # <<>>

\* maxFIQLDepth bounds the recursion: the calls of parseOrExpr in progress are
\* one for each open group and one for the expression, whatever was opened and
\* closed before ("prevents stack overflow").
StackBounded ==
    mode \in {"atom", "after"} =>
        /\ Len(frames) = depth + 1
        /\ Len(frames) <= MaxDepth + 1
=============================================================================
