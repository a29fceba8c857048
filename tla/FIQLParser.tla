----------------------------- MODULE FIQLParser -----------------------------
(***************************************************************************)
(* ParseFIQLExpr: the recursive descent parser of fiql_ast.go as a machine *)
(* with an explicit stack.  A frame is one parseOrExpr that has not        *)
(* returned: the conjunctions it has completed and the atoms of the one it *)
(* is reading.  The bottom frame belongs to parse, each other one to a     *)
(* parenthesised group of parseAtom.                                       *)
(***************************************************************************)
EXTENDS FIQLSyntax

VARIABLES
    text,   \* expr
    pos,    \* p.pos, counted from 1
    depth,  \* p.depth
    frames, \* the calls of parseOrExpr in progress
    mode,   \* "idle", "done"; "atom": parseAtom is next; "after": one was read
    result  \* what ParseFIQLExpr returned

parserVars == <<text, pos, depth, frames, mode, result>>

EmptyFrame == [ors |-> <<>>, ands |-> <<>>]
Top == frames[Len(frames)]

AtEnd == pos > Len(text)
LookingAt(c) == ~ AtEnd /\ text[pos] = c

-----------------------------------------------------------------------------
\* The first position from i on that holds one of cs, or the end of s.
ScanTo(s, i, cs) ==
    CHOOSE j \in i..Len(s) + 1 :
        /\ j = Len(s) + 1 \/ s[j] \in cs
        /\ \A k \in i..j - 1 : s[k] \notin cs

\* Mutated form: the bound on the number of values is not looked at.
parseInListUnbounded(inner) ==
    IF inner = <<>> THEN Error ELSE [kind |-> "values", values |-> SplitAtComma(inner)]

\* parseInListValue, without the parentheses readListValue includes.
parseInListValue(inner) ==
    LET parts == SplitAtComma(inner)
    IN  IF inner = <<>> \/ Len(parts) > MaxListValues THEN Error
        ELSE [kind |-> "values", values |-> parts]

Rejected == [node |-> Error, next |-> 0]

\* parseComparison at position i: the node and the position after it.
parseComparison(s, i) ==
    IF i + 1 > Len(s) \/ s[i] \notin Selector THEN Rejected
    ELSE LET op == s[i + 1]
             end == ScanTo(s, i + 2, Terminators)
             value == SubSeq(s, i + 2, end - 1)
             close == ScanTo(s, i + 3, {")"})
             list == parseInListValue(SubSeq(s, i + 3, close - 1))
         IN  CASE op \in ListOps ->
                    IF i + 2 > Len(s) \/ s[i + 2] # "(" \/ close > Len(s) \/ Failed(list)
                    THEN Rejected
                    ELSE [node |-> FIQLCmp(s[i], op, <<>>, list.values), next |-> close + 1]
               [] op \in ScalarOps ->
                    IF value = <<>> THEN Rejected
                    ELSE [node |-> FIQLCmp(s[i], op, value, <<>>), next |-> end]
               [] op = "=is=" ->
                    IF value = <<"null">>
                    THEN [node |-> FIQLCmp(s[i], IsNull, <<>>, <<>>), next |-> end]
                    ELSE IF value = <<"notnull">>
                    THEN [node |-> FIQLCmp(s[i], NotNull, <<>>, <<>>), next |-> end]
                    ELSE Rejected
               [] OTHER -> Rejected

-----------------------------------------------------------------------------
Idle ==
    /\ text = <<>>
    /\ pos = 1
    /\ depth = 0
    /\ frames = <<>>
    /\ mode = "idle"
    /\ result = Nil

\* The call; the first operand of an expression is read like any other.
ParseFIQLExpr(t) ==
    /\ mode = "idle"
    /\ text' = t
    /\ frames' = <<EmptyFrame>>
    /\ mode' = "atom"
    /\ UNCHANGED <<pos, depth, result>>

\* The caller takes the result.
Return ==
    /\ mode = "done"
    /\ text' = <<>>
    /\ pos' = 1
    /\ depth' = 0
    /\ frames' = <<>>
    /\ mode' = "idle"
    /\ result' = Nil

\* An error return unwinds every call.
Reject ==
    /\ mode' = "done"
    /\ result' = Error
    /\ frames' = <<>>
    /\ UNCHANGED <<text, pos, depth>>

\* An atom n was read: it joins the conjunction of the frame below it.
Deliver(stack, n) ==
    [stack EXCEPT ![Len(stack)].ands = Append(@, n)]

\* Mutated form: the group is entered without counting its depth.
OpenGroupUncounted ==
    /\ mode = "atom"
    /\ LookingAt("(")
    /\ IF depth + 1 > MaxDepth THEN Reject
       ELSE /\ pos' = pos + 1
            /\ frames' = Append(frames, EmptyFrame)
            /\ UNCHANGED <<text, depth, mode, result>>

\* parseAtom on '('.
OpenGroup ==
    /\ mode = "atom"
    /\ LookingAt("(")
    /\ IF depth + 1 > MaxDepth THEN Reject
       ELSE /\ depth' = depth + 1
            /\ pos' = pos + 1
            /\ frames' = Append(frames, EmptyFrame)
            /\ UNCHANGED <<text, mode, result>>

\* parseAtom on anything else.
ReadComparison ==
    /\ mode = "atom"
    /\ ~ LookingAt("(")
    /\ LET c == parseComparison(text, pos)
       IN  IF Failed(c.node) THEN Reject
           ELSE /\ pos' = c.next
                /\ frames' = Deliver(frames, c.node)
                /\ mode' = "after"
                /\ UNCHANGED <<text, depth, result>>

\* parseAndExpr on ';'.
NextConjunct ==
    /\ mode = "after"
    /\ LookingAt(";")
    /\ pos' = pos + 1
    /\ mode' = "atom"
    /\ UNCHANGED <<text, depth, frames, result>>

\* parseAndExpr returned its conjunction to the frame.
CloseConjunction(f) == [ors |-> Append(f.ors, Collapse("and", f.ands)), ands |-> <<>>]

\* parseOrExpr on ','.
NextDisjunct ==
    /\ mode = "after"
    /\ LookingAt(",")
    /\ pos' = pos + 1
    /\ frames' = [frames EXCEPT ![Len(frames)] = CloseConjunction(@)]
    /\ mode' = "atom"
    /\ UNCHANGED <<text, depth, result>>

\* What parseOrExpr returns for the frame on top.
TopNode == Collapse("or", CloseConjunction(Top).ors)

\* Mutated form: a missing ')' is waited for.
CloseGroupWaits ==
    /\ mode = "after"
    /\ Len(frames) > 1
    /\ LookingAt(")")
    /\ pos' = pos + 1
    /\ depth' = depth - 1
    /\ frames' = Deliver(Front(frames), TopNode)
    /\ UNCHANGED <<text, mode, result>>

\* Mutated form: the token after the ')' is consumed, too.
CloseGroupSkips ==
    /\ mode = "after"
    /\ ~ LookingAt(";") /\ ~ LookingAt(",")
    /\ Len(frames) > 1
    /\ IF ~ LookingAt(")") THEN Reject
       ELSE /\ pos' = pos + 2
            /\ depth' = depth - 1
            /\ frames' = Deliver(Front(frames), TopNode)
            /\ UNCHANGED <<text, mode, result>>

\* The inner parseOrExpr of a group returned: ')' or an error.
CloseGroup ==
    /\ mode = "after"
    /\ ~ LookingAt(";") /\ ~ LookingAt(",")
    /\ Len(frames) > 1
    /\ IF ~ LookingAt(")") THEN Reject
       ELSE /\ pos' = pos + 1
            /\ depth' = depth - 1
            /\ frames' = Deliver(Front(frames), TopNode)
            /\ UNCHANGED <<text, mode, result>>

\* The outermost parseOrExpr returned: the whole text must be consumed.
Finish ==
    /\ mode = "after"
    /\ ~ LookingAt(";") /\ ~ LookingAt(",")
    /\ Len(frames) = 1
    /\ IF ~ AtEnd THEN Reject
       ELSE /\ mode' = "done"
            /\ result' = TopNode
            /\ frames' = <<>>
            /\ UNCHANGED <<text, pos, depth>>

ParserNext ==
    \/ OpenGroup
    \/ ReadComparison
    \/ NextConjunct
    \/ NextDisjunct
    \/ CloseGroup
    \/ Finish
=============================================================================
