---------------------------- MODULE FIQLGrammar -----------------------------
(***************************************************************************)
(* The grammar of FIQL as a set of derivations, and the statement that the *)
(* parser of FIQLCall recognises it on every text of Texts.  The grammar   *)
(* is the one ParseFIQL documents: ',' is OR, ';' is AND and binds tighter,*)
(* parentheses group; nothing in it says in which order text is read.      *)
(***************************************************************************)
EXTENDS FIQLCall

-----------------------------------------------------------------------------
Upto(s, i) == SubSeq(s, 1, i - 1)
After(s, i) == SubSeq(s, i + 1, Len(s))
Positions(s, c) == {i \in DOMAIN s : s[i] = c}

\* The comparison that is the whole of s, if it is one.
Comparisons(s) ==
    IF Len(s) < 3 THEN {}
    ELSE LET operand == SubSeq(s, 3, Len(s))
             inner == SubSeq(s, 4, Len(s) - 1)
         IN  IF s[1] \notin Selector THEN {}
             ELSE {FIQLCmp(s[1], op, operand, <<>>) :
                      op \in {op \in ScalarOps : op = s[2] /\ Range(operand) \cap Terminators = {}}}
                  \cup
                  {FIQLCmp(s[1], op, <<>>, SplitAtComma(inner)) :
                      op \in {op \in ListOps :
                                /\ op = s[2]
                                /\ Len(s) > 4 /\ s[3] = "(" /\ s[Len(s)] = ")"
                                /\ ")" \notin Range(inner)
                                /\ Cardinality(Positions(inner, ",")) < MaxListValues}}
                  \cup
                  {FIQLCmp(s[1], op, <<>>, <<>>) :
                      op \in {op \in NullOps :
                                /\ s[2] = "=is="
                                /\ operand = IF op = IsNull THEN <<"null">> ELSE <<"notnull">>}}

\* The nodes an expression, the terms of a disjunction or of a conjunction,
\* and an atom derive, with d more groups allowed to open.
RECURSIVE Disjunctions(_, _), Conjunctions(_, _), Atoms(_, _)

Expressions(s, d) == {Collapse("or", terms) : terms \in Disjunctions(s, d)}

Disjunctions(s, d) ==
    {<<Collapse("and", terms)>> : terms \in Conjunctions(s, d)} \cup
    UNION {{<<Collapse("and", terms)>> \o rest :
              terms \in Conjunctions(Upto(s, i), d), rest \in Disjunctions(After(s, i), d)} :
             i \in Positions(s, ",")}

Conjunctions(s, d) ==
    {<<atom>> : atom \in Atoms(s, d)} \cup
    UNION {{<<atom>> \o rest :
              atom \in Atoms(Upto(s, i), d), rest \in Conjunctions(After(s, i), d)} :
             i \in Positions(s, ";")}

Atoms(s, d) ==
    Comparisons(s) \cup
    IF Len(s) > 2 /\ d > 0 /\ s[1] = "(" /\ s[Len(s)] = ")"
    THEN Expressions(SubSeq(s, 2, Len(s) - 1), d - 1)
    ELSE {}

-----------------------------------------------------------------------------
\* One pass from left to right accepts exactly the derivable expressions of
\* at most MaxDepth nested groups and returns the one tree they derive: the
\* grammar is unambiguous and no text is read differently from what it says.
RecognisesGrammar ==
    mode = "done" =>
        Expressions(text, MaxDepth) = IF Failed(result) THEN {} ELSE {result}

\* Every text is answered, with a tree or an error.
Terminates == <>(mode = "done")
=============================================================================
