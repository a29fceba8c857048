---------------------------- MODULE MCFIQLParser ----------------------------
(***************************************************************************)
(* Texts for FIQLGrammar, well-formed or not: every sequence of at most    *)
(* MaxChunks of the chunks below, and every one of at most MaxNesting of   *)
(* those that nest and combine one comparison.                             *)
(***************************************************************************)
EXTENDS FIQLGrammar

CONSTANTS MaxChunks, MaxNesting

Nesting == { <<"(">>, <<")">>, <<",">>, <<";">>, <<"age", "==", "x">> }

\* The last three are cut off: no operand, a list that is not closed, and a
\* character no selector has.
Chunks == Nesting \cup
    { <<"age", "=in=", "(", "x", ",", "y", ")">>,
      <<"age", "=is=", "null">>,
      <<"age", "==">>,
      <<"age", "=in=", "(">>,
      <<"-">> }

MCTexts ==
    {FlattenSeq(cs) : cs \in SeqOf(Chunks, MaxChunks) \cup SeqOf(Nesting, MaxNesting)}
=============================================================================
