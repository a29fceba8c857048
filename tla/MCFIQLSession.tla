--------------------------- MODULE MCFIQLSession ----------------------------
(***************************************************************************)
(* Instances of FIQLSession: two string columns, of which org is used to   *)
(* scope a query.                                                          *)
(***************************************************************************)
EXTENDS FIQLSession

MCAllowed == "org" :> {"==", "!=", "=in="} @@ "age" :> {"==", "!=", "=in=", "=out=", IsNull, NotNull}
MCCell == {<<"x">>, <<"y">>, <<>>, NullCell}

Eq(f, v) == FIQLCmp(f, "==", v, <<>>)
In(f, vs) == FIQLCmp(f, "=in=", <<>>, vs)

MCScopes == {Eq("org", <<"x">>)}

\* Terms, a disjunction, a list with an empty element and a ';', a list of only
\* an empty element, and what only a hand-built tree holds: nil, a typed nil, an empty compound, an
\* operand the grammar cannot carry, a list that is too long.
MCLeaves ==
    { Eq("age", <<"x">>), Eq("org", <<"y">>), FIQLCmp("age", IsNull, <<>>, <<>>),
      FIQLOr(<<Eq("age", <<"y">>), Eq("org", <<"y">>)>>),
      In("age", <<<<>>, <<"x", ";">>>>), In("age", <<<<>>>>),
      Nil, TypedNil, FIQLOr(<<>>),
      Eq("age", <<"x", ",", "org", "==", "y">>),
      In("age", <<<<"x">>, <<"y">>, <<>>>>) }

\* age==x;(age==y,org!=x) , org==x,age!=x;(age==y,org==y) , and an expression
\* cut off in a group.
Group(t) == <<"(">> \o t \o <<")">>
MCTexts ==
    { <<"age", "==", "x", ";">> \o Group(<<"age", "==", "y", ",", "org", "!=", "x">>),
      <<"org", "==", "x", ",", "age", "!=", "x", ";">> \o
          Group(<<"age", "==", "y", ",", "org", "==", "y">>),
      <<"(", "age", "==", "x">> }

\* Callbacks that keep, prune, edit and expand a term, and one that answers
\* with a compound nobody checked.
MCCallbacks ==
    { Keep, Callback("age", Nil), Callback("org", Nil),
      Callback("age", Eq("age", <<"y">>)),
      Callback("age", FIQLOr(<<Eq("age", <<"x">>), Eq("org", <<"y">>)>>)),
      Callback("age", FIQLAnd(<<>>)) }
=============================================================================
