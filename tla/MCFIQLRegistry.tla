--------------------------- MODULE MCFIQLRegistry ---------------------------
EXTENDS FIQLRegistry

One == <<"1">>
PlusOne == <<"+", "1">>
Two == <<"2">>
Junk == <<"1", "x">>

MCTexts == {One, PlusOne, Two, Junk}

\* strconv.Atoi, ParseFloat and time.Parse read two spellings of one value (a
\* time in another zone); a string and an enum value are read as they are.
Spelled == (One :> 1) @@ (PlusOne :> 1) @@ (Two :> 2)
MCMeaning ==
    [kind \in {"Int", "Float", "Time", "UUID"} |-> Spelled]
    @@ ("Bool" :> ((One :> TRUE) @@ (Two :> FALSE)))
    @@ ("String" :> [t \in MCTexts |-> t])
    @@ ("Enum" :> [t \in {One, Two, Junk} |-> t])

Plain(type, ops) == Declaration(type, FALSE, FALSE, {}, <<ops>>)
Nullable(type, annotations) == Declaration(type, TRUE, FALSE, {}, annotations)
Enum(values, ops) == Declaration("enum", TRUE, FALSE, values, <<ops>>)

MCDeclared ==
    ("status" :>
        { Enum({One, Two}, <<"EQ", "NEQ", "NotNull">>),
          Enum({One, Two, Junk}, <<"NEQ", "In", "In", "GT", "IsNull">>),
          Declaration("string", FALSE, FALSE, {}, << >>) })
    @@
    ("score" :>
        { Plain("int", <<"EQ", "GT", "LTE", "In">>),
          Plain("int64", <<"LT", "NotIn">>),
          Plain("float64", <<"NEQ", "LT", "NotIn">>),
          Plain("bool", <<"EQ">>),
          Plain("bool", <<"EQ", "In">>),
          Plain("time", <<"GTE", "LTE">>),
          Plain("time", <<"GTE", "NotNull">>),
          Plain("custom.UUID", <<"EQ">>),
          Declaration("uuid.UUID", TRUE, TRUE, {}, <<<<"EQ">>>>),
          Nullable("uuid.UUID", <<<<>>, <<"In", "NotIn", "IsNull">>, <<"EQ">>>>),
          Nullable("string", <<<<"Contains", "HasPrefix", "NotNull">>, <<"EQ">>>>),
          Nullable("string", <<<<"EQ", "NEQ", "In", "NotIn">>>>) })
=============================================================================
