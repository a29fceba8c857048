--------------------------- MODULE FIQLCallProofs ---------------------------
(***************************************************************************)
(* The parser's recursion is bounded and its position stays in the text,   *)
(* for every set of texts and every maxFIQLDepth.                          *)
(***************************************************************************)
EXTENDS FIQLCall, WellFoundedInduction, TLAPS

\* readValue and readListValue stop within the text or at its end.
LEMMA ScanInText ==
    ASSUME NEW S, NEW s \in Seq(S), NEW i \in 1 .. Len(s) + 1, NEW cs
    PROVE  ScanTo(s, i, cs) \in i .. Len(s) + 1
<1> DEFINE R == {ss \in Nat \X Nat : ss[1] < ss[2]}
<1> DEFINE U == {j \in i .. Len(s) + 1 : j = Len(s) + 1 \/ s[j] \in cs}
<1>1. IsWellFoundedOn(R, Nat)
  BY NatLessThanWellFounded DEF OpToRel
<1>2. U \subseteq Nat /\ U # {}
  <2>1. Len(s) \in Nat
    OBVIOUS
  <2>2. Len(s) + 1 \in U
    BY <2>1
  <2>3. QED
    BY <2>1, <2>2
<1> HIDE DEF R
<1>3. PICK m \in U : \A u \in U : ~ (<<u, m>> \in R)
  <2> HIDE DEF U
  <2> QED BY <1>1, <1>2, WFMin
<1>4. \A k \in i .. m - 1 : s[k] \notin cs
  <2> SUFFICES ASSUME NEW k \in i .. m - 1, s[k] \in cs PROVE FALSE
    OBVIOUS
  <2>1. k \in U /\ k < m
    OBVIOUS
  <2>2. <<k, m>> \in R
    BY <2>1 DEF R
  <2>3. QED
    BY <1>3, <2>1, <2>2
<1>5. QED
  BY <1>3, <1>4 DEF ScanTo

\* A comparison that was read ends within the text or at its end.
LEMMA ComparisonInText ==
    ASSUME NEW S, NEW s \in Seq(S), NEW i \in 1 .. Len(s) + 1,
           parseComparison(s, i) # Rejected
    PROVE  parseComparison(s, i).next \in 1 .. Len(s) + 1
<1> DEFINE op == s[i + 1]
<1> DEFINE end == ScanTo(s, i + 2, Terminators)
<1> DEFINE value == SubSeq(s, i + 2, end - 1)
<1> DEFINE close == ScanTo(s, i + 3, {")"})
<1> DEFINE list == parseInListValue(SubSeq(s, i + 3, close - 1))
<1> DEFINE ofList == [node |-> FIQLCmp(s[i], op, <<>>, list.values), next |-> close + 1]
<1> DEFINE ofScalar == [node |-> FIQLCmp(s[i], op, value, <<>>), next |-> end]
<1> DEFINE ofNull(n) == [node |-> FIQLCmp(s[i], n, <<>>, <<>>), next |-> end]
<1>1. Len(s) \in Nat /\ i \in Nat /\ i >= 1
  OBVIOUS
<1>2. /\ i + 1 <= Len(s)
      /\ \/ /\ i + 2 <= Len(s) /\ close <= Len(s)
            /\ parseComparison(s, i) = ofList
         \/ parseComparison(s, i) = ofScalar
         \/ parseComparison(s, i) = ofNull(IsNull)
         \/ parseComparison(s, i) = ofNull(NotNull)
  <2>1. ~ (i + 1 > Len(s) \/ s[i] \notin Selector)
    BY ZenonT(60) DEF parseComparison
  <2>2. i + 1 <= Len(s)
    BY <1>1, <2>1
  <2>3. parseComparison(s, i) =
          CASE op \in ListOps ->
                 IF i + 2 > Len(s) \/ s[i + 2] # "(" \/ close > Len(s) \/ Failed(list)
                 THEN Rejected ELSE ofList
            [] op \in ScalarOps -> IF value = <<>> THEN Rejected ELSE ofScalar
            [] op = "=is=" ->
                 IF value = <<"null">> THEN ofNull(IsNull)
                 ELSE IF value = <<"notnull">> THEN ofNull(NotNull) ELSE Rejected
            [] OTHER -> Rejected
    BY ZenonT(60), <2>1 DEF parseComparison
  <2>4. CASE op \in ListOps
    <3>1. op \notin ScalarOps /\ op # "=is="
      BY <2>4 DEF ListOps, ScalarOps
    <3>2. parseComparison(s, i) =
            IF i + 2 > Len(s) \/ s[i + 2] # "(" \/ close > Len(s) \/ Failed(list)
            THEN Rejected ELSE ofList
      BY ZenonT(60), <2>3, <2>4, <3>1
    <3>3. ~ (i + 2 > Len(s)) /\ ~ (close > Len(s)) /\ parseComparison(s, i) = ofList
      BY ZenonT(60), <3>2
    <3>4. i + 3 \in 1 .. Len(s) + 1
      BY <1>1, <3>3
    <3>5. close \in i + 3 .. Len(s) + 1
      BY <3>4, ScanInText
    <3>6. QED
      BY <1>1, <2>2, <3>3, <3>5
  <2>5. CASE op \in ScalarOps
    <3>1. op \notin ListOps /\ op # "=is="
      BY <2>5 DEF ListOps, ScalarOps
    <3>2. parseComparison(s, i) = IF value = <<>> THEN Rejected ELSE ofScalar
      BY ZenonT(60), <2>3, <2>5, <3>1
    <3>3. QED
      BY ZenonT(60), <2>2, <3>2
  <2>6. CASE op = "=is="
    <3>1. op \notin ListOps /\ op \notin ScalarOps
      BY <2>6 DEF ListOps, ScalarOps
    <3>2. parseComparison(s, i) =
            IF value = <<"null">> THEN ofNull(IsNull)
            ELSE IF value = <<"notnull">> THEN ofNull(NotNull) ELSE Rejected
      BY ZenonT(60), <2>3, <2>6, <3>1
    <3>3. QED
      BY ZenonT(60), <2>2, <3>2
  <2>7. CASE op \notin ListOps /\ op \notin ScalarOps /\ op # "=is="
    BY ZenonT(60), <2>3, <2>7
  <2>8. QED
    BY <2>4, <2>5, <2>6, <2>7
<1>3. CASE i + 2 <= Len(s) /\ close <= Len(s) /\ parseComparison(s, i) = ofList
  <2>1. close \in i + 3 .. Len(s) + 1
    <3>1. i + 3 \in 1 .. Len(s) + 1
      BY <1>1, <1>3
    <3>2. QED
      BY <3>1, ScanInText
  <2>2. parseComparison(s, i).next = close + 1
    BY <1>3
  <2>3. QED
    BY <1>1, <1>3, <2>1, <2>2
<1>4. CASE \/ parseComparison(s, i) = ofScalar
           \/ parseComparison(s, i) = ofNull(IsNull)
           \/ parseComparison(s, i) = ofNull(NotNull)
  <2>1. parseComparison(s, i).next = end
    BY <1>4
  <2>2. i + 2 \in 1 .. Len(s) + 1
    BY <1>1, <1>2
  <2>3. end \in i + 2 .. Len(s) + 1
    BY <2>2, ScanInText
  <2>4. QED
    BY <1>1, <2>1, <2>3
<1>5. QED
  BY <1>2, <1>3, <1>4

-----------------------------------------------------------------------------
\* What the operations of the stack do to its height: n frames, of any kind.
Stack(fs, n) == \E S : fs \in Seq(S) /\ Len(fs) = n

LEMMA PushedStack ==
    ASSUME NEW fs, NEW n \in Nat, Stack(fs, n), NEW f
    PROVE  Stack(Append(fs, f), n + 1)
<1>1. PICK S : fs \in Seq(S) /\ Len(fs) = n
  BY DEF Stack
<1>2. fs \in Seq(S \cup {f})
  BY <1>1
<1>3. Append(fs, f) \in Seq(S \cup {f}) /\ Len(Append(fs, f)) = n + 1
  BY <1>1, <1>2
<1>4. QED
  BY <1>3 DEF Stack

LEMMA PoppedStack ==
    ASSUME NEW fs, NEW n \in Nat, n > 0, Stack(fs, n)
    PROVE  Stack(Front(fs), n - 1)
<1>1. PICK S : fs \in Seq(S) /\ Len(fs) = n
  BY DEF Stack
<1>2. SubSeq(fs, 1, n - 1) \in Seq(S) /\ Len(SubSeq(fs, 1, n - 1)) = n - 1
  BY <1>1
<1>3. QED
  BY <1>1, <1>2 DEF Stack, Front

LEMMA RetoppedStack ==
    ASSUME NEW fs, NEW n \in Nat, n > 0, Stack(fs, n), NEW f
    PROVE  Stack([fs EXCEPT ![Len(fs)] = f], n)
<1>1. PICK S : fs \in Seq(S) /\ Len(fs) = n
  BY DEF Stack
<1>2. [fs EXCEPT ![n] = f] \in Seq(S \cup {f}) /\ Len([fs EXCEPT ![n] = f]) = n
  BY <1>1
<1>3. QED
  BY <1>1, <1>2 DEF Stack

LEMMA DeliveredStack ==
    ASSUME NEW fs, NEW n \in Nat, n > 0, Stack(fs, n), NEW a
    PROVE  Stack(Deliver(fs, a), n)
<1> DEFINE f == [fs[Len(fs)] EXCEPT !.ands = Append(@, a)]
<1>1. Deliver(fs, a) = [fs EXCEPT ![Len(fs)] = f]
  BY DEF Deliver
<1> HIDE DEF f
<1>2. Stack([fs EXCEPT ![Len(fs)] = f], n)
  BY RetoppedStack
<1>3. QED
  BY Zenon, <1>1, <1>2

-----------------------------------------------------------------------------
\* The inductive invariant: one frame for each open group and one for the
\* expression, as long as the call is in progress.
CallInv ==
    /\ text \in Texts
    /\ pos \in 1 .. Len(text) + 1
    /\ depth \in 0 .. MaxDepth
    /\ mode \in {"atom", "after", "done"}
    /\ mode \in {"atom", "after"} => Stack(frames, depth + 1)
    /\ mode = "done" => frames = <<>>

LEMMA InitCallInv == Init => CallInv
<1> SUFFICES ASSUME Init PROVE CallInv
  OBVIOUS
<1>1. Stack(<<EmptyFrame>>, 1)
  <2>1. <<EmptyFrame>> \in Seq({EmptyFrame}) /\ Len(<<EmptyFrame>>) = 1
    OBVIOUS
  <2>2. QED
    BY <2>1 DEF Stack
<1>2. 0 \in 0 .. MaxDepth
  BY BoundAssumption
<1>3. 1 \in 1 .. Len(text) + 1
  BY TextsAssumption DEF Init
<1>4. QED
  BY <1>1, <1>2, <1>3 DEF Init, CallInv

LEMMA RejectCallInv == CallInv /\ Reject => CallInv'
BY DEF CallInv, Reject

LEMMA NextCallInv == CallInv /\ [Next]_parserVars => CallInv'
<1> SUFFICES ASSUME CallInv, [Next]_parserVars PROVE CallInv'
  OBVIOUS
<1> USE BoundAssumption
<1>1. text \in Seq(Range(text)) /\ Len(text) \in Nat
  BY TextsAssumption DEF CallInv
<1>2. MaxDepth \in Nat /\ depth \in Nat /\ depth + 1 \in Nat /\ pos \in Nat
  BY <1>1 DEF CallInv
<1>3. \A c : LookingAt(c) => pos + 1 \in 1 .. Len(text) + 1
  BY <1>1 DEF CallInv, LookingAt, AtEnd
<1>4. CASE OpenGroup
  <2>1. CASE depth + 1 > MaxDepth
    BY <1>4, <2>1, RejectCallInv DEF OpenGroup
  <2>2. CASE ~ (depth + 1 > MaxDepth)
    <3>1. Stack(frames', depth' + 1)
      BY <1>2, <1>4, <2>2, PushedStack DEF OpenGroup, CallInv
    <3>2. depth' \in 0 .. MaxDepth
      BY <1>2, <1>4, <2>2 DEF OpenGroup
    <3>3. QED
      BY <1>3, <1>4, <2>2, <3>1, <3>2 DEF OpenGroup, CallInv
  <2>3. QED
    BY <2>1, <2>2
<1>5. CASE ReadComparison
  <2> DEFINE c == parseComparison(text, pos)
  <2>1. CASE Failed(c.node)
    BY <1>5, <2>1, RejectCallInv DEF ReadComparison
  <2>2. CASE ~ Failed(c.node)
    <3>1. c # Rejected
      BY <2>2 DEF Rejected, Failed, Error
    <3>2. c.next \in 1 .. Len(text) + 1
      BY <1>1, <3>1, ComparisonInText DEF CallInv
    <3>3. /\ pos' = c.next /\ mode' = "after" /\ frames' = Deliver(frames, c.node)
          /\ mode = "atom" /\ UNCHANGED <<text, depth>>
      BY <1>5, <2>2 DEF ReadComparison
    <3> HIDE DEF c
    <3>4. Stack(frames', depth' + 1)
      BY <1>2, <3>3, DeliveredStack DEF CallInv
    <3>5. QED
      BY <3>2, <3>3, <3>4 DEF CallInv
  <2>3. QED
    BY <2>1, <2>2
<1>6. CASE NextConjunct
  BY <1>3, <1>6 DEF NextConjunct, CallInv
<1>7. CASE NextDisjunct
  <2> DEFINE f == CloseConjunction(frames[Len(frames)])
  <2>1. /\ frames' = [frames EXCEPT ![Len(frames)] = f]
        /\ mode = "after" /\ depth' = depth
    BY <1>7 DEF NextDisjunct
  <2> HIDE DEF f
  <2>2. Stack(frames, depth + 1)
    BY <2>1 DEF CallInv
  <2>3. Stack([frames EXCEPT ![Len(frames)] = f], depth + 1)
    <3>1. depth + 1 > 0
      BY <1>2
    <3>2. QED
      BY Zenon, <1>2, <2>2, <3>1, RetoppedStack
  <2>4. Stack(frames', depth' + 1)
    BY Zenon, <2>1, <2>3
  <2>5. QED
    BY <1>3, <1>7, <2>4 DEF NextDisjunct, CallInv
<1>8. CASE CloseGroup
  <2>1. CASE ~ LookingAt(")")
    BY <1>8, <2>1, RejectCallInv DEF CloseGroup
  <2>2. CASE LookingAt(")")
    <3>1. /\ mode = "after" /\ mode' = mode /\ Len(frames) > 1
          /\ depth' = depth - 1
          /\ frames' = Deliver(Front(frames), TopNode)
      BY ZenonT(30), <1>8, <2>2 DEF CloseGroup
    <3>2. Stack(frames, depth + 1)
      BY <3>1 DEF CallInv
    <3>3. Len(frames) = depth + 1 /\ depth > 0
      <4>1. Len(frames) = depth + 1
        BY <3>2 DEF Stack
      <4>2. QED
        BY <1>2, <3>1, <4>1
    <3>4. Stack(Front(frames), depth)
      BY <1>2, <3>2, PoppedStack
    <3>5. Stack(Deliver(Front(frames), TopNode), depth)
      BY <1>2, <3>3, <3>4, DeliveredStack
    <3>6. Stack(frames', depth' + 1)
      BY <1>2, <3>1, <3>5
    <3>7. depth' \in 0 .. MaxDepth
      BY <1>2, <3>1, <3>3 DEF CallInv
    <3>8. QED
      BY <1>3, <1>8, <2>2, <3>6, <3>7 DEF CloseGroup, CallInv
  <2>3. QED
    BY <2>1, <2>2
<1>9. CASE Finish
  <2>1. CASE ~ AtEnd
    BY <1>9, <2>1, RejectCallInv DEF Finish
  <2>2. CASE AtEnd
    BY <1>9, <2>2 DEF Finish, CallInv
  <2>3. QED
    BY <2>1, <2>2
<1>10. CASE UNCHANGED parserVars
  BY <1>10 DEF parserVars, CallInv
<1>11. QED
  BY <1>4, <1>5, <1>6, <1>7, <1>8, <1>9, <1>10 DEF Next, ParserNext

LEMMA CallInvariant == Spec => []CallInv
<1>1. QED
  BY InitCallInv, NextCallInv, PTL DEF Spec

\* Whatever the text, the calls of parseOrExpr in progress are one for each
\* open group and one for the expression, never more than maxFIQLDepth + 1.
THEOREM StackNeverOverflows == Spec => []StackBounded
<1>1. CallInv => StackBounded
  <2> SUFFICES ASSUME CallInv, mode \in {"atom", "after"}
               PROVE  Len(frames) = depth + 1 /\ Len(frames) <= MaxDepth + 1
    BY DEF StackBounded
  <2>1. Len(frames) = depth + 1 /\ depth \in 0 .. MaxDepth
    BY DEF CallInv, Stack
  <2>2. QED
    BY <2>1, BoundAssumption
<1>2. QED
  BY <1>1, CallInvariant, PTL

\* The parser's position stays within the text or at its end, whatever it reads,
\* and a call in progress always has a frame to deliver to.
THEOREM ParserTypeCorrect == Spec => []TypeOK
<1>1. CallInv => TypeOK
  <2> SUFFICES ASSUME CallInv PROVE TypeOK
    OBVIOUS
  <2>1. ASSUME mode \in {"atom", "after"} PROVE frames # <<>>
    <3>1. Len(frames) = depth + 1 /\ depth \in 0 .. MaxDepth
      BY <2>1 DEF CallInv, Stack
    <3>2. Len(frames) > 0
      BY <3>1, BoundAssumption
    <3>3. QED
      BY <3>2
  <2>2. QED
    BY <2>1 DEF CallInv, TypeOK
<1>2. QED
  BY <1>1, CallInvariant, PTL
=============================================================================
