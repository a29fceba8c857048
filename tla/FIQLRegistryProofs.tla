------------------------- MODULE FIQLRegistryProofs -------------------------
(***************************************************************************)
(* Theorems about FIQLRegistry, for every schema, every meaning of the     *)
(* operands and every bound on lists: what a service answers is what the   *)
(* schema it was built of grants.                                          *)
(***************************************************************************)
EXTENDS FIQLRegistry, WellFoundedInduction, TLAPS

(***************************************************************************)
(* The annotations of one field.                                           *)
(***************************************************************************)

LEMMA LeastNumber ==
    ASSUME NEW T \in SUBSET Nat, T # {}
    PROVE  \E n \in T : \A m \in T : n <= m
<1> DEFINE R == {ss \in Nat \X Nat : ss[1] < ss[2]}
<1>1. IsWellFoundedOn(R, Nat)
  BY NatLessThanWellFounded DEF OpToRel
<1> HIDE DEF R
<1>2. PICK n \in T : \A m \in T : ~ (<<m, n>> \in R)
  BY <1>1, WFMin
<1>3. ASSUME NEW m \in T PROVE n <= m
  <2>1. m \in Nat /\ n \in Nat
    OBVIOUS
  <2>2. m < n => <<m, n>> \in R
    BY <2>1 DEF R
  <2>3. QED
    BY <1>2, <2>1, <2>2
<1>4. QED
  BY <1>3

\* merged is what its definition says, up to n.
MergesUpTo(g, annotations, n) ==
    g = [k \in 0..n |-> IF k = 0 THEN <<>> ELSE Merge(g[k - 1], annotations[k])]

\* The merge of any number of annotations exists.
LEMMA MergesExist ==
    ASSUME NEW annotations, NEW N \in Nat
    PROVE  \E g : MergesUpTo(g, annotations, N)
<1> DEFINE T == {n \in Nat : ~ \E g : MergesUpTo(g, annotations, n)}
<1> SUFFICES ASSUME N \in T PROVE FALSE
  OBVIOUS
<1>1. PICK n \in T : \A m \in T : n <= m
  <2>1. T \in SUBSET Nat /\ T # {}
    OBVIOUS
  <2> HIDE DEF T
  <2>2. QED
    BY <2>1, LeastNumber
<1>2. n # 0
  <2>1. MergesUpTo([k \in 0..0 |-> <<>>], annotations, 0)
    BY DEF MergesUpTo
  <2>2. QED
    BY <2>1
<1>3. PICK g : MergesUpTo(g, annotations, n - 1)
  <2>1. n - 1 \in Nat /\ n - 1 \notin T
    BY <1>1, <1>2
  <2>2. QED
    BY <2>1
<1> DEFINE h == [k \in 0..n |-> IF k = n THEN Merge(g[n - 1], annotations[n]) ELSE g[k]]
<1>4. \A k \in 0..n - 1 : h[k] = g[k] /\ g[k] = IF k = 0 THEN <<>> ELSE Merge(g[k - 1], annotations[k])
  BY <1>1, <1>2, <1>3 DEF MergesUpTo
<1>5. ASSUME NEW k \in 0..n
      PROVE  h[k] = IF k = 0 THEN <<>> ELSE Merge(h[k - 1], annotations[k])
  <2>1. CASE k = n
    BY <2>1, <1>1, <1>2
  <2>2. CASE k # n
    <3>1. k \in 0..n - 1 /\ (k # 0 => k - 1 \in 0..n - 1)
      BY <2>2, <1>1
    <3>2. QED
      BY <3>1, <1>4
  <2>3. QED
    BY <2>1, <2>2
<1>6. MergesUpTo(h, annotations, n)
  BY <1>5 DEF MergesUpTo
<1>7. QED
  BY <1>1, <1>6

LEMMA MergedStep ==
    ASSUME NEW annotations \in Seq(Seq(Op))
    PROVE  /\ Merged(annotations)[0] = <<>>
           /\ \A n \in 1..Len(annotations) :
                Merged(annotations)[n] = Merge(Merged(annotations)[n - 1], annotations[n])
<1> DEFINE N == Len(annotations)
<1>1. Merged(annotations) =
        CHOOSE g : g = [n \in 0..N |-> IF n = 0 THEN <<>> ELSE Merge(g[n - 1], annotations[n])]
  BY DEF Merged
<1>2. N \in Nat /\ \E g : MergesUpTo(g, annotations, N)
  <2>1. N \in Nat
    OBVIOUS
  <2> HIDE DEF N
  <2>2. QED
    BY <2>1, MergesExist
<1>3. Merged(annotations) =
        [n \in 0..N |-> IF n = 0 THEN <<>> ELSE Merge(Merged(annotations)[n - 1], annotations[n])]
  BY <1>1, <1>2 DEF MergesUpTo
<1>4. \A n \in 0..N : Merged(annotations)[n] = IF n = 0 THEN <<>> ELSE Merge(Merged(annotations)[n - 1], annotations[n])
  <2> DEFINE m == Merged(annotations)
  <2>1. m = [n \in 0..N |-> IF n = 0 THEN <<>> ELSE Merge(m[n - 1], annotations[n])]
    BY <1>3
  <2> HIDE DEF m, N
  <2>2. \A n \in 0..N : m[n] = IF n = 0 THEN <<>> ELSE Merge(m[n - 1], annotations[n])
    BY <2>1
  <2>3. QED
    BY <2>2 DEF m
<1>5. QED
  BY <1>2, <1>4

\* Merge keeps the first annotation that has operators.
FirstOf(annotations, n, ops) ==
    \/ ops = <<>> /\ \A j \in 1..n : annotations[j] = <<>>
    \/ \E i \in 1..n : ops = annotations[i] /\ ops # <<>> /\ \A j \in 1..i - 1 : annotations[j] = <<>>

LEMMA MergedIsFirst ==
    ASSUME NEW annotations \in Seq(Seq(Op))
    PROVE  FirstOf(annotations, Len(annotations), Merged(annotations)[Len(annotations)])
<1> DEFINE N == Len(annotations)
           T == {n \in 0..N : ~FirstOf(annotations, n, Merged(annotations)[n])}
<1> SUFFICES ASSUME N \in T PROVE FALSE
  OBVIOUS
<1>1. PICK n \in T : \A m \in T : n <= m
  <2>1. T \in SUBSET Nat /\ T # {}
    OBVIOUS
  <2> HIDE DEF T
  <2>2. QED
    BY <2>1, LeastNumber
<1>2. n # 0
  <2>1. FirstOf(annotations, 0, Merged(annotations)[0])
    BY MergedStep DEF FirstOf
  <2>2. QED
    BY <2>1
<1> DEFINE before == Merged(annotations)[n - 1]
<1>3. n - 1 \in 0..N /\ n \in 1..N /\ FirstOf(annotations, n - 1, before)
  BY <1>1, <1>2
<1>4. Merged(annotations)[n] = IF before = <<>> THEN annotations[n] ELSE before
  BY <1>3, MergedStep DEF Merge
<1>5. FirstOf(annotations, n, Merged(annotations)[n])
  <2> HIDE DEF before
  <2>1. CASE before = <<>>
    <3>1. \A j \in 1..n - 1 : annotations[j] = <<>>
      BY <2>1, <1>3 DEF FirstOf
    <3>2. QED
      BY <3>1, <2>1, <1>3, <1>4 DEF FirstOf
  <2>2. CASE before # <<>>
    BY <2>2, <1>3, <1>4 DEF FirstOf
  <2>3. QED
    BY <2>1, <2>2
<1>6. QED
  BY <1>1, <1>5

LEMMA RangeFacts ==
    ASSUME NEW S, NEW ops \in Seq(S)
    PROVE  Range(ops) \subseteq S /\ (ops = <<>> <=> Range(ops) = {})
<1>1. ops # <<>> => 1 \in DOMAIN ops
  OBVIOUS
<1>2. ops = <<>> => DOMAIN ops = {}
  OBVIOUS
<1>3. \A i \in DOMAIN ops : ops[i] \in S
  OBVIOUS
<1>4. QED
  BY <1>1, <1>2, <1>3 DEF Range

LEMMA SeqFacts ==
    ASSUME NEW S, NEW s \in Seq(S)
    PROVE  Len(s) \in Nat /\ DOMAIN s = 1..Len(s) /\ \A i \in 1..Len(s) : s[i] \in S
OBVIOUS

LEMMA AnnotationFacts ==
    ASSUME NEW as \in Seq(Seq(Op))
    PROVE  /\ Len(as) \in Nat /\ DOMAIN as = 1..Len(as)
           /\ \A i \in 1..Len(as) : /\ as[i] \in Seq(Op) /\ Range(as[i]) \subseteq Op
                                    /\ as[i] = <<>> <=> Range(as[i]) = {}
<1>1. Len(as) \in Nat /\ DOMAIN as = 1..Len(as) /\ \A i \in 1..Len(as) : as[i] \in Seq(Op)
  BY SeqFacts
<1>2. QED
  BY <1>1, RangeFacts

\* The operators of a field are those that its schema grants.
LEMMA OpsGranted ==
    ASSUME NEW d \in Decl
    PROVE  /\ FIQLOps(d) \in Seq(Op) /\ Range(FIQLOps(d)) = Granted(d)
           /\ FIQLOps(d) = <<>> <=> Granted(d) = {}
<1> DEFINE as == d.annotations
           ops == FIQLOps(d)
<1>1. as \in Seq(Seq(Op)) /\ FirstOf(as, Len(as), ops)
  BY RegistryAssumption, MergedIsFirst DEF FIQLOps
<1>2. Granted(d) = {op \in Op : \E i \in DOMAIN as : op \in Range(as[i]) /\ \A j \in 1..i - 1 : as[j] = <<>>}
  BY DEF Granted
<1> HIDE DEF as, ops
<1> DEFINE N == Len(as)
<1>3. /\ N \in Nat /\ DOMAIN as = 1..N
      /\ \A i \in 1..N : /\ as[i] \in Seq(Op) /\ Range(as[i]) \subseteq Op
                         /\ as[i] = <<>> <=> Range(as[i]) = {}
  BY <1>1, AnnotationFacts
<1> HIDE DEF N
<1>4. CASE ops = <<>> /\ \A j \in 1..N : as[j] = <<>>
  <2>1. Granted(d) = {}
    BY <1>2, <1>3, <1>4
  <2>2. <<>> \in Seq(Op)
    OBVIOUS
  <2>3. QED
    BY <2>1, <2>2, <1>4, RangeFacts DEF ops
<1>5. CASE \E i \in 1..N : ops = as[i] /\ ops # <<>> /\ \A j \in 1..i - 1 : as[j] = <<>>
  <2>1. PICK i \in 1..N : ops = as[i] /\ ops # <<>> /\ \A j \in 1..i - 1 : as[j] = <<>>
    BY <1>5
  <2>2. ops \in Seq(Op) /\ Range(ops) \subseteq Granted(d)
    BY <1>2, <1>3, <2>1
  <2>3. ASSUME NEW op \in Granted(d) PROVE op \in Range(ops)
    <3>1. PICK k \in 1..N : op \in Range(as[k]) /\ \A j \in 1..k - 1 : as[j] = <<>>
      BY <1>2, <1>3
    <3>2. i \in Nat /\ k \in Nat /\ i >= 1 /\ k >= 1
      BY <1>3
    <3>3. as[k] # <<>> /\ as[i] # <<>>
      <4>1. Range(as[k]) # {}
        BY <3>1
      <4>2. QED
        BY <4>1, <1>3, <2>1
    <3>4. k \notin 1..i - 1 /\ i \notin 1..k - 1
      BY <2>1, <3>1, <3>3
    <3>5. k = i
      BY <3>2, <3>4
    <3>6. QED
      BY <3>1, <3>5, <2>1
  <2>4. Range(ops) # {}
    BY <2>1, <1>3
  <2>5. QED
    BY <2>1, <2>2, <2>3, <2>4 DEF ops
<1>6. QED
  BY <1>1, <1>4, <1>5 DEF FirstOf, N

-----------------------------------------------------------------------------
(***************************************************************************)
(* The generated registry.                                                 *)
(***************************************************************************)

LEMMA KindOfEnum ==
    ASSUME NEW type
    PROVE  resolveFieldKind(type) = "Enum" <=> type = "enum"
BY DEF resolveFieldKind

LEMMA EntryFacts ==
    ASSUME NEW d \in Decl
    PROVE  /\ Entry(d).kind = resolveFieldKind(d.type) /\ Entry(d).type = d.type /\ Entry(d).values = d.values
           /\ Range(Entry(d).members) = {op \in Granted(d) : d.type = "enum" => op \in FIQLEnum}
<1> DEFINE ops == FIQLOps(d)
           kind == resolveFieldKind(d.type)
           places == {k \in DOMAIN ops : kind # "Enum" \/ ops[k] \in FIQLEnum}
<1>1. Entry(d) = [kind |-> kind, type |-> d.type, values |-> d.values, members |-> [i \in places |-> ops[i]]]
  BY DEF Entry
<1>2. Range(ops) = Granted(d) /\ (kind = "Enum" <=> d.type = "enum")
  BY OpsGranted, KindOfEnum
<1> HIDE DEF ops, kind
<1>3. Range([i \in places |-> ops[i]]) = {op \in Range(ops) : kind = "Enum" => op \in FIQLEnum}
  BY DEF Range
<1>4. QED
  BY <1>1, <1>2, <1>3 DEF kind

LEMMA RegistryFacts ==
    ASSUME NEW s \in [Field -> Decl]
    PROVE  /\ DOMAIN Registry(s) = {f \in Field : ~s[f].edge /\ Granted(s[f]) # {}}
           /\ \A f \in DOMAIN Registry(s) : f \in Field /\ Registry(s)[f] = Entry(s[f])
<1>1. \A f \in Field : s[f] \in Decl /\ (FIQLOps(s[f]) = <<>> <=> Granted(s[f]) = {})
  BY OpsGranted
<1>2. QED
  BY <1>1 DEF Registry, Registered

-----------------------------------------------------------------------------
(***************************************************************************)
(* One comparison.                                                         *)
(***************************************************************************)

Known(d, t) ==
    IF d.type = "enum" THEN t \in d.values ELSE t \in DOMAIN Meaning[resolveFieldKind(d.type)]

\* What the schema says of a comparison.
Answerable(d, op, operands) ==
    /\ ~d.edge /\ Grants(d, op)
    /\ op \in ListOps => Len(operands) \in 1..MaxListValues
    /\ \A i \in DOMAIN operands : Known(d, operands[i])

\* apply takes a comparison if the member is there and each operand is known.
LEMMA ApplyAccepts ==
    ASSUME NEW d \in Decl, NEW op \in Op, NEW operands
    PROVE  /\ d.type # "enum" =>
                (applyTyped(Entry(d), op, operands).accepted
                   <=> Grants(d, op) /\ \A i \in DOMAIN operands : Known(d, operands[i]))
           /\ d.type = "enum" =>
                (applyEnum(Entry(d), op, operands).accepted
                   <=> Grants(d, op) /\ \A i \in DOMAIN operands : Known(d, operands[i]))
<1> DEFINE e == Entry(d)
<1>1. /\ e.kind = resolveFieldKind(d.type) /\ e.values = d.values
      /\ Range(e.members) = {o \in Granted(d) : d.type = "enum" => o \in FIQLEnum}
  BY EntryFacts
<1> HIDE DEF e
<1>2. ASSUME d.type # "enum"
      PROVE  applyTyped(e, op, operands).accepted
               <=> Grants(d, op) /\ \A i \in DOMAIN operands : Known(d, operands[i])
  <2>1. op \in Range(e.members) <=> Grants(d, op)
    BY <1>1, <1>2 DEF Grants
  <2>2. Range(operands) \subseteq DOMAIN Meaning[e.kind] <=> \A i \in DOMAIN operands : Known(d, operands[i])
    BY <1>1, <1>2 DEF Known, Range
  <2>3. applyTyped(e, op, operands).accepted
          <=> op \in Range(e.members) /\ Range(operands) \subseteq DOMAIN Meaning[e.kind]
    BY DEF applyTyped, Rejected, NativePredicate, Predicate
  <2>4. QED
    BY <2>1, <2>2, <2>3
<1>3. ASSUME d.type = "enum"
      PROVE  applyEnum(e, op, operands).accepted
               <=> Grants(d, op) /\ \A i \in DOMAIN operands : Known(d, operands[i])
  <2> DEFINE member == CASE op = "In" -> "EQ" [] op = "NotIn" -> "NEQ" [] OTHER -> op
  <2>1. member \in Range(e.members) <=> Grants(d, op)
    BY <1>1, <1>3 DEF Grants, ListOps, FIQLEnum
  <2>2. Range(operands) \subseteq e.values <=> \A i \in DOMAIN operands : Known(d, operands[i])
    BY <1>1, <1>3 DEF Known, Range
  <2>3. applyEnum(e, op, operands).accepted
          <=> member \in Range(e.members) /\ Range(operands) \subseteq e.values
    BY DEF applyEnum, Rejected, NativePredicate, Predicate
  <2>4. QED
    BY <2>1, <2>2, <2>3
<1>4. QED
  BY <1>2, <1>3 DEF e

LEMMA CompileAccepts ==
    ASSUME NEW s \in [Field -> Decl], NEW f \in Field, NEW op \in Op, NEW val, NEW vals
    PROVE  CompileCmp(Registry(s), f, op, val, vals).accepted <=> Answerable(s[f], op, Used(op, val, vals))
<1> DEFINE reg == Registry(s)
           d == s[f]
           operands == Used(op, val, vals)
<1>1. d \in Decl
  OBVIOUS
<1>2. op \in ListOps => operands = vals
  BY DEF Used, ListOps, NullOps
<1>3. CASE op \in ListOps /\ Len(vals) \notin 1..MaxListValues
  <2>1. ~CompileCmp(reg, f, op, val, vals).accepted
    BY <1>3 DEF CompileCmp, Rejected
  <2>2. QED
    BY <2>1, <1>2, <1>3 DEF Answerable
<1>4. CASE f \notin DOMAIN reg
  <2>1. ~CompileCmp(reg, f, op, val, vals).accepted
    BY <1>4 DEF CompileCmp, Rejected
  <2>2. d.edge \/ Granted(d) = {}
    BY <1>4, RegistryFacts
  <2>3. Granted(d) = {} => ~Grants(d, op)
    BY DEF Grants
  <2>4. QED
    BY <2>1, <2>2, <2>3 DEF Answerable
<1>5. CASE ~(op \in ListOps /\ Len(vals) \notin 1..MaxListValues) /\ f \in DOMAIN reg
  <2>1. reg[f] = Entry(d) /\ ~d.edge
    BY <1>5, RegistryFacts
  <2>2. reg[f].kind = "Enum" <=> d.type = "enum"
    BY <2>1, <1>1, EntryFacts, KindOfEnum
  <2>3. CompileCmp(reg, f, op, val, vals) =
          IF d.type = "enum" THEN applyEnum(Entry(d), op, operands) ELSE applyTyped(Entry(d), op, operands)
    BY <1>5, <2>1, <2>2 DEF CompileCmp
  <2>4. CompileCmp(reg, f, op, val, vals).accepted
          <=> Grants(d, op) /\ \A i \in DOMAIN operands : Known(d, operands[i])
    BY <2>3, <1>1, ApplyAccepts
  <2>5. QED
    BY <2>1, <2>4, <1>2, <1>5 DEF Answerable
<1>6. QED
  BY <1>3, <1>4, <1>5

\* What is selected is a set of cells of the field's kind.
LEMMA CompileCells ==
    ASSUME NEW reg, NEW f, NEW op, NEW val, NEW vals,
           CompileCmp(reg, f, op, val, vals).accepted
    PROVE  /\ f \in DOMAIN reg
           /\ CompileCmp(reg, f, op, val, vals).cells \subseteq Cell(reg[f].kind)
<1>1. f \in DOMAIN reg
  BY DEF CompileCmp, Rejected
<1>2. CASE reg[f].kind = "Enum"
  <2>1. applyEnum(reg[f], op, Used(op, val, vals)).cells \subseteq Cell("Enum")
    BY DEF applyEnum, Rejected, Predicate, NativePredicate, Composed
  <2>2. QED
    BY <2>1, <1>1, <1>2 DEF CompileCmp, Rejected
<1>3. CASE reg[f].kind # "Enum"
  <2>1. applyTyped(reg[f], op, Used(op, val, vals)).cells \subseteq Cell(reg[f].kind)
    BY DEF applyTyped, Rejected, Predicate, NativePredicate
  <2>2. QED
    BY <2>1, <1>1, <1>3 DEF CompileCmp, Rejected
<1>4. QED
  BY <1>1, <1>2, <1>3

\* The cells that =in= and =out= must select.
Parts(kind, op, vals) ==
    LET listed == {Meaning[kind][t] : t \in Range(vals)}
    IN  {{v} : v \in IF op = "In" THEN listed ELSE Range(Meaning[kind]) \ listed}

\* The cells a list operator selects, whether ent has a predicate for it or it
\* is composed of the predicates of single values.
LEMMA CompileList ==
    ASSUME NEW s \in [Field -> Decl], NEW f \in Field, NEW op \in ListOps, NEW val, NEW vals \in Seq(Texts),
           CompileCmp(Registry(s), f, op, val, vals).accepted
    PROVE  CompileCmp(Registry(s), f, op, val, vals).cells = Parts(Registry(s)[f].kind, op, vals)
<1> DEFINE kind == Registry(s)[f].kind
           listed == {Meaning[kind][t] : t \in Range(vals)}
           reg == Registry(s)
           e == reg[f]
           result == CompileCmp(reg, f, op, val, vals)
<1>1. f \in DOMAIN reg /\ e = Entry(s[f]) /\ s[f] \in Decl
  BY CompileCells, RegistryFacts
<1>2. Used(op, val, vals) = vals
  BY DEF Used, ListOps, NullOps
<1>3. /\ Len(vals) \in 1..MaxListValues
      /\ result = IF kind = "Enum" THEN applyEnum(e, op, vals) ELSE applyTyped(e, op, vals)
  BY <1>2 DEF CompileCmp, Rejected
<1>4. DOMAIN vals = 1..Len(vals) /\ Len(vals) \in Nat /\ 1 \in DOMAIN vals
  BY <1>3
<1>5. result.accepted /\ kind = e.kind
  OBVIOUS
<1> HIDE DEF e, reg, result, kind, listed
<1>6. CASE kind = "Enum"
  <2>1. Range(vals) \subseteq e.values /\ result.cells = Composed(e, op, vals)
    BY <1>3, <1>5, <1>6 DEF applyEnum, Rejected, Predicate, result
  <2>2. e.values \subseteq DOMAIN Meaning["Enum"]
    <3>1. s[f].type = "enum" /\ e.values = s[f].values
      <4>1. e.kind = resolveFieldKind(s[f].type) /\ e.values = s[f].values
        BY <1>1, EntryFacts
      <4>2. QED
        BY <4>1, <1>5, <1>6, KindOfEnum
    <3>2. QED
      BY <3>1, <1>1, RegistryAssumption
  <2>3. \A i \in DOMAIN vals : Meaning["Enum"][vals[i]] \in Range(Meaning["Enum"])
    BY <2>1, <2>2 DEF Range
  <2>4. listed = {Meaning["Enum"][vals[i]] : i \in DOMAIN vals} /\ listed \subseteq Range(Meaning["Enum"])
    BY <1>6, <2>3 DEF Range, listed
  <2>5. CASE op = "In"
    <3>1. Composed(e, op, vals) = {c \in Cell("Enum") : \E i \in DOMAIN vals : c = {Meaning["Enum"][vals[i]]}}
      BY <2>5 DEF Composed, Selects
    <3>2. \A i \in DOMAIN vals : {Meaning["Enum"][vals[i]]} \in Cell("Enum")
      BY <2>3 DEF Cell
    <3>3. Composed(e, op, vals) = {{v} : v \in listed}
      <4>1. Composed(e, op, vals) = {{Meaning["Enum"][vals[i]]} : i \in DOMAIN vals}
        BY <3>1, <3>2
      <4>2. QED
        BY <4>1, <2>4
    <3>4. QED
      BY <3>3, <2>1, <2>5 DEF result, reg, Parts, kind, listed
  <2>6. CASE op = "NotIn"
    <3>1. Composed(e, op, vals) =
            {c \in Cell("Enum") : \A i \in DOMAIN vals : c # {} /\ c # {Meaning["Enum"][vals[i]]}}
      BY <2>6 DEF Composed, Selects
    <3>2. Composed(e, op, vals) = {{v} : v \in Range(Meaning["Enum"]) \ listed}
      <4>1. ASSUME NEW c \in Composed(e, op, vals) PROVE c \in {{v} : v \in Range(Meaning["Enum"]) \ listed}
        <5>1. c # {} /\ c \in Cell("Enum") /\ \A i \in DOMAIN vals : c # {Meaning["Enum"][vals[i]]}
          BY <3>1, <1>4
        <5>2. PICK v \in Range(Meaning["Enum"]) : c = {v}
          BY <5>1 DEF Cell
        <5>3. v \notin listed
          BY <5>1, <5>2, <2>4
        <5>4. QED
          BY <5>2, <5>3
      <4>2. ASSUME NEW v \in Range(Meaning["Enum"]) \ listed PROVE {v} \in Composed(e, op, vals)
        <5>1. {v} \in Cell("Enum")
          BY DEF Cell
        <5>2. \A i \in DOMAIN vals : {v} # {Meaning["Enum"][vals[i]]}
          BY <2>4
        <5>3. QED
          BY <5>1, <5>2, <3>1
      <4>3. QED
        BY <4>1, <4>2
    <3>3. QED
      BY <3>2, <2>1, <2>6, <1>6 DEF result, reg, Parts, kind, listed
  <2>7. QED
    BY <2>5, <2>6 DEF ListOps
<1>7. CASE kind # "Enum"
  <2> DEFINE vs == [i \in DOMAIN vals |-> Meaning[kind][vals[i]]]
  <2>1. Range(vals) \subseteq DOMAIN Meaning[kind] /\ result.cells = {c \in Cell(kind) : Selects(op, vs, c)}
    BY <1>3, <1>5, <1>7 DEF applyTyped, NativePredicate, Rejected, Predicate, result
  <2>2. Range(vs) = listed
    BY DEF Range, listed
  <2>3. listed \subseteq Range(Meaning[kind])
    BY <2>1 DEF Range, listed
  <2> HIDE DEF vs
  <2>4. CASE op = "In"
    <3>1. result.cells = {c \in Cell(kind) : c # {} /\ c \subseteq listed}
      BY <2>1, <2>2, <2>4 DEF Selects
    <3>2. \A v \in listed : {v} \in Cell(kind) /\ {v} # {} /\ {v} \subseteq listed
      BY <2>3 DEF Cell
    <3>3. \A c \in Cell(kind) : c # {} /\ c \subseteq listed => \E v \in listed : c = {v}
      BY DEF Cell
    <3>4. result.cells = {{v} : v \in listed}
      <4>1. \A v \in listed : {v} \in result.cells
        BY <3>1, <3>2
      <4>2. \A c \in result.cells : \E v \in listed : c = {v}
        BY <3>1, <3>3
      <4>3. QED
        BY <4>1, <4>2
    <3>5. QED
      BY <3>4, <2>4 DEF result, reg, Parts, kind, listed
  <2>5. CASE op = "NotIn"
    <3>1. result.cells = {c \in Cell(kind) : c # {} /\ c \cap listed = {}}
      BY <2>1, <2>2, <2>5 DEF Selects
    <3>2. result.cells = {{v} : v \in Range(Meaning[kind]) \ listed}
      BY <3>1 DEF Cell
    <3>3. QED
      BY <3>2, <2>5 DEF result, reg, Parts, kind, listed
  <2>6. QED
    BY <2>4, <2>5 DEF ListOps
<1>8. QED
  BY <1>6, <1>7

-----------------------------------------------------------------------------
(***************************************************************************)
(* The inductive invariant.  The properties speak of the answer alone; to  *)
(* be kept they need that a build is of one schema as a whole, and that    *)
(* the one in service was taken by the compiler.                           *)
(***************************************************************************)
OfSchema(g) ==
    g = NoBuild \/ (/\ g.schema \in [Field -> Decl]
                    /\ \A f \in Field : ~Refused(g.schema[f])
                    /\ g.registry = Registry(g.schema))

AnswerOK ==
    answer # NoAnswer =>
        /\ serving # NoBuild
        /\ answer.field \in Field /\ answer.op \in Op
        /\ <<answer.val, answer.vals>> \in Query(answer.op)
        /\ answer.result = CompileCmp(serving.registry, answer.field, answer.op, answer.val, answer.vals)

IInv ==
    /\ schema \in [Field -> Decl] /\ \A f \in Field : schema[f] \in Declared[f]
    /\ OfSchema(generated) /\ OfSchema(serving)
    /\ AnswerOK
    /\ edits \in 0..MaxEdits

LEMMA InitInvariant == Init => IInv
BY RegistryAssumption DEF Init, IInv, OfSchema, AnswerOK

LEMMA NextInvariant == IInv /\ [Next]_vars => IInv'
<1> SUFFICES ASSUME IInv, [Next]_vars PROVE IInv'
  OBVIOUS
<1>1. ASSUME NEW f \in Field, NEW d \in Declared[f], Declare(f, d) PROVE IInv'
  <2>1. d \in Decl
    BY DEF Decl
  <2>2. schema' \in [Field -> Decl] /\ \A g \in Field : schema'[g] \in Declared[g]
    BY <1>1, <2>1 DEF Declare, IInv
  <2>3. edits' \in 0..MaxEdits
    BY <1>1, RegistryAssumption DEF Declare, IInv
  <2>4. UNCHANGED <<generated, serving, answer>>
    BY <1>1 DEF Declare
  <2>5. QED
    BY <2>2, <2>3, <2>4 DEF IInv, OfSchema, AnswerOK
<1>2. ASSUME Generate PROVE IInv'
  <2>1. OfSchema(generated')
    BY <1>2 DEF Generate, IInv, OfSchema
  <2>2. UNCHANGED <<schema, serving, answer, edits>>
    BY <1>2 DEF Generate
  <2>3. QED
    BY <2>1, <2>2 DEF IInv, OfSchema, AnswerOK
<1>3. ASSUME Deploy PROVE IInv'
  BY <1>3 DEF Deploy, IInv, OfSchema, AnswerOK
<1>4. ASSUME NEW f \in Field, NEW op \in Op, NEW q \in Query(op), Compile(f, op, q[1], q[2]) PROVE IInv'
  <2>1. <<q[1], q[2]>> = q
    BY DEF Query
  <2>2. AnswerOK'
    BY <1>4, <2>1 DEF Compile, AnswerOK
  <2>3. UNCHANGED <<schema, generated, serving, edits>>
    BY <1>4 DEF Compile
  <2>4. QED
    BY <2>2, <2>3 DEF IInv, OfSchema
<1>5. ASSUME Return PROVE IInv'
  BY <1>5 DEF Return, IInv, OfSchema, AnswerOK
<1>6. ASSUME UNCHANGED vars PROVE IInv'
  BY <1>6 DEF vars, IInv, OfSchema, AnswerOK
<1>7. QED
  BY <1>1, <1>2, <1>3, <1>4, <1>5, <1>6 DEF Next

\* What is served is the registry of one schema, the one it was built of.
THEOREM Invariance == Spec => []IInv
BY InitInvariant, NextInvariant, PTL DEF Spec

-----------------------------------------------------------------------------
(***************************************************************************)
(* The properties.                                                         *)
(***************************************************************************)

LEMMA TypeCorrect == IInv => TypeOK
<1> SUFFICES ASSUME IInv PROVE TypeOK
  OBVIOUS
<1>1. ASSUME NEW g \in {generated, serving}
      PROVE  /\ DOMAIN g.registry \subseteq Field
             /\ \A f \in DOMAIN g.registry : Range(g.registry[f].members) \subseteq Op
  <2>1. CASE g = NoBuild
    BY <2>1 DEF NoBuild
  <2>2. CASE g # NoBuild
    <3>1. g.schema \in [Field -> Decl] /\ g.registry = Registry(g.schema)
      BY <2>2 DEF IInv, OfSchema
    <3>2. ASSUME NEW f \in DOMAIN g.registry
          PROVE  f \in Field /\ Range(g.registry[f].members) \subseteq Op
      <4>1. f \in Field /\ g.registry[f] = Entry(g.schema[f]) /\ g.schema[f] \in Decl
        BY <3>1, RegistryFacts
      <4>2. QED
        BY <4>1, EntryFacts DEF Granted
    <3>3. QED
      BY <3>2
  <2>3. QED
    BY <2>1, <2>2
<1>2. answer.result.accepted =>
        /\ answer.field \in DOMAIN serving.registry
        /\ answer.result.cells \subseteq Cell(serving.registry[answer.field].kind)
  BY CompileCells DEF IInv, AnswerOK, NoAnswer, Rejected
<1>3. QED
  BY <1>1, <1>2 DEF TypeOK, IInv

\* A comparison is answered exactly if the deployed schema grants its operator
\* and its operands are known: nothing is lost or let through by Merge, the
\* template, the build and apply.
THEOREM AnswersWhatIsGranted == Spec => []AnsweredIffGranted
<1>1. IInv => AnsweredIffGranted
  <2> SUFFICES ASSUME IInv PROVE AnsweredIffGranted
    OBVIOUS
  <2>1. ASSUME answer # NoAnswer
        PROVE  answer.result.accepted
                 <=> Answerable(serving.schema[answer.field], answer.op, Used(answer.op, answer.val, answer.vals))
    <3>1. /\ serving.schema \in [Field -> Decl] /\ serving.registry = Registry(serving.schema)
          /\ answer.field \in Field /\ answer.op \in Op
          /\ answer.result = CompileCmp(serving.registry, answer.field, answer.op, answer.val, answer.vals)
      BY <2>1 DEF IInv, OfSchema, AnswerOK
    <3>2. QED
      BY <3>1, CompileAccepts
  <2>2. QED
    BY <2>1, TypeCorrect DEF AnsweredIffGranted, Answerable, Known
<1>2. QED
  BY <1>1, Invariance, PTL

\* The two list operators part the values of a column, whether ent has a
\* predicate for them (In, NotIn) or orPreds and andPreds assemble it.
THEOREM ListsPart == Spec => []ListsPartition
<1>1. IInv => ListsPartition
  <2> SUFFICES ASSUME IInv, answer.result.accepted, answer.op \in ListOps
               PROVE  LET kind == serving.registry[answer.field].kind
                          listed == {Meaning[kind][t] : t \in Range(answer.vals)}
                      IN  answer.result.cells =
                            {{v} : v \in IF answer.op = "In" THEN listed ELSE Range(Meaning[kind]) \ listed}
    BY DEF ListsPartition
  <2>1. answer # NoAnswer
    BY DEF NoAnswer, Rejected
  <2>2. /\ serving.schema \in [Field -> Decl] /\ serving.registry = Registry(serving.schema)
        /\ answer.field \in Field
        /\ <<answer.val, answer.vals>> \in Query(answer.op)
        /\ answer.result = CompileCmp(serving.registry, answer.field, answer.op, answer.val, answer.vals)
    BY <2>1 DEF IInv, OfSchema, AnswerOK
  <2>3. answer.vals \in Seq(Texts)
    <3>1. answer.vals \in Lists
      BY <2>2 DEF Query
    <3>2. QED
      BY <3>1, RegistryAssumption DEF Lists
  <2>4. answer.result.cells = Parts(serving.registry[answer.field].kind, answer.op, answer.vals)
    BY <2>2, <2>3, CompileList
  <2>5. QED
    BY <2>4 DEF Parts
<1>2. QED
  BY <1>1, Invariance, PTL

\* No registry that is served tests a required column for NULL (the error of
\* fieldFIQLAnnotation).
THEOREM NullTestsAreSound == Spec => []NullTestsApply
<1>1. IInv => NullTestsApply
  <2> SUFFICES ASSUME IInv, NEW f \in DOMAIN serving.registry,
                      Range(serving.registry[f].members) \cap NullOps # {}
               PROVE  serving.schema[f].optional
    BY DEF NullTestsApply
  <2>1. serving # NoBuild
    BY DEF NoBuild
  <2>2. /\ serving.schema \in [Field -> Decl] /\ serving.registry = Registry(serving.schema)
        /\ \A g \in Field : ~Refused(serving.schema[g])
    BY <2>1 DEF IInv, OfSchema
  <2> DEFINE d == serving.schema[f]
  <2>3. f \in Field /\ d \in Decl /\ ~d.edge /\ serving.registry[f] = Entry(d)
    BY <2>2, RegistryFacts
  <2> HIDE DEF d
  <2>4. Range(FIQLOps(d)) \cap NullOps # {}
    BY <2>3, EntryFacts, OpsGranted
  <2>5. QED
    BY <2>2, <2>3, <2>4 DEF Refused, d
<1>2. QED
  BY <1>1, Invariance, PTL
=============================================================================
