------------------------- MODULE FieldNumbersProofs -------------------------
(***************************************************************************)
(* What one call of allocateFieldNumbers guarantees, for every record it   *)
(* may find in the lock file and every list of candidate fields.           *)
(***************************************************************************)
EXTENDS FieldNumbers, FiniteSetTheorems, TLAPS

\* A bounded non-empty set of numbers has a greatest element: the loop that
\* computes maxNum is the CHOOSE of MaxNum.
LEMMA MaxExists ==
    ASSUME NEW S \in SUBSET Nat, S # {}, NEW b \in Nat, \A n \in S : n <= b
    PROVE  \E m \in S : \A n \in S : n <= m
<1> DEFINE R == {ss \in Nat \X Nat : ss[1] < ss[2]}
<1> DEFINE U == {u \in Nat : \A n \in S : n <= u}
<1>1. U \subseteq Nat /\ U # {}
  OBVIOUS
<1>2. IsWellFoundedOn(R, Nat)
  BY NatLessThanWellFounded DEF OpToRel
<1> HIDE DEF U, R
<1>3. PICK m \in U : \A u \in U : ~ (<<u, m>> \in R)
  BY <1>1, <1>2, WFMin
<1>4. \A u \in U : ~ (u < m)
  BY <1>1, <1>3 DEF R
<1>5. m \in S
  <2> SUFFICES ASSUME m \notin S PROVE FALSE
    OBVIOUS
  <2>1. PICK s \in S : TRUE
    OBVIOUS
  <2>2. \A n \in S : n < m
    BY DEF U
  <2>3. m - 1 \in U
    BY <2>1, <2>2 DEF U
  <2>4. QED
    BY <1>4, <2>3, <1>1
<1>6. QED
  BY <1>5 DEF U

\* NewFields is finite and so is every part of it.
LEMMA NewFieldsFinite ==
    ASSUME NEW el, NEW current \in Seq(Name), NEW T \in SUBSET NewFields(el, current)
    PROVE  IsFiniteSet(T) /\ Cardinality(T) \in 0..Len(current)
<1>1. IsFiniteSet(1..Len(current)) /\ Cardinality(1..Len(current)) = Len(current)
  <2>1. Len(current) \in Nat /\ 1 \in Int /\ Len(current) \in Int
    OBVIOUS
  <2>2. Cardinality(1..Len(current)) = IF 1 > Len(current) THEN 0 ELSE Len(current) - 1 + 1
    BY <2>1, FS_Interval
  <2>3. QED
    BY <2>1, <2>2, FS_Interval
<1>2. T \in SUBSET (1..Len(current))
  BY DEF NewFields
<1>3. IsFiniteSet(T) /\ Cardinality(T) <= Len(current)
  BY <1>1, <1>2, FS_Subset
<1>4. Cardinality(T) \in Nat
  BY <1>3, FS_CardinalityType
<1>5. QED
  BY <1>3, <1>4

IsNew(el, current, f) == f \in Listed(current) /\ Kept(el, current)[f] = 0

\* Two new fields stand at different places of the sorted list, whichever
\* of them comes first.
LEMMA SortedPositionOrder ==
    ASSUME NEW el, NEW current \in Seq(Name),
           NEW f \in Name, NEW g \in Name, IsNew(el, current, g),
           Rank[f] < Rank[g]
    PROVE  SortedPosition(el, current, f) < SortedPosition(el, current, g)
<1> DEFINE A == {i \in NewFields(el, current) : Rank[current[i]] <= Rank[f]}
<1> DEFINE B == {i \in NewFields(el, current) : Rank[current[i]] <= Rank[g]}
<1>1. PICK j \in DOMAIN current : current[j] = g
  BY DEF IsNew, Listed
<1>2. j \in B /\ j \notin A
  BY <1>1, RankAssumption DEF IsNew, NewFields
<1>3. A \in SUBSET B
  <2>1. \A i \in NewFields(el, current) : Rank[current[i]] \in Nat
    BY RankAssumption DEF NewFields
  <2>2. QED
    BY <2>1, RankAssumption
<1>4. IsFiniteSet(A) /\ IsFiniteSet(B) /\ Cardinality(A) \in Nat /\ Cardinality(B) \in Nat
  <2>1. A \in SUBSET NewFields(el, current) /\ B \in SUBSET NewFields(el, current)
    OBVIOUS
  <2> HIDE DEF A, B
  <2>2. A \in SUBSET NewFields(el, current) =>
           IsFiniteSet(A) /\ Cardinality(A) \in 0..Len(current)
    BY NewFieldsFinite
  <2>3. B \in SUBSET NewFields(el, current) =>
           IsFiniteSet(B) /\ Cardinality(B) \in 0..Len(current)
    BY NewFieldsFinite
  <2>4. QED
    BY <2>1, <2>2, <2>3
<1> HIDE DEF A, B
<1>5. Cardinality(A) <= Cardinality(B) /\ Cardinality(A) # Cardinality(B)
  BY <1>2, <1>3, <1>4, FS_Subset
<1>6. QED
  BY <1>4, <1>5 DEF SortedPosition, A, B

LEMMA SortedPositionRange ==
    ASSUME NEW el, NEW current \in Seq(Name), NEW f \in Name
    PROVE  /\ SortedPosition(el, current, f) \in 0..Len(current)
           /\ IsNew(el, current, f) => SortedPosition(el, current, f) >= 1
<1> DEFINE A == {i \in NewFields(el, current) : Rank[current[i]] <= Rank[f]}
<1>1. A \in SUBSET NewFields(el, current)
  OBVIOUS
<1>2. IsNew(el, current, f) => A # {}
  BY RankAssumption DEF IsNew, Listed, NewFields
<1> HIDE DEF A
<1>3. IsFiniteSet(A) /\ Cardinality(A) \in 0..Len(current)
  BY <1>1, NewFieldsFinite
<1>4. A # {} => Cardinality(A) # 0
  BY <1>3, FS_EmptySet
<1>5. QED
  BY <1>2, <1>3, <1>4 DEF SortedPosition, A

LEMMA SortedPositionDistinct ==
    ASSUME NEW el, NEW current \in Seq(Name),
           NEW f \in Name, NEW g \in Name, f # g,
           IsNew(el, current, f), IsNew(el, current, g)
    PROVE  SortedPosition(el, current, f) # SortedPosition(el, current, g)
<1>1. Rank[f] < Rank[g] \/ Rank[g] < Rank[f]
  BY RankAssumption
<1>2. SortedPosition(el, current, f) \in Nat /\ SortedPosition(el, current, g) \in Nat
  BY SortedPositionRange
<1>3. QED
  BY <1>1, <1>2, SortedPositionOrder

LEMMA KeptType ==
    ASSUME NEW el \in EntityLock, NEW current \in Seq(Name)
    PROVE  /\ Kept(el, current) \in [Name -> Nat]
           /\ Retired(el, current) \subseteq Nat
           /\ Taken(el, current) \subseteq Nat
<1>1. Kept(el, current) \in [Name -> Nat]
  BY DEF Kept, EntityLock
<1>2. Retired(el, current) \subseteq Nat
  BY DEF Retired, Live, EntityLock
<1>3. el.reserved \subseteq Nat
  BY DEF EntityLock
<1>4. QED
  BY <1>1, <1>2, <1>3 DEF Taken

\* maxNum is a number and no live, reserved or retired number exceeds it.
LEMMA MaxNumBound ==
    ASSUME NEW el \in EntityLock, NEW current \in Seq(Name), BoundedNumbers(el)
    PROVE  /\ MaxNum(el, current) \in Nat
           /\ \A m \in Taken(el, current) : m <= MaxNum(el, current)
<1>1. PICK b \in Numbers(el) : \A n \in Numbers(el) : n <= b
  BY DEF BoundedNumbers
<1>2. b \in Nat /\ Numbers(el) \subseteq Nat
  BY <1>1 DEF Numbers, EntityLock
<1>3. Taken(el, current) \in SUBSET Nat /\ Taken(el, current) # {}
  BY KeptType DEF Taken
<1>4. \A n \in Taken(el, current) : n <= b + 1
  <2>1. \A f \in Name : Kept(el, current)[f] \in {0, 1, el.fields[f]}
    BY DEF Kept
  <2>2. \A f \in Name : el.fields[f] \in Numbers(el)
    BY DEF Numbers
  <2>3. el.reserved \subseteq Numbers(el) /\ Retired(el, current) \subseteq Numbers(el)
    BY DEF Numbers, Retired, Live
  <2>4. \A n \in Taken(el, current) : n \in {0, 1} \/ n \in Numbers(el)
    BY <2>1, <2>2, <2>3 DEF Taken
  <2>5. QED
    BY <1>1, <1>2, <2>4
<1>5. b + 1 \in Nat
  BY <1>2
<1>6. \E m \in Taken(el, current) : \A n \in Taken(el, current) : n <= m
  BY <1>3, <1>4, <1>5, MaxExists
<1>7. QED
  BY <1>3, <1>6 DEF MaxNum

\* allocateFieldNumbers field by field: a name that is not listed has no
\* number and leaves its old one reserved; a listed name keeps its number; a
\* new name gets a number above every number in use; id gets 1.
LEMMA AllocateEffect ==
    ASSUME NEW el \in EntityLock, NEW current \in Seq(Name), WellFormed(el),
           NEW r, r = AllocateFieldNumbers(el, current)
    PROVE  /\ r \in EntityLock
           /\ el.reserved \subseteq r.reserved
           /\ \A n \in r.reserved : n \in el.reserved \/ \E f \in Live(el) \ Listed(current) : n = el.fields[f]
           /\ \A f \in Name \ Listed(current) : r.fields[f] = 0
           /\ \A f \in Live(el) \ Listed(current) : el.fields[f] \in r.reserved
           /\ \A f \in Live(el) \cap Listed(current) : r.fields[f] = el.fields[f]
           /\ \A f \in Listed(current) \ Live(el) :
                 IF f = Id THEN r.fields[f] = 1
                 ELSE /\ r.fields[f] > 1
                      /\ \A n \in Numbers(el) : r.fields[f] > n
                      /\ r.fields[f] = MaxNum(el, current) + SortedPosition(el, current, f)
                      /\ IsNew(el, current, f)
<1> DEFINE max == MaxNum(el, current)
<1> DEFINE pos(f) == SortedPosition(el, current, f)
<1>1. /\ Kept(el, current) \in [Name -> Nat]
      /\ Retired(el, current) \subseteq Nat
  BY KeptType
<1>2. max \in Nat /\ \A m \in Taken(el, current) : m <= max
  BY MaxNumBound DEF WellFormed
<1>3. \A f \in Name : /\ pos(f) \in Nat
                      /\ IsNew(el, current, f) => pos(f) >= 1
  BY SortedPositionRange
<1>4. Listed(current) \subseteq Name
  BY DEF Listed
<1>5. el.fields \in [Name -> Nat] /\ el.reserved \subseteq Nat
  BY DEF EntityLock
<1> HIDE DEF max, pos
<1>6. r.reserved = el.reserved \cup Retired(el, current)
  BY DEF AllocateFieldNumbers
<1>7. r.fields = [f \in Name |-> IF IsNew(el, current, f) THEN max + pos(f)
                                ELSE Kept(el, current)[f]]
  BY DEF AllocateFieldNumbers, IsNew, max, pos
<1>8. r \in EntityLock
  <2>1. r.fields \in [Name -> Nat]
    BY <1>1, <1>2, <1>3, <1>7
  <2>2. r.reserved \in SUBSET Nat
    BY <1>1, <1>5, <1>6
  <2>3. r = [fields |-> r.fields, reserved |-> r.reserved]
    BY DEF AllocateFieldNumbers
  <2>4. QED
    BY <2>1, <2>2, <2>3 DEF EntityLock
<1>9. \A f \in Name : Kept(el, current)[f] = CASE f \notin Listed(current) -> 0
                                               [] f \in Listed(current) /\ f = Id -> 1
                                               [] f \in Listed(current) /\ f # Id -> el.fields[f]
  BY DEF Kept
<1>10. \A f \in Name \ Listed(current) : r.fields[f] = 0
  BY <1>7, <1>9 DEF IsNew
<1>11. \A f \in Live(el) \cap Listed(current) : r.fields[f] = el.fields[f]
  BY <1>5, <1>7, <1>9 DEF IsNew, Live, WellFormed, IdIsOne
<1>12. ASSUME NEW f \in Listed(current) \ Live(el)
       PROVE  IF f = Id THEN r.fields[f] = 1
              ELSE /\ r.fields[f] > 1
                   /\ \A n \in Numbers(el) : r.fields[f] > n
                   /\ r.fields[f] = max + pos(f)
                   /\ IsNew(el, current, f)
  <2>1. CASE f = Id
    BY <1>4, <1>7, <1>9, <2>1 DEF IsNew
  <2>2. CASE f # Id
    <3>1. IsNew(el, current, f)
      BY <1>4, <1>9, <2>2 DEF IsNew, Live
    <3>2. r.fields[f] = max + pos(f) /\ pos(f) \in Nat /\ pos(f) >= 1
      BY <1>3, <1>4, <1>7, <3>1
    <3>3. 1 <= max
      BY <1>2 DEF Taken
    <3>4. \A n \in Numbers(el) : n <= max /\ n \in Nat
      <4>1. \A g \in Name : el.fields[g] <= max
        <5> SUFFICES ASSUME NEW g \in Name PROVE el.fields[g] <= max
          OBVIOUS
        <5>1. CASE g \notin Live(el)
          BY <5>1, <1>2 DEF Live
        <5>2. CASE g \in Live(el) \ Listed(current)
          <6>1. el.fields[g] \in Retired(el, current)
            BY <5>2 DEF Retired
          <6>2. QED
            BY <1>2, <6>1 DEF Taken
        <5>3. CASE g \in Live(el) \cap Listed(current) /\ g = Id
          BY <3>3, <5>3 DEF WellFormed, IdIsOne
        <5>4. CASE g \in Live(el) \cap Listed(current) /\ g # Id
          <6>1. el.fields[g] = Kept(el, current)[g]
            BY <1>9, <5>4
          <6>2. QED
            BY <1>2, <6>1 DEF Taken
        <5>5. QED
          BY <5>1, <5>2, <5>3, <5>4
      <4>2. \A n \in el.reserved : n <= max
        BY <1>2 DEF Taken
      <4>3. QED
        BY <1>5, <4>1, <4>2 DEF Numbers
    <3>5. QED
      BY <1>2, <2>2, <3>1, <3>2, <3>3, <3>4
  <2>3. QED
    BY <2>1, <2>2
<1>13. \A f \in Live(el) \ Listed(current) : el.fields[f] \in r.reserved
  BY <1>6 DEF Retired
<1>14. \A n \in r.reserved : n \in el.reserved \/ \E f \in Live(el) \ Listed(current) : n = el.fields[f]
  BY <1>6 DEF Retired
<1>15. QED
  BY <1>6, <1>8, <1>10, <1>11, <1>12, <1>13, <1>14 DEF max, pos

\* The result is a record of the lock file, whatever the old record holds
\* within bounds.
LEMMA AllocateType ==
    ASSUME NEW el \in EntityLock, NEW current \in Seq(Name), WellFormed(el)
    PROVE  AllocateFieldNumbers(el, current) \in EntityLock
BY AllocateEffect

\* Allocation keeps the record well formed: two fields that were live keep
\* their different numbers, a new number exceeds every old one, and two new
\* names stand at different places of the sorted list.
THEOREM AllocateWellFormed ==
    ASSUME NEW el \in EntityLock, NEW current \in Seq(Name), WellFormed(el)
    PROVE  WellFormed(AllocateFieldNumbers(el, current))
<1> DEFINE r == AllocateFieldNumbers(el, current)
<1>0. /\ r \in EntityLock
      /\ el.reserved \subseteq r.reserved
      /\ \A n \in r.reserved : n \in el.reserved \/ \E f \in Live(el) \ Listed(current) : n = el.fields[f]
      /\ \A f \in Name \ Listed(current) : r.fields[f] = 0
      /\ \A f \in Live(el) \cap Listed(current) : r.fields[f] = el.fields[f]
  BY AllocateEffect
<1>1. \A f \in Listed(current) \ Live(el) :
         IF f = Id THEN r.fields[f] = 1
         ELSE /\ r.fields[f] > 1
              /\ \A n \in Numbers(el) : r.fields[f] > n
              /\ r.fields[f] = MaxNum(el, current) + SortedPosition(el, current, f)
              /\ IsNew(el, current, f)
  BY AllocateEffect
<1>2. MaxNum(el, current) \in Nat
  BY MaxNumBound DEF WellFormed
<1>3. \A f \in Name : SortedPosition(el, current, f) \in 0..Len(current)
  BY SortedPositionRange
<1>4. /\ el.fields \in [Name -> Nat] /\ el.reserved \subseteq Nat
      /\ r.fields \in [Name -> Nat] /\ r.reserved \subseteq Nat
  BY <1>0 DEF EntityLock
<1>5. /\ \A f \in Name : el.fields[f] \in Numbers(el)
      /\ el.reserved \subseteq Numbers(el) /\ Numbers(el) \subseteq Nat
  BY <1>4 DEF Numbers
<1> HIDE DEF r
<1>6. Live(r) \subseteq Listed(current) /\ Live(r) \subseteq Name
  BY <1>0 DEF Live
<1>7. InjectiveFields(r)
  <2> SUFFICES ASSUME NEW f \in Live(r), NEW g \in Live(r), f # g
               PROVE  r.fields[f] # r.fields[g]
    BY DEF InjectiveFields
  <2>1. CASE f \in Live(el) /\ g \in Live(el)
    BY <1>0, <1>6, <2>1 DEF WellFormed, InjectiveFields
  <2>2. ASSUME NEW x \in Live(r), NEW y \in Live(r), x # y, x \notin Live(el), y \in Live(el)
        PROVE  r.fields[x] # r.fields[y]
    <3>1. r.fields[y] = el.fields[y] /\ el.fields[y] \in Numbers(el)
      BY <1>0, <1>5, <1>6, <2>2
    <3>2. CASE x = Id
      BY <1>1, <1>6, <2>2, <3>1, <3>2 DEF WellFormed, IdIsOne
    <3>3. CASE x # Id
      <4>1. r.fields[x] > el.fields[y]
        BY <1>1, <1>6, <2>2, <3>1, <3>3
      <4>2. QED
        BY <1>4, <1>5, <3>1, <4>1
    <3>4. QED
      BY <3>2, <3>3
  <2>3. CASE f \notin Live(el) /\ g \notin Live(el)
    <3>1. CASE f = Id \/ g = Id
      BY <1>1, <1>4, <1>6, <2>3, <3>1
    <3>2. CASE f # Id /\ g # Id
      <4>1. SortedPosition(el, current, f) # SortedPosition(el, current, g)
        BY <1>1, <1>6, <2>3, <3>2, SortedPositionDistinct
      <4>2. QED
        BY <1>1, <1>2, <1>3, <1>6, <2>3, <3>2, <4>1
    <3>3. QED
      BY <3>1, <3>2
  <2>4. QED
    BY <2>1, <2>2, <2>3
<1>8. IdIsOne(r)
  <2> SUFFICES ASSUME NEW f \in Live(r) PROVE f = Id <=> r.fields[f] = 1
    BY DEF IdIsOne
  <2>1. CASE f \in Live(el)
    BY <1>0, <1>6, <2>1 DEF WellFormed, IdIsOne
  <2>2. CASE f \notin Live(el)
    BY <1>1, <1>4, <1>6, <2>2
  <2>3. QED
    BY <2>1, <2>2
<1>9. ReservedNotLive(r)
  <2>1. 0 \notin r.reserved
    BY <1>0 DEF WellFormed, ReservedNotLive, Live
  <2>2. ASSUME NEW f \in Live(r), r.fields[f] \in r.reserved, f # Id
        PROVE  FALSE
    <3>1. r.reserved \subseteq Numbers(el)
      BY <1>0, <1>5 DEF Live
    <3>2. CASE f \notin Live(el)
      <4>1. r.fields[f] > r.fields[f]
        BY <1>1, <1>6, <2>2, <3>1, <3>2
      <4>2. r.fields[f] \in Nat
        BY <1>4, <1>6
      <4>3. QED
        BY <4>1, <4>2
    <3>3. CASE f \in Live(el)
      <4>1. r.fields[f] = el.fields[f]
        BY <1>0, <1>6, <3>3
      <4>2. el.fields[f] \notin el.reserved
        BY <2>2, <3>3 DEF WellFormed, ReservedNotLive
      <4>3. PICK g \in Live(el) \ Listed(current) : el.fields[f] = el.fields[g]
        BY <1>0, <2>2, <4>1, <4>2
      <4>4. QED
        BY <1>6, <3>3, <4>3 DEF WellFormed, InjectiveFields
    <3>4. QED
      BY <3>2, <3>3
  <2>3. QED
    BY <2>1, <2>2 DEF ReservedNotLive
<1>10. BoundedNumbers(r)
  <2>1. PICK b \in Numbers(el) : \A n \in Numbers(el) : n <= b
    BY DEF WellFormed, BoundedNumbers
  <2> DEFINE top == b + MaxNum(el, current) + Len(current) + 1
  <2>2. top \in Nat /\ Len(current) \in Nat /\ b \in Nat
    BY <1>2, <1>5, <2>1
  <2>3. \A f \in Name : r.fields[f] <= top
    <3> SUFFICES ASSUME NEW f \in Name PROVE r.fields[f] <= top
      OBVIOUS
    <3>1. CASE f \in Listed(current) \ Live(el) /\ f # Id
      BY <1>1, <1>2, <1>3, <2>2, <3>1
    <3>2. CASE f \in Listed(current) \ Live(el) /\ f = Id
      BY <1>1, <1>2, <2>2, <3>2
    <3>3. CASE f \in Listed(current) \cap Live(el)
      <4>1. r.fields[f] <= b
        BY <1>0, <1>5, <2>1, <3>3
      <4>2. r.fields[f] \in Nat
        BY <1>4
      <4>3. QED
        BY <1>2, <2>2, <4>1, <4>2
    <3>4. CASE f \notin Listed(current)
      BY <1>0, <2>2, <3>4
    <3>5. QED
      BY <3>1, <3>2, <3>3, <3>4
  <2>4. \A n \in r.reserved : n <= top
    <3>1. \A n \in r.reserved : n <= b /\ n \in Nat
      BY <1>0, <1>4, <1>5, <2>1 DEF Live
    <3>2. QED
      BY <1>2, <2>2, <3>1
  <2>5. \A n \in Numbers(r) : n <= top
    BY <2>3, <2>4 DEF Numbers
  <2>6. Numbers(r) \in SUBSET Nat /\ Numbers(r) # {}
    BY <1>4, IdAssumption DEF Numbers
  <2> HIDE DEF top
  <2>7. QED
    BY <2>2, <2>5, <2>6, MaxExists DEF BoundedNumbers
<1>11. QED
  BY <1>7, <1>8, <1>9, <1>10 DEF WellFormed, r

LEMMA EmptyWellFormed == EmptyEntityLock \in EntityLock /\ WellFormed(EmptyEntityLock)
<1>1. EmptyEntityLock \in EntityLock /\ Live(EmptyEntityLock) = {}
  BY DEF EmptyEntityLock, EntityLock, Live
<1>2. Numbers(EmptyEntityLock) = {0}
  BY IdAssumption DEF Numbers, EmptyEntityLock
<1>3. BoundedNumbers(EmptyEntityLock)
  BY <1>2 DEF BoundedNumbers
<1>4. QED
  BY <1>1, <1>3 DEF WellFormed, InjectiveFields, IdIsOne, ReservedNotLive, EmptyEntityLock
=============================================================================
