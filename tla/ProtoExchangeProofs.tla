------------------------- MODULE ProtoExchangeProofs -------------------------
(***************************************************************************)
(* Theorems about ProtoExchange, for every set of schemas, clients and     *)
(* values and for every number of builds: a number on the wire means the   *)
(* same field for every build that knows it.  What an enumerator's number  *)
(* means is known only of builds that are Aligned.                         *)
(***************************************************************************)
EXTENDS ProtoExchange, FieldNumbersProofs, TLAPS

(***************************************************************************)
(* One build, and two of which one was generated later.                    *)
(***************************************************************************)
BuildOK(b) ==
    /\ b.version \in Versions
    /\ b.lock \in EntityLock /\ WellFormed(b.lock)
    /\ Live(b.lock) = Listed(b.version.listed)

\* The later build b remembers each number of a.
Follows(a, b) ==
    /\ a.lock.reserved \subseteq b.lock.reserved
    /\ \A f \in Live(a.lock) :
         b.lock.fields[f] = a.lock.fields[f] \/ a.lock.fields[f] \in b.lock.reserved

LEMMA VersionFacts ==
    ASSUME NEW v \in Versions
    PROVE  /\ v.listed \in Seq(Name) /\ Id \in Listed(v.listed) /\ Listed(v.listed) \subseteq Name
           /\ v.hidden \subseteq Name \ Listed(v.listed) /\ \A f \in v.hidden : Kind[f] # "enum"
           /\ v.enum \in Seq(Enumeration) /\ 1 \in DOMAIN v.enum
           /\ \A k, l \in DOMAIN v.enum : v.enum[k] = v.enum[l] => k = l
<1>1. v.listed \in Seq(Name) /\ Id \in Listed(v.listed) /\ v.hidden \subseteq Name \ Listed(v.listed)
      /\ v.enum \in Seq(Enumeration) /\ Len(v.enum) > 0
      /\ \A k, l \in DOMAIN v.enum : v.enum[k] = v.enum[l] => k = l
      /\ \A f \in v.hidden : Kind[f] # "enum"
  BY VersionsAssumption
<1>2. Listed(v.listed) \subseteq Name
  BY <1>1 DEF Listed
<1>3. 1 \in DOMAIN v.enum
  BY <1>1
<1>4. QED
  BY <1>1, <1>2, <1>3

\* The numbers of the fields of one build: none is 0 or id's, and no two agree.
LEMMA NumberFacts ==
    ASSUME NEW b, BuildOK(b), NEW f \in Fields(b)
    PROVE  /\ f \in Name \ {Id} /\ f \in Live(b.lock)
           /\ Number(b, f) \in Nat /\ Number(b, f) # 0
           /\ \A g \in Fields(b) : Number(b, g) = Number(b, f) => g = f
<1>1. \A g \in Fields(b) : g \in Name \ {Id} /\ g \in Live(b.lock)
  BY VersionFacts DEF BuildOK, Fields
<1>2. Number(b, f) \in Nat /\ Number(b, f) # 0
  BY <1>1 DEF BuildOK, EntityLock, Number, Live
<1>3. \A g \in Fields(b) : Number(b, g) = Number(b, f) => g = f
  BY <1>1 DEF BuildOK, WellFormed, InjectiveFields, Number
<1>4. QED
  BY <1>1, <1>2, <1>3

\* A number that two builds know is the number of one field.
LEMMA NumbersAgree ==
    ASSUME NEW a, NEW b, BuildOK(a), BuildOK(b), Follows(a, b),
           NEW f \in Fields(a), NEW g \in Fields(b), Number(a, f) = Number(b, g)
    PROVE  f = g
<1>1. f \in Live(a.lock) /\ g \in Live(b.lock) /\ g # Id /\ f \in Name /\ Number(a, f) # 0
  BY NumberFacts
<1>2. CASE b.lock.fields[f] = a.lock.fields[f]
  <2>1. f \in Live(b.lock)
    BY <1>1, <1>2 DEF Live, Number
  <2>2. QED
    BY <2>1, <1>1, <1>2 DEF BuildOK, WellFormed, InjectiveFields, Number
<1>3. CASE a.lock.fields[f] \in b.lock.reserved
  BY <1>1, <1>3 DEF BuildOK, WellFormed, ReservedNotLive, Number
<1>4. QED
  BY <1>1, <1>2, <1>3 DEF Follows

LEMMA FirstBuild ==
    ASSUME NEW v \in Versions
    PROVE  BuildOK(Build(v, EmptyEntityLock))
<1> DEFINE r == AllocateFieldNumbers(EmptyEntityLock, v.listed)
<1>1. EmptyEntityLock \in EntityLock /\ WellFormed(EmptyEntityLock) /\ Live(EmptyEntityLock) = {}
  BY EmptyWellFormed DEF EmptyEntityLock, Live
<1>2. r \in EntityLock /\ WellFormed(r)
  BY <1>1, VersionFacts, AllocateType, AllocateWellFormed
<1>3. /\ \A f \in Name \ Listed(v.listed) : r.fields[f] = 0
      /\ \A f \in Listed(v.listed) : r.fields[f] # 0
  BY <1>1, VersionFacts, AllocateEffect
<1>4. Live(r) = Listed(v.listed)
  BY <1>3, VersionFacts DEF Live
<1>5. QED
  BY <1>2, <1>4 DEF Build, BuildOK

\* A generation over the lock of the build before.
LEMMA NextBuild ==
    ASSUME NEW a, BuildOK(a), NEW v \in Versions
    PROVE  BuildOK(Build(v, a.lock)) /\ Follows(a, Build(v, a.lock))
<1> DEFINE el == a.lock
           r == AllocateFieldNumbers(el, v.listed)
<1>1. el \in EntityLock /\ WellFormed(el) /\ v.listed \in Seq(Name) /\ Listed(v.listed) \subseteq Name
  BY VersionFacts DEF BuildOK
<1>2. r \in EntityLock /\ WellFormed(r)
  BY <1>1, AllocateType, AllocateWellFormed
<1>3. /\ el.reserved \subseteq r.reserved
      /\ \A f \in Name \ Listed(v.listed) : r.fields[f] = 0
      /\ \A f \in Live(el) \ Listed(v.listed) : el.fields[f] \in r.reserved
      /\ \A f \in Live(el) \cap Listed(v.listed) : r.fields[f] = el.fields[f]
      /\ \A f \in Listed(v.listed) \ Live(el) : r.fields[f] # 0
  BY <1>1, AllocateEffect
<1>4. Live(r) = Listed(v.listed)
  BY <1>1, <1>3 DEF Live
<1>5. BuildOK(Build(v, a.lock))
  BY <1>2, <1>4 DEF Build, BuildOK
<1>6. Follows(a, Build(v, a.lock))
  <2>1. Build(v, a.lock).lock = r /\ Build(v, a.lock).version = v
    BY DEF Build
  <2>2. \A f \in Live(a.lock) : r.fields[f] = el.fields[f] \/ el.fields[f] \in r.reserved
    BY <1>3
  <2>3. QED
    BY <1>3, <2>1, <2>2 DEF Follows
<1>7. QED
  BY <1>5, <1>6

LEMMA FollowsTransitive ==
    ASSUME NEW a, NEW b, NEW c, BuildOK(a), BuildOK(b), Follows(a, b), Follows(b, c)
    PROVE  Follows(a, c)
<1>1. a.lock.reserved \subseteq c.lock.reserved
  BY DEF Follows
<1>2. ASSUME NEW f \in Live(a.lock)
      PROVE  c.lock.fields[f] = a.lock.fields[f] \/ a.lock.fields[f] \in c.lock.reserved
  <2>1. CASE b.lock.fields[f] = a.lock.fields[f]
    <3>1. f \in Live(b.lock)
      BY <2>1 DEF Live
    <3>2. QED
      BY <3>1, <2>1 DEF Follows
  <2>2. CASE a.lock.fields[f] \in b.lock.reserved
    BY <2>2 DEF Follows
  <2>3. QED
    BY <2>1, <2>2 DEF Follows
<1>3. QED
  BY <1>1, <1>2 DEF Follows

LEMMA FollowsItself ==
    ASSUME NEW a
    PROVE  Follows(a, a)
BY DEF Follows

-----------------------------------------------------------------------------
(***************************************************************************)
(* What one field looks like on the wire and how it is read.               *)
(***************************************************************************)

\* The values a column of f may hold.
Fits(b, f, v) ==
    CASE Kind[f] = "enum" -> v \in Enumeration
      [] Kind[f] = "nillable" -> v \in Values \cup {Null}
      [] OTHER -> v \in Values

\* A message has in the field of f what the mapper of b makes of v.
Carries(b, msg, f, v) ==
    IF ToProto(b, f, v) = {} THEN Number(b, f) \notin DOMAIN msg
    ELSE Number(b, f) \in DOMAIN msg /\ msg[Number(b, f)] \in ToProto(b, f, v)

RowOK(b, r) == DOMAIN r = Columns(b) /\ \A f \in Columns(b) : Fits(b, f, r[f])

LEMMA KindFacts ==
    ASSUME NEW f \in Name \ {Id}
    PROVE  Kind[f] \in {"plain", "nillable", "enum", "time", "uuid"}
BY KindAssumption

\* A value that travels between two builds that know its number.  An enumerator
\* arrives if they are aligned, or else is beyond what the receiver knows.
LEMMA Decoded ==
    ASSUME NEW a, NEW b, BuildOK(a), BuildOK(b),
           NEW f \in Fields(a), f \in Fields(b), Number(a, f) = Number(b, f),
           NEW msg, NEW v, Number(b, f) \in DOMAIN msg, msg[Number(b, f)] \in ToProto(a, f, v)
    PROVE  /\ Kind[f] # "enum" => FromProto(b, f, msg) = v
           /\ Kind[f] = "enum" => Knows(b, FromProto(b, f, msg))
           /\ Kind[f] = "enum" /\ Aligned(a, b) /\ FromProto(b, f, msg) # v =>
                FromProto(b, f, msg) = b.version.enum[1] /\ ~Knows(b, v)
<1>1. f \in Name \ {Id} /\ Kind[f] \in {"plain", "nillable", "enum", "time", "uuid"}
  BY NumberFacts, KindFacts
<1>2. CASE Kind[f] # "enum"
  <2>1. ToProto(a, f, v) \subseteq {v}
    BY <1>1, <1>2 DEF ToProto
  <2>2. FromProto(b, f, msg) = msg[Number(b, f)]
    BY <1>1, <1>2 DEF FromProto
  <2>3. QED
    BY <2>1, <2>2, <1>2
<1>3. CASE Kind[f] = "enum"
  <2> DEFINE k == msg[Number(b, f)]
             x == FromProto(b, f, msg)
  <2>1. k \in DOMAIN a.version.enum /\ a.version.enum[k] = v
    BY <1>3 DEF ToProto
  <2>2. x = b.version.enum[IF k \in DOMAIN b.version.enum THEN k ELSE 1]
    BY <1>3 DEF FromProto
  <2>3. a.version.enum \in Seq(Enumeration) /\ b.version.enum \in Seq(Enumeration) /\ 1 \in DOMAIN b.version.enum
        /\ \A i, l \in DOMAIN a.version.enum : a.version.enum[i] = a.version.enum[l] => i = l
    BY VersionFacts DEF BuildOK
  <2>4. Knows(b, x)
    BY <2>2, <2>3 DEF Knows
  <2>5. ASSUME Aligned(a, b), x # v
        PROVE  x = b.version.enum[1] /\ ~Knows(b, v)
    <3>1. k \notin DOMAIN b.version.enum
      BY <2>1, <2>2, <2>5 DEF Aligned
    <3>2. ASSUME NEW l \in DOMAIN b.version.enum
          PROVE  b.version.enum[l] # v
      <4>1. l \in DOMAIN a.version.enum
        BY <2>1, <2>3, <3>1
      <4>2. a.version.enum[l] = b.version.enum[l]
        BY <4>1, <2>5 DEF Aligned
      <4>3. l # k
        BY <3>1
      <4>4. QED
        BY <4>1, <4>2, <4>3, <2>1, <2>3
    <3>3. QED
      BY <3>1, <3>2, <2>2 DEF Knows
  <2>6. QED
    BY <2>4, <2>5, <1>3
<1>4. QED
  BY <1>2, <1>3

\* What is not on the wire.
LEMMA NotSent ==
    ASSUME NEW a, BuildOK(a), NEW f \in Fields(a), NEW v, Fits(a, f, v), ToProto(a, f, v) = {}
    PROVE  (Kind[f] = "nillable" /\ v = Null) \/ (Kind[f] = "plain" /\ v = Zero) \/ (Kind[f] = "enum" /\ ~Knows(a, v))
<1>1. Kind[f] \in {"plain", "nillable", "enum", "time", "uuid"}
  BY NumberFacts, KindFacts
<1>2. QED
  BY <1>1 DEF ToProto, Knows

\* The message of a row has each field of the build, and nothing else.
LEMMA UserToProtoFacts ==
    ASSUME NEW b, BuildOK(b), NEW r
    PROVE  /\ \A f \in Fields(b) : Carries(b, UserToProto(b, r), f, r[f])
           /\ \A n \in DOMAIN UserToProto(b, r) : \E f \in Fields(b) :
                n = Number(b, f) /\ UserToProto(b, r)[n] \in ToProto(b, f, r[f])
<1> DEFINE carried == {f \in Fields(b) : ToProto(b, f, r[f]) # {}}
           msg == UserToProto(b, r)
<1>1. DOMAIN msg = {Number(b, f) : f \in carried}
  BY DEF UserToProto
<1>2. ASSUME NEW f \in carried
      PROVE  msg[Number(b, f)] \in ToProto(b, f, r[f])
  <2>1. (CHOOSE g \in carried : Number(b, g) = Number(b, f)) = f
    BY NumberFacts
  <2>2. msg[Number(b, f)] = CHOOSE x \in ToProto(b, f, r[f]) : TRUE
    BY <2>1 DEF UserToProto
  <2>3. QED
    BY <2>2
<1>3. ASSUME NEW f \in Fields(b)
      PROVE  Carries(b, msg, f, r[f])
  <2>1. CASE f \in carried
    BY <1>1, <1>2, <2>1 DEF Carries
  <2>2. CASE f \notin carried
    <3>1. Number(b, f) \notin DOMAIN msg
      BY <1>1, <2>2, NumberFacts
    <3>2. QED
      BY <3>1, <2>2 DEF Carries
  <2>3. QED
    BY <2>1, <2>2
<1>4. ASSUME NEW n \in DOMAIN msg
      PROVE  \E f \in Fields(b) : n = Number(b, f) /\ msg[n] \in ToProto(b, f, r[f])
  BY <1>1, <1>2
<1>5. QED
  BY <1>3, <1>4

\* Two messages agree on every number but n.
SameBut(n, msg, new) ==
    \A m : m # n =>
        /\ m \in DOMAIN new <=> m \in DOMAIN msg
        /\ m \in DOMAIN msg => new[m] = msg[m]

\* One field of a message is replaced; the others stay as they are.
LEMMA AssignFacts ==
    ASSUME NEW b, BuildOK(b), NEW msg, NEW f \in Fields(b), NEW v
    PROVE  /\ Carries(b, Assign(b, msg, f, v), f, v)
           /\ SameBut(Number(b, f), msg, Assign(b, msg, f, v))
<1>1. CASE ToProto(b, f, v) = {}
  BY <1>1 DEF Assign, Without, Carries, SameBut
<1>2. CASE ToProto(b, f, v) # {}
  <2>1. PICK x \in ToProto(b, f, v) : Assign(b, msg, f, v) = With(msg, Number(b, f), x)
    BY <1>2 DEF Assign
  <2>2. QED
    BY <2>1, <1>2 DEF With, Carries, SameBut
<1>3. QED
  BY <1>1, <1>2

-----------------------------------------------------------------------------
(***************************************************************************)
(* The inductive invariant.  TypeOK and the action properties are not      *)
(* inductive: they say nothing of the numbers in the messages that are     *)
(* under way.  IInv adds that each build remembers the numbers of those    *)
(* before it, that every field of a message is one the client set or one   *)
(* of the row it was made of, and that nothing the client set is lost.     *)
(***************************************************************************)
BuildsOK ==
    /\ builds \in Seq([version : Versions, lock : EntityLock])
    /\ Len(builds) \in 1..MaxBuilds
    /\ \A k \in DOMAIN builds : BuildOK(builds[k])
    /\ \A j, k \in DOMAIN builds : j <= k => Follows(builds[j], builds[k])

ServerOK == server \in DOMAIN builds /\ RowOK(Server, row)

\* What the message of a client has at number n, and where it comes from.
FromEdit(c, n) ==
    \E f \in Mask(c) :
        n = Number(Own(c), f) /\ client[c].msg[n] \in ToProto(Own(c), f, client[c].edited[f])
FromRow(c, n) ==
    /\ client[c].loaded
    /\ \E f \in Fields(builds[seen[c].build]) :
        /\ n = Number(builds[seen[c].build], f)
        /\ client[c].msg[n] \in ToProto(builds[seen[c].build], f, seen[c].row[f])

SeenOK(c) ==
    /\ seen[c].build \in DOMAIN builds
    /\ RowOK(builds[seen[c].build], seen[c].row)
    /\ Mask(c) = {} => client[c].msg = UserToProto(builds[seen[c].build], seen[c].row)

ClientOK(c) ==
    /\ client[c].build \in DOMAIN builds
    /\ Mask(c) \subseteq Fields(Own(c))
    /\ \A f \in Mask(c) :
         /\ Fits(Own(c), f, client[c].edited[f]) /\ Carries(Own(c), client[c].msg, f, client[c].edited[f])
         /\ Kind[f] = "enum" => Knows(Own(c), client[c].edited[f])
    /\ \A n \in DOMAIN client[c].msg : FromEdit(c, n) \/ FromRow(c, n)
    /\ client[c].loaded => SeenOK(c)
    /\ ~client[c].loaded => Mask(c) = {}

Shape ==
    /\ DOMAIN client = Clients /\ DOMAIN seen = Clients
    /\ \A c \in Clients :
         /\ client[c] = [build |-> client[c].build, msg |-> client[c].msg,
                         edited |-> client[c].edited, loaded |-> client[c].loaded]
         /\ client[c].loaded \in BOOLEAN

CountsOK == edits \in 0..MaxEdits /\ puts \in 0..MaxPuts

IInv == BuildsOK /\ ServerOK /\ Shape /\ (\A c \in Clients : ClientOK(c)) /\ CountsOK

LEMMA FreshFits ==
    ASSUME NEW b, BuildOK(b), NEW f \in Columns(b)
    PROVE  Fits(b, f, Fresh(b, f))
<1>1. b.version.enum[1] \in Enumeration /\ f \in Name \ {Id}
  BY VersionFacts DEF BuildOK, Columns, Fields
<1>2. Kind[f] \in {"plain", "nillable", "enum", "time", "uuid"} /\ Zero \in Values
  BY <1>1, KindFacts, ValuesAssumption
<1>3. QED
  BY <1>1, <1>2 DEF Fits, Fresh, IsPointer

LEMMA InitInvariant == Init => IInv
<1> SUFFICES ASSUME Init PROVE IInv
  OBVIOUS
<1>1. PICK v \in Versions : builds = <<Build(v, EmptyEntityLock)>>
  BY DEF Init
<1> DEFINE b == Build(v, EmptyEntityLock)
<1>2. BuildOK(b) /\ b \in [version : Versions, lock : EntityLock]
  <2>1. BuildOK(b)
    BY FirstBuild
  <2>2. QED
    BY <2>1 DEF BuildOK, Build
<1>3. builds = <<b>> /\ DOMAIN builds = {1} /\ builds[1] = b /\ Len(builds) = 1
  BY <1>1
<1>4. BuildsOK
  <2>1. builds \in Seq([version : Versions, lock : EntityLock])
    BY <1>2, <1>3
  <2>2. Len(builds) \in 1..MaxBuilds
    BY <1>3, BoundsAssumption
  <2>3. QED
    BY <2>1, <2>2, <1>2, <1>3, FollowsItself DEF BuildsOK
<1>5. ServerOK
  <2>1. PICK u \in Values \ {Zero, Epoch} :
          row = [f \in Columns(b) |-> IF f \in b.version.hidden THEN u ELSE Fresh(b, f)]
    BY <1>3 DEF Init
  <2>2. \A f \in b.version.hidden : Fits(b, f, u)
    BY <1>2, VersionFacts DEF BuildOK, Fits
  <2>3. RowOK(b, row)
    BY <2>1, <2>2, <1>2, FreshFits DEF RowOK
  <2>4. server = 1
    BY DEF Init
  <2>5. QED
    BY <2>3, <2>4, <1>3 DEF ServerOK, Server
<1>6. Shape
  BY DEF Init, Shape, Holding
<1>7. ASSUME NEW c \in Clients
      PROVE  ClientOK(c)
  <2>1. client[c] = Holding(1)
    BY DEF Init
  <2>2. client[c].build = 1 /\ ~client[c].loaded /\ DOMAIN client[c].msg = {} /\ Mask(c) = {}
    BY <2>1 DEF Holding, Empty, Mask
  <2>3. QED
    BY <2>2, <1>3 DEF ClientOK
<1>8. CountsOK
  BY BoundsAssumption DEF Init, CountsOK
<1>9. QED
  BY <1>4, <1>5, <1>6, <1>7, <1>8 DEF IInv

\* What the invariant says of a client stays true as long as its message and the
\* builds it speaks of stay.
LEMMA ClientFrame ==
    ASSUME NEW c \in Clients, ClientOK(c), client'[c] = client[c], seen'[c] = seen[c],
           \A k \in DOMAIN builds : k \in DOMAIN builds' /\ builds'[k] = builds[k]
    PROVE  ClientOK(c)'
<1>1. Own(c)' = Own(c) /\ Mask(c)' = Mask(c) /\ client[c].build \in DOMAIN builds'
  BY DEF ClientOK, Own, Mask
<1>2. client[c].loaded => SeenOK(c)'
  BY <1>1 DEF ClientOK, SeenOK
<1>3. ASSUME NEW n \in DOMAIN client[c].msg
      PROVE  FromEdit(c, n)' \/ FromRow(c, n)'
  <2>1. CASE FromEdit(c, n)
    BY <2>1, <1>1 DEF FromEdit
  <2>2. CASE FromRow(c, n)
    <3>1. builds'[seen[c].build] = builds[seen[c].build]
      BY <2>2 DEF FromRow, ClientOK, SeenOK
    <3>2. QED
      BY <2>2, <3>1 DEF FromRow
  <2>3. QED
    BY <2>1, <2>2, <1>3 DEF ClientOK
<1>4. QED
  BY <1>1, <1>2, <1>3 DEF ClientOK

LEMMA GenerateInvariant ==
    ASSUME IInv, NEW v \in Versions, Generate(v)
    PROVE  IInv'
<1> DEFINE old == Len(builds)
           before == builds[old]
           new == Build(v, before.lock)
<1>1. builds \in Seq([version : Versions, lock : EntityLock]) /\ old \in Nat \ {0} /\ old \in DOMAIN builds
  BY DEF IInv, BuildsOK
<1>2. BuildOK(new) /\ Follows(before, new) /\ new \in [version : Versions, lock : EntityLock]
  <2>1. BuildOK(before) /\ before.version \in Versions
    BY <1>1 DEF IInv, BuildsOK, BuildOK
  <2>2. BuildOK(new) /\ Follows(before, new)
    BY <2>1, NextBuild
  <2>3. QED
    BY <2>2 DEF BuildOK, Build
<1>3. /\ builds' = Append(builds, new)
      /\ Len(builds') = old + 1 /\ DOMAIN builds' = DOMAIN builds \cup {old + 1}
      /\ builds'[old + 1] = new /\ \A k \in DOMAIN builds : builds'[k] = builds[k] /\ k \in DOMAIN builds'
  BY <1>1, <1>2 DEF Generate
<1>4. BuildsOK'
  <2>1. builds' \in Seq([version : Versions, lock : EntityLock]) /\ Len(builds') \in 1..MaxBuilds
    BY <1>1, <1>2, <1>3, BoundsAssumption DEF Generate
  <2>2. \A k \in DOMAIN builds' : BuildOK(builds'[k])
    BY <1>2, <1>3 DEF IInv, BuildsOK
  <2>3. ASSUME NEW j \in DOMAIN builds', NEW k \in DOMAIN builds', j <= k
        PROVE  Follows(builds'[j], builds'[k])
    <3>1. CASE k \in DOMAIN builds
      <4>1. j \in DOMAIN builds
        BY <1>1, <1>3, <2>3, <3>1
      <4>2. QED
        BY <4>1, <3>1, <1>3, <2>3 DEF IInv, BuildsOK
    <3>2. CASE k = old + 1 /\ j \in DOMAIN builds
      <4>1. Follows(builds[j], before) /\ BuildOK(builds[j]) /\ BuildOK(before)
        BY <1>1, <3>2 DEF IInv, BuildsOK
      <4>2. QED
        BY <4>1, <3>2, <1>2, <1>3, FollowsTransitive
    <3>3. CASE k = old + 1 /\ j = old + 1
      BY <3>3, FollowsItself
    <3>4. QED
      BY <3>1, <3>2, <3>3, <1>3
  <2>4. QED
    BY <2>1, <2>2, <2>3 DEF BuildsOK
<1>5. UNCHANGED <<server, row, client, last, seen, edits, puts>>
  BY DEF Generate
<1>6. ServerOK'
  BY <1>3, <1>5 DEF IInv, ServerOK, Server
<1>7. Shape' /\ CountsOK'
  BY <1>5 DEF IInv, Shape, CountsOK
<1>8. \A c \in Clients : ClientOK(c)'
  BY <1>3, <1>5, ClientFrame DEF IInv
<1>9. QED
  BY <1>4, <1>6, <1>7, <1>8 DEF IInv

LEMMA DeployInvariant ==
    ASSUME IInv, NEW k \in 1..MaxBuilds, Deploy(k)
    PROVE  IInv'
<1>1. server \in DOMAIN builds /\ k \in DOMAIN builds /\ server <= k
  BY DEF IInv, ServerOK, BuildsOK, Deploy
<1>2. BuildOK(builds[k]) /\ Follows(Server, builds[k]) /\ RowOK(Server, row)
  BY <1>1 DEF IInv, ServerOK, BuildsOK, Server
<1>3. ASSUME NEW f \in Columns(builds[k])
      PROVE  Fits(builds[k], f, row'[f])
  <2>1. row'[f] = IF f \in DOMAIN row THEN row[f] ELSE Fresh(builds[k], f)
    BY DEF Deploy
  <2>2. CASE f \in DOMAIN row
    <3>1. Fits(Server, f, row[f])
      BY <2>2, <1>2 DEF RowOK
    <3>2. QED
      BY <3>1, <2>1, <2>2, <1>2 DEF Fits, Follows
  <2>3. CASE f \notin DOMAIN row
    BY <2>1, <2>3, <1>2, FreshFits
  <2>4. QED
    BY <2>2, <2>3
<1>4. RowOK(builds[k], row')
  BY <1>3 DEF Deploy, RowOK
<1>5. server' = k /\ UNCHANGED <<builds, client, last, seen, edits, puts>>
  BY DEF Deploy
<1>6. ServerOK'
  BY <1>1, <1>4, <1>5 DEF ServerOK, Server
<1>7. BuildsOK' /\ Shape' /\ CountsOK'
  BY <1>5 DEF IInv, BuildsOK, Shape, CountsOK
<1>8. \A c \in Clients : ClientOK(c)'
  BY <1>5, ClientFrame DEF IInv
<1>9. QED
  BY <1>6, <1>7, <1>8 DEF IInv

LEMMA UpgradeInvariant ==
    ASSUME IInv, NEW c \in Clients, NEW k \in 1..MaxBuilds, Upgrade(c, k)
    PROVE  IInv'
<1>1. UNCHANGED <<builds, server, row, last, seen, edits, puts>>
  BY DEF Upgrade
<1>2. client' = [client EXCEPT ![c] = Holding(k)] /\ DOMAIN client = Clients
  BY DEF Upgrade, IInv, Shape
<1>3. k \in DOMAIN builds
  BY DEF Upgrade, IInv, BuildsOK, ClientOK
<1>4. BuildsOK' /\ ServerOK' /\ CountsOK'
  BY <1>1 DEF IInv, BuildsOK, ServerOK, Server, CountsOK
<1>5. Shape'
  BY <1>1, <1>2 DEF IInv, Shape, Holding
<1>6. ASSUME NEW d \in Clients
      PROVE  ClientOK(d)'
  <2>1. CASE d # c
    BY <1>1, <1>2, <2>1, ClientFrame DEF IInv
  <2>2. CASE d = c
    <3>1. client'[c] = Holding(k)
      BY <1>2
    <3>2. client'[c].build = k /\ ~client'[c].loaded /\ DOMAIN client'[c].msg = {} /\ Mask(c)' = {}
      BY <3>1 DEF Holding, Empty, Mask
    <3>3. QED
      BY <3>2, <2>2, <1>1, <1>3 DEF ClientOK
  <2>3. QED
    BY <2>1, <2>2
<1>7. QED
  BY <1>4, <1>5, <1>6 DEF IInv

LEMMA GetInvariant ==
    ASSUME IInv, NEW c \in Clients, Get(c)
    PROVE  IInv'
<1> DEFINE msg == UserToProto(Server, row)
<1>1. UNCHANGED <<builds, server, row, last, edits, puts>>
  BY DEF Get
<1>2. /\ client' = [client EXCEPT ![c] = [build |-> client[c].build, msg |-> msg, edited |-> Empty, loaded |-> TRUE]]
      /\ seen' = [seen EXCEPT ![c] = [row |-> row, build |-> server]]
      /\ DOMAIN client = Clients /\ DOMAIN seen = Clients
  BY DEF Get, IInv, Shape
<1>3. server \in DOMAIN builds /\ BuildOK(Server) /\ RowOK(Server, row)
  BY DEF IInv, ServerOK, BuildsOK, Server
<1>4. BuildsOK' /\ ServerOK' /\ CountsOK'
  BY <1>1 DEF IInv, BuildsOK, ServerOK, Server, CountsOK
<1>5. Shape'
  BY <1>2 DEF IInv, Shape
<1>6. ASSUME NEW d \in Clients
      PROVE  ClientOK(d)'
  <2>1. CASE d # c
    BY <1>1, <1>2, <2>1, ClientFrame DEF IInv
  <2>2. CASE d = c
    <3>1. client'[c] = [build |-> client[c].build, msg |-> msg, edited |-> Empty, loaded |-> TRUE]
          /\ seen'[c] = [row |-> row, build |-> server]
      BY <1>2
    <3>2. Mask(c)' = {}
      BY <3>1 DEF Mask, Empty
    <3>3. SeenOK(c)'
      BY <3>1, <1>1, <1>3 DEF SeenOK, Server
    <3>4. \A n \in DOMAIN msg : FromRow(c, n)'
      BY <3>1, <1>1, <1>3, UserToProtoFacts DEF FromRow, Server
    <3>5. client[c].build \in DOMAIN builds
      BY DEF IInv, ClientOK
    <3>6. QED
      BY <2>2, <3>1, <3>2, <3>3, <3>4, <3>5, <1>1 DEF ClientOK
  <2>3. QED
    BY <2>1, <2>2
<1>7. QED
  BY <1>4, <1>5, <1>6 DEF IInv

LEMMA EditInvariant ==
    ASSUME IInv, NEW c \in Clients, NEW f \in Name \ {Id}, NEW v, Edit(c, f, v)
    PROVE  IInv'
<1> DEFINE b == Own(c)
           msg == client[c].msg
           new == Assign(b, msg, f, v)
           edited == With(client[c].edited, f, v)
<1>1. UNCHANGED <<builds, server, row, last, seen, puts>> /\ edits' = edits + 1 /\ edits < MaxEdits
  BY DEF Edit
<1>2. /\ client' = [client EXCEPT ![c].msg = new, ![c].edited = edited]
      /\ DOMAIN client = Clients /\ DOMAIN seen = Clients
      /\ client[c] = [build |-> client[c].build, msg |-> client[c].msg,
                      edited |-> client[c].edited, loaded |-> client[c].loaded]
  BY DEF Edit, IInv, Shape
<1>3. /\ client'[c] = [build |-> client[c].build, msg |-> new, edited |-> edited, loaded |-> client[c].loaded]
      /\ \A d \in Clients : d # c => client'[d] = client[d]
      /\ DOMAIN client' = Clients
  BY <1>2
<1>4. client[c].loaded /\ client[c].build \in DOMAIN builds /\ BuildOK(b) /\ f \in Fields(b)
  BY DEF Edit, IInv, ClientOK, BuildsOK, Own
<1>5. Fits(b, f, v) /\ (Kind[f] = "enum" => Knows(b, v))
  <2>1. Kind[f] \in {"plain", "nillable", "enum", "time", "uuid"}
    BY KindFacts
  <2>2. b.version.enum \in Seq(Enumeration)
    BY <1>4, VersionFacts DEF BuildOK
  <2>3. CASE Kind[f] = "enum"
    <3>1. PICK k \in DOMAIN b.version.enum : b.version.enum[k] = v
      BY <2>3 DEF Edit
    <3>2. QED
      BY <3>1, <2>2, <2>3 DEF Fits, Knows
  <2>4. QED
    BY <2>1, <2>3 DEF Edit, Fits
<1>6. DOMAIN edited = Mask(c) \cup {f} /\ edited[f] = v /\ \A g \in Mask(c) \ {f} : edited[g] = client[c].edited[g]
  BY DEF With, Mask
<1>7. BuildsOK' /\ ServerOK' /\ CountsOK'
  <2>1. BuildsOK' /\ ServerOK'
    BY <1>1 DEF IInv, BuildsOK, ServerOK, Server
  <2>2. CountsOK'
    BY <1>1, BoundsAssumption DEF IInv, CountsOK
  <2>3. QED
    BY <2>1, <2>2
<1>8. Shape'
  BY <1>1, <1>3 DEF IInv, Shape
<1>9. ASSUME NEW d \in Clients
      PROVE  ClientOK(d)'
  <2>1. CASE d # c
    BY <1>1, <1>3, <2>1, ClientFrame DEF IInv
  <2>2. CASE d = c
    <3>1. Own(c)' = b /\ Mask(c)' = Mask(c) \cup {f} /\ client'[c].msg = new /\ client'[c].edited = edited
          /\ client'[c].build = client[c].build /\ client'[c].loaded
      BY <1>1, <1>3, <1>4, <1>6 DEF Own, Mask
    <3>2. Carries(b, new, f, v) /\ SameBut(Number(b, f), msg, new)
      BY <1>4, AssignFacts
    <3>3. \A g \in Fields(b) : g # f => Number(b, g) # Number(b, f)
      BY <1>4, NumberFacts
    <3>4. ASSUME NEW g \in Mask(c) \cup {f}
          PROVE  g \in Fields(b) /\ Fits(b, g, edited[g]) /\ Carries(b, new, g, edited[g])
                 /\ (Kind[g] = "enum" => Knows(b, edited[g]))
      <4>1. CASE g = f
        BY <4>1, <1>4, <1>5, <1>6, <3>2
      <4>2. CASE g # f
        <5>1. g \in Fields(b) /\ Fits(b, g, edited[g]) /\ Carries(b, msg, g, edited[g])
              /\ (Kind[g] = "enum" => Knows(b, edited[g]))
          BY <4>2, <1>6 DEF IInv, ClientOK
        <5>2. Carries(b, new, g, edited[g])
          BY <5>1, <4>2, <3>2, <3>3 DEF Carries, SameBut
        <5>3. QED
          BY <5>1, <5>2
      <4>3. QED
        BY <4>1, <4>2
    <3>5. ASSUME NEW n \in DOMAIN new
          PROVE  FromEdit(c, n)' \/ FromRow(c, n)'
      <4>1. CASE n = Number(b, f)
        <5>1. new[n] \in ToProto(b, f, edited[f])
          BY <4>1, <3>2, <1>6, <3>5 DEF Carries
        <5>2. QED
          BY <4>1, <5>1, <3>1 DEF FromEdit
      <4>2. CASE n # Number(b, f)
        <5>1. n \in DOMAIN msg /\ new[n] = msg[n]
          BY <4>2, <3>2, <3>5 DEF SameBut
        <5>2. CASE FromEdit(c, n)
          BY <4>2, <5>1, <5>2, <3>1, <1>6 DEF FromEdit
        <5>3. CASE FromRow(c, n)
          BY <5>1, <5>3, <3>1, <1>1 DEF FromRow
        <5>4. QED
          BY <5>1, <5>2, <5>3 DEF IInv, ClientOK
      <4>3. QED
        BY <4>1, <4>2
    <3>6. SeenOK(c)'
      <4>1. SeenOK(c) /\ Mask(c)' # {}
        BY <1>4, <3>1 DEF IInv, ClientOK
      <4>2. QED
        BY <4>1, <1>1 DEF SeenOK
    <3>7. QED
      BY <2>2, <3>1, <3>4, <3>5, <3>6, <1>1, <1>4 DEF ClientOK
  <2>3. QED
    BY <2>1, <2>2
<1>10. QED
  BY <1>7, <1>8, <1>9 DEF IInv

-----------------------------------------------------------------------------
(***************************************************************************)
(* What the server takes out of a message.                                 *)
(***************************************************************************)

LEMMA AnyTwoBuilds ==
    ASSUME IInv, NEW j \in DOMAIN builds, NEW k \in DOMAIN builds
    PROVE  /\ BuildOK(builds[j]) /\ BuildOK(builds[k])
           /\ Follows(builds[j], builds[k]) \/ Follows(builds[k], builds[j])
<1>1. j \in Nat /\ k \in Nat
  BY DEF IInv, BuildsOK
<1>2. j <= k \/ k <= j
  BY <1>1
<1>3. QED
  BY <1>2 DEF IInv, BuildsOK

\* Two builds of which each has a field of the same number.
LEMMA SameField ==
    ASSUME IInv, NEW j \in DOMAIN builds, NEW k \in DOMAIN builds,
           NEW f \in Fields(builds[j]), NEW g \in Fields(builds[k]),
           Number(builds[j], f) = Number(builds[k], g)
    PROVE  f = g
<1>1. CASE Follows(builds[j], builds[k])
  BY <1>1, AnyTwoBuilds, NumbersAgree
<1>2. CASE Follows(builds[k], builds[j])
  BY <1>2, AnyTwoBuilds, NumbersAgree
<1>3. QED
  BY <1>1, <1>2, AnyTwoBuilds

\* The value a client has for a field: what it set, or what it read.
Meant(c, f, v) ==
    \/ f \in Mask(c) /\ v = client[c].edited[f]
    \/ f \in Fields(builds[seen[c].build]) /\ v = seen[c].row[f]

LEMMA ServerFacts ==
    ASSUME IInv
    PROVE  /\ server \in DOMAIN builds /\ BuildOK(Server) /\ RowOK(Server, row)
           /\ Columns(Server) \subseteq Name \ {Id} /\ Fields(Server) \subseteq Columns(Server)
           /\ \A f \in Columns(Server) \ Fields(Server) : f \in Server.version.hidden /\ Kind[f] # "enum"
           /\ \A f \in Fields(Server) : f \notin Server.version.hidden
           /\ 1 \in DOMAIN Server.version.enum /\ Server.version.enum[1] \in Enumeration
<1>1. server \in DOMAIN builds /\ BuildOK(Server) /\ RowOK(Server, row)
  BY DEF IInv, ServerOK, BuildsOK, Server
<1>2. QED
  BY <1>1, VersionFacts DEF BuildOK, Columns, Fields

\* The builds that may have put f into the message of c number its enumerators as
\* the server does.
Agreed(c, f) == Kind[f] = "enum" => Aligned(Own(c), Server) /\ Aligned(builds[seen[c].build], Server)

\* The value of a field that is on the wire fits its column, and is one that was
\* put there for this field.
LEMMA Arrives ==
    ASSUME IInv, NEW c \in Clients, NEW f \in Fields(Server),
           Number(Server, f) \in DOMAIN client[c].msg
    PROVE  /\ Fits(Server, f, FromProto(Server, f, client[c].msg))
           /\ Agreed(c, f) =>
                \/ Meant(c, f, FromProto(Server, f, client[c].msg))
                \/ Kind[f] = "enum" /\ FromProto(Server, f, client[c].msg) = Server.version.enum[1]
<1> DEFINE msg == client[c].msg
           n == Number(Server, f)
           x == FromProto(Server, f, msg)
<1>1. server \in DOMAIN builds /\ BuildOK(Server) /\ 1 \in DOMAIN Server.version.enum
  BY ServerFacts
<1>2. ClientOK(c)
  BY DEF IInv
<1>3. ASSUME NEW k \in DOMAIN builds, NEW v, f \in Fields(builds[k]), Number(builds[k], f) = n,
             msg[n] \in ToProto(builds[k], f, v), Fits(builds[k], f, v)
      PROVE  /\ Fits(Server, f, x)
             /\ (Kind[f] = "enum" => Aligned(builds[k], Server)) =>
                  x = v \/ (Kind[f] = "enum" /\ x = Server.version.enum[1])
  <2>1. /\ Kind[f] # "enum" => x = v
        /\ Kind[f] = "enum" => Knows(Server, x)
        /\ Kind[f] = "enum" /\ Aligned(builds[k], Server) /\ x # v => x = Server.version.enum[1]
    <3>1. BuildOK(builds[k])
      BY <1>3, AnyTwoBuilds
    <3>2. n \in DOMAIN msg /\ Number(builds[k], f) = Number(Server, f) /\ f \in Fields(builds[k]) /\ f \in Fields(Server)
      BY <1>3
    <3> HIDE DEF x
    <3>3. QED
      BY <3>1, <3>2, <1>1, <1>3, Decoded DEF x, Knows, Aligned
  <2>2. CASE Kind[f] = "enum"
    <3>1. Server.version.enum \in Seq(Enumeration)
      BY <1>1, VersionFacts DEF BuildOK
    <3>2. PICK l \in DOMAIN Server.version.enum : Server.version.enum[l] = x
      BY <2>1, <2>2 DEF Knows
    <3>3. QED
      BY <3>1, <3>2, <2>1, <2>2 DEF Fits
  <2>3. CASE Kind[f] # "enum"
    BY <2>1, <2>3, <1>3 DEF Fits
  <2>4. QED
    BY <2>2, <2>3
<1>4. CASE FromEdit(c, n)
  <2>1. PICK g \in Mask(c) : n = Number(Own(c), g) /\ msg[n] \in ToProto(Own(c), g, client[c].edited[g])
    BY <1>4 DEF FromEdit
  <2>2. client[c].build \in DOMAIN builds /\ g \in Fields(Own(c)) /\ Fits(Own(c), g, client[c].edited[g])
    BY <1>2 DEF ClientOK
  <2>3. g = f
    BY <1>1, <2>1, <2>2, SameField DEF Own, Server
  <2>4. QED
    BY <2>1, <2>2, <2>3, <1>3 DEF Own, Meant, Agreed
<1>5. CASE FromRow(c, n)
  <2> DEFINE b == builds[seen[c].build]
  <2>1. PICK g \in Fields(b) : n = Number(b, g) /\ msg[n] \in ToProto(b, g, seen[c].row[g])
    BY <1>5 DEF FromRow
  <2>2. seen[c].build \in DOMAIN builds /\ RowOK(b, seen[c].row)
    BY <1>2, <1>5 DEF ClientOK, SeenOK, FromRow
  <2>3. g = f
    BY <1>1, <2>1, <2>2, SameField DEF Server
  <2>4. Fits(b, f, seen[c].row[f])
    BY <2>1, <2>2, <2>3 DEF RowOK, Columns
  <2>5. QED
    BY <2>1, <2>2, <2>3, <2>4, <1>3 DEF Meant, Agreed
<1>6. QED
  BY <1>2, <1>4, <1>5 DEF ClientOK

\* A field that is not on the wire.
LEMMA DoesNotArrive ==
    ASSUME IInv, NEW msg, NEW f \in Fields(Server), Number(Server, f) \notin DOMAIN msg
    PROVE  /\ Kind[f] = "nillable" => FromProto(Server, f, msg) = Null
           /\ Kind[f] # "nillable" =>
                FromProto(Server, f, msg) = Default(f) /\ Fits(Server, f, Default(f))
           /\ Kind[f] \in {"plain", "uuid"} => Default(f) = Zero
<1>1. f \notin Server.version.hidden /\ Server.version.enum[1] \in Enumeration
      /\ Kind[f] \in {"plain", "nillable", "enum", "time", "uuid"}
  BY ServerFacts, KindFacts
<1>2. Zero \in Values /\ Epoch \in Values
  BY ValuesAssumption
<1>3. QED
  BY <1>1, <1>2 DEF FromProto, Default, Fits

\* A column the message cannot carry is not on the wire either.
LEMMA Hidden ==
    ASSUME IInv, NEW msg, NEW f \in Columns(Server) \ Fields(Server)
    PROVE  /\ Kind[f] = "nillable" => UserFromProto(Server, msg)[f] = Null
           /\ Kind[f] # "nillable" =>
                /\ UserFromProto(Server, msg)[f] = Zero
                /\ Default(f) = Zero /\ Fits(Server, f, Zero)
<1>1. f \in Server.version.hidden /\ f \notin Fields(Server)
      /\ Kind[f] \in {"plain", "nillable", "time", "uuid"}
  BY ServerFacts, KindFacts
<1>2. Zero \in Values
  BY ValuesAssumption
<1>3. QED
  BY <1>1, <1>2 DEF UserFromProto, IsPointer, Default, Fits

\* A column keeps its value or takes that of the struct, which is not a nil
\* pointer.
LEMMA AppliedFacts ==
    ASSUME IInv, NEW c \in Clients, NEW cfg, Put(c, cfg)
    PROVE  /\ client[c].loaded /\ DOMAIN row' = DOMAIN row
           /\ \A f \in Columns(Server) :
                \/ row'[f] = row[f]
                \/ /\ row'[f] = UserFromProto(Server, client[c].msg)[f]
                   /\ IsPointer(f) => row'[f] # Null /\ ShouldApplyPtr(cfg, f, row'[f])
                   /\ ~IsPointer(f) => ShouldApply(cfg, f, row'[f])
           /\ last' # "panic" =>
                row' = Applied(cfg, UserFromProto(Server, client[c].msg), row)
                /\ ~Panics(Server, client[c].msg)
<1>1. DOMAIN row = Columns(Server)
  BY ServerFacts DEF RowOK
<1>2. QED
  BY <1>1 DEF Put, Applied

\* What a column takes from a message fits it, and was meant for it or is its
\* default.
LEMMA TakesWhatWasMeant ==
    ASSUME IInv, NEW c \in Clients, NEW cfg, Put(c, cfg),
           NEW f \in Columns(Server), row'[f] # row[f]
    PROVE  Fits(Server, f, row'[f]) /\ (Agreed(c, f) => row'[f] = Default(f) \/ Meant(c, f, row'[f]))
<1> DEFINE msg == client[c].msg
           d == UserFromProto(Server, msg)[f]
<1>1. row'[f] = d /\ (Kind[f] = "nillable" => d # Null)
  BY AppliedFacts DEF IsPointer
<1>2. CASE f \notin Fields(Server)
  BY <1>1, <1>2, Hidden
<1>3. CASE f \in Fields(Server)
  <2>1. d = FromProto(Server, f, msg)
    BY <1>3 DEF UserFromProto
  <2>2. CASE Number(Server, f) \notin DOMAIN msg
    BY <1>1, <1>3, <2>1, <2>2, DoesNotArrive
  <2>3. CASE Number(Server, f) \in DOMAIN msg
    <3>1. Kind[f] = "enum" => Default(f) = Server.version.enum[1]
      BY <1>3, ServerFacts DEF Default
    <3>2. QED
      BY <1>1, <1>3, <2>1, <2>3, <3>1, Arrives
  <2>4. QED
    BY <2>2, <2>3
<1>4. QED
  BY <1>2, <1>3

LEMMA PutInvariant ==
    ASSUME IInv, NEW c \in Clients, NEW cfg, Put(c, cfg)
    PROVE  IInv'
<1>1. UNCHANGED <<builds, server, client, seen, edits>> /\ puts' = puts + 1 /\ puts < MaxPuts
  BY DEF Put
<1>2. RowOK(Server, row) /\ server \in DOMAIN builds
  BY ServerFacts
<1>3. ASSUME NEW f \in Columns(Server)
      PROVE  Fits(Server, f, row'[f])
  <2>1. CASE row'[f] = row[f]
    BY <2>1, <1>2 DEF RowOK
  <2>2. CASE row'[f] # row[f]
    BY <2>2, TakesWhatWasMeant
  <2>3. QED
    BY <2>1, <2>2
<1>4. RowOK(Server, row')
  BY <1>2, <1>3, AppliedFacts DEF RowOK
<1>5. ServerOK'
  BY <1>1, <1>2, <1>4 DEF ServerOK, Server
<1>6. BuildsOK' /\ Shape'
  BY <1>1 DEF IInv, BuildsOK, Shape
<1>7. CountsOK'
  BY <1>1, BoundsAssumption DEF IInv, CountsOK
<1>8. \A d \in Clients : ClientOK(d)'
  BY <1>1, ClientFrame DEF IInv
<1>9. QED
  BY <1>5, <1>6, <1>7, <1>8 DEF IInv

LEMMA StutterInvariant == IInv /\ UNCHANGED vars => IInv'
<1> SUFFICES ASSUME IInv, UNCHANGED vars PROVE IInv'
  OBVIOUS
<1>1. BuildsOK' /\ ServerOK' /\ Shape' /\ CountsOK'
  BY DEF IInv, vars, BuildsOK, ServerOK, Server, Shape, CountsOK
<1>2. \A c \in Clients : ClientOK(c)'
  BY ClientFrame DEF IInv, vars
<1>3. QED
  BY <1>1, <1>2 DEF IInv

LEMMA NextInvariant == IInv /\ [Next]_vars => IInv'
<1> SUFFICES ASSUME IInv, [Next]_vars PROVE IInv'
  OBVIOUS
<1>1. ASSUME NEW v \in Versions, Generate(v) PROVE IInv'
  BY <1>1, GenerateInvariant
<1>2. ASSUME NEW k \in 1..MaxBuilds, Deploy(k) PROVE IInv'
  BY <1>2, DeployInvariant
<1>3. ASSUME NEW c \in Clients, NEW k \in 1..MaxBuilds, Upgrade(c, k) PROVE IInv'
  BY <1>3, UpgradeInvariant
<1>4. ASSUME NEW c \in Clients, Get(c) PROVE IInv'
  BY <1>4, GetInvariant
<1>5. ASSUME NEW c \in Clients, NEW f \in Name \ {Id}, NEW v, Edit(c, f, v) PROVE IInv'
  BY <1>5, EditInvariant
<1>6. ASSUME NEW c \in Clients, NEW cfg, Put(c, cfg) PROVE IInv'
  BY <1>6, PutInvariant
<1>7. QED
  BY <1>1, <1>2, <1>3, <1>4, <1>5, <1>6, StutterInvariant DEF Next

\* Every build remembers the numbers of the builds before it, and each field of
\* a message was put there for the field that has its number.
THEOREM Invariance == Spec => []IInv
BY InitInvariant, NextInvariant, PTL DEF Spec

-----------------------------------------------------------------------------
(***************************************************************************)
(* The properties.                                                         *)
(***************************************************************************)

\* The row has a value of the right kind in every column of the server's build,
\* whichever builds wrote it.
THEOREM TypeCorrect == Spec => []TypeOK
<1>1. IInv => TypeOK
  <2> SUFFICES ASSUME IInv PROVE TypeOK
    OBVIOUS
  <2>1. server \in DOMAIN builds /\ Len(builds) <= MaxBuilds
    BY DEF IInv, BuildsOK, ServerOK
  <2>2. DOMAIN row = Columns(Server) /\ \A f \in DOMAIN row : Fits(Server, f, row[f])
    BY DEF IInv, ServerOK, RowOK
  <2>3. \A c \in Clients : client[c].build \in DOMAIN builds /\ Mask(c) \subseteq Fields(Own(c))
    BY DEF IInv, ClientOK
  <2>4. edits \in 0..MaxEdits /\ puts \in 0..MaxPuts
    BY DEF IInv, CountsOK
  <2>5. QED
    BY <2>1, <2>2, <2>3, <2>4 DEF TypeOK, Fits
<1>2. QED
  BY <1>1, Invariance, PTL

\* Whatever builds a client and the server run, a column takes the value its own
\* field had for the client, or the default of its kind (FromProto of
\* template/proto_mapper.tmpl over the numbers of the lock); a column of an enum
\* only if the builds that may have written it number its enumerators alike, which
\* the property says and nothing in the code ensures.
THEOREM WireCompatible == Spec => LandsWhereMeant
<1> DEFINE A == \A c \in Clients : \A cfg \in Options(c) : Put(c, cfg) =>
                  \A f \in DOMAIN row : row'[f] # row[f] =>
                    \/ TakesMeant(c, f)
                    \/ Kind[f] = "enum" /\ ~(Aligned(Own(c), Server) /\ Aligned(builds[seen[c].build], Server))
<1>1. IInv => A
  <2> SUFFICES ASSUME IInv, NEW c \in Clients, NEW cfg \in Options(c), Put(c, cfg),
                      NEW f \in DOMAIN row, row'[f] # row[f], Agreed(c, f)
               PROVE  TakesMeant(c, f)
    BY DEF Agreed
  <2>1. f \in Columns(Server)
    BY ServerFacts DEF RowOK
  <2>2. row'[f] = Default(f) \/ Meant(c, f, row'[f])
    BY <2>1, TakesWhatWasMeant
  <2>3. QED
    BY <2>2 DEF Meant, TakesMeant
<1>2. QED
  BY <1>1, Invariance, PTL DEF LandsWhereMeant

\* An edited field that both builds number alike reaches its column.
LEMMA EditArrives ==
    ASSUME IInv, NEW c \in Clients, Put(c, OnlyFields(NoConfig, Mask(c))), last' # "panic",
           NEW f \in DOMAIN row, f \in Mask(c), Shared(c, f)
    PROVE  row'[f] = Received(f, client[c].edited[f])
<1> DEFINE msg == client[c].msg
           v == client[c].edited[f]
           cfg == OnlyFields(NoConfig, Mask(c))
           d == FromProto(Server, f, msg)
<1>1. /\ f \in Fields(Server) /\ f \in Fields(Own(c)) /\ Number(Own(c), f) = Number(Server, f)
      /\ BuildOK(Server) /\ server \in DOMAIN builds /\ f \in Name \ {Id}
      /\ Kind[f] = "enum" => Aligned(Own(c), Server)
  BY ServerFacts DEF Shared
<1>2. /\ client[c].build \in DOMAIN builds /\ Fits(Own(c), f, v) /\ Carries(Own(c), msg, f, v)
      /\ Kind[f] = "enum" => Knows(Own(c), v)
  BY DEF IInv, ClientOK
<1>3. BuildOK(Own(c))
  BY <1>1, <1>2, AnyTwoBuilds DEF Own, Server
<1>4. row'[f] = IF IsPointer(f) /\ d = Null THEN row[f] ELSE d
  <2>1. ShouldApply(cfg, f, d) /\ ShouldApplyPtr(cfg, f, d)
    BY DEF ShouldApply, ShouldApplyPtr, InLists, OnlyFields, NoConfig
  <2>2. UserFromProto(Server, msg)[f] = d
    BY <1>1 DEF UserFromProto, Columns
  <2>3. row' = Applied(cfg, UserFromProto(Server, msg), row)
    BY AppliedFacts
  <2>4. QED
    BY <2>1, <2>2, <2>3 DEF Applied
<1>5. Null \notin Values \cup Enumeration /\ Zero \in Values
  BY ValuesAssumption
<1>6. Kind[f] \in {"plain", "nillable", "enum", "time", "uuid"}
  BY <1>1, KindFacts
<1>7. Kind[f] # "nillable" => v # Null
  <2>1. Kind[f] = "enum" => v \in Enumeration
    BY <1>2 DEF Fits
  <2>2. QED
    BY <2>1, <1>2, <1>5, <1>6 DEF Fits
<1>8. CASE ToProto(Own(c), f, v) = {}
  <2>1. Number(Server, f) \notin DOMAIN msg
    BY <1>1, <1>2, <1>8 DEF Carries
  <2>2. (Kind[f] = "nillable" /\ v = Null) \/ (Kind[f] = "plain" /\ v = Zero)
    BY <1>1, <1>2, <1>3, <1>8, NotSent
  <2>3. CASE Kind[f] = "nillable" /\ v = Null
    BY <2>1, <2>3, <1>1, <1>4, DoesNotArrive DEF IsPointer, Received
  <2>4. CASE Kind[f] = "plain" /\ v = Zero
    BY <2>1, <2>4, <1>1, <1>4, <1>5, DoesNotArrive DEF IsPointer, Received
  <2>5. QED
    BY <2>2, <2>3, <2>4
<1>9. CASE ToProto(Own(c), f, v) # {}
  <2>1. Number(Server, f) \in DOMAIN msg /\ msg[Number(Server, f)] \in ToProto(Own(c), f, v)
    BY <1>1, <1>2, <1>9 DEF Carries
  <2>2. v # Null
    BY <1>7, <1>9 DEF ToProto
  <2>3. /\ Kind[f] # "enum" => d = v
        /\ Kind[f] = "enum" => Knows(Server, d)
        /\ Kind[f] = "enum" /\ d # v => d = Server.version.enum[1] /\ ~Knows(Server, v)
    BY <2>1, <1>1, <1>3, Decoded DEF Knows, Aligned
  <2>4. CASE Kind[f] # "enum"
    BY <2>2, <2>3, <2>4, <1>4 DEF Received
  <2>5. CASE Kind[f] = "enum"
    <3>1. Default(f) = Server.version.enum[1]
      BY <2>5, <1>1, ServerFacts DEF Default
    <3>2. row'[f] = d
      BY <2>5, <1>4 DEF IsPointer
    <3>3. CASE d = v
      BY <3>2, <3>3, <2>2, <2>3, <2>5 DEF Received
    <3>4. CASE d # v
      BY <3>1, <3>2, <3>4, <2>2, <2>3, <2>5 DEF Received
    <3>5. QED
      BY <3>3, <3>4
  <2>6. QED
    BY <2>4, <2>5
<1>10. QED
  BY <1>8, <1>9

\* Under OnlyFields of what a client edited (shouldApply of runtime.go) its
\* edits arrive, however old its message and its build, and nothing else changes.
\* An edit that the client's build and the server's number differently, enumerators
\* included, is left out of Shared: the theorem says nothing of it.
THEOREM NoLostEdits == Spec => MaskedEditsArrive
<1> DEFINE A == \A c \in Clients : Mask(c) # {} /\ Put(c, OnlyFields(NoConfig, Mask(c))) /\ last' = "ok" =>
                  \A f \in DOMAIN row :
                    /\ f \notin Mask(c) => row'[f] = row[f]
                    /\ f \in Mask(c) /\ Shared(c, f) => row'[f] = Received(f, client[c].edited[f])
<1>1. IInv => A
  <2> SUFFICES ASSUME IInv, NEW c \in Clients, Mask(c) # {},
                      Put(c, OnlyFields(NoConfig, Mask(c))), last' = "ok",
                      NEW f \in DOMAIN row
               PROVE  /\ f \notin Mask(c) => row'[f] = row[f]
                      /\ f \in Mask(c) /\ Shared(c, f) => row'[f] = Received(f, client[c].edited[f])
    OBVIOUS
  <2>1. f \in Columns(Server)
    BY ServerFacts DEF RowOK
  <2>2. ASSUME f \notin Mask(c) PROVE row'[f] = row[f]
    <3>1. ~InLists(OnlyFields(NoConfig, Mask(c)), f)
      BY <2>2 DEF InLists, OnlyFields, NoConfig
    <3>2. QED
      BY <3>1, <2>1, AppliedFacts DEF ShouldApply, ShouldApplyPtr
  <2>3. ASSUME f \in Mask(c), Shared(c, f) PROVE row'[f] = Received(f, client[c].edited[f])
    BY <2>3, EditArrives
  <2>4. QED
    BY <2>2, <2>3
<1>2. QED
  BY <1>1, Invariance, PTL DEF MaskedEditsArrive

\* Under OmitZeroVal and OmitNil a column survives that the message says nothing
\* of, unless FromProto makes something of nothing: an enum and a time.
THEOREM AbsentKept == Spec => AbsentSurvives
<1> DEFINE cfg == OmitNil(OmitZeroVal(NoConfig))
           A == \A c \in Clients : Put(c, cfg) =>
                  \A f \in DOMAIN row :
                    \/ f \in Fields(Server) /\ (Number(Server, f) \in DOMAIN client[c].msg \/ Kind[f] \in {"enum", "time"})
                    \/ row'[f] = row[f]
<1>1. IInv => A
  <2> SUFFICES ASSUME IInv, NEW c \in Clients, Put(c, cfg), NEW f \in DOMAIN row, row'[f] # row[f],
                      f \notin Fields(Server)
                      \/ (Number(Server, f) \notin DOMAIN client[c].msg /\ Kind[f] \notin {"enum", "time"})
               PROVE  FALSE
    OBVIOUS
  <2>1. f \in Columns(Server) /\ Kind[f] \in {"plain", "nillable", "enum", "time", "uuid"}
    BY ServerFacts, KindFacts DEF RowOK
  <2>2. /\ row'[f] = UserFromProto(Server, client[c].msg)[f]
        /\ Kind[f] = "nillable" => row'[f] # Null
        /\ Kind[f] # "nillable" => row'[f] # Zero
    <3>1. cfg.omitZeroVal
      BY DEF OmitNil, OmitZeroVal, NoConfig
    <3>2. QED
      BY <3>1, <2>1, AppliedFacts DEF IsPointer, ShouldApply
  <2>3. CASE f \notin Fields(Server)
    BY <2>1, <2>2, <2>3, Hidden
  <2>4. CASE f \in Fields(Server)
    <3>1. UserFromProto(Server, client[c].msg)[f] = FromProto(Server, f, client[c].msg)
      BY <2>4, <2>1 DEF UserFromProto
    <3>2. QED
      BY <3>1, <2>1, <2>2, <2>4, DoesNotArrive
  <2>5. QED
    BY <2>3, <2>4
<1>2. QED
  BY <1>1, Invariance, PTL DEF AbsentSurvives

\* The mappers are inverse over the wire: a message that comes back unedited to
\* the build and the row it was made of changes nothing but a status that the build
\* no longer has.
THEOREM MappersInvert == Spec => RoundTrip
<1> DEFINE A == \A c \in Clients : \A cfg \in Options(c) :
                  Mask(c) = {} /\ seen[c] = [row |-> row, build |-> server] /\ Put(c, cfg) =>
                    \A f \in Fields(Server) : (Kind[f] = "enum" => Knows(Server, row[f])) => row'[f] = row[f]
<1>1. IInv => A
  <2> SUFFICES ASSUME IInv, NEW c \in Clients, NEW cfg, Mask(c) = {},
                      seen[c] = [row |-> row, build |-> server], Put(c, cfg),
                      NEW f \in Fields(Server), Kind[f] = "enum" => Knows(Server, row[f]), row'[f] # row[f]
               PROVE  FALSE
    OBVIOUS
  <2> DEFINE msg == client[c].msg
             d == FromProto(Server, f, msg)
  <2>1. msg = UserToProto(Server, row)
    BY AppliedFacts DEF IInv, ClientOK, SeenOK, Server
  <2>2. BuildOK(Server) /\ f \in Columns(Server) /\ Fits(Server, f, row[f]) /\ Aligned(Server, Server)
    BY ServerFacts DEF RowOK, Aligned
  <2>3. Carries(Server, msg, f, row[f])
    BY <2>1, <2>2, UserToProtoFacts
  <2>4. row'[f] = d /\ (Kind[f] = "nillable" => d # Null)
    BY <2>2, AppliedFacts DEF UserFromProto, IsPointer
  <2>5. CASE ToProto(Server, f, row[f]) = {}
    <3>1. Number(Server, f) \notin DOMAIN msg
      BY <2>3, <2>5 DEF Carries
    <3>2. (Kind[f] = "nillable" /\ row[f] = Null) \/ (Kind[f] = "plain" /\ row[f] = Zero)
      BY <2>2, <2>5, NotSent
    <3>3. QED
      BY <3>1, <3>2, <2>4, DoesNotArrive
  <2>6. CASE ToProto(Server, f, row[f]) # {}
    <3>1. Number(Server, f) \in DOMAIN msg /\ msg[Number(Server, f)] \in ToProto(Server, f, row[f])
      BY <2>3, <2>6 DEF Carries
    <3>2. /\ Kind[f] # "enum" => d = row[f]
          /\ Kind[f] = "enum" /\ d # row[f] => ~Knows(Server, row[f])
      BY <3>1, <2>2, Decoded
    <3>3. QED
      BY <3>2, <2>4
  <2>7. QED
    BY <2>5, <2>6
<1>2. QED
  BY <1>1, Invariance, PTL DEF RoundTrip
=============================================================================
