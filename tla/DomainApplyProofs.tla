-------------------------- MODULE DomainApplyProofs --------------------------
(***************************************************************************)
(* Theorems about DomainApply, for every set of clients, columns, values,  *)
(* peers and option lists and every bound: what a struct can write into a  *)
(* row, however old it is and whatever the other clients do meanwhile.     *)
(***************************************************************************)
EXTENDS DomainApply, TLAPS

Cfg == ApplyConfig(Columns, {"tags"})

\* The rows of a table with its NOT NULL columns, and the structs the Go types
\* allow: only a pointer can be nil.
FullRow == {r \in Row : \A f \in Columns : Kind[f] = "plain" => r.val[f] # Null}
Struct == {d \in Domain : \A f \in Columns : IsPointer(f) \/ d.val[f] # Null}

BuilderOf(how, cfg, d) ==
  IF how = "create" THEN CreateBuilder(cfg, d) ELSE UpdateBuilder(cfg, d)
Builder == {BuilderOf(how, cfg, d) : how \in {"create", "update"}, cfg \in Cfg, d \in Struct}

Job == [phase : {"idle", "building", "saving"}, how : {"", "create", "update"},
        cfg : Cfg, builders : Seq(Builder), saved : Nat]

\* The builders of a call are those of the structs it was made with, in order.
Matches(j, h) ==
  /\ j.phase = "idle" => j.builders = <<>> /\ j.saved = 0
  /\ Len(j.builders) =< Len(h) /\ j.saved =< Len(j.builders)
  /\ j.phase = "saving" => Len(j.builders) = Len(h)
  /\ \A k \in DOMAIN j.builders : j.builders[k] = BuilderOf(j.how, j.cfg, h[k])

RowsOK == lastID \in 0 .. MaxRows /\ db \in [DOMAIN db -> FullRow] /\ DOMAIN db \subseteq 1 .. lastID
HeldOK ==
  /\ held \in [Clients -> Seq(Struct)] /\ read \in [Clients -> Seq(Row)]
  /\ \A c \in Clients : Len(held[c]) = Len(read[c]) /\ Len(held[c]) =< MaxBulk
JobsOK == job \in [Clients -> Job] /\ \A c \in Clients : Matches(job[c], held[c])
CountsOK == edits \in 0 .. MaxEdits /\ jobs \in 0 .. MaxJobs

IInv == RowsOK /\ HeldOK /\ JobsOK /\ CountsOK

-----------------------------------------------------------------------------
\* What a builder carries.

LEMMA SetsFacts ==
  ASSUME NEW cfg \in Cfg, NEW d \in Struct, NEW S \in SUBSET Columns
  PROVE  /\ DOMAIN Sets(cfg, d, S) = Written(cfg, d, S)
         /\ Written(cfg, d, S) \subseteq S
         /\ \A f \in Written(cfg, d, S) :
              Sets(cfg, d, S)[f] = d.val[f] /\ d.val[f] \in Values /\ InLists(cfg, f)
BY DEF Struct, Domain, Sets, Written, ShouldApply, ShouldApplyPtr

LEMMA ConfigType == Configs \subseteq Cfg /\ NoConfig \in Cfg
BY DomainAssumption DEF Cfg, ApplyConfig, NoConfig

\* An update leaves a row with its NOT NULL columns, and touches no column that
\* is immutable, left out of the options, or held as nil.
LEMMA UpdatedFacts ==
  ASSUME NEW cfg \in Cfg, NEW d \in Struct, NEW r \in FullRow,
         NEW b \in {UpdateBuilder(cfg, d), UpsertBuilder(cfg, d)}
  PROVE  /\ Updated(r, b) \in FullRow
         /\ \A f \in Columns : f \in Immutable \/ ~InLists(cfg, f) =>
              Updated(r, b).val[f] = r.val[f]
<1>1. Columns \ Immutable \in SUBSET Columns
  OBVIOUS
<1> DEFINE W == Written(cfg, d, Columns \ Immutable)
<1>2. /\ b.set = Sets(cfg, d, Columns \ Immutable)
      /\ b.add \in SUBSET Peers
  BY DEF UpdateBuilder, UpsertBuilder, Struct, Domain
<1>3. /\ DOMAIN b.set = W /\ W \subseteq Columns \ Immutable
      /\ \A f \in W : b.set[f] \in Values /\ InLists(cfg, f)
  BY <1>1, <1>2, SetsFacts
<1> HIDE DEF W
<1>4. r \in Row
  BY DEF FullRow
<1>5. Updated(r, b) = [val |-> [f \in Columns |-> IF f \in W THEN b.set[f] ELSE r.val[f]],
                       tags |-> (IF b.clear THEN {} ELSE r.tags) \cup b.add,
                       pinned |-> r.pinned]
  BY <1>3 DEF Updated
<1>6. \A f \in Columns : Updated(r, b).val[f] = IF f \in W THEN b.set[f] ELSE r.val[f]
  BY <1>3, <1>5
<1>7. Updated(r, b) \in Row
  <2>1. /\ r.val \in [Columns -> Values \cup {Null}]
        /\ r.tags \in SUBSET Peers /\ r.pinned \in Peers \cup {NoPeer}
    BY <1>4 DEF Row
  <2>2. [f \in Columns |-> IF f \in W THEN b.set[f] ELSE r.val[f]]
          \in [Columns -> Values \cup {Null}]
    BY <1>3, <2>1
  <2>3. ((IF b.clear THEN {} ELSE r.tags) \cup b.add) \in SUBSET Peers
    BY <1>2, <2>1, Zenon
  <2>4. QED
    BY <1>5, <2>1, <2>2, <2>3 DEF Row
<1>8. \A f \in Columns : Kind[f] = "plain" => Updated(r, b).val[f] # Null
  BY <1>3, <1>6, DomainAssumption DEF FullRow
<1>9. QED
  BY <1>3, <1>6, <1>7, <1>8 DEF FullRow

\* A row that passes ent's checks has its NOT NULL columns.
LEMMA CreatedFacts ==
  ASSUME NEW cfg \in Cfg, NEW d \in Struct, NEW rows,
         Creatable(CreateBuilder(cfg, d), rows)
  PROVE  Created(CreateBuilder(cfg, d)) \in FullRow
<1> DEFINE b == CreateBuilder(cfg, d)
           W == Written(cfg, d, Columns)
<1>1. b.set = Sets(cfg, d, Columns) /\ b.add \in SUBSET Peers
  BY DEF CreateBuilder, Struct, Domain
<1>2. DOMAIN b.set = W /\ \A f \in W : b.set[f] \in Values
  BY <1>1, SetsFacts
<1>3. \A f \in Columns : Kind[f] = "plain" => f \in DOMAIN b.set
  BY DEF Creatable, IsNillable
<1> HIDE DEF b, W
<1>4. Created(b) = [val |-> [f \in Columns |-> IF f \in W THEN b.set[f] ELSE Null],
                    tags |-> b.add, pinned |-> NoPeer]
  BY <1>2 DEF Created
<1>5. Created(b) \in Row
  BY <1>1, <1>2, <1>4 DEF Row
<1>6. \A f \in Columns : Kind[f] = "plain" => Created(b).val[f] # Null
  BY <1>2, <1>3, <1>4, DomainAssumption
<1>7. QED
  BY <1>5, <1>6 DEF FullRow, b

-----------------------------------------------------------------------------
\* What a client can hold.

LEMMA EmptyFacts == EmptyDomain \in Struct
<1>1. EmptyDomain \in Domain
  BY DomainAssumption DEF EmptyDomain, Domain
<1>2. QED
  BY <1>1, DomainAssumption DEF EmptyDomain, Struct

LEMMA LoadedFacts ==
  ASSUME NEW i \in Ids, NEW r \in FullRow, NEW eager \in BOOLEAN
  PROVE  ToDomain(i, r, eager) \in Struct
<1>1. r \in Row
  BY DEF FullRow
<1>2. /\ r.val \in [Columns -> Values \cup {Null}]
      /\ r.tags \in SUBSET Peers /\ r.pinned \in Peers \cup {NoPeer}
  BY <1>1 DEF Row
<1> DEFINE v == [f \in Columns |-> IF r.val[f] = Null /\ Kind[f] # "nillable" THEN Zero ELSE r.val[f]]
           t == IF eager THEN r.tags ELSE {}
           p == IF eager THEN r.pinned ELSE NoPeer
<1>3. v \in [Columns -> Values \cup {Null}]
  BY <1>2, DomainAssumption
<1>4. \A f \in Columns : IsPointer(f) \/ v[f] # Null
  BY <1>2, DomainAssumption DEF IsPointer
<1>5. t \in SUBSET Peers /\ p \in Peers \cup {NoPeer}
  BY <1>2
<1>6. ToDomain(i, r, eager) = [ID |-> i, val |-> v, tags |-> t, pinned |-> p]
  BY DEF ToDomain
<1> HIDE DEF v, t, p
<1>7. [ID |-> i, val |-> v, tags |-> t, pinned |-> p] \in Domain
  BY <1>3, <1>5 DEF Domain
<1>8. QED
  BY <1>4, <1>6, <1>7 DEF Struct

LEMMA EditedColumn ==
  ASSUME NEW d \in Struct, NEW f \in Columns, NEW v \in Values \cup {Null}, v # Null \/ IsPointer(f)
  PROVE  [d EXCEPT !.val[f] = v] \in Struct
<1>1. d \in Domain /\ d.val \in [Columns -> Values \cup {Null}]
  BY DEF Struct, Domain
<1>2. [d EXCEPT !.val[f] = v] \in Domain
  BY <1>1 DEF Domain
<1>3. \A g \in Columns : [d EXCEPT !.val[f] = v].val[g] = IF g = f THEN v ELSE d.val[g]
  BY <1>1 DEF Domain
<1>4. QED
  BY <1>2, <1>3 DEF Struct

LEMMA EditedEdges ==
  ASSUME NEW d \in Struct, NEW t \in SUBSET Peers, NEW p \in Peers \cup {NoPeer}
  PROVE  [d EXCEPT !.tags = t, !.pinned = p] \in Struct
<1>1. d \in Domain
  BY DEF Struct
<1>2. [d EXCEPT !.tags = t, !.pinned = p] \in Domain
  BY <1>1 DEF Domain
<1>3. [d EXCEPT !.tags = t, !.pinned = p].val = d.val
  BY <1>1 DEF Domain
<1>4. QED
  BY <1>2, <1>3 DEF Struct

-----------------------------------------------------------------------------
\* The two kinds of step: a client changes its list, a call goes on.

LEMMA HeldStep ==
  ASSUME IInv, NEW c \in Clients, job[c].phase = "idle", UNCHANGED job,
         NEW s \in Seq(Struct), NEW q \in Seq(Row), Len(s) = Len(q), Len(s) =< MaxBulk,
         held' = [held EXCEPT ![c] = s], read' = [read EXCEPT ![c] = q]
  PROVE  HeldOK' /\ JobsOK'
<1>1. HeldOK'
  BY DEF IInv, HeldOK
<1>2. Matches(job[c], s)
  BY DEF IInv, JobsOK, Matches
<1>3. \A x \in Clients : Matches(job[x], held'[x])
  BY <1>2 DEF IInv, JobsOK, HeldOK
<1>4. QED
  BY <1>1, <1>3 DEF IInv, JobsOK

LEMMA JobStep ==
  ASSUME IInv, NEW c \in Clients, NEW j \in Job, Matches(j, held[c]),
         job' = [job EXCEPT ![c] = j], UNCHANGED <<held, read>>
  PROVE  HeldOK' /\ JobsOK'
BY DEF IInv, HeldOK, JobsOK

LEMMA IdleFacts == Idle \in Job /\ \A h \in Seq(Struct) : Matches(Idle, h)
BY ConfigType DEF Idle, Job, Matches

\* The rows a bulk of creates makes.
LEMMA InsertedFacts ==
  ASSUME RowsOK, NEW bs \in Seq(Builder), lastID + Len(bs) =< MaxRows,
         \A k \in DOMAIN bs : Created(bs[k]) \in FullRow,
         db' = Inserted(bs), lastID' = lastID + Len(bs)
  PROVE  RowsOK' /\ DOMAIN db \subseteq DOMAIN db' /\ \A i \in DOMAIN db : db'[i] = db[i]
<1>1. DOMAIN bs = 1 .. Len(bs) /\ Len(bs) \in Nat /\ lastID \in Nat /\ MaxRows \in Nat
  BY DomainAssumption DEF RowsOK
<1>2. DOMAIN db' = DOMAIN db \cup {lastID + k : k \in DOMAIN bs}
  BY DEF Inserted
<1>3. \A i \in DOMAIN db : db'[i] = db[i]
  BY <1>2 DEF Inserted
<1>4. \A i \in DOMAIN db' : db'[i] \in FullRow
  <2> SUFFICES ASSUME NEW i \in DOMAIN db' PROVE db'[i] \in FullRow
    OBVIOUS
  <2>1. CASE i \in DOMAIN db
    BY <1>3, <2>1 DEF RowsOK
  <2>2. CASE i \notin DOMAIN db
    <3>1. PICK k \in DOMAIN bs : i = lastID + k
      BY <1>2, <2>2
    <3>2. i - lastID = k
      BY <1>1, <3>1
    <3>3. db'[i] = Created(bs[k])
      BY <2>2, <3>2 DEF Inserted
    <3>4. QED
      BY <3>3
  <2>3. QED
    BY <2>1, <2>2
<1>5. db' = [i \in DOMAIN db' |-> db'[i]]
  BY <1>2 DEF Inserted
<1>6. db' \in [DOMAIN db' -> FullRow]
  BY <1>4, <1>5
<1>7. \A k \in DOMAIN bs : lastID + k \in 1 .. lastID + Len(bs)
  BY <1>1
<1>8. DOMAIN db' \subseteq 1 .. lastID'
  BY <1>1, <1>2, <1>7 DEF RowsOK
<1>9. lastID' \in 0 .. MaxRows
  BY <1>1
<1>10. QED
  BY <1>2, <1>3, <1>6, <1>8, <1>9 DEF RowsOK

\* Every row of an update that some builder reaches.
LEMMA RowsUpdated ==
  ASSUME RowsOK, NEW cfg \in Cfg, NEW d \in Struct,
         NEW b \in {UpdateBuilder(cfg, d), UpsertBuilder(cfg, d)}, NEW S,
         db' = [i \in DOMAIN db |-> IF i \in S THEN Updated(db[i], b) ELSE db[i]],
         lastID' = lastID
  PROVE  /\ RowsOK' /\ DOMAIN db' = DOMAIN db
         /\ \A i \in DOMAIN db, f \in Columns :
              f \in Immutable \/ ~InLists(cfg, f) => db'[i].val[f] = db[i].val[f]
<1>1. \A i \in DOMAIN db : db[i] \in FullRow
  BY DEF RowsOK
<1>2. \A i \in DOMAIN db :
        /\ Updated(db[i], b) \in FullRow
        /\ \A f \in Columns : f \in Immutable \/ ~InLists(cfg, f) =>
             Updated(db[i], b).val[f] = db[i].val[f]
  BY <1>1, UpdatedFacts
<1>3. db' \in [DOMAIN db -> FullRow]
  BY <1>1, <1>2
<1>4. QED
  BY <1>2, <1>3 DEF RowsOK

-----------------------------------------------------------------------------
\* The table in a step of each kind that writes it.

LEMMA SaveNextRows ==
  ASSUME IInv, NEW c \in Clients, SaveNext(c)
  PROVE  /\ RowsOK' /\ DOMAIN db' = DOMAIN db
         /\ \A i \in DOMAIN db, f \in Columns :
              f \in Immutable \/ ~InLists(job[c].cfg, f) => db'[i].val[f] = db[i].val[f]
<1> DEFINE k == job[c].saved + 1
           d == held[c][k]
           b == job[c].builders[k]
           cfg == job[c].cfg
<1>1. job[c] \in Job /\ Matches(job[c], held[c]) /\ held[c] \in Seq(Struct)
  BY DEF IInv, JobsOK, HeldOK
<1>2. job[c].saved \in Nat /\ job[c].builders \in Seq(Builder) /\ cfg \in Cfg
  BY <1>1 DEF Job
<1>3. k \in DOMAIN job[c].builders /\ k \in DOMAIN held[c]
  BY <1>1, <1>2 DEF SaveNext, Matches
<1>4. d \in Struct /\ b = UpdateBuilder(cfg, d)
  BY <1>1, <1>3 DEF SaveNext, Matches, BuilderOf
<1> HIDE DEF k, d, cfg
<1>5. CASE UNCHANGED db
  BY <1>5 DEF SaveNext, IInv, RowsOK
<1>6. CASE b.id \in DOMAIN db /\ db' = [db EXCEPT ![b.id] = Updated(@, b)]
  <2>1. db' = [i \in DOMAIN db |-> IF i \in {b.id} THEN Updated(db[i], b) ELSE db[i]]
    BY <1>6 DEF IInv, RowsOK
  <2>2. RowsOK /\ lastID' = lastID
    BY DEF SaveNext, IInv
  <2> HIDE DEF b
  <2>3. b \in {UpdateBuilder(cfg, d), UpsertBuilder(cfg, d)}
    BY <1>4
  <2> DEFINE S == {b.id}
  <2>4. db' = [i \in DOMAIN db |-> IF i \in S THEN Updated(db[i], b) ELSE db[i]]
    BY <2>1
  <2> HIDE DEF S
  <2>5. /\ RowsOK' /\ DOMAIN db' = DOMAIN db
        /\ \A i \in DOMAIN db, f \in Columns :
             f \in Immutable \/ ~InLists(cfg, f) => db'[i].val[f] = db[i].val[f]
    BY <1>2, <1>4, <2>2, <2>3, <2>4, RowsUpdated
  <2>6. QED
    BY <2>5 DEF cfg
<1>7. QED
  BY <1>5, <1>6 DEF SaveNext, k

LEMMA UpdateWhereRows ==
  ASSUME IInv, NEW c \in Clients, NEW cfg \in Configs, NEW f \in Columns, NEW v \in Values,
         UpdateWhere(c, cfg, f, v)
  PROVE  /\ RowsOK' /\ DOMAIN db' = DOMAIN db
         /\ \A i \in DOMAIN db, g \in Columns :
              g \in Immutable \/ ~InLists(cfg, g) => db'[i].val[g] = db[i].val[g]
<1> DEFINE S == {i \in DOMAIN db : db[i].val[f] = v}
           d == held[c][1]
<1>1. d \in Struct /\ cfg \in Cfg
  BY ConfigType DEF UpdateWhere, IInv, HeldOK
<1>2. /\ RowsOK /\ lastID' = lastID
      /\ db' = [i \in DOMAIN db |-> IF i \in S THEN Updated(db[i], UpdateBuilder(cfg, d)) ELSE db[i]]
  BY DEF UpdateWhere, IInv
<1> HIDE DEF S, d
<1>3. QED
  BY <1>1, <1>2, RowsUpdated

LEMMA UpsertRows ==
  ASSUME IInv, NEW c \in Clients, NEW cfg \in Configs, Upsert(c, cfg)
  PROVE  /\ RowsOK' /\ DOMAIN db \subseteq DOMAIN db'
         /\ \A i \in DOMAIN db, g \in Columns :
              g \in Immutable \/ ~InLists(cfg, g) => db'[i].val[g] = db[i].val[g]
<1> DEFINE d == held[c][1]
           b == CreateBuilder(cfg, d)
           taken == {i \in DOMAIN db : db[i].val[Key] = d.val[Key]}
<1>1. d \in Struct /\ cfg \in Cfg
  BY ConfigType DEF Upsert, IInv, HeldOK
<1>2. RowsOK /\ lastID \in Nat /\ MaxRows \in Nat
  BY DomainAssumption DEF IInv, RowsOK
<1>3. CASE /\ lastID' = lastID
           /\ db' = [i \in DOMAIN db |->
                       IF i \in taken THEN Updated(db[i], UpsertBuilder(cfg, d)) ELSE db[i]]
  <2> HIDE DEF taken, d
  <2>1. QED
    BY <1>1, <1>2, <1>3, RowsUpdated
<1>4. CASE lastID < MaxRows /\ db' = Inserted(<<b>>) /\ lastID' = lastID + 1
  <2>1. b \in Builder
    BY <1>1 DEF Builder, BuilderOf
  <2>2. Created(b) \in FullRow
    BY <1>1, CreatedFacts DEF Upsert
  <2> HIDE DEF b
  <2> DEFINE bs == <<b>>
  <2>3. bs \in Seq(Builder) /\ Len(bs) = 1 /\ \A k \in DOMAIN bs : bs[k] = b
    BY <2>1
  <2>4. db' = Inserted(bs) /\ lastID' = lastID + Len(bs) /\ lastID + Len(bs) =< MaxRows
    BY <1>2, <1>4, <2>3
  <2>5. \A k \in DOMAIN bs : Created(bs[k]) \in FullRow
    BY <2>2, <2>3
  <2> HIDE DEF bs
  <2>6. RowsOK' /\ DOMAIN db \subseteq DOMAIN db' /\ \A i \in DOMAIN db : db'[i] = db[i]
    BY <1>2, <2>3, <2>4, <2>5, InsertedFacts
  <2>7. QED
    BY <2>6
<1>5. QED
  BY <1>3, <1>4 DEF Upsert

LEMMA SaveAllRows ==
  ASSUME IInv, NEW c \in Clients, SaveAll(c)
  PROVE  RowsOK' /\ DOMAIN db \subseteq DOMAIN db' /\ \A i \in DOMAIN db : db'[i] = db[i]
<1> DEFINE bs == job[c].builders
<1>1. job[c] \in Job /\ Matches(job[c], held[c]) /\ held[c] \in Seq(Struct) /\ RowsOK
  BY DEF IInv, JobsOK, HeldOK
<1>2. bs \in Seq(Builder) /\ job[c].cfg \in Cfg
  BY <1>1 DEF Job
<1>3. \A k \in DOMAIN bs : k \in DOMAIN held[c] /\ bs[k] = CreateBuilder(job[c].cfg, held[c][k])
  BY <1>1, <1>2 DEF SaveAll, Matches, BuilderOf
<1>4. CASE UNCHANGED <<db, lastID>>
  BY <1>1, <1>4 DEF RowsOK
<1>5. CASE /\ \A k \in DOMAIN bs : Creatable(bs[k], Without(Inserted(bs), lastID + k))
           /\ lastID + Len(bs) =< MaxRows
           /\ db' = Inserted(bs) /\ lastID' = lastID + Len(bs)
  <2>1. \A k \in DOMAIN bs : Created(bs[k]) \in FullRow
    <3> SUFFICES ASSUME NEW k \in DOMAIN bs PROVE Created(bs[k]) \in FullRow
      OBVIOUS
    <3> DEFINE d == held[c][k]
    <3>1. d \in Struct /\ bs[k] = CreateBuilder(job[c].cfg, d)
      BY <1>1, <1>3
    <3>2. Creatable(bs[k], Without(Inserted(bs), lastID + k))
      BY <1>5
    <3> HIDE DEF d, bs
    <3>3. QED
      BY <1>2, <3>1, <3>2, CreatedFacts
  <2> HIDE DEF bs
  <2>2. QED
    BY <1>1, <1>2, <1>5, <2>1, InsertedFacts
<1>6. QED
  BY <1>4, <1>5 DEF SaveAll

-----------------------------------------------------------------------------
\* The inductive invariant.

LEMMA InitInv == Init => IInv
<1> SUFFICES ASSUME Init PROVE IInv
  OBVIOUS
<1>1. RowsOK
  BY DomainAssumption DEF Init, RowsOK
<1>2. HeldOK
  BY DomainAssumption DEF Init, HeldOK
<1>3. JobsOK
  <2>1. job = [c \in Clients |-> Idle] /\ \A c \in Clients : held[c] = <<>>
    BY DEF Init
  <2> DEFINE none == <<>>
  <2>2. none \in Seq(Struct) /\ \A c \in Clients : held[c] = none
    BY <2>1
  <2> HIDE DEF none
  <2>3. Matches(Idle, none) /\ Idle \in Job
    BY <2>2, IdleFacts
  <2>4. QED
    BY <2>1, <2>2, <2>3 DEF JobsOK
<1>4. CountsOK
  BY DomainAssumption DEF Init, CountsOK
<1>5. QED
  BY <1>1, <1>2, <1>3, <1>4 DEF IInv

LEMMA SameRows == ASSUME RowsOK, UNCHANGED <<db, lastID>> PROVE RowsOK'
BY DEF RowsOK

\* A step in which a client changes its list.
LEMMA HeldSteps ==
  ASSUME IInv, NEW c \in Clients,
         \/ \E i \in Ids, eager \in BOOLEAN : Load(c, i, eager)
         \/ Compose(c) \/ Forget(c)
         \/ \E k \in DOMAIN held[c], f \in Columns, v \in Values \cup {Null} : EditColumn(c, k, f, v)
         \/ \E k \in DOMAIN held[c], t \in SUBSET Peers, p \in Peers \cup {NoPeer} : EditEdges(c, k, t, p)
  PROVE  IInv'
<1>1. /\ held[c] \in Seq(Struct) /\ read[c] \in Seq(Row) /\ Len(held[c]) = Len(read[c])
      /\ Len(held[c]) =< MaxBulk /\ MaxBulk \in Nat /\ MaxEdits \in Nat
      /\ held \in [Clients -> Seq(Struct)] /\ read \in [Clients -> Seq(Row)]
  BY DomainAssumption DEF IInv, HeldOK
<1>2. Keep(c) /\ job[c].phase = "idle" /\ UNCHANGED <<db, lastID, job, jobs>>
  BY DEF Load, Compose, Forget, EditColumn, EditEdges, Keep
<1>3. RowsOK'
  BY <1>2, SameRows DEF IInv
<1>4. CountsOK'
  <2>1. edits' = edits \/ (edits < MaxEdits /\ edits' = edits + 1)
    BY DEF Load, Compose, Forget, EditColumn, EditEdges
  <2>2. QED
    BY <1>1, <1>2, <2>1 DEF IInv, CountsOK
<1>5. ASSUME NEW s \in Seq(Struct), NEW q \in Seq(Row), Len(s) = Len(q), Len(s) =< MaxBulk,
             held' = [held EXCEPT ![c] = s], read' = [read EXCEPT ![c] = q]
      PROVE  HeldOK' /\ JobsOK'
  BY <1>2, <1>5, HeldStep
<1>6. ASSUME NEW i \in Ids, NEW eager \in BOOLEAN, Load(c, i, eager) PROVE HeldOK' /\ JobsOK'
  <2>1. db[i] \in FullRow /\ db[i] \in Row
    BY <1>6 DEF Load, IInv, RowsOK, FullRow
  <2> DEFINE d == ToDomain(i, db[i], eager)
  <2>2. d \in Struct
    BY <2>1, LoadedFacts
  <2>3. held' = [held EXCEPT ![c] = Append(held[c], d)] /\ read' = [read EXCEPT ![c] = Append(read[c], db[i])]
        /\ Len(held[c]) < MaxBulk
    BY <1>6 DEF Load
  <2> HIDE DEF d
  <2> DEFINE s == Append(held[c], d)
             q == Append(read[c], db[i])
  <2>4. s \in Seq(Struct) /\ q \in Seq(Row) /\ Len(s) = Len(q) /\ Len(s) =< MaxBulk
    BY <1>1, <2>1, <2>2, <2>3
  <2>5. held' = [held EXCEPT ![c] = s] /\ read' = [read EXCEPT ![c] = q]
    BY <2>3
  <2> HIDE DEF s, q
  <2>6. QED
    BY <1>5, <2>4, <2>5
<1>7. ASSUME Compose(c) PROVE HeldOK' /\ JobsOK'
  <2> DEFINE r == Created([set |-> <<>>, add |-> {}])
  <2>1. r = [val |-> [f \in Columns |-> IF f \in DOMAIN <<>> THEN <<>>[f] ELSE Null],
             tags |-> {}, pinned |-> NoPeer]
    BY DEF Created
  <2>2. r \in Row
    BY <2>1 DEF Row
  <2>3. held' = [held EXCEPT ![c] = Append(held[c], EmptyDomain)] /\ read' = [read EXCEPT ![c] = Append(read[c], r)]
        /\ Len(held[c]) < MaxBulk
    BY <1>7 DEF Compose
  <2> HIDE DEF r
  <2> DEFINE s == Append(held[c], EmptyDomain)
             q == Append(read[c], r)
  <2>4. s \in Seq(Struct) /\ q \in Seq(Row) /\ Len(s) = Len(q) /\ Len(s) =< MaxBulk
    BY <1>1, <2>2, <2>3, EmptyFacts
  <2>5. held' = [held EXCEPT ![c] = s] /\ read' = [read EXCEPT ![c] = q]
    BY <2>3
  <2> HIDE DEF s, q
  <2>6. QED
    BY <1>5, <2>4, <2>5
<1>8. ASSUME Forget(c) PROVE HeldOK' /\ JobsOK'
  <2>1. held' = [held EXCEPT ![c] = <<>>] /\ read' = [read EXCEPT ![c] = <<>>]
    BY <1>8 DEF Forget
  <2> DEFINE s == <<>>
  <2>2. s \in Seq(Struct) /\ s \in Seq(Row) /\ Len(s) =< MaxBulk
    BY <1>1
  <2>3. held' = [held EXCEPT ![c] = s] /\ read' = [read EXCEPT ![c] = s]
    BY <2>1
  <2> HIDE DEF s
  <2>4. QED
    BY <1>5, <2>2, <2>3
<1>9. ASSUME NEW k \in DOMAIN held[c], NEW d \in Struct,
             held' = [held EXCEPT ![c][k] = d], UNCHANGED read
      PROVE  HeldOK' /\ JobsOK'
  <2> DEFINE s == [held[c] EXCEPT ![k] = d]
  <2>1. s \in Seq(Struct) /\ Len(s) = Len(held[c])
    BY <1>1
  <2>2. held' = [held EXCEPT ![c] = s] /\ read' = [read EXCEPT ![c] = read[c]]
    BY <1>1, <1>9
  <2> HIDE DEF s
  <2>3. QED
    BY <1>1, <1>5, <2>1, <2>2
<1>10. ASSUME NEW k \in DOMAIN held[c], NEW f \in Columns, NEW v \in Values \cup {Null},
              EditColumn(c, k, f, v)
       PROVE  HeldOK' /\ JobsOK'
  <2> DEFINE d == [held[c][k] EXCEPT !.val[f] = v]
  <2>1. held[c][k] \in Struct
    BY <1>1
  <2>2. d \in Struct
    BY <1>10, <2>1, EditedColumn DEF EditColumn
  <2>3. held' = [held EXCEPT ![c][k] = d] /\ UNCHANGED read
    BY <1>10 DEF EditColumn
  <2> HIDE DEF d
  <2>4. QED
    BY <1>9, <2>2, <2>3
<1>11. ASSUME NEW k \in DOMAIN held[c], NEW t \in SUBSET Peers, NEW p \in Peers \cup {NoPeer},
              EditEdges(c, k, t, p)
       PROVE  HeldOK' /\ JobsOK'
  <2> DEFINE d == [held[c][k] EXCEPT !.tags = t, !.pinned = p]
  <2>1. held[c][k] \in Struct
    BY <1>1
  <2>2. d \in Struct
    BY <2>1, EditedEdges
  <2>3. held' = [held EXCEPT ![c][k] = d] /\ UNCHANGED read
    BY <1>11 DEF EditEdges
  <2> HIDE DEF d
  <2>4. QED
    BY <1>9, <2>2, <2>3
<1>12. HeldOK' /\ JobsOK'
  BY <1>6, <1>7, <1>8, <1>10, <1>11
<1>13. QED
  BY <1>3, <1>4, <1>12 DEF IInv

-----------------------------------------------------------------------------
\* A step in which a call starts, goes on or ends.

LEMMA JobFacts ==
  ASSUME NEW j \in Job
  PROVE  /\ j.phase \in {"idle", "building", "saving"} /\ j.how \in {"", "create", "update"}
         /\ j.cfg \in Cfg /\ j.builders \in Seq(Builder) /\ j.saved \in Nat
         /\ Len(j.builders) \in Nat /\ DOMAIN j.builders = 1 .. Len(j.builders)
<1>1. /\ j.phase \in {"idle", "building", "saving"} /\ j.how \in {"", "create", "update"}
      /\ j.cfg \in Cfg /\ j.builders \in Seq(Builder) /\ j.saved \in Nat
  BY DEF Job
<1> DEFINE bs == j.builders
<1>2. bs \in Seq(Builder)
  BY <1>1
<1> HIDE DEF bs
<1>3. Len(bs) \in Nat /\ DOMAIN bs = 1 .. Len(bs)
  BY <1>2
<1>4. QED
  BY <1>1, <1>3 DEF bs

LEMMA CallFacts ==
  ASSUME IInv, NEW c \in Clients
  PROVE  /\ job \in [Clients -> Job] /\ job[c] \in Job /\ Matches(job[c], held[c])
         /\ held[c] \in Seq(Struct) /\ RowsOK
BY DEF IInv, HeldOK, JobsOK

LEMMA EndOfCall ==
  ASSUME IInv, NEW c \in Clients, job' = [job EXCEPT ![c] = Idle], UNCHANGED <<held, read>>
  PROVE  HeldOK' /\ JobsOK'
BY IdleFacts, CallFacts, JobStep

LEMMA BulkDomainJob ==
  ASSUME IInv, NEW c \in Clients, NEW how \in {"create", "update"}, NEW cfg \in Configs,
         BulkDomain(c, how, cfg)
  PROVE  HeldOK' /\ JobsOK'
<1> DEFINE none == <<>>
           j == [phase |-> "building", how |-> how, cfg |-> cfg, builders |-> none, saved |-> 0]
<1>1. job' = [job EXCEPT ![c] = j] /\ UNCHANGED <<held, read>>
  BY DEF BulkDomain
<1>2. none \in Seq(Builder) /\ Len(none) = 0 /\ DOMAIN none = {}
  OBVIOUS
<1>3. cfg \in Cfg /\ Len(held[c]) \in Nat
  BY ConfigType, CallFacts
<1> HIDE DEF none
<1>4. j \in Job
  BY <1>2, <1>3 DEF Job
<1>5. Matches(j, held[c])
  BY <1>2, <1>3 DEF Matches
<1> HIDE DEF j
<1>6. QED
  BY <1>1, <1>4, <1>5, JobStep

LEMMA NextElement ==
  ASSUME NEW S, NEW s \in Seq(S), NEW n \in Nat, n < Len(s)
  PROVE  n + 1 \in DOMAIN s /\ s[n + 1] \in S /\ n + 1 =< Len(s)
OBVIOUS

LEMMA Appended ==
  ASSUME NEW S, NEW s \in Seq(S), NEW e \in S
  PROVE  /\ Append(s, e) \in Seq(S) /\ Len(Append(s, e)) = Len(s) + 1
         /\ DOMAIN Append(s, e) = 1 .. Len(s) + 1 /\ Append(s, e)[Len(s) + 1] = e
         /\ \A k \in 1 .. Len(s) : Append(s, e)[k] = s[k]
OBVIOUS

LEMMA ApplyDomainJob ==
  ASSUME IInv, NEW c \in Clients, ApplyDomain(c)
  PROVE  HeldOK' /\ JobsOK'
<1> DEFINE x == job[c]
           h == held[c]
           n == Len(x.builders)
           d == h[n + 1]
           b == BuilderOf(x.how, x.cfg, d)
           bs == Append(x.builders, b)
           j == [x EXCEPT !.builders = bs]
<1>1. x \in Job /\ Matches(x, h) /\ h \in Seq(Struct) /\ job \in [Clients -> Job]
  BY CallFacts
<1>2. x.phase = "building" /\ n < Len(h) /\ UNCHANGED <<held, read>>
  BY DEF ApplyDomain, Building
<1>3. job' = [job EXCEPT ![c] = j]
  BY <1>1 DEF ApplyDomain, BuilderOf, Current
<1> HIDE DEF x, h
<1>4. /\ x.builders \in Seq(Builder) /\ n \in Nat /\ x.cfg \in Cfg /\ x.saved \in Nat
      /\ x.how \in {"", "create", "update"} /\ DOMAIN x.builders = 1 .. n
  BY <1>1, JobFacts
<1>5. n + 1 =< Len(h) /\ d \in Struct
  <2>1. h \in Seq(Struct) /\ n \in Nat /\ n < Len(h)
    BY <1>1, <1>2, <1>4
  <2> HIDE DEF n
  <2>2. QED
    BY <2>1, NextElement
<1>6. \A k \in 1 .. n : x.builders[k] = BuilderOf(x.how, x.cfg, h[k])
  BY <1>1, <1>4 DEF Matches
<1>7. n + 1 =< Len(h) /\ x.saved =< n + 1
  <2>1. x.saved =< n /\ x.saved \in Nat /\ n \in Nat /\ n + 1 =< Len(h)
    BY <1>1, <1>4, <1>5 DEF Matches
  <2> HIDE DEF n
  <2>2. QED
    BY <2>1
<1>8. b \in Builder
  <2> DEFINE how == IF x.how = "create" THEN "create" ELSE "update"
  <2>1. b = BuilderOf(how, x.cfg, d) /\ how \in {"create", "update"}
    BY DEF BuilderOf
  <2>2. x.cfg \in Cfg /\ d \in Struct
    BY <1>4, <1>5
  <2> HIDE DEF how, b, d
  <2>3. QED
    BY <2>1, <2>2 DEF Builder
<1> HIDE DEF b
<1>9. /\ bs \in Seq(Builder) /\ Len(bs) = n + 1 /\ DOMAIN bs = 1 .. n + 1
      /\ bs[n + 1] = b /\ \A k \in 1 .. n : bs[k] = x.builders[k]
  <2> DEFINE s == x.builders
  <2>1. s \in Seq(Builder)
    BY <1>4
  <2> HIDE DEF s
  <2>2. /\ Append(s, b) \in Seq(Builder) /\ Len(Append(s, b)) = Len(s) + 1
        /\ DOMAIN Append(s, b) = 1 .. Len(s) + 1 /\ Append(s, b)[Len(s) + 1] = b
        /\ \A k \in 1 .. Len(s) : Append(s, b)[k] = s[k]
    BY <1>8, <2>1, Appended
  <2>3. QED
    BY <2>2, Zenon DEF s
<1>n. n \in Nat
  BY <1>4
<1> HIDE DEF bs, n
<1>10. /\ j \in Job /\ j.phase = x.phase /\ j.how = x.how /\ j.cfg = x.cfg
       /\ j.saved = x.saved /\ j.builders = bs
  BY <1>1, <1>9 DEF Job
<1> HIDE DEF j
<1>11. \A k \in 1 .. n + 1 : bs[k] = BuilderOf(x.how, x.cfg, h[k])
  <2> SUFFICES ASSUME NEW k \in 1 .. n + 1 PROVE bs[k] = BuilderOf(x.how, x.cfg, h[k])
    OBVIOUS
  <2>1. CASE k = n + 1
    BY <1>9, <2>1 DEF b, d
  <2>2. CASE k \in 1 .. n
    BY <1>6, <1>9, <2>2
  <2>3. QED
    BY <1>n, <2>1, <2>2
<1>12. Matches(j, h)
  BY <1>2, <1>7, <1>9, <1>10, <1>11 DEF Matches
<1>13. QED
  BY <1>2, <1>3, <1>10, <1>12, JobStep DEF h

LEMMA ReturnJob ==
  ASSUME IInv, NEW c \in Clients, Return(c)
  PROVE  HeldOK' /\ JobsOK'
<1> DEFINE x == job[c]
           j == [x EXCEPT !.phase = "saving"]
<1>1. x \in Job /\ Matches(x, held[c]) /\ held[c] \in Seq(Struct) /\ job \in [Clients -> Job]
  BY CallFacts
<1>2. job' = [job EXCEPT ![c] = j] /\ UNCHANGED <<held, read>>
  BY <1>1 DEF Return
<1>3. x.phase = "building" /\ ~(Len(x.builders) < Len(held[c]))
  BY DEF Return, Building
<1> HIDE DEF x
<1>4. /\ j \in Job /\ j.phase = "saving" /\ j.how = x.how /\ j.cfg = x.cfg
      /\ j.saved = x.saved /\ j.builders = x.builders
  BY <1>1 DEF Job
<1>5. Len(x.builders) = Len(held[c])
  <2>1. Len(x.builders) =< Len(held[c])
    BY <1>1 DEF Matches
  <2>2. Len(x.builders) \in Nat
    BY <1>1, JobFacts
  <2>3. Len(held[c]) \in Nat
    BY <1>1
  <2>4. QED
    BY <1>3, <2>1, <2>2, <2>3
<1> HIDE DEF j
<1>6. Matches(j, held[c])
  BY <1>1, <1>4, <1>5 DEF Matches
<1>7. QED
  BY <1>2, <1>4, <1>6, JobStep

LEMMA SaveNextJob ==
  ASSUME IInv, NEW c \in Clients, SaveNext(c)
  PROVE  HeldOK' /\ JobsOK'
<1> DEFINE x == job[c]
           n == x.saved + 1
           j == [x EXCEPT !.saved = n]
<1>1. x \in Job /\ Matches(x, held[c]) /\ held[c] \in Seq(Struct) /\ job \in [Clients -> Job]
  BY CallFacts
<1>2. x.phase = "saving" /\ x.saved < Len(x.builders) /\ UNCHANGED <<held, read>>
  BY DEF SaveNext
<1>3. CASE job' = [job EXCEPT ![c] = Idle]
  BY <1>2, <1>3, EndOfCall
<1>4. CASE job' = [job EXCEPT ![c].saved = @ + 1]
  <2>1. job' = [job EXCEPT ![c] = j]
    BY <1>1, <1>4
  <2> HIDE DEF x
  <2>2. n \in Nat /\ n =< Len(x.builders)
    <3>1. x.saved \in Nat /\ Len(x.builders) \in Nat
      BY <1>1, JobFacts
    <3>2. QED
      BY <1>2, <3>1
  <2> HIDE DEF n
  <2>3. /\ j \in Job /\ j.phase = "saving" /\ j.how = x.how /\ j.cfg = x.cfg
        /\ j.saved = n /\ j.builders = x.builders
    BY <1>1, <1>2, <2>2 DEF Job
  <2> HIDE DEF j
  <2>4. Matches(j, held[c])
    BY <1>1, <1>2, <2>2, <2>3 DEF Matches
  <2>5. QED
    BY <1>2, <2>1, <2>3, <2>4, JobStep
<1>5. QED
  BY <1>3, <1>4 DEF SaveNext

LEMMA JobSteps ==
  ASSUME IInv, NEW c \in Clients,
         \/ \E how \in {"create", "update"}, cfg \in Configs : BulkDomain(c, how, cfg)
         \/ ApplyDomain(c) \/ TransformerFails(c) \/ Return(c)
         \/ SaveNext(c) \/ SaveEnds(c) \/ SaveAll(c)
  PROVE  IInv'
<1>1. HeldOK' /\ JobsOK'
  <2>1. CASE TransformerFails(c) \/ SaveEnds(c) \/ SaveAll(c)
    BY <2>1, EndOfCall DEF TransformerFails, SaveEnds, SaveAll
  <2>2. QED
    BY <2>1, BulkDomainJob, ApplyDomainJob, ReturnJob, SaveNextJob
<1>2. CountsOK'
  <2>1. UNCHANGED edits /\ (jobs' = jobs \/ (jobs < MaxJobs /\ jobs' = jobs + 1))
    BY DEF BulkDomain, Start, ApplyDomain, TransformerFails, Return, SaveNext, SaveEnds, SaveAll
  <2>2. QED
    BY <2>1, DomainAssumption DEF IInv, CountsOK
<1>3. RowsOK'
  <2>1. CASE SaveNext(c) \/ SaveAll(c)
    BY <2>1, SaveNextRows, SaveAllRows
  <2>2. CASE ~SaveNext(c) /\ ~SaveAll(c)
    <3>1. UNCHANGED <<db, lastID>>
      BY <2>2 DEF BulkDomain, ApplyDomain, TransformerFails, Return, SaveEnds
    <3>2. QED
      BY <3>1, SameRows DEF IInv
  <2>3. QED
    BY <2>1, <2>2
<1>4. QED
  BY <1>1, <1>2, <1>3 DEF IInv

\* A step that only writes rows, or starts and ends a call in one.
LEMMA RowSteps ==
  ASSUME IInv,
         \/ \E c \in Clients, cfg \in Configs, f \in Columns, v \in Values : UpdateWhere(c, cfg, f, v)
         \/ \E c \in Clients, cfg \in Configs : Upsert(c, cfg)
         \/ \E i \in Ids : Delete(i) \/ \E p \in Peers : Pin(i, p)
         \/ UNCHANGED vars
  PROVE  IInv'
<1>1. UNCHANGED <<held, read, job, edits>> /\ (jobs' = jobs \/ (jobs < MaxJobs /\ jobs' = jobs + 1))
  BY DEF UpdateWhere, Start, Upsert, Delete, Pin, vars
<1>2. HeldOK' /\ JobsOK'
  BY <1>1 DEF IInv, HeldOK, JobsOK
<1>3. CountsOK'
  BY <1>1, DomainAssumption DEF IInv, CountsOK
<1>4. RowsOK'
  <2>1. CASE \E c \in Clients, cfg \in Configs, f \in Columns, v \in Values : UpdateWhere(c, cfg, f, v)
    BY <2>1, UpdateWhereRows
  <2>2. CASE \E c \in Clients, cfg \in Configs : Upsert(c, cfg)
    BY <2>2, UpsertRows
  <2>3. ASSUME NEW i \in Ids, Delete(i) PROVE RowsOK'
    BY <2>3 DEF Delete, Without, IInv, RowsOK
  <2>4. ASSUME NEW i \in Ids, NEW p \in Peers, Pin(i, p) PROVE RowsOK'
    <3> DEFINE r == [db[i] EXCEPT !.pinned = p]
    <3>1. db[i] \in FullRow /\ db' = [db EXCEPT ![i] = r] /\ lastID' = lastID
      BY <2>4 DEF Pin, IInv, RowsOK
    <3>2. r \in Row /\ r.val = db[i].val
      BY <3>1 DEF FullRow, Row
    <3>3. r \in FullRow
      BY <3>1, <3>2 DEF FullRow
    <3> HIDE DEF r
    <3>4. QED
      BY <3>1, <3>3 DEF IInv, RowsOK
  <2>5. CASE UNCHANGED vars
    BY <2>5, SameRows DEF vars, IInv
  <2>6. QED
    BY <2>1, <2>2, <2>3, <2>4, <2>5
<1>5. QED
  BY <1>2, <1>3, <1>4 DEF IInv

LEMMA NextInv == IInv /\ [Next]_vars => IInv'
BY HeldSteps, JobSteps, RowSteps DEF Next

\* Every call works on the structs it was made with, and every row keeps its
\* NOT NULL columns, whatever the clients do to each other's rows.
THEOREM Invariance == Spec => []IInv
BY InitInv, NextInv, PTL DEF Spec

-----------------------------------------------------------------------------
\* What the invariant says of a builder: it is the one of its struct.
LEMMA BuilderFacts ==
  ASSUME IInv, NEW c \in Clients, NEW k \in DOMAIN job[c].builders
  PROVE  /\ k \in DOMAIN held[c] /\ held[c][k] \in Struct /\ job[c].cfg \in Cfg
         /\ job[c].builders[k] = BuilderOf(job[c].how, job[c].cfg, held[c][k])
<1> DEFINE x == job[c]
           h == held[c]
<1>1. x \in Job /\ Matches(x, h) /\ h \in Seq(Struct)
  BY CallFacts
<1> HIDE DEF x, h
<1>2. Len(x.builders) \in Nat /\ DOMAIN x.builders = 1 .. Len(x.builders) /\ x.cfg \in Cfg
  BY <1>1, JobFacts
<1>3. k \in 1 .. Len(x.builders) /\ Len(x.builders) =< Len(h)
  BY <1>1, <1>2 DEF Matches, x
<1>4. k \in 1 .. Len(h)
  BY <1>1, <1>2, <1>3
<1>5. x.builders[k] = BuilderOf(x.how, x.cfg, h[k])
  BY <1>1, <1>2, <1>3 DEF Matches
<1>6. k \in DOMAIN h /\ h[k] \in Struct
  BY <1>1, <1>4
<1>7. QED
  BY <1>2, <1>5, <1>6 DEF x, h

\* The type invariant: no builder sets what is not a column, no list outgrows
\* the rows it was read from.
THEOREM TypeCorrect == Spec => []TypeOK
<1>1. IInv => TypeOK
  <2> SUFFICES ASSUME IInv PROVE TypeOK
    OBVIOUS
  <2>1. DOMAIN db \subseteq 1 .. lastID /\ lastID \in 0 .. MaxRows /\ \A i \in DOMAIN db : db[i] \in Row
    BY DEF IInv, RowsOK, FullRow
  <2>2. ASSUME NEW c \in Clients
        PROVE  /\ Len(held[c]) = Len(read[c]) /\ Len(held[c]) =< MaxBulk
               /\ \A k \in DOMAIN held[c] : held[c][k] \in Domain /\ read[c][k] \in Row
    <3>1. /\ held[c] \in Seq(Struct) /\ read[c] \in Seq(Row) /\ Len(held[c]) = Len(read[c])
          /\ Len(held[c]) =< MaxBulk
      BY DEF IInv, HeldOK
    <3>2. \A k \in DOMAIN held[c] : held[c][k] \in Struct /\ read[c][k] \in Row
      BY <3>1
    <3>3. QED
      BY <3>1, <3>2 DEF Struct
  <2>3. ASSUME NEW c \in Clients
        PROVE  /\ job[c].phase \in {"idle", "building", "saving"}
               /\ job[c].cfg \in ApplyConfig(Columns, {"tags"})
               /\ job[c].saved =< Len(job[c].builders) /\ Len(job[c].builders) =< Len(held[c])
    <3>1. job[c] \in Job /\ Matches(job[c], held[c])
      BY CallFacts
    <3>2. QED
      BY <3>1, JobFacts DEF Matches, Cfg
  <2>4. ASSUME NEW c \in Clients, NEW k \in DOMAIN job[c].builders
        PROVE  DOMAIN job[c].builders[k].set \subseteq Columns
    <3>1. /\ held[c][k] \in Struct /\ job[c].cfg \in Cfg
          /\ job[c].builders[k] = BuilderOf(job[c].how, job[c].cfg, held[c][k])
      BY BuilderFacts
    <3>2. \A S \in SUBSET Columns : DOMAIN Sets(job[c].cfg, held[c][k], S) \subseteq Columns
      BY <3>1, SetsFacts
    <3>3. QED
      BY <3>1, <3>2 DEF BuilderOf, CreateBuilder, UpdateBuilder
  <2>5. edits \in 0 .. MaxEdits /\ jobs \in 0 .. MaxJobs
    BY DEF IInv, CountsOK
  <2>6. QED
    BY <2>1, <2>2, <2>3, <2>4, <2>5 DEF TypeOK
<1>2. QED
  BY <1>1, Invariance, PTL

\* A bulk that a caller can save has one builder for every struct of the list,
\* in list order, whichever transformers failed before.
THEOREM BulksAreComplete == Spec => []BulkIsComplete
<1>1. IInv => BulkIsComplete
  <2> SUFFICES ASSUME IInv, NEW c \in Clients, job[c].phase = "saving"
               PROVE  /\ Len(job[c].builders) = Len(held[c])
                      /\ job[c].how = "update" =>
                           \A k \in DOMAIN held[c] : job[c].builders[k].id = held[c][k].ID
    BY DEF BulkIsComplete
  <2>1. job[c] \in Job /\ Matches(job[c], held[c]) /\ held[c] \in Seq(Struct)
    BY CallFacts
  <2>2. Len(job[c].builders) = Len(held[c])
    BY <2>1 DEF Matches
  <2>3. DOMAIN job[c].builders = 1 .. Len(job[c].builders)
    BY <2>1, JobFacts
  <2>4. DOMAIN held[c] = 1 .. Len(held[c])
    BY <2>1
  <2>5. DOMAIN job[c].builders = DOMAIN held[c]
    BY <2>2, <2>3, <2>4
  <2>6. ASSUME job[c].how = "update", NEW k \in DOMAIN held[c]
        PROVE  job[c].builders[k].id = held[c][k].ID
    <3>1. job[c].builders[k] = BuilderOf(job[c].how, job[c].cfg, held[c][k])
      BY <2>5, BuilderFacts
    <3>2. job[c].builders[k] = UpdateBuilder(job[c].cfg, held[c][k])
      BY <2>6, <3>1 DEF BuilderOf
    <3>3. QED
      BY <3>2 DEF UpdateBuilder
  <2>7. QED
    BY <2>2, <2>6
<1>2. QED
  BY <1>1, Invariance, PTL

\* An update changes no column its options leave out, for every list of options
\* and however stale the struct is.
THEOREM AllowlistsFrame == Spec => AllowlistFrames
<1> DEFINE A == \A c \in Clients, cfg \in Configs : UpdateStep(c, cfg) =>
                  \A i \in DOMAIN db, f \in Columns :
                    ~InLists(cfg, f) => db'[i].val[f] = db[i].val[f]
<1>1. IInv => A
  <2> SUFFICES ASSUME IInv, NEW c \in Clients, NEW cfg \in Configs, UpdateStep(c, cfg)
               PROVE  \A i \in DOMAIN db, f \in Columns :
                        ~InLists(cfg, f) => db'[i].val[f] = db[i].val[f]
    OBVIOUS
  <2>1. CASE SaveNext(c) /\ job[c].cfg = cfg
    BY <2>1, SaveNextRows
  <2>2. ASSUME NEW f \in Columns, NEW v \in Values, UpdateWhere(c, cfg, f, v)
        PROVE  \A i \in DOMAIN db, g \in Columns :
                 ~InLists(cfg, g) => db'[i].val[g] = db[i].val[g]
    BY <2>2, UpdateWhereRows
  <2>3. CASE Upsert(c, cfg)
    BY <2>3, UpsertRows
  <2>4. QED
    BY <2>1, <2>2, <2>3 DEF UpdateStep
<1>2. QED
  BY <1>1, Invariance, PTL DEF AllowlistFrames

\* A row keeps its immutable columns, for every set of columns and clients.
THEOREM ImmutablesKept == Spec => ImmutableKept
<1> DEFINE A == \A i \in DOMAIN db \cap DOMAIN db' :
                  \A f \in Immutable : db'[i].val[f] = db[i].val[f]
<1>1. IInv /\ [Next]_vars => [A]_vars
  <2> SUFFICES ASSUME IInv, Next
               PROVE  A
    OBVIOUS
  <2>1. Immutable \subseteq Columns
    BY DomainAssumption
  <2>2. CASE UNCHANGED db
    BY <2>2
  <2>3. ASSUME NEW c \in Clients, SaveNext(c) PROVE A
    BY <2>1, <2>3, SaveNextRows
  <2>4. ASSUME NEW c \in Clients, SaveAll(c) PROVE A
    BY <2>4, SaveAllRows
  <2>5. ASSUME NEW c \in Clients, NEW cfg \in Configs, NEW f \in Columns, NEW v \in Values,
               UpdateWhere(c, cfg, f, v)
        PROVE  A
    BY <2>1, <2>5, UpdateWhereRows
  <2>6. ASSUME NEW c \in Clients, NEW cfg \in Configs, Upsert(c, cfg) PROVE A
    BY <2>1, <2>6, UpsertRows
  <2>7. ASSUME NEW i \in Ids, Delete(i) PROVE A
    BY <2>7 DEF Delete, Without
  <2>8. ASSUME NEW i \in Ids, NEW p \in Peers, Pin(i, p) PROVE A
    <3>1. /\ i \in DOMAIN db /\ db[i] \in Row /\ db \in [DOMAIN db -> FullRow]
          /\ db' = [db EXCEPT ![i].pinned = p]
      BY <2>8 DEF Pin, IInv, RowsOK, FullRow
    <3>2. \A j \in DOMAIN db : db'[j].val = db[j].val
      BY <3>1 DEF Row
    <3>3. QED
      BY <3>1, <3>2
  <2>9. QED
    BY <2>2, <2>3, <2>4, <2>5, <2>6, <2>7, <2>8
       DEF Next, Load, Compose, Forget, EditColumn, EditEdges, Keep, BulkDomain, ApplyDomain,
           TransformerFails, Return, SaveEnds
<1>2. QED
  BY <1>1, Invariance, PTL DEF Spec, ImmutableKept

\* A struct that still is what its row was read as changes nothing but a NULL
\* that the struct cannot express.
LEMMA HarmlessUpdate ==
  ASSUME NEW cfg \in Cfg, NEW r \in FullRow, NEW d \in Struct, d.tags = r.tags,
         \A f \in Columns : d.val[f] = IF r.val[f] = Null /\ Kind[f] # "nillable" THEN Zero ELSE r.val[f]
  PROVE  LET u == Updated(r, UpdateBuilder(cfg, d)) IN
         /\ u.tags = r.tags /\ u.pinned = r.pinned
         /\ \A f \in Columns : u.val[f] # r.val[f] =>
              r.val[f] = Null /\ u.val[f] = Zero /\ Kind[f] \in {"optional", "json"}
<1> DEFINE b == UpdateBuilder(cfg, d)
           u == Updated(r, b)
           W == Written(cfg, d, Columns \ Immutable)
<1>1. /\ W \subseteq Columns /\ DOMAIN b.set = W
      /\ \A f \in W : b.set[f] = d.val[f]
  BY SetsFacts DEF UpdateBuilder
<1>2. b.add = r.tags
  BY DEF UpdateBuilder
<1>3. /\ u.tags = (IF b.clear THEN {} ELSE r.tags) \cup b.add /\ u.pinned = r.pinned
      /\ \A f \in Columns : u.val[f] = IF f \in DOMAIN b.set THEN b.set[f] ELSE r.val[f]
  <2> HIDE DEF b
  <2>1. QED
    BY DEF Updated
<1> HIDE DEF b, u, W
<1>4. u.tags = r.tags
  BY <1>2, <1>3
<1>5. ASSUME NEW f \in Columns, u.val[f] # r.val[f]
      PROVE  r.val[f] = Null /\ u.val[f] = Zero /\ Kind[f] \in {"optional", "json"}
  <2>1. f \in W /\ u.val[f] = d.val[f]
    BY <1>1, <1>3, <1>5
  <2>2. r.val[f] = Null /\ Kind[f] # "nillable" /\ u.val[f] = Zero
    BY <1>5, <2>1
  <2>3. Kind[f] # "plain"
    BY <2>2 DEF FullRow
  <2>4. QED
    BY <2>2, <2>3, DomainAssumption
<1>6. QED
  BY <1>3, <1>4, <1>5 DEF b, u

\* Only the save of a row counts rows as saved.
LEMMA SavedStep ==
  ASSUME IInv, Next, NEW c \in Clients, job'[c].saved = job[c].saved + 1
  PROVE  LET b == job[c].builders[job[c].saved + 1] IN
         SaveNext(c) /\ b.id \in DOMAIN db /\ db' = [db EXCEPT ![b.id] = Updated(@, b)]
<1>1. job \in [Clients -> Job] /\ job[c].saved \in Nat /\ Idle.saved = 0
  BY CallFacts, JobFacts DEF Idle
<1>2. job'[c].saved # job[c].saved /\ job'[c].saved # 0
  BY <1>1
<1>3. ASSUME NEW x \in Clients, NEW j, job' = [job EXCEPT ![x] = j]
      PROVE  x = c /\ j.saved = job[c].saved + 1
  BY <1>1, <1>2, <1>3
<1>4. job' # job
  BY <1>2
<1>5. ASSUME NEW x \in Clients, job' = [job EXCEPT ![x] = Idle] PROVE FALSE
  BY <1>1, <1>2, <1>3, <1>5
<1>6. ASSUME NEW x \in Clients, NEW how, NEW cfg, BulkDomain(x, how, cfg) PROVE FALSE
  <2> DEFINE j == [phase |-> "building", how |-> how, cfg |-> cfg, builders |-> <<>>, saved |-> 0]
  <2>1. job' = [job EXCEPT ![x] = j] /\ j.saved = 0
    BY <1>6 DEF BulkDomain
  <2> HIDE DEF j
  <2>2. 0 = job[c].saved + 1
    BY <1>3, <2>1
  <2>3. QED
    BY <1>1, <2>2
<1>7. ASSUME NEW x \in Clients, ApplyDomain(x) \/ Return(x) PROVE FALSE
  <2>1. job[x] \in Job
    BY CallFacts
  <2>2. PICK j : job' = [job EXCEPT ![x] = j] /\ j.saved = job[x].saved
    <3>1. CASE ApplyDomain(x)
      <4> DEFINE b == IF job[x].how = "create" THEN CreateBuilder(job[x].cfg, Current(x))
                      ELSE UpdateBuilder(job[x].cfg, Current(x))
                 j == [job[x] EXCEPT !.builders = Append(job[x].builders, b)]
      <4>1. job' = [job EXCEPT ![x] = j]
        BY <1>1, <3>1 DEF ApplyDomain
      <4>2. j.saved = job[x].saved
        BY <2>1 DEF Job
      <4> HIDE DEF j
      <4>3. QED
        BY <4>1, <4>2
    <3>2. CASE Return(x)
      <4> DEFINE j == [job[x] EXCEPT !.phase = "saving"]
      <4>1. job' = [job EXCEPT ![x] = j]
        BY <1>1, <3>2 DEF Return
      <4>2. j.saved = job[x].saved
        BY <2>1 DEF Job
      <4> HIDE DEF j
      <4>3. QED
        BY <4>1, <4>2
    <3>3. QED
      BY <1>7, <3>1, <3>2
  <2>3. job[c].saved = job[c].saved + 1
    BY <1>3, <2>2
  <2>4. QED
    BY <1>1, <2>3
<1>8. PICK x \in Clients : SaveNext(x)
  BY <1>4, <1>5, <1>6, <1>7
     DEF Next, Load, Compose, Forget, EditColumn, EditEdges, Keep, TransformerFails, SaveEnds,
         SaveAll, UpdateWhere, Upsert, Delete, Pin
<1>9. job' # [job EXCEPT ![x] = Idle]
  BY <1>5
<1>10. /\ job' = [job EXCEPT ![x].saved = @ + 1]
       /\ job[x].builders[job[x].saved + 1].id \in DOMAIN db
       /\ db' = [db EXCEPT ![job[x].builders[job[x].saved + 1].id] =
                   Updated(@, job[x].builders[job[x].saved + 1])]
  BY <1>8, <1>9 DEF SaveNext
<1>11. x = c
  BY <1>1, <1>2, <1>10
<1>12. QED
  BY <1>8, <1>10, <1>11

\* Saving what was read is harmless, for every kind of column, every list of
\* options and however many clients.
THEOREM UneditedIsHarmless == Spec => UneditedSaveIsHarmless
<1> DEFINE A == \A c \in Clients : job'[c].saved = job[c].saved + 1 =>
       LET k == job'[c].saved
           i == held[c][k].ID
       IN  held[c][k] = ToDomain(i, read[c][k], TRUE) /\ db[i] = read[c][k] =>
             /\ db'[i].tags = db[i].tags /\ db'[i].pinned = db[i].pinned
             /\ \A f \in Columns : db'[i].val[f] # db[i].val[f] =>
                  /\ db[i].val[f] = Null /\ db'[i].val[f] = Zero
                  /\ Kind[f] \in {"optional", "json"}
<1>1. IInv /\ [Next]_vars => [A]_vars
  <2> SUFFICES ASSUME IInv, Next, NEW c \in Clients, job'[c].saved = job[c].saved + 1
               PROVE  LET k == job'[c].saved
                          i == held[c][k].ID
                      IN  held[c][k] = ToDomain(i, read[c][k], TRUE) /\ db[i] = read[c][k] =>
                            /\ db'[i].tags = db[i].tags /\ db'[i].pinned = db[i].pinned
                            /\ \A f \in Columns : db'[i].val[f] # db[i].val[f] =>
                                 /\ db[i].val[f] = Null /\ db'[i].val[f] = Zero
                                 /\ Kind[f] \in {"optional", "json"}
    OBVIOUS
  <2> DEFINE k == job[c].saved + 1
             d == held[c][k]
             i == d.ID
             b == job[c].builders[k]
             cfg == job[c].cfg
  <2>1. SaveNext(c) /\ b.id \in DOMAIN db /\ db' = [db EXCEPT ![b.id] = Updated(@, b)]
    BY SavedStep
  <2>2. k \in DOMAIN job[c].builders
    <3>1. job[c].saved \in Nat /\ Len(job[c].builders) \in Nat /\ DOMAIN job[c].builders = 1 .. Len(job[c].builders)
      BY CallFacts, JobFacts
    <3>2. job[c].saved < Len(job[c].builders)
      BY <2>1 DEF SaveNext
    <3>3. QED
      BY <3>1, <3>2
  <2>3. cfg \in Cfg /\ b = UpdateBuilder(cfg, d)
    BY <2>1, <2>2, BuilderFacts DEF SaveNext, BuilderOf
  <2>4. b.id = i
    BY <2>3 DEF UpdateBuilder
  <2>5. i \in DOMAIN db /\ i \in Ids /\ db[i] \in FullRow /\ db'[i] = Updated(db[i], UpdateBuilder(cfg, d))
    <3> HIDE DEF i, b, d, cfg
    <3>1. i \in DOMAIN db /\ db' = [db EXCEPT ![i] = Updated(db[i], UpdateBuilder(cfg, d))]
      BY <2>1, <2>3, <2>4
    <3>2. db \in [DOMAIN db -> FullRow] /\ DOMAIN db \subseteq 1 .. lastID /\ lastID \in 0 .. MaxRows
      BY DEF IInv, RowsOK
    <3>3. i \in Ids
      BY <3>1, <3>2, DomainAssumption DEF Ids
    <3>4. QED
      BY <3>1, <3>2, <3>3
  <2>6. SUFFICES ASSUME d = ToDomain(i, db[i], TRUE)
                 PROVE  /\ db'[i].tags = db[i].tags /\ db'[i].pinned = db[i].pinned
                        /\ \A f \in Columns : db'[i].val[f] # db[i].val[f] =>
                             /\ db[i].val[f] = Null /\ db'[i].val[f] = Zero
                             /\ Kind[f] \in {"optional", "json"}
    OBVIOUS
  <2> DEFINE r == db[i]
  <2>7. cfg \in Cfg /\ r \in FullRow /\ d \in Struct
    BY <2>2, <2>3, <2>5, BuilderFacts
  <2>8. /\ d.tags = r.tags
        /\ \A f \in Columns : d.val[f] = IF r.val[f] = Null /\ Kind[f] # "nillable" THEN Zero ELSE r.val[f]
    <3> HIDE DEF d, i, r
    <3>1. d = ToDomain(i, r, TRUE)
      BY <2>6 DEF r
    <3>2. QED
      BY <3>1 DEF ToDomain
  <2>9. db'[i] = Updated(r, UpdateBuilder(cfg, d))
    BY <2>5
  <2> HIDE DEF i, d, cfg, b, r
  <2>10. LET u == Updated(r, UpdateBuilder(cfg, d)) IN
         /\ u.tags = r.tags /\ u.pinned = r.pinned
         /\ \A f \in Columns : u.val[f] # r.val[f] =>
              r.val[f] = Null /\ u.val[f] = Zero /\ Kind[f] \in {"optional", "json"}
    BY <2>7, <2>8, HarmlessUpdate
  <2>11. QED
    BY <2>9, <2>10 DEF r
<1>2. QED
  BY <1>1, Invariance, PTL DEF Spec, UneditedSaveIsHarmless
=============================================================================
