--------------------------- MODULE ProtoLockProofs ---------------------------
(***************************************************************************)
(* Theorems about ProtoLock, for every set of entities and names, every    *)
(* set of candidate lists and every bound on edits and faults.             *)
(***************************************************************************)
EXTENDS ProtoLock, FieldNumbersProofs

-----------------------------------------------------------------------------
\* Initial values and helper types.
LEMMA Constants ==
    /\ EmptyLock \in [Entity -> EntityLock]
    /\ NoMessages \in [Entity -> [Name -> Nat]]
    /\ MissingLockFile \in LockFile /\ TornLockFile \in LockFile
    /\ MissingProtoFile \in ProtoFile /\ TornProtoFile \in ProtoFile
<1>1. EmptyLock \in [Entity -> EntityLock]
  BY EmptyWellFormed DEF EmptyLock
<1>2. NoMessages \in [Entity -> [Name -> Nat]]
  BY DEF NoMessages
<1>3. QED
  BY <1>1, <1>2 DEF MissingLockFile, TornLockFile, LockFile, Status,
                    MissingProtoFile, TornProtoFile, ProtoFile

LEMMA AnnotatedList ==
    ASSUME NEW s \in [Entity -> FieldLists \cup {NotAnnotated}], NEW e \in Annotated(s)
    PROVE  e \in Entity /\ s[e] \in Seq(Name)
BY FieldListsAssumption DEF Annotated

LEMMA ExtendType ==
    ASSUME NEW h \in [Entity -> [Name -> SUBSET Nat]],
           NEW m \in [Entity -> [Name -> Nat]]
    PROVE  Extend(h, m) \in [Entity -> [Name -> SUBSET Nat]]
BY DEF Extend, NumberSet

-----------------------------------------------------------------------------
\* Allocation and the published history.

\* A record that agrees with what was published before an allocation agrees
\* with it afterwards: nothing is forgotten, nothing is given away.
LEMMA AllocateAgrees ==
    ASSUME NEW el \in EntityLock, NEW current \in Seq(Name), WellFormed(el),
           NEW h \in [Name -> SUBSET Nat], Agrees(el, h),
           \A f \in Name : 0 \notin h[f] /\ \A n \in h[f] : f = Id <=> n = 1
    PROVE  Agrees(AllocateFieldNumbers(el, current), h)
<1> DEFINE r == AllocateFieldNumbers(el, current)
<1>1. /\ el.reserved \subseteq r.reserved
      /\ \A f \in Name \ Listed(current) : r.fields[f] = 0
      /\ \A f \in Live(el) \ Listed(current) : el.fields[f] \in r.reserved
      /\ \A f \in Live(el) \cap Listed(current) : r.fields[f] = el.fields[f]
      /\ r \in EntityLock
  BY AllocateEffect
<1>2. \A f \in Listed(current) \ Live(el) :
         IF f = Id THEN r.fields[f] = 1
         ELSE \A n \in Numbers(el) : r.fields[f] > n
  BY AllocateEffect
<1> HIDE DEF r
<1> SUFFICES ASSUME NEW f \in Name, NEW n \in h[f]
             PROVE  /\ Remembers(r, f, n)
                    /\ \A g \in Live(r) : r.fields[g] = n => g = f
  BY DEF Agrees, r
<1>3. n \in Nat /\ n # 0 /\ (f = Id <=> n = 1)
  OBVIOUS
<1>4. Remembers(el, f, n) /\ \A g \in Live(el) : el.fields[g] = n => g = f
  BY DEF Agrees
<1>5. Remembers(r, f, n)
  <2>1. CASE n \in el.reserved
    BY <1>1, <2>1 DEF Remembers
  <2>2. CASE el.fields[f] = n
    BY <1>1, <1>3, <2>2 DEF Remembers, Live
  <2>3. QED
    BY <1>4, <2>1, <2>2 DEF Remembers
<1>6. ASSUME NEW g \in Live(r), r.fields[g] = n PROVE g = f
  <2>1. g \in Listed(current) /\ g \in Name
    BY <1>1 DEF Live
  <2>2. CASE g \in Live(el)
    BY <1>1, <1>4, <1>6, <2>1, <2>2
  <2>3. CASE g \notin Live(el) /\ g = Id
    BY <1>2, <1>3, <1>6, <2>1, <2>3
  <2>4. CASE g \notin Live(el) /\ g # Id
    <3>1. n \in Numbers(el)
      BY <1>4 DEF Remembers, Numbers
    <3>2. n > n
      BY <1>2, <1>6, <2>1, <2>4, <3>1
    <3>3. QED
      BY <1>3, <3>2
  <2>5. QED
    BY <2>2, <2>3, <2>4
<1>7. QED
  BY <1>5, <1>6

Part(h1, h2) == \A e \in Entity : \A f \in Name : h1[e][f] \subseteq h2[e][f]

\* What holds of a history holds of every part of it.
LEMMA PartOK ==
    ASSUME NEW h1, NEW h2, Part(h1, h2), HistoryOK(h2)
    PROVE  HistoryOK(h1)
BY DEF Part, HistoryOK, Unambiguous

LEMMA PartConsistent ==
    ASSUME NEW l, NEW h1, NEW h2, Part(h1, h2), Consistent(l, h2)
    PROVE  Consistent(l, h1)
<1>1. ASSUME NEW e \in Entity PROVE WellFormed(l[e]) /\ Agrees(l[e], h1[e])
  BY DEF Part, Consistent, Agrees
<1>2. QED
  BY <1>1 DEF Consistent

\* Publishing numbers that a consistent lock holds keeps both consistent.
LEMMA PublishConsistent ==
    ASSUME NEW l \in [Entity -> EntityLock], NEW h \in [Entity -> [Name -> SUBSET Nat]],
           NEW m \in [Entity -> [Name -> Nat]], HistoryOK(h), Consistent(l, h),
           \A e \in Entity : \A f \in Name : m[e][f] # 0 => m[e][f] = l[e].fields[f]
    PROVE  HistoryOK(Extend(h, m)) /\ Consistent(l, Extend(h, m))
<1> DEFINE x == Extend(h, m)
<1>1. \A e \in Entity : \A f \in Name :
         x[e][f] = h[e][f] \cup (IF m[e][f] = 0 THEN {} ELSE {l[e].fields[f]})
  BY DEF Extend, NumberSet
<1>2. \A e \in Entity : /\ l[e].fields \in [Name -> Nat]
                        /\ WellFormed(l[e]) /\ Agrees(l[e], h[e])
  BY DEF Consistent, EntityLock
<1> HIDE DEF x
<1>3. \A e \in Entity : \A f \in Name : m[e][f] # 0 => f \in Live(l[e])
  BY DEF Live
<1>4. ASSUME NEW e \in Entity, NEW f \in Name, NEW g \in Name, f # g
      PROVE  x[e][f] \cap x[e][g] = {}
  <2>1. h[e][f] \cap h[e][g] = {}
    BY <1>4 DEF HistoryOK, Unambiguous
  <2>2. m[e][f] # 0 => l[e].fields[f] \notin h[e][g]
    BY <1>2, <1>3, <1>4 DEF Agrees
  <2>3. m[e][g] # 0 => l[e].fields[g] \notin h[e][f]
    BY <1>2, <1>3, <1>4 DEF Agrees
  <2>4. m[e][f] # 0 /\ m[e][g] # 0 => l[e].fields[f] # l[e].fields[g]
    BY <1>2, <1>3, <1>4 DEF WellFormed, InjectiveFields
  <2>5. QED
    BY <1>1, <2>1, <2>2, <2>3, <2>4
<1>5. ASSUME NEW e \in Entity, NEW f \in Name
      PROVE  0 \notin x[e][f] /\ \A n \in x[e][f] : f = Id <=> n = 1
  <2>1. 0 \notin h[e][f] /\ \A n \in h[e][f] : f = Id <=> n = 1
    BY DEF HistoryOK
  <2>2. m[e][f] # 0 => /\ l[e].fields[f] # 0
                       /\ f = Id <=> l[e].fields[f] = 1
    BY <1>2, <1>3 DEF WellFormed, IdIsOne, Live
  <2>3. QED
    BY <1>1, <2>1, <2>2
<1>6. ASSUME NEW e \in Entity PROVE Agrees(l[e], x[e])
  <2> SUFFICES ASSUME NEW f \in Name, NEW n \in x[e][f]
               PROVE  /\ Remembers(l[e], f, n)
                      /\ \A g \in Live(l[e]) : l[e].fields[g] = n => g = f
    BY DEF Agrees
  <2>1. CASE n \in h[e][f]
    BY <1>2, <2>1 DEF Agrees
  <2>2. CASE m[e][f] # 0 /\ n = l[e].fields[f]
    BY <1>2, <1>3, <2>2 DEF WellFormed, InjectiveFields, Remembers
  <2>3. QED
    BY <1>1, <2>1, <2>2
<1>7. HistoryOK(x)
  BY <1>4, <1>5 DEF HistoryOK, Unambiguous
<1>8. Consistent(l, x)
  BY <1>2, <1>6 DEF Consistent
<1>9. QED
  BY <1>7, <1>8 DEF x

-----------------------------------------------------------------------------
\* Type correctness is not inductive alone: that the number after the
\* greatest one is a number needs the bound kept in WellFormed.
LEMMA TypeStep ==
    ASSUME TypeOK, IInv, [Next]_vars
    PROVE  TypeOK'
<1>1. CASE LoadLockFile
  BY <1>1, Constants DEF TypeOK, LoadLockFile, LockFile, repoVars, diskVars
<1>2. ASSUME NEW e \in Entity, BuildMessage(e) PROVE TypeOK'
  <2> DEFINE el == AllocateFieldNumbers(mem[e], input[e])
  <2>1. el \in [fields : [Name -> Nat], reserved : SUBSET Nat]
    <3>1. e \in Annotated(input) /\ mem[e] \in EntityLock /\ WellFormed(mem[e])
      BY <1>2 DEF TypeOK, IInv, Consistent, BuildMessage, Running
    <3>2. QED
      BY <3>1, AnnotatedList, AllocateType DEF TypeOK, EntityLock
  <2> HIDE DEF el
  <2>2. mem' = [mem EXCEPT ![e] = el] /\ msgs' = [msgs EXCEPT ![e] = Emitted(el, input[e])]
    BY <1>2 DEF BuildMessage, el
  <2>3. mem' \in [Entity -> EntityLock] /\ msgs' \in [Entity -> [Name -> Nat]]
    BY <2>1, <2>2 DEF TypeOK, EntityLock, Emitted
  <2>4. QED
    BY <1>2, <2>3 DEF TypeOK, BuildMessage, repoVars, diskVars
<1>3. CASE TruncateLockFile
  BY <1>3, Constants DEF TypeOK, TruncateLockFile, repoVars
<1>4. CASE WriteLockFile
  BY <1>4 DEF TypeOK, WriteLockFile, repoVars, LockFile, Status
<1>5. CASE TruncateProtoFile
  BY <1>5, Constants DEF TypeOK, TruncateProtoFile, repoVars
<1>6. CASE WriteProtoFile
  BY <1>6, Constants DEF TypeOK, WriteProtoFile, repoVars, ProtoFile, Status, Annotated
<1>7. CASE Interrupt
  BY <1>7, Constants, BoundsAssumption DEF TypeOK, Interrupt, repoVars, diskVars, Annotated
<1>8. ASSUME NEW e \in Entity, NEW fields \in FieldLists \cup {NotAnnotated},
             EditSchema(e, fields)
      PROVE  TypeOK'
  BY <1>8, BoundsAssumption DEF TypeOK, EditSchema, repoVars, diskVars, runVars
<1>9. CASE Commit
  <2>1. history' \in [Entity -> [Name -> SUBSET Nat]]
    BY <1>9, ExtendType DEF TypeOK, Commit, ProtoFile
  <2>2. QED
    BY <1>9, <2>1 DEF TypeOK, Commit, diskVars, runVars
<1>10. CASE RepairLockFile
  BY <1>10 DEF TypeOK, RepairLockFile, Checkout, runVars, repoVars
<1>11. CASE DiscardChanges
  BY <1>11, BoundsAssumption DEF TypeOK, DiscardChanges, Checkout, runVars, repoVars
<1>12. CASE UNCHANGED vars
  BY <1>12 DEF TypeOK, vars, repoVars, diskVars, runVars
<1>13. QED
  BY <1>1, <1>2, <1>3, <1>4, <1>5, <1>6, <1>7, <1>8, <1>9, <1>10, <1>11, <1>12 DEF Next

-----------------------------------------------------------------------------
\* The invariant, action by action.

LEMMA NoMessagesFromMem == ASSUME msgs = NoMessages PROVE MessagesFromMem
BY DEF MessagesFromMem, NoMessages

LEMMA InitInv == Init => IInv
<1> SUFFICES ASSUME Init PROVE IInv
  OBVIOUS
<1>1. \A e \in Entity : \A f \in Name : history[e][f] = {} /\ Ever[e][f] = {}
  BY DEF Init, Ever, Extend, NumberSet, MissingProtoFile, NoMessages
<1>2. HistoryOK(Ever)
  BY <1>1 DEF HistoryOK, Unambiguous
<1>3. Consistent(EmptyLock, Ever) /\ Consistent(EmptyLock, history)
  BY <1>1, EmptyWellFormed DEF Consistent, Agrees, EmptyLock
<1>4. MessagesFromMem
  BY NoMessagesFromMem DEF Init
<1>5. \A e \in Entity : \A f \in Name :
         NumberSet(repo.proto.messages[e][f]) \subseteq history[e][f]
  BY DEF Init, MissingProtoFile, NoMessages, NumberSet
<1>6. QED
  BY <1>2, <1>3, <1>4, <1>5 DEF IInv, Init, Running, MissingLockFile

LEMMA LoadStep ==
    ASSUME TypeOK, IInv, LoadLockFile
    PROVE  IInv'
<1>1. Ever' = Ever
  BY DEF LoadLockFile, diskVars, repoVars, Ever
<1>2. MessagesFromMem'
  BY DEF LoadLockFile, MessagesFromMem, NoMessages, TypeOK, Annotated
<1>3. QED
  BY <1>1, <1>2 DEF IInv, LoadLockFile, diskVars, repoVars, Running

LEMMA EverType == ASSUME TypeOK PROVE Ever \in [Entity -> [Name -> SUBSET Nat]]
BY ExtendType DEF TypeOK, Ever, ProtoFile

LEMMA BuildStep ==
    ASSUME TypeOK, IInv, NEW e \in Entity, BuildMessage(e)
    PROVE  IInv'
<1> DEFINE el == AllocateFieldNumbers(mem[e], input[e])
<1>1. Ever' = Ever
  BY DEF BuildMessage, diskVars, repoVars, Ever
<1>2. /\ mem' = [mem EXCEPT ![e] = el]
      /\ msgs' = [msgs EXCEPT ![e] = Emitted(el, input[e])]
      /\ todo' = todo \ {e} /\ pc = "build" /\ pc' = pc
      /\ mem \in [Entity -> EntityLock] /\ msgs \in [Entity -> [Name -> Nat]]
  BY DEF BuildMessage, TypeOK
<1>3. Consistent(mem, Ever)
  BY <1>2 DEF IInv, Running
<1>4. mem[e] \in EntityLock /\ WellFormed(mem[e]) /\ Agrees(mem[e], Ever[e])
  BY <1>2, <1>3 DEF Consistent
<1>5. input[e] \in Seq(Name)
  BY AnnotatedList DEF TypeOK, BuildMessage
<1>6. WellFormed(el)
  BY <1>4, <1>5, AllocateWellFormed
<1>7. Agrees(el, Ever[e])
  <2>1. Ever[e] \in [Name -> SUBSET Nat]
    BY EverType
  <2>2. \A f \in Name : 0 \notin Ever[e][f] /\ \A n \in Ever[e][f] : f = Id <=> n = 1
    BY DEF IInv, HistoryOK
  <2>3. QED
    BY <1>4, <1>5, <2>1, <2>2, AllocateAgrees
<1> HIDE DEF el
<1>8. Consistent(mem', Ever)
  BY <1>2, <1>3, <1>6, <1>7 DEF Consistent
<1>9. MessagesFromMem'
  BY <1>2 DEF IInv, MessagesFromMem, Emitted
<1>10. \A x \in todo' : mem'[x] = lockFile.entities[x]
  BY <1>2 DEF IInv, TypeOK, Annotated
<1>11. QED
  BY <1>1, <1>2, <1>8, <1>9, <1>10 DEF IInv, BuildMessage, diskVars, repoVars, Running

LEMMA SaveStep ==
    ASSUME TypeOK, IInv, TruncateLockFile \/ WriteLockFile
    PROVE  IInv'
<1>1. Ever' = Ever
  BY DEF TruncateLockFile, WriteLockFile, repoVars, Ever
<1>2. MessagesFromMem'
  BY DEF TruncateLockFile, WriteLockFile, IInv, MessagesFromMem
<1>3. CASE TruncateLockFile
  BY <1>1, <1>2, <1>3 DEF IInv, TruncateLockFile, repoVars, Running, TornLockFile
<1>4. CASE WriteLockFile
  <2>1. Consistent(mem, Ever)
    BY <1>4 DEF WriteLockFile, IInv, Running
  <2>2. QED
    BY <1>1, <1>2, <1>4, <2>1 DEF IInv, WriteLockFile, repoVars, Running
<1>5. QED
  BY <1>3, <1>4

LEMMA HistoryPart == Part(history, Ever)
BY DEF Part, Ever, Extend

LEMMA RenderStep ==
    ASSUME TypeOK, IInv, TruncateProtoFile
    PROVE  IInv'
<1>1. Part(Ever', Ever)
  BY DEF TruncateProtoFile, repoVars, Part, Ever, Extend, NumberSet, TornProtoFile, NoMessages
<1>2. HistoryOK(Ever') /\ Consistent(lockFile.entities, Ever') /\ Consistent(mem, Ever')
  <2>1. HistoryOK(Ever) /\ Consistent(lockFile.entities, Ever) /\ Consistent(mem, Ever)
    BY DEF IInv, TruncateProtoFile, Running
  <2>2. QED
    BY <1>1, <2>1, PartOK, PartConsistent
<1>3. MessagesFromMem'
  BY DEF TruncateProtoFile, IInv, MessagesFromMem
<1>4. QED
  BY <1>2, <1>3 DEF IInv, TruncateProtoFile, repoVars, Running

LEMMA PublishStep ==
    ASSUME TypeOK, IInv, WriteProtoFile
    PROVE  IInv'
<1>1. Ever' = Extend(history, msgs)
  BY DEF WriteProtoFile, repoVars, Ever
<1>2. HistoryOK(history) /\ Consistent(mem, history)
  <2>1. HistoryOK(Ever) /\ Consistent(mem, Ever)
    BY DEF IInv, WriteProtoFile, Running
  <2>2. QED
    BY <2>1, HistoryPart, PartOK, PartConsistent
<1>3. HistoryOK(Extend(history, msgs)) /\ Consistent(mem, Extend(history, msgs))
  <2>1. \A e \in Entity : \A f \in Name : msgs[e][f] # 0 => msgs[e][f] = mem[e].fields[f]
    BY DEF IInv, MessagesFromMem
  <2>2. QED
    BY <1>2, <2>1, PublishConsistent DEF TypeOK
<1>4. MessagesFromMem'
  BY DEF WriteProtoFile, MessagesFromMem, NoMessages
<1>5. lockFile.status = "ok" /\ lockFile.entities = mem
  BY DEF IInv, WriteProtoFile
<1>6. QED
  BY <1>1, <1>3, <1>4, <1>5 DEF IInv, WriteProtoFile, repoVars, Running

LEMMA InterruptStep ==
    ASSUME TypeOK, IInv, Interrupt
    PROVE  IInv'
<1>1. Ever' = Ever
  BY DEF Interrupt, diskVars, repoVars, Ever
<1>2. MessagesFromMem'
  BY DEF Interrupt, MessagesFromMem, NoMessages
<1>3. QED
  BY <1>1, <1>2 DEF IInv, Interrupt, diskVars, repoVars, Running

LEMMA EditStep ==
    ASSUME TypeOK, IInv, UNCHANGED <<runVars, diskVars, repoVars>>
    PROVE  IInv'
<1>1. Ever' = Ever
  BY DEF diskVars, repoVars, Ever
<1>2. MessagesFromMem'
  BY DEF runVars, IInv, MessagesFromMem
<1>3. QED
  BY <1>1, <1>2 DEF IInv, runVars, diskVars, repoVars, Running

LEMMA CommitStep ==
    ASSUME TypeOK, IInv, Commit
    PROVE  IInv'
<1>1. history' = Ever /\ history \in [Entity -> [Name -> SUBSET Nat]]
  BY DEF Commit, Ever, TypeOK
<1>2. Part(Ever', Ever) /\ Part(history', Ever)
  BY <1>1 DEF Commit, diskVars, Part, Ever, Extend
<1>3. HistoryOK(Ever') /\ Consistent(lockFile.entities, Ever') /\ Consistent(lockFile.entities, history')
  <2>1. HistoryOK(Ever) /\ Consistent(lockFile.entities, Ever)
    BY DEF IInv, Commit
  <2>2. QED
    BY <1>2, <2>1, PartOK, PartConsistent
<1>4. MessagesFromMem'
  BY DEF Commit, runVars, IInv, MessagesFromMem
<1>5. \A e \in Entity : \A f \in Name :
         NumberSet(protoFile.messages[e][f]) \subseteq history'[e][f]
  BY DEF Commit, Extend
<1>6. QED
  BY <1>3, <1>4, <1>5 DEF IInv, Commit, runVars, diskVars, Running

LEMMA CheckoutStep ==
    ASSUME TypeOK, IInv, Checkout
    PROVE  IInv'
<1>1. Part(Ever', history)
  BY DEF Checkout, repoVars, IInv, Part, Ever, Extend
<1>2. HistoryOK(Ever') /\ Consistent(repo.lock.entities, Ever')
  <2>1. HistoryOK(Ever) /\ Consistent(repo.lock.entities, history)
    BY DEF IInv
  <2>2. QED
    BY <1>1, <2>1, HistoryPart, PartOK, PartConsistent
<1>3. MessagesFromMem'
  BY DEF Checkout, runVars, IInv, MessagesFromMem
<1>4. QED
  BY <1>2, <1>3 DEF IInv, Checkout, runVars, repoVars, Running

LEMMA InvStep ==
    ASSUME TypeOK, IInv, [Next]_vars
    PROVE  IInv'
<1>1. CASE LoadLockFile
  BY <1>1, LoadStep
<1>2. ASSUME NEW e \in Entity, BuildMessage(e) PROVE IInv'
  BY <1>2, BuildStep
<1>3. CASE TruncateLockFile \/ WriteLockFile
  BY <1>3, SaveStep
<1>4. CASE TruncateProtoFile
  BY <1>4, RenderStep
<1>5. CASE WriteProtoFile
  BY <1>5, PublishStep
<1>6. CASE Interrupt
  BY <1>6, InterruptStep
<1>7. ASSUME NEW e \in Entity, NEW fields \in FieldLists \cup {NotAnnotated},
             EditSchema(e, fields)
      PROVE  IInv'
  BY <1>7, EditStep DEF EditSchema
<1>8. CASE Commit
  BY <1>8, CommitStep
<1>9. CASE RepairLockFile \/ DiscardChanges
  BY <1>9, CheckoutStep DEF RepairLockFile, DiscardChanges
<1>10. CASE UNCHANGED vars
  BY <1>10, EditStep DEF vars
<1>11. QED
  BY <1>1, <1>2, <1>3, <1>4, <1>5, <1>6, <1>7, <1>8, <1>9, <1>10 DEF Next

-----------------------------------------------------------------------------
\* Theorems of the specification.

\* The strengthened invariant holds in every reachable state, together with
\* the types it needs.
THEOREM Invariance == Spec => [](TypeOK /\ IInv)
<1>1. Init => TypeOK
  BY Constants, BoundsAssumption DEF Init, TypeOK, Annotated
<1>2. TypeOK /\ IInv /\ [Next]_vars => (TypeOK /\ IInv)'
  BY TypeStep, InvStep
<1>3. QED
  BY <1>1, <1>2, InitInv, PTL DEF Spec

\* Every variable keeps its type and messages are only built for entities
\* annotated in the graph the run was started with.
THEOREM TypeCorrect == Spec => []TypeOK
BY Invariance, PTL

\* No published field number is ever given to another field.
THEOREM NumbersNeverRebound == Spec => []NoRebinding
<1>1. IInv => NoRebinding
  BY DEF IInv, HistoryOK, NoRebinding
<1>2. QED
  BY <1>1, Invariance, PTL

\* A readable lock file accounts for every number ever published.
THEOREM LockFileIsWriteAhead == Spec => []NumbersRemembered
<1>1. IInv => NumbersRemembered
  BY DEF IInv, Consistent, Agrees, NumbersRemembered
<1>2. QED
  BY <1>1, Invariance, PTL

\* A field that stays in the schema keeps its number.
THEOREM NumbersAreStable == Spec => StableNumbers
<1> DEFINE A == \A e \in todo \ todo' :
                  pc = "build" /\ pc' = "build" =>
                    \A f \in Listed(input[e]) \cap Live(lockFile.entities[e]) :
                        msgs'[e][f] = lockFile.entities[e].fields[f]
<1>1. TypeOK /\ IInv /\ [Next]_vars => [A]_vars
  <2> SUFFICES ASSUME TypeOK, IInv, [Next]_vars, NEW e \in todo \ todo', pc = "build", pc' = "build",
                      NEW f \in Listed(input[e]) \cap Live(lockFile.entities[e])
               PROVE  msgs'[e][f] = lockFile.entities[e].fields[f]
    OBVIOUS
  <2>1. CASE BuildMessage(e)
    <3>1. /\ e \in Annotated(input) /\ e \in Entity /\ mem[e] \in EntityLock
          /\ WellFormed(mem[e]) /\ mem[e] = lockFile.entities[e]
      BY <2>1 DEF BuildMessage, TypeOK, Annotated, IInv, Running, Consistent
    <3>2. input[e] \in Seq(Name)
      BY <3>1, AnnotatedList DEF TypeOK
    <3>3. \A x \in Live(mem[e]) \cap Listed(input[e]) :
             AllocateFieldNumbers(mem[e], input[e]).fields[x] = mem[e].fields[x]
      BY <3>1, <3>2, AllocateEffect
    <3>4. msgs'[e] = Emitted(AllocateFieldNumbers(mem[e], input[e]), input[e])
      BY <2>1, <3>1 DEF BuildMessage, TypeOK
    <3>5. QED
      BY <3>1, <3>3, <3>4 DEF Emitted, Live
  <2>2. CASE ~ BuildMessage(e)
    <3>1. ASSUME NEW x \in Entity, BuildMessage(x) PROVE x = e
      BY <3>1 DEF BuildMessage
    <3>2. QED
      BY <2>2, <3>1 DEF Next, LoadLockFile, TruncateLockFile, WriteLockFile, TruncateProtoFile,
         WriteProtoFile, Interrupt, EditSchema, Commit, RepairLockFile, DiscardChanges, Checkout,
         vars, runVars
  <2>3. QED
    BY <2>1, <2>2
<1>2. QED
  BY <1>1, Invariance, PTL DEF Spec, StableNumbers

\* The commits implement the registry: committing publishes the proto file
\* and extends an unambiguous history, every other step is a stutter.
THEOREM RegistryImplemented == Spec => ImplementsRegistry
<1>1. Init => Registry!Init
  BY DEF Init, Registry!Init, MissingProtoFile, NoMessages
<1>2. TypeOK /\ IInv /\ [Next]_vars => [Registry!Publish]_(Registry!vars)
  <2> SUFFICES ASSUME TypeOK, IInv, [Next]_vars
               PROVE  Registry!Publish \/ UNCHANGED Registry!vars
    OBVIOUS
  <2>1. CASE Commit
    <3>1. /\ repo'.proto.messages = protoFile.messages
          /\ history' = Extend(history, protoFile.messages)
          /\ history' = Ever
      BY <2>1 DEF Commit, Ever
    <3>2. Unambiguous(history')
      BY <3>1 DEF IInv, HistoryOK
    <3>3. QED
      BY <3>1, <3>2 DEF Registry!Publish, Registry!Unambiguous, Registry!NumberSet,
                        Unambiguous, Extend, NumberSet
  <2>2. CASE ~ Commit
    <3>1. UNCHANGED repoVars
      BY <2>2 DEF Next, LoadLockFile, BuildMessage, TruncateLockFile, WriteLockFile,
         TruncateProtoFile, WriteProtoFile, Interrupt, EditSchema, RepairLockFile,
         DiscardChanges, Checkout, vars
    <3>2. QED
      BY <3>1 DEF repoVars, Registry!vars
  <2>3. QED
    BY <2>1, <2>2
<1>3. QED
  BY <1>1, <1>2, Invariance, PTL DEF Spec, ImplementsRegistry, Registry!Spec
=============================================================================
