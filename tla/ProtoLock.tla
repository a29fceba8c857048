------------------------------ MODULE ProtoLock ------------------------------
(***************************************************************************)
(* The proto stage of the generator (proto_generate.go, proto_lock.go) as  *)
(* it runs again and again over a schema that changes: load the lock file, *)
(* build one message per annotated entity, save the lock file, write the   *)
(* proto file.  A run may stop at any point; os.WriteFile truncates before *)
(* it writes.  The user edits the schema, commits the generated files and  *)
(* checks them out again.                                                  *)
(***************************************************************************)
EXTENDS FieldNumbers

CONSTANTS
    Entity,         \* the ent schemas
    FieldLists,     \* the candidate field lists a schema may have
    NotAnnotated,   \* in place of a list: no EntityAnnotation
    MaxEdits,       \* bound on schema edits
    MaxFaults       \* bound on interrupted runs and discarded changes

ASSUME FieldListsAssumption ==
    /\ FieldLists \subseteq Seq(Name)
    /\ NotAnnotated \notin FieldLists

ASSUME BoundsAssumption == MaxEdits \in Nat /\ MaxFaults \in Nat

VARIABLES
    schema,     \* the ent schema in the working tree
    pc,         \* where generateProtoFiles stands
    input,      \* the graph this run was started with
    todo,       \* annotated entities of input whose message is not built yet
    mem,        \* lock.Entities in memory
    msgs,       \* allMessages: the field numbers of each message built
    lockFile,   \* .entdomain.lock.json on disk
    protoFile,  \* ent_messages.proto on disk
    repo,       \* the last commit of the two files
    history,    \* every number each field had in a commit (for properties)
    edits,      \* schema edits so far
    faults      \* interruptions and discards so far

runVars == <<pc, input, todo, mem, msgs>>
diskVars == <<lockFile, protoFile>>
repoVars == <<repo, history>>
vars == <<schema, runVars, diskVars, repoVars, edits, faults>>

-----------------------------------------------------------------------------
NoMessages == [e \in Entity |-> [f \in Name |-> 0]]
EmptyLock == [e \in Entity |-> EmptyEntityLock]

Status == {"missing", "ok", "torn"}
LockFile == [status : Status, entities : [Entity -> EntityLock]]
ProtoFile == [status : Status, messages : [Entity -> [Name -> Nat]]]

MissingLockFile == [status |-> "missing", entities |-> EmptyLock]
TornLockFile == [status |-> "torn", entities |-> EmptyLock]
MissingProtoFile == [status |-> "missing", messages |-> NoMessages]
TornProtoFile == [status |-> "torn", messages |-> NoMessages]

Annotated(s) == {e \in Entity : s[e] # NotAnnotated}

NumberSet(n) == {n} \ {0}

\* The history h extended with the numbers of the messages m.
Extend(h, m) == [e \in Entity |-> [f \in Name |-> h[e][f] \cup NumberSet(m[e][f])]]

Init ==
    /\ schema \in [Entity -> FieldLists \cup {NotAnnotated}]
    /\ pc = "idle"
    /\ input = [e \in Entity |-> NotAnnotated]
    /\ todo = {}
    /\ mem = EmptyLock
    /\ msgs = NoMessages
    /\ lockFile = MissingLockFile
    /\ protoFile = MissingProtoFile
    /\ repo = [lock |-> MissingLockFile, proto |-> MissingProtoFile]
    /\ history = [e \in Entity |-> [f \in Name |-> {}]]
    /\ edits = 0
    /\ faults = 0

-----------------------------------------------------------------------------
(***************************************************************************)
(* The generator.                                                          *)
(***************************************************************************)

\* Mutated form: an unreadable lock file is taken for an empty one.
LoadAnyLockFile ==
    /\ pc = "idle"
    /\ pc' = "build"
    /\ input' = schema
    /\ todo' = Annotated(schema)
    /\ mem' = lockFile.entities
    /\ msgs' = NoMessages
    /\ UNCHANGED <<schema, diskVars, repoVars, edits, faults>>

\* Mutated form: entities without the annotation get a message, too.
LoadEveryEntity ==
    /\ pc = "idle"
    /\ lockFile.status # "torn"
    /\ pc' = "build"
    /\ input' = schema
    /\ todo' = Entity
    /\ mem' = lockFile.entities
    /\ msgs' = NoMessages
    /\ UNCHANGED <<schema, diskVars, repoVars, edits, faults>>

\* Mutated form: an entity that has a record in the lock file is skipped.
LoadUnlocked ==
    /\ pc = "idle"
    /\ lockFile.status # "torn"
    /\ pc' = "build"
    /\ input' = schema
    /\ todo' = {e \in Annotated(schema) : lockFile.entities[e] = EmptyEntityLock}
    /\ mem' = lockFile.entities
    /\ msgs' = NoMessages
    /\ UNCHANGED <<schema, diskVars, repoVars, edits, faults>>

\* loadLockFile: a missing file is an empty lock, a file that is not JSON is
\* an error that ends the run with nothing changed.
LoadLockFile ==
    /\ pc = "idle"
    /\ lockFile.status # "torn"
    /\ pc' = "build"
    /\ input' = schema
    /\ todo' = Annotated(schema)
    /\ mem' = lockFile.entities
    /\ msgs' = NoMessages
    /\ UNCHANGED <<schema, diskVars, repoVars, edits, faults>>

\* The fields of a message: every candidate with the number the record has.
Emitted(el, current) ==
    [f \in Name |-> IF f \in Listed(current) THEN el.fields[f] ELSE 0]

\* buildProtoMessageData: allocates in the lock in memory and builds the
\* message from the numbers found there.
BuildMessage(e) ==
    /\ pc = "build"
    /\ e \in todo
    /\ LET el == AllocateFieldNumbers(mem[e], input[e])
       IN  /\ mem' = [mem EXCEPT ![e] = el]
           /\ msgs' = [msgs EXCEPT ![e] = Emitted(el, input[e])]
    /\ todo' = todo \ {e}
    /\ UNCHANGED <<schema, pc, input, diskVars, repoVars, edits, faults>>

\* Mutated form: entities that are no longer annotated lose their record.
WriteLockFileAnnotated ==
    /\ pc = "saving"
    /\ lockFile' = [status |-> "ok",
                    entities |-> [e \in Entity |-> IF e \in Annotated(input)
                                                   THEN mem[e]
                                                   ELSE EmptyEntityLock]]
    /\ pc' = "render"
    /\ UNCHANGED <<schema, input, todo, mem, msgs, protoFile, repoVars, edits, faults>>

\* saveLockFile: os.WriteFile opens with O_TRUNC ...
TruncateLockFile ==
    /\ pc = "build"
    /\ todo = {}
    /\ lockFile' = TornLockFile
    /\ pc' = "saving"
    /\ UNCHANGED <<schema, input, todo, mem, msgs, protoFile, repoVars, edits, faults>>

\* ... and then writes every entity of the lock, annotated or not.
WriteLockFile ==
    /\ pc = "saving"
    /\ lockFile' = [status |-> "ok", entities |-> mem]
    /\ pc' = "render"
    /\ UNCHANGED <<schema, input, todo, mem, msgs, protoFile, repoVars, edits, faults>>

\* renderProtoFile, the truncation and the write of os.WriteFile.
TruncateProtoFile ==
    /\ pc = "render"
    /\ protoFile' = TornProtoFile
    /\ pc' = "rendering"
    /\ UNCHANGED <<schema, input, todo, mem, msgs, lockFile, repoVars, edits, faults>>

WriteProtoFile ==
    /\ pc = "rendering"
    /\ protoFile' = [status |-> "ok", messages |-> msgs]
    /\ pc' = "idle"
    /\ input' = [e \in Entity |-> NotAnnotated]
    /\ todo' = {}
    /\ mem' = EmptyLock
    /\ msgs' = NoMessages
    /\ UNCHANGED <<schema, lockFile, repoVars, edits, faults>>

\* An error return (malformed annotation, file that cannot be written) or a
\* kill: the lock in memory is lost, the files stay as they are.
Interrupt ==
    /\ pc # "idle"
    /\ faults < MaxFaults
    /\ faults' = faults + 1
    /\ pc' = "idle"
    /\ input' = [e \in Entity |-> NotAnnotated]
    /\ todo' = {}
    /\ mem' = EmptyLock
    /\ msgs' = NoMessages
    /\ UNCHANGED <<schema, diskVars, repoVars, edits>>

-----------------------------------------------------------------------------
(***************************************************************************)
(* The user.                                                               *)
(***************************************************************************)

\* The schema changes, possibly while the generator runs on the old one.
EditSchema(e, fields) ==
    /\ edits < MaxEdits
    /\ schema[e] # fields
    /\ schema' = [schema EXCEPT ![e] = fields]
    /\ edits' = edits + 1
    /\ UNCHANGED <<runVars, diskVars, repoVars, faults>>

\* The lock file is committed with the proto file ("commit this file"); a
\* half-written file is not committed.  From here on others decode messages
\* with these numbers.
Commit ==
    /\ pc = "idle"
    /\ lockFile.status = "ok"
    /\ protoFile.status # "torn"
    /\ repo' = [lock |-> lockFile, proto |-> protoFile]
    /\ history' = Extend(history, protoFile.messages)
    /\ UNCHANGED <<schema, runVars, diskVars, edits, faults>>

Checkout ==
    /\ pc = "idle"
    /\ lockFile' = repo.lock
    /\ protoFile' = repo.proto
    /\ UNCHANGED <<schema, runVars, repoVars, edits>>

\* A torn lock file stops every run until the user brings back the last one.
RepairLockFile ==
    /\ lockFile.status = "torn"
    /\ Checkout
    /\ UNCHANGED faults

\* The user drops uncommitted generated files.
DiscardChanges ==
    /\ lockFile.status # "torn"
    /\ <<lockFile, protoFile>> # <<repo.lock, repo.proto>>
    /\ faults < MaxFaults
    /\ faults' = faults + 1
    /\ Checkout

-----------------------------------------------------------------------------
Next ==
    \/ LoadLockFile
    \/ \E e \in Entity : BuildMessage(e)
    \/ TruncateLockFile
    \/ WriteLockFile
    \/ TruncateProtoFile
    \/ WriteProtoFile
    \/ Interrupt
    \/ \E e \in Entity : \E fields \in FieldLists \cup {NotAnnotated} : EditSchema(e, fields)
    \/ Commit
    \/ RepairLockFile
    \/ DiscardChanges

Spec == Init /\ [][Next]_vars

\* A started run is a sequential program: it goes on unless interrupted.  The
\* generator is run again (go generate, CI) and a torn file gets repaired.
Fairness ==
    /\ WF_vars(LoadLockFile)
    /\ \A e \in Entity : WF_vars(BuildMessage(e))
    /\ WF_vars(TruncateLockFile \/ WriteLockFile)
    /\ WF_vars(TruncateProtoFile \/ WriteProtoFile)
    /\ WF_vars(RepairLockFile)

FairSpec == Spec /\ Fairness
-----------------------------------------------------------------------------
(***************************************************************************)
(* Properties.                                                             *)
(***************************************************************************)
Running == pc # "idle"

\* Types of the variables; a message is only built for annotated entities.
TypeOK ==
    /\ schema \in [Entity -> FieldLists \cup {NotAnnotated}]
    /\ pc \in {"idle", "build", "saving", "render", "rendering"}
    /\ input \in [Entity -> FieldLists \cup {NotAnnotated}]
    /\ todo \subseteq Annotated(input)
    /\ mem \in [Entity -> EntityLock]
    /\ msgs \in [Entity -> [Name -> Nat]]
    /\ lockFile \in LockFile
    /\ protoFile \in ProtoFile
    /\ repo \in [lock : LockFile, proto : ProtoFile]
    /\ history \in [Entity -> [Name -> SUBSET Nat]]
    /\ edits \in 0..MaxEdits
    /\ faults \in 0..MaxFaults

\* Everything a reader may have seen: commits and the proto file on disk.
Ever == Extend(history, protoFile.messages)

Unambiguous(h) ==
    \A e \in Entity : \A f, g \in Name : f # g => h[e][f] \cap h[e][g] = {}

\* A number that ever named a field in a published message never names
\* another field of that message, across removals, re-additions, entities
\* that lose their annotation, interrupted runs and lock files checked out
\* again (proto_lock.go: "never reused").
NoRebinding == Unambiguous(Ever)

Remembers(el, f, n) == el.fields[f] = n \/ n \in el.reserved

\* Write-ahead: whenever the lock file can be read it accounts for every
\* number ever published, as live under the same name or as reserved, so
\* the order lock file, then proto file, survives every interruption.
NumbersRemembered ==
    lockFile.status # "torn" =>
        \A e \in Entity : \A f \in Name : \A n \in Ever[e][f] :
            Remembers(lockFile.entities[e], f, n)

\* A field that has a number in the lock file and is still a candidate is
\* emitted with that number, whatever is added or removed around it.
StableNumbers ==
    [][\A e \in todo \ todo' :
          pc = "build" /\ pc' = "build" =>
            \A f \in Listed(input[e]) \cap Live(lockFile.entities[e]) :
                msgs'[e][f] = lockFile.entities[e].fields[f]]_vars

\* The proto file shows exactly the fields of the schema.
InSync ==
    /\ protoFile.status = "ok"
    /\ \A e \in Entity :
          {f \in Name : protoFile.messages[e][f] # 0} =
             IF e \in Annotated(schema) THEN Listed(schema[e]) ELSE {}

\* Once the edits stop, re-running the generator brings the proto file in
\* line with the schema again and again, in spite of interrupted runs.
Converges == []<>InSync

(***************************************************************************)
(* The inductive invariant.  An entity record is consistent with a history *)
(* if it remembers all of it and gives none of its numbers to other names. *)
(***************************************************************************)
Agrees(el, h) ==
    \A f \in Name : \A n \in h[f] :
        /\ Remembers(el, f, n)
        /\ \A g \in Live(el) : el.fields[g] = n => g = f

Consistent(l, h) == \A e \in Entity : WellFormed(l[e]) /\ Agrees(l[e], h[e])

HistoryOK(h) ==
    /\ Unambiguous(h)
    /\ \A e \in Entity : \A f \in Name :
          /\ 0 \notin h[e][f]
          /\ \A n \in h[e][f] : f = Id <=> n = 1

\* The messages built so far hold numbers of the lock in memory.
MessagesFromMem ==
    \A e \in Entity :
        /\ e \in todo => \A f \in Name : msgs[e][f] = 0
        /\ \A f \in Name : msgs[e][f] # 0 => msgs[e][f] = mem[e].fields[f]

\* The strengthening of NoRebinding and NumbersRemembered that every step
\* preserves.
IInv ==
    /\ HistoryOK(Ever)
    /\ lockFile.status # "torn" => Consistent(lockFile.entities, Ever)
    /\ Running => Consistent(mem, Ever)
    /\ MessagesFromMem
    /\ pc \in {"render", "rendering"} =>
          lockFile.status = "ok" /\ lockFile.entities = mem
    /\ pc = "build" =>
          /\ lockFile.status # "torn"
          /\ \A e \in todo : mem[e] = lockFile.entities[e]
    /\ repo.lock.status # "torn"
    /\ Consistent(repo.lock.entities, history)
    /\ \A e \in Entity : \A f \in Name :
          NumberSet(repo.proto.messages[e][f]) \subseteq history[e][f]

(***************************************************************************)
(* The commits of the repository are the registry of FieldRegistry.        *)
(***************************************************************************)
Registry == INSTANCE FieldRegistry WITH published <- repo.proto.messages

\* Every step of the generator and its user is a publication that keeps the
\* registry unambiguous, or changes nothing a reader sees.
ImplementsRegistry == Registry!Spec
=============================================================================
