--------------------------- MODULE GeneratorProofs ---------------------------
(***************************************************************************)
(* Theorems of the generator's runs, for every set of entities, every set  *)
(* of graphs, and any number of edits and interrupted runs: what the files *)
(* are when ent formats ent/domain.go, that the mappers of a finished run  *)
(* compile, and that the summary tells of what they do not carry.          *)
(***************************************************************************)
EXTENDS Generator, SequenceTheorems, TLAPS

-----------------------------------------------------------------------------
(* The inductive invariant *)

\* Up to the point the run has come to, the files are those of its graph.  The
\* stages that write one file for each entity have some of them left.
DomainWritten ==
    run.stage # "idle" =>
        \A e \in Annotated(run.graph) : disk.domain[e] = run.graph[e] \/ (run.stage = "domain" /\ e \in run.todo)
LockWritten == run.stage \in {"skipped", "proto", "mapper", "helpers", "ent", "done"} => disk.lock = run.graph
SkippedWritten == run.stage \in {"proto", "mapper", "helpers", "ent", "done"} => disk.skipped = run.graph
ProtoWritten == run.stage \in {"mapper", "helpers", "ent", "done"} => disk.proto = run.graph
MapperWritten ==
    run.stage \in {"mapper", "helpers", "ent", "done"} =>
        \A e \in Annotated(run.graph) : disk.mapper[e] = run.graph[e] \/ (run.stage = "mapper" /\ e \in run.todo)
HelpersWritten == run.stage \in {"ent", "done"} /\ Calling(run.graph) # {} => disk.helpers = "written"
EntWritten == run.stage = "done" => disk.ent = EntFile(run.graph)

\* A run starts from domain files that compile, and keeps them so but for the
\* structs that it is about to write.
Stands(e) ==
    /\ disk.domain[e] # Torn
    /\ disk.domain[e] \in Versions =>
        \A x \in Nested(disk.domain[e]) : disk.domain[x] # Missing \/ (run.stage = "domain" /\ x \in run.todo)
DomainStands == Imports /\ run.stage # "idle" => \A e \in Entities : Stands(e)

IInv ==
    /\ TypeOK /\ LockWritten /\ DomainWritten /\ SkippedWritten /\ ProtoWritten
    /\ MapperWritten /\ HelpersWritten /\ EntWritten /\ DomainStands

-----------------------------------------------------------------------------
(* The type invariant *)

LEMMA AnnotatedVersion == ASSUME NEW g \in Schemas, NEW e \in Annotated(g) PROVE e \in Entities /\ g[e] \in Versions
  BY SchemasAssumption DEF Annotated

LEMMA SomeAnnotated == ASSUME NEW g \in Schemas PROVE Annotated(g) # {} /\ Annotated(g) \subseteq Entities
  BY SchemasAssumption DEF Annotated

LEMMA TypeInit == Init => TypeOK
<1> SUFFICES ASSUME Init PROVE TypeOK OBVIOUS
<1>1. disk \in Disks
  BY DEF Init, Disks, Files, FileStates, Whole, Absent
<1>2. run \in [stage : Stages, graph : Schemas, todo : SUBSET Entities]
  BY DEF Init, Stages
<1> QED BY <1>1, <1>2, OptionsAssumption DEF Init, TypeOK

\* A file that a run writes is of its graph.
LEMMA DiskTypes ==
  ASSUME disk \in Disks, NEW g \in Schemas
  PROVE  /\ \A e \in Annotated(g) : [disk EXCEPT !.domain[e] = g[e]] \in Disks /\ [disk EXCEPT !.mapper[e] = g[e]] \in Disks
         /\ [disk EXCEPT !.lock = g] \in Disks /\ [disk EXCEPT !.skipped = g] \in Disks
         /\ [disk EXCEPT !.proto = g] \in Disks /\ [disk EXCEPT !.helpers = "written"] \in Disks
         /\ [disk EXCEPT !.ent = EntFile(g)] \in Disks
         /\ [disk EXCEPT !.domain = Absent] \in Disks /\ [disk EXCEPT !.lock = Missing] \in Disks
<1>1. ASSUME NEW e \in Annotated(g)
      PROVE  [disk EXCEPT !.domain[e] = g[e]] \in Disks /\ [disk EXCEPT !.mapper[e] = g[e]] \in Disks
  BY <1>1, AnnotatedVersion DEF Disks, Files
<1>2. [disk EXCEPT !.lock = g] \in Disks /\ [disk EXCEPT !.skipped = g] \in Disks /\ [disk EXCEPT !.proto = g] \in Disks
  BY DEF Disks, Whole
<1>3. [disk EXCEPT !.helpers = "written"] \in Disks /\ [disk EXCEPT !.ent = EntFile(g)] \in Disks
  BY DEF Disks
<1>4. Absent \in Files BY DEF Absent, Files, FileStates
<1>5. [disk EXCEPT !.domain = Absent] \in Disks BY <1>4 DEF Disks
<1>6. [disk EXCEPT !.lock = Missing] \in Disks BY DEF Disks, Whole, FileStates
<1> QED BY <1>1, <1>2, <1>3, <1>5, <1>6

LEMMA TornTypes ==
  ASSUME disk \in Disks, run.stage \in Stages \ {"idle", "done"}, NEW e \in Entities
  PROVE  TornAt(e) \in Disks
<1> USE DEF FileStates
<1>1. CASE run.stage \in {"domain", "mapper"}
  <2>1. CASE run.stage = "domain" BY <2>1 DEF TornAt, Disks, Files
  <2>2. CASE run.stage = "mapper" BY <2>2 DEF TornAt, Disks, Files
  <2> QED BY <1>1, <2>1, <2>2
<1>2. CASE run.stage \notin {"domain", "mapper"}
  <2>1. TornAt(e) = [disk EXCEPT ![run.stage] = Torn] BY <1>2 DEF TornAt
  <2>2. CASE run.stage = "lock" BY <2>1, <2>2 DEF Disks, Whole
  <2>3. CASE run.stage = "skipped" BY <2>1, <2>3 DEF Disks, Whole
  <2>4. CASE run.stage = "proto" BY <2>1, <2>4 DEF Disks, Whole
  <2>5. CASE run.stage = "helpers" BY <2>1, <2>5 DEF Disks
  <2>6. CASE run.stage = "ent" BY <2>1, <2>6 DEF Disks
  <2> QED BY <1>2, <2>2, <2>3, <2>4, <2>5, <2>6 DEF Stages
<1> QED BY <1>1, <1>2

LEMMA TypeStep == TypeOK /\ [Next]_vars => TypeOK'
<1> SUFFICES ASSUME TypeOK, [Next]_vars PROVE TypeOK' OBVIOUS
<1> USE DEF TypeOK, Goto, Unedited, At
<1>1. CASE Start
  BY <1>1, SomeAnnotated DEF Start, Stages
<1>2. CASE WriteDomain
  <2>1. PICK e \in run.todo :
          /\ disk' = [disk EXCEPT !.domain[e] = run.graph[e]]
          /\ Goto(IF run.todo = {e} THEN "lock" ELSE "domain", run.todo \ {e})
    BY <1>2 DEF WriteDomain
  <2>2. disk' \in Disks BY <2>1, DiskTypes
  <2>3. run' = [stage |-> IF run.todo = {e} THEN "lock" ELSE "domain", graph |-> run.graph, todo |-> run.todo \ {e}]
    BY <2>1
  <2>4. run.todo \ {e} # {} <=> run.todo # {e} OBVIOUS
  <2>5. UNCHANGED <<schema, edits, stops>> BY <1>2 DEF WriteDomain
  <2>6. CASE run.todo = {e} BY <2>2, <2>3, <2>4, <2>5, <2>6 DEF Stages
  <2>7. CASE run.todo # {e} BY <2>2, <2>3, <2>4, <2>5, <2>7 DEF Stages
  <2> QED BY <2>6, <2>7
<1>3. CASE LockFails
  BY <1>3 DEF LockFails, Stages
<1>4. CASE WriteLock
  BY <1>4, DiskTypes DEF WriteLock, Stages
<1>5. CASE WriteSkipped
  BY <1>5, DiskTypes DEF WriteSkipped, Stages
<1>6. CASE WriteProto
  BY <1>6, DiskTypes, SomeAnnotated DEF WriteProto, Stages
<1>7. CASE WriteMapper
  <2> DEFINE After == IF Calling(run.graph) # {} THEN "helpers" ELSE "ent"
  <2>1. PICK e \in run.todo :
          /\ disk' = [disk EXCEPT !.mapper[e] = run.graph[e]]
          /\ Goto(IF run.todo # {e} THEN "mapper" ELSE After, run.todo \ {e})
    BY <1>7 DEF WriteMapper
  <2>2. disk' \in Disks BY <2>1, DiskTypes
  <2>3. After \in {"helpers", "ent"} OBVIOUS
  <2> HIDE DEF After
  <2>4. run' = [stage |-> IF run.todo # {e} THEN "mapper" ELSE After, graph |-> run.graph, todo |-> run.todo \ {e}]
    BY <2>1
  <2>5. run.todo \ {e} # {} <=> run.todo # {e} OBVIOUS
  <2>6. UNCHANGED <<schema, edits, stops>> BY <1>7 DEF WriteMapper
  <2>7. CASE run.todo = {e} BY <2>2, <2>3, <2>4, <2>5, <2>6, <2>7 DEF Stages
  <2>8. CASE run.todo # {e} BY <2>2, <2>3, <2>4, <2>5, <2>6, <2>8 DEF Stages
  <2> QED BY <2>7, <2>8
<1>8. CASE WriteHelpers
  BY <1>8, DiskTypes DEF WriteHelpers, Stages
<1>9. CASE GenerateEnt
  BY <1>9, DiskTypes DEF GenerateEnt, Stages
<1>10. CASE Stop
  <2>1. disk' \in Disks
    <3>1. \A e \in IF run.todo = {} THEN Entities ELSE run.todo : e \in Entities OBVIOUS
    <3> QED BY <1>10, <3>1, TornTypes DEF Stop
  <2>2. run' = [stage |-> "idle", graph |-> run.graph, todo |-> {}] BY <1>10 DEF Stop
  <2>3. stops' \in 0..MaxStops BY <1>10, OptionsAssumption DEF Stop
  <2> QED BY <1>10, <2>1, <2>2, <2>3 DEF Stop, Stages
<1>11. CASE Edit
  BY <1>11, OptionsAssumption DEF Edit
<1>12. CASE Clean
  BY <1>12, DiskTypes DEF Clean
<1>13. CASE RestoreLock
  BY <1>13, DiskTypes DEF RestoreLock
<1>14. CASE UNCHANGED vars
  BY <1>14 DEF vars
<1> QED
  BY <1>1, <1>2, <1>3, <1>4, <1>5, <1>6, <1>7, <1>8, <1>9, <1>10, <1>11, <1>12, <1>13, <1>14 DEF Next, Step

\* A file is missing, torn or of a version that a graph has, and a stage that
\* writes one file for each entity ends with the last of them.
THEOREM TypeCorrect == Spec => []TypeOK
<1>1. Init => TypeOK BY TypeInit
<1>2. TypeOK /\ [Next]_vars => TypeOK' BY TypeStep
<1> QED BY <1>1, <1>2, PTL DEF Spec

-----------------------------------------------------------------------------
(* The files of a run *)

\* A run that is under way found the schema loadable.
LEMMA LoadableWhileDone == ASSUME IInv, run.stage = "done" PROVE Loadable
<1>1. \A e \in Entities : Imports => Stands(e) BY DEF IInv, DomainStands
<1> QED BY <1>1 DEF Stands, Loadable, DomainCompiles

\* The steps of a run leave its graph, and any other step that leaves a run
\* under way leaves its files.
LEMMA NextCases ==
  ASSUME IInv, [Next]_vars
  PROVE  \/ Start \/ Step
         \/ run' = [run EXCEPT !.stage = "idle", !.todo = {}]
         \/ UNCHANGED <<run, disk>>
         \/ run.stage = "idle" /\ UNCHANGED run
<1>1. CASE Stop BY <1>1 DEF Stop, Goto
<1>2. CASE Edit BY <1>2 DEF Edit
<1>3. CASE Clean
  <2>1. run.stage = "idle" BY <1>3, LoadableWhileDone DEF Clean
  <2> QED BY <1>3, <2>1 DEF Clean
<1>4. CASE RestoreLock BY <1>4 DEF RestoreLock
<1>5. CASE UNCHANGED vars BY <1>5 DEF vars
<1> QED BY <1>1, <1>2, <1>3, <1>4, <1>5 DEF Next

LEMMA FilesInit == Init => IInv
  BY TypeInit DEF Init, IInv, LockWritten, DomainWritten, SkippedWritten, ProtoWritten, MapperWritten, HelpersWritten, EntWritten, DomainStands

WholeWritten == LockWritten /\ SkippedWritten /\ ProtoWritten /\ HelpersWritten /\ EntWritten

LEMMA WholeFilesStep == IInv /\ [Next]_vars => WholeWritten'
<1> SUFFICES ASSUME IInv, [Next]_vars PROVE WholeWritten' OBVIOUS
<1> USE DEF IInv, TypeOK, WholeWritten, LockWritten, SkippedWritten, ProtoWritten, HelpersWritten, EntWritten, At, Goto, Disks
<1>1. CASE Start BY <1>1 DEF Start
<1>2. CASE Step
  <2>1. CASE WriteDomain
    <3>1. run'.stage \in {"lock", "domain"} BY <2>1 DEF WriteDomain
    <3> QED BY <3>1
  <2>2. CASE LockFails BY <2>2 DEF LockFails
  <2>3. CASE WriteLock BY <2>3 DEF WriteLock
  <2>4. CASE WriteSkipped BY <2>4 DEF WriteSkipped
  <2>5. CASE WriteProto BY <2>5 DEF WriteProto
  <2>6. CASE WriteMapper
    <3>1. PICK e \in run.todo :
            /\ disk' = [disk EXCEPT !.mapper[e] = run.graph[e]]
            /\ Goto(IF run.todo # {e} THEN "mapper" ELSE IF Calling(run.graph) # {} THEN "helpers" ELSE "ent",
                    run.todo \ {e})
      BY <2>6 DEF WriteMapper
    <3>2. disk'.lock = disk.lock /\ disk'.skipped = disk.skipped /\ disk'.proto = disk.proto /\ run'.graph = run.graph BY <3>1
    <3>3. run'.stage \in {"mapper", "helpers", "ent"} BY <3>1
    <3>4. run'.stage = "ent" => Calling(run.graph) = {}
      <4>1. CASE run.todo # {e} BY <3>1, <4>1
      <4>2. CASE run.todo = {e} BY <3>1, <4>2
      <4> QED BY <4>1, <4>2
    <3> HIDE DEF Goto
    <3> QED BY <2>6, <3>2, <3>3, <3>4 DEF WriteMapper
  <2>7. CASE WriteHelpers BY <2>7 DEF WriteHelpers
  <2>8. CASE GenerateEnt BY <2>8 DEF GenerateEnt
  <2> QED BY <1>2, <2>1, <2>2, <2>3, <2>4, <2>5, <2>6, <2>7, <2>8 DEF Step
<1>3. CASE run' = [run EXCEPT !.stage = "idle", !.todo = {}] BY <1>3
<1>4. CASE UNCHANGED <<run, disk>> BY <1>4
<1>5. CASE run.stage = "idle" /\ UNCHANGED run BY <1>5
<1> QED BY <1>1, <1>2, <1>3, <1>4, <1>5, NextCases

\* The stages between leave the files that are written one for each entity.
LEMMA OtherStages ==
  ASSUME IInv, LockFails \/ WriteLock \/ WriteSkipped \/ WriteProto \/ WriteHelpers \/ GenerateEnt
  PROVE  /\ disk'.domain = disk.domain /\ disk'.mapper = disk.mapper
         /\ run'.graph = run.graph /\ run.stage \notin {"idle", "domain", "mapper", "done"}
         /\ run'.stage \notin {"domain"} /\ (run'.stage = "mapper" => run.stage = "proto" /\ run'.todo = Annotated(run.graph))
         /\ run'.stage \in {"ent", "done", "helpers"} => run.stage \in {"helpers", "ent"}
<1> USE DEF IInv, TypeOK, At, Goto, Disks
<1>1. CASE LockFails BY <1>1 DEF LockFails
<1>2. CASE WriteLock BY <1>2 DEF WriteLock
<1>3. CASE WriteSkipped BY <1>3 DEF WriteSkipped
<1>4. CASE WriteProto BY <1>4 DEF WriteProto
<1>5. CASE WriteHelpers BY <1>5 DEF WriteHelpers
<1>6. CASE GenerateEnt BY <1>6 DEF GenerateEnt
<1> QED BY <1>1, <1>2, <1>3, <1>4, <1>5, <1>6

LEMMA WriteDomainPicks ==
  ASSUME IInv, WriteDomain
  PROVE  \E e \in Annotated(run.graph) :
           /\ e \in run.todo /\ e \in Entities /\ run.graph[e] \in Versions /\ run.stage = "domain"
           /\ disk'.domain = [disk.domain EXCEPT ![e] = run.graph[e]] /\ disk'.mapper = disk.mapper
           /\ run'.graph = run.graph /\ run'.todo = run.todo \ {e}
           /\ run'.stage = IF run.todo = {e} THEN "lock" ELSE "domain"
<1>1. PICK e \in run.todo :
        /\ disk' = [disk EXCEPT !.domain[e] = run.graph[e]]
        /\ Goto(IF run.todo = {e} THEN "lock" ELSE "domain", run.todo \ {e})
  BY DEF WriteDomain
<1>2. e \in Annotated(run.graph) BY DEF IInv, TypeOK
<1>3. e \in Entities /\ run.graph[e] \in Versions BY <1>2, AnnotatedVersion DEF IInv, TypeOK
<1>4. disk'.domain = [disk.domain EXCEPT ![e] = run.graph[e]] /\ disk'.mapper = disk.mapper
  BY <1>1 DEF IInv, TypeOK, Disks
<1>5. run'.graph = run.graph /\ run'.todo = run.todo \ {e} /\ run'.stage = IF run.todo = {e} THEN "lock" ELSE "domain"
  BY <1>1 DEF Goto, IInv, TypeOK
<1>6. run.stage = "domain" BY DEF WriteDomain, At
<1> QED BY <1>2, <1>3, <1>4, <1>5, <1>6

LEMMA WriteMapperPicks ==
  ASSUME IInv, WriteMapper
  PROVE  \E e \in Annotated(run.graph) :
           /\ e \in run.todo /\ e \in Entities /\ run.stage = "mapper"
           /\ disk'.mapper = [disk.mapper EXCEPT ![e] = run.graph[e]] /\ disk'.domain = disk.domain
           /\ run'.graph = run.graph /\ run'.todo = run.todo \ {e} /\ run'.stage # "domain"
           /\ run'.stage = "mapper" <=> run.todo # {e}
<1>1. PICK e \in run.todo :
        /\ disk' = [disk EXCEPT !.mapper[e] = run.graph[e]]
        /\ Goto(IF run.todo # {e} THEN "mapper" ELSE IF Calling(run.graph) # {} THEN "helpers" ELSE "ent", run.todo \ {e})
  BY DEF WriteMapper
<1>2. e \in Annotated(run.graph) BY DEF IInv, TypeOK
<1>3. e \in Entities BY <1>2, AnnotatedVersion DEF IInv, TypeOK
<1>4. disk'.mapper = [disk.mapper EXCEPT ![e] = run.graph[e]] /\ disk'.domain = disk.domain
  BY <1>1 DEF IInv, TypeOK, Disks
<1>5. run'.graph = run.graph /\ run'.todo = run.todo \ {e} BY <1>1 DEF Goto, IInv, TypeOK
<1>6. (run'.stage = "mapper" <=> run.todo # {e}) /\ run'.stage # "domain"
  <2>1. CASE run.todo # {e} BY <1>1, <2>1 DEF Goto, IInv, TypeOK
  <2>2. CASE run.todo = {e} BY <1>1, <2>2 DEF Goto, IInv, TypeOK
  <2> QED BY <2>1, <2>2
<1>7. run.stage = "mapper" BY DEF WriteMapper, At
<1> QED BY <1>2, <1>3, <1>4, <1>5, <1>6, <1>7

LEMMA DomainWrittenStep == IInv /\ [Next]_vars => DomainWritten'
<1> SUFFICES ASSUME IInv, [Next]_vars PROVE DomainWritten' OBVIOUS
<1> USE DEF DomainWritten
<1>1. CASE Start BY <1>1 DEF Start
<1>2. CASE Step
  <2>1. CASE WriteDomain
    <3>1. PICK e \in Annotated(run.graph) :
            /\ e \in run.todo /\ e \in Entities /\ run.stage = "domain"
            /\ disk'.domain = [disk.domain EXCEPT ![e] = run.graph[e]]
            /\ run'.graph = run.graph /\ run'.todo = run.todo \ {e}
            /\ run'.stage = IF run.todo = {e} THEN "lock" ELSE "domain"
      BY <2>1, WriteDomainPicks
    <3>2. disk.domain \in Files BY DEF IInv, TypeOK, Disks
    <3>3. \A x \in Annotated(run.graph) : disk.domain[x] = run.graph[x] \/ x \in run.todo BY <3>1 DEF IInv
    <3>4. \A x \in Annotated(run.graph) : disk'.domain[x] = run.graph[x] \/ x \in run.todo \ {e}
      BY <3>1, <3>2, <3>3 DEF Files, Annotated
    <3> QED BY <3>1, <3>4
  <2>2. CASE WriteMapper
    <3>1. disk'.domain = disk.domain /\ run'.graph = run.graph /\ run.stage = "mapper" BY <2>2, WriteMapperPicks
    <3> QED BY <3>1 DEF IInv
  <2>3. CASE LockFails \/ WriteLock \/ WriteSkipped \/ WriteProto \/ WriteHelpers \/ GenerateEnt
    BY <2>3, OtherStages DEF IInv
  <2> QED BY <1>2, <2>1, <2>2, <2>3 DEF Step
<1>3. CASE run' = [run EXCEPT !.stage = "idle", !.todo = {}] BY <1>3 DEF IInv, TypeOK
<1>4. CASE UNCHANGED <<run, disk>> BY <1>4 DEF IInv
<1>5. CASE run.stage = "idle" /\ UNCHANGED run BY <1>5
<1> QED BY <1>1, <1>2, <1>3, <1>4, <1>5, NextCases

LEMMA MapperWrittenStep == IInv /\ [Next]_vars => MapperWritten'
<1> SUFFICES ASSUME IInv, [Next]_vars PROVE MapperWritten' OBVIOUS
<1> USE DEF MapperWritten
<1>1. CASE Start BY <1>1 DEF Start
<1>2. CASE Step
  <2>1. CASE WriteDomain
    <3>1. run'.stage \in {"lock", "domain"} BY <2>1, WriteDomainPicks
    <3> QED BY <3>1
  <2>2. CASE WriteMapper
    <3>1. PICK e \in Annotated(run.graph) :
            /\ e \in run.todo /\ e \in Entities /\ run.stage = "mapper"
            /\ disk'.mapper = [disk.mapper EXCEPT ![e] = run.graph[e]]
            /\ run'.graph = run.graph /\ run'.todo = run.todo \ {e}
            /\ run'.stage = "mapper" <=> run.todo # {e}
      BY <2>2, WriteMapperPicks
    <3>2. disk.mapper \in Files BY DEF IInv, TypeOK, Disks
    <3>3. \A x \in Annotated(run.graph) : disk.mapper[x] = run.graph[x] \/ x \in run.todo BY <3>1 DEF IInv
    <3>4. \A x \in Annotated(run.graph) : disk'.mapper[x] = run.graph[x] \/ x \in run.todo \ {e}
      BY <3>1, <3>2, <3>3 DEF Files, Annotated
    <3> QED BY <3>1, <3>4
  <2>3. CASE LockFails \/ WriteLock \/ WriteSkipped \/ WriteProto \/ WriteHelpers \/ GenerateEnt
    <3>1. CASE run'.stage = "mapper" BY <2>3, <3>1, OtherStages
    <3>2. CASE run'.stage \in {"ent", "done", "helpers"} BY <2>3, <3>2, OtherStages DEF IInv
    <3> QED BY <3>1, <3>2
  <2> QED BY <1>2, <2>1, <2>2, <2>3 DEF Step
<1>3. CASE run' = [run EXCEPT !.stage = "idle", !.todo = {}] BY <1>3 DEF IInv, TypeOK
<1>4. CASE UNCHANGED <<run, disk>> BY <1>4 DEF IInv
<1>5. CASE run.stage = "idle" /\ UNCHANGED run BY <1>5
<1> QED BY <1>1, <1>2, <1>3, <1>4, <1>5, NextCases

\* Writing a struct nests only structs that are there or are still to be written.
LEMMA DomainStandsStep == WellNested /\ IInv /\ [Next]_vars => DomainStands'
<1> SUFFICES ASSUME WellNested, IInv, [Next]_vars, Imports, run'.stage # "idle", NEW x \in Entities PROVE Stands(x)'
  BY DEF DomainStands
<1> USE DEF Stands
<1>1. CASE Start
  <2>1. DomainCompiles BY <1>1 DEF Start, Loadable
  <2>2. disk' = disk BY <1>1 DEF Start
  <2> QED BY <2>1, <2>2 DEF DomainCompiles
<1>2. CASE Step
  <2>1. CASE WriteDomain
    <3>1. PICK e \in Annotated(run.graph) :
            /\ e \in run.todo /\ e \in Entities /\ run.graph[e] \in Versions /\ run.stage = "domain"
            /\ disk'.domain = [disk.domain EXCEPT ![e] = run.graph[e]]
            /\ run'.graph = run.graph /\ run'.todo = run.todo \ {e}
            /\ run'.stage = IF run.todo = {e} THEN "lock" ELSE "domain"
      BY <2>1, WriteDomainPicks
    <3>2. disk.domain \in Files BY DEF IInv, TypeOK, Disks
    <3>3. \A y \in Entities : disk'.domain[y] = IF y = e THEN run.graph[e] ELSE disk.domain[y] BY <3>1, <3>2 DEF Files
    <3>4. run.graph[e] # Missing /\ run.graph[e] # Torn BY <3>1, MarksAssumption
    <3>5. \A y \in Entities : Stands(y) BY <3>1 DEF IInv, DomainStands
    <3>6. \A y \in Entities : disk.domain[y] # Missing \/ y \in run.todo =>
            disk'.domain[y] # Missing \/ (run'.stage = "domain" /\ y \in run'.todo)
      <4>1. CASE run.todo = {e} BY <3>1, <3>3, <3>4, <4>1
      <4>2. CASE run.todo # {e} BY <3>1, <3>3, <3>4, <4>2
      <4> QED BY <4>1, <4>2
    <3>7. \A y \in Annotated(run.graph) : disk.domain[y] # Missing \/ y \in run.todo
      <4> SUFFICES ASSUME NEW y \in Annotated(run.graph) PROVE disk.domain[y] # Missing \/ y \in run.todo OBVIOUS
      <4>1. disk.domain[y] = run.graph[y] \/ y \in run.todo BY <3>1 DEF IInv, DomainWritten
      <4>2. run.graph[y] \in Versions BY AnnotatedVersion DEF IInv, TypeOK
      <4> QED BY <4>1, <4>2, MarksAssumption
    <3>8. CASE x = e
      <4>1. Nested(run.graph[e]) \subseteq Annotated(run.graph) BY <3>1 DEF WellNested, IInv, TypeOK
      <4>2. disk'.domain[x] = run.graph[e] BY <3>3, <3>8
      <4>3. Nested(run.graph[e]) \subseteq Entities BY DEF Nested
      <4> QED BY <3>4, <3>6, <3>7, <4>1, <4>2, <4>3
    <3>9. CASE x # e
      <4>1. disk'.domain[x] = disk.domain[x] BY <3>3, <3>9
      <4>2. Nested(disk.domain[x]) \subseteq Entities BY DEF Nested
      <4> QED BY <3>5, <3>6, <4>1, <4>2
    <3> QED BY <3>8, <3>9
  <2>2. CASE WriteMapper
    <3>1. disk'.domain = disk.domain /\ run.stage = "mapper" BY <2>2, WriteMapperPicks
    <3> QED BY <3>1 DEF IInv, DomainStands
  <2>3. CASE LockFails \/ WriteLock \/ WriteSkipped \/ WriteProto \/ WriteHelpers \/ GenerateEnt
    <3>1. disk'.domain = disk.domain /\ run.stage \notin {"idle", "domain"} BY <2>3, OtherStages
    <3> QED BY <3>1 DEF IInv, DomainStands
  <2> QED BY <1>2, <2>1, <2>2, <2>3 DEF Step
<1>3. CASE run' = [run EXCEPT !.stage = "idle", !.todo = {}] BY <1>3 DEF IInv, TypeOK
<1>4. CASE UNCHANGED <<run, disk>> BY <1>4 DEF IInv, DomainStands
<1>5. CASE run.stage = "idle" /\ UNCHANGED run BY <1>5
<1> QED BY <1>1, <1>2, <1>3, <1>4, <1>5, NextCases

\* The files of a run are of its graph up to the point it has come to.
THEOREM Invariance == WellNested => (Spec => []IInv)
<1> SUFFICES ASSUME WellNested PROVE Spec => []IInv OBVIOUS
<1>1. Init => IInv BY FilesInit
<1>2. IInv /\ [Next]_vars => IInv'
  BY TypeStep, DomainWrittenStep, WholeFilesStep, MapperWrittenStep, DomainStandsStep DEF IInv, WholeWritten
<1> QED BY <1>1, <1>2, PTL DEF Spec

-----------------------------------------------------------------------------
(* What a run leaves behind *)

\* When ent formats ent/domain.go, each annotated entity has the struct of this
\* run, and the domain package compiles if the schema package imports it, so that
\* no run starts beside a broken file; nothing is claimed of the package for a
\* schema that does not import it, whose old files no run removes.
THEOREM EntFinds == WellNested => (Spec => []EntFindsDomain)
<1> SUFFICES ASSUME WellNested PROVE Spec => []EntFindsDomain OBVIOUS
<1>1. IInv => EntFindsDomain
  <2> SUFFICES ASSUME IInv, run.stage \in {"ent", "done"}
               PROVE  /\ \A e \in Annotated(run.graph) : disk.domain[e] = run.graph[e]
                      /\ Imports => DomainCompiles
    BY DEF EntFindsDomain, IInv
  <2>1. ASSUME Imports PROVE DomainCompiles
    <3>1. \A e \in Entities : Stands(e) BY <2>1 DEF IInv, DomainStands
    <3> QED BY <3>1 DEF Stands, DomainCompiles
  <2>2. \A e \in Annotated(run.graph) : disk.domain[e] = run.graph[e] BY DEF IInv, DomainWritten
  <2> QED BY <2>1, <2>2
<1> QED BY <1>1, Invariance, PTL

\* A run that finished on the schema as it is left all its files of that schema,
\* whatever earlier runs left behind: what the liveness property converges to.
THEOREM FinishedInSync == WellNested => (Spec => [](At("done") /\ run.graph = schema => InSync))
<1> SUFFICES ASSUME WellNested PROVE Spec => [](At("done") /\ run.graph = schema => InSync) OBVIOUS
<1>1. IInv => (At("done") /\ run.graph = schema => InSync)
  BY DEF IInv, LockWritten, DomainWritten, SkippedWritten, ProtoWritten, MapperWritten, HelpersWritten, EntWritten, At, InSync
<1> QED BY <1>1, Invariance, PTL

-----------------------------------------------------------------------------
(* Names *)

\* protoPascal writes what protoc-gen-go writes, but for words with digits before
\* their letters.
LEMMA SameWords == ASSUME NEW n, Without(n, Numbered) PROVE GoCamelCase(n) = protoPascal(n)
  BY DEF Without, GoCamelCase, protoPascal

\* A name with a word more.
LEMMA Appended ==
  ASSUME NEW S, NEW s \in Seq(S), NEW x
  PROVE  /\ Len(s) \in Nat /\ DOMAIN s = 1..Len(s)
         /\ Append(s, x) = [i \in 1..(Len(s) + 1) |-> IF i = Len(s) + 1 THEN x ELSE s[i]]
<1>1. Len(s) \in Nat /\ DOMAIN s = 1..Len(s) OBVIOUS
<1> DEFINE T == S \cup {x}
<1>2. s \in Seq(T) OBVIOUS
<1>3. x \in T OBVIOUS
<1> HIDE DEF T
<1>4. Append(s, x) \in Seq(T) /\ Len(Append(s, x)) = Len(s) + 1 /\ Append(s, x)[Len(s) + 1] = x
      /\ \A i \in 1..Len(s) : Append(s, x)[i] = s[i]
  BY <1>2, <1>3, AppendProperties
<1> DEFINE a == Append(s, x)
<1>5. a = [i \in 1..(Len(s) + 1) |-> a[i]]
  <2>1. a \in Seq(T) /\ Len(a) = Len(s) + 1 BY <1>4
  <2> HIDE DEF a
  <2> QED BY <1>1, <2>1
<1> QED BY <1>1, <1>4, <1>5

\* So does pascal, and a suffix after it, if there is no acronym either.
LEMMA SpelledAlike ==
  ASSUME NEW n \in Seq(STRING), Without(n, Acronyms \cup Numbered), NEW w, w \notin Numbered
  PROVE  GoCamelCase(Append(n, w)) = Append(pascal(n), Capital(w))
<1> DEFINE p == pascal(n)
           L == Len(n)
<1>1. L \in Nat /\ DOMAIN n = 1..L OBVIOUS
<1>2. p = [i \in 1..L |-> Capital(n[i])] BY <1>1 DEF pascal, Without
<1>3. p \in Seq({Capital(x) : x \in STRING}) /\ Len(p) = L
  <2>1. \A i \in 1..L : n[i] \in STRING OBVIOUS
  <2> HIDE DEF p
  <2>2. \A i \in 1..L : p[i] \in {Capital(x) : x \in STRING} BY <1>2, <2>1
  <2> QED BY <1>1, <1>2, <2>2
<1> HIDE DEF p
<1> DEFINE a == Append(n, w)
           b == Append(p, Capital(w))
<1>4. a = [i \in 1..(L + 1) |-> IF i = L + 1 THEN w ELSE n[i]] BY Appended
<1>5. b = [i \in 1..(L + 1) |-> IF i = L + 1 THEN Capital(w) ELSE p[i]] 
  <2> DEFINE c == Capital(w)
             M == Len(p)
  <2>1. Append(p, c) = [i \in 1..(M + 1) |-> IF i = M + 1 THEN c ELSE p[i]]
    <3> HIDE DEF c
    <3> QED BY <1>3, Appended
  <2> QED BY <1>3, <2>1
<1> HIDE DEF a, b
<1>6. \A i \in 1..(L + 1) : a[i] \notin Numbered
  <2>1. \A i \in 1..L : n[i] \notin Numbered BY <1>1 DEF Without
  <2>2. ASSUME NEW i \in 1..(L + 1) PROVE a[i] \notin Numbered
    <3>1. a[i] = IF i = L + 1 THEN w ELSE n[i] BY <1>4
    <3>2. i = L + 1 \/ i \in 1..L BY <1>1
    <3> QED BY <2>1, <3>1, <3>2
  <2> QED BY <2>2
<1>7. GoCamelCase(a) = [i \in 1..(L + 1) |-> Capital(a[i])] BY <1>4, <1>6 DEF GoCamelCase
<1>8. \A i \in 1..(L + 1) : Capital(a[i]) = b[i]
  <2>1. \A i \in 1..L : p[i] = Capital(n[i]) BY <1>2
  <2>2. ASSUME NEW i \in 1..(L + 1) PROVE Capital(a[i]) = b[i]
    <3>1. a[i] = (IF i = L + 1 THEN w ELSE n[i]) /\ b[i] = (IF i = L + 1 THEN Capital(w) ELSE p[i]) BY <1>4, <1>5
    <3>2. i = L + 1 \/ i \in 1..L BY <1>1
    <3> HIDE DEF L
    <3>3. CASE i = L + 1 BY <3>1, <3>3
    <3>4. CASE i # L + 1 BY <2>1, <3>1, <3>2, <3>4
    <3> QED BY <3>3, <3>4
  <2> QED BY <2>2
<1>9. GoCamelCase(a) = b BY <1>5, <1>7, <1>8
<1> QED BY <1>9 DEF a, b, p

LEMMA LastReplaced == ASSUME NEW n \in Seq(STRING), n # <<>>, NEW e, e.one \in STRING PROVE singular(n, e) \in Seq(STRING)
  BY DEF singular

\* The words of a Go name are those of the name in the schema.
LEMMA WordsOfPascal == ASSUME NEW n \in Seq(STRING) PROVE Words(pascal(n)) = n
<1>1. DOMAIN pascal(n) = DOMAIN n BY DEF pascal
<1>2. \A i \in DOMAIN n : pascal(n)[i][2] = n[i] BY DEF pascal, Capital, InCapitals
<1>3. n = [i \in DOMAIN n |-> n[i]] OBVIOUS
<1> HIDE DEF pascal
<1> QED BY <1>1, <1>2, <1>3 DEF Words

LEMMA WordsAppended ==
  ASSUME NEW S, NEW g \in Seq(S), NEW p, NEW w, p[2] = w
  PROVE  Words(Append(g, p)) = Append(Words(g), w)
<1> DEFINE L == Len(g)
           v == Words(g)
<1>1. L \in Nat /\ DOMAIN g = 1..L OBVIOUS
<1>2. v = [i \in 1..L |-> g[i][2]] BY <1>1 DEF Words
<1>3. v \in Seq({g[i][2] : i \in 1..L}) /\ Len(v) = L
  <2> HIDE DEF v
  <2> QED BY <1>1, <1>2
<1> HIDE DEF v
<1> DEFINE a == Append(g, p)
           b == Append(v, w)
<1>4. a = [i \in 1..(L + 1) |-> IF i = L + 1 THEN p ELSE g[i]] BY Appended
<1>5. b = [i \in 1..(L + 1) |-> IF i = L + 1 THEN w ELSE v[i]] BY <1>3, Appended
<1> HIDE DEF a, b
<1>6. Words(a) = [i \in 1..(L + 1) |-> a[i][2]] BY <1>4 DEF Words
<1>7. \A i \in 1..(L + 1) : a[i][2] = b[i] BY <1>1, <1>2, <1>4, <1>5
<1>8. Words(a) = b BY <1>5, <1>6, <1>7
<1> QED BY <1>8 DEF a, b, v

LEMMA WordsOfIDs ==
  ASSUME NEW e, e.name \in Seq(STRING) \ {<<>>}
  PROVE  Words(EdgeIDName(e)) = IDsName(e)
<1> DEFINE n == e.name
           p == pascal(n)
           L == Len(n)
           S == {p[i] : i \in 1..L}
<1>1. L \in Nat /\ L > 0 /\ DOMAIN n = 1..L OBVIOUS
<1>2. DOMAIN p = 1..L /\ p = [i \in 1..L |-> p[i]] /\ p \in Seq(S) BY <1>1 DEF pascal
<1>3. Words(p) = n BY WordsOfPascal
<1>4. CASE e.unique
  <2>1. Words(Append(p, InCapitals("id"))) = Append(n, "id")
    <3>1. InCapitals("id")[2] = "id" BY DEF InCapitals
    <3> HIDE DEF p, n
    <3> QED BY <1>2, <1>3, <3>1, WordsAppended
  <2> QED BY <1>4, <2>1 DEF EdgeIDName, IDsName
<1>5. CASE ~e.unique
  <2> DEFINE q == [p EXCEPT ![L][2] = e.one]
  <2>1. p[L] = <<p[L][1], p[L][2]>> BY <1>1 DEF pascal, Capital, InCapitals
  <2>2. q = [i \in 1..L |-> IF i = L THEN [p[L] EXCEPT ![2] = e.one] ELSE p[i]]
    <3> HIDE DEF p
    <3> QED BY <1>1, <1>2
  <2>3. [p[L] EXCEPT ![2] = e.one][2] = e.one
    <3> HIDE DEF p
    <3> QED BY <2>1
  <2>4. Words(q) = singular(n, e)
    <3>1. \A i \in 1..L : p[i][2] = n[i] BY <1>1 DEF pascal, Capital, InCapitals
    <3> HIDE DEF p, q
    <3>2. Words(q) = [i \in 1..L |-> IF i = L THEN e.one ELSE n[i]] BY <1>1, <2>2, <2>3, <3>1 DEF Words
    <3>3. singular(n, e) = [i \in 1..L |-> IF i = L THEN e.one ELSE n[i]] BY <1>1 DEF singular
    <3> QED BY <3>2, <3>3
  <2>5. q \in Seq({q[i] : i \in 1..L})
    <3>1. DOMAIN q = 1..L /\ q = [i \in 1..L |-> q[i]] BY <2>2
    <3> HIDE DEF q, p
    <3> QED BY <1>1, <3>1
  <2>6. Words(Append(q, InCapitals("ids"))) = Append(singular(n, e), "ids")
    <3>1. InCapitals("ids")[2] = "ids" BY DEF InCapitals
    <3> HIDE DEF p, n, q
    <3> QED BY <2>4, <2>5, <3>1, WordsAppended
  <2> QED BY <1>5, <2>6 DEF EdgeIDName, IDsName
<1> QED BY <1>4, <1>5

\* What the mapper carries is what the domain struct has and the summary does not
\* tell of, for fields with names of their own.
LEMMA CarriedOrTold ==
  ASSUME NEW d, Distinct(d), ~resolveEntFieldProtoSpec(d.id).excluded
  PROVE  {Words(m.name) : m \in MapperFields(d)} = {Words(f.name) : f \in Struct(d)} \ Skipped(d)
<1> DEFINE Out(f) == resolveEntFieldProtoSpec(f).excluded
           OutV(v) == resolveVirtualFieldProtoSpec(v).excluded
           OutIDs(e) == IDsSpec(e).excluded
           OutNest(e) == NestSpec(e).excluded
           F == {f \in d.fields : ~f.bound}
           I == {e \in d.edges : HasIDs(e)}
           N == {e \in d.edges : HasNest(e)}
           In(n) == \/ n = <<"id">>
                    \/ \E f \in F : n = f.name /\ ~f.skip /\ ~Out(f)
                    \/ \E e \in I : n = IDsName(e) /\ ~OutIDs(e)
                    \/ \E e \in N : n = e.name /\ ~OutNest(e)
                    \/ \E v \in d.virtual : n = v.name /\ ~OutV(v)
           Has(n) == \/ n = <<"id">>
                     \/ \E f \in F : n = f.name
                     \/ \E e \in I : n = IDsName(e)
                     \/ \E e \in N : n = e.name
                     \/ \E v \in d.virtual : n = v.name
           Told(n) == \/ \E f \in F : n = f.name /\ (f.skip \/ Out(f))
                      \/ \E e \in I : n = IDsName(e) /\ OutIDs(e)
                      \/ \E e \in N : n = e.name /\ OutNest(e)
                      \/ \E v \in d.virtual : n = v.name /\ OutV(v)
<1>1. /\ Words(<<InCapitals("id")>>) = <<"id">>
      /\ \A f \in d.fields \cup d.edges \cup d.virtual : Words(pascal(f.name)) = f.name
      /\ \A e \in d.edges : Words(EdgeIDName(e)) = IDsName(e)
  <2>1. Words(<<InCapitals("id")>>) = <<"id">> BY DEF Words, InCapitals
  <2>2. \A f \in d.fields \cup d.edges \cup d.virtual : f.name \in Seq(STRING) \ {<<>>} BY DEF Distinct
  <2> QED BY <2>1, <2>2, WordsOfPascal, WordsOfIDs
<1>2. /\ \A f : MappedField(f).name = pascal(f.name) /\ StructField(pascal(f.name), fieldToDomainType(f)).name = pascal(f.name)
      /\ \A e : MappedIDs(e).name = EdgeIDName(e) /\ MappedNest(e).name = pascal(e.name)
      /\ \A v : MappedVirtual(v).name = pascal(v.name)
      /\ MappedID(d).name = <<InCapitals("id")>>
      /\ \A n, g : StructField(n, g).name = n
  BY DEF MappedField, MappedIDs, MappedNest, MappedVirtual, MappedID, Mapped, StructField
<1>3. \A n : n \in {Words(m.name) : m \in MapperFields(d)} <=> In(n)
  <2> HIDE DEF Out, OutV, OutIDs, OutNest
  <2>1. MapperFields(d) =
          {MappedID(d)} \cup {MappedField(f) : f \in {x \in F : ~x.skip /\ ~Out(x)}}
          \cup {MappedIDs(e) : e \in {x \in I : ~OutIDs(x)}} \cup {MappedNest(e) : e \in {x \in N : ~OutNest(x)}}
          \cup {MappedVirtual(v) : v \in {x \in d.virtual : ~OutV(x)}}
    BY DEF MapperFields, Out, OutV, OutIDs, OutNest
  <2>2. ASSUME NEW m \in MapperFields(d) PROVE In(Words(m.name))
    <3>1. CASE m = MappedID(d) BY <1>1, <1>2, <3>1
    <3>2. CASE \E f \in F : ~f.skip /\ ~Out(f) /\ m = MappedField(f) BY <1>1, <1>2, <3>2
    <3>3. CASE \E e \in I : ~OutIDs(e) /\ m = MappedIDs(e) BY <1>1, <1>2, <3>3
    <3>4. CASE \E e \in N : ~OutNest(e) /\ m = MappedNest(e) BY <1>1, <1>2, <3>4
    <3>5. CASE \E v \in d.virtual : ~OutV(v) /\ m = MappedVirtual(v) BY <1>1, <1>2, <3>5
    <3> HIDE DEF In
    <3> QED BY <2>1, <3>1, <3>2, <3>3, <3>4, <3>5
  <2>3. ASSUME NEW n, In(n) PROVE \E m \in MapperFields(d) : n = Words(m.name)
    <3>1. CASE n = <<"id">> BY <1>1, <1>2, <2>1, <3>1
    <3>2. CASE \E f \in F : n = f.name /\ ~f.skip /\ ~Out(f) BY <1>1, <1>2, <2>1, <3>2
    <3>3. CASE \E e \in I : n = IDsName(e) /\ ~OutIDs(e) BY <1>1, <1>2, <2>1, <3>3
    <3>4. CASE \E e \in N : n = e.name /\ ~OutNest(e) BY <1>1, <1>2, <2>1, <3>4
    <3>5. CASE \E v \in d.virtual : n = v.name /\ ~OutV(v) BY <1>1, <1>2, <2>1, <3>5
    <3> QED BY <2>3, <3>1, <3>2, <3>3, <3>4, <3>5
  <2> HIDE DEF In
  <2> QED BY <2>2, <2>3
<1>4. \A n : n \in {Words(f.name) : f \in Struct(d)} <=> Has(n)
  <2>1. ASSUME NEW m \in Struct(d) PROVE Has(Words(m.name))
    BY <1>1, <1>2 DEF Struct
  <2>2. ASSUME NEW n, Has(n) PROVE \E m \in Struct(d) : n = Words(m.name)
    <3>1. CASE n = <<"id">>
      <4> DEFINE i == StructField(<<InCapitals("id")>>, fieldToDomainType(d.id))
      <4>1. i \in Struct(d) BY DEF Struct
      <4>2. Words(i.name) = <<"id">> BY <1>1, <1>2
      <4> HIDE DEF i
      <4> QED BY <3>1, <4>1, <4>2
    <3>2. CASE \E f \in F : n = f.name BY <1>1, <1>2, <3>2 DEF Struct
    <3>3. CASE \E e \in I : n = IDsName(e) BY <1>1, <1>2, <3>3 DEF Struct
    <3>4. CASE \E e \in N : n = e.name BY <1>1, <1>2, <3>4 DEF Struct
    <3>5. CASE \E v \in d.virtual : n = v.name BY <1>1, <1>2, <3>5 DEF Struct
    <3> QED BY <2>2, <3>1, <3>2, <3>3, <3>4, <3>5
  <2> HIDE DEF Has
  <2> QED BY <2>1, <2>2
<1>5. \A n : n \in Skipped(d) <=> Told(n)
  BY DEF Skipped
<1>6. \A n : In(n) \/ Told(n) <=> Has(n)
  <2> HIDE DEF Out, OutV, OutIDs, OutNest
  <2> QED OBVIOUS
<1>7. \A n : ~(In(n) /\ Told(n))
  <2> SUFFICES ASSUME NEW n, In(n), Told(n) PROVE FALSE OBVIOUS
  <2> DEFINE Kind(k, x) == [name |-> n, kind |-> k, of |-> x]
             Is(k, x) == Kind(k, x) \in Candidates(d)
  <2>1. \A k1, k2, x1, x2 : Is(k1, x1) /\ Is(k2, x2) => k1 = k2 /\ x1 = x2
    BY DEF Distinct
  <2>2. /\ n = <<"id">> => Is("id", d.id)
        /\ \A f \in F : n = f.name => Is("field", f)
        /\ \A e \in I : n = IDsName(e) => Is("ids", e)
        /\ \A e \in N : n = e.name => Is("nest", e)
        /\ \A v \in d.virtual : n = v.name => Is("virtual", v)
    BY DEF Candidates
  <2> HIDE DEF Is, Out, OutV, OutIDs, OutNest, F, I, N
  <2> DEFINE TF == \E f \in F : Is("field", f) /\ (f.skip \/ Out(f))
             TI == \E e \in I : Is("ids", e) /\ OutIDs(e)
             TN == \E e \in N : Is("nest", e) /\ OutNest(e)
             TV == \E v \in d.virtual : Is("virtual", v) /\ OutV(v)
  <2>3. TF \/ TI \/ TN \/ TV
    <3>1. CASE \E f \in F : n = f.name /\ (f.skip \/ Out(f)) BY <2>2, <3>1
    <3>2. CASE \E e \in I : n = IDsName(e) /\ OutIDs(e) BY <2>2, <3>2
    <3>3. CASE \E e \in N : n = e.name /\ OutNest(e) BY <2>2, <3>3
    <3>4. CASE \E v \in d.virtual : n = v.name /\ OutV(v) BY <2>2, <3>4
    <3> HIDE DEF TF, TI, TN, TV
    <3> QED BY <3>1, <3>2, <3>3, <3>4
  <2>4. CASE n = <<"id">>
    <3>1. Is("id", d.id) BY <2>2, <2>4
    <3> QED BY <2>1, <2>3, <3>1
  <2>5. CASE \E f \in F : n = f.name /\ ~f.skip /\ ~Out(f)
    <3>1. PICK f \in F : Is("field", f) /\ ~f.skip /\ ~Out(f) BY <2>2, <2>5
    <3> QED BY <2>1, <2>3, <3>1
  <2>6. CASE \E e \in I : n = IDsName(e) /\ ~OutIDs(e)
    <3>1. PICK e \in I : Is("ids", e) /\ ~OutIDs(e) BY <2>2, <2>6
    <3> QED BY <2>1, <2>3, <3>1
  <2>7. CASE \E e \in N : n = e.name /\ ~OutNest(e)
    <3>1. PICK e \in N : Is("nest", e) /\ ~OutNest(e) BY <2>2, <2>7
    <3> QED BY <2>1, <2>3, <3>1
  <2>8. CASE \E v \in d.virtual : n = v.name /\ ~OutV(v)
    <3>1. PICK v \in d.virtual : Is("virtual", v) /\ ~OutV(v) BY <2>2, <2>8
    <3> QED BY <2>1, <2>3, <3>1
  <2> QED BY <2>4, <2>5, <2>6, <2>7, <2>8
<1> HIDE DEF In, Has, Told
<1> QED BY <1>3, <1>4, <1>5, <1>6, <1>7

\* The summary of a finished run tells of every field of the domain struct that
\* the mapper does not carry, and of no other, if the fields of a definition have
\* names of their own and its id has a proto type.
THEOREM NoneUntold == WellNested /\ WellNamed /\ WellTyped => (Spec => []LeftOutIsTold)
<1> SUFFICES ASSUME WellNested, WellNamed, WellTyped PROVE Spec => []LeftOutIsTold OBVIOUS
<1>1. IInv => LeftOutIsTold
  <2> SUFFICES ASSUME IInv, At("done"), NEW e \in Annotated(run.graph)
               PROVE  {Words(f.name) : f \in MapperFields(Define[disk.mapper[e]])} =
                        {Words(f.name) : f \in Struct(Define[disk.domain[e]])} \ Skipped(Define[disk.skipped[e]])
    BY DEF LeftOutIsTold
  <2>1. disk.skipped = run.graph /\ disk.domain[e] = run.graph[e] /\ disk.mapper[e] = run.graph[e]
    BY DEF IInv, SkippedWritten, DomainWritten, MapperWritten, At
  <2>2. Distinct(Define[run.graph[e]]) /\ Mappable(Define[run.graph[e]]) BY DEF WellNamed, WellTyped, IInv, TypeOK
  <2>3. ~resolveEntFieldProtoSpec(Define[run.graph[e]].id).excluded BY <2>2 DEF Mappable
  <2> HIDE DEF IInv, At
  <2> QED BY <2>1, <2>2, <2>3, CarriedOrTold
<1> QED BY <1>1, Invariance, PTL

-----------------------------------------------------------------------------
(* A definition whose mapper compiles *)

\* What an expression takes and gives.
LEMMA CallsConvert ==
  /\ \A call \in Methods \cup DOMAIN Helpers : \A from, to : Calls[call] = <<from, to>> => Converts(call, from, to)
  /\ Calls["timestamppb.New"] = <<Plain("time.Time"), Ptr("google.protobuf.Timestamp")>>
  /\ Calls["AsTime"] = <<Ptr("google.protobuf.Timestamp"), Plain("time.Time")>>
  /\ Calls["durationpb.New"] = <<Plain("time.Duration"), Ptr("google.protobuf.Duration")>>
  /\ Calls["AsDuration"] = <<Ptr("google.protobuf.Duration"), Plain("time.Duration")>>
  /\ Calls["String"] = <<Plain("uuid.UUID"), Plain("string")>>
  /\ Calls["uuid.MustParse"] = <<Plain("string"), Plain("uuid.UUID")>>
  /\ \A h \in DOMAIN Helpers : Calls[h] = Helpers[h]
<1> DEFINE M == Methods
           H == DOMAIN Helpers
<1>1. DOMAIN Calls = M \cup H BY DEF Calls
<1>2. \A h \in H : h \notin M BY DEF Helpers, Methods
<1>3. \A call \in M \cup H : Calls[call] =
        CASE call = "timestamppb.New" -> <<Plain("time.Time"), Ptr("google.protobuf.Timestamp")>>
          [] call = "AsTime" -> <<Ptr("google.protobuf.Timestamp"), Plain("time.Time")>>
          [] call = "durationpb.New" -> <<Plain("time.Duration"), Ptr("google.protobuf.Duration")>>
          [] call = "AsDuration" -> <<Ptr("google.protobuf.Duration"), Plain("time.Duration")>>
          [] call = "String" -> <<Plain("uuid.UUID"), Plain("string")>>
          [] call = "uuid.MustParse" -> <<Plain("string"), Plain("uuid.UUID")>>
          [] OTHER -> Helpers[call]
  BY DEF Calls
<1>4. \A call \in M \cup H : \A from, to : Calls[call] = <<from, to>> => Converts(call, from, to)
  BY <1>1 DEF Converts
<1>5. \A h \in H : Calls[h] = Helpers[h]
  <2> HIDE DEF H
  <2> QED BY <1>2, <1>3 DEF Methods
<1> HIDE DEF H
<1>6. Calls["timestamppb.New"] = <<Plain("time.Time"), Ptr("google.protobuf.Timestamp")>> BY <1>3 DEF Methods
<1>7. Calls["AsTime"] = <<Ptr("google.protobuf.Timestamp"), Plain("time.Time")>> BY <1>3 DEF Methods
<1>8. Calls["durationpb.New"] = <<Plain("time.Duration"), Ptr("google.protobuf.Duration")>> BY <1>3 DEF Methods
<1>9. Calls["AsDuration"] = <<Ptr("google.protobuf.Duration"), Plain("time.Duration")>> BY <1>3 DEF Methods
<1>10. Calls["String"] = <<Plain("uuid.UUID"), Plain("string")>> BY <1>3 DEF Methods
<1>11. Calls["uuid.MustParse"] = <<Plain("string"), Plain("uuid.UUID")>> BY <1>3 DEF Methods
<1> QED BY <1>4, <1>5, <1>6, <1>7, <1>8, <1>9, <1>10, <1>11 DEF H

\* A type that has a proto type of its own is copied.
LEMMA Copied == ASSUME NEW t \in DOMAIN Direct, NEW o \in BOOLEAN
                PROVE  ConvertsAs(ProtoFieldSpec(Direct[t], o, "", ""), PtrIf(o, t))
<1>1. Direct[t] \in DOMAIN ProtoGo /\ ProtoGo[Direct[t]] = t BY DEF Direct, ProtoGo
<1>2. ProtoGoType(ProtoFieldSpec(Direct[t], o, "", "")) = PtrIf(o, t) BY <1>1 DEF ProtoGoType, ProtoFieldSpec
<1> QED BY <1>2 DEF ConvertsAs, Converts, ProtoFieldSpec

\* A small int is widened, and read back as its own type.
LEMMA WidenedBack == ASSUME NEW t \in SmallInts \cup SmallUints, NEW o \in BOOLEAN, o => t \in {"int", "uint"}
                     PROVE  ConvertsAs(Widened(t, o), PtrIf(o, t))
<1>1. CASE t \in SmallInts /\ ~o
  BY <1>1 DEF ConvertsAs, Converts, Widened, ProtoFieldSpec, ProtoGoType, ProtoGo, PtrIf, Plain, GoInts, SmallInts
<1>2. CASE t \in SmallUints /\ ~o
  <2>1. t \notin SmallInts BY <1>2 DEF SmallInts, SmallUints
  <2> QED BY <1>2, <2>1 DEF ConvertsAs, Converts, Widened, ProtoFieldSpec, ProtoGoType, ProtoGo, PtrIf, Plain, GoInts, SmallUints
<1>3. CASE t = "int" /\ o
  <2>1. Helpers.toInt64Ptr = <<Ptr("int"), Ptr("int64")>> /\ Helpers.fromInt64Ptr = <<Ptr("int64"), Ptr("int")>> BY DEF Helpers
  <2>2. Converts("toInt64Ptr", Ptr("int"), Ptr("int64")) BY <2>1, CallsConvert DEF Helpers
  <2>3. Converts("fromInt64Ptr", Ptr("int64"), Ptr("int")) BY <2>1, CallsConvert DEF Helpers
  <2> QED BY <1>3, <2>2, <2>3 DEF ConvertsAs, Widened, ProtoFieldSpec, ProtoGoType, ProtoGo, PtrIf, SmallInts
<1>4. CASE t = "uint" /\ o
  <2>1. Helpers.toUint64Ptr = <<Ptr("uint"), Ptr("uint64")>> /\ Helpers.fromUint64Ptr = <<Ptr("uint64"), Ptr("uint")>> BY DEF Helpers
  <2>2. Converts("toUint64Ptr", Ptr("uint"), Ptr("uint64")) BY <2>1, CallsConvert DEF Helpers
  <2>3. Converts("fromUint64Ptr", Ptr("uint64"), Ptr("uint")) BY <2>1, CallsConvert DEF Helpers
  <2> QED BY <1>4, <2>2, <2>3 DEF ConvertsAs, Widened, ProtoFieldSpec, ProtoGoType, ProtoGo, PtrIf, SmallInts
<1> QED BY <1>1, <1>2, <1>3, <1>4

\* Times and durations, by value and by pointer, and maps have calls of their own.
LEMMA TimesConvert == ASSUME NEW o \in BOOLEAN
                      PROVE  /\ ConvertsAs(Inferred("google.protobuf.Timestamp", o), PtrIf(o, "time.Time"))
                             /\ ConvertsAs([Inferred("google.protobuf.Timestamp", o) EXCEPT !.optional = FALSE], PtrIf(o, "time.Time"))
<1> DEFINE S == Inferred("google.protobuf.Timestamp", o)
           T == [S EXCEPT !.optional = FALSE]
           P == Ptr("google.protobuf.Timestamp")
<1>1. ProtoGoType(S) = P /\ ProtoGoType(T) = P
  BY DEF Inferred, inferConversionExprs, ProtoFieldSpec, ProtoGoType, ProtoGo
<1>2. T.to = S.to /\ T.from = S.from BY DEF Inferred, ProtoFieldSpec
<1>3. Converts(S.to, PtrIf(o, "time.Time"), P) /\ Converts(S.from, P, PtrIf(o, "time.Time"))
  <2>1. CASE o
    <3>1. S.to = "timeToTimestampProto" /\ S.from = "timestampProtoToTime"
      BY <2>1 DEF Inferred, inferConversionExprs, ProtoFieldSpec
    <3>2. Helpers.timeToTimestampProto = <<Ptr("time.Time"), P>> /\ Helpers.timestampProtoToTime = <<P, Ptr("time.Time")>>
      BY DEF Helpers
    <3> HIDE DEF S, P
    <3>3. Converts("timeToTimestampProto", Ptr("time.Time"), P) BY <3>2, CallsConvert DEF Helpers
    <3>4. Converts("timestampProtoToTime", P, Ptr("time.Time")) BY <3>2, CallsConvert DEF Helpers
    <3> QED BY <2>1, <3>1, <3>3, <3>4 DEF PtrIf
  <2>2. CASE ~o
    <3>1. S.to = "timestamppb.New" /\ S.from = "AsTime" BY <2>2 DEF Inferred, inferConversionExprs, ProtoFieldSpec
    <3>2. Converts("timestamppb.New", Plain("time.Time"), P) /\ Converts("AsTime", P, Plain("time.Time"))
      BY CallsConvert DEF Methods
    <3> HIDE DEF S, P
    <3> QED BY <2>2, <3>1, <3>2 DEF PtrIf
  <2> QED BY <2>1, <2>2
<1> HIDE DEF S, T, P
<1>4. ConvertsAs(S, PtrIf(o, "time.Time")) /\ ConvertsAs(T, PtrIf(o, "time.Time")) BY <1>1, <1>2, <1>3 DEF ConvertsAs
<1> QED BY <1>4 DEF S, T

LEMMA DurationsConvert == ASSUME NEW o \in BOOLEAN
                          PROVE  ConvertsAs(Inferred("google.protobuf.Duration", o), PtrIf(o, "time.Duration"))
<1> DEFINE S == Inferred("google.protobuf.Duration", o)
           P == Ptr("google.protobuf.Duration")
<1>1. ProtoGoType(S) = P BY DEF Inferred, inferConversionExprs, ProtoFieldSpec, ProtoGoType, ProtoGo
<1>2. Converts(S.to, PtrIf(o, "time.Duration"), P) /\ Converts(S.from, P, PtrIf(o, "time.Duration"))
  <2>1. CASE o
    <3>1. S.to = "durationToDurationProto" /\ S.from = "durationProtoToDuration"
      BY <2>1 DEF Inferred, inferConversionExprs, ProtoFieldSpec
    <3>2. Helpers.durationToDurationProto = <<Ptr("time.Duration"), P>> /\ Helpers.durationProtoToDuration = <<P, Ptr("time.Duration")>>
      BY DEF Helpers
    <3> HIDE DEF S, P
    <3>3. Converts("durationToDurationProto", Ptr("time.Duration"), P) BY <3>2, CallsConvert DEF Helpers
    <3>4. Converts("durationProtoToDuration", P, Ptr("time.Duration")) BY <3>2, CallsConvert DEF Helpers
    <3> QED BY <2>1, <3>1, <3>3, <3>4 DEF PtrIf
  <2>2. CASE ~o
    <3>1. S.to = "durationpb.New" /\ S.from = "AsDuration" BY <2>2 DEF Inferred, inferConversionExprs, ProtoFieldSpec
    <3>2. Converts("durationpb.New", Plain("time.Duration"), P) /\ Converts("AsDuration", P, Plain("time.Duration"))
      BY CallsConvert DEF Methods
    <3> HIDE DEF S, P
    <3> QED BY <2>2, <3>1, <3>2 DEF PtrIf
  <2> QED BY <2>1, <2>2
<1> HIDE DEF S, P
<1>3. ConvertsAs(S, PtrIf(o, "time.Duration")) BY <1>1, <1>2 DEF ConvertsAs
<1> QED BY <1>3 DEF S

LEMMA MapsConvert == ConvertsAs(Inferred("google.protobuf.Struct", FALSE), Plain("map[string]any"))
<1> DEFINE S == Inferred("google.protobuf.Struct", FALSE)
           P == Ptr("google.protobuf.Struct")
<1>1. ProtoGoType(S) = P /\ S.to = "mapToProtoStruct" /\ S.from = "protoStructToMap"
  BY DEF Inferred, inferConversionExprs, ProtoFieldSpec, ProtoGoType, ProtoGo
<1>2. Helpers.mapToProtoStruct = <<Plain("map[string]any"), P>> /\ Helpers.protoStructToMap = <<P, Plain("map[string]any")>>
  BY DEF Helpers
<1> HIDE DEF S, P
<1>3. Converts("mapToProtoStruct", Plain("map[string]any"), P) BY <1>2, CallsConvert DEF Helpers
<1>4. Converts("protoStructToMap", P, Plain("map[string]any")) BY <1>2, CallsConvert DEF Helpers
<1>5. ConvertsAs(S, Plain("map[string]any")) BY <1>1, <1>3, <1>4 DEF ConvertsAs
<1> QED BY <1>5 DEF S

LEMMA UuidsConvert ==
  /\ ConvertsAs(ProtoFieldSpec("string", TRUE, "uuidPtrToProtoString", "protoStringToUUIDPtr"), Ptr("uuid.UUID"))
  /\ ConvertsAs(ProtoFieldSpec("string", FALSE, "String", "uuid.MustParse"), Plain("uuid.UUID"))
<1>1. Helpers.uuidPtrToProtoString = <<Ptr("uuid.UUID"), Ptr("string")>> /\ Helpers.protoStringToUUIDPtr = <<Ptr("string"), Ptr("uuid.UUID")>>
  BY DEF Helpers
<1>2. Converts("uuidPtrToProtoString", Ptr("uuid.UUID"), Ptr("string")) BY <1>1, CallsConvert DEF Helpers
<1>3. Converts("protoStringToUUIDPtr", Ptr("string"), Ptr("uuid.UUID")) BY <1>1, CallsConvert DEF Helpers
<1>4. Converts("String", Plain("uuid.UUID"), Plain("string")) /\ Converts("uuid.MustParse", Plain("string"), Plain("uuid.UUID"))
  BY CallsConvert DEF Methods
<1>5. /\ ProtoGoType(ProtoFieldSpec("string", TRUE, "uuidPtrToProtoString", "protoStringToUUIDPtr")) = Ptr("string")
      /\ ProtoGoType(ProtoFieldSpec("string", FALSE, "String", "uuid.MustParse")) = Plain("string")
  BY DEF ProtoGoType, ProtoFieldSpec, ProtoGo, PtrIf
<1> QED BY <1>2, <1>3, <1>4, <1>5 DEF ConvertsAs, ProtoFieldSpec

LEMMA EnumsConvert == ASSUME NEW n
                      PROVE  ConvertsAs([ProtoFieldSpec(n, FALSE, "enumToProto", "enumFromProto") EXCEPT !.enum = TRUE], Plain(n))
<1> DEFINE S == [ProtoFieldSpec(n, FALSE, "enumToProto", "enumFromProto") EXCEPT !.enum = TRUE]
<1>1. ProtoGoType(S) = Plain("pb." \o n) /\ S.to = "enumToProto" /\ S.from = "enumFromProto"
  BY DEF ProtoGoType, ProtoFieldSpec, PtrIf
<1>2. Converts("enumToProto", Plain(n), Plain("pb." \o n)) /\ Converts("enumFromProto", Plain("pb." \o n), Plain(n))
  BY DEF Converts, Plain
<1> HIDE DEF S
<1>3. ConvertsAs(S, Plain(n)) BY <1>1, <1>2 DEF ConvertsAs
<1> QED BY <1>3 DEF S

\* The Go types that have a proto type of their own, but for a copied UUID.
LEMMA WellKnownConverts == ASSUME NEW go, NEW o \in BOOLEAN, go # "uuid.UUID", ~resolveWellKnownGoType(go, o).excluded
                           PROVE  ConvertsAs(resolveWellKnownGoType(go, o), PtrIf(o, go)) /\ go \in {"time.Time", "time.Duration"}
<1>1. go \in {"time.Time", "time.Duration"} BY DEF resolveWellKnownGoType, WellKnown, Excluded, ProtoFieldSpec
<1>2. CASE go = "time.Time"
  <2>1. resolveWellKnownGoType(go, o) = Inferred("google.protobuf.Timestamp", o) BY <1>2 DEF resolveWellKnownGoType, WellKnown
  <2> QED BY <1>2, <2>1, TimesConvert
<1>3. CASE go = "time.Duration"
  <2>1. resolveWellKnownGoType(go, o) = Inferred("google.protobuf.Duration", o) BY <1>3 DEF resolveWellKnownGoType, WellKnown
  <2> QED BY <1>3, <2>1, DurationsConvert
<1> QED BY <1>1, <1>2, <1>3

LEMMA FieldConverts == ASSUME NEW f, FieldMaps(f), ~resolveEntFieldProtoSpec(f).excluded
                       PROVE  ConvertsAs(resolveEntFieldProtoSpec(f), fieldToDomainType(f))
<1> DEFINE spec == resolveEntFieldProtoSpec(f)
<1>1. CASE f.override # "" BY <1>1 DEF FieldMaps
<1>2. CASE f.override = "" /\ f.type = "uuid"
  <2>1. f.go = "uuid.UUID" BY <1>2 DEF resolveEntFieldProtoSpec, Excluded, ProtoFieldSpec
  <2>2. fieldToDomainType(f) = PtrIf(f.optional, "uuid.UUID") BY <2>1 DEF fieldToDomainType, FieldMaps
  <2>3. CASE f.optional BY <1>2, <2>1, <2>2, <2>3, UuidsConvert DEF resolveEntFieldProtoSpec, PtrIf
  <2>4. CASE ~f.optional BY <1>2, <2>1, <2>2, <2>4, UuidsConvert DEF resolveEntFieldProtoSpec, PtrIf
  <2> QED BY <2>3, <2>4
<1>3. CASE f.override = "" /\ f.type = "json"
  <2>1. f.go = "map[string]any" /\ spec = Inferred("google.protobuf.Struct", FALSE)
    BY <1>3 DEF resolveEntFieldProtoSpec, Excluded, ProtoFieldSpec
  <2>2. fieldToDomainType(f) = Plain("map[string]any") BY <2>1 DEF fieldToDomainType, PtrIf
  <2> QED BY <2>1, <2>2, MapsConvert
<1>4. CASE f.override = "" /\ f.type \notin {"uuid", "json"} /\ f.go # ""
  <2>1. spec = resolveWellKnownGoType(f.go, f.optional) BY <1>4 DEF resolveEntFieldProtoSpec
  <2>2. f.go # "uuid.UUID" /\ f.optional \in BOOLEAN BY <1>4 DEF FieldMaps
  <2>3. ConvertsAs(spec, PtrIf(f.optional, f.go)) /\ f.go \in {"time.Time", "time.Duration"} BY <2>1, <2>2, WellKnownConverts
  <2>4. fieldToDomainType(f) = PtrIf(f.optional, f.go) BY <2>2, <2>3 DEF fieldToDomainType
  <2> QED BY <2>3, <2>4
<1>5. CASE f.override = "" /\ f.type \notin {"uuid", "json"} /\ f.go = ""
  <2> DEFINE later == f.type \in {"time", "enum", "bytes"}
  <2>1. f.optional \in BOOLEAN BY DEF FieldMaps
  <2>2. CASE f.type \in DOMAIN Direct
    <3>1. spec = ProtoFieldSpec(Direct[f.type], f.optional, "", "") BY <1>5, <2>2 DEF resolveEntFieldProtoSpec
    <3>2. ~later BY <2>2 DEF Direct
    <3>3. fieldToDomainType(f) = PtrIf(f.optional, f.type) BY <1>5, <3>2 DEF fieldToDomainType
    <3> QED BY <2>1, <2>2, <3>1, <3>3, Copied
  <2>3. CASE f.type \in SmallInts \cup SmallUints
    <3>1. f.type \notin DOMAIN Direct /\ ~later BY <2>3 DEF Direct, SmallInts, SmallUints
    <3>2. spec = Widened(f.type, f.optional) BY <1>5, <2>3, <3>1 DEF resolveEntFieldProtoSpec
    <3>3. fieldToDomainType(f) = PtrIf(f.optional, f.type) BY <1>5, <3>1 DEF fieldToDomainType
    <3>4. f.optional => f.type \in {"int", "uint"} BY <1>5, <2>3 DEF FieldMaps, SmallInts, SmallUints
    <3> QED BY <2>1, <2>3, <3>2, <3>3, <3>4, WidenedBack
  <2>4. CASE f.type = "time"
    <3>1. f.type \notin DOMAIN Direct /\ f.type \notin SmallInts \cup SmallUints BY <2>4 DEF Direct, SmallInts, SmallUints
    <3>2. spec = [Inferred("google.protobuf.Timestamp", f.optional) EXCEPT !.optional = FALSE]
      BY <1>5, <2>4, <3>1 DEF resolveEntFieldProtoSpec
    <3>3. fieldToDomainType(f) = PtrIf(f.optional, "time.Time") BY <1>5, <2>4 DEF fieldToDomainType
    <3> QED BY <2>1, <3>2, <3>3, TimesConvert
  <2>5. CASE f.type = "enum"
    <3>1. f.type \notin DOMAIN Direct /\ f.type \notin SmallInts \cup SmallUints BY <2>5 DEF Direct, SmallInts, SmallUints
    <3>2. ~f.optional BY <1>5, <2>5 DEF FieldMaps
    <3>3. spec = [ProtoFieldSpec(f.enum, FALSE, "enumToProto", "enumFromProto") EXCEPT !.enum = TRUE]
      BY <1>5, <2>1, <2>5, <3>1, <3>2 DEF resolveEntFieldProtoSpec
    <3>4. fieldToDomainType(f) = Plain(f.enum) BY <1>5, <2>5, <3>2 DEF fieldToDomainType, PtrIf
    <3> QED BY <3>3, <3>4, EnumsConvert
  <2>6. CASE f.type \notin DOMAIN Direct \cup SmallInts \cup SmallUints \cup {"time", "enum"}
    BY <1>5, <2>6 DEF resolveEntFieldProtoSpec, Excluded, ProtoFieldSpec
  <2> QED BY <2>2, <2>3, <2>4, <2>5, <2>6
<1> QED BY <1>1, <1>2, <1>3, <1>4, <1>5

LEMMA VirtualConverts == ASSUME NEW v, VirtualMaps(v), ~resolveVirtualFieldProtoSpec(v).excluded
                         PROVE  ConvertsAs(resolveVirtualFieldProtoSpec(v), resolveGoTypeDomainStr(v))
<1>1. CASE v.override # "" BY <1>1 DEF VirtualMaps
<1>2. CASE v.override = "" /\ v.packaged
  <2>1. resolveVirtualFieldProtoSpec(v) = resolveWellKnownGoType(v.go, v.optional) BY <1>2 DEF resolveVirtualFieldProtoSpec
  <2>2. v.go # "uuid.UUID" /\ v.optional \in BOOLEAN BY <1>2 DEF VirtualMaps
  <2> QED BY <2>1, <2>2, WellKnownConverts DEF resolveGoTypeDomainStr
<1>3. CASE v.override = "" /\ ~v.packaged
  <2>1. v.optional \in BOOLEAN BY DEF VirtualMaps
  <2> DEFINE direct == v.go \in VirtualDirect \/ (v.go \in {"int64", "int32"} /\ ~v.optional)
  <2>2. CASE direct
    <3>1. resolveVirtualFieldProtoSpec(v) = ProtoFieldSpec(Direct[v.go], v.optional, "", "")
      BY <1>3, <2>2 DEF resolveVirtualFieldProtoSpec
    <3>2. v.go \in DOMAIN Direct BY <2>2 DEF Direct, VirtualDirect
    <3> QED BY <2>1, <3>1, <3>2, Copied DEF resolveGoTypeDomainStr
  <2>3. CASE ~direct /\ v.go = "int"
    <3>1. resolveVirtualFieldProtoSpec(v) = Widened("int", v.optional) BY <1>3, <2>3 DEF resolveVirtualFieldProtoSpec
    <3> QED BY <2>1, <2>3, <3>1, WidenedBack DEF resolveGoTypeDomainStr, SmallInts
  <2>4. CASE ~direct /\ v.go # "int"
    BY <1>3, <2>4 DEF resolveVirtualFieldProtoSpec, Excluded, ProtoFieldSpec
  <2> QED BY <2>2, <2>3, <2>4
<1> QED BY <1>1, <1>2, <1>3

\* The ids of an edge: one id as a field of its type, many as a slice, of which
\* those that are int64 in proto come from a helper.
LEMMA OneIdConverts ==
  ASSUME NEW t \in {"int", "uuid", "uint"} \cup CopiedIDs
  PROVE  ConvertsAs(resolveIDTypeSpec(t, TRUE), Plain(IF t = "uuid" THEN "uuid.UUID" ELSE t))
<1> DEFINE spec == resolveIDTypeSpec(t, TRUE)
<1>1. CASE t = "int"
  <2>1. spec.to = "int64" /\ spec.from = "int" /\ ProtoGoType(spec) = Plain("int64")
    BY <1>1 DEF resolveIDTypeSpec, ProtoFieldSpec, SmallInts, ProtoGoType, ProtoGo, PtrIf
  <2>2. Converts("int64", Plain("int"), Plain("int64")) /\ Converts("int", Plain("int64"), Plain("int"))
    BY DEF Converts, GoInts, SmallInts, Plain
  <2> QED BY <1>1, <2>1, <2>2 DEF ConvertsAs
<1>2. CASE t = "uint"
  <2>1. spec.to = "uint64" /\ spec.from = "uint" /\ ProtoGoType(spec) = Plain("uint64")
    BY <1>2 DEF resolveIDTypeSpec, ProtoFieldSpec, SmallInts, SmallUints, ProtoGoType, ProtoGo, PtrIf
  <2>2. Converts("uint64", Plain("uint"), Plain("uint64")) /\ Converts("uint", Plain("uint64"), Plain("uint"))
    BY DEF Converts, GoInts, SmallUints, Plain
  <2> QED BY <1>2, <2>1, <2>2 DEF ConvertsAs
<1>3. CASE t = "uuid"
  <2>1. t \notin SmallInts \cup SmallUints \cup CopiedIDs BY <1>3 DEF SmallInts, SmallUints, CopiedIDs
  <2>2. spec.to = "String" /\ spec.from = "uuid.MustParse" /\ ProtoGoType(spec) = Plain("string")
    BY <2>1 DEF resolveIDTypeSpec, ProtoFieldSpec, ProtoGoType, ProtoGo, PtrIf
  <2>3. Converts("String", Plain("uuid.UUID"), Plain("string")) /\ Converts("uuid.MustParse", Plain("string"), Plain("uuid.UUID"))
    BY CallsConvert DEF Methods
  <2> QED BY <1>3, <2>2, <2>3 DEF ConvertsAs
<1>4. CASE t \in CopiedIDs
  <2>1. t \notin SmallInts \cup SmallUints /\ t # "uuid" BY <1>4 DEF SmallInts, SmallUints, CopiedIDs
  <2>2. t \in DOMAIN ProtoGo /\ ProtoGo[t] = t BY <1>4 DEF CopiedIDs, ProtoGo
  <2>3. spec.to = "" /\ spec.from = "" BY <1>4, <2>1 DEF resolveIDTypeSpec, ProtoFieldSpec
  <2>4. ProtoGoType(spec) = Plain(t) BY <1>4, <2>1, <2>2 DEF resolveIDTypeSpec, ProtoFieldSpec, ProtoGoType, PtrIf
  <2> QED BY <2>1, <2>3, <2>4 DEF ConvertsAs, Converts
<1> QED BY <1>1, <1>2, <1>3, <1>4

LEMMA ManyIdsConvert ==
  ASSUME NEW e, e.unique = FALSE, e.target \in {"int", "uuid"} \cup (CopiedIDs \ {"int64"}), ~IDsSpec(e).excluded
  PROVE  /\ Converts(MappedIDs(e).to, EdgeIDType(e), ProtoGoType(IDsSpec(e)))
         /\ Converts(MappedIDs(e).from, ProtoGoType(IDsSpec(e)), EdgeIDType(e))
<1> DEFINE spec == IDsSpec(e)
<1>1. spec = resolveIDTypeSpec(e.target, FALSE) BY DEF IDsSpec, Excluded, ProtoFieldSpec
<1>2. EdgeIDType(e) = Slice(IF e.target = "uuid" THEN "uuid.UUID" ELSE e.target) BY DEF EdgeIDType, IDGoType
<1>3. spec.repeated BY <1>1 DEF resolveIDTypeSpec, ProtoFieldSpec
<1>4. CASE e.target = "int"
  <2>1. spec.proto = "int64" /\ ProtoGoType(spec) = Slice("int64")
    <3>1. spec.proto = "int64" /\ ~spec.nest BY <1>1, <1>4 DEF resolveIDTypeSpec, ProtoFieldSpec, SmallInts
    <3> HIDE DEF spec
    <3> QED BY <1>3, <3>1 DEF ProtoGoType, ProtoGo
  <2>2. MappedIDs(e).to = "toInt64Slice" /\ MappedIDs(e).from = "fromInt64Slice"
    BY <1>1, <1>3, <2>1 DEF MappedIDs, Mapped, resolveIDTypeSpec, ProtoFieldSpec
  <2>3. Helpers.toInt64Slice = <<Slice("int"), Slice("int64")>> /\ Helpers.fromInt64Slice = <<Slice("int64"), Slice("int")>> BY DEF Helpers
  <2>4. Converts("toInt64Slice", Slice("int"), Slice("int64")) BY <2>3, CallsConvert DEF Helpers
  <2>5. Converts("fromInt64Slice", Slice("int64"), Slice("int")) BY <2>3, CallsConvert DEF Helpers
  <2> QED BY <1>2, <1>4, <2>1, <2>2, <2>4, <2>5
<1>5. CASE e.target = "uuid"
  <2>1. e.target \notin SmallInts \cup SmallUints \cup CopiedIDs BY <1>5 DEF SmallInts, SmallUints, CopiedIDs
  <2>2. spec.proto = "string" /\ ProtoGoType(spec) = Slice("string")
    <3>1. spec.proto = "string" /\ ~spec.nest BY <1>1, <2>1 DEF resolveIDTypeSpec, ProtoFieldSpec
    <3> HIDE DEF spec
    <3> QED BY <1>3, <3>1 DEF ProtoGoType, ProtoGo
  <2>3. spec.to = "uuidSliceToStringSlice" /\ spec.from = "stringSliceToUUIDSlice"
    BY <1>1, <2>1 DEF resolveIDTypeSpec, ProtoFieldSpec
  <2>4. MappedIDs(e).to = spec.to /\ MappedIDs(e).from = spec.from BY <2>2 DEF MappedIDs, Mapped
  <2>5. /\ Helpers.uuidSliceToStringSlice = <<Slice("uuid.UUID"), Slice("string")>>
        /\ Helpers.stringSliceToUUIDSlice = <<Slice("string"), Slice("uuid.UUID")>>
    BY DEF Helpers
  <2>6. Converts("uuidSliceToStringSlice", Slice("uuid.UUID"), Slice("string")) BY <2>5, CallsConvert DEF Helpers
  <2>7. Converts("stringSliceToUUIDSlice", Slice("string"), Slice("uuid.UUID")) BY <2>5, CallsConvert DEF Helpers
  <2> QED BY <1>2, <1>5, <2>2, <2>3, <2>4, <2>6, <2>7
<1>6. CASE e.target \in CopiedIDs \ {"int64"}
  <2>1. e.target \notin SmallInts \cup SmallUints /\ e.target # "uuid" BY <1>6 DEF SmallInts, SmallUints, CopiedIDs
  <2>2. e.target \in DOMAIN ProtoGo /\ ProtoGo[e.target] = e.target /\ e.target # "int64"
    BY <1>6 DEF CopiedIDs, ProtoGo
  <2>3. spec.proto = e.target /\ ProtoGoType(spec) = Slice(e.target) /\ spec.to = "" /\ spec.from = ""
    BY <1>1, <1>6, <2>1, <2>2 DEF resolveIDTypeSpec, ProtoFieldSpec, ProtoGoType
  <2>4. MappedIDs(e).to = "" /\ MappedIDs(e).from = "" BY <2>2, <2>3 DEF MappedIDs, Mapped
  <2> QED BY <1>2, <2>1, <2>3, <2>4 DEF Converts
<1> QED BY <1>4, <1>5, <1>6

LEMMA IdsConvert ==
  ASSUME NEW e, EdgeMaps(e), ~IDsSpec(e).excluded
  PROVE  /\ Converts(MappedIDs(e).to, EdgeIDType(e), ProtoGoType(IDsSpec(e)))
         /\ Converts(MappedIDs(e).from, ProtoGoType(IDsSpec(e)), EdgeIDType(e))
         /\ MappedIDs(e).name = EdgeIDName(e) /\ MappedIDs(e).dom = EdgeIDType(e)
         /\ MappedIDs(e).proto = GoCamelCase(IDsName(e))
<1>1. ~e.skip /\ e.target # "custom" /\ IDsSpec(e) = resolveIDTypeSpec(e.target, e.unique)
  BY DEF IDsSpec, Excluded, ProtoFieldSpec
<1>2. /\ MappedIDs(e).name = EdgeIDName(e) /\ MappedIDs(e).dom = EdgeIDType(e) /\ MappedIDs(e).proto = EdgeProtoName(e)
  BY DEF MappedIDs, Mapped
<1>5. EdgeProtoName(e) = GoCamelCase(IDsName(e))
  <2>1. e.name \in Seq(STRING) /\ e.name # <<>> /\ e.one \in STRING BY DEF EdgeMaps
  <2>2. "id" \notin Numbered /\ "ids" \notin Numbered BY NumberedAssumption
  <2>3. CASE e.unique
    <3>1. Without(e.name, Acronyms \cup Numbered) BY <2>3 DEF EdgeMaps
    <3>2. GoCamelCase(Append(e.name, "id")) = Append(pascal(e.name), Capital("id")) BY ONLY <2>1, <2>2, <3>1, SpelledAlike, Zenon
    <3> QED BY <2>3, <3>2 DEF EdgeProtoName, IDsName
  <2>4. CASE ~e.unique
    <3>1. Without(singular(e.name, e), Acronyms \cup Numbered) BY <2>4 DEF EdgeMaps
    <3>2. singular(e.name, e) \in Seq(STRING) BY <2>1, LastReplaced
    <3> DEFINE n == singular(e.name, e)
    <3> HIDE DEF n
    <3>3. GoCamelCase(Append(n, "ids")) = Append(pascal(n), Capital("ids")) BY ONLY <2>2, <3>1, <3>2, SpelledAlike, Zenon DEF n
    <3> QED BY <2>4, <3>3 DEF EdgeProtoName, IDsName, n
  <2> QED BY <2>3, <2>4
<1>3. CASE e.unique
  <2>1. e.unique = TRUE BY <1>3 DEF EdgeMaps
  <2>2. e.target \in {"int", "uuid", "uint"} \cup CopiedIDs BY <1>1, <1>3 DEF EdgeMaps
  <2>3. ConvertsAs(IDsSpec(e), EdgeIDType(e)) BY <1>1, <2>1, <2>2, OneIdConverts DEF EdgeIDType, IDGoType
  <2>4. ~IDsSpec(e).repeated BY <1>1, <2>1 DEF resolveIDTypeSpec, ProtoFieldSpec
  <2>5. MappedIDs(e).to = IDsSpec(e).to /\ MappedIDs(e).from = IDsSpec(e).from BY <2>4 DEF MappedIDs, Mapped
  <2> QED BY <1>2, <1>5, <2>3, <2>5 DEF ConvertsAs
<1>4. CASE ~e.unique
  <2>1. e.unique = FALSE BY <1>4 DEF EdgeMaps
  <2>2. e.target \in {"int", "uuid"} \cup (CopiedIDs \ {"int64"}) BY <1>1, <1>4 DEF EdgeMaps
  <2> QED BY <1>2, <1>5, <2>1, <2>2, ManyIdsConvert
<1> QED BY <1>3, <1>4

\* Taking the optional mark off what is not optional changes nothing.
Unmarked(spec) ==
    LET sent == [spec EXCEPT !.optional = FALSE]
    IN  /\ sent.excluded = spec.excluded /\ sent.proto = spec.proto /\ sent.optional = spec.optional
        /\ sent.repeated = spec.repeated /\ sent.enum = spec.enum /\ sent.nest = spec.nest

LEMMA UnmarkedSpecs ==
  /\ \A proto, to, from : Unmarked(ProtoFieldSpec(proto, FALSE, to, from))
  /\ \A proto, to, from : Unmarked([ProtoFieldSpec(proto, FALSE, to, from) EXCEPT !.enum = TRUE])
  /\ \A proto, to, from, t2, f2 :
       Unmarked([ProtoFieldSpec(proto, FALSE, to, from) EXCEPT !.repeated = TRUE, !.to = t2, !.from = f2])
  /\ Unmarked(Excluded)
  /\ \A proto : Unmarked(Inferred(proto, FALSE))
<1>1. \A proto, to, from : Unmarked(ProtoFieldSpec(proto, FALSE, to, from)) BY DEF Unmarked, ProtoFieldSpec
<1>2. \A proto, to, from : Unmarked([ProtoFieldSpec(proto, FALSE, to, from) EXCEPT !.enum = TRUE])
  BY DEF Unmarked, ProtoFieldSpec
<1>3. \A proto, to, from, t2, f2 :
        Unmarked([ProtoFieldSpec(proto, FALSE, to, from) EXCEPT !.repeated = TRUE, !.to = t2, !.from = f2])
  BY DEF Unmarked, ProtoFieldSpec
<1>4. Unmarked(Excluded) BY DEF Unmarked, Excluded, ProtoFieldSpec
<1>5. \A proto : Unmarked(Inferred(proto, FALSE)) BY <1>1 DEF Inferred
<1> QED BY <1>1, <1>2, <1>3, <1>4, <1>5

LEMMA RequiredUnmarked == ASSUME NEW f, f.optional = FALSE PROVE Unmarked(resolveEntFieldProtoSpec(f))
<1> DEFINE spec == resolveEntFieldProtoSpec(f)
<1> SUFFICES Unmarked(spec) OBVIOUS
<1> HIDE DEF spec
<1>1. CASE f.override # ""
  <2>1. spec = Overridden(f.override, f.go, FALSE, f.exprs) BY <1>1 DEF spec, resolveEntFieldProtoSpec
  <2>2. CASE f.go = "[]string"
    <3>1. spec = [ProtoFieldSpec(f.override, FALSE, "", "") EXCEPT !.repeated = TRUE, !.to = f.exprs[1], !.from = f.exprs[2]]
      BY <2>1, <2>2 DEF Overridden
    <3> QED BY <3>1, UnmarkedSpecs
  <2>3. CASE f.go # "[]string" /\ f.exprs # <<"", "">>
    <3>1. spec = ProtoFieldSpec(f.override, FALSE, f.exprs[1], f.exprs[2]) BY <2>1, <2>3 DEF Overridden
    <3> QED BY <3>1, UnmarkedSpecs
  <2>4. CASE f.go # "[]string" /\ f.exprs = <<"", "">>
    <3>1. spec = Inferred(f.override, FALSE) BY <2>1, <2>4 DEF Overridden
    <3> QED BY <3>1, UnmarkedSpecs
  <2> QED BY <2>2, <2>3, <2>4
<1>2. CASE f.override = "" /\ f.type \in {"uuid", "json"}
  BY <1>2, UnmarkedSpecs DEF spec, resolveEntFieldProtoSpec
<1>3. CASE f.override = "" /\ f.type \notin {"uuid", "json"} /\ f.go # ""
  <2>1. spec = resolveWellKnownGoType(f.go, FALSE) BY <1>3 DEF spec, resolveEntFieldProtoSpec
  <2> QED BY <2>1, UnmarkedSpecs DEF resolveWellKnownGoType
<1>4. CASE f.override = "" /\ f.type \notin {"uuid", "json"} /\ f.go = ""
  <2>1. Unmarked(Widened(f.type, FALSE)) BY UnmarkedSpecs DEF Widened
  <2>2. Unmarked([Inferred("google.protobuf.Timestamp", FALSE) EXCEPT !.optional = FALSE])
    BY DEF Unmarked, Inferred, ProtoFieldSpec
  <2>3. \/ spec = ProtoFieldSpec(Direct[f.type], FALSE, "", "") \/ spec = Widened(f.type, FALSE)
        \/ spec = [Inferred("google.protobuf.Timestamp", FALSE) EXCEPT !.optional = FALSE]
        \/ spec = [ProtoFieldSpec(f.enum, FALSE, "enumToProto", "enumFromProto") EXCEPT !.enum = TRUE]
        \/ spec = Excluded
    BY <1>4 DEF spec, resolveEntFieldProtoSpec
  <2>4. CASE spec = ProtoFieldSpec(Direct[f.type], FALSE, "", "") BY <2>4, UnmarkedSpecs
  <2>5. CASE spec = [ProtoFieldSpec(f.enum, FALSE, "enumToProto", "enumFromProto") EXCEPT !.enum = TRUE]
    BY <2>5, UnmarkedSpecs
  <2> QED BY <2>1, <2>2, <2>3, <2>4, <2>5, UnmarkedSpecs
<1> QED BY <1>1, <1>2, <1>3, <1>4

\* The functions that walk the schema come to the same fields under the same
\* names, and the expressions of the one convert between the types of the others.
LEMMA MappableCompiles == ASSUME NEW d, Mappable(d) PROVE Compiles(MapperFields(d), Message(d), Struct(d))
<1> DEFINE Fits(m) ==
             /\ StructField(m.name, m.dom) \in Struct(d)
             /\ \E p \in Message(d) : GoCamelCase(p.name) = m.proto /\ Converts(m.to, m.dom, p.go) /\ Converts(m.from, p.go, m.dom)
<1>1. ASSUME NEW m, NEW n, NEW spec, Wire(n, spec) \in Message(d), StructField(m.name, m.dom) \in Struct(d),
             m.proto = GoCamelCase(n), Converts(m.to, m.dom, ProtoGoType(spec)), Converts(m.from, ProtoGoType(spec), m.dom)
      PROVE  Fits(m)
  <2>1. Wire(n, spec).name = n /\ Wire(n, spec).go = ProtoGoType(spec) BY DEF Wire
  <2> QED BY <1>1, <2>1
<1>2. \A n, proto, dom, spec :
        /\ Mapped(n, proto, dom, spec).name = n /\ Mapped(n, proto, dom, spec).proto = proto /\ Mapped(n, proto, dom, spec).dom = dom
        /\ Mapped(n, proto, dom, spec).to = spec.to /\ Mapped(n, proto, dom, spec).from = spec.from
  BY DEF Mapped
<1> HIDE DEF Fits
<1>3. ASSUME NEW n, NEW spec, NEW dom, Without(n, Numbered), Wire(n, spec) \in Message(d), ConvertsAs(spec, dom),
             StructField(pascal(n), dom) \in Struct(d)
      PROVE  Fits(Mapped(pascal(n), protoPascal(n), dom, spec))
  <2>1. protoPascal(n) = GoCamelCase(n) BY <1>3, SameWords
  <2> QED BY <1>1, <1>2, <1>3, <2>1 DEF ConvertsAs
<1>4. Fits(MappedID(d))
  <2> DEFINE spec == resolveEntFieldProtoSpec(d.id)
             dom == fieldToDomainType(d.id)
  <2>1. ~spec.excluded /\ ConvertsAs(spec, dom) BY FieldConverts DEF Mappable
  <2>2. d.id.optional = FALSE BY DEF Mappable, FieldMaps
  <2> DEFINE sent == [spec EXCEPT !.optional = FALSE]
  <2>3. Unmarked(spec) BY <2>2, RequiredUnmarked
  <2>4. ProtoGoType(sent) = ProtoGoType(spec)
    <3>1. /\ sent.excluded = spec.excluded /\ sent.proto = spec.proto /\ sent.optional = spec.optional
          /\ sent.repeated = spec.repeated /\ sent.enum = spec.enum /\ sent.nest = spec.nest
      BY <2>3 DEF Unmarked
    <3> HIDE DEF spec, sent
    <3> QED BY <3>1 DEF ProtoGoType
  <2>5. Wire(<<"id">>, sent) \in Message(d) BY <2>1 DEF Message
  <2>6. StructField(<<InCapitals("id")>>, dom) \in Struct(d) BY DEF Struct
  <2>7. GoCamelCase(<<"id">>) = <<Capital("id")>> BY NumberedAssumption DEF GoCamelCase
  <2> HIDE DEF spec, dom, sent
  <2>8. Fits(Mapped(<<InCapitals("id")>>, <<Capital("id")>>, dom, spec))
    BY <1>1, <1>2, <2>1, <2>4, <2>5, <2>6, <2>7 DEF ConvertsAs
  <2> QED BY <2>8 DEF spec, dom, MappedID
<1>5. ASSUME NEW f \in d.fields, ~f.bound, ~f.skip, ~resolveEntFieldProtoSpec(f).excluded PROVE Fits(MappedField(f))
  <2>1. FieldMaps(f) BY <1>5 DEF Mappable, FieldSpec
  <2>2. ConvertsAs(resolveEntFieldProtoSpec(f), fieldToDomainType(f)) /\ Without(f.name, Numbered)
    BY <1>5, <2>1, FieldConverts DEF FieldMaps
  <2>3. Wire(f.name, resolveEntFieldProtoSpec(f)) \in Message(d) BY <1>5 DEF Message
  <2>4. StructField(pascal(f.name), fieldToDomainType(f)) \in Struct(d) BY <1>5 DEF Struct
  <2> QED BY <1>3, <2>2, <2>3, <2>4 DEF MappedField
<1>6. ASSUME NEW e \in d.edges, HasIDs(e), ~IDsSpec(e).excluded PROVE Fits(MappedIDs(e))
  <2>1. EdgeMaps(e) BY <1>6 DEF Mappable
  <2>2. Wire(IDsName(e), IDsSpec(e)) \in Message(d) BY <1>6 DEF Message
  <2>3. StructField(EdgeIDName(e), EdgeIDType(e)) \in Struct(d) BY <1>6 DEF Struct
  <2>4. /\ Converts(MappedIDs(e).to, EdgeIDType(e), ProtoGoType(IDsSpec(e)))
        /\ Converts(MappedIDs(e).from, ProtoGoType(IDsSpec(e)), EdgeIDType(e))
        /\ MappedIDs(e).name = EdgeIDName(e) /\ MappedIDs(e).dom = EdgeIDType(e)
        /\ MappedIDs(e).proto = GoCamelCase(IDsName(e))
    BY <1>6, <2>1, IdsConvert
  <2> QED BY <1>1, <2>2, <2>3, <2>4
<1>7. ASSUME NEW e \in d.edges, HasNest(e), ~NestSpec(e).excluded PROVE Fits(MappedNest(e))
  <2>1. NestSpec(e).to = "EntityToProto" /\ NestSpec(e).from = "EntityFromProto" BY <1>7 DEF NestSpec, Excluded, ProtoFieldSpec
  <2>2. ConvertsAs(NestSpec(e), EdgeNestType(e)) BY <2>1 DEF ConvertsAs, Converts
  <2>3. Without(e.name, Numbered) BY <1>7 DEF Mappable
  <2>4. Wire(e.name, NestSpec(e)) \in Message(d) BY <1>7 DEF Message
  <2>5. StructField(pascal(e.name), EdgeNestType(e)) \in Struct(d) BY <1>7 DEF Struct
  <2> QED BY <1>3, <2>2, <2>3, <2>4, <2>5 DEF MappedNest
<1>8. ASSUME NEW v \in d.virtual, ~resolveVirtualFieldProtoSpec(v).excluded PROVE Fits(MappedVirtual(v))
  <2>1. VirtualMaps(v) BY <1>8 DEF Mappable
  <2>2. ConvertsAs(resolveVirtualFieldProtoSpec(v), resolveGoTypeDomainStr(v)) /\ Without(v.name, Numbered)
    BY <1>8, <2>1, VirtualConverts DEF VirtualMaps
  <2>3. Wire(v.name, resolveVirtualFieldProtoSpec(v)) \in Message(d) BY <1>8 DEF Message
  <2>4. StructField(pascal(v.name), resolveGoTypeDomainStr(v)) \in Struct(d) BY DEF Struct
  <2> QED BY <1>3, <2>2, <2>3, <2>4 DEF MappedVirtual
<1>9. \A m \in MapperFields(d) : Fits(m)
  BY <1>4, <1>5, <1>6, <1>7, <1>8 DEF MapperFields
<1> QED BY <1>9 DEF Compiles, Fits

\* After a run the mappers compile against the message and the structs, with
\* what they nest and call, if the graphs are well nested and every annotated
\* entity is Mappable: of types that the code converts, and with names that it
\* writes as protoc-gen-go does, so no acronym in the name of an edge with ids.
THEOREM MappersFit == WellNested /\ WellTyped => (Spec => []MappersCompile)
<1> SUFFICES ASSUME WellNested, WellTyped PROVE Spec => []MappersCompile OBVIOUS
<1>1. IInv => MappersCompile
  <2> SUFFICES ASSUME IInv, At("done"), NEW e \in Annotated(run.graph)
               PROVE  /\ MapperCompiles(e)
                      /\ (\E f \in MapperFields(Define[run.graph[e]]) : {f.to, f.from} \cap DOMAIN Helpers # {}) =>
                            disk.helpers = "written"
    BY DEF MappersCompile
  <2>1. run.graph \in Schemas BY DEF IInv, TypeOK
  <2>2. \A x \in Annotated(run.graph) : disk.mapper[x] = run.graph[x] /\ disk.domain[x] = run.graph[x] /\ disk.proto[x] = run.graph[x]
    BY DEF IInv, DomainWritten, MapperWritten, ProtoWritten, At
  <2>3. \A x \in Annotated(run.graph) : run.graph[x] \in Versions BY <2>1, AnnotatedVersion
  <2>4. Compiles(MapperFields(Define[run.graph[e]]), Message(Define[run.graph[e]]), Struct(Define[run.graph[e]]))
    BY <2>1, MappableCompiles DEF WellTyped
  <2>5. Nested(run.graph[e]) \subseteq Annotated(run.graph) BY <2>1 DEF WellNested
  <2>6. MapperCompiles(e)
    <3> HIDE DEF IInv
    <3> QED BY <2>2, <2>3, <2>4, <2>5 DEF MapperCompiles
  <2>7. ASSUME \E f \in MapperFields(Define[run.graph[e]]) : {f.to, f.from} \cap DOMAIN Helpers # {}
        PROVE  disk.helpers = "written"
    <3>1. NeedsHelpers(MapperFields(Define[run.graph[e]])) BY <2>7 DEF NeedsHelpers
    <3>2. Calling(run.graph) # {} BY <3>1 DEF Calling
    <3> QED BY <3>2 DEF IInv, HelpersWritten, At
  <2> QED BY <2>6, <2>7
<1> QED BY <1>1, Invariance, PTL
=============================================================================
