------------------------------ MODULE Generator ------------------------------
(***************************************************************************)
(* A run of the extension (generateDomainHook in extension.go) over the    *)
(* files it leaves behind: load the schema, then write the domain structs, *)
(* the lock, the skipped summary, the proto file, the mappers, their       *)
(* helpers and at last, inside ent's own generator, ent/domain.go.  Runs   *)
(* follow one another while the schema changes; a run may stop anywhere,   *)
(* and os.WriteFile truncates before it writes.  A file is what it was     *)
(* written from: the version of its entity.  Numbers are ProtoLock's.      *)
(***************************************************************************)
EXTENDS ProtoTypes

CONSTANTS
    Entities,      \* the names of the ent schemas
    Define,        \* the definition of each version of an entity
    Schemas,       \* the graphs a user may have: the version of each entity
    NotAnnotated,  \* in place of a version: no EntityAnnotation
    Missing,       \* a file that does not exist
    Torn,          \* a file that was truncated and not written
    NoBulk,        \* the entities named by WithNoBulk
    Imports,       \* whether the schema package imports the domain package
    MaxEdits,      \* bound on schema edits
    MaxStops       \* bound on interrupted runs

Versions == DOMAIN Define
ASSUME SchemasAssumption ==
    /\ Schemas \subseteq [Entities -> Versions \cup {NotAnnotated}]
    /\ \A g \in Schemas : \E e \in Entities : g[e] # NotAnnotated
ASSUME OptionsAssumption ==
    NoBulk \subseteq Entities /\ Imports \in BOOLEAN /\ MaxEdits \in Nat /\ MaxStops \in Nat
ASSUME MarksAssumption ==
    {NotAnnotated, Missing, Torn} \cap Versions = {} /\ Missing # Torn

VARIABLES
    schema,  \* the schema in the working tree
    disk,    \* the generated files
    run,     \* the stage of the run, its graph, and the entities left in this stage
    edits,   \* schema edits so far
    stops    \* interrupted runs so far

vars == <<schema, disk, run, edits, stops>>

-----------------------------------------------------------------------------
Absent == [e \in Entities |-> Missing]
Annotated(g) == {e \in Entities : g[e] # NotAnnotated}

\* The files of one version of the whole graph, and of ent/domain.go: the
\* version of each entity and whether it has the bulk operations.
EntFile(g) == [e \in Annotated(g) |-> [version |-> g[e], bulk |-> e \notin NoBulk]]

Init ==
    /\ schema \in Schemas
    /\ disk = [domain |-> Absent, lock |-> Missing, skipped |-> Missing, proto |-> Missing,
               mapper |-> Absent, helpers |-> Missing, ent |-> Missing]
    /\ run = [stage |-> "idle", graph |-> schema, todo |-> {}]
    /\ edits = 0 /\ stops = 0

-----------------------------------------------------------------------------
\* Go loads the schema only if the packages it imports compile: no domain file
\* is torn, and each one finds the structs of the entities it nests.
Nested(v) == {x \in Entities : \E f \in Struct(Define[v]) : f.go.base = x}
DomainCompiles ==
    \A e \in Entities :
        /\ disk.domain[e] # Torn
        /\ disk.domain[e] \in Versions => \A x \in Nested(disk.domain[e]) : disk.domain[x] # Missing
Loadable == Imports => DomainCompiles

At(stage) == run.stage = stage
Goto(stage, todo) == run' = [run EXCEPT !.stage = stage, !.todo = todo]
Unedited == UNCHANGED <<schema, edits, stops>>

Start ==
    /\ run.stage \in {"idle", "done"} /\ Loadable
    /\ run' = [stage |-> "domain", graph |-> schema, todo |-> Annotated(schema)]
    /\ Unedited /\ UNCHANGED disk

\* Mutated form: a file that is there stays as it is.
WriteDomainOnce ==
    /\ At("domain")
    /\ \E e \in run.todo :
           /\ disk' = [disk EXCEPT !.domain[e] = IF @ = Missing THEN run.graph[e] ELSE @]
           /\ Goto(IF run.todo = {e} THEN "lock" ELSE "domain", run.todo \ {e})
    /\ Unedited

\* generateDomainFiles, one file for each annotated entity.
WriteDomain ==
    /\ At("domain")
    /\ \E e \in run.todo :
           /\ disk' = [disk EXCEPT !.domain[e] = run.graph[e]]
           /\ Goto(IF run.todo = {e} THEN "lock" ELSE "domain", run.todo \ {e})
    /\ Unedited

\* generateProtoFiles reads the lock first; an unreadable one ends the run, the
\* domain files being written.
LockFails ==
    /\ At("lock") /\ disk.lock = Torn
    /\ Goto("idle", {})
    /\ Unedited /\ UNCHANGED disk
WriteLock ==
    /\ At("lock") /\ disk.lock # Torn
    /\ disk' = [disk EXCEPT !.lock = run.graph]
    /\ Goto("skipped", {})
    /\ Unedited

\* saveSkippedFile and renderProtoFile: one file for the whole graph.
WriteSkipped ==
    /\ At("skipped")
    /\ disk' = [disk EXCEPT !.skipped = run.graph]
    /\ Goto("proto", {})
    /\ Unedited
WriteProto ==
    /\ At("proto")
    /\ disk' = [disk EXCEPT !.proto = run.graph]
    /\ Goto("mapper", Annotated(run.graph))
    /\ Unedited

\* generateProtoMapperFiles: the helpers are written after the mappers, if one
\* of the mappers calls them.
Calling(g) == {e \in Annotated(g) : NeedsHelpers(MapperFields(Define[g[e]]))}
WriteMapper ==
    /\ At("mapper")
    /\ \E e \in run.todo :
           /\ disk' = [disk EXCEPT !.mapper[e] = run.graph[e]]
           /\ Goto(IF run.todo # {e} THEN "mapper" ELSE IF Calling(run.graph) # {} THEN "helpers" ELSE "ent",
                   run.todo \ {e})
    /\ Unedited
WriteHelpers ==
    /\ At("helpers")
    /\ disk' = [disk EXCEPT !.helpers = "written"]
    /\ Goto("ent", {})
    /\ Unedited

\* next.Generate(g): goimports resolves the domain package while ent/domain.go
\* is formatted.
GenerateEnt ==
    /\ At("ent")
    /\ disk' = [disk EXCEPT !.ent = EntFile(run.graph)]
    /\ Goto("done", {})
    /\ Unedited

-----------------------------------------------------------------------------
\* The run is interrupted: the file it was about to write is as before or torn.
TornAt(e) ==
    IF run.stage \in {"domain", "mapper"} THEN [disk EXCEPT ![run.stage][e] = Torn] ELSE [disk EXCEPT ![run.stage] = Torn]
Stop ==
    /\ run.stage \notin {"idle", "done"} /\ stops < MaxStops
    /\ stops' = stops + 1
    /\ \/ UNCHANGED disk
       \/ \E e \in IF run.todo = {} THEN Entities ELSE run.todo : disk' = TornAt(e)
    /\ Goto("idle", {})
    /\ UNCHANGED <<schema, edits>>

\* The user: edits the schema, deletes the generated domain files when they keep
\* it from loading, and restores the lock from the last commit.
Edit ==
    /\ edits < MaxEdits
    /\ edits' = edits + 1
    /\ \E s \in Schemas \ {schema} : schema' = s
    /\ UNCHANGED <<disk, run, stops>>
Clean ==
    /\ run.stage \in {"idle", "done"} /\ ~Loadable
    /\ disk' = [disk EXCEPT !.domain = Absent]
    /\ UNCHANGED <<schema, run, edits, stops>>
RestoreLock ==
    /\ run.stage = "idle" /\ disk.lock = Torn
    /\ disk' = [disk EXCEPT !.lock = Missing]
    /\ UNCHANGED <<schema, run, edits, stops>>

Step == WriteDomain \/ LockFails \/ WriteLock \/ WriteSkipped \/ WriteProto \/ WriteMapper \/ WriteHelpers \/ GenerateEnt
Next == Start \/ Step \/ Stop \/ Edit \/ Clean \/ RestoreLock
Spec == Init /\ [][Next]_vars

\* A run goes on until it ends; the user runs the generator as long as what it
\* wrote is not of the schema, and repairs what keeps it from running.
Rerun == Start /\ (run.stage = "idle" \/ run.graph # schema)
FairSpec == Spec /\ WF_vars(Step) /\ WF_vars(Rerun) /\ WF_vars(Clean) /\ SF_vars(RestoreLock)

-----------------------------------------------------------------------------
(* Properties *)

Stages == {"idle", "domain", "lock", "skipped", "proto", "mapper", "helpers", "ent", "done"}
FileStates == {Missing, Torn}
Whole == Schemas \cup FileStates
Files == [Entities -> Versions \cup FileStates]
Disks == [domain : Files, lock : Whole, skipped : Whole, proto : Whole, mapper : Files,
          helpers : FileStates \cup {"written"}, ent : {EntFile(g) : g \in Schemas} \cup FileStates]

\* Every file is missing, torn or written from a version the schema had, and a
\* stage has entities left exactly when it writes one file for each.
TypeOK ==
    /\ schema \in Schemas /\ disk \in Disks
    /\ run \in [stage : Stages, graph : Schemas, todo : SUBSET Entities]
    /\ run.todo \subseteq Annotated(run.graph)
    /\ run.todo # {} <=> run.stage \in {"domain", "mapper"}
    /\ edits \in 0..MaxEdits /\ stops \in 0..MaxStops

\* What the user answers for: an entity that an annotated one nests is annotated,
\* the fields of a definition have names of their own, and every annotated entity
\* is one whose mapper compiles.
WellNested == \A g \in Schemas : \A e \in Annotated(g) : Nested(g[e]) \subseteq Annotated(g)
WellNamed == \A g \in Schemas : \A e \in Annotated(g) : Distinct(Define[g[e]])
WellTyped == \A g \in Schemas : \A e \in Annotated(g) : Mappable(Define[g[e]])

\* The state has its type, and when ent formats ent/domain.go (extension.go: "so
\* they exist when ent runs goimports") each annotated entity has the struct of
\* this run, and the domain package compiles if the schema package imports it:
\* a run then only starts beside domain files that compile.  Otherwise it may
\* not compile: no run removes or rewrites the file of an entity that lost its
\* annotation, be it torn or of an old schema (generate.go 76-98).
EntFindsDomain ==
    /\ TypeOK
    /\ run.stage \in {"ent", "done"} =>
        /\ \A e \in Annotated(run.graph) : disk.domain[e] = run.graph[e]
        /\ Imports => DomainCompiles

MapperCompiles(e) ==
    /\ {disk.mapper[e], disk.domain[e], disk.proto[e]} \subseteq Versions
    /\ Compiles(MapperFields(Define[disk.mapper[e]]), Message(Define[disk.proto[e]]), Struct(Define[disk.domain[e]]))
    /\ \A x \in Nested(disk.mapper[e]) : disk.mapper[x] \in Versions
\* After a run every field that a mapper names is in the message, under the name
\* that protoc-gen-go gives it, and in the domain struct, and its expressions
\* convert between the two types; what a mapper nests has a mapper, too, and the
\* helpers it calls are there and whole, though they are written after the mappers
\* and only if one calls them.  Three functions walk the schema and name the
\* fields, and a fourth decides on the helpers.  It is so for definitions that
\* are Mappable; others have mappers that do not compile.
MappersCompile ==
    At("done") => \A e \in Annotated(run.graph) :
        /\ MapperCompiles(e)
        /\ (\E f \in MapperFields(Define[run.graph[e]]) : {f.to, f.from} \cap DOMAIN Helpers # {}) =>
              disk.helpers = "written"

\* After a run the mapper carries every field of the domain struct but those that
\* the skipped summary tells of, and none of these (README "Skipped fields
\* summary": recorded "rather than vanishing silently").  The three files are
\* written at three stages by functions that each walk the schema.  A field that
\* is bound to an edge is in none of them: it does vanish without a word, unless
\* the ids of its edge stand for it (IsEdgeField, proto_generate.go 188).
Words(goName) == [i \in DOMAIN goName |-> goName[i][2]]
LeftOutIsTold ==
    At("done") => \A e \in Annotated(run.graph) :
        LET has == {Words(f.name) : f \in Struct(Define[disk.domain[e]])}
            carried == {Words(f.name) : f \in MapperFields(Define[disk.mapper[e]])}
            told == Skipped(Define[disk.skipped[e]])
        IN  carried = has \ told

\* Once the schema stays as it is and no run is interrupted, the files become
\* those of the schema and stay so, whatever the torn files and half-written
\* stages before.
InSync ==
    /\ disk.proto = schema /\ disk.skipped = schema /\ disk.lock = schema /\ disk.ent = EntFile(schema)
    /\ \A e \in Annotated(schema) : disk.domain[e] = schema[e] /\ disk.mapper[e] = schema[e]
    /\ Calling(schema) # {} => disk.helpers = "written"
Converges == <>[]InSync
=============================================================================
