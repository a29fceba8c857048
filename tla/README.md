# TLA+ model of entdomain

entdomain is an [ent](https://entgo.io) extension. At generation time it turns
ent schemas into plain domain structs, mapping methods, a FIQL field registry
and a protobuf file; at run time the generated code calls the library for
applying structs to builders and for parsing and compiling FIQL filters. This
directory holds TLA+ modules for the parts with behaviour of their own, the TLC
runs that check them on small instances, and TLAPS proofs. The generated code is
modelled where it can be read: the ent packages, domain structs and mappers of
`examples/basic`.

Line numbers refer to the sources of this repository.

## 1. Inventory

| Component | State | Operations | Made correct by |
|---|---|---|---|
| field number lock (`proto_lock.go`) | `.entdomain.lock.json`: per entity the live numbers by field and the reserved numbers | `loadLockFile`, `allocateFieldNumbers`, `saveLockFile` | a number never names two fields of a message over the whole life of the repository; live fields keep their numbers; the file survives a stop between any two steps |
| proto generation (`proto_generate.go`) | the lock in memory, the messages built so far, `ent_messages.proto` | `generateProtoFiles`, `buildProtoMessageData`, `renderProtoFile` | the lock file is written ahead of the proto file; re-running brings both in line with the schema |
| FIQL parser (`fiql_ast.go`, `parseInListValue` of `fiql.go`) | position, depth, the calls in progress | `ParseFIQLExpr` and the recursive descent under it | it accepts exactly the documented grammar, gives one tree per text, recurses boundedly, always answers |
| FIQL tree operations (`fiql_ast.go`, `CompileFIQL` of `fiql.go`) | the caller's tree | `CompileFIQL`, `WalkFIQL`, `FindFIQL`, `ToFIQL` | a malformed tree fails closed in all four; a walk changes only what the callback changed; rendered text parses back to the same predicate; a scope stays a scope |
| FIQL field registry (`fiql.go`, `kinds.go`, `template/fiql.tmpl`) | the schema, the generated registry, the one that is serving | annotating, generating, building, `apply` of seven field kinds | only annotated operators reach SQL; operands are coerced or refused |
| domain mapping (`runtime.go`, `template/domain.tmpl`) | the structs callers hold, builders not saved yet | `ToDomain`, `ApplyDomain` of five builders, `CreateBulkDomain`, `UpdateBulkDomain`, `UpdateOneBulk.Save` | reading and saving changes nothing; options restrict what a stale struct can overwrite; immutable columns stay; bulks are complete or not there |
| domain struct generation (`generate.go`) | files | `generateDomainFiles`, `buildDomainFileData` | each type maps to the Go type the mapper expects; the package compiles whenever somebody imports it |
| proto types, mappers and helpers (`proto_types.go`, `proto_mapper_generate.go`, templates) | files | type tables, conversion expressions, `generateProtoMapperFiles` | mapper, message and struct agree on every field; conversions are inverse where they claim to be |
| extension, template functions (`extension.go`, `template.go`) | options, graph annotations | the generation hook | stage order: what ent's generator needs exists when it runs |
| annotations (`annotation.go`) | schema annotations | `Merge`, `Decode`, options | merging keeps what both sides say |
| context helpers (`context.go`) | a context value | `WithDomain`, `DomainFrom` | — |
| ent mutations and builders (`examples/basic/ent`) | the mutation of an open builder | setters, clears, edge calls, `ApplyDomain`, hooks, `Save` | what was asked last becomes true or nothing changes; hooks see every change; no edge is taken from another row |
| ent client and transactions (`client.go`, `tx.go`) | the transaction | `Tx`, `Commit`, `Rollback`, deletes | a rollback restores; a failed builder leaves no dangling reference |
| ent queries (`*_query.go`) | the rows and edges loaded so far | `All` with eager loading | the edges of a row are ones it had |
| generated mappers (`domain/pbmap`) | messages on the wire, builds of both sides | `UserToProto`, `UserFromProto` | a value lands in the column it was meant for; what is absent does no harm; a message comes back as it went |

**How they interact.** The hook of the extension runs the domain structs, the
proto stage and the mappers over one graph, then ent. The proto stage is the
only one with memory between runs: the lock file, which users commit. Generated
`XxxFIQL` functions call `ParseFIQL`, which is `ParseFIQLExpr` followed by
`CompileFIQL`; callers that rewrite filters put `WalkFIQL`, `FindFIQL` and
compounds of their own between the two, and `ToFIQL` carries a tree to another
service, which parses it. Repositories read rows through `ToDomain`, hold the
structs, and write them back through an `ApplyDomain` and ent's `Save`; other
clients write the same rows in the meantime. The structs also travel as proto
messages to clients whose build is of an older or newer schema.

**What is hard.** Stops between the steps of a generator run, and long
histories of schema edits, commits and checkouts. Trees that were never parsed,
and sequences of walks, compositions and renderings of which the code's tests
only try single steps. Structs that are older than the row they are applied to.
Builders that are called in any order by callers, transformers and hooks, in
transactions where a failure rolls nothing back. Queries that read their edges
statement by statement while others write. Messages between builds.
Each hazard is listed with its line and its properties in `PROJECT.json`.

## 2. Modules

| Module | Models | Extends |
|---|---|---|
| `FieldNumbers` | `allocateFieldNumbers` as an operator on a record and a candidate list | |
| `FieldRegistry` | abstract: published messages whose history stays unambiguous | |
| `ProtoLock` | generator runs, stops, edits, commits, checkouts | `FieldNumbers`, instance of `FieldRegistry` |
| `FieldNumbersProofs`, `ProtoLockProofs` | theorems | the modules above, TLAPS |
| `FIQLSyntax` | tokens, operators, nodes | |
| `FIQLParser` | the parser, one action per step of the recursive descent | `FIQLSyntax` |
| `FIQLCall` | one call of the parser on any text of a set; its bounds | `FIQLParser` |
| `FIQLCallProofs` | theorems about such a call | `FIQLCall`, TLAPS |
| `FIQLGrammar` | the grammar as sets of derivable trees; that the parser recognises it | `FIQLCall` |
| `FIQLTree` | compile, walk, find, render as operators | `FIQLSyntax` |
| `FIQLSession` | a caller that parses, assembles, walks, scopes and forwards | `FIQLTree`, `FIQLParser` |
| `FIQLRegistry` | field registries from annotation to answer, over builds | |
| `FIQLRegistryProofs` | theorems | `FIQLRegistry`, TLAPS |
| `GoValues`, `ApplyOptions` | Go's zero and nil; the options of an `ApplyDomain` call | |
| `DomainApply` | clients that read, edit and write rows through the generated methods | `ApplyOptions` |
| `DomainApplyProofs` | theorems | `DomainApply`, TLAPS |
| `GoMaps` | assignments to maps | |
| `EntMutation`, `EntGraph`, `EntSpecs` | the mutation, the database under sqlgraph, the specification a save makes of one for the other | `GoMaps` |
| `EntDomain` | the domain mapping that was generated for the example | `EntSpecs`, `ApplyOptions` |
| `EntDatabase` | the tables, and the databases a behaviour may start with; both modules below run on it | `EntDomain` |
| `EntPromise` | abstract: what a builder promises its caller | |
| `EntBuilder` | one client of the builders, with hooks and transactions | `EntDatabase`, instance of `EntPromise` |
| `EntSession` | clients that query, map, edit and save on one database | `EntDatabase` |
| `EntProofs` | theorems | `EntBuilder`, `EntSession`, TLAPS |
| `ProtoTypes` | a field's proto type, Go types and conversions; message, mapper and struct of an entity; which definitions the code converts | |
| `Generator` | the stages of generator runs over the files they leave | `ProtoTypes` |
| `GeneratorProofs` | theorems about runs and about the tables of types | `Generator`, TLAPS |
| `ProtoExchange` | messages between builds of different generations | `ApplyOptions`, `FieldNumbers` |
| `ProtoExchangeProofs` | theorems | `ProtoExchange`, TLAPS |
| `MC…` | instances for TLC | |

### Field numbers

An entity record is `[fields : Name -> number or 0, reserved : set of numbers]`.
`AllocateFieldNumbers` follows the source in order: retire what is no longer
listed, set `id` to 1, take the maximum over live and reserved numbers, number
the new fields in sorted order (`Rank` stands for string order). A JSON list
that holds a number twice and one that holds it once are not told apart.

`ProtoLock` runs it: `LoadLockFile`, `BuildMessage(e)` per annotated entity,
then two steps for each file, since `os.WriteFile` truncates before it writes.
Go visits the nodes in graph order; the entities do not share records, so the
model lets them be visited in any order. `Interrupt` is any error return and any
kill. The user edits the schema at any time, also during a run, commits the two
files, restores a torn lock file, and discards uncommitted files. `history` is a
history variable: every number each field ever had in a commit.

`.entdomain.skipped.json` is written between the two files and read by nobody;
it is left out. A stop there is a stop in `pc = "render"`.

### FIQL

Texts are sequences of tokens: one per operator, delimiter, selector and
operand character that the properties tell apart. The Go parser recurses;
`FIQLParser` keeps the frames of `parseOrExpr`/`parseAndExpr` on a stack
`frames` and takes one action per decision, so what the recursion holds at each
moment is a state. The `depth` counter is the parser's own.

`FIQLTree` works on nodes as values: nil, a typed nil, a comparison, an AND or
an OR. `CompileFIQL` yields the rows that satisfy the predicate: the rows are
all the functions from columns to `Cell`, with NULL among the cells and the SQL
reading of comparisons with NULL. `MaxDepth` is `maxFIQLDepth` (50) and
`MaxListValues` the 100 of `parseInListValue`; the runs use 2 or 3 and 2, so that
the bounds are reached by small trees.

In `FIQLSession` the caller starts from a leaf of its own or a text, then builds
compounds, scopes, walks and forwards. It follows two rules without which no
library could keep a scope: it does not put a scoped tree into a disjunction
with something else, and its callbacks leave the terms of the scope's field
alone.

### FIQL registry

`FIQLTree` takes the operators each field allows as a constant. `FIQLRegistry`
says where they come from: the author changes declarations; `Generate` merges the
annotations, checks null tests, and writes an entry with one member per operator;
`Deploy` succeeds if the entries compile; `Compile` is the comparison case of
`compileNode` with `apply` of the field's kind. The three versions, in the tree,
generated and serving, may differ. The applies of six kinds have one form, a
member that is set and operands that parse, and are one operator; `FIQLEnum`,
which looks predicates up and assembles lists, is another. What `strconv`, `time`
and `uuid` read is the constant `Meaning`, with two spellings of one value. ent's
predicates and the Go compiler (members each once, operand types alike) are
external. `Nillable()` without `Optional()` is taken as nullable, as the gate does.

### Domain mapping

A column has a kind: plain, optional without `Nillable()` (a pointer in the
struct, a value in ent), nillable, or optional JSON. All template branches
reduce to the same two questions, whether the options let the field through and
whether a pointer is nil, so `Written` is one operator with the candidate set
(all columns, or the mutable ones) as a parameter. There is one many-to-many
edge with `IDs()` and one unique edge with `IDs()`.

A client loads rows (with or without edges), edits the structs, and hands its
list to a bulk call; a list of one is the single-entity method. The loop of the
bulk call is one action per struct, with the transformer's failure as an
alternative; `UpdateOneBulk.Save` is one action per builder, `CreateBulk.Save`,
which is ent's, one action for all. Updates by condition and upserts touch the
table once and are one action. Rows are deleted and pinned by others meanwhile.
ent itself (`Save`, required-column checks, the unique index, `SetNillable(nil)`
as a no-op, clear-then-add of edge ids) is external. An upsert is taken with a
struct without edge ids: what the insert half of an upsert does with edges is
ent's business and no method of the templates writes them.

### Ent builders of the example

A mutation is a record of the columns set and cleared and, for each edge, the
ids added, the ids removed and whether the edge is cleared. The Go code has a
copy of each method for each column and edge; `EntMutation` has one operator
with the column or the edge as its argument, and `map` names the copies it was
read from. `EntSpecs` holds defaults, checks and the specifications of the nine
`sqlSave` and `createSpec` functions; `EntGraph` the tables and foreign keys of
`migrate/schema.go` and, external, the statements sqlgraph makes in their order.
Two things that depend on the database are constants of a run: whether it
refuses a column that is assigned twice (`SET` after `ClearX().SetX()`), and
whether the insert of join rows ignores those that are there.

`EntBuilder` is one client: it opens a builder, makes calls in any order, saves,
deletes, begins, commits and rolls back. A save first completes defaults and
runs the mutation hooks (`RunHooks`, then any hook calls), then checks, then
executes. `EntPromise` is the same client as a reader of the documentation sees
it, with no mutation and no statements: `PromiseKept` is the refinement. It has
three modes: outside a transaction, in one, and in one where an error was
ignored (`spoiled`): there `txDriver`'s Rollback is a no-op and nothing is
promised before the client's own rollback.

`EntSession` has several clients. Queries load edges one statement at a time; a
result becomes a list of domain structs, in any order that the database may give,
whose user structs are edited and saved by `UserUpdateOneBulk.Save` one transaction
at a time; the struct that a save returns may be saved in its turn. New posts, pins
and deletes are written meanwhile, by whatever client. `todo` holds the edges still
to load, which `Statement` puts in the order of `sqlAll`. `seen` is the history of
databases since the query's first statement, for `EdgesWereTrue`.

### Generator

A file is the version of the schema it was written from; `Struct`, `Message`
and `MapperFields` of `ProtoTypes` say what that version puts in it, each read
from its own function of the generator. `Converts` stands for the Go compiler:
an expression takes a value of one type and gives one of the other. A name is a
sequence of snake-case words, and a Go name gives each word a form: `pascal` (ent's,
which knows the `Acronyms`), `protoPascal` (the mapper's own) and `GoCamelCase`
(protoc-gen-go's, external, which splits at the `Numbered` words) are three
functions, so that message, struct and mapper meet only where they write a name
alike. `Generator` runs the stages of `generateDomainHook`; `Stop` is any error return or kill,
which leaves the file about to be written as it was or truncated. If the schema
package imports the domain package, as the example's does, a torn or missing
domain file keeps the next run from starting; the user deletes the files
(`Clean`). Numbers are not in this module: they are `ProtoLock`'s.

What a user answers for is written down: `WellNested` (what an annotated entity
nests is annotated), `WellNamed` (no two fields of a message have one name)
and `WellTyped` (each annotated entity is `Mappable`: its fields are of the kinds
the tables convert, and their names come out alike). The theorems take them as hypotheses; `MCGenerator` evaluates
them on the graphs of its run, and `MapsAreExact` there checks, for every
combination of an ent type, a Go type, optional or not, for every edge, and for
names with and without acronyms and digits, that `Mappable` says neither more nor
less than that the expressions convert and the names agree.

### Messages between builds

`ProtoExchange` joins the numbers of `FieldNumbers`, the conversions of the
mappers and the options of `ApplyDomain`. Builds follow each other with the lock
of the one before; the server and each client move to later builds when they
like. The wire is protobuf's: numbers and values, fields without presence left
out when zero, unknown numbers kept. An edit of a client replaces a field of the
message it holds. `Default` is what a field reads as when nothing was sent. An
enumerator is sent as its position in the version's list, and a position the
reader does not have becomes its first. The lock knows nothing of enumerators and
`Generate` asks nothing of them: any version may follow any other. Two builds are
`Aligned` if they number them alike, which is a condition of what the properties
claim about enums and not of the builds.

## 3. Runs

| Run | Shows | Bounds |
|---|---|---|
| `proto_lock` | `NoRebinding`, `NumbersRemembered`, `StableNumbers`, the inductive invariant, refinement of `FieldRegistry`, `Converges` | 1 entity, id and two fields, 7 candidate lists, 3 edits, 2 faults; 1.2 M states |
| `fiql_parser` | the parser equals the grammar on every text, `StackBounded`, `Terminates` | all sequences of up to 4 chunks of 10 kinds and of up to 7 nesting chunks; depth 2; 300 k states |
| `fiql_session` | `FailsClosed`, `WalkKeepsMeaning`, `PruneIsExact`, `FindIsComplete`, `RoundTrip`, `ScopeHolds` | 11 leaves, 6 callbacks, 3 steps, depth 3; 1.7 M states |
| `fiql_registry` | `AnsweredIffGranted`, `ListsPartition`, `NullTestsApply` | 2 fields with 3 and 12 declarations of all kinds, 4 operands, lists of up to 3 with a limit of 2, 1 edit; 273 k states |
| `domain` | `BulkIsComplete`, `UneditedSaveIsHarmless`, `AllowlistFrames`, `ImmutableKept` | 1 client, lists of 2, 2 rows, a plain, an immutable, a nillable and a JSON column, 4 option lists, 3 calls, 1 edit; 230 k states |
| `domain_allowlist_edges` | finding: `AllowlistKeepsEdges` fails | |
| `ent_builder` | `PromiseKept` (refinement of `EntPromise`), `ReferencesHold`, `NoTheft`, `HooksSeeEveryChange` | 2 databases of 2 users, 2 posts and a tag, 4 columns, 3 option lists, 4 structs, 2 dialects, up to 3 calls before the first save and 2 before the second; 1.6 M states |
| `ent_session` | `EdgesWereTrue`, `LetGo` | 2 users, 2 posts and a tag; 2 clients, one of which appends, 2 queries, 2 writes, 2 edits; every edge but a user's tags, whose pairs are read from the tag; 1.2 M states |
| `generator` | `EntFindsDomain`, `MappersCompile`, `LeftOutIsTold`, `Converges` | 2 entities, 5 graphs over 5 definitions with every field type of the tables, names with acronyms and fields bound to edges among them, 2 edits, 2 stops; 314 k states |
| `proto_exchange` | `LandsWhereMeant`, `MaskedEditsArrive`, `AbsentSurvives`, `RoundTrip` | 2 clients, 3 builds of 3 versions that lose and regain fields and append, remove and swap enumerators, every kind of field but UUID, 2 edits, 2 writes; 1.3 M states up to symmetry |
| `exchange_renumbered_enum` | finding: `MeaningKept` fails | a version with an enumerator put in front of the two of the other |
| `exchange_older_build` | finding: `NeverPanics` fails | the versions with and without a UUID |

**Why the bounds are enough.** A number can be given twice only if it is retired
and a later allocation misses it: one field to retire, one to add and one
removal-and-return take three lists, and the seven lists include a duplicate
name, a missing id and an empty message. Two faults let a run stop between the
two writes and a commit be rolled back after it. For FIQL, precedence in
the parser shows at depth 2 with AND inside OR and the reverse, and in the
renderer at depth 3 with a disjunction under an AND of one child under an AND; the limits of
depth and list length are small enough to be crossed by one level and one
element. For the registry, one edit is enough for the serving build to be older
than the tree, and the declarations hold each kind, each refusal and each way not
to compile. For the mapping, two structs are enough for the second of a list to
fail after the first. For the builders, three calls give every order of two
conflicting words about one edge or column and a third after them, from caller,
`ApplyDomain` or hook; two saves let the second work on what a failed first left
in a transaction; two users and two posts are one owner too many, and the third
id is missing. For queries, two writes and the two keys of a unique edge are what
a torn read needs: one to move the edge after its key was read and one to delete
its end. For the saves of what was read, two edits move a post from one struct of a
bulk to the other, and two writes save the first and let another client in before
the second. For the generator, two stops are one in each of two consecutive runs,
and two edits change the graph between them. For messages, three builds let a
field leave and return. The proofs below remove the bounds of `domain`,
`fiql_registry`, `proto_exchange`, `ent_builder` (its refinement included) and
`ent_session`, for the safety properties those of `proto_lock` and `generator`, and
for `TypeOK` and `StackBounded` those of `fiql_parser`.

**Deadlock.** The FIQL, domain, ent and exchange runs switch the check off: a
caller with no steps left has stopped, as it may, and so has an author who may
not edit again a schema that generation refuses. In `ProtoLock` and `Generator`
it stays on.

**Symmetry.** The two clients of `proto_exchange` are interchangeable and its
properties mention no particular one.

**Fairness.** Safety runs assume none. `Converges` of `ProtoLock` assumes that a
started run goes on (it is a sequential program; stopping it is `Interrupt`,
bounded by `MaxFaults`), that generation is run again, and that a torn lock file,
which makes every run fail with an error, gets restored. Under `FairSpec` runs
repeat forever; the property is "infinitely often in line", since a file being
rewritten is torn for a moment. `Converges` of `Generator` assumes the same of
the steps of a run, that a user runs the generator while what it wrote is not of
the schema, and that files which keep it from running are deleted or restored;
restoring gets strong fairness, since a domain file torn in between may disable
it and is repaired in its turn. There the property is "from some moment on in
line", for all files. `Terminates` assumes that the parser, a sequential
function, takes its next step.

## 4. Disagreements with the documentation

Each of the first three is a run that TLC finds violated.

1. `OnlyFields` and `OmitFields` do not reach edges: updating one column of a
   struct that was read without its edges unlinks them
   (`template/domain.tmpl:262-266`, README lines 613-619; the `DeactivateAll`
   example of the README does so for every user it matches).
2. Enumerators are numbered by position and not locked
   (`proto_generate.go:221-226`): after one is inserted, removed or moved, a
   status that one build sent is stored as another status by a build of the other
   numbering. README line 1012 says that the lock file "ensures wire compatibility
   across schema changes".
3. A required UUID is parsed with `uuid.MustParse`, so a message of a build
   without the field panics the reader (`proto_types.go:113`; the comment of the
   optional form at `template/proto_helpers.tmpl:111` says payloads must not
   crash the process).

These are built into the models and have no run of their own:

- The parser counts parentheses, the traversals count nodes: an expression with
  `maxFIQLDepth` groups is parsed and then refused, and `FindFIQL` misses terms
  of it (`fiql_ast.go:169`, comment at 508). `FindIsComplete` therefore speaks
  of trees that compile.
- `ToFIQL` renders the list whose only element is the empty string as `()`, which
  does not parse (`fiql_ast.go:742`, against the guarantee at 523-525 and README
  lines 535-546). `fiql_session` has such a leaf, and `RoundTrip` says that its
  text is refused and all other text comes back.
- A field of an unsupported kind is not skipped: the registry names the type
  `FIQL`, which does not compile (`template/fiql.tmpl:60`, README line 603).
- The id of a unique edge with `IDs()` is read and never written
  (`template/domain.tmpl:174, 261, 344`, README line 1021).
- `allocateFieldNumbers` puts 1 back to life when `id` returns to the candidates,
  although it was reserved (`proto_lock.go:114`, README "never reused"). It stays
  with `id`, so `NoRebinding` holds.
- An enum annotated with `==` accepts `=in=`, one annotated with `In` alone accepts
  nothing (`fiql.go:460`, comment at `annotation.go:329`). `Grants` in
  `FIQLRegistry` states the rule the code follows.
- Integers and floats of other widths than `int` and `float64` get a registry entry
  whose predicates do not fit its members (`kinds.go:84`, `kinds_test.go:32`). A
  field that only has null tests does compile (`EntryBuilds`).
- Some mappers would not compile; `Mappable` excludes them, with all that follows:
  - of types: optional integers of 8 and 16 bits (only `int` and `uint` have pointer
    helpers), an optional enum, a string field with a UUID Go type, a
    `map[string]string` with a `Struct` proto type; ids of an edge to an entity whose
    ids are of 8 or 16 bits, many ids that are `int64` or `uint`, and ids of any type
    that is not listed (bool, float, bytes, time), which get the conversions of a UUID
    (`proto_types.go:444`);
  - of names: an acronym in the name of an edge with ids (`api_keys` is `ApiKeyIds`
    to protoc-gen-go and `APIKeyIds` to the mapper, `proto_mapper_generate.go:354, 357`),
    and a word that starts with a digit or has a letter after one, which
    protoc-gen-go writes its own way (`protoPascal`, 553);
  - an id that is a UUID of a custom Go type: it is left out of the message but always
    named by the mapper (`proto_mapper_generate.go:245`, README line 603);
  - a nested entity without an annotation of its own.
- A field that is bound to an edge is in no domain struct, message, mapper or skipped
  summary (`IsEdgeField`, `proto_generate.go:188`), also when the edge itself is
  not annotated, although README line 592 has nothing vanish silently. It is modelled so;
  `LeftOutIsTold` speaks of the fields the domain struct has.
- What the absence of a field means: a time reads as the epoch and an enum as its
  first value, so `OmitZeroVal` does not keep them (`AbsentSurvives` says so);
  `OnlyFields` with no names is no allowlist; a column with `SkipProto` is reset by
  `ApplyDomain(FromProto(m))` without options. A field that left the schema and
  came back has a new number, and an edit by an older client is dropped. An enum whose stored value a build no
  longer has is sent as unspecified and comes back as the first.
- A virtual field that is a `uuid.UUID` is mapped to `string` without a conversion,
  so its mapper does not compile (`proto_types.go:405`; README line 989 and ADR-002
  line 535 count `uuid.UUID` among the types that map by themselves). `Mappable`
  leaves it out, and `MapsAreExact` checks that it must.
- The mapper file of an entity that loses its annotation stays on disk and keeps
  naming types that are gone; `MappersCompile` speaks of annotated entities.
- `XxxList` is generated also under `WithNoBulk` (`extension.go:96`, README line
  199; `template/domain_struct.tmpl` writes it always).

## 5. Proofs

Checked by `tlapm`. For the field numbers: every set of entities and names, every
set of candidate lists and every bound. Assumptions: `Name` is finite, `Rank` orders it, `Id` is
a name; candidate lists are sequences of names; the bounds are natural numbers.

- `AllocateWellFormed` (`FieldNumbersProofs`): from a well-formed record
  `allocateFieldNumbers` yields one: live numbers are distinct, positive, at
  most the maximum, 1 exactly for `id`, and apart from 1 not reserved. The
  lemmas before it establish that the maximum exists, that sorted positions are
  distinct and start above it (`SortedPositionDistinct`, `MaxNumBound`), and
  collect in `AllocateEffect` what happens to a field that stays, goes or comes.
- `Invariance` (`ProtoLockProofs`): `TypeOK /\ IInv` is invariant. `NoRebinding`
  alone is not inductive: it says nothing of the lock file, from which the next
  numbers are drawn. `IInv` adds that every readable lock file, the lock in
  memory and the committed one are each *consistent* with the history each must
  know: well-formed, remembering every number published, and giving none of them
  to another name; that the messages being built hold the numbers in memory; and
  that from the moment the lock file is saved until the proto file is written
  the file equals memory (the write-ahead step). One lemma per action.
- `TypeCorrect`, `NumbersNeverRebound`, `LockFileIsWriteAhead`,
  `NumbersAreStable` follow from it, and `RegistryImplemented` shows that every
  step is a step of `FieldRegistry` or a stutter.
- `DomainApplyProofs`, for every number of clients, set of columns of any kind,
  option lists, rows and list lengths. `BulkIsComplete` and the frame properties
  are not inductive: a bulk in `saving` says nothing of how it was built.
  `IInv` adds that every builder *matches* the struct it was made of (its id, the
  columns it sets, their values and that none is immutable in an update), position
  by position, while the list of its client cannot change; that rows keep a value in each column that
  may not be NULL; and that ids in use are at most the sequence. One lemma for what
  each action does to rows, to held structs and to the job (`SaveNextRows`,
  `HeldSteps`, `ApplyDomainJob`, ...); `TypeCorrect` and `BulksAreComplete` follow.
  `AllowlistsFrame` and `ImmutablesKept` need of a builder only that it sets no
  column its options leave out (`SetsFacts`); `UneditedIsHarmless` needs that
  `ApplyDomain` of what `ToDomain` read gives the row back (`HarmlessUpdate`).
- `StackNeverOverflows` and `ParserTypeCorrect` (`FIQLCallProofs`), for every set
  of texts, `maxFIQLDepth` and list bound: the stack of the recursion is one frame
  for each open group and one more, and the position never leaves the text. The
  inductive invariant `CallInv` ties the height of the stack to `depth`, without
  which the frame a closing parenthesis returns to need not exist, and keeps the
  text one of the given ones. `ScanInText` and `ComparisonInText` bound what one
  comparison consumes (the end of a scan is a least element, by well-foundedness);
  `PushedStack`, `PoppedStack` and `DeliveredStack` say what each action does to the
  height. The only assumption on a text is that it is a sequence. `CallInv` quantifies
  over all sets of frames, so TLC checks its consequences and not the invariant.

- `ProtoExchangeProofs`, for every set of clients, versions and values and every
  kind of column, under what `VersionsAssumption`, `KindAssumption` and
  `ValuesAssumption` say of a schema (an enum has a first value, the zero and the
  epoch are values). What a client holds was made under one build and is read under
  another, so no property of one message is inductive. `IInv` says that each build
  remembers the numbers of all builds before it and gives none to another name
  (`NextBuild`, from `AllocateEffect` of the field numbers; `FollowsTransitive`),
  and that each field of a message was put there for the field that has its number,
  by an edit of the client or from the row it read. `AnyTwoBuilds` and `SameField`
  then identify the fields of the two ends; `Decoded`, `Arrives`, `DoesNotArrive` and
  `Hidden` say what a column gets. `WireCompatible`, `NoLostEdits`, `AbsentKept` and
  `MappersInvert` are the four action properties of the run. No order of enumerators
  is assumed of a schema; what the first two say of an enum is conditional on the two
  builds being `Aligned` in it, and `MappersInvert` on the build knowing the value.
  Without the condition the claim is false (`exchange_renumbered_enum`).
- `FIQLRegistryProofs`, for every set of fields, declarations with annotations of any
  length, operands and limits. The invariant is small (what is served was generated
  from declarations that built); the work is in the fold over annotations, which is a
  recursive function: `MergesExist` and `MergedIsFirst` go by the least length at
  which they would fail, and `OpsGranted` compares the generated operators with
  `Grants`, which is read from the annotations themselves. `CompileAccepts`
  and `CompileList` then give `AnswersWhatIsGranted` and `ListsPart`, the latter also
  where `=out=` is composed of negated scalar predicates.
- `GeneratorProofs`, for every set of entities, graphs and definitions, and any
  number of edits and stopped runs. `EntFindsDomain` speaks of one stage; `IInv` says of each that
  the files up to it are those of the run's graph, and (`DomainStands`) that the
  domain package compiles but for the structs about to be written. Without the last, `Clean`, which deletes
  the domain package when the schema does not load, could take away the files of a
  run. `FinishedInSync` is the safety half of `Converges`. Hypotheses are those of
  a supported schema: `WellNested`, `WellNamed` and `WellTyped`; only the first for
  `EntFinds`, which says of every schema that the annotated entities have the structs
  of this run, and that the domain package compiles if the schema imports it. If it
  does not, a run starts beside whatever lies there, and the torn or old file of an
  entity that lost its annotation is removed or rewritten by nobody
  (`generate.go:76-98`): then nothing is claimed of the package. `NoneUntold` compares
  three walks over the schema (`Struct`, `MapperFields`, `Skipped`), each read from
  its own function: the names the mapper carries are those of the struct without
  those told. It needs all three hypotheses, since a field has to be identified by its
  words and the mapper names even an id that is excluded. For `WellTyped`,
  `FieldConverts`, `VirtualConverts` and `IdsConvert` go through the tables of
  `proto_types.go` once and `MappableCompiles` collects them: what `Mappable` says in
  a sentence suffices for the names of a mapper to exist and for its expressions to convert. That it is
  necessary, too, is checked by TLC (`MapsAreExact`).

- `EntProofs`, for every set of databases that migrations and builders can
  have left (`Database`: whole references, ids from 1), every struct, option list,
  dialect and selection, and any number of calls, hooks, saves and rows of a bulk.
  `ReferencesHold` is not inductive: a rollback brings back `base`, and what a save
  writes comes from mutations, of which it says nothing. `IInv` adds that `base` is a
  database like `db`, that each mutation of the open builder holds columns of its
  table (`MutationOK`), and that there is one for each create and one for an update.
  The statements come first, one lemma for each (`WriteRowsOK`, `WriteJoinOK`,
  `ClearKeysOK`, `AddKeysOK`, `InsertRowsOK`, `DeleteNodesOK`): each keeps every
  reference, so the point at which a save fails does not matter. A bulk writes the keys
  of one row after the other, a recursive function, for which `KeyAllOK` goes by the
  least row that would fail. What a save may change is `Frame` for an update and
  `Created` for creates: `TheftFree` follows because a key in another row is only
  written where it is NULL, `HooksSee` because each part of an update's specification
  is a part of the mutation (`SpecEdges`, `EdgeSeen`). `BuilderAssumption` adds
  only that a struct has a value for every column of its table; the three members of
  `Values` stand for all values of a column.

  `BuildersKeepPromise` is the refinement, under the mapping of `EntBuilder`. It needs
  one invariant more, `Told`: for each row of the open builder, the mutation holds what
  was asked of it, whatever the order of setters, clears, resets, `ApplyDomain` and
  hooks (`Meant`; one lemma for each call, such as `AddMeant`). Each statement is then
  given exactly, not framed: `RowAsked`, `KeyAsked`, `JoinWritten` and `KeysWritten`
  say what a successful one leaves, `UpdateAsAsked` composes them for an update and
  `SaveNewAsAsked` for a create. A bulk inserts all rows, then writes the edges of
  each in turn: `Partly` says what the edges of the first k rows have left, and
  `BulkAsAsked` reaches the last by the least row that would fail. `SavePromised`,
  `DeletePromised` and `TransactionPromised` map each action to a step of `EntPromise`
  or to a stutter.

  The sessions share the lemmas about statements. Neither property of the run is
  inductive, since a save works with structs that were read long before. `SInv` says of
  a query that the database is among those it has seen, that each node's key was
  the row's in one of them (`KeyWas`), and that each loaded edge was too, or its key
  names a row that is gone (`EdgeWas`); and of a client that its structs can be saved
  (`StructHeld`). A row that is gone stays gone because ids are not given twice
  (`RowsFollow`: new rows have ids above all that the sequences gave), without which
  `NextEdge` would fail: a key read before a deletion could find a row made after
  it. `SharedReferencesStand` and `NoEdgeInvented` follow; `PostsStay` is one more
  step, from what the statements of a save leave in `user_posts` (`PostsWritten`) and
  what an `ApplyDomain` puts in a mutation (`UserApplied`, `PostApplied`).
  `SessionAssumption` asks only that a query loads edges of its own table.

**Only model-checked:** liveness (`Converges`, `Terminates`), which needs fairness and
ENABLED; and what is computed by recursion over texts and trees of FIQL
(`RecognisesGrammar`, `FailsClosed`, `WalkKeepsMeaning`, `PruneIsExact`,
`FindIsComplete`, `RoundTrip`, `ScopeHolds`), since the prover has no induction
over data. `MapsAreExact` of `MCGenerator` and the three findings are TLC's
too.

## 6. Not modelled

- The text of generated files: imports, layouts, bulk declarations, the proto
  service options; the reserved range 19000-19999 of field numbers; what becomes of a
  message two of whose fields have one name (`WellNamed` excludes it).
- Names that are not snake case; the rules of `snake` and `singular` themselves (an
  edge gives its singular); names of enumerators and of helpers.
- What the operand parsers of FIQL (`strconv`, `time`, `uuid`) accept.
- Sharing of nodes between trees and of `Values` slices with predicates.
- `UpsertBulk` and ent's own upsert builders; increments (`AddScore`) and JSON
  appends (`AppendTagNames`, whose column is neither in `Fields()` nor in
  `AddedFields()` of a mutation, `mutation.go:1585`, so that hooks do not see it there:
  `HooksSeeEveryChange` is about the calls that are modelled); `First`, `Only`, `IDs`, `Count`, `GroupBy`, `Select`,
  ordering, predicates and interceptors of the queries; the old-value getters.
- The merge of two entity annotations; the context helpers.
- Two generators at work on one lock file, and merges of two branches' files.

## 7. What could follow

1. *Lock merges*: two working trees whose commits are merged, with the conflict
   resolutions users make.
2. *Upserts*: `UpsertBulk` and ent's upsert builders on `EntGraph`.
