---------------------------- MODULE DomainApply ----------------------------
(***************************************************************************)
(* The generated mapping between ent entities and domain structs           *)
(* (template/domain.tmpl, runtime.go): ToDomain copies a row into a plain   *)
(* struct, the ApplyDomain methods copy a struct into an ent builder under *)
(* the options of the call, and the bulk helpers do that for a list.       *)
(* Clients hold structs for as long as they like, so what a builder writes *)
(* may be arbitrarily older than the row it is written to.                 *)
(*                                                                         *)
(* The database and ent's own builders are external: a Save is one         *)
(* transaction, an UpdateOne of a missing row fails, a create checks the   *)
(* required columns and the unique index, SetNillable(nil) does nothing,   *)
(* ClearX().AddXIDs(ids) leaves exactly ids, and AddXIDs alone fails when  *)
(* one of the ids is there already. EntBuilder has these in detail.        *)
(***************************************************************************)
EXTENDS ApplyOptions, Sequences

CONSTANTS
  Clients,      \* the goroutines that use the generated code
  Columns,      \* the columns of the entity
  Kind,         \* of a column: "plain", "optional", "nillable" or "json"
  Immutable,    \* the columns declared Immutable()
  Key,          \* the column of the entity's unique index
  Values,       \* what a column holds
  Peers, NoPeer,\* ids on the other side of the edges; the id 0
  Configs,      \* the option lists the clients use
  MaxRows, MaxBulk, MaxEdits, MaxJobs   \* bounds of the model

\* The columns whose Go field in the domain struct is a pointer.
IsPointer(f) == Kind[f] \in {"optional", "nillable"}

\* The columns the database lets be NULL: Optional() or Nillable().
IsNillable(f) == Kind[f] # "plain"

ASSUME DomainAssumption ==
  /\ Kind \in [Columns -> {"plain", "optional", "nillable", "json"}]
  /\ Key \in Immutable /\ Immutable \subseteq Columns /\ Kind[Key] = "plain"
  /\ Zero \in Values /\ Null \notin Values /\ NoPeer \notin Peers
  /\ Configs \subseteq ApplyConfig(Columns, {"tags"})
  /\ {MaxRows, MaxBulk, MaxEdits, MaxJobs} \subseteq Nat

Ids == 1 .. MaxRows

\* tags is a many-to-many edge and pinned a unique one, both with IDs().
Row == [val : [Columns -> Values \cup {Null}], tags : SUBSET Peers,
        pinned : Peers \cup {NoPeer}]

\* A domain struct; ID is 0 in a struct that no row stands behind.
Domain == [ID : Ids \cup {0}, val : [Columns -> Values \cup {Null}],
           tags : SUBSET Peers, pinned : Peers \cup {NoPeer}]

\* &domain.User{}
EmptyDomain ==
  [ID |-> 0, val |-> [f \in Columns |-> IF IsPointer(f) THEN Null ELSE Zero],
   tags |-> {}, pinned |-> NoPeer]

-----------------------------------------------------------------------------

\* Mutated form: the ids of a many-to-many edge are left out of the struct.
ToDomainWithoutIDs(id, r, eager) ==
  [ID |-> id,
   val |-> [f \in Columns |-> IF r.val[f] = Null /\ Kind[f] # "nillable"
                              THEN Zero ELSE r.val[f]],
   tags |-> {}, pinned |-> IF eager THEN r.pinned ELSE NoPeer]

\* ToDomain of the entity read from row r with this id. Only a Nillable()
\* column keeps NULL apart from the zero value: an optional one is &e.Field.
\* The edges are there when the query loaded them.
ToDomain(id, r, eager) ==
  [ID |-> id,
   val |-> [f \in Columns |-> IF r.val[f] = Null /\ Kind[f] # "nillable"
                              THEN Zero ELSE r.val[f]],
   tags |-> IF eager THEN r.tags ELSE {},
   pinned |-> IF eager THEN r.pinned ELSE NoPeer]

\* The columns one ApplyDomain sets. The branches of the template differ in
\* the Go types; all of them leave the builder alone when the pointer is nil.
Written(cfg, d, candidates) ==
  {f \in candidates :
     IF IsPointer(f) THEN ShouldApplyPtr(cfg, f, d.val[f]) /\ d.val[f] # Null
                     ELSE ShouldApply(cfg, f, d.val[f])}

Sets(cfg, d, candidates) == [f \in Written(cfg, d, candidates) |-> d.val[f]]

\* The mutation a builder carries: Create, UpdateOne and Update, Upsert.
CreateBuilder(cfg, d) ==
  [id |-> 0, set |-> Sets(cfg, d, Columns), clear |-> FALSE, add |-> d.tags]

\* Mutated form: the update builders set immutable columns too.
UpdateBuilderAllColumns(cfg, d) ==
  [id |-> d.ID, set |-> Sets(cfg, d, Columns), clear |-> ~IsAppendEdge(cfg, "tags"), add |-> d.tags]

UpdateBuilder(cfg, d) ==
  [id |-> d.ID, set |-> Sets(cfg, d, Columns \ Immutable),
   clear |-> ~IsAppendEdge(cfg, "tags"), add |-> d.tags]
UpsertBuilder(cfg, d) ==
  [id |-> 0, set |-> Sets(cfg, d, Columns \ Immutable), clear |-> FALSE, add |-> {}]

-----------------------------------------------------------------------------
VARIABLES
  db,      \* the rows, a function from the ids in use
  lastID,  \* the sequence of the table
  held,    \* the structs each client holds, in list order
  job,     \* the call each client is in
  edits,   \* edits of held structs so far (bounded by MaxEdits)
  jobs,    \* calls so far (bounded by MaxJobs)
  read     \* history: the row each held struct was read from

vars == <<db, lastID, held, job, edits, jobs, read>>

Idle == [phase |-> "idle", how |-> "", cfg |-> NoConfig, builders |-> <<>>, saved |-> 0]

Init ==
  /\ db = <<>> /\ lastID = 0
  /\ held = [c \in Clients |-> <<>>]
  /\ read = [c \in Clients |-> <<>>]
  /\ job = [c \in Clients |-> Idle]
  /\ edits = 0 /\ jobs = 0

-----------------------------------------------------------------------------
\* The row an update of r through builder b leaves.
Updated(r, b) ==
  [val |-> [f \in Columns |-> IF f \in DOMAIN b.set THEN b.set[f] ELSE r.val[f]],
   tags |-> (IF b.clear THEN {} ELSE r.tags) \cup b.add,
   pinned |-> r.pinned]

\* The join table of the edge refuses a pair it has already.
Addable(r, b) == b.clear \/ b.add \cap r.tags = {}

\* ent's checks of a create: every required column is set, the key is free.
Creatable(b, rows) ==
  /\ \A f \in Columns : IsNillable(f) \/ f \in DOMAIN b.set
  /\ \A i \in DOMAIN rows : rows[i].val[Key] # b.set[Key]

Created(b) ==
  [val |-> [f \in Columns |-> IF f \in DOMAIN b.set THEN b.set[f] ELSE Null],
   tags |-> b.add, pinned |-> NoPeer]

\* The table with a row for each builder, under the next ids of the sequence.
Inserted(bs) ==
  [i \in DOMAIN db \cup {lastID + k : k \in DOMAIN bs} |->
     IF i \in DOMAIN db THEN db[i] ELSE Created(bs[i - lastID])]

\* Restriction of the rows to those other than i.
Without(rows, i) == [j \in DOMAIN rows \ {i} |-> rows[j]]

Keep(c) == job[c].phase = "idle" /\ UNCHANGED <<db, lastID, job, jobs>>
Start(c) == job[c].phase = "idle" /\ jobs < MaxJobs /\ jobs' = jobs + 1

\* Mutated form: the slice ToDomain appends to a list that was made with its full length.
LoadPadded(c, i, eager) ==
  /\ Keep(c) /\ i \in DOMAIN db /\ Len(held[c]) < MaxBulk
  /\ held' = [held EXCEPT ![c] = @ \o <<EmptyDomain, ToDomain(i, db[i], eager)>>]
  /\ read' = [read EXCEPT ![c] = Append(@, db[i])]
  /\ UNCHANGED edits

\* A client reads a row, or starts from an empty struct.
Load(c, i, eager) ==
  /\ Keep(c) /\ i \in DOMAIN db /\ Len(held[c]) < MaxBulk
  /\ held' = [held EXCEPT ![c] = Append(@, ToDomain(i, db[i], eager))]
  /\ read' = [read EXCEPT ![c] = Append(@, db[i])]
  /\ UNCHANGED edits
Compose(c) ==
  /\ Keep(c) /\ Len(held[c]) < MaxBulk
  /\ held' = [held EXCEPT ![c] = Append(@, EmptyDomain)]
  /\ read' = [read EXCEPT ![c] = Append(@, Created([set |-> <<>>, add |-> {}]))]
  /\ UNCHANGED edits
Forget(c) ==
  /\ Keep(c) /\ held[c] # <<>>
  /\ held' = [held EXCEPT ![c] = <<>>] /\ read' = [read EXCEPT ![c] = <<>>]
  /\ UNCHANGED edits

\* A client changes a struct it holds.
EditColumn(c, k, f, v) ==
  /\ Keep(c) /\ edits < MaxEdits /\ edits' = edits + 1
  /\ v # Null \/ IsPointer(f)
  /\ held' = [held EXCEPT ![c][k] = [@ EXCEPT !.val[f] = v]] /\ held' # held
  /\ UNCHANGED read
EditEdges(c, k, tags, pinned) ==
  /\ Keep(c) /\ edits < MaxEdits /\ edits' = edits + 1
  /\ held' = [held EXCEPT ![c][k] = [@ EXCEPT !.tags = tags, !.pinned = pinned]] /\ held' # held
  /\ UNCHANGED read

-----------------------------------------------------------------------------
\* CreateBulkDomain and UpdateBulkDomain over the held structs. A list of one
\* is Create().ApplyDomain, UpdateOneID(d.ID).ApplyDomain and Save.
BulkDomain(c, how, cfg) ==
  /\ Start(c) /\ held[c] # <<>>
  /\ job' = [job EXCEPT ![c] = [phase |-> "building", how |-> how, cfg |-> cfg,
                                 builders |-> <<>>, saved |-> 0]]
  /\ UNCHANGED <<db, lastID, held, edits, read>>

\* One turn of the loop: the builder of the next struct, then its transformer
\* hook, whose error returns from the call with no bulk.
Building(c) == job[c].phase = "building" /\ Len(job[c].builders) < Len(held[c])
Current(c) == held[c][Len(job[c].builders) + 1]
ApplyDomain(c) ==
  /\ Building(c)
  /\ LET b == IF job[c].how = "create" THEN CreateBuilder(job[c].cfg, Current(c))
              ELSE UpdateBuilder(job[c].cfg, Current(c))
     IN  job' = [job EXCEPT ![c].builders = Append(@, b)]
  /\ UNCHANGED <<db, lastID, held, edits, jobs, read>>

\* Mutated form: a transformer error ends the loop but not the call.
TransformerShortens(c) ==
  /\ Building(c)
  /\ job' = [job EXCEPT ![c].phase = "saving"]
  /\ UNCHANGED <<db, lastID, held, edits, jobs, read>>

TransformerFails(c) ==
  /\ Building(c)
  /\ job' = [job EXCEPT ![c] = Idle]
  /\ UNCHANGED <<db, lastID, held, edits, jobs, read>>

\* The caller has the bulk, and calls Save on it when it likes.
Return(c) ==
  /\ job[c].phase = "building" /\ ~Building(c)
  /\ job' = [job EXCEPT ![c].phase = "saving"]
  /\ UNCHANGED <<db, lastID, held, edits, jobs, read>>

\* UpdateOneBulk.Save: one transaction per builder, in order; the first
\* builder that fails ends the call and leaves the rows before it updated.
SaveNext(c) ==
  LET b == job[c].builders[job[c].saved + 1] IN
  /\ job[c].phase = "saving" /\ job[c].how = "update"
  /\ job[c].saved < Len(job[c].builders)
  /\ \/ /\ b.id \in DOMAIN db /\ Addable(db[b.id], b)
        /\ db' = [db EXCEPT ![b.id] = Updated(@, b)]
        /\ job' = [job EXCEPT ![c].saved = @ + 1]
     \/ /\ b.id \in DOMAIN db => ~Addable(db[b.id], b)
        /\ job' = [job EXCEPT ![c] = Idle] /\ UNCHANGED db
  /\ UNCHANGED <<lastID, held, edits, jobs, read>>
SaveEnds(c) ==
  /\ job[c].phase = "saving" /\ job[c].how = "update"
  /\ job[c].saved = Len(job[c].builders)
  /\ job' = [job EXCEPT ![c] = Idle]
  /\ UNCHANGED <<db, lastID, held, edits, jobs, read>>

\* CreateBulk.Save is one transaction: all the rows or none.
SaveAll(c) ==
  LET bs == job[c].builders
      CanCreate(k) == Creatable(bs[k], Without(Inserted(bs), lastID + k))
  IN
  /\ job[c].phase = "saving" /\ job[c].how = "create"
  /\ job' = [job EXCEPT ![c] = Idle]
  /\ \/ /\ \A k \in DOMAIN bs : CanCreate(k)
        /\ lastID + Len(bs) =< MaxRows
        /\ db' = Inserted(bs) /\ lastID' = lastID + Len(bs)
     \/ /\ \E k \in DOMAIN bs : ~CanCreate(k)
        /\ UNCHANGED <<db, lastID>>
  /\ UNCHANGED <<held, edits, jobs, read>>

\* Update().ApplyDomain(d).Where(f = v).Save: no transformer runs, and every
\* row the condition selects changes in one transaction.
UpdateWhere(c, cfg, f, v) ==
  /\ Start(c) /\ held[c] # <<>>
  /\ \A i \in DOMAIN db : db[i].val[f] = v => Addable(db[i], UpdateBuilder(cfg, held[c][1]))
  /\ db' = [i \in DOMAIN db |->
              IF db[i].val[f] = v THEN Updated(db[i], UpdateBuilder(cfg, held[c][1])) ELSE db[i]]
  /\ UNCHANGED <<lastID, held, job, edits, read>>

\* Create().ApplyDomain(d).OnConflict(key).ApplyDomain(d).Exec, for a struct
\* without edge ids: the row that holds the key is updated, or one is created.
Upsert(c, cfg) ==
  LET b == CreateBuilder(cfg, held[c][1])
      taken == {i \in DOMAIN db : db[i].val[Key] = held[c][1].val[Key]}
  IN
  /\ Start(c) /\ held[c] # <<>> /\ held[c][1].tags = {}
  /\ Creatable(b, <<>>)
  /\ \/ /\ taken # {}
        /\ db' = [i \in DOMAIN db |->
                    IF i \in taken THEN Updated(db[i], UpsertBuilder(cfg, held[c][1])) ELSE db[i]]
        /\ UNCHANGED lastID
     \/ /\ taken = {} /\ lastID < MaxRows
        /\ db' = Inserted(<<b>>) /\ lastID' = lastID + 1
  /\ UNCHANGED <<held, job, edits, read>>

\* What the application does without the generated code: it deletes a row,
\* and sets the unique edge through ent's own SetPinnedID.
Delete(i) ==
  /\ i \in DOMAIN db /\ db' = Without(db, i)
  /\ UNCHANGED <<lastID, held, job, edits, jobs, read>>
Pin(i, p) ==
  /\ i \in DOMAIN db /\ db[i].pinned # p /\ db' = [db EXCEPT ![i].pinned = p]
  /\ UNCHANGED <<lastID, held, job, edits, jobs, read>>

Next ==
  \/ \E c \in Clients :
       \/ \E i \in Ids, eager \in BOOLEAN : Load(c, i, eager)
       \/ Compose(c) \/ Forget(c)
       \/ \E k \in DOMAIN held[c], f \in Columns, v \in Values \cup {Null} : EditColumn(c, k, f, v)
       \/ \E k \in DOMAIN held[c], t \in SUBSET Peers, p \in Peers \cup {NoPeer} : EditEdges(c, k, t, p)
       \/ \E how \in {"create", "update"}, cfg \in Configs : BulkDomain(c, how, cfg)
       \/ ApplyDomain(c) \/ TransformerFails(c) \/ Return(c)
       \/ SaveNext(c) \/ SaveEnds(c) \/ SaveAll(c)
       \/ \E cfg \in Configs, f \in Columns, v \in Values : UpdateWhere(c, cfg, f, v)
       \/ \E cfg \in Configs : Upsert(c, cfg)
  \/ \E i \in Ids : Delete(i) \/ \E p \in Peers : Pin(i, p)

Spec == Init /\ [][Next]_vars

-----------------------------------------------------------------------------
TypeOK ==
  /\ DOMAIN db \subseteq 1 .. lastID /\ lastID \in 0 .. MaxRows
  /\ \A i \in DOMAIN db : db[i] \in Row
  /\ \A c \in Clients :
       /\ Len(held[c]) = Len(read[c]) /\ Len(held[c]) =< MaxBulk
       /\ \A k \in DOMAIN held[c] : held[c][k] \in Domain /\ read[c][k] \in Row
       /\ job[c].phase \in {"idle", "building", "saving"} /\ job[c].cfg \in ApplyConfig(Columns, {"tags"})
       /\ job[c].saved =< Len(job[c].builders) /\ Len(job[c].builders) =< Len(held[c])
       /\ \A k \in DOMAIN job[c].builders : DOMAIN job[c].builders[k].set \subseteq Columns
  /\ edits \in 0 .. MaxEdits /\ jobs \in 0 .. MaxJobs

\* A bulk that reaches its caller has one builder for every struct of the
\* list, in list order: a transformer error discards the partial bulk
\* (domain.tmpl:499, 566), it never shortens it.
BulkIsComplete ==
  \A c \in Clients : job[c].phase = "saving" =>
    /\ Len(job[c].builders) = Len(held[c])
    /\ job[c].how = "update" =>
         \A k \in DOMAIN held[c] : job[c].builders[k].id = held[c][k].ID

\* ToDomain followed by ApplyDomain changes nothing: when a client read a row
\* with its edges, edited nothing, and nobody wrote the row in between, saving
\* it leaves the row as it was, under every option list. The one exception is
\* documented: NULL in an Optional() column without Nillable() reads as the
\* zero value and is written back as one.
UneditedSaveIsHarmless ==
  [][\A c \in Clients : job'[c].saved = job[c].saved + 1 =>
       LET k == job'[c].saved
           i == held[c][k].ID
       IN  held[c][k] = ToDomain(i, read[c][k], TRUE) /\ db[i] = read[c][k] =>
             /\ db'[i].tags = db[i].tags /\ db'[i].pinned = db[i].pinned
             /\ \A f \in Columns : db'[i].val[f] # db[i].val[f] =>
                  /\ db[i].val[f] = Null /\ db'[i].val[f] = Zero
                  /\ Kind[f] \in {"optional", "json"}]_vars

\* An update by c under the options cfg, of any of the three kinds.
UpdateStep(c, cfg) ==
  \/ SaveNext(c) /\ job[c].cfg = cfg
  \/ \E f \in Columns, v \in Values : UpdateWhere(c, cfg, f, v)
  \/ Upsert(c, cfg)

\* A stale struct does not revert what others wrote: whenever it was read and
\* whatever it holds, an update changes no column its allowlist leaves out or
\* its OmitFields names.
AllowlistFrames ==
  [][\A c \in Clients, cfg \in Configs : UpdateStep(c, cfg) =>
       \A i \in DOMAIN db, f \in Columns :
         ~InLists(cfg, f) => db'[i].val[f] = db[i].val[f]]_vars

\* A row keeps its Immutable() columns from its creation to its deletion.
ImmutableKept ==
  [][\A i \in DOMAIN db \cap DOMAIN db' :
       \A f \in Immutable : db'[i].val[f] = db[i].val[f]]_vars

\* README.md:613: the options control which fields ApplyDomain writes, and
\* OnlyFields is an allowlist. Under one that does not list the edge, a struct
\* that holds no edge ids leaves the edges of the rows alone.
AllowlistKeepsEdges ==
  [][\A c \in Clients, cfg \in Configs :
       /\ UpdateStep(c, cfg) /\ cfg.onlyFields # {}
       /\ \A k \in DOMAIN held[c] : held[c][k].tags = {}
       => \A i \in DOMAIN db : db'[i].tags = db[i].tags]_vars

=============================================================================
