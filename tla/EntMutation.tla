---------------------------- MODULE EntMutation ----------------------------
(***************************************************************************)
(* The mutation that an ent builder collects (ent/mutation.go): which      *)
(* columns are set or cleared, and for each edge the ids to add, the ids   *)
(* to remove and whether the edge is cleared first. The Go code has one    *)
(* copy of every method per column and per edge; here they are operators   *)
(* on a mutation m with the column c or the edge e as a parameter. Nothing *)
(* is written before the builder is saved.                                 *)
(***************************************************************************)
EXTENDS GoMaps, Integers, FiniteSets

\* A map that was never made and an empty one are told apart, because the
\* methods that hooks read the mutation with do so.
NewMutation ==
  [set |-> <<>>, cleared |-> {}, ids |-> <<>>, removed |-> <<>>, gone |-> {}]

\* Setting a column does not take back that it was cleared.
SetColumn(m, c, v) == [m EXCEPT !.set = With(@, c, v)]
ClearColumn(m, c) == [m EXCEPT !.set = Dropped(@, c), !.cleared = @ \cup {c}]
ResetColumn(m, c) == [m EXCEPT !.set = Dropped(@, c), !.cleared = @ \ {c}]

IDs(m, e) == IF e \in DOMAIN m.ids THEN m.ids[e] ELSE {}
RemovedIDs(m, e) == IF e \in DOMAIN m.removed THEN m.removed[e] ELSE {}

\* An edge to many.
AddIDs(m, e, S) == [m EXCEPT !.ids = With(@, e, IDs(m, e) \cup S)]

\* Mutated form: what was added before stays in the list of additions.
RemoveIDsOnly(m, e, S) == [m EXCEPT !.removed = With(@, e, RemovedIDs(m, e) \cup S)]

RemoveIDs(m, e, S) ==
  [m EXCEPT !.ids = [x \in DOMAIN @ |-> IF x = e THEN @[x] \ S ELSE @[x]],
            !.removed = With(@, e, RemovedIDs(m, e) \cup S)]

\* A unique edge.
SetID(m, e, i) == [m EXCEPT !.ids = With(@, e, {i})]

\* Clearing an edge leaves the ids to add alone, whenever they were added.
ClearEdge(m, e) == [m EXCEPT !.gone = @ \cup {e}]
ResetEdge(m, e) ==
  [m EXCEPT !.ids = Dropped(@, e), !.removed = Dropped(@, e), !.gone = @ \ {e}]

-----------------------------------------------------------------------------
\* What a hook can learn from the mutation.
Fields(m) == DOMAIN m.set
ClearedFields(m) == m.cleared
AddedEdges(m) == DOMAIN m.ids
RemovedEdges(m) == DOMAIN m.removed

\* Mutated form: an edge is cleared when ids of it were removed.
ClearedEdgesRemoved(m) == m.gone \cap DOMAIN m.removed

ClearedEdges(m) == m.gone

\* The part of an edge that a save writes: see EntSpecs.
EdgeChange(m, e) ==
  [all |-> e \in m.gone,
   removed |-> IF e \in m.gone THEN {} ELSE RemovedIDs(m, e),
   added |-> IDs(m, e)]

NoChange == [all |-> FALSE, removed |-> {}, added |-> {}]
=============================================================================
