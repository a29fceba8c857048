---------------------------- MODULE ApplyOptions ----------------------------
(***************************************************************************)
(* The options of an ApplyDomain call (runtime.go): what a configuration   *)
(* holds, the five options that build one, and which fields it lets        *)
(* through. Fields and edges are known by the names of their columns.      *)
(***************************************************************************)
EXTENDS GoValues, Integers

\* An ApplyConfig over these fields and edges.
ApplyConfig(fields, edges) ==
  [omitZeroVal : BOOLEAN, omitNil : BOOLEAN, omitFields : SUBSET fields,
   onlyFields : SUBSET fields, appendEdges : SUBSET edges]

NoConfig == [omitZeroVal |-> FALSE, omitNil |-> FALSE, omitFields |-> {},
             onlyFields |-> {}, appendEdges |-> {}]

\* The options; a call lists any number of them, and they are applied in order.
OmitZeroVal(c) == [c EXCEPT !.omitZeroVal = TRUE]
OmitNil(c) == [c EXCEPT !.omitNil = TRUE]
OmitFields(c, fields) == [c EXCEPT !.omitFields = @ \cup fields]
OnlyFields(c, fields) == [c EXCEPT !.onlyFields = @ \cup fields]
AppendEdge(c, edge) == [c EXCEPT !.appendEdges = @ \cup {edge}]

InLists(cfg, f) ==
  /\ cfg.onlyFields = {} \/ f \in cfg.onlyFields
  /\ f \notin cfg.omitFields

\* Mutated form: the allowlist is forgotten.
ShouldApplyAny(cfg, f, v) == f \notin cfg.omitFields /\ ~(cfg.omitZeroVal /\ v = Zero)

\* Mutated form: zero values are set whatever the options.
ShouldApplyZero(cfg, f, v) == InLists(cfg, f)

ShouldApply(cfg, f, v) == InLists(cfg, f) /\ ~(cfg.omitZeroVal /\ v = Zero)

\* Mutated form: the allowlist is forgotten for pointer fields.
ShouldApplyPtrAll(cfg, f, v) == f \notin cfg.omitFields /\ ~(cfg.omitNil /\ v = Null)

ShouldApplyPtr(cfg, f, v) == InLists(cfg, f) /\ ~(cfg.omitNil /\ v = Null)

IsAppendEdge(cfg, e) == e \in cfg.appendEdges

=============================================================================
