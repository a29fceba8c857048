---------------------------- MODULE EntDatabase ----------------------------
(***************************************************************************)
(* The database that the clients of the generated packages share, as       *)
(* migrations made it and builders filled it: the tables and join table of *)
(* migrate/schema.go, with the sequences that give the ids. What clients   *)
(* do to it is said by EntBuilder and EntSession.                          *)
(***************************************************************************)
EXTENDS EntDomain

CONSTANT Databases  \* the databases a behaviour may start with

VARIABLES
  db,   \* the rows of the tables, their foreign keys, the pairs of user_tags
  last  \* of a table: the last id its sequence gave

Tables == {"users", "posts", "tags"}
Values == {Zero, Default, Null}

\* Ids count from 1, and every reference names a row.
Database(d) ==
  /\ d = [rows |-> d.rows, fk |-> d.fk, user_tags |-> d.user_tags]
  /\ d.rows = [t \in Tables |-> [i \in DOMAIN d.rows[t] |-> d.rows[t][i]]]
  /\ \A t \in Tables :
       /\ IsFiniteSet(DOMAIN d.rows[t]) /\ DOMAIN d.rows[t] = 1 .. Cardinality(DOMAIN d.rows[t])
       /\ \A i \in DOMAIN d.rows[t] : d.rows[t][i] \in [Columns(t) -> Values]
  /\ d.fk = [k \in DOMAIN KeyTarget |-> [i \in DOMAIN d.fk[k] |-> d.fk[k][i]]]
  /\ \A pair \in d.user_tags : pair = <<pair[1], pair[2]>>
  /\ ForeignKeysHold(d)

ASSUME DatabasesAssumption == \A d \in Databases : Database(d)

DatabaseInit == db \in Databases /\ last = [t \in Tables |-> Cardinality(DOMAIN db.rows[t])]

=============================================================================
