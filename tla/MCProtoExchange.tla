--------------------------- MODULE MCProtoExchange ---------------------------
(***************************************************************************)
(* A user with one field of each kind.  Versions lose the name and get it  *)
(* back, gain fields, append, remove and swap enumerators; the password is *)
(* SkipProto.                                                              *)
(***************************************************************************)
EXTENDS ProtoExchange, TLC

UserNames == {"id", "name", "bio", "status", "seen_at", "secret"}
UserRank == [id |-> 3, name |-> 4, bio |-> 1, status |-> 6, seen_at |-> 7, secret |-> 8]
UserKind == [name |-> "plain", bio |-> "nillable", status |-> "enum", seen_at |-> "time", secret |-> "plain"]
CONSTANTS active, gone, pending
Statuses == {active, gone, pending}
Version(listed, hidden, enum) == [listed |-> listed, hidden |-> hidden, enum |-> enum]
UserVersions ==
    {Version(<<"id", "name", "status">>, {"secret"}, <<active>>),
     Version(<<"id", "bio", "status">>, {}, <<active, gone>>),
     Version(<<"id", "seen_at", "status">>, {}, <<gone, active>>)}

\* One enumerator put in front of the others.
StatusNames == {"id", "status"}
StatusRank == [id |-> 1, status |-> 2]
StatusKind == [status |-> "enum"]
StatusVersions == {Version(<<"id", "status">>, {}, <<active, gone>>), Version(<<"id", "status">>, {}, <<pending, active, gone>>)}

\* With a field of a UUID.
AccountNames == {"id", "name", "ref"}
AccountRank == [id |-> 1, name |-> 2, ref |-> 3]
AccountKind == [name |-> "plain", ref |-> "uuid"]
AccountVersions == {Version(<<"id", "name">>, {}, <<active>>), Version(<<"id", "name", "ref">>, {}, <<active>>)}
ClientSymmetry == Permutations(Clients)
=============================================================================
