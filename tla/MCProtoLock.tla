----------------------------- MODULE MCProtoLock -----------------------------
(***************************************************************************)
(* Instances of ProtoLock.  One entity has an id and two other fields; the *)
(* candidate lists drop and bring back each of them, reorder them, list a  *)
(* name twice (an edge and a virtual field may collide) and leave id out   *)
(* (an id with a custom Go type has no proto form).                        *)
(***************************************************************************)
EXTENDS ProtoLock, TLC

CONSTANTS id, age, zip, user

MCName == {id, age, zip}
MCRank == id :> 2 @@ age :> 1 @@ zip :> 3

MCFieldLists ==
    {<<id>>, <<id, age>>, <<id, zip>>, <<id, zip, age>>, <<id, zip, zip>>, <<age>>, <<>>}
=============================================================================
