---------------------------- MODULE FieldRegistry ---------------------------
(***************************************************************************)
(* What the lock file promises to the readers of the generated proto file: *)
(* whatever is published, over the whole history of the repository no      *)
(* field number of a message has ever stood for two different fields.      *)
(***************************************************************************)
EXTENDS Integers

CONSTANTS Entity, Name

VARIABLES
    published,  \* [Entity -> [Name -> Nat]], the message fields now published
    history     \* [Entity -> [Name -> SUBSET Nat]], every number a name had

vars == <<published, history>>

\* Every number of m that is in use (0: the name is not in the message).
NumberSet(n) == {n} \ {0}

\* No number belongs to two names of one message.
Unambiguous(h) ==
    \A e \in Entity : \A f, g \in Name : f # g => h[e][f] \cap h[e][g] = {}

Init ==
    /\ published = [e \in Entity |-> [f \in Name |-> 0]]
    /\ history = [e \in Entity |-> [f \in Name |-> {}]]

\* Any messages may be published next, as long as the history they extend
\* stays unambiguous.
Publish ==
    /\ history' = [e \in Entity |-> [f \in Name |->
                     history[e][f] \cup NumberSet(published'[e][f])]]
    /\ Unambiguous(history')

Spec == Init /\ [][Publish]_vars
=============================================================================
