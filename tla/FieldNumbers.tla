---------------------------- MODULE FieldNumbers ----------------------------
(***************************************************************************)
(* Field-number allocation of proto_lock.go: the pure function             *)
(* allocateFieldNumbers that reconciles the candidate proto fields of one  *)
(* entity with that entity's record of the lock file.                      *)
(***************************************************************************)
EXTENDS Integers, Sequences, FiniteSets

CONSTANTS
    Name,   \* the proto field names (snake_name) an entity may ever have
    Id,     \* the name "id"
    Rank    \* position of each name in the order of sort.Strings

ASSUME IdAssumption == Id \in Name

ASSUME RankAssumption ==
    /\ Rank \in [Name -> Nat]
    /\ \A f, g \in Name : Rank[f] = Rank[g] => f = g

(***************************************************************************)
(* ProtoEntityLock.  Fields is a Go map: a name that is not a key has the  *)
(* number 0 here.  Reserved is a sorted slice without duplicates: a set.   *)
(* An entity that is not in the lock file reads as EmptyEntityLock.        *)
(***************************************************************************)
EntityLock == [fields : [Name -> Nat], reserved : SUBSET Nat]

EmptyEntityLock == [fields |-> [f \in Name |-> 0], reserved |-> {}]

Live(el) == {f \in Name : el.fields[f] # 0}

\* currentSet: the names in a list of candidate fields
Listed(current) == {current[i] : i \in DOMAIN current}

\* Mutated form: the numbers of removed fields are dropped, not reserved.
RetiredDropped(el, current) == {}

\* Numbers of the fields that left the schema.
Retired(el, current) == {el.fields[f] : f \in Live(el) \ Listed(current)}

\* Mutated form: an existing field loses its number and is numbered anew.
KeptNone(el, current) ==
    [f \in Name |-> IF f = Id /\ f \in Listed(current) THEN 1 ELSE 0]

\* Fields after the retire loop and the id rule, before new names are added.
Kept(el, current) ==
    [f \in Name |-> CASE f \notin Listed(current) -> 0
                      [] f \in Listed(current) /\ f = Id -> 1
                      [] f \in Listed(current) /\ f # Id -> el.fields[f]]

\* Every number the next one must exceed; 1 is the floor of maxNum.
Taken(el, current) ==
    {1} \cup {Kept(el, current)[f] : f \in Name}
        \cup el.reserved \cup Retired(el, current)

MaxNum(el, current) ==
    CHOOSE n \in Taken(el, current) : \A m \in Taken(el, current) : m <= n

\* Positions of the list that go into newFields; a name listed twice is
\* there twice.
NewFields(el, current) ==
    {i \in DOMAIN current : Kept(el, current)[current[i]] = 0}

\* Mutated form: new fields of one run all take the next free number.
SortedPositionSame(el, current, f) == 1

\* How far into the sorted newFields the last occurrence of f stands: the
\* loop increments maxNum once per entry and the last assignment wins.
SortedPosition(el, current, f) ==
    Cardinality({i \in NewFields(el, current) : Rank[current[i]] <= Rank[f]})

AllocateFieldNumbers(el, current) ==
    [fields   |-> [f \in Name |->
                     IF f \in Listed(current) /\ Kept(el, current)[f] = 0
                     THEN MaxNum(el, current) + SortedPosition(el, current, f)
                     ELSE Kept(el, current)[f]],
     reserved |-> el.reserved \cup Retired(el, current)]

(***************************************************************************)
(* What a record written by AllocateFieldNumbers satisfies: no two live    *)
(* fields share a number, 1 belongs to id alone, a reserved number is not  *)
(* live again (except id's), and the numbers in use are bounded.           *)
(***************************************************************************)
InjectiveFields(el) ==
    \A f, g \in Live(el) : el.fields[f] = el.fields[g] => f = g

IdIsOne(el) == \A f \in Live(el) : f = Id <=> el.fields[f] = 1

ReservedNotLive(el) ==
    /\ 0 \notin el.reserved
    /\ \A f \in Live(el) : el.fields[f] \in el.reserved => f = Id

Numbers(el) == {el.fields[f] : f \in Name} \cup el.reserved

BoundedNumbers(el) == \E b \in Numbers(el) : \A n \in Numbers(el) : n <= b

WellFormed(el) ==
    /\ InjectiveFields(el)
    /\ IdIsOne(el)
    /\ ReservedNotLive(el)
    /\ BoundedNumbers(el)
=============================================================================
