---------------------------- MODULE ProtoExchange ----------------------------
(***************************************************************************)
(* What the generated messages and mappers do together when not everybody  *)
(* runs the same build: the schema changes, each generation numbers the    *)
(* fields through the lock, and clients and the server are upgraded when   *)
(* they like.  The server reads a row, maps it ToDomain and ToProto and    *)
(* sends it; a client changes fields of the message it holds and sends it  *)
(* back; the server maps it FromProto and applies it to the row under the  *)
(* options of its handler.                                                 *)
(*                                                                         *)
(* External: the wire carries numbers and values, leaves out what has no   *)
(* presence and is zero, and keeps fields whose number it does not know.   *)
(***************************************************************************)
EXTENDS FieldNumbers, ApplyOptions

CONSTANTS
    Kind,            \* of a field: "plain", "nillable", "enum", "time" or "uuid"
    Versions,        \* the schemas: fields with and without proto, enum values
    Enumeration,     \* the values of enums
    Values,          \* what a plain, a nillable, a time or a uuid column holds
    Epoch,           \* 1970-01-01, which is not the zero time
    Clients,
    MaxBuilds, MaxEdits, MaxPuts   \* bounds of the model

ASSUME KindAssumption == Kind \in [Name \ {Id} -> {"plain", "nillable", "enum", "time", "uuid"}]
ASSUME VersionsAssumption ==
    \A v \in Versions :
        /\ v.listed \in Seq(Name) /\ Id \in Listed(v.listed)
        /\ v.hidden \subseteq Name \ Listed(v.listed)
        /\ v.enum \in Seq(Enumeration) /\ Len(v.enum) > 0
        /\ \A k, l \in DOMAIN v.enum : v.enum[k] = v.enum[l] => k = l
        /\ \A f \in v.hidden : Kind[f] # "enum"
ASSUME ValuesAssumption == {Zero, Epoch} \subseteq Values /\ Null \notin Values \cup Enumeration /\ Epoch # Zero
ASSUME BoundsAssumption == MaxBuilds \in Nat \ {0} /\ MaxEdits \in Nat /\ MaxPuts \in Nat

-----------------------------------------------------------------------------
(* A build is a version and the numbers of its message. *)
Fields(b) == Listed(b.version.listed) \ {Id}
Columns(b) == Fields(b) \cup b.version.hidden
Number(b, f) == b.lock.fields[f]
Empty == [n \in {} |-> Zero]

\* A map with one more key, and with one less.
With(map, k, x) == [m \in DOMAIN map \cup {k} |-> IF m = k THEN x ELSE map[m]]
Without(map, k) == [m \in DOMAIN map \ {k} |-> map[m]]

IsPointer(f) == Kind[f] = "nillable"

\* Mutated form: a zero time is not sent.
ToProtoZeroTime(b, f, v) ==
    CASE Kind[f] = "enum" -> {k \in DOMAIN b.version.enum : b.version.enum[k] = v}
      [] Kind[f] \in {"plain", "time"} -> {v} \ {Zero}
      [] OTHER -> {v} \ {Null}

\* What the mapper of build b puts on the wire for a value, nothing or one: an
\* enumerator is its position, and one the build does not have is 0 (UNSPECIFIED).
ToProto(b, f, v) ==
    CASE Kind[f] = "enum" -> {k \in DOMAIN b.version.enum : b.version.enum[k] = v}
      [] Kind[f] = "plain" -> {v} \ {Zero}
      [] Kind[f] = "nillable" -> {v} \ {Null}
      [] OTHER -> {v}

\* A message with another value in a field.
Assign(b, msg, f, v) ==
    IF ToProto(b, f, v) = {} THEN Without(msg, Number(b, f))
    ELSE With(msg, Number(b, f), CHOOSE x \in ToProto(b, f, v) : TRUE)

\* The message of a row.
UserToProto(b, row) ==
    LET carried == {f \in Fields(b) : ToProto(b, f, row[f]) # {}}
    IN  [n \in {Number(b, f) : f \in carried} |->
           LET f == CHOOSE g \in carried : Number(b, g) = n IN CHOOSE x \in ToProto(b, f, row[f]) : TRUE]

\* Mutated form: an unknown enumerator stays unknown.
FromProtoUnspecified(b, f, msg) ==
    LET n == Number(b, f) IN
    CASE n \in DOMAIN msg /\ Kind[f] # "enum" -> msg[n]
      [] n \in DOMAIN msg /\ Kind[f] = "enum" -> IF msg[n] \in DOMAIN b.version.enum THEN b.version.enum[msg[n]] ELSE Zero
      [] n \notin DOMAIN msg -> IF Kind[f] = "nillable" THEN Null ELSE IF Kind[f] = "time" THEN Epoch ELSE Zero

\* What the mapper of build b makes of field f: an enumerator it does not know,
\* or none, is the first one; a time that is not there is the epoch.
FromProto(b, f, msg) ==
    LET n == Number(b, f) IN
    CASE n \in DOMAIN msg /\ Kind[f] # "enum" -> msg[n]
      [] n \in DOMAIN msg /\ Kind[f] = "enum" -> b.version.enum[IF msg[n] \in DOMAIN b.version.enum THEN msg[n] ELSE 1]
      [] n \notin DOMAIN msg ->
           CASE Kind[f] = "enum" -> b.version.enum[1]
             [] Kind[f] = "nillable" -> Null
             [] Kind[f] = "time" -> Epoch
             [] OTHER -> Zero

\* The domain struct of a message: what the message cannot carry is empty.
UserFromProto(b, msg) ==
    [f \in Columns(b) |-> IF f \in Fields(b) THEN FromProto(b, f, msg) ELSE IF IsPointer(f) THEN Null ELSE Zero]

\* uuid.MustParse of the empty string.
Panics(b, msg) == \E f \in Fields(b) : Kind[f] = "uuid" /\ Number(b, f) \notin DOMAIN msg

\* ApplyDomain on an UpdateOne builder, and Save.
Applied(cfg, d, row) ==
    [f \in DOMAIN row |->
        IF IF IsPointer(f) THEN ShouldApplyPtr(cfg, f, d[f]) /\ d[f] # Null ELSE ShouldApply(cfg, f, d[f])
        THEN d[f] ELSE row[f]]

-----------------------------------------------------------------------------
VARIABLES
    builds,  \* the generations, each with the lock it left
    server,  \* the build the server runs
    row,     \* the row of the entity, a function on the server's columns
    client,  \* of a client: its build, its message, what it set in it
    last,    \* how the last call ended
    seen,    \* of a client: the row it read, and the build it was read by (for properties)
    edits, puts

vars == <<builds, server, row, client, last, seen, edits, puts>>

Build(v, lock) == [version |-> v, lock |-> AllocateFieldNumbers(lock, v.listed)]
Fresh(b, f) == IF IsPointer(f) THEN Null ELSE IF Kind[f] = "enum" THEN b.version.enum[1] ELSE Zero
Holding(k) == [build |-> k, msg |-> Empty, edited |-> Empty, loaded |-> FALSE]

Init ==
    /\ \E v \in Versions : builds = <<Build(v, EmptyEntityLock)>>
    /\ server = 1
    /\ \E v \in Values \ {Zero, Epoch} :
           row = [f \in Columns(builds[1]) |-> IF f \in builds[1].version.hidden THEN v ELSE Fresh(builds[1], f)]
    /\ client = [c \in Clients |-> Holding(1)]
    /\ last = "none"
    /\ seen = [c \in Clients |-> [row |-> Empty, build |-> 0]]
    /\ edits = 0 /\ puts = 0

Own(c) == builds[client[c].build]
Server == builds[server]

\* A generation over the lock of the one before.  The lock knows fields only: the
\* new schema may have its enumerators in another order, more of them or fewer.
Generate(v) ==
    LET before == builds[Len(builds)] IN
    /\ Len(builds) < MaxBuilds /\ v # before.version
    /\ builds' = Append(builds, Build(v, before.lock))
    /\ UNCHANGED <<server, row, client, last, seen, edits, puts>>

\* The server moves to a later build and the table with it; a row keeps what it
\* has in a column, an enumerator too that the build no longer has.
Deploy(k) ==
    /\ k \in server + 1 .. Len(builds)
    /\ server' = k
    /\ row' = [f \in Columns(builds[k]) |-> IF f \in DOMAIN row THEN row[f] ELSE Fresh(builds[k], f)]
    /\ UNCHANGED <<builds, client, last, seen, edits, puts>>
Upgrade(c, k) ==
    /\ k \in client[c].build + 1 .. Len(builds)
    /\ client' = [client EXCEPT ![c] = Holding(k)]
    /\ UNCHANGED <<builds, server, row, last, seen, edits, puts>>

Get(c) ==
    /\ client' = [client EXCEPT ![c] = [build |-> @.build, msg |-> UserToProto(Server, row), edited |-> Empty, loaded |-> TRUE]]
    /\ seen' = [seen EXCEPT ![c] = [row |-> row, build |-> server]]
    /\ UNCHANGED <<builds, server, row, last, edits, puts>>

\* A client sets a field that its build has in the message it holds.
Edit(c, f, v) ==
    /\ client[c].loaded /\ f \in Fields(Own(c)) /\ edits < MaxEdits
    /\ CASE Kind[f] = "enum" -> v \in {Own(c).version.enum[k] : k \in DOMAIN Own(c).version.enum}
         [] Kind[f] = "time" -> v \in Values
         [] Kind[f] = "nillable" -> v \in (Values \cup {Null}) \ {Epoch}
         [] OTHER -> v \in Values \ {Epoch}
    /\ edits' = edits + 1
    /\ client' = [client EXCEPT ![c].msg = Assign(Own(c), @, f, v), ![c].edited = With(@, f, v)]
    /\ UNCHANGED <<builds, server, row, last, seen, puts>>

Mask(c) == DOMAIN client[c].edited

\* The handler's options: none, everything that is not empty, or the fields the
\* client names as edited.
Options(c) == {NoConfig, OmitNil(OmitZeroVal(NoConfig)), OnlyFields(NoConfig, Mask(c))}
Put(c, cfg) ==
    /\ client[c].loaded /\ puts < MaxPuts /\ puts' = puts + 1
    /\ IF Panics(Server, client[c].msg)
       THEN last' = "panic" /\ UNCHANGED row
       ELSE last' = "ok" /\ row' = Applied(cfg, UserFromProto(Server, client[c].msg), row)
    /\ UNCHANGED <<builds, server, client, seen, edits>>

Next ==
    \/ \E v \in Versions : Generate(v)
    \/ \E k \in 1 .. MaxBuilds : Deploy(k)
    \/ \E c \in Clients :
         \/ \E k \in 1 .. MaxBuilds : Upgrade(c, k)
         \/ Get(c)
         \/ \E f \in Name \ {Id}, v \in Values \cup Enumeration \cup {Null} : Edit(c, f, v)
         \/ \E cfg \in Options(c) : Put(c, cfg)
Spec == Init /\ [][Next]_vars

-----------------------------------------------------------------------------
(* Properties *)

\* The row has a value of the right kind in every column of the server's build:
\* neither the wire nor another build brings in one of another kind.
TypeOK ==
    /\ server \in DOMAIN builds /\ Len(builds) <= MaxBuilds
    /\ DOMAIN row = Columns(Server)
    /\ \A f \in DOMAIN row :
           CASE Kind[f] = "enum" -> row[f] \in Enumeration
             [] Kind[f] = "nillable" -> row[f] \in Values \cup {Null}
             [] OTHER -> row[f] \in Values
    /\ \A c \in Clients : client[c].build \in DOMAIN builds /\ Mask(c) \subseteq Fields(Own(c))
    /\ edits \in 0 .. MaxEdits /\ puts \in 0 .. MaxPuts

\* What the message of c has for no field, or for one the server does not know.
Default(f) ==
    CASE f \in Server.version.hidden -> Zero
      [] f \notin Server.version.hidden /\ Kind[f] = "enum" -> Server.version.enum[1]
      [] f \notin Server.version.hidden /\ Kind[f] = "time" -> Epoch
      [] OTHER -> Zero

\* A build has an enumerator.
Knows(b, v) == \E k \in DOMAIN b.version.enum : b.version.enum[k] = v

\* Two builds have the same enumerator at every position that both have: one list
\* begins with the other.  Nothing in the code sees to it.
Aligned(a, b) ==
    \A k \in DOMAIN a.version.enum \cap DOMAIN b.version.enum : a.version.enum[k] = b.version.enum[k]

\* The column of f takes the value its field had for the client, or the default of
\* its kind.
TakesMeant(c, f) ==
    \/ row'[f] = Default(f)
    \/ f \in Mask(c) /\ row'[f] = client[c].edited[f]
    \/ f \in Fields(builds[seen[c].build]) /\ row'[f] = seen[c].row[f]

\* What the lock is for (README.md:1012, "wire compatibility across schema
\* changes"), and how far it holds: whatever builds the two sides run and whatever
\* fields left the schema or came back in between, a column takes the value its
\* field had for the client, or the default of its kind, and never the value of
\* another field.  Of an enum this is claimed only if the builds that may have
\* written it into the message number its enumerators as the server does; else it
\* is false, see MeaningKept.
LandsWhereMeant ==
    [][\A c \in Clients : \A cfg \in Options(c) : Put(c, cfg) =>
        \A f \in DOMAIN row : row'[f] # row[f] =>
            \/ TakesMeant(c, f)
            \/ Kind[f] = "enum" /\ ~(Aligned(Own(c), Server) /\ Aligned(builds[seen[c].build], Server))]_vars

\* README.md:1012 without that exception: committing the lock "ensures wire
\* compatibility across schema changes".  An enumerator is numbered by its place
\* in the schema (proto_generate.go:221-226) and the lock does not know it.
MeaningKept ==
    [][\A c \in Clients : \A cfg \in Options(c) : Put(c, cfg) =>
        \A f \in DOMAIN row : row'[f] # row[f] => TakesMeant(c, f)]_vars

\* A field and its number are the same in both builds, and so are the numbers of
\* its enumerators if it is an enum.
Shared(c, f) ==
    /\ f \in Fields(Own(c)) \cap Fields(Server) /\ Number(Own(c), f) = Number(Server, f)
    /\ Kind[f] = "enum" => Aligned(Own(c), Server)

\* What the column of f holds after the server has taken v for it.
Received(f, v) ==
    IF v = Null THEN row[f]
    ELSE IF Kind[f] = "enum" /\ ~Knows(Server, v) THEN Default(f)
    ELSE v

\* Under OnlyFields of what a client edited its edits arrive and nothing else
\* changes, however old its message is: two clients that edit different fields
\* do not undo each other.  Nil leaves a column alone, and an enumerator beyond
\* those of the server becomes the first.  Nothing is claimed of an edit that the
\* two builds number differently: one whose field was removed and added again,
\* or an enum whose enumerators were inserted, removed or reordered.
MaskedEditsArrive ==
    [][\A c \in Clients : Mask(c) # {} /\ Put(c, OnlyFields(NoConfig, Mask(c))) /\ last' = "ok" =>
        \A f \in DOMAIN row :
            /\ f \notin Mask(c) => row'[f] = row[f]
            /\ f \in Mask(c) /\ Shared(c, f) =>
                 row'[f] = Received(f, client[c].edited[f])]_vars

\* Under OmitZeroVal and OmitNil a column survives that the message has no field
\* for, or that the client has no number for: SkipProto columns and those added
\* later.  An enum and a time do not: what FromProto makes of nothing is not the
\* zero value of their type.
AbsentSurvives ==
    [][\A c \in Clients : Put(c, OmitNil(OmitZeroVal(NoConfig))) =>
        \A f \in DOMAIN row :
            \/ f \in Fields(Server) /\ (Number(Server, f) \in DOMAIN client[c].msg \/ Kind[f] \in {"enum", "time"})
            \/ row'[f] = row[f]]_vars

\* A message that comes back as it was sent, to the same build and over the same
\* row, changes no column, under every option list; but for a status that the
\* build no longer has, which no message carries and which becomes the first.
RoundTrip ==
    [][\A c \in Clients : \A cfg \in Options(c) :
        Mask(c) = {} /\ seen[c] = [row |-> row, build |-> server] /\ Put(c, cfg) =>
            \A f \in Fields(Server) : (Kind[f] = "enum" => Knows(Server, row[f])) => row'[f] = row[f]]_vars

\* template/proto_helpers.tmpl: a value that does not parse is nil "rather than
\* panicking -- protobuf payloads [...] must not crash the process".
NeverPanics == last # "panic"
=============================================================================
