---------------------------- MODULE Collections -----------------------------
(***************************************************************************)
(* SecureWriteCollection, a map under a recursive mutex, which             *)
(* ClientManager and EntryDataProvider keep their entries in, and          *)
(* SecureVectorCollection.  Some members lock the mutex and some do not.   *)
(* A call touches its container for a while: if two do so at once and one  *)
(* of them writes, the code defines nothing any more.  What does not       *)
(* compile once it is used, as Remove does, is left out.                   *)
(***************************************************************************)
EXTENDS Integers, Sequences, FiniteSets

CONSTANTS
  Threads,
  Keys, Entries,
  NoEntry,     \* T2(), which operator[] puts into the map
  MaxElements  \* bound on the vector's elements

Nobody == "nobody"
Containers == {"ObjectList", "TVect"}
AKey == CHOOSE k \in Keys : TRUE

ASSUME CollectionAssumption == Keys # {} /\ Nobody \notin Threads

VARIABLES
  ObjectList, TVect,
  mMutex,      \* of each container: the thread that holds it
  calls,       \* [container, member, key, entry, writes] of each thread
  undefined,   \* the members whose calls have collided
  added,       \* the entries that TryAdd has returned true for, since the last clear
  pushed,      \* how often each entry has been added and not been removed or cleared
  defaulted    \* keys that operator[] has put into the map

contents == <<ObjectList, TVect>>
history == <<added, pushed, defaulted>>
collectionVars == <<contents, mMutex, calls, undefined, history>>

CallOf(container, member, key, entry, writes) ==
  [container |-> container, member |-> member, key |-> key, entry |-> entry, writes |-> writes]
Idle == CallOf("none", "none", AKey, NoEntry, FALSE)

CollectionInit ==
  /\ ObjectList = <<>> /\ TVect = <<>>
  /\ mMutex = [c \in Containers |-> Nobody]
  /\ calls = [t \in Threads |-> Idle]
  /\ undefined = {}
  /\ added = [k \in Keys |-> {}] /\ pushed = [e \in Entries |-> 0] /\ defaulted = {}

-----------------------------------------------------------------------------
(* Calls.                                                                    *)

Collides(call, other) == call.container = other.container /\ (call.writes \/ other.writes)
Touches(t, call) ==
  /\ calls' = [calls EXCEPT ![t] = call]
  /\ undefined' =
       LET others == {u \in Threads \ {t} : Collides(call, calls[u])} IN
         IF others = {} THEN {} ELSE {call.member} \cup {calls[u].member : u \in others}

Enters(t, call) == calls[t] = Idle /\ undefined = {} /\ Touches(t, call) /\ UNCHANGED <<contents, history>>

\* lock_guard of a call that has not locked yet.
Lock(t, c) == mMutex[c] = Nobody /\ mMutex' = [mMutex EXCEPT ![c] = t]

Locked(t, call) == Lock(t, call.container) /\ Enters(t, call)
Unlocked(t, call) == UNCHANGED mMutex /\ Enters(t, call)

Ends(t, member) == calls[t].member = member /\ undefined = {}
Returns(t) ==
  /\ calls' = [calls EXCEPT ![t] = Idle]
  /\ mMutex' = [c \in Containers |-> IF mMutex[c] = t THEN Nobody ELSE mMutex[c]]
  /\ UNCHANGED undefined
\* A call that only reads; its answer is not followed any further.
Answers(t) ==
  calls[t] # Idle /\ ~calls[t].writes /\ calls[t].member \notin {"TryAdd", "subscript"} /\ undefined = {}
  /\ Returns(t) /\ UNCHANGED <<contents, history>>

-----------------------------------------------------------------------------
(* SecureWriteCollection.                                                    *)

Reading(member) == CallOf("ObjectList", member, AKey, NoEntry, FALSE)

ContainsKey(t) == Locked(t, Reading("ContainsKey"))
FindValue(t) == Locked(t, Reading("FindValue"))
print(t) == Locked(t, Reading("print"))
size(t) == Unlocked(t, Reading("size"))
empty(t) == Unlocked(t, Reading("empty"))
get(t) == Unlocked(t, Reading("get"))

\* Every lookup of EntryDataProvider is one in a collection.
GetInfo(t) == FindValue(t)

\* TryAdd looks for the key, by ContainsKey, which the recursive mutex lets in,
\* and then inserts.
TryAdd(t, k, e) == Locked(t, CallOf("ObjectList", "TryAdd", k, e, FALSE))
AddClient(t, getId, pClient) == TryAdd(t, getId, pClient)
GetCount(t) == size(t)

\* mutant: TryAdd returns true whatever it finds
FreshAlways(k) == TRUE
Fresh(k) == k \notin DOMAIN ObjectList
Looked(t) ==
  /\ Ends(t, "TryAdd") /\ ~calls[t].writes
  /\ IF Fresh(calls[t].key)
     THEN Touches(t, [calls[t] EXCEPT !.writes = TRUE]) /\ UNCHANGED <<contents, mMutex, history>>
     ELSE Returns(t) /\ UNCHANGED <<contents, history>>
InsertPair(map, k, e) == [j \in DOMAIN map \cup {k} |-> IF j \in DOMAIN map THEN map[j] ELSE e]
Inserted(t) ==
  /\ Ends(t, "TryAdd") /\ calls[t].writes
  /\ ObjectList' = InsertPair(ObjectList, calls[t].key, calls[t].entry)
  /\ added' = [added EXCEPT ![calls[t].key] = @ \cup {calls[t].entry}]
  /\ Returns(t) /\ UNCHANGED <<TVect, pushed, defaulted>>

map_clear(t) == Unlocked(t, CallOf("ObjectList", "clear", AKey, NoEntry, TRUE))
Cleared(t) ==
  /\ Ends(t, "clear")
  /\ ObjectList' = <<>> /\ added' = [k \in Keys |-> {}] /\ defaulted' = {}
  /\ Returns(t) /\ UNCHANGED <<TVect, pushed>>

\* operator[] inserts a key that it does not find.
Subscript(t, k) == Unlocked(t, CallOf("ObjectList", "subscript", k, NoEntry, Fresh(k)))
LookedAt(t) ==
  /\ Ends(t, "subscript")
  /\ ObjectList' = InsertPair(ObjectList, calls[t].key, NoEntry)
  /\ defaulted' = IF Fresh(calls[t].key) THEN defaulted \cup {calls[t].key} ELSE defaulted
  /\ Returns(t) /\ UNCHANGED <<TVect, added, pushed>>

-----------------------------------------------------------------------------
(* SecureWriteVector.                                                        *)

ReadingVector(member) == CallOf("TVect", member, AKey, NoEntry, FALSE)

Contains(t) == Locked(t, ReadingVector("Contains"))
Find(t) == Locked(t, ReadingVector("Find"))
FindAll(t) == Locked(t, ReadingVector("FindAll"))
vector_size(t) == Unlocked(t, ReadingVector("vector_size"))
vector_get(t) == Unlocked(t, ReadingVector("vector_get"))
vector_print(t) == Unlocked(t, ReadingVector("vector_print"))
vector_print_to(t) == Locked(t, ReadingVector("vector_print_to"))
element(t) == TVect # <<>> /\ Unlocked(t, ReadingVector("vector_subscript"))

Add(t, e) == Len(TVect) < MaxElements /\ Locked(t, CallOf("TVect", "Add", AKey, e, TRUE))
Added(t) ==
  /\ Ends(t, "Add")
  /\ TVect' = Append(TVect, calls[t].entry) /\ pushed' = [pushed EXCEPT ![calls[t].entry] = @ + 1]
  /\ Returns(t) /\ UNCHANGED <<ObjectList, added, defaulted>>

\* remove_if and erase: what does not meet the condition moves up, in its order.
Without(s, e) ==
  LET kept[n \in 0 .. Len(s)] ==
        IF n = 0 THEN <<>> ELSE IF s[n] = e THEN kept[n - 1] ELSE Append(kept[n - 1], s[n])
  IN  kept[Len(s)]

\* By value or by a condition: every element that meets it.
RemoveAllBy(t, e) == Locked(t, CallOf("TVect", "RemoveAllBy", AKey, e, TRUE))
Removed(t) ==
  /\ Ends(t, "RemoveAllBy")
  /\ TVect' = Without(TVect, calls[t].entry)
  /\ pushed' = [pushed EXCEPT ![calls[t].entry] = 0]
  /\ Returns(t) /\ UNCHANGED <<ObjectList, added, defaulted>>

vector_clear(t) == Unlocked(t, CallOf("TVect", "vector_clear", AKey, NoEntry, TRUE))
VectorCleared(t) ==
  /\ Ends(t, "vector_clear")
  /\ TVect' = <<>> /\ pushed' = [e \in Entries |-> 0]
  /\ Returns(t) /\ UNCHANGED <<ObjectList, added, defaulted>>

-----------------------------------------------------------------------------
CollectionNext == \E t \in Threads :
  \/ ContainsKey(t) \/ GetInfo(t) \/ print(t) \/ GetCount(t) \/ empty(t) \/ get(t)
  \/ \E k \in Keys : Subscript(t, k) \/ \E e \in Entries : AddClient(t, k, e)
  \/ Looked(t) \/ Inserted(t) \/ map_clear(t) \/ Cleared(t) \/ LookedAt(t)
  \/ Contains(t) \/ Find(t) \/ FindAll(t) \/ vector_size(t) \/ vector_get(t) \/ vector_print(t)
  \/ vector_print_to(t) \/ element(t)
  \/ (\E e \in Entries : Add(t, e) \/ RemoveAllBy(t, e)) \/ Added(t) \/ Removed(t) \/ vector_clear(t) \/ VectorCleared(t)
  \/ Answers(t)

CollectionSpec == CollectionInit /\ [][CollectionNext]_collectionVars

-----------------------------------------------------------------------------
(* Properties.                                                               *)

\* However threads interleave: two calls that both lock never touch a container
\* at once with one of them writing, so that what goes wrong has a call of a
\* member that does not lock in it; until then a key that TryAdd has returned
\* true for has the entry of that call, which was the only one, and every
\* other key is one that operator[] was asked for; and the vector has each
\* element as often as it was added.
MembersThatLock == {"ContainsKey", "FindValue", "print", "TryAdd", "Contains", "Find", "FindAll", "vector_print_to",
                    "Add", "RemoveAllBy"}
KeepsWhatWasAdded ==
  /\ undefined # {} => \E member \in undefined : member \notin MembersThatLock
  /\ \A k \in Keys :
       /\ added[k] # {} => k \in DOMAIN ObjectList /\ added[k] = {ObjectList[k]}
       /\ k \in DOMAIN ObjectList /\ added[k] = {} => k \in defaulted
  /\ \A e \in Entries : Cardinality({i \in DOMAIN TVect : TVect[i] = e}) = pushed[e]
=============================================================================
