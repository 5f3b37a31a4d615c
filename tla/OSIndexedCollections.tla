----------------------- MODULE OSIndexedCollections -----------------------
(***************************************************************************)
(* The collections kept in one array of elements: OSArray, OSSet, which    *)
(* keeps a private OSArray, and OSOrderedSet, whose elements follow an     *)
(* ordering function (src/libkern/src/OSArray.cpp, OSSet.cpp and           *)
(* OSOrderedSet.cpp), with the update stamp of OSCollection and one walk   *)
(* by index.                                                               *)
(*                                                                         *)
(* A collection is used by one thread at a time, but a call can be made    *)
(* within another: giving up the last reference to an element runs its     *)
(* free(), which may call the collection it was removed from.  removeObject*)
(* and replaceObject of an array release at their very end; removeObject of*)
(* an OSOrderedSet releases before it has closed the gap, so that nothing  *)
(* may be called there (closing).                                          *)
(***************************************************************************)
EXTENDS Integers, Sequences, SequencesExt, FiniteSetsExt

CONSTANTS
  Objects,
  Null,         \* no object
  RankOf,       \* what the ordering function compares
  Width,        \* the number of values of an unsigned int
  Size,         \* sizeof(const OSMetaClassBase *)
  Increments,   \* the increments setCapacityIncrement is called with
  Default,      \* the increment for a capacity or an increment of 0: 16
  Stamps        \* the number of values of updateStamp

ASSUME CollectionAssumption ==
  /\ Null \notin Objects /\ RankOf \in [Objects -> Int]
  /\ Increments \subseteq 0..(Width - 1)
  /\ Size \in Nat \ {0} /\ Default \in Nat \ {0}
  /\ Width \in Nat /\ Default < Width /\ Size < Width /\ Stamps \in Nat \ {0, 1, 2}

VARIABLES
  kind,         \* "array", "set" or "ordered"; "none" before it is made
  array,        \* the first count elements
  capacity,
  increment,    \* capacityIncrement
  updateStamp,
  closing,      \* the element removeObject of an OSOrderedSet has released
  held,         \* how often the collection has retained each object,
  mine,         \* the objects its user holds a reference to,
  alive,        \* and those not freed
  sorted,       \* history: every element was added by setObject(anObject)
  walk          \* an iterator, or the loop of iterateObjects

vars == <<kind, array, capacity, increment, updateStamp, closing, held, mine, alive,
          sorted, walk>>

Kinds == {"array", "set", "ordered"}
(* all and seen are histories: the elements at the beginning of the walk,  *)
(* and those handed out.                                                   *)
NoWalk == [on |-> FALSE, stamp |-> 0, all |-> <<>>, seen |-> <<>>]
Count == Len(array)
Maximum == (Width - 1) \div Size      \* UINT_MAX / sizeof(...)

Init ==
  /\ kind = "none" /\ array = <<>>
  /\ capacity = 0 /\ increment = Default
  /\ updateStamp = 0 /\ closing = Null
  /\ held = [o \in Objects |-> 0]
  /\ mine = Objects /\ alive = Objects
  /\ sorted = TRUE
  /\ walk = NoWalk

-----------------------------------------------------------------------------
RoundedUp(wanted) ==
  LET final == ((((wanted - 1) \div increment) + 1) * increment) % Width IN
  IF final < wanted \/ final > Maximum THEN capacity ELSE final

(* What ensureCapacity may return: an allocation fails. *)
EnsureCapacity(wanted) ==
  IF wanted <= capacity THEN {capacity} ELSE {capacity, RoundedUp(wanted)}

(* haveUpdated.  The stamp is counted only while there is a walk to compare *)
(* it with.  Bound: nobody walks on after exactly 2^32 updates.             *)
HaveUpdated(times) ==
  /\ updateStamp' = IF walk.on THEN (updateStamp + times) % Stamps ELSE updateStamp
  /\ walk' = IF walk.on /\ updateStamp # walk.stamp THEN NoWalk ELSE walk

Retained(h, s) == [o \in Objects |-> h[o] + Cardinality({i \in DOMAIN s : s[i] = o})]
Released(h, s) == [o \in Objects |-> h[o] - Cardinality({i \in DOMAIN s : s[i] = o})]

(* The last reference frees. *)
Freeing(h, m) == alive' = {o \in alive : h[o] > 0 \/ o \in m}

Users == UNCHANGED <<kind, increment, mine>>

(* The calls of the user, and of a free() that may call. *)
Called(kinds) == kind \in kinds /\ closing = Null

-----------------------------------------------------------------------------
(* Making a collection. *)

(* The elements OSArray::initWithObjects adds: it fails at the first NULL. *)
UpToNull(objects) ==
  LET nulls == {i \in DOMAIN objects : objects[i] = Null}
  IN  IF nulls = {} THEN objects ELSE SubSeq(objects, 1, Min(nulls) - 1)

(* Those OSSet::initWithObjects adds: setObject refuses NULL and objects   *)
(* that are in the set.                                                    *)
Distinct(objects) ==
  LET f[i \in 0..Len(objects)] ==
        IF i = 0 THEN <<>>
        ELSE LET s == f[i - 1] IN
             IF objects[i] = Null \/ Contains(s, objects[i]) THEN s ELSE Append(s, objects[i])
  IN  f[Len(objects)]

Made(k, elements, enough) ==
  /\ kind = "none" /\ enough <= Maximum
  /\ kind' = k /\ array' = elements
  /\ held' = Retained(held, elements)
  /\ capacity' = enough
  /\ increment' = IF enough = 0 THEN Default ELSE enough
  /\ updateStamp' = 0 /\ walk' = NoWalk /\ sorted' = TRUE
  /\ UNCHANGED <<closing, mine, alive>>

Enough(objects, wanted) == IF wanted = 0 THEN Len(objects) ELSE wanted

(* withObjects, withArray and withCapacity.  When init fails, me->release()*)
(* runs free(), whose flushCollection gives up what was added: nothing has *)
(* changed.                                                                *)
ArrayWith(objects, wanted) ==
  /\ Len(objects) <= Enough(objects, wanted)
  /\ UpToNull(objects) = objects
  /\ Made("array", objects, Enough(objects, wanted))

(* The same for a set, whose initWithObjects ignores what setObject says.  *)
SetWith(objects, wanted) ==
  /\ Len(objects) <= Enough(objects, wanted)
  /\ Made("set", Distinct(objects), Enough(objects, wanted))

OrderedWith(wanted) == Made("ordered", <<>>, wanted)

Flushed(h) == Released(h, array)

(* flushCollection; OSSet's updates its own stamp and that of the array. *)
FlushCollection ==
  /\ Called(Kinds)
  /\ HaveUpdated(1)
  /\ array' = <<>>
  /\ held' = Flushed(held)
  /\ Freeing(held', mine)
  /\ sorted' = TRUE
  /\ Users /\ UNCHANGED <<capacity, closing>>

(* free, which flushes. *)
Free ==
  /\ Called(Kinds) /\ ~walk.on
  /\ kind' = "none" /\ array' = <<>>
  /\ held' = Flushed(held)
  /\ Freeing(held', mine)
  /\ capacity' = 0 /\ increment' = Default /\ updateStamp' = 0 /\ sorted' = TRUE
  /\ UNCHANGED <<closing, mine, walk>>

SetCapacityIncrement(n) ==
  /\ Called(Kinds)
  /\ increment' = IF n = 0 THEN Default ELSE n
  /\ UNCHANGED <<kind, array, capacity, updateStamp, closing, held, mine, alive, sorted, walk>>

(* ensureCapacity, called on its own. *)
EnsureRoom(n) ==
  /\ Called(Kinds)
  /\ capacity' \in EnsureCapacity(n)
  /\ UNCHANGED <<kind, array, increment, updateStamp, closing, held, mine, alive, sorted, walk>>

-----------------------------------------------------------------------------
(* Adding.  Room: newCount > capacity && newCount > ensureCapacity(...). *)

Room(newCount) ==
  /\ capacity' \in EnsureCapacity(newCount)
  /\ newCount <= capacity'

NoRoom(newCount) ==
  /\ capacity' \in EnsureCapacity(newCount)
  /\ newCount > capacity'

Insert(index, o) ==
  /\ array' = InsertAt(array, index + 1, o)
  /\ held' = Retained(held, <<o>>)
  /\ Users /\ UNCHANGED <<closing, alive>>

(* setObject of an array at an index, and at the end. *)
ArraySetObject(index, o) ==
  /\ Called({"array"}) /\ o \in alive /\ index <= Count
  /\ Room(Count + 1)
  /\ HaveUpdated(1)
  /\ Insert(index, o)
  /\ UNCHANGED sorted

(* containsObject, and member. *)
ContainsObject(o) == Contains(array, o)

(* Mutant: OSSet leaves the stamp to its array. *)
BugSetSetObject(o) ==
  /\ Called({"set"}) /\ o \in alive /\ ~ContainsObject(o)
  /\ Room(Count + 1)
  /\ HaveUpdated(0)
  /\ Insert(Count, o)
  /\ UNCHANGED sorted

SetSetObject(o) ==
  /\ Called({"set"}) /\ o \in alive /\ ~ContainsObject(o)
  /\ Room(Count + 1)
  /\ HaveUpdated(1)
  /\ Insert(Count, o)
  /\ UNCHANGED sorted

(* OSSet::setObject calls haveUpdated before it knows whether there is     *)
(* room; the other two do not.                                             *)
AddFails(o) ==
  /\ Called(Kinds) /\ o \in alive
  /\ kind # "array" => ~ContainsObject(o)
  /\ NoRoom(Count + 1)
  /\ IF kind = "set" THEN HaveUpdated(1) ELSE UNCHANGED <<updateStamp, walk>>
  /\ Users /\ UNCHANGED <<array, closing, held, alive, sorted>>

(* setObject(anObject) of an OSOrderedSet: behind those ORDER(...) >= 0. *)
OrderedIndex(o) ==
  Cardinality({i \in 1..Count : \A j \in 1..i : RankOf[array[j]] >= RankOf[o]})

OrderedInsert(index, o) ==
  /\ Called({"ordered"}) /\ o \in alive /\ ~ContainsObject(o)
  /\ Room(Count + 1)
  /\ HaveUpdated(1)
  /\ Insert(index, o)

OrderedSetObject(o) == OrderedInsert(OrderedIndex(o), o) /\ UNCHANGED sorted
SetFirstObject(o) == OrderedInsert(0, o) /\ sorted' = FALSE
SetLastObject(o) == OrderedInsert(Count, o) /\ sorted' = FALSE

(* merge of an array with another one, all of it or nothing. *)
ArrayMerge(other) ==
  /\ Called({"array"}) /\ other # <<>> /\ Range(other) \subseteq alive
  /\ Room(Count + Len(other))
  /\ HaveUpdated(1)
  /\ array' = array \o other
  /\ held' = Retained(held, other)
  /\ Users /\ UNCHANGED <<closing, alive, sorted>>

(* merge of a set with an array or a set: what is not in it, one by one,   *)
(* going on after a failure; the elements at failed are not added.         *)
SetMerge(other, failed) ==
  LET with[i \in 0..Len(other)] ==
        IF i = 0 THEN array
        ELSE LET s == with[i - 1] IN
             IF i \in failed \/ Contains(s, other[i]) THEN s ELSE Append(s, other[i])
      tried == {i \in DOMAIN other : ~Contains(with[i - 1], other[i])}
      room(i) == IF Len(with[i]) <= capacity THEN capacity ELSE RoundedUp(Len(with[i]))
  IN  /\ Called({"set"}) /\ Range(other) \subseteq alive
      /\ tried # {} /\ failed \subseteq tried
      /\ \A i \in tried : IF i \in failed THEN Len(with[i]) + 1 > room(i)
                          ELSE Len(with[i]) <= room(i)
      /\ array' = with[Len(other)]
      /\ held' = [o \in Objects |-> held[o] + IF Contains(array', o) /\ ~ContainsObject(o) THEN 1 ELSE 0]
      /\ capacity' = room(Len(other))
      /\ HaveUpdated(Cardinality(tried))
      /\ Users /\ UNCHANGED <<closing, alive, sorted>>

-----------------------------------------------------------------------------
(* Removing. *)

(* Mutant: the gap is closed after the release, as in OSOrderedSet. *)
BugArrayRemoveObject(index) ==
  /\ Called({"array", "set"}) /\ index < Count
  /\ HaveUpdated(1)
  /\ held' = Released(held, <<array[index + 1]>>)
  /\ Freeing(held', mine)
  /\ Users /\ UNCHANGED <<array, capacity, closing, sorted>>

(* removeObject of an array, and of a set, which finds the index: the last *)
(* thing it does is to release.                                            *)
ArrayRemoveObject(index) ==
  /\ Called({"array", "set"}) /\ index < Count
  /\ HaveUpdated(1)
  /\ array' = RemoveAt(array, index + 1)
  /\ held' = Released(held, <<array[index + 1]>>)
  /\ Freeing(held', mine)
  /\ Users /\ UNCHANGED <<capacity, closing, sorted>>

(* replaceObject, which retains the new object before it releases the old. *)
ReplaceObject(index, o) ==
  LET old == array[index + 1] IN
  /\ Called({"array"}) /\ index < Count /\ o \in alive
  /\ HaveUpdated(1)
  /\ array' = [array EXCEPT ![index + 1] = o]
  /\ held' = Released(Retained(held, <<o>>), <<old>>)
  /\ Freeing(held', mine)
  /\ Users /\ UNCHANGED <<capacity, closing, sorted>>

(* removeObject of an OSOrderedSet finds the object and releases it. *)
OrderedRemoveObject(o) ==
  /\ Called({"ordered"}) /\ ContainsObject(o)
  /\ HaveUpdated(1)
  /\ held' = Released(held, <<o>>)
  /\ Freeing(held', mine)
  /\ closing' = o
  /\ Users /\ UNCHANGED <<array, capacity, sorted>>

(* The loop goes on and moves the others down; count--. *)
CloseGap ==
  /\ closing # Null
  /\ array' = SelectSeq(array, LAMBDA o : o # closing)
  /\ closing' = Null
  /\ UNCHANGED <<kind, capacity, increment, updateStamp, held, mine, alive, sorted, walk>>

-----------------------------------------------------------------------------
(* The user, who makes, keeps and gives up objects, and walks. *)

Drop(o) ==
  /\ o \in mine /\ closing = Null
  /\ mine' = mine \ {o}
  /\ Freeing(held, mine')
  /\ UNCHANGED <<kind, array, capacity, increment, updateStamp, closing, held, sorted, walk>>

(* A new object, or a reference to an element. *)
Take(o) ==
  /\ o \notin mine /\ closing = Null
  /\ mine' = mine \cup {o} /\ alive' = alive \cup {o}
  /\ o \notin alive => ~Contains(array, o)
  /\ UNCHANGED <<kind, array, capacity, increment, updateStamp, closing, held, sorted, walk>>

(* initIterator; then getNextObjectForIterator at the index, which is the  *)
(* number of elements seen.                                                *)
BeginWalk ==
  /\ Called(Kinds) /\ ~walk.on
  /\ walk' = [on |-> TRUE, stamp |-> updateStamp, all |-> array, seen |-> <<>>]
  /\ UNCHANGED <<kind, array, capacity, increment, updateStamp, closing, held, mine, alive, sorted>>

Step ==
  /\ Called(Kinds) /\ walk.on
  /\ walk' = IF walk.stamp # updateStamp \/ Len(walk.seen) = Count THEN NoWalk
             ELSE [walk EXCEPT !.seen = Append(@, array[Len(@) + 1])]
  /\ UNCHANGED <<kind, array, capacity, increment, updateStamp, closing, held, mine, alive, sorted>>

(* Bound: lists of at most two. *)
Lists(S) == UNION {[1..n -> S] : n \in 0..2}

Next ==
  \/ \E n \in 0..Maximum :
       \/ \E s \in Lists(mine \cup {Null}) : ArrayWith(s, n) \/ SetWith(s, n)
       \/ OrderedWith(n)
  \/ FlushCollection \/ Free \/ CloseGap \/ BeginWalk \/ Step
  \/ \E n \in Increments : SetCapacityIncrement(n)
  \/ \E n \in 0..(Width - 1) : EnsureRoom(n)
  \/ \E i \in 0..Maximum : ArrayRemoveObject(i)
  \/ \E o \in Objects :
       \/ SetSetObject(o) \/ OrderedSetObject(o) \/ SetFirstObject(o) \/ SetLastObject(o)
       \/ AddFails(o) \/ OrderedRemoveObject(o) \/ Drop(o) \/ Take(o)
       \/ \E i \in 0..Maximum : ArraySetObject(i, o) \/ ReplaceObject(i, o)
  \/ \E s \in Lists(Objects) : ArrayMerge(s) \/ \E F \in SUBSET DOMAIN s : SetMerge(s, F)

Spec == Init /\ [][Next]_vars

-----------------------------------------------------------------------------
(* No element has been freed, and the elements lie within the allocation:  *)
(* whatever a free() called from removeObject, replaceObject or            *)
(* flushCollection looks at, and however the sizes come out.  The element  *)
(* an OSOrderedSet is removing is the exception.  A set has no element     *)
(* twice, and the elements of an OSOrderedSet that were all added by       *)
(* setObject(anObject) are ordered by rank, those of one rank by their     *)
(* arrival (OSOrderedSet.h:59-75).  Each object is held as often as it is  *)
(* an element, so that nothing leaks when a merge fails half way.          *)
ElementsAreSound ==
  /\ Count <= capacity
  /\ closing = Null => held = Retained([o \in Objects |-> 0], array)
  /\ Range(array) \ {closing} \subseteq alive
  /\ kind \in {"set", "ordered"} => IsInjective(array)
  /\ kind = "ordered" /\ sorted =>
       \A i, j \in 1..Count : i < j => RankOf[array[i]] >= RankOf[array[j]]

(* While the stamp has not moved, the elements are those there were when   *)
(* the walk began, and it has handed out the first of them, none twice: an *)
(* iterator that is still valid misses nothing (OSCollectionIterator.cpp). *)
WalkIsExact ==
  walk.on /\ walk.stamp = updateStamp /\ closing = Null
    => array = walk.all /\ IsPrefix(walk.seen, array)
=============================================================================
