---------------------------- MODULE OSDictionary ----------------------------
(***************************************************************************)
(* A dictionary (src/libkern/src/OSDictionary.cpp): an array of entries,   *)
(* kept in the order of the addresses of the keys while the option kSort   *)
(* is set, and in the order of insertion otherwise; the update stamp of    *)
(* its superclass (OSCollection.cpp); and one walk over it, by an          *)
(* OSCollectionIterator or by iterateObjects, whose callbacks may change   *)
(* the dictionary.                                                         *)
(*                                                                         *)
(* Collections are used by one thread at a time: the interleaving is that  *)
(* of a walk with the calls its own thread makes between two elements.     *)
(* Keys are symbols, which are equal when their addresses are.             *)
(***************************************************************************)
EXTENDS Integers, Sequences, SequencesExt, FiniteSetsExt

CONSTANTS
  Keys,         \* the addresses of the symbols: numbers
  Values,
  Null,         \* no object
  ScanLimit,    \* getObject scans a dictionary of up to 4 entries
  Increment,    \* capacityIncrement for a capacity or an increment of 0: 16
  Stamps        \* the number of values of updateStamp, 2^32

DictionaryAssumption ==
  /\ Keys \subseteq Nat /\ Null \notin Values
  /\ ScanLimit \in Nat /\ Increment \in Nat \ {0}
  /\ Stamps \in Nat /\ Stamps > 2

VARIABLES
  entries,      \* the first count entries of dictionary[]
  capacity,
  increment,    \* capacityIncrement
  kSort,        \* the bit of fOptions
  updateStamp,
  keyHeld,      \* how often each key has been retained and not released,
  valueHeld,    \* and each value
  walk          \* the iterator, or the loop of iterateObjects

vars == <<entries, capacity, increment, kSort, updateStamp, keyHeld, valueHeld, walk>>
array == <<entries, capacity, increment, kSort, updateStamp, keyHeld, valueHeld>>

(* by: who walks.  begun: the collIterator is not null, or the loop runs.  *)
(* valid is the iterator's flag, index counts the entries asked for, and   *)
(* stamp is initialUpdateStamp.  seen is a history: the keys handed out.   *)
NoWalk == [by |-> "nobody", begun |-> FALSE, valid |-> FALSE, index |-> 0,
           stamp |-> 0, seen |-> <<>>]

Entry == [key : Keys, value : Values]
KeysOf(s) == [i \in DOMAIN s |-> s[i].key]
Count(s) == Len(s)

-----------------------------------------------------------------------------
(* Searching.  Indices are those of the array, from 0. *)

Scan(s, k) ==
  IF \E i \in DOMAIN s : s[i].key = k
  THEN Min({i \in DOMAIN s : s[i].key = k}) - 1
  ELSE Count(s)

(* Mutant: the half on the right begins with the middle element. *)
BugBsearch(s, k) ==
  LET at[base \in Nat, lim \in Nat] ==
        LET mid == base + (lim \div 2) IN
        IF lim = 0 THEN base
        ELSE IF s[mid + 1].key = k THEN mid
        ELSE IF k > s[mid + 1].key THEN at[mid, (lim - 1) \div 2]
        ELSE at[base, lim \div 2]
  IN  at[0, Count(s)]

(* OSSymbol::bsearch: where the key is, or where it is to be inserted. *)
Bsearch(s, k) ==
  LET at[base \in Nat, lim \in Nat] ==
        LET mid == base + (lim \div 2) IN
        IF lim = 0 THEN base
        ELSE IF s[mid + 1].key = k THEN mid
        ELSE IF k > s[mid + 1].key THEN at[mid + 1, (lim - 1) \div 2]
        ELSE at[base, lim \div 2]
  IN  at[0, Count(s)]

IndexOf(s, sorted, k) == IF sorted THEN Bsearch(s, k) ELSE Scan(s, k)

ExistsAt(s, i, k) == i < Count(s) /\ s[i + 1].key = k

(* getObject has a binary search of its own, for more than 4 entries. *)
GetObject(s, sorted, k) ==
  LET between[l \in Nat, r \in Nat] ==
        LET mid == (l + r) \div 2 IN
        IF l >= r THEN Null
        ELSE IF s[mid + 1].key = k THEN s[mid + 1].value
        ELSE IF k < s[mid + 1].key THEN between[l, mid] ELSE between[mid + 1, r]
  IN  IF sorted /\ Count(s) > ScanLimit THEN between[0, Count(s)]
      ELSE LET i == Scan(s, k) IN IF i < Count(s) THEN s[i + 1].value ELSE Null

(* isEqualTo of another dictionary, with all keys or with those given.     *)
IsEqualTo(s, sorted, other) ==
  /\ Count(s) = Count(other)
  /\ \A i \in DOMAIN s : s[i].value = GetObject(other, sorted, s[i].key)

IsEqualForKeys(s, sorted, other, keys) ==
  /\ Cardinality(keys) <= Count(s) /\ Cardinality(keys) <= Count(other)
  /\ \A k \in keys : GetObject(s, sorted, k) = GetObject(other, FALSE, k)
                    /\ GetObject(s, sorted, k) # Null

-----------------------------------------------------------------------------
KeysIn(s, k) == Cardinality({i \in DOMAIN s : s[i].key = k})
ValuesIn(s, v) == Cardinality({i \in DOMAIN s : s[i].value = v})

(* haveUpdated.  The stamp is counted only while there is a walk to compare *)
(* it with.  Bound: a walk is not left alone for 2^32 updates.              *)
HaveUpdated(times) ==
  /\ updateStamp' = IF walk.begun THEN (updateStamp + times) % Stamps ELSE updateStamp
  /\ walk.begun => \A n \in 1..times : (updateStamp + n - walk.stamp) % Stamps # Stamps - 1

(* Mutant: a release is forgotten. *)
BugRelease(held, x) == held

Retain(held, x) == [held EXCEPT ![x] = @ + 1]
Release(held, x) == [held EXCEPT ![x] = @ - 1]

(* The capacities ensureCapacity may end with: the old one, when it is     *)
(* enough, when the new size overflows or when the allocation fails; or    *)
(* the wanted one, rounded up to the increment.                            *)
EnsureCapacity(wanted) ==
  IF wanted <= capacity THEN {capacity}
  ELSE {capacity, (((wanted - 1) \div increment) + 1) * increment}

(* A dictionary d: its entries, and what it has retained for them.         *)
Contents == [entries |-> entries, keyHeld |-> keyHeld, valueHeld |-> valueHeld]
Nothing == [entries |-> <<>>, keyHeld |-> [k \in Keys |-> 0], valueHeld |-> [v \in Values |-> 0]]

Become(d) == entries' = d.entries /\ keyHeld' = d.keyHeld /\ valueHeld' = d.valueHeld

Replaced(d, i, v) ==
  [d EXCEPT !.entries[i + 1].value = v,
            !.valueHeld = Release(Retain(@, v), d.entries[i + 1].value)]

AddedAt(d, i, e) ==
  [entries |-> InsertAt(d.entries, i + 1, e),
   keyHeld |-> Retain(d.keyHeld, e.key), valueHeld |-> Retain(d.valueHeld, e.value)]

(* Mutant: a new entry always goes to the end. *)
BugWithEntry(d, sorted, e) ==
  LET i == IndexOf(d.entries, sorted, e.key) IN
  IF ExistsAt(d.entries, i, e.key) THEN Replaced(d, i, e.value)
  ELSE AddedAt(d, Count(d.entries), e)

(* What setObject makes of d, if there is room. *)
WithEntry(d, sorted, e) ==
  LET i == IndexOf(d.entries, sorted, e.key) IN
  IF ExistsAt(d.entries, i, e.key) THEN Replaced(d, i, e.value) ELSE AddedAt(d, i, e)

WithEntries(d, sorted, s) == FoldLeft(LAMBDA b, e : WithEntry(b, sorted, e), d, s)

-----------------------------------------------------------------------------
(* Making a dictionary: withCapacity, withObjects, and withDictionary,     *)
(* which copies the entries as they are.  Bound: other dictionaries, and   *)
(* lists of keys and objects, have at most two entries.                    *)
Lists == UNION {[1..n -> Entry] : n \in 0..2}
Others == {s \in Lists : IsInjective(KeysOf(s))}

(* Bound: a dictionary that is merged has two entries with one value, in   *)
(* the order of the keys.                                                  *)
Merged == {s \in Others : Count(s) = 2 /\ s[1].value = s[2].value /\ s[1].key < s[2].key}

Made(d, room) ==
  /\ entries = d.entries /\ keyHeld = d.keyHeld /\ valueHeld = d.valueHeld
  /\ capacity = room
  /\ increment = IF room = 0 THEN Increment ELSE room
  /\ kSort = FALSE
  /\ updateStamp = 0
  /\ walk = NoWalk

Enough(s, wanted) == IF wanted = 0 THEN Count(s) ELSE wanted

WithCapacity(room) == Made(Nothing, room)

(* Keys are symbols, or strings, whose symbols are released again; one     *)
(* that comes twice keeps the second value.                                *)
WithObjects(s, wanted) ==
  /\ Count(s) <= Enough(s, wanted)
  /\ Made(WithEntries(Nothing, FALSE, s), Enough(s, wanted))

WithDictionary(other, wanted) ==
  /\ Count(other) <= Enough(other, wanted)
  /\ Made([entries |-> other, keyHeld |-> [k \in Keys |-> KeysIn(other, k)],
           valueHeld |-> [v \in Values |-> ValuesIn(other, v)]],
          Enough(other, wanted))

Init ==
  \E wanted \in {0, Increment} :
    \/ WithCapacity(wanted)
    \/ \E s \in Lists : WithObjects(s, wanted)
    \/ \E other \in Others : WithDictionary(other, wanted)

-----------------------------------------------------------------------------
(* setObject(aKey, anObject): it finds the key and replaces the value, or  *)
(* adds an entry, if it fits.                                              *)
SetObject(k, v) ==
  LET new == ~ExistsAt(entries, IndexOf(entries, kSort, k), k) IN
  /\ capacity' \in IF new /\ Count(entries) >= capacity THEN EnsureCapacity(Count(entries) + 1)
                   ELSE {capacity}
  /\ new => Count(entries) < capacity'
  /\ HaveUpdated(1)
  /\ Become(WithEntry(Contents, kSort, [key |-> k, value |-> v]))
  /\ UNCHANGED <<walk, kSort, increment>>

(* merge with another dictionary: setObject for each of its entries, until *)
(* the next one, a new key, does not fit.                                  *)
Merge(other, done) ==
  LET d == WithEntries(Contents, kSort, SubSeq(other, 1, done))
      stuck == done < Count(other)
      n == Count(d.entries)
  IN  /\ other # <<>>
      /\ capacity' \in IF n > capacity THEN EnsureCapacity(n) ELSE {capacity}
      /\ n <= capacity'
      /\ stuck => KeysIn(d.entries, other[done + 1].key) = 0 /\ n = capacity'
      /\ HaveUpdated(done)
      /\ Become(d)
      /\ UNCHANGED <<walk, kSort, increment>>

RemoveObject(k) ==
  LET i == IndexOf(entries, kSort, k) IN
  /\ ExistsAt(entries, i, k)
  /\ HaveUpdated(1)
  /\ entries' = RemoveAt(entries, i + 1)
  /\ keyHeld' = Release(keyHeld, k)
  /\ valueHeld' = Release(valueHeld, entries[i + 1].value)
  /\ UNCHANGED <<walk, capacity, kSort, increment>>

FlushCollection ==
  /\ HaveUpdated(1)
  /\ entries' = <<>>
  /\ keyHeld' = [k \in Keys |-> keyHeld[k] - KeysIn(entries, k)]
  /\ valueHeld' = [v \in Values |-> valueHeld[v] - ValuesIn(entries, v)]
  /\ UNCHANGED <<walk, capacity, kSort, increment>>

Before(e, f) == e.key < f.key

(* setOptions with kSort in the mask.  The library sets it on dictionaries *)
(* nobody walks: sorting does not count as an update.                      *)
SetOptions(sorted) ==
  /\ walk = NoWalk
  /\ kSort' = sorted
  /\ entries' = IF sorted /\ ~kSort THEN SortSeq(entries, Before) ELSE entries
  /\ UNCHANGED <<capacity, updateStamp, keyHeld, valueHeld, walk, increment>>

-----------------------------------------------------------------------------
(* OSCollectionIterator. *)

WithCollection ==
  /\ walk.by = "nobody"
  /\ walk' = [NoWalk EXCEPT !.by = "iterator"]
  /\ UNCHANGED array

(* Both ways into an iteration: reset, and the first isValid. *)
Restarted == [walk EXCEPT !.begun = TRUE, !.valid = TRUE, !.index = 0,
                          !.stamp = updateStamp, !.seen = <<>>]

Reset ==
  /\ walk.by = "iterator"
  /\ walk' = Restarted
  /\ UNCHANGED array

(* isValid of an iterator that has begun. *)
IsValid(w) == w.valid /\ updateStamp = w.stamp

(* getNextObjectForIterator, called for the walk w. *)
Advance(w) ==
  [w EXCEPT !.index = @ + 1,
            !.seen = IF w.index < Count(entries) THEN Append(@, entries[w.index + 1].key)
                     ELSE @]

(* getNextObject: the first call begins the iteration, the others ask      *)
(* whether it is valid.  Bound: nobody asks again beyond the end.          *)
GetNextObject ==
  /\ walk.by = "iterator"
  /\ \/ ~walk.begun /\ walk' = Advance(Restarted)
     \/ walk.begun /\ IsValid(walk) /\ walk.index <= Count(entries) /\ walk' = Advance(walk)
  /\ UNCHANGED array

ReleaseIterator ==
  /\ walk.by = "iterator"
  /\ walk' = NoWalk
  /\ UNCHANGED array

-----------------------------------------------------------------------------
(* OSDictionary::iterateObjects: a callback, and the next one unless the   *)
(* stamp has changed or there are no more entries.                         *)
IterateObjects ==
  /\ walk.by = "nobody"
  /\ entries # <<>>
  /\ walk' = Advance([NoWalk EXCEPT !.by = "iterateObjects", !.begun = TRUE,
                                   !.stamp = updateStamp])
  /\ UNCHANGED array

NextCallback ==
  /\ walk.by = "iterateObjects"
  /\ walk.stamp = updateStamp
  /\ walk.index < Count(entries)
  /\ walk' = Advance(walk)
  /\ UNCHANGED array

(* A callback returned true, changed the dictionary, or was the last. *)
IterateReturns ==
  /\ walk.by = "iterateObjects"
  /\ walk' = NoWalk
  /\ UNCHANGED array

-----------------------------------------------------------------------------
Next ==
  \/ \E k \in Keys : RemoveObject(k) \/ \E v \in Values : SetObject(k, v)
  \/ FlushCollection
  \/ \E other \in Merged : \E done \in 0..Count(other) : Merge(other, done)
  \/ \E sorted \in BOOLEAN : SetOptions(sorted)
  \/ WithCollection \/ Reset \/ GetNextObject \/ ReleaseIterator
  \/ IterateObjects \/ NextCallback \/ IterateReturns

Spec == Init /\ [][Next]_vars

-----------------------------------------------------------------------------
(* The values every variable may take: the array fits its capacity. *)
TypeOK ==
  /\ \A i \in DOMAIN entries : entries[i] \in Entry
  /\ Count(entries) <= capacity
  /\ kSort \in BOOLEAN
  /\ updateStamp \in 0 .. Stamps - 1
  /\ keyHeld \in [Keys -> Nat] /\ valueHeld \in [Values -> Nat]
  /\ walk.by \in {"nobody", "iterator", "iterateObjects"}
  /\ walk.index \in Nat /\ walk.stamp \in 0 .. Stamps - 1

(* However the dictionary was made, filled, merged, emptied, sorted and    *)
(* unsorted, each key is in one entry, and the search of setObject and     *)
(* removeObject and the one of getObject both find it there, and nothing   *)
(* for other keys; and so, whatever the order of the entries, two          *)
(* dictionaries are equal when they are equal for all keys of either.      *)
SearchesAgree ==
  /\ \A i \in DOMAIN entries :
       /\ IndexOf(entries, kSort, entries[i].key) = i - 1
       /\ GetObject(entries, kSort, entries[i].key) = entries[i].value
  /\ \A k \in Keys : KeysIn(entries, k) = 0 => GetObject(entries, kSort, k) = Null
  /\ \A other \in Others :
       LET same == IsEqualForKeys(entries, kSort, other, Range(KeysOf(other)))
       IN  /\ IsEqualTo(other, kSort, entries) <=> same /\ Count(entries) = Count(other)
           /\ IsEqualTo(entries, FALSE, other) <=> same /\ Count(entries) = Count(other)

(* The dictionary has retained every key and value as often as it has it,  *)
(* so none dies while it is in it, and none is leaked by leaving it.       *)
RetainsAreBalanced ==
  /\ \A k \in Keys : keyHeld[k] = KeysIn(entries, k)
  /\ \A v \in Values : valueHeld[v] = ValuesIn(entries, v)

(* A walk whose stamp is still that of the dictionary has handed out the   *)
(* first keys of the array, in their order, whatever its callbacks did     *)
(* before (OSCollectionIterator.cpp:106-136, OSDictionary.cpp:871-890).    *)
WalkIsExact ==
  walk.begun /\ walk.stamp = updateStamp =>
    walk.seen = SubSeq(KeysOf(entries), 1, Min({walk.index, Count(entries)}))

(* What getObject answers for every key changes as in a KeyedStore. *)
Lookups == [k \in {j \in Keys : GetObject(entries, kSort, j) # Null} |->
              GetObject(entries, kSort, k)]

Store == INSTANCE KeyedStore WITH map <- Lookups

ImplementsStore == Store!Spec
=============================================================================
