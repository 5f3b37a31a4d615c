-------------------------------- MODULE OSData --------------------------------
(***************************************************************************)
(* One OSData (src/libkern/src/OSData.cpp): an array of bytes in storage   *)
(* of its own, which grows, or in the caller's, which does not; its place  *)
(* in the container accounting; and one pointer a client has got from      *)
(* getBytesNoCopy.  Of the bytes only their number is kept.  All sizes are *)
(* unsigned ints.                                                          *)
(***************************************************************************)
EXTENDS Integers

CONSTANTS
  Width,        \* the number of values of an unsigned int
  PageSize,     \* storage of this size and more comes in pages
  Least         \* the least increment an init sets: 16

DataAssumption ==
  /\ PageSize \in Nat \ {0, 1} /\ Least \in Nat \ {0}
  /\ Width \in Nat /\ Width % PageSize = 0 /\ Least < Width /\ Width > 2

VARIABLES
  owner,        \* of the storage: "data" or "caller"; "nobody" before init
  length,
  capacity,
  increment,    \* capacityIncrement
  dealloc,      \* reserved->deallocFunction is set
  lent,         \* the caller's storage: "no", "lent", or "freed" by freemem
  accounted,    \* what OSCONTAINER_ACCUMSIZE has added for this object
  pointer       \* into the bytes: from start, count of them, taken when the
                \* capacity was as given; good until the storage is replaced

vars == <<owner, length, capacity, increment, dealloc, lent, accounted, pointer>>

Sizes == 0 .. Width - 1
EXTERNAL == Width - 1     \* (unsigned int) -1
NoPointer == [good |-> FALSE, start |-> 0, count |-> 0, capacity |-> Width]

Init ==
  /\ owner = "nobody" /\ length = 0 /\ capacity = 0 /\ increment = 0
  /\ dealloc = FALSE /\ lent = "no" /\ accounted = 0 /\ pointer = NoPointer

-----------------------------------------------------------------------------
RoundPage(n) == ((n + PageSize - 1) \div PageSize) * PageSize

(* The storage initWithCapacity(n) allocates, when it can: none for 0; in  *)
(* pages from a page on, unless rounding overflows.                        *)
Allocated(n) ==
  IF n < PageSize THEN {n} ELSE {RoundPage(n)} \cap Sizes

(* initWithCapacity: a new object, or one that has storage already, which  *)
(* is kept when it is large enough.  Bound: init is not called again on an *)
(* object that has the caller's storage.  When init fails the object is    *)
(* released.                                                               *)
Initialised(n, used) ==
  /\ owner \in {"nobody", "data"}
  /\ owner = "data" => pointer = NoPointer
  /\ LET kept == owner = "data" /\ n # 0 /\ capacity >= n /\ capacity # 0 IN
     /\ capacity' \in IF kept THEN {capacity} ELSE Allocated(n)
     /\ increment' = IF kept
                     THEN IF n < Least THEN Least ELSE n
                     ELSE IF capacity' < Least THEN Least ELSE capacity'
     /\ accounted' = accounted - capacity + capacity'
  /\ owner' = "data" /\ length' = used
  /\ UNCHANGED <<dealloc, lent, pointer>>

WithCapacity(n) == Initialised(n, 0)
WithBytes(n) == Initialised(n, n)
WithData(other) == WithBytes(other)

(* getBytesNoCopy(start, count) of data of this length. *)
InRange(start, count, len) ==
  /\ len # 0 /\ start < len
  /\ (start + count) % Width >= count
  /\ (start + count) % Width <= len

(* withData(inData, start, count), inData having other bytes. *)
WithPartOf(other, start, count) == InRange(start, count, other) /\ WithBytes(count)

WithBytesNoCopy(n) ==
  /\ owner = "nobody"
  /\ owner' = "caller" /\ length' = n /\ capacity' = EXTERNAL /\ lent' = "lent"
  /\ UNCHANGED <<increment, dealloc, accounted, pointer>>

(* setDeallocFunction, unless there is no memory for reserved. *)
SetDeallocFunction ==
  /\ owner # "nobody"
  /\ dealloc' = TRUE
  /\ UNCHANGED <<owner, length, capacity, increment, lent, accounted, pointer>>

Free ==
  /\ owner # "nobody" /\ pointer = NoPointer
  /\ lent' = IF capacity = EXTERNAL /\ dealloc /\ length # 0 THEN "freed" ELSE "no"
  /\ accounted' = IF capacity = EXTERNAL THEN accounted ELSE accounted - capacity
  /\ owner' = "nobody" /\ length' = 0 /\ capacity' = 0 /\ increment' = 0
  /\ dealloc' = FALSE /\ UNCHANGED pointer

(* setCapacityIncrement.  Bound: not 0, by which ensureCapacity divides. *)
SetCapacityIncrement(n) ==
  /\ owner # "nobody" /\ n # 0
  /\ increment' = n
  /\ UNCHANGED <<owner, length, capacity, dealloc, lent, accounted, pointer>>

-----------------------------------------------------------------------------
(* Mutant: only the first of the two roundings is checked for overflow. *)
BugFinalCapacity(n) ==
  LET f == ((((n - 1) \div increment) + 1) * increment) % Width
  IN  IF f < n THEN capacity ELSE IF f < PageSize THEN f ELSE RoundPage(f) % Width

(* What ensureCapacity(n) asks for: n rounded up to the increment, and to  *)
(* whole pages when it is a page or more; nothing when either overflows.   *)
FinalCapacity(n) ==
  LET f == ((((n - 1) \div increment) + 1) * increment) % Width
      g == IF f < PageSize THEN f ELSE RoundPage(f) % Width
  IN  IF f < n \/ g < n THEN capacity ELSE g

EnsureCapacity(n) ==
  IF n <= capacity THEN {capacity} ELSE {capacity, FinalCapacity(n)}

(* The storage is replaced when the capacity changes. *)
Resized(n) ==
  /\ capacity' \in EnsureCapacity(n)
  /\ accounted' = accounted + capacity' - capacity
  /\ pointer' = IF capacity' = capacity THEN pointer ELSE [pointer EXCEPT !.good = FALSE]

EnsureRoom(n) ==
  /\ owner # "nobody"
  /\ Resized(n)
  /\ UNCHANGED <<owner, length, increment, dealloc, lent>>

(* appendBytes, appendByte and appendBytes of another OSData.  Bound: not  *)
(* of this one, whose bytes would be copied out of the storage that        *)
(* ensureCapacity has just freed.                                          *)
AppendBytes(n) ==
  /\ owner = "data" /\ n # 0 /\ length + n < Width
  /\ Resized(length + n)
  /\ length' = IF length + n <= capacity' THEN length + n ELSE length
  /\ UNCHANGED <<owner, increment, dealloc, lent>>

(* A client takes a pointer, and forgets it. *)
GetBytesNoCopy(start, count) ==
  /\ owner # "nobody" /\ InRange(start, count, length)
  /\ pointer' = [good |-> TRUE, start |-> start, count |-> count, capacity |-> capacity]
  /\ UNCHANGED <<owner, length, capacity, increment, dealloc, lent, accounted>>

ForgetPointer ==
  /\ pointer' = NoPointer
  /\ UNCHANGED <<owner, length, capacity, increment, dealloc, lent, accounted>>

Next ==
  \/ \E n \in Sizes :
       \/ WithCapacity(n) \/ WithBytes(n) \/ WithData(n) \/ WithBytesNoCopy(n)
       \/ SetCapacityIncrement(n) \/ EnsureRoom(n) \/ AppendBytes(n)
       \/ \E start \in Sizes : GetBytesNoCopy(start, n)
       \/ \E other, start \in Sizes : WithPartOf(other, start, n)
  \/ SetDeallocFunction \/ Free \/ ForgetPointer

-----------------------------------------------------------------------------
(* The bytes lie within storage that is the object's and is accounted for  *)
(* as often as it has it, however the sizes are rounded and wherever they  *)
(* wrap: no storage of its own has the size that marks the caller's.  And  *)
(* as long as getCapacity answers what it did, a pointer from              *)
(* getBytesNoCopy leads to bytes of the data, although appending may       *)
(* replace the storage (OSData.h:599-602).                                 *)
DataIsSound ==
  /\ owner = "data" => length <= capacity /\ capacity # EXTERNAL
  /\ accounted = IF owner = "data" THEN capacity ELSE 0
  /\ pointer.capacity = capacity =>
       pointer.good /\ pointer.start + pointer.count <= length
=============================================================================
