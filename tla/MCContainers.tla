---------------------------- MODULE MCContainers ----------------------------
(***************************************************************************)
(* One object: a dictionary, an array or a set, an OSData, or a string and *)
(* a number.  They have nothing in common, so that each behaviour is that  *)
(* of one of them.                                                         *)
(***************************************************************************)
EXTENDS OSIndexedCollections

CONSTANTS
  o1, o2, o3,
  Keys, Values, ScanLimit, Increment, DictionaryStamps,
  PageSize, Least,
  Chars, MaxLength, Bits

VARIABLES
  class,        \* of the object
  entries, space, growth, kSort, stamp, keyHeld, valueHeld, iteration,
  owner, bytes, room, step, dealloc, lent, dataAccounted, pointer,
  string, noCopy, stringAccounted, number

dictionary == <<entries, space, growth, kSort, stamp, keyHeld, valueHeld, iteration>>
data == <<owner, bytes, room, step, dealloc, lent, dataAccounted, pointer>>
text == <<string, noCopy, stringAccounted, number>>

(* Three objects, two of which have the same rank. *)
MCRank == [o \in Objects |-> IF o = o2 THEN 2 ELSE 1]

Dictionary == INSTANCE OSDictionary
  WITH Stamps <- DictionaryStamps, capacity <- space, increment <- growth,
       updateStamp <- stamp, walk <- iteration
Data == INSTANCE OSData
  WITH length <- bytes, capacity <- room, increment <- step, accounted <- dataAccounted
Text == INSTANCE OSString WITH accounted <- stringAccounted

ASSUME ContainersAssumption ==
  /\ Dictionary!DictionaryAssumption
  /\ Data!DataAssumption
  /\ Text!StringAssumption

MCInit ==
  /\ Init /\ Data!Init /\ Text!Init
  /\ \/ class = "dictionary" /\ Dictionary!Init
     \/ class \in {"collection", "data", "text"} /\ Dictionary!WithCapacity(0)

MCNext ==
  /\ UNCHANGED class
  /\ \/ class = "dictionary" /\ Dictionary!Next /\ UNCHANGED <<vars, data, text>>
     \/ class = "collection" /\ Next /\ UNCHANGED <<dictionary, data, text>>
     \/ class = "data" /\ Data!Next /\ UNCHANGED <<vars, dictionary, text>>
     \/ class = "text" /\ Text!Next /\ UNCHANGED <<vars, dictionary, data>>

MCSpec == MCInit /\ [][MCNext]_<<class, vars, dictionary, data, text>>

-----------------------------------------------------------------------------
(* Whatever was made, added, merged, removed and sorted, both searches of a*)
(* dictionary find each key where it is (OSDictionary::getObject and       *)
(* setObject), and dictionaries are equal when what they find is.          *)
SearchesAgree == class = "dictionary" => Dictionary!SearchesAgree

(* A dictionary has retained its keys and values as often as it has them.  *)
RetainsAreBalanced == class = "dictionary" => Dictionary!RetainsAreBalanced

(* What getObject answers for every key changes as in a KeyedStore. *)
ImplementsStore == Dictionary!ImplementsStore

(* A walk whose stamp is that of its collection has handed out the first of*)
(* the elements there are, none twice (OSCollectionIterator.cpp).          *)
WalksAreExact ==
  /\ class = "dictionary" => Dictionary!WalkIsExact
  /\ class = "collection" => WalkIsExact

(* Sizes that wrap or are rounded leave an OSData inside its storage, and a*)
(* pointer into it is good while the capacity is what it was; a string     *)
(* keeps its terminator, and where both classes say that a string and data *)
(* are equal they are (OSData.cpp:270-335 and 462-504, OSString.cpp:322).  *)
BytesAreSound ==
  /\ class = "data" => Data!DataIsSound
  /\ class = "text" => Text!StringIsSound /\ Text!NumberFits
=============================================================================
