------------------------- MODULE OSCollectionCopy --------------------------
(***************************************************************************)
(* The deep copy: copyCollection of OSDictionary, OSArray and OSSet, with  *)
(* OSCollection::copyCollection, which looks an object up in the cycle     *)
(* dictionary.  The originals are objects of the heap like the copies: a   *)
(* copy of a collection keeps the leaves and copies the collections.       *)
(*                                                                         *)
(* An allocation that fails makes the copy of a collection NULL.           *)
(***************************************************************************)
EXTENDS ObjectHeap

VARIABLES
  copying,    \* the calls: [node, copy, next], outermost first
  answer,     \* what the call that has just returned gave: [done, copy]
  cycleDict   \* pairs <<original, copy>>, in the order they were inserted

copyVars == <<copying, answer, cycleDict>>

NoAnswer   == [done |-> FALSE, copy |-> 0]
Answers(c) == [done |-> TRUE, copy |-> c]

Copying == phase = "copying"

(* The object whose copyCollection is called next. *)
Wanted == IF copying = << >> THEN Root ELSE heap[Last(copying).node].items[Last(copying).next]

InsideCall == copying # << >>
ItemsLeft  == InsideCall /\ Last(copying).next <= Len(heap[Last(copying).node].items)
Calls      == ~answer.done /\ (InsideCall => ItemsLeft) /\ heap[Wanted].kind \in Collections

SetsItem(h, c, i, new) == [h EXCEPT ![c].items[i] = new]

(* OSCollection::copyCollection: the copy made before, retained. *)
FindsCopy ==
  /\ Copying /\ Calls
  /\ \E i \in DOMAIN cycleDict :
       /\ cycleDict[i][1] = Wanted
       /\ heap' = Plus(heap, cycleDict[i][2], 1)
       /\ answer' = Answers(cycleDict[i][2])
  /\ UNCHANGED <<phase, result, dying, copying, cycleDict, failuresLeft>>

(* The copy is made: a dictionary or array with the original's objects, a   *)
(* set with none.  The cycle dictionary retains both.                       *)
BeginsCopy ==
  /\ Copying /\ Calls
  /\ \A i \in DOMAIN cycleDict : cycleDict[i][1] # Wanted
  /\ LET o    == Wanted
         c    == Len(heap) + 1
         kept == IF heap[o].kind = "set" THEN << >> ELSE heap[o].items
         retained == [x \in DOMAIN heap |->
                        IF Counted(heap, x)
                        THEN [heap[x] EXCEPT !.count = @ + Cardinality({i \in DOMAIN kept : kept[i] = x})]
                        ELSE heap[x]]
     IN /\ heap' = Plus(Append(retained, [kind |-> heap[o].kind, text |-> << >>,
                                          items |-> kept, count |-> 2]), o, 1)
        /\ cycleDict' = Append(cycleDict, <<o, c>>)
        /\ copying' = Append(copying, [node |-> o, copy |-> c, next |-> 1])
  /\ UNCHANGED <<phase, result, dying, answer, failuresLeft>>

(* withDictionary, withArray or withCapacity returns NULL. *)
CannotCopy ==
  /\ Copying /\ Calls
  /\ \A i \in DOMAIN cycleDict : cycleDict[i][1] # Wanted
  /\ AllocationFails
  /\ answer' = Answers(0)
  /\ UNCHANGED <<phase, heap, result, dying, copying, cycleDict>>

Continues == [copying EXCEPT ![Len(copying)] = [@ EXCEPT !.next = @ + 1]]

(* A leaf stays what it is; a set has to take it. *)
KeepsLeaf ==
  /\ Copying /\ ~answer.done /\ ItemsLeft /\ heap[Wanted].kind \notin Collections
  /\ LET c == Last(copying).copy
     IN heap' = IF heap[c].kind = "set"
                THEN Plus([heap EXCEPT ![c].items = Append(@, Wanted)], Wanted, 1)
                ELSE heap
  /\ copying' = Continues
  /\ UNCHANGED <<phase, result, dying, answer, cycleDict, failuresLeft>>

(* The copy of an item takes the item's place and gets its reference: the   *)
(* one of the call is released, the item's own is too.  (A set releases the *)
(* copy before it takes it, on the cycle dictionary's account.)             *)
TakesCopy ==
  /\ Copying /\ answer.done /\ answer.copy # 0 /\ InsideCall
  /\ LET f == Last(copying)
     IN heap' = IF heap[f.copy].kind = "set"
                THEN [heap EXCEPT ![f.copy].items = Append(@, answer.copy)]
                ELSE Plus(SetsItem(heap, f.copy, f.next, answer.copy), Wanted, -1)
  /\ copying' = Continues
  /\ answer' = NoAnswer
  /\ UNCHANGED <<phase, result, dying, cycleDict, failuresLeft>>

(* A copy is complete; its reference goes to the caller. *)
ReturnsCopy ==
  /\ Copying /\ ~answer.done /\ InsideCall /\ ~ItemsLeft
  /\ answer' = Answers(Last(copying).copy)
  /\ copying' = Front(copying)
  /\ UNCHANGED <<phase, heap, result, dying, cycleDict, failuresLeft>>

(* abortCopy: an item could not be copied.  The unfinished copy is released *)
(* and this call returns NULL as well.  The cycle dictionary still holds    *)
(* the copy, so the release is not the last.                                *)
AbortsCopy ==
  /\ Copying /\ answer.done /\ answer.copy = 0 /\ InsideCall
  /\ heap' = Plus(heap, Last(copying).copy, -1)
  /\ copying' = Front(copying)
  /\ UNCHANGED <<phase, result, dying, answer, cycleDict, failuresLeft>>

(* The outermost call made the cycle dictionary, and releases it. *)
CopyEnds ==
  /\ Copying /\ answer.done /\ ~InsideCall
  /\ result' = answer.copy
  /\ dying' = FlattenSeq(cycleDict)
  /\ phase' = "releasing"
  /\ answer' = NoAnswer
  /\ cycleDict' = << >>
  /\ UNCHANGED <<heap, copying, failuresLeft>>

NothingCopied == copying = << >> /\ answer = NoAnswer /\ cycleDict = << >>

CopyNext ==
  /\ FindsCopy \/ BeginsCopy \/ CannotCopy \/ KeepsLeaf \/ TakesCopy \/ ReturnsCopy
     \/ AbortsCopy \/ CopyEnds
  /\ UNCHANGED <<task, stream>>
=============================================================================
