------------------------------ MODULE OSObject ------------------------------
(***************************************************************************)
(* The reference count of one OSObject (src/libkern/src/OSObject.cpp).     *)
(*                                                                         *)
(* retainCount is one word of two halves: the low half counts every        *)
(* reference, the high half those that collections hold (taken with the    *)
(* tag OSTypeID(OSCollection)).  Two values of the low half are codes: all *)
(* ones (FREEING) says that free() has begun, all ones but the lowest bit  *)
(* (PEGGED) that the count has wrapped and the object is to be leaked.     *)
(* Every operation is a loop that reads the word, looks at the codes,      *)
(* computes a new word and tries to swap it in.  The read and the swap are *)
(* separate actions here, so that other threads run between them.          *)
(*                                                                         *)
(* The clients are balanced: a thread releases only references it holds,   *)
(* and retains only while it holds one.  A weak holder, such as the symbol *)
(* pool, holds no reference: it may only taggedTryRetain, under a lock     *)
(* that the subclass's free() takes to unlink the object.                  *)
(***************************************************************************)
EXTENDS Naturals, FiniteSets

CONSTANTS
  Threads,
  Refs,        \* identities of references; each live reference is one of them
  SelfRefs,    \* the references the object holds on itself
  Half,        \* the number of values of each half of the word (2^16 in C)
  NoOne        \* the holder of a reference that does not exist

ASSUME HalfAssumption == Half \in Nat /\ Half >= 4 /\ Half % 2 = 0
ASSUME SelfAssumption ==
  /\ SelfRefs \subseteq Refs
  /\ IsFiniteSet(SelfRefs)
  /\ Cardinality(SelfRefs) + 1 < Half - 2
ASSUME HolderAssumption == NoOne \notin Threads /\ "self" \notin Threads /\ NoOne # "self"

FREEING == Half - 1
PEGGED  == Half - 2

Tags  == {"plain", "collection"}
Words == [total : 0 .. Half - 1, coll : 0 .. Half - 1]

VARIABLES
  word,       \* retainCount: its low and its high half
  holder,     \* who holds each reference: a thread, "self" or NoOne
  tag,        \* the tag each reference was taken with
  pc,         \* where each thread is in the code
  call,       \* the operation each thread is in: its kind, tag and reference
  orig,       \* the local variable origCount of each thread
  linked,     \* a weak holder can still reach the object
  mem         \* "allocated", or "deleted" once operator delete has run

vars == <<word, holder, tag, pc, call, orig, linked, mem>>

ops == {"retain", "tryRetain", "release"}
NoWord == [total |-> 0, coll |-> 0]
NoCall == [op |-> "none", tag |-> "plain", ref |-> NoOne]

Live == {r \in Refs : holder[r] # NoOne}
InCollection == {r \in Live : tag[r] = "collection"}
ClientRefs == Live \ SelfRefs
Holds(t, r) == holder[r] = t

(* A subclass that holds references on itself is released with freeWhen so *)
(* that its own references do not keep it alive.                           *)
FreeWhen == Cardinality(SelfRefs) + 1

(* The constructor sets the count to 1; init() takes the self references.  *)
Init ==
  /\ \E t \in Threads, r \in Refs \ SelfRefs :
       holder = [q \in Refs |-> IF q = r THEN t
                                ELSE IF q \in SelfRefs THEN "self" ELSE NoOne]
  /\ word = [total |-> FreeWhen, coll |-> 0]
  /\ tag = [r \in Refs |-> "plain"]
  /\ pc = [t \in Threads |-> "idle"]
  /\ call = [t \in Threads |-> NoCall]
  /\ orig = [t \in Threads |-> NoWord]
  /\ linked = TRUE
  /\ mem = "allocated"

-----------------------------------------------------------------------------
(* The arithmetic on the word, half by half.  inc is added to words whose  *)
(* low half is not a code, so nothing carries out of it; subtracting dec   *)
(* from a low half of 0 would borrow from the high half.                   *)
Minus(x, d) == IF x >= d THEN x - d ELSE x + Half - d

Inc(w, g) ==
  [total |-> w.total + 1,
   coll  |-> IF g = "plain" THEN w.coll
             ELSE IF w.coll = Half - 1 THEN 0 ELSE w.coll + 1]

Dec(w, g) ==
  LET d == IF g = "collection" THEN 1 ELSE 0
      borrow == IF w.total = 0 THEN 1 ELSE 0
  IN  [total |-> Minus(w.total, 1), coll |-> Minus(w.coll, d + borrow)]

(* Mutant: the comparison of the header's text. *)
BugReleased(w, g, when) ==
  IF Dec(w, g).total <= when THEN [total |-> FREEING, coll |-> 0] ELSE Dec(w, g)

(* newCount of taggedRelease(tag, when). *)
Released(w, g, when) ==
  IF Dec(w, g).total < when THEN [total |-> FREEING, coll |-> 0] ELSE Dec(w, g)

(* The check after the swap: fewer references than collection memberships. *)
RegistryCorrupted(w, g) == Dec(w, g).total < Dec(w, g).coll

-----------------------------------------------------------------------------
(* The operation returns; its local variables are gone. *)
Return(t) ==
  /\ call' = [call EXCEPT ![t] = NoCall]
  /\ orig' = [orig EXCEPT ![t] = NoWord]

Finish(t) ==
  /\ pc' = [pc EXCEPT ![t] = "idle"]
  /\ Return(t)

(* A client that holds a reference calls taggedRetain. *)
CallRetain(t, g) ==
  /\ pc[t] = "idle"
  /\ \E r \in Refs : Holds(t, r)
  /\ pc' = [pc EXCEPT ![t] = "read"]
  /\ call' = [call EXCEPT ![t] = [op |-> "retain", tag |-> g, ref |-> NoOne]]
  /\ UNCHANGED <<word, holder, tag, orig, linked, mem>>

(* A weak holder finds the object under its lock and calls taggedTryRetain. *)
CallTryRetain(t, g) ==
  /\ pc[t] = "idle"
  /\ linked
  /\ pc' = [pc EXCEPT ![t] = "read"]
  /\ call' = [call EXCEPT ![t] = [op |-> "tryRetain", tag |-> g, ref |-> NoOne]]
  /\ UNCHANGED <<word, holder, tag, orig, linked, mem>>

(* A client releases a reference it holds, with the tag it was taken with. *)
CallRelease(t, r) ==
  /\ pc[t] = "idle"
  /\ Holds(t, r)
  /\ pc' = [pc EXCEPT ![t] = "read"]
  /\ call' = [call EXCEPT ![t] = [op |-> "release", tag |-> tag[r], ref |-> r]]
  /\ UNCHANGED <<word, holder, tag, orig, linked, mem>>

(* A thread hands a reference it is not using to another thread. *)
HandOver(t, u, r) ==
  /\ pc[t] = "idle"
  /\ Holds(t, r)
  /\ t # u
  /\ holder' = [holder EXCEPT ![r] = u]
  /\ UNCHANGED <<word, tag, pc, call, orig, linked, mem>>

-----------------------------------------------------------------------------
TakeRef(t, r, g) ==
  /\ holder[r] = NoOne
  /\ holder' = [holder EXCEPT ![r] = t]
  /\ tag' = [tag EXCEPT ![r] = g]

DropRef(r) == holder' = [holder EXCEPT ![r] = NoOne]

(* origCount = *countP, for a word whose low half is none of these codes. *)
ReadUnless(t, codes) ==
  /\ pc[t] = "read"
  /\ word.total \notin codes
  /\ orig' = [orig EXCEPT ![t] = word]
  /\ pc' = [pc EXCEPT ![t] = "swap"]
  /\ UNCHANGED <<word, holder, tag, call, linked, mem>>

(* The loop goes on to the swap when the low half is not a code. *)
ReadCount(t) == ReadUnless(t, {FREEING, PEGGED})

(* The count is FREEING: taggedTryRetain answers false, on which           *)
(* taggedRetain panics, and taggedRelease returns.                         *)
ReadFreeing(t) ==
  /\ pc[t] = "read"
  /\ word.total = FREEING
  /\ \/ /\ call[t].op = "retain"
        /\ pc' = [pc EXCEPT ![t] = "panic"]
        /\ Return(t)
        /\ UNCHANGED holder
     \/ /\ call[t].op = "tryRetain"
        /\ Finish(t)
        /\ UNCHANGED holder
     \/ /\ call[t].op = "release"
        /\ DropRef(call[t].ref)
        /\ Finish(t)
  /\ UNCHANGED <<word, tag, linked, mem>>

(* The count is PEGGED: the caller gets, or gives up, a reference that is  *)
(* no longer counted.                                                      *)
ReadPegged(t) ==
  /\ pc[t] = "read"
  /\ word.total = PEGGED
  /\ \/ /\ call[t].op \in {"retain", "tryRetain"}
        /\ \E r \in Refs : TakeRef(t, r, call[t].tag)
     \/ /\ call[t].op = "release"
        /\ DropRef(call[t].ref)
        /\ UNCHANGED tag
  /\ Finish(t)
  /\ UNCHANGED <<word, linked, mem>>

(* OSAtomicCompareAndSwap32 fails: another thread changed the word. *)
SwapFails(t) ==
  /\ pc[t] = "swap"
  /\ word # orig[t]
  /\ pc' = [pc EXCEPT ![t] = "read"]
  /\ orig' = [orig EXCEPT ![t] = NoWord]
  /\ UNCHANGED <<word, holder, tag, call, linked, mem>>

(* Mutant: a plain store of the new word instead of a compare-and-swap. *)
BugStoreRetain(t) ==
  /\ pc[t] = "swap"
  /\ call[t].op \in {"retain", "tryRetain"}
  /\ word' = Inc(orig[t], call[t].tag)
  /\ \E r \in Refs : TakeRef(t, r, call[t].tag)
  /\ Finish(t)
  /\ UNCHANGED <<linked, mem>>

(* The swap of taggedTryRetain succeeds: the thread has a new reference. *)
SwapRetain(t) ==
  /\ pc[t] = "swap"
  /\ call[t].op \in {"retain", "tryRetain"}
  /\ word = orig[t]
  /\ word' = Inc(orig[t], call[t].tag)
  /\ \E r \in Refs : TakeRef(t, r, call[t].tag)
  /\ Finish(t)
  /\ UNCHANGED <<linked, mem>>

(* The swap of taggedRelease succeeds.  Its three outcomes are the panic,  *)
(* the call of free() by the thread that wrote FREEING, and the return.    *)
SwapReleaseIf(t, freed) ==
  /\ pc[t] = "swap"
  /\ call[t].op = "release"
  /\ word = orig[t]
  /\ word' = Released(orig[t], call[t].tag, FreeWhen)
  /\ DropRef(call[t].ref)
  /\ pc' = [pc EXCEPT ![t] =
              IF RegistryCorrupted(orig[t], call[t].tag) THEN "panic"
              ELSE IF freed THEN "free" ELSE "idle"]
  /\ Return(t)
  /\ UNCHANGED <<tag, linked, mem>>

SwapRelease(t) ==
  SwapReleaseIf(t, Released(orig[t], call[t].tag, FreeWhen).total = FREEING)

-----------------------------------------------------------------------------
(* The free() of a subclass takes the weak holder's lock and unlinks the   *)
(* object; its own releases of the self references find FREEING and return.*)
Free(t) ==
  /\ pc[t] = "free"
  /\ \A u \in Threads : call[u].op # "tryRetain"
  /\ linked' = FALSE
  /\ holder' = [r \in Refs |-> IF r \in SelfRefs THEN NoOne ELSE holder[r]]
  /\ pc' = [pc EXCEPT ![t] = "delete"]
  /\ UNCHANGED <<word, tag, call, orig, mem>>

(* OSObject::free ends with delete this. *)
Delete(t) ==
  /\ pc[t] = "delete"
  /\ mem' = "deleted"
  /\ pc' = [pc EXCEPT ![t] = "idle"]
  /\ UNCHANGED <<word, holder, tag, call, orig, linked>>

-----------------------------------------------------------------------------
Call(t) ==
  \/ \E g \in Tags : CallRetain(t, g) \/ CallTryRetain(t, g)
  \/ \E r \in Refs : CallRelease(t, r) \/ \E u \in Threads : HandOver(t, u, r)

Step(t) ==
  \/ ReadCount(t) \/ ReadFreeing(t) \/ ReadPegged(t)
  \/ SwapFails(t) \/ SwapRetain(t) \/ SwapRelease(t)
  \/ Free(t) \/ Delete(t)

Next == \E t \in Threads : Call(t) \/ Step(t)

Spec == Init /\ [][Next]_vars

(* A thread inside an operation keeps running; the lock that free() waits  *)
(* for is not withheld from it for ever.                                   *)
FairSpec == Spec /\ \A t \in Threads : WF_vars(Step(t)) /\ SF_vars(Free(t))

-----------------------------------------------------------------------------
(* The values every variable may take. *)
TypeOK ==
  /\ word \in Words
  /\ holder \in [Refs -> Threads \cup {"self", NoOne}]
  /\ tag \in [Refs -> Tags]
  /\ pc \in [Threads -> {"idle", "read", "swap", "free", "delete", "panic"}]
  /\ call \in [Threads -> [op : ops \cup {"none"}, tag : Tags, ref : Refs \cup {NoOne}]]
  /\ orig \in [Threads -> Words]
  /\ linked \in BOOLEAN
  /\ mem \in {"allocated", "deleted"}

(* While neither code is in the low half, the two halves are exactly the   *)
(* number of references that exist and of those that collections hold,     *)
(* whatever retains and releases raced to change the word.                 *)
CountIsExact ==
  word.total \notin {FREEING, PEGGED} =>
    /\ word.total = Cardinality(Live)
    /\ word.coll = Cardinality(InCollection)

(* free() is called only when no client holds a reference, none is in the  *)
(* middle of a retain or release, and the storage is deleted only when no  *)
(* weak holder is still looking at the count.                              *)
FreedOnlyUnreferenced ==
  /\ word.total = FREEING => ClientRefs = {}
  /\ mem = "deleted" => \A t \in Threads : call[t].op = "none"

(* Exactly one thread runs free(), and nobody runs it again after delete.  *)
FreedOnce ==
  LET inFree == {t \in Threads : pc[t] \in {"free", "delete"}}
  IN  /\ \A t, u \in inFree : t = u
      /\ inFree # {} <=> word.total = FREEING /\ mem = "allocated"

(* Clients that release only what they retained never meet one of the two  *)
(* panics: retaining a freed object, and corrupting the registry.          *)
NoPanic == \A t \in Threads : pc[t] # "panic"

(* Once the count has wrapped into PEGGED nothing moves the word again, so *)
(* the object is leaked and never freed under a client that holds it.      *)
PeggedForEver == [][word.total = PEGGED => UNCHANGED <<word, mem>>]_vars

(* The object lives and dies as ObjectLifetime says: the word, swapped by  *)
(* racing threads, behaves as one atomic set of references.                *)
Phase ==
  IF mem = "deleted" THEN "dead"
  ELSE IF word.total = FREEING THEN "dying" ELSE "alive"

Lifetime == INSTANCE ObjectLifetime
              WITH Refs <- Refs \ SelfRefs, refs <- ClientRefs, phase <- Phase

ImplementsLifetime == Lifetime!Spec

=============================================================================
