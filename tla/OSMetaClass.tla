----------------------------- MODULE OSMetaClass -----------------------------
(***************************************************************************)
(* The registry of classes (src/libkern/src/OSMetaClass.cpp), the C++      *)
(* loading and unloading of a kext that fills and empties it               *)
(* (OSRuntime.cpp), and the parts of OSKext::start, stop and unload that   *)
(* drive them (OSKext.cpp).                                                *)
(*                                                                         *)
(* One thread at a time loads or unloads, with sKextLock held; the static  *)
(* constructors of a kext queue its metaclasses on sStalled, guarded by    *)
(* sStalledClassesLock from preModLoad to postModLoad, and postModLoad     *)
(* enters them in sAllClassesDict under sAllClassesLock.  The other        *)
(* threads look classes up, make instances and free them; the counts they  *)
(* change are read by OSMetaClass::removeClasses while they change.        *)
(*                                                                         *)
(* A critical section of sAllClassesLock that reads nothing another thread *)
(* can change without the lock is one step.                                *)
(***************************************************************************)
EXTENDS Integers, Sequences, SequencesExt, FiniteSetsExt

CONSTANTS
  Threads, Kexts, Classes,
  NameOf,             \* the name of each class
  SuperOf,            \* its superclass, or None
  Structors,          \* the constructors of each kext, in order: segment and class
  CapacityIncrement,  \* kKModCapacityIncrement
  MaxInstances,       \* bound: instances of one class
  MaxDrift,           \* bound: how far counts fall below zero
  May,                \* what may go wrong or go on in this instance, see Events
  None, Freed

(* An allocation fails in preModLoad, the constructor, postModLoad or      *)
(* OSKext::addClass; the kext is not found; its start or stop function     *)
(* fails; its code makes instances without looking the class up.           *)
Events == {"stalled", "grow", "dict", "addClass", "lookup", "start", "stop", "new"}

Own(k) == {Structors[k][i].class : i \in DOMAIN Structors[k]}

Structor == [segment : Nat, class : Classes]

(* The segments of a kext come in order, and the constructors in that of   *)
(* their segments; a class has one constructor and is of one kext.         *)
ASSUME RegistryAssumption ==
  /\ None \notin Threads /\ May \subseteq Events
  /\ MaxInstances \in Nat /\ MaxDrift \in Nat /\ CapacityIncrement \in Nat \ {0}
  /\ SuperOf \in [Classes -> Classes \cup {None}]
  /\ Structors \in [Kexts -> Seq(Structor)]
  /\ \A k \in Kexts : \A i, j \in DOMAIN Structors[k] :
       i <= j => Structors[k][i].segment <= Structors[k][j].segment
  /\ \A k, j \in Kexts : k # j => Own(k) \cap Own(j) = {}
  /\ UNION {Own(k) : k \in Kexts} \subseteq Classes
  /\ \A k \in Kexts : \A c, d \in Own(k) : NameOf[c] = NameOf[d] => c = d

KextOf(c) == CHOOSE k \in Kexts : c \in Own(k)

(* The classes of the kernel, which is never unloaded: superclasses here.  *)
Kernel == Classes \ UNION {Own(k) : k \in Kexts}

VARIABLES
  dict,        \* sAllClassesDict, from names to classes; empty when it is null
  bootstrap,   \* sBootstrapState
  stalled,     \* sStalled: None, Freed, or the load in flight
  stalledLock, \* the thread that holds sStalledClassesLock, or None
  classesLock, \* the same for sAllClassesLock, where it is held for several steps
  kextLock,    \* the same for sKextLock
  loaded,      \* the kexts in memory,
  cppInit,     \* whose C++ is initialized,
  started,     \* whose flags.started is set,
  running,     \* and whose code runs, from its start function to its stop function
  metaClasses, \* the classes each OSKext knows as its own
  constructed, \* the metaclasses whose constructor has run and destructor has not
  recorded,    \* those whose reserved->kext is set
  count,       \* instanceCount of each metaclass
  retain,      \* reserved->retain of each
  live,        \* the instances of each that have not begun to be freed
  pc, loc

registry == <<dict, bootstrap>>
locks == <<stalledLock, classesLock, kextLock>>
kexts == <<loaded, cppInit, started, running, metaClasses>>
metas == <<constructed, recorded, count, retain>>
vars == <<registry, stalled, locks, kexts, metas, live, pc, loc>>

NoLocals == [kext |-> None, list |-> <<>>, todo |-> {}, cls |-> None, obj |-> None, after |-> None]

Init ==
  /\ dict = <<>> /\ bootstrap = "NoDictionaries"
  /\ stalled = None
  /\ stalledLock = None /\ classesLock = None /\ kextLock = None
  /\ loaded = {} /\ cppInit = {} /\ started = {} /\ running = {}
  /\ metaClasses = [k \in Kexts |-> {}]
  /\ constructed = {} /\ recorded = {}
  /\ count = [c \in Classes |-> 0]
  /\ retain = [c \in Classes |-> 0]
  /\ live = [c \in Classes |-> 0]
  /\ pc = [t \in Threads |-> "idle"]
  /\ loc = [t \in Threads |-> NoLocals]

Goto(t, label) == pc' = [pc EXCEPT ![t] = label]
Return(t) == Goto(t, "idle") /\ loc' = [loc EXCEPT ![t] = NoLocals]

(* start, stop and unload return: sKextLock is released. *)
KextReturn(t) == Return(t) /\ kextLock' = None

Needs(k) == {KextOf(SuperOf[c]) : c \in {d \in Own(k) : SuperOf[d] \notin Kernel \cup {None}}} \ {k}

Without(f, names) == [n \in DOMAIN f \ names |-> f[n]]
-----------------------------------------------------------------------------
(* OSKext::load and start: the kext is mapped, its dependencies run.       *)
Start(t, k) ==
  /\ pc[t] = "idle" /\ kextLock = None
  /\ k \notin started /\ Needs(k) \subseteq started
  /\ kextLock' = t
  /\ loaded' = loaded \cup {k}
  /\ Goto(t, IF k \in cppInit THEN "startfunc" ELSE "preInit")
  /\ loc' = [loc EXCEPT ![t].kext = k]
  /\ UNCHANGED <<registry, stalled, stalledLock, classesLock, cppInit, started, running,
                 metaClasses, metas, live>>

(* preModLoad, called to initialize or to finalize the kext. *)
PreModLoad(t) ==
  /\ pc[t] \in {"preInit", "preFinalize"}
  /\ stalledLock = None
  /\ stalledLock' = t
  /\ stalled' = [result |-> "success", capacity |-> CapacityIncrement, classes |-> <<>>]
  /\ Goto(t, IF pc[t] = "preInit" THEN "construct" ELSE "terminate")
  /\ loc' = [loc EXCEPT ![t].list = Structors[loc[t].kext]]
  /\ UNCHANGED <<registry, classesLock, kextLock, kexts, metas, live>>

(* Its first allocation fails and sStalled is null, or the second does and *)
(* sStalled is left pointing to memory that is freed.  The lock is held.   *)
PreModLoadFails(t) ==
  /\ "stalled" \in May
  /\ pc[t] \in {"preInit", "preFinalize"}
  /\ stalledLock = None
  /\ stalledLock' = t
  /\ stalled' \in {None, Freed}
  /\ IF pc[t] = "preInit"
     THEN KextReturn(t)
     ELSE /\ Goto(t, "terminate")
          /\ loc' = [loc EXCEPT ![t].list = Structors[loc[t].kext]]
          /\ UNCHANGED kextLock
  /\ UNCHANGED <<registry, classesLock, kexts, metas, live>>

(* OSMetaClass::OSMetaClass sets every field of the metaclass anew. *)
Constructed(c) ==
  /\ constructed' = constructed \cup {c}
  /\ recorded' = recorded \ {c}
  /\ count' = [count EXCEPT ![c] = 0]
  /\ retain' = [retain EXCEPT ![c] = 0]

StalledIsFull == Len(stalled.classes) >= stalled.capacity

Construct(t) ==
  /\ pc[t] = "construct" /\ loc[t].list # <<>>
  /\ LET c == Head(loc[t].list).class
         more == IF StalledIsFull THEN CapacityIncrement ELSE 0
     IN  /\ Constructed(c)
         /\ stalled' = [stalled EXCEPT !.classes = Append(@, c), !.capacity = @ + more]
  /\ loc' = [loc EXCEPT ![t].list = Tail(@)]
  /\ UNCHANGED <<registry, locks, kexts, live, pc>>

(* What OSRuntimeInitializeCPP undoes when a segment fails. *)
SegmentsBefore(k, segment) ==
  SubSeq(Structors[k], 1, Cardinality({i \in DOMAIN Structors[k] : Structors[k][i].segment < segment}))

(* The list cannot grow: no more constructors are called, and the          *)
(* destructors of the segments before this one are.                        *)
ConstructFails(t) ==
  /\ "grow" \in May
  /\ pc[t] = "construct" /\ loc[t].list # <<>>
  /\ StalledIsFull
  /\ LET failed == Head(loc[t].list)
     IN  /\ Constructed(failed.class)
         /\ loc' = [loc EXCEPT ![t].list = SegmentsBefore(loc[t].kext, failed.segment)]
  /\ stalled' = [stalled EXCEPT !.result = "NoTempData"]
  /\ Goto(t, "teardown")
  /\ UNCHANGED <<registry, locks, kexts, live>>

(* The list in flight without the first entry that is c. *)
Unlisted(list, c) ==
  IF \E i \in DOMAIN list : list[i] = c
  THEN RemoveAt(list, CHOOSE i \in DOMAIN list :
                        list[i] = c /\ \A j \in 1 .. i - 1 : list[j] # c)
  ELSE list

(* OSMetaClass::~OSMetaClass takes the name, whoever has it, out of the    *)
(* dictionary, and itself off its kext and the list in flight.             *)
Terminate(t) ==
  /\ pc[t] \in {"teardown", "terminate"} /\ loc[t].list # <<>>
  /\ stalled # Freed /\ classesLock = None
  /\ LET k == loc[t].kext
         c == Head(loc[t].list).class
     IN  /\ dict' = Without(dict, {NameOf[c]})
         /\ metaClasses' = [metaClasses EXCEPT ![k] = IF c \in recorded THEN @ \ {c} ELSE @]
         /\ stalled' = IF stalled = None THEN None
                       ELSE [stalled EXCEPT !.classes = Unlisted(@, c)]
         /\ constructed' = constructed \ {c}
         /\ recorded' = recorded \ {c}
  /\ loc' = [loc EXCEPT ![t].list = Tail(@)]
  /\ UNCHANGED <<bootstrap, locks, loaded, cppInit, started, running, count, retain, live, pc>>

(* The destructor, or postModLoad, uses the freed sStalled. *)
UseFreedStalled(t) ==
  /\ pc[t] = "terminate" /\ stalled = Freed
  /\ Goto(t, "crash")
  /\ UNCHANGED <<registry, stalled, locks, kexts, metas, live, loc>>

-----------------------------------------------------------------------------
(* postModLoad returns, sStalledClassesLock with it, to                    *)
(* OSRuntimeInitializeCPP or OSRuntimeFinalizeCPP.  A failure of the first *)
(* calls OSRuntimeFinalizeCPP, which returns at once because the kext is   *)
(* not marked initialized.                                                 *)
FinishLoad(t, success) ==
  LET k == loc[t].kext
      finalizing == pc[t] = "terminate"
  IN  /\ stalled' = None /\ stalledLock' = None
      /\ cppInit' = IF finalizing THEN cppInit \ {k}
                    ELSE IF success THEN cppInit \cup {k} ELSE cppInit
      /\ started' = IF finalizing THEN started \ {k} ELSE started
      /\ IF finalizing \/ success
         THEN Goto(t, IF finalizing THEN "unmap" ELSE "startfunc") /\ UNCHANGED <<kextLock, loc>>
         ELSE KextReturn(t)
      /\ UNCHANGED <<classesLock, loaded, running>>

StructorsDone(t) ==
  /\ pc[t] \in {"construct", "teardown", "terminate"}
  /\ loc[t].list = <<>>
  /\ stalled # Freed

CanRegister(t) == StructorsDone(t) /\ stalled # None /\ stalled.result = "success"

(* Until the first registration, a new dictionary replaces the old one. *)
MakeDictionary ==
  IF bootstrap = "CompletedBootstrap" THEN UNCHANGED registry
  ELSE bootstrap' = "MakingDictionaries" /\ dict' = <<>>

(* postModLoad has no handle, or the load has failed already, or it has no *)
(* classes.                                                                *)
PostModLoadOfNothing(t) ==
  /\ StructorsDone(t)
  /\ IF CanRegister(t) THEN stalled.classes = <<>> /\ MakeDictionary ELSE UNCHANGED registry
  /\ FinishLoad(t, CanRegister(t))
  /\ UNCHANGED <<metaClasses, metas, live>>

(* The first pass finds the name of a new class in the dictionary. *)
Duplicates == \E i \in DOMAIN stalled.classes : NameOf[stalled.classes[i]] \in DOMAIN dict

(* There is no dictionary, no kext, or a duplicate. *)
PostModLoadFails(t) ==
  /\ CanRegister(t)
  /\ \/ "dict" \in May /\ bootstrap # "CompletedBootstrap"
     \/ "lookup" \in May /\ stalled.classes # <<>>
     \/ Duplicates /\ classesLock = None
  /\ MakeDictionary
  /\ FinishLoad(t, FALSE)
  /\ UNCHANGED <<metaClasses, metas, live>>

FirstPass(t) ==
  /\ CanRegister(t) /\ stalled.classes # <<>>
  /\ ~ Duplicates /\ classesLock = None
  /\ MakeDictionary
  /\ Goto(t, "register")
  /\ UNCHANGED <<stalled, locks, kexts, metas, live, loc>>

(* The second pass; n classes are added to the kext, and a class that is   *)
(* not is in the dictionary all the same.                                  *)
SecondPass(t) ==
  /\ pc[t] = "register" /\ classesLock = None
  /\ \E n \in 0 .. Len(stalled.classes) :
       LET all == n = Len(stalled.classes)
           added == ToSet(SubSeq(stalled.classes, 1, n))
           entered == IF all THEN added ELSE added \cup {stalled.classes[n + 1]}
           names == {NameOf[c] : c \in entered}
       IN  /\ all \/ "addClass" \in May
           /\ dict' = [x \in DOMAIN dict \cup names |->
                         IF x \in names THEN CHOOSE c \in entered : NameOf[c] = x ELSE dict[x]]
           /\ recorded' = recorded \cup entered
           /\ metaClasses' = [metaClasses EXCEPT ![loc[t].kext] = @ \cup added]
           /\ FinishLoad(t, all)
  /\ bootstrap' = "CompletedBootstrap"
  /\ UNCHANGED <<constructed, count, retain, live>>

StartFunc(t) ==
  /\ pc[t] = "startfunc"
  /\ \/ /\ started' = started \cup {loc[t].kext}
        /\ running' = running \cup {loc[t].kext}
     \/ "start" \in May /\ UNCHANGED <<started, running>>
  /\ KextReturn(t)
  /\ UNCHANGED <<registry, stalled, stalledLock, classesLock, loaded, cppInit, metaClasses,
                 metas, live>>
-----------------------------------------------------------------------------
(* OSKext::unload, for a kext no other kext in memory is linked against.   *)
Unload(t, k) ==
  /\ pc[t] = "idle" /\ kextLock = None
  /\ k \in loaded /\ \A j \in loaded : k \notin Needs(j)
  /\ kextLock' = t
  /\ Goto(t, IF metaClasses[k] = {} THEN "stop" ELSE "removeClasses")
  /\ loc' = [loc EXCEPT ![t].kext = k, ![t].todo = metaClasses[k]]
  /\ UNCHANGED <<registry, stalled, stalledLock, classesLock, kexts, metas, live>>

EnterRemoveClasses(t) ==
  /\ pc[t] = "removeClasses" /\ classesLock = None
  /\ classesLock' = t
  /\ Goto(t, "check")
  /\ UNCHANGED <<registry, stalled, stalledLock, kextLock, kexts, metas, live, loc>>

(* Mutant: a class somebody is about to instantiate counts as unused. *)
BugInUse(c) == count[c] # 0

InUse(c) == count[c] # 0 \/ retain[c] # 0

ClassUnused(t) ==
  /\ pc[t] = "check"
  /\ \E c \in loc[t].todo : ~ InUse(c) /\ loc' = [loc EXCEPT ![t].todo = @ \ {c}]
  /\ UNCHANGED <<registry, stalled, locks, kexts, metas, live, pc>>

(* Mutant: waits until the class is unused. *)
BugClassInUse(t) == FALSE

ClassInUse(t) ==
  /\ pc[t] = "check"
  /\ \E c \in loc[t].todo : InUse(c)
  /\ classesLock' = None
  /\ KextReturn(t)
  /\ UNCHANGED <<registry, stalled, stalledLock, kexts, metas, live>>

(* Mutant: the names are left to the destructors. *)
BugRemoveClasses(t) ==
  /\ pc[t] = "check" /\ loc[t].todo = {}
  /\ classesLock' = None
  /\ Goto(t, "stop")
  /\ UNCHANGED <<registry, stalled, stalledLock, kextLock, kexts, metas, live, loc>>

(* All classes were unused when their turn came: their names are removed.  *)
RemoveClasses(t) ==
  /\ pc[t] = "check" /\ loc[t].todo = {}
  /\ dict' = Without(dict, {NameOf[c] : c \in metaClasses[loc[t].kext]})
  /\ classesLock' = None
  /\ Goto(t, "stop")
  /\ UNCHANGED <<bootstrap, stalled, stalledLock, kextLock, kexts, metas, live, loc>>

(* The kext's stop function, which waits for the kext's own code.          *)
StopFunc(t) ==
  /\ pc[t] = "stop" /\ loc[t].kext \in started
  /\ \A u \in Threads : pc[u] = "countUp" /\ loc[u].after = "idle" => KextOf(loc[u].obj) # loc[t].kext
  /\ running' = running \ {loc[t].kext}
  /\ Goto(t, "finalize")
  /\ UNCHANGED <<registry, stalled, locks, loaded, cppInit, started, metaClasses, metas, live, loc>>

StopFuncFails(t) ==
  /\ "stop" \in May
  /\ pc[t] = "stop" /\ loc[t].kext \in started
  /\ KextReturn(t)
  /\ UNCHANGED <<registry, stalled, stalledLock, classesLock, kexts, metas, live>>

(* A kext that was never started goes on to flushCollection. *)
FlushClasses(t) ==
  /\ pc[t] = "stop" /\ loc[t].kext \notin started
  /\ metaClasses' = [metaClasses EXCEPT ![loc[t].kext] = {}]
  /\ Goto(t, "finalize")
  /\ UNCHANGED <<registry, stalled, locks, loaded, cppInit, started, running, metas, live, loc>>

(* modHasInstance asks the classes the OSKext knows. *)
HasInstances(k) == \E c \in metaClasses[k] : count[c] # 0

(* Mutant: the classes of a kext are not asked again after it stopped. *)
BugFinalize(t) ==
  /\ pc[t] = "finalize"
  /\ Goto(t, IF loc[t].kext \in cppInit THEN "preFinalize" ELSE "unmap")
  /\ UNCHANGED <<registry, stalled, locks, kexts, metas, live, loc>>

(* OSRuntimeFinalizeCPP, up to preModLoad. *)
Finalize(t) ==
  /\ pc[t] = "finalize"
  /\ ~ HasInstances(loc[t].kext) \/ loc[t].kext \notin cppInit
  /\ Goto(t, IF loc[t].kext \in cppInit THEN "preFinalize" ELSE "unmap")
  /\ UNCHANGED <<registry, stalled, locks, kexts, metas, live, loc>>

FinalizeRefused(t) ==
  /\ pc[t] = "finalize"
  /\ loc[t].kext \in cppInit /\ HasInstances(loc[t].kext)
  /\ KextReturn(t)
  /\ UNCHANGED <<registry, stalled, stalledLock, classesLock, kexts, metas, live>>

(* The rest of unload: the classes are flushed if they were not, and the   *)
(* kext with its metaclasses leaves the memory.                            *)
Unmap(t) ==
  /\ pc[t] = "unmap"
  /\ LET k == loc[t].kext
     IN  /\ metaClasses' = [metaClasses EXCEPT ![k] = {}]
         /\ loaded' = loaded \ {k}
         /\ constructed' = constructed \ Own(k)
         /\ recorded' = recorded \ Own(k)
  /\ KextReturn(t)
  /\ UNCHANGED <<registry, stalled, stalledLock, classesLock, cppInit, started, running,
                 count, retain, live>>

-----------------------------------------------------------------------------
(* allocClassWithName, while there is room for the instance; a name that   *)
(* is not there is not found.                                              *)
CopyMetaClassWithName(t, n) ==
  /\ pc[t] = "idle" /\ classesLock = None
  /\ n \in DOMAIN dict
  /\ live[dict[n]] < MaxInstances
  /\ retain' = [retain EXCEPT ![dict[n]] = @ + 1]
  /\ Goto(t, "alloc")
  /\ loc' = [loc EXCEPT ![t].obj = dict[n]]
  /\ UNCHANGED <<registry, stalled, locks, kexts, constructed, recorded, count, live>>

(* OSAtomicIncrement32 and OSAtomicDecrement32 return the new value; the   *)
(* code compares it with 0 and 1.                                          *)
CountsSuper(up, c) == count'[c] = (IF up THEN 0 ELSE 1) /\ SuperOf[c] # None

CountInstance(t, up, c, obj, after) ==
  /\ count' = [count EXCEPT ![c] = IF up THEN @ + 1 ELSE @ - 1]
  /\ IF CountsSuper(up, c)
     THEN /\ Goto(t, IF up THEN "countUp" ELSE "countDown")
          /\ loc' = [loc EXCEPT ![t].obj = obj, ![t].cls = SuperOf[c], ![t].after = after]
     ELSE IF after = "idle" THEN Return(t)
     ELSE Goto(t, after) /\ loc' = [loc EXCEPT ![t].obj = obj]
  /\ UNCHANGED <<registry, stalled, locks, kexts, constructed, recorded, retain>>

(* meta->alloc(), the constructor of the instance. *)
Alloc(t) ==
  /\ pc[t] = "alloc"
  /\ CountInstance(t, TRUE, loc[t].obj, loc[t].obj, "release")
  /\ live' = [live EXCEPT ![loc[t].obj] = @ + 1]

(* The code of a kext makes an instance of a class of its own. *)
NewInstance(t, c) ==
  /\ "new" \in May
  /\ pc[t] = "idle"
  /\ KextOf(c) \in running /\ live[c] < MaxInstances
  /\ CountInstance(t, TRUE, c, c, "idle")
  /\ live' = [live EXCEPT ![c] = @ + 1]

(* OSObject::free of an instance, up to "delete this". *)
Free(t, c) ==
  /\ pc[t] = "idle"
  /\ live[c] > 0 /\ \A d \in Classes : count[d] > - MaxDrift
  /\ CountInstance(t, FALSE, c, c, "delete")
  /\ live' = [live EXCEPT ![c] = @ - 1]

(* instanceConstructed and instanceDestructed of the superclass. *)
CountSuper(t) ==
  /\ pc[t] \in {"countUp", "countDown"}
  /\ CountInstance(t, pc[t] = "countUp", loc[t].cls, loc[t].obj, loc[t].after)
  /\ UNCHANGED live

Delete(t) ==
  /\ pc[t] = "delete"
  /\ Return(t)
  /\ UNCHANGED <<registry, stalled, locks, kexts, metas, live>>

ReleaseMetaClass(t) ==
  /\ pc[t] = "release"
  /\ retain' = [retain EXCEPT ![loc[t].obj] = @ - 1]
  /\ Return(t)
  /\ UNCHANGED <<registry, stalled, locks, kexts, constructed, recorded, count, live>>

-----------------------------------------------------------------------------
Names == {NameOf[c] : c \in Classes}

Call(t) ==
  \/ \E k \in Kexts : Start(t, k) \/ Unload(t, k)
  \/ \E n \in Names : CopyMetaClassWithName(t, n)
  \/ \E c \in Classes \ Kernel : NewInstance(t, c) \/ Free(t, c)

(* The steps that wait for a lock other threads take again and again.      *)
Enter(t) ==
  \/ PreModLoad(t) \/ PreModLoadFails(t)
  \/ Terminate(t) \/ PostModLoadFails(t) \/ FirstPass(t) \/ SecondPass(t)
  \/ EnterRemoveClasses(t)

Inside(t) ==
  \/ Construct(t) \/ ConstructFails(t) \/ UseFreedStalled(t)
  \/ PostModLoadOfNothing(t) \/ StartFunc(t)
  \/ ClassUnused(t) \/ ClassInUse(t) \/ RemoveClasses(t)
  \/ StopFunc(t) \/ StopFuncFails(t) \/ FlushClasses(t)
  \/ Finalize(t) \/ FinalizeRefused(t) \/ Unmap(t)
  \/ Alloc(t) \/ CountSuper(t) \/ Delete(t) \/ ReleaseMetaClass(t)

Next ==
  /\ \A u \in Threads : pc[u] # "crash"
  /\ \E t \in Threads : Call(t) \/ Enter(t) \/ Inside(t)

Spec == Init /\ [][Next]_vars

FairSpec ==
  Spec /\ \A t \in Threads : WF_vars(Inside(t)) /\ SF_vars(Enter(t))

-----------------------------------------------------------------------------
(* The values every variable may take. *)
TypeOK ==
  LET Holder == Threads \cup {None}
      Label == {"idle", "preInit", "construct", "teardown", "register", "startfunc",
                "removeClasses", "check", "stop", "finalize", "preFinalize", "terminate",
                "unmap", "alloc", "release", "countUp", "countDown", "delete", "crash"}
  IN  /\ DOMAIN dict \subseteq Names /\ \A n \in DOMAIN dict : dict[n] \in Classes
      /\ bootstrap \in {"NoDictionaries", "MakingDictionaries", "CompletedBootstrap"}
      /\ stalled \in {None, Freed} \/ /\ stalled.result \in {"success", "NoTempData"}
                                      /\ stalled.classes \in Seq(Classes)
                                      /\ Len(stalled.classes) <= stalled.capacity
      /\ stalledLock \in Holder /\ classesLock \in Holder /\ kextLock \in Holder
      /\ loaded \subseteq Kexts /\ started \subseteq loaded /\ running \subseteq loaded
      /\ cppInit \subseteq loaded /\ started \subseteq cppInit
      /\ metaClasses \in [Kexts -> SUBSET Classes]
      /\ constructed \subseteq Classes /\ recorded \subseteq constructed
      /\ count \in [Classes -> Int]
      /\ retain \in [Classes -> 0 .. Cardinality(Threads)]
      /\ live \in [Classes -> 0 .. MaxInstances + Cardinality(Threads)]
      /\ pc \in [Threads -> Label]

(* Every name in the dictionary leads to the metaclass with that name,     *)
(* which is alive in a kext that is in memory and knows the class as its   *)
(* own: nobody finds a class through a stale pointer, and removeClasses    *)
(* will find each name again.                                              *)
NoDanglingClass ==
  \A n \in DOMAIN dict :
    LET c == dict[n]
    IN  /\ NameOf[c] = n
        /\ c \in constructed /\ c \in recorded
        /\ KextOf(c) \in loaded /\ c \in metaClasses[KextOf(c)]

(* A class that somebody is about to instantiate, or with an instance that *)
(* has not begun to be freed, is in memory and alive.                      *)
LiveIsMapped ==
  \A c \in Classes :
    \/ live[c] > 0
    \/ \E t \in Threads : pc[t] \in {"alloc", "release"} /\ loc[t].obj = c
    => KextOf(c) \in loaded /\ c \in constructed

(* A name is never passed from one class to another in one step, and a     *)
(* class in use keeps its name.                                            *)
Registry == INSTANCE ClassRegistry
              WITH registered <- {dict[n] : n \in DOMAIN dict}, users <- retain

ImplementsRegistry == Registry!Spec

(* A preModLoad that failed has left sStalledClassesLock to a thread that  *)
(* is not in the middle of a load or unload and will not unlock it.        *)
LockIsLost ==
  stalledLock # None /\ pc[stalledLock] \notin {"construct", "teardown", "register", "terminate"}

(* A load, an unload or a use of a class returns, unless it waits for a    *)
(* lock that is lost.                                                      *)
OperationsReturn == \A t \in Threads : (pc[t] # "idle") ~> (pc[t] = "idle" \/ LockIsLost)
=============================================================================
