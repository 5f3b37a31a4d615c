-------------------------- MODULE OSMetaClass_proofs --------------------------
(***************************************************************************)
(* Proofs about OSMetaClass for every set of threads, kexts and classes    *)
(* and everything that may fail, but for what each theorem excludes.       *)
(***************************************************************************)
EXTENDS OSMetaClass, SequenceTheorems, FiniteSetTheorems, NaturalsInduction,
        WellFoundedInduction, TLAPS

(* OSKext::addClass does not fail: postModLoad leaves the class it could   *)
(* not add in the dictionary, where nothing removes it.                    *)
AddClassSucceeds == "addClass" \notin May

(* No kext derives its classes from those of another: the count of a       *)
(* superclass drifts, and that of a class of the kernel is not asked.      *)
SupersAreKernel == \A c \in Classes : SuperOf[c] \in Kernel \cup {None}

(* The steps in which a thread holds sKextLock: it loads a kext, has gone  *)
(* past removeClasses, or can no longer turn back.                         *)
Loading == {"preInit", "construct", "teardown", "register"}
Gone == {"preFinalize", "terminate", "unmap", "crash"}
Leaving == {"stop", "finalize"} \cup Gone
KextSteps == Loading \cup {"startfunc", "removeClasses", "check"} \cup Leaving
InstanceSteps == {"alloc", "release", "countUp", "countDown", "delete"}

InFlight == [result : {"success", "NoTempData"}, capacity : Nat, classes : Seq(Classes)]

Locals ==
  [kext : Kexts \cup {None}, list : Seq(Structor), todo : SUBSET Classes,
   cls : Classes \cup {None}, obj : Classes \cup {None}, after : {None, "idle", "release", "delete"}]

(* What TypeOK says, and who holds which lock. *)
Typed ==
  /\ \A n \in DOMAIN dict : dict[n] \in Classes
  /\ bootstrap \in {"NoDictionaries", "MakingDictionaries", "CompletedBootstrap"}
  /\ stalled \in {None, Freed} \cup InFlight
  /\ classesLock \in Threads \cup {None} /\ kextLock \in Threads \cup {None}
  /\ loaded \subseteq Kexts
  /\ metaClasses \in [Kexts -> SUBSET Classes]
  /\ constructed \subseteq Classes /\ recorded \subseteq Classes
  /\ count \in [Classes -> Int] /\ retain \in [Classes -> Int] /\ live \in [Classes -> Nat]
  /\ pc \in [Threads -> KextSteps \cup InstanceSteps \cup {"idle"}]
  /\ loc \in [Threads -> Locals]

Locked ==
  /\ \A t \in Threads : pc[t] \in KextSteps <=> kextLock = t
  /\ \A t \in Threads : pc[t] = "check" <=> classesLock = t
  /\ \A t \in Threads : pc[t] \in KextSteps => loc[t].kext \in loaded
  /\ \A t \in Threads : pc[t] \in {"alloc", "release", "countUp", "countDown"} => loc[t].obj \in Classes
  /\ \A t \in Threads : pc[t] \in {"countUp", "countDown"} =>
       loc[t].cls \in Classes /\ loc[t].after \in {"idle", "release", "delete"}

-----------------------------------------------------------------------------
(* A kext runs only when it was started, and starts only with its C++.     *)
Nested == running \subseteq started /\ started \subseteq cppInit /\ cppInit \subseteq loaded

(* What the holder of sKextLock relies on.  A load fills the list in       *)
(* flight with the classes of its kext, which is not initialized until all *)
(* of them are entered; an unload past removeClasses has left no names of  *)
(* the kext, flushCollection no classes, and the stop function no code that *)
(* runs.                                                                   *)
HolderLoads(t) ==
  LET k == loc[t].kext
      listed == {loc[t].list[i].class : i \in DOMAIN loc[t].list}
  IN  /\ pc[t] \in Loading \cup {"unmap"} => k \notin cppInit
      /\ pc[t] = "startfunc" => k \in cppInit
      /\ pc[t] \in {"construct", "teardown", "terminate"} => listed \subseteq Own(k)
      /\ pc[t] = "construct" =>
           /\ stalled \in InFlight /\ stalled.result = "success"
           /\ ToSet(stalled.classes) \subseteq Own(k) \cap constructed
           /\ Own(k) \subseteq ToSet(stalled.classes) \cup listed
      /\ pc[t] = "register" =>
           /\ stalled \in InFlight
           /\ ToSet(stalled.classes) = Own(k) /\ Own(k) \subseteq constructed
      /\ pc[t] = "teardown" => stalled \in InFlight /\ stalled.result = "NoTempData"
      /\ pc[t] = "terminate" =>
           stalled \in {None, Freed} \/ (stalled \in InFlight /\ stalled.classes = <<>>)
      /\ pc[t] \in Leaving => \A n \in DOMAIN dict : dict[n] \notin Own(k)
      /\ pc[t] = "finalize" /\ k \notin started => metaClasses[k] = {}
      /\ pc[t] \in Gone \cup {"finalize"} => k \notin running

LoadsAreOwn == \A t \in Threads : HolderLoads(t)

(* The thread has begun to take apart what the kext's classes hold. *)
Apart(t) == pc[t] \in Gone \/ (pc[t] = "finalize" /\ loc[t].kext \notin started)

(* An initialized kext knows all its classes, and they know it. *)
ClassesAreKnown ==
  \A k \in cppInit :
    \/ \E t \in Threads : loc[t].kext = k /\ Apart(t)
    \/ Own(k) \subseteq metaClasses[k] \cap constructed \cap recorded

(* A name leads to its class, whose kext is initialized. *)
NamesAreSound ==
  \A n \in DOMAIN dict : NameOf[dict[n]] = n /\ \E k \in cppInit : dict[n] \in Own(k)

Loads == Nested /\ LoadsAreOwn /\ ClassesAreKnown /\ NamesAreSound

-----------------------------------------------------------------------------
(* A thread uses c from looking it up to releasing it. *)
Uses(t, c) ==
  /\ loc[t].obj = c
  /\ pc[t] \in {"alloc", "release"} \/ (pc[t] = "countUp" /\ loc[t].after = "release")

Users(c) == {t \in Threads : Uses(t, c)}

RetainIsExact == \A c \in Classes : IsFiniteSet(Users(c)) /\ retain[c] = Cardinality(Users(c))

(* Only superclasses, which are of the kernel, are counted by a step that  *)
(* makes or frees nothing.                                                 *)
CountIsLive ==
  /\ \A c \in Classes \ Kernel : count[c] = live[c]
  /\ \A t \in Threads : pc[t] \in {"countUp", "countDown"} => loc[t].cls \in Kernel
  /\ \A t \in Threads : pc[t] = "countDown" => loc[t].after # "release"

InUseIsInitialized ==
  \A c \in Classes : live[c] > 0 \/ retain[c] > 0 => \E k \in cppInit : c \in Own(k)

(* What the unloading thread relies on.  removeClasses has found a class   *)
(* unused: nobody looks it up while the lock is held, and only the kext    *)
(* itself still makes instances.  Later nobody uses a class, whose name is *)
(* gone, and there is no instance once the kext has stopped and was asked. *)
HolderUnused(t) ==
  LET k == loc[t].kext
  IN  /\ pc[t] = "removeClasses" => loc[t].todo = metaClasses[k]
      /\ pc[t] = "check" => \A c \in metaClasses[k] \ loc[t].todo :
           retain[c] = 0 /\ (c \in Own(k) => k \in running \/ live[c] = 0)
      /\ pc[t] \in Leaving => \A c \in Own(k) : retain[c] = 0
      /\ pc[t] \in Gone \/ (pc[t] \in {"stop", "finalize"} /\ k \notin started)
           => \A c \in Own(k) : live[c] = 0

Instances ==
  /\ RetainIsExact
  /\ CountIsLive
  /\ InUseIsInitialized
  /\ \A t \in Threads : HolderUnused(t)

-----------------------------------------------------------------------------
(* What the operators on sequences and the constants give.                 *)
LEMMA ToSetFacts ==
  ASSUME NEW S, NEW s \in Seq(S)
  PROVE  /\ ToSet(s) \subseteq S /\ ToSet(s) = {s[i] : i \in 1 .. Len(s)}
         /\ s = <<>> => ToSet(s) = {}
         /\ \A e \in S : Append(s, e) \in Seq(S) /\ ToSet(Append(s, e)) = ToSet(s) \cup {e}
<1>1. Len(s) \in Nat /\ DOMAIN s = 1 .. Len(s) /\ \A i \in 1 .. Len(s) : s[i] \in S
  BY LenProperties, ElementOfSeq
<1>2. ToSet(s) \subseteq S /\ ToSet(s) = {s[i] : i \in 1 .. Len(s)}
  BY <1>1 DEF ToSet
<1>3. s = <<>> => ToSet(s) = {}
  BY <1>2
<1>4. ASSUME NEW e \in S PROVE Append(s, e) \in Seq(S) /\ ToSet(Append(s, e)) = ToSet(s) \cup {e}
  <2> DEFINE a == Append(s, e)
  <2>1. a \in Seq(S) /\ Len(a) = Len(s) + 1 /\ a[Len(s) + 1] = e /\ \A i \in 1 .. Len(s) : a[i] = s[i]
    BY <1>1
  <2>2. DOMAIN a = 1 .. Len(s) + 1
    BY <2>1, LenProperties
  <2> HIDE DEF a
  <2>3. ToSet(a) = {a[i] : i \in 1 .. Len(s) + 1}
    BY <2>2 DEF ToSet
  <2>4. ToSet(a) = ToSet(s) \cup {e}
    BY <2>1, <2>3, <1>1, <1>2
  <2> QED BY <2>1, <2>4 DEF a
<1> QED BY <1>2, <1>3, <1>4

LEMMA ConstantFacts ==
  /\ None \notin Threads /\ CapacityIncrement \in Nat
  /\ \A c \in Classes : SuperOf[c] \in Classes \cup {None}
  /\ \A k \in Kexts : /\ Structors[k] \in Seq(Structor)
                      /\ DOMAIN Structors[k] = 1 .. Len(Structors[k])
                      /\ Own(k) \subseteq Classes
  /\ \A k, j \in Kexts, c \in Classes : c \in Own(k) /\ c \in Own(j) => k = j
<1> USE RegistryAssumption
<1>1. \A k \in Kexts : Structors[k] \in Seq(Structor)
  OBVIOUS
<1>2. \A k \in Kexts : DOMAIN Structors[k] = 1 .. Len(Structors[k])
  BY <1>1, LenProperties
<1> QED BY <1>1, <1>2

(* What the loads do to the lists. *)
LEMMA StructorFacts ==
  ASSUME NEW list \in Seq(Structor), list # <<>>
  PROVE  /\ Head(list).class \in Classes /\ Head(list).segment \in Nat
         /\ Tail(list) \in Seq(Structor)
         /\ {list[i].class : i \in DOMAIN list}
              = {Head(list).class} \cup {Tail(list)[i].class : i \in DOMAIN Tail(list)}
<1>1. Len(list) \in Nat \ {0} /\ DOMAIN list = 1 .. Len(list)
  BY LenProperties, EmptySeq
<1>2. /\ Head(list) \in Structor /\ Tail(list) \in Seq(Structor)
      /\ Len(Tail(list)) = Len(list) - 1
      /\ \A i \in 1 .. Len(Tail(list)) : Tail(list)[i] = list[i + 1]
  BY HeadTailProperties
<1>3. DOMAIN Tail(list) = 1 .. Len(list) - 1
  BY <1>2, LenProperties
<1>4. Head(list) = list[1]
  OBVIOUS
<1> DEFINE all == {list[i].class : i \in 1 .. Len(list)}
           rest == {Tail(list)[i].class : i \in 1 .. Len(list) - 1}
<1>5. rest = {list[i + 1].class : i \in 1 .. Len(list) - 1}
  BY <1>2
<1>6. all \subseteq {list[1].class} \cup {list[i + 1].class : i \in 1 .. Len(list) - 1}
  <2> SUFFICES ASSUME NEW i \in 1 .. Len(list), i # 1
               PROVE  \E j \in 1 .. Len(list) - 1 : list[i].class = list[j + 1].class
    OBVIOUS
  <2>1. i - 1 \in 1 .. Len(list) - 1 /\ i = (i - 1) + 1
    BY <1>1
  <2> QED BY <2>1
<1>7. {list[1].class} \cup {list[i + 1].class : i \in 1 .. Len(list) - 1} \subseteq all
  BY <1>1
<1>8. all = {list[1].class} \cup rest
  BY <1>5, <1>6, <1>7
<1>9. {list[i].class : i \in DOMAIN list} = all /\ {Tail(list)[i].class : i \in DOMAIN Tail(list)} = rest
  BY <1>1, <1>3
<1>10. Head(list).class \in Classes /\ Head(list).segment \in Nat
  BY <1>2 DEF Structor
<1> QED BY <1>2, <1>4, <1>8, <1>9, <1>10

LEMMA SegmentsFacts ==
  ASSUME NEW k \in Kexts, NEW n \in Nat
  PROVE  /\ SegmentsBefore(k, n) \in Seq(Structor)
         /\ {SegmentsBefore(k, n)[i].class : i \in DOMAIN SegmentsBefore(k, n)} \subseteq Own(k)
<1> DEFINE s == Structors[k]
           before == {i \in DOMAIN s : s[i].segment < n}
           m == Cardinality(before)
           p == SubSeq(s, 1, m)
<1>1. s \in Seq(Structor) /\ DOMAIN s = 1 .. Len(s) /\ Len(s) \in Nat
  BY ConstantFacts, LenProperties
<1>2. \A i \in 1 .. Len(s) : s[i] \in Structor
  BY <1>1, ElementOfSeq
<1>3. m \in Nat /\ m <= Len(s)
  <2>1. IsFiniteSet(1 .. Len(s)) /\ Cardinality(1 .. Len(s)) = Len(s)
    BY <1>1, FS_Interval
  <2>2. before \in SUBSET (1 .. Len(s))
    BY <1>1
  <2> HIDE DEF before, s
  <2> QED BY <2>1, <2>2, FS_Subset, FS_CardinalityType
<1> HIDE DEF m
<1>4. \A i \in 1 .. m : s[i] \in Structor
  BY <1>1, <1>2, <1>3
<1>5. p \in Seq(Structor) /\ Len(p) = m /\ \A i \in 1 .. m : p[i] = s[i]
  BY <1>3, <1>4, SubSeqProperties
<1>6. DOMAIN p = 1 .. m
  BY <1>5, LenProperties
<1>7. {p[i].class : i \in DOMAIN p} \subseteq Own(k)
  BY <1>1, <1>3, <1>5, <1>6 DEF Own
<1> QED BY <1>5, <1>7 DEF SegmentsBefore, m

(* A set of naturals has a least element. *)
LEMMA Least ==
  ASSUME NEW T, T \subseteq Nat, T # {}
  PROVE  \E x \in T : \A y \in T : x <= y
<1>1. IsWellFoundedOn(OpToRel(<,Nat), Nat)
  BY NatLessThanWellFounded
<1> DEFINE R == OpToRel(<,Nat)
<1>3. \A x,y \in Nat : <<y,x>> \in R <=> y < x
  BY DEF OpToRel
<1>4. IsWellFoundedOn(R, Nat)
  BY <1>1
<1> HIDE DEF R
<1>2. \E x \in T : \A y \in T : ~(<<y,x>> \in R)
  BY <1>4, WFMin
<1>5. PICK x \in T : \A y \in T : ~(<<y,x>> \in R)
  BY <1>2
<1>6. \A y \in T : ~(y < x)
  BY <1>5, <1>3
<1>7. \A y \in T : x <= y
  BY <1>6
<1> QED BY <1>7

(* What is left of the list in flight. *)
LEMMA UnlistedFacts ==
  ASSUME NEW list \in Seq(Classes), NEW c
  PROVE  /\ Unlisted(list, c) \in Seq(Classes)
         /\ list = <<>> => Unlisted(list, c) = <<>>
<1>1. Len(list) \in Nat /\ DOMAIN list = 1 .. Len(list) /\ \A i \in 1 .. Len(list) : list[i] \in Classes
  BY LenProperties, ElementOfSeq
<1>2. CASE \A i \in DOMAIN list : list[i] # c
  BY <1>2 DEF Unlisted
<1>3. CASE \E i \in DOMAIN list : list[i] = c
  <2> DEFINE S == {i \in 1 .. Len(list) : list[i] = c}
             first == CHOOSE i \in DOMAIN list : list[i] = c /\ \A j \in 1 .. i - 1 : list[j] # c
  <2>1. S # {} /\ S \subseteq Nat
    BY <1>1, <1>3
  <2>2. PICK i \in S : \A j \in S : i <= j
    BY <2>1, Least
  <2>3. i \in DOMAIN list /\ list[i] = c /\ \A j \in 1 .. i - 1 : list[j] # c
    BY <1>1, <2>2
  <2>4. first \in DOMAIN list
    BY <2>3
  <2> HIDE DEF first
  <2>5. SubSeq(list, 1, first - 1) \in Seq(Classes)
    BY <1>1, <2>4, SubSeqProperties
  <2>6. SubSeq(list, first + 1, Len(list)) \in Seq(Classes)
    BY <1>1, <2>4, SubSeqProperties
  <2>7. RemoveAt(list, first) \in Seq(Classes)
    BY <2>5, <2>6, ConcatProperties DEF RemoveAt
  <2>8. list # <<>>
    BY <1>1, <1>3
  <2> QED BY <1>3, <2>7, <2>8 DEF Unlisted, first
<1> QED BY <1>2, <1>3

-----------------------------------------------------------------------------
(* The type of a step, and the locks it holds.                             *)
LEMMA LocalsFacts ==
  ASSUME NEW t \in Threads, loc \in [Threads -> Locals]
  PROVE  /\ loc[t].kext \in Kexts \cup {None} /\ loc[t].list \in Seq(Structor)
         /\ loc[t].todo \subseteq Classes /\ loc[t].cls \in Classes \cup {None}
         /\ loc[t].obj \in Classes \cup {None} /\ loc[t].after \in {None, "idle", "release", "delete"}
         /\ \A k \in Kexts : [loc EXCEPT ![t].kext = k] \in [Threads -> Locals]
         /\ \A l \in Seq(Structor) : [loc EXCEPT ![t].list = l] \in [Threads -> Locals]
         /\ \A k \in Kexts, s \in SUBSET Classes :
              [loc EXCEPT ![t].kext = k, ![t].todo = s] \in [Threads -> Locals]
         /\ \A s \in SUBSET Classes : [loc EXCEPT ![t].todo = s] \in [Threads -> Locals]
         /\ \A c \in Classes : [loc EXCEPT ![t].obj = c] \in [Threads -> Locals]
         /\ \A c, s \in Classes, a \in {"idle", "release", "delete"} :
              [loc EXCEPT ![t].obj = c, ![t].cls = s, ![t].after = a] \in [Threads -> Locals]
         /\ [loc EXCEPT ![t] = NoLocals] \in [Threads -> Locals]
<1>1. loc[t] \in Locals
  OBVIOUS
<1>2. NoLocals \in Locals
  BY EmptySeq DEF NoLocals, Locals
<1> QED BY ZenonT(60), <1>1, <1>2 DEF Locals

LEMMA TypedInit == Init => Typed /\ Locked
<1> SUFFICES ASSUME Init PROVE Typed /\ Locked
  OBVIOUS
<1>1. NoLocals \in Locals
  BY EmptySeq DEF NoLocals, Locals
<1> QED BY <1>1, ConstantFacts DEF Init, Typed, Locked, KextSteps, Loading, Leaving, Gone, InstanceSteps

(* The three ways in which postModLoad hands over to its caller. *)
LEMMA FinishLoadFacts ==
  ASSUME Typed, Locked, NEW t \in Threads, NEW success \in BOOLEAN, FinishLoad(t, success),
         pc[t] \in {"construct", "teardown", "register", "terminate"}
  PROVE  /\ pc[t] = "terminate" =>
              /\ pc' = [pc EXCEPT ![t] = "unmap"] /\ kextLock' = kextLock /\ loc' = loc
              /\ cppInit' = cppInit \ {loc[t].kext} /\ started' = started \ {loc[t].kext}
         /\ pc[t] # "terminate" /\ success =>
              /\ pc' = [pc EXCEPT ![t] = "startfunc"] /\ kextLock' = kextLock /\ loc' = loc
              /\ cppInit' = cppInit \cup {loc[t].kext} /\ started' = started
         /\ pc[t] # "terminate" /\ ~success =>
              /\ pc' = [pc EXCEPT ![t] = "idle"] /\ kextLock' = None
              /\ loc' = [loc EXCEPT ![t] = NoLocals]
              /\ cppInit' = cppInit /\ started' = started
         /\ pc' \in [Threads -> KextSteps \cup InstanceSteps \cup {"idle"}]
         /\ loc' \in [Threads -> Locals] /\ kextLock' \in Threads \cup {None}
         /\ stalled' = None /\ loaded' = loaded /\ running' = running /\ classesLock' = classesLock
         /\ Locked'
<1>1. pc \in [Threads -> KextSteps \cup InstanceSteps \cup {"idle"}] /\ loc \in [Threads -> Locals]
      /\ kextLock \in Threads \cup {None}
  BY DEF Typed
<1>2. stalled' = None /\ loaded' = loaded /\ running' = running /\ classesLock' = classesLock
  BY DEF FinishLoad
<1>3. CASE pc[t] = "terminate"
  <2>1. /\ pc' = [pc EXCEPT ![t] = "unmap"] /\ kextLock' = kextLock /\ loc' = loc
        /\ cppInit' = cppInit \ {loc[t].kext} /\ started' = started \ {loc[t].kext}
    BY <1>3 DEF FinishLoad, Goto
  <2>2. pc' \in [Threads -> KextSteps \cup InstanceSteps \cup {"idle"}]
    BY <2>1, <1>1 DEF KextSteps, Leaving, Gone
  <2>3. Locked'
    BY <2>1, <1>1, <1>2, <1>3 DEF Locked, KextSteps, Loading, Leaving, Gone
  <2> QED BY <1>1, <1>2, <1>3, <2>1, <2>2, <2>3
<1>4. CASE pc[t] # "terminate" /\ success
  <2>1. /\ pc' = [pc EXCEPT ![t] = "startfunc"] /\ kextLock' = kextLock /\ loc' = loc
        /\ cppInit' = cppInit \cup {loc[t].kext} /\ started' = started
    BY <1>4 DEF FinishLoad, Goto
  <2>2. pc' \in [Threads -> KextSteps \cup InstanceSteps \cup {"idle"}]
    BY <2>1, <1>1 DEF KextSteps, Leaving, Gone
  <2>3. Locked'
    BY <2>1, <1>1, <1>2, <1>4 DEF Locked, KextSteps, Loading, Leaving, Gone
  <2> QED BY <1>1, <1>2, <1>4, <2>1, <2>2, <2>3
<1>5. CASE pc[t] # "terminate" /\ ~success
  <2>1. /\ pc' = [pc EXCEPT ![t] = "idle"] /\ kextLock' = None
        /\ loc' = [loc EXCEPT ![t] = NoLocals]
        /\ cppInit' = cppInit /\ started' = started
    BY <1>5 DEF FinishLoad, KextReturn, Return, Goto
  <2>2. pc' \in [Threads -> KextSteps \cup InstanceSteps \cup {"idle"}]
    BY <2>1, <1>1
  <2>3. loc' \in [Threads -> Locals]
    BY <2>1, <1>1, LocalsFacts
  <2>4. Locked'
    BY <2>1, <1>1, <1>2, <1>5, ConstantFacts DEF Locked, KextSteps, Loading, Leaving, Gone
  <2> QED BY <1>1, <1>2, <1>5, <2>1, <2>2, <2>3, <2>4
<1> QED BY <1>3, <1>4, <1>5

LEMMA TypedStep ==
  Typed /\ Locked /\ LoadsAreOwn /\ Next => Typed' /\ Locked'
<1> SUFFICES ASSUME Typed, Locked, LoadsAreOwn, Next PROVE Typed' /\ Locked'
  OBVIOUS
<1> USE ConstantFacts
<1>a. PICK t \in Threads : Call(t) \/ Enter(t) \/ Inside(t)
  BY DEF Next
<1>b. pc[t] \in KextSteps \cup InstanceSteps \cup {"idle"} /\ (pc[t] \in KextSteps => loc[t].kext \in Kexts)
  BY DEF Typed, Locked
<1>c. /\ loc[t].kext \in Kexts \cup {None} /\ loc[t].list \in Seq(Structor)
      /\ loc[t].todo \subseteq Classes /\ loc[t].cls \in Classes \cup {None}
      /\ loc[t].obj \in Classes \cup {None} /\ loc[t].after \in {None, "idle", "release", "delete"}
  BY LocalsFacts DEF Typed
<1>d. [loc EXCEPT ![t] = NoLocals] \in [Threads -> Locals]
  BY LocalsFacts DEF Typed
<1>1. ASSUME NEW k \in Kexts, Start(t, k) PROVE Typed' /\ Locked'
  <2>1. Typed'
    BY <1>1, LocalsFacts DEF Start, Typed, Goto, registry, metas, KextSteps, Loading, Leaving, Gone, InstanceSteps
  <2>2. Locked'
    BY <1>1, <1>b DEF Start, Typed, Locked, Goto, Locals, KextSteps, Loading, Leaving, Gone, InstanceSteps
  <2> QED BY <2>1, <2>2
<1>2. ASSUME NEW k \in Kexts, Unload(t, k) PROVE Typed' /\ Locked'
  <2>1. Typed'
    BY <1>2, LocalsFacts DEF Unload, Typed, Goto, registry, kexts, metas, KextSteps, Loading, Leaving, Gone, InstanceSteps
  <2>2. Locked'
    BY <1>2, <1>b DEF Unload, Typed, Locked, Goto, kexts, Locals, KextSteps, Loading, Leaving, Gone, InstanceSteps
  <2> QED BY <2>1, <2>2
<1>3. ASSUME NEW n \in Names, CopyMetaClassWithName(t, n) PROVE Typed' /\ Locked'
  <2>1. dict[n] \in Classes /\ loc' \in [Threads -> Locals]
    BY <1>3, LocalsFacts DEF CopyMetaClassWithName, Typed
  <2>2. retain' \in [Classes -> Int]
    BY <1>3, <2>1 DEF CopyMetaClassWithName, Typed
  <2>3. Typed'
    BY <1>3, <2>1, <2>2 DEF CopyMetaClassWithName, Typed, Goto, registry, locks, kexts, InstanceSteps
  <2>4. Locked'
    BY <1>3, <1>b, <2>1 DEF CopyMetaClassWithName, Typed, Locked, Goto, locks, kexts, Locals, KextSteps, Loading, Leaving, Gone, InstanceSteps
  <2> QED BY <2>3, <2>4
<1>4. ASSUME PreModLoad(t) PROVE Typed' /\ Locked'
  <2>1. Typed'
    BY <1>4, LocalsFacts, EmptySeq DEF PreModLoad, Typed, Goto, registry, kexts, metas, InFlight, Locked, KextSteps, Loading, Leaving, Gone, InstanceSteps
  <2>2. Locked'
    BY <1>4 DEF PreModLoad, Typed, Locked, Goto, kexts, Locals, KextSteps, Loading, Leaving, Gone, InstanceSteps
  <2> QED BY <2>1, <2>2
<1>5. ASSUME PreModLoadFails(t) PROVE Typed' /\ Locked'
  <2>1. CASE pc[t] = "preInit"
    <3>1. /\ pc' = [pc EXCEPT ![t] = "idle"] /\ loc' = [loc EXCEPT ![t] = NoLocals]
          /\ kextLock' = None
      BY <1>5, <2>1 DEF PreModLoadFails, KextReturn, Return, Goto
    <3>2. Typed'
      BY <1>5, <3>1, <1>d DEF PreModLoadFails, Typed, registry, kexts, metas
    <3>3. Locked'
      BY <1>5, <2>1, <3>1 DEF PreModLoadFails, Typed, Locked, kexts, KextSteps, Loading, Leaving, Gone, InstanceSteps
    <3> QED BY <3>2, <3>3
  <2>2. CASE pc[t] # "preInit"
    <3>1. loc[t].kext \in Kexts
      BY <1>5, <1>b, <2>2 DEF PreModLoadFails, KextSteps, Loading, Leaving, Gone, InstanceSteps
    <3>2. /\ pc' = [pc EXCEPT ![t] = "terminate"]
          /\ loc' = [loc EXCEPT ![t].list = Structors[loc[t].kext]]
          /\ kextLock' = kextLock
      BY <1>5, <2>2 DEF PreModLoadFails, Goto
    <3>3. loc' \in [Threads -> Locals]
      BY <3>1, <3>2, LocalsFacts DEF Typed
    <3>4. Typed'
      BY <1>5, <3>2, <3>3 DEF PreModLoadFails, Typed, registry, kexts, metas, KextSteps, Loading, Leaving, Gone, InstanceSteps
    <3>5. Locked'
      BY <1>5, <2>2, <3>2 DEF PreModLoadFails, Typed, Locked, kexts, Locals, KextSteps, Loading, Leaving, Gone, InstanceSteps
    <3> QED BY <3>4, <3>5
  <2> QED BY <2>1, <2>2
<1>6. ASSUME Construct(t) PROVE Typed' /\ Locked'
  <2> DEFINE c == Head(loc[t].list).class
  <2>1. c \in Classes /\ loc' \in [Threads -> Locals]
    BY <1>6, <1>c, LocalsFacts, StructorFacts DEF Construct, Typed
  <2>2. stalled \in InFlight
    BY <1>6 DEF Construct, LoadsAreOwn, HolderLoads
  <2>3. Append(stalled.classes, c) \in Seq(Classes)
    BY <2>1, <2>2, ToSetFacts DEF InFlight
  <2> HIDE DEF c
  <2>4. stalled' \in InFlight
    <3> DEFINE more == IF StalledIsFull THEN CapacityIncrement ELSE 0
               l == Append(stalled.classes, c)
    <3>1. stalled' = [stalled EXCEPT !.classes = l, !.capacity = stalled.capacity + more]
      BY <1>6 DEF Construct, c
    <3>2. more \in Nat
      OBVIOUS
    <3>3. l \in Seq(Classes)
      BY <2>3
    <3> HIDE DEF more, l
    <3> DEFINE room == stalled.capacity + more
    <3>4. room \in Nat
      BY <2>2, <3>2 DEF InFlight
    <3>5. stalled' = [stalled EXCEPT !.classes = l, !.capacity = room]
      BY <3>1
    <3> HIDE DEF room
    <3> QED BY <2>2, <3>3, <3>4, <3>5 DEF InFlight
  <2>5. constructed' \subseteq Classes /\ recorded' \subseteq Classes
        /\ count' \in [Classes -> Int] /\ retain' \in [Classes -> Int]
    BY <1>6, <2>1 DEF Construct, Constructed, Typed, c
  <2>6. Typed'
    BY <1>6, <2>1, <2>4, <2>5 DEF Construct, Typed, registry, locks, kexts
  <2>7. Locked'
    BY <1>6 DEF Construct, Typed, Locked, locks, kexts, Locals
  <2> QED BY <2>6, <2>7
<1>7. ASSUME ConstructFails(t) PROVE Typed' /\ Locked'
  <2>1. Head(loc[t].list).class \in Classes /\ Head(loc[t].list).segment \in Nat /\ loc[t].kext \in Kexts
    BY <1>7, <1>b, <1>c, StructorFacts DEF ConstructFails, KextSteps, Loading, Leaving, Gone, InstanceSteps
  <2>2. loc' \in [Threads -> Locals]
    <3> DEFINE l == SegmentsBefore(loc[t].kext, Head(loc[t].list).segment)
    <3>1. loc' = [loc EXCEPT ![t].list = l]
      BY <1>7 DEF ConstructFails
    <3>2. l \in Seq(Structor)
      BY <2>1, SegmentsFacts
    <3> HIDE DEF l
    <3> QED BY <3>1, <3>2, LocalsFacts DEF Typed
  <2>3. stalled' \in InFlight
    BY <1>7 DEF ConstructFails, LoadsAreOwn, HolderLoads, InFlight
  <2>4. constructed' \subseteq Classes /\ recorded' \subseteq Classes
        /\ count' \in [Classes -> Int] /\ retain' \in [Classes -> Int]
    BY <1>7, <2>1 DEF ConstructFails, Constructed, Typed
  <2>5. Typed'
    BY <1>7, <2>2, <2>3, <2>4 DEF ConstructFails, Typed, Goto, registry, locks, kexts, KextSteps, Loading, Leaving, Gone, InstanceSteps
  <2>6. Locked'
    BY <1>7, <2>1 DEF ConstructFails, Typed, Locked, Goto, locks, kexts, Locals, KextSteps, Loading, Leaving, Gone, InstanceSteps
  <2> QED BY <2>5, <2>6
<1>8. ASSUME Terminate(t) PROVE Typed' /\ Locked'
  <2>1. Typed'
    BY <1>8, LocalsFacts, StructorFacts, UnlistedFacts DEF Terminate, Typed, Without, locks, LoadsAreOwn, HolderLoads, InFlight
  <2>2. Locked'
    BY <1>8 DEF Terminate, Typed, Locked, locks, kexts, Locals
  <2> QED BY <2>1, <2>2
<1>9. ASSUME UseFreedStalled(t) PROVE Typed' /\ Locked'
  <2>1. Typed'
    BY <1>9 DEF UseFreedStalled, Typed, Goto, registry, locks, kexts, metas, KextSteps, Loading, Leaving, Gone, InstanceSteps
  <2>2. Locked'
    BY <1>9 DEF UseFreedStalled, Typed, Locked, Goto, locks, kexts, KextSteps, Loading, Leaving, Gone, InstanceSteps
  <2> QED BY <2>1, <2>2
<1>10. ASSUME PostModLoadOfNothing(t) PROVE Typed' /\ Locked'
  <2>1. /\ FinishLoad(t, CanRegister(t)) /\ CanRegister(t) \in BOOLEAN
        /\ pc[t] \in {"construct", "teardown", "register", "terminate"}
    BY <1>10 DEF PostModLoadOfNothing, CanRegister, StructorsDone
  <2>2. Locked' /\ pc' \in [Threads -> KextSteps \cup InstanceSteps \cup {"idle"}]
        /\ loc' \in [Threads -> Locals] /\ kextLock' \in Threads \cup {None}
        /\ stalled' = None /\ loaded' = loaded /\ classesLock' = classesLock
    BY <2>1, FinishLoadFacts
  <2>3. Typed'
    BY <1>10, <2>2 DEF PostModLoadOfNothing, Typed, MakeDictionary, registry, metas
  <2> QED BY <2>2, <2>3
<1>11. ASSUME PostModLoadFails(t) PROVE Typed' /\ Locked'
  <2>1. /\ FinishLoad(t, FALSE) /\ FALSE \in BOOLEAN
        /\ pc[t] \in {"construct", "teardown", "register", "terminate"}
    BY <1>11 DEF PostModLoadFails, CanRegister, StructorsDone
  <2>2. Locked' /\ pc' \in [Threads -> KextSteps \cup InstanceSteps \cup {"idle"}]
        /\ loc' \in [Threads -> Locals] /\ kextLock' \in Threads \cup {None}
        /\ stalled' = None /\ loaded' = loaded /\ classesLock' = classesLock
    BY <2>1, FinishLoadFacts
  <2>3. Typed'
    BY <1>11, <2>2 DEF PostModLoadFails, Typed, MakeDictionary, registry, metas
  <2> QED BY <2>2, <2>3
<1>12. ASSUME FirstPass(t) PROVE Typed' /\ Locked'
  <2>1. Typed'
    BY <1>12 DEF FirstPass, Typed, CanRegister, StructorsDone, MakeDictionary, Goto, registry, locks, kexts, metas, KextSteps, Loading, Leaving, Gone, InstanceSteps
  <2>2. Locked'
    BY <1>12 DEF FirstPass, Typed, Locked, CanRegister, StructorsDone, Goto, locks, kexts, KextSteps, Loading, Leaving, Gone, InstanceSteps
  <2> QED BY <2>1, <2>2
<1>13. ASSUME EnterRemoveClasses(t) PROVE Typed' /\ Locked'
  <2>1. Typed'
    BY <1>13 DEF EnterRemoveClasses, Typed, Goto, registry, kexts, metas, KextSteps, Loading, Leaving, Gone, InstanceSteps
  <2>2. Locked'
    BY <1>13 DEF EnterRemoveClasses, Typed, Locked, Goto, kexts, KextSteps, Loading, Leaving, Gone, InstanceSteps
  <2> QED BY <2>1, <2>2
<1>14. ASSUME StartFunc(t) PROVE Typed' /\ Locked'
  <2>1. Typed'
    BY <1>14, LocalsFacts DEF StartFunc, Typed, KextReturn, Return, Goto, registry, metas, KextSteps, Loading, Leaving, Gone, InstanceSteps
  <2>2. Locked'
    BY <1>14 DEF StartFunc, Typed, Locked, KextReturn, Return, Goto, KextSteps, Loading, Leaving, Gone, InstanceSteps
  <2> QED BY <2>1, <2>2
<1>15. ASSUME ClassUnused(t) PROVE Typed' /\ Locked'
  <2>1. loc' \in [Threads -> Locals]
    <3>1. PICK c \in loc[t].todo : loc' = [loc EXCEPT ![t].todo = loc[t].todo \ {c}]
      BY <1>15 DEF ClassUnused
    <3>2. loc[t].todo \ {c} \in SUBSET Classes
      BY <1>c
    <3> QED BY <3>1, <3>2, LocalsFacts DEF Typed
  <2>2. Typed'
    BY <1>15, <2>1 DEF ClassUnused, Typed, registry, locks, kexts, metas
  <2>3. Locked'
    BY <1>15 DEF ClassUnused, Typed, Locked, locks, kexts, Locals
  <2> QED BY <2>2, <2>3
<1>16. ASSUME ClassInUse(t) PROVE Typed' /\ Locked'
  <2>1. Typed'
    BY <1>16, LocalsFacts DEF ClassInUse, Typed, KextReturn, Return, Goto, registry, kexts, metas, KextSteps, Loading, Leaving, Gone, InstanceSteps
  <2>2. Locked'
    BY <1>16 DEF ClassInUse, Typed, Locked, KextReturn, Return, Goto, kexts, KextSteps, Loading, Leaving, Gone, InstanceSteps
  <2> QED BY <2>1, <2>2
<1>17. ASSUME RemoveClasses(t) PROVE Typed' /\ Locked'
  <2>1. Typed'
    BY <1>17 DEF RemoveClasses, Typed, Without, Goto, kexts, metas, KextSteps, Loading, Leaving, Gone, InstanceSteps
  <2>2. Locked'
    BY <1>17 DEF RemoveClasses, Typed, Locked, Goto, kexts, KextSteps, Loading, Leaving, Gone, InstanceSteps
  <2> QED BY <2>1, <2>2
<1>18. ASSUME StopFunc(t) PROVE Typed' /\ Locked'
  <2>1. Typed'
    BY <1>18 DEF StopFunc, Typed, Goto, registry, locks, metas, KextSteps, Loading, Leaving, Gone, InstanceSteps
  <2>2. Locked'
    BY <1>18 DEF StopFunc, Typed, Locked, Goto, locks, KextSteps, Loading, Leaving, Gone, InstanceSteps
  <2> QED BY <2>1, <2>2
<1>19. ASSUME StopFuncFails(t) PROVE Typed' /\ Locked'
  <2>1. Typed'
    BY <1>19, LocalsFacts DEF StopFuncFails, Typed, KextReturn, Return, Goto, registry, kexts, metas, KextSteps, Loading, Leaving, Gone, InstanceSteps
  <2>2. Locked'
    BY <1>19 DEF StopFuncFails, Typed, Locked, KextReturn, Return, Goto, kexts, KextSteps, Loading, Leaving, Gone, InstanceSteps
  <2> QED BY <2>1, <2>2
<1>20. ASSUME FlushClasses(t) PROVE Typed' /\ Locked'
  <2>1. Typed'
    BY <1>20 DEF FlushClasses, Typed, Goto, registry, locks, metas, KextSteps, Loading, Leaving, Gone, InstanceSteps
  <2>2. Locked'
    BY <1>20 DEF FlushClasses, Typed, Locked, Goto, locks, KextSteps, Loading, Leaving, Gone, InstanceSteps
  <2> QED BY <2>1, <2>2
<1>21. ASSUME Finalize(t) PROVE Typed' /\ Locked'
  <2>1. Typed'
    BY <1>21 DEF Finalize, Typed, Goto, registry, locks, kexts, metas, KextSteps, Loading, Leaving, Gone, InstanceSteps
  <2>2. Locked'
    BY <1>21 DEF Finalize, Typed, Locked, Goto, locks, kexts, KextSteps, Loading, Leaving, Gone, InstanceSteps
  <2> QED BY <2>1, <2>2
<1>22. ASSUME FinalizeRefused(t) PROVE Typed' /\ Locked'
  <2>1. Typed'
    BY <1>22, LocalsFacts DEF FinalizeRefused, Typed, KextReturn, Return, Goto, registry, kexts, metas, KextSteps, Loading, Leaving, Gone, InstanceSteps
  <2>2. Locked'
    BY <1>22 DEF FinalizeRefused, Typed, Locked, KextReturn, Return, Goto, kexts, KextSteps, Loading, Leaving, Gone, InstanceSteps
  <2> QED BY <2>1, <2>2
<1>23. ASSUME Unmap(t) PROVE Typed' /\ Locked'
  <2>1. Typed'
    BY <1>23, LocalsFacts, <1>b DEF Unmap, Typed, KextReturn, Return, Goto, registry, KextSteps, Loading, Leaving, Gone, InstanceSteps
  <2>2. Locked'
    BY <1>23 DEF Unmap, Typed, Locked, KextReturn, Return, Goto, KextSteps, Loading, Leaving, Gone, InstanceSteps
  <2> QED BY <2>1, <2>2
<1>24. ASSUME Delete(t) PROVE Typed' /\ Locked'
  <2>1. Typed'
    BY <1>24, LocalsFacts DEF Delete, Typed, Return, Goto, registry, locks, kexts, metas
  <2>2. Locked'
    BY <1>24 DEF Delete, Typed, Locked, Return, Goto, locks, kexts, KextSteps, Loading, Leaving, Gone, InstanceSteps
  <2> QED BY <2>1, <2>2
<1>25. ASSUME ReleaseMetaClass(t) PROVE Typed' /\ Locked'
  <2>1. loc' \in [Threads -> Locals]
    BY <1>25, LocalsFacts DEF ReleaseMetaClass, Typed, Return
  <2>2. retain' \in [Classes -> Int]
    BY <1>25 DEF ReleaseMetaClass, Typed, Locked
  <2>3. Typed'
    BY <1>25, <2>1, <2>2 DEF ReleaseMetaClass, Typed, Return, Goto, registry, locks, kexts
  <2>4. Locked'
    BY <1>25 DEF ReleaseMetaClass, Typed, Locked, Return, Goto, locks, kexts, KextSteps, Loading, Leaving, Gone, InstanceSteps
  <2> QED BY <2>3, <2>4
<1>26. ASSUME SecondPass(t) PROVE Typed' /\ Locked'
  <2>1. stalled \in InFlight /\ loc[t].kext \in Kexts
    BY <1>26, <1>b DEF SecondPass, LoadsAreOwn, HolderLoads, KextSteps, Loading, Leaving, Gone, InstanceSteps
  <2> DEFINE s == stalled.classes
  <2>2. s \in Seq(Classes) /\ Len(s) \in Nat /\ \A i \in 1 .. Len(s) : s[i] \in Classes
    BY <2>1, LenProperties, ElementOfSeq DEF InFlight
  <2>3. PICK n \in 0 .. Len(s) :
          LET all == n = Len(s)
              added == ToSet(SubSeq(s, 1, n))
              entered == IF all THEN added ELSE added \cup {s[n + 1]}
              names == {NameOf[c] : c \in entered}
          IN  /\ all \/ "addClass" \in May
              /\ dict' = [x \in DOMAIN dict \cup names |->
                            IF x \in names THEN CHOOSE c \in entered : NameOf[c] = x ELSE dict[x]]
              /\ recorded' = recorded \cup entered
              /\ metaClasses' = [metaClasses EXCEPT ![loc[t].kext] = @ \cup added]
              /\ FinishLoad(t, all)
    BY <1>26 DEF SecondPass
  <2> DEFINE all == n = Len(s)
             added == ToSet(SubSeq(s, 1, n))
             entered == IF all THEN added ELSE added \cup {s[n + 1]}
             names == {NameOf[c] : c \in entered}
  <2>4. added \subseteq Classes
    <3>1. \A i \in 1 .. n : s[i] \in Classes
      BY <2>2
    <3>2. SubSeq(s, 1, n) \in Seq(Classes)
      <4>1. 1 \in Int /\ n \in Int
        OBVIOUS
      <4> HIDE DEF s
      <4> QED BY <3>1, <4>1, SubSeqProperties
    <3> DEFINE p == SubSeq(s, 1, n)
    <3>3. p \in Seq(Classes) /\ added = ToSet(p)
      BY <3>2
    <3> HIDE DEF p, added
    <3> QED BY <3>3, ToSetFacts
  <2>5. entered \subseteq Classes
    BY <2>2, <2>4
  <2>6. /\ dict' = [x \in DOMAIN dict \cup names |->
                      IF x \in names THEN CHOOSE c \in entered : NameOf[c] = x ELSE dict[x]]
        /\ recorded' = recorded \cup entered
        /\ metaClasses' = [metaClasses EXCEPT ![loc[t].kext] = @ \cup added]
        /\ FinishLoad(t, all) /\ all \in BOOLEAN
    BY <2>3
  <2>7. \A x \in names : (CHOOSE c \in entered : NameOf[c] = x) \in entered
    OBVIOUS
  <2> HIDE DEF s, all, added, entered
  <2>8. \A x \in DOMAIN dict' : dict'[x] \in Classes
    BY <2>5, <2>6, <2>7 DEF Typed
  <2> HIDE DEF names
  <2>9. pc[t] \in {"construct", "teardown", "register", "terminate"}
    BY <1>26 DEF SecondPass
  <2>10. Locked' /\ pc' \in [Threads -> KextSteps \cup InstanceSteps \cup {"idle"}]
        /\ loc' \in [Threads -> Locals] /\ kextLock' \in Threads \cup {None}
        /\ stalled' = None /\ loaded' = loaded /\ classesLock' = classesLock
    BY <2>6, <2>9, FinishLoadFacts
  <2>11. metaClasses' \in [Kexts -> SUBSET Classes] /\ recorded' \subseteq Classes
    BY <2>1, <2>4, <2>5, <2>6 DEF Typed
  <2>12. Typed'
    BY <1>26, <2>8, <2>10, <2>11 DEF SecondPass, Typed
  <2> QED BY <2>10, <2>12
<1>27. ASSUME NEW up \in BOOLEAN, NEW c \in Classes, NEW obj \in Classes \cup {None},
              NEW after \in {"idle", "release", "delete"},
              CountInstance(t, up, c, obj, after), pc[t] \notin KextSteps,
              live' \in [Classes -> Nat],
              obj \in Classes
       PROVE  Typed' /\ Locked'
  <2>1. count' \in [Classes -> Int]
    BY <1>27 DEF CountInstance, Typed
  <2>2. CASE CountsSuper(up, c)
    <3>1. SuperOf[c] \in Classes
      BY <2>2 DEF CountsSuper
    <3>2. loc' = [loc EXCEPT ![t].obj = obj, ![t].cls = SuperOf[c], ![t].after = after]
      BY <1>27, <2>2 DEF CountInstance
    <3>7. loc' \in [Threads -> Locals]
      BY <1>27, <3>1, <3>2, LocalsFacts DEF Typed
    <3>3. pc' = [pc EXCEPT ![t] = IF up THEN "countUp" ELSE "countDown"]
      BY <1>27, <2>2 DEF CountInstance, Goto
    <3>4. Typed'
      BY <1>27, <2>1, <3>3, <3>7 DEF CountInstance, Typed, registry, locks, kexts, InstanceSteps
    <3>5. loc'[t].obj = obj /\ loc'[t].cls = SuperOf[c] /\ loc'[t].after = after
      BY <3>2 DEF Typed, Locals
    <3>6. pc'[t] \notin KextSteps /\ pc'[t] # "check" /\ \A u \in Threads \ {t} : pc'[u] = pc[u] /\ loc'[u] = loc[u]
      BY <3>2, <3>3 DEF Typed, KextSteps, Loading, Leaving, Gone, InstanceSteps
    <3>8. kextLock' = kextLock /\ classesLock' = classesLock /\ loaded' = loaded
          /\ pc[t] # "check"
      BY <1>27 DEF CountInstance, locks, kexts, KextSteps
    <3>9. Locked'
      BY <1>27, <3>1, <3>5, <3>6, <3>8 DEF Locked
    <3> QED BY <3>4, <3>9
  <2>3. CASE ~CountsSuper(up, c) /\ after = "idle"
    <3>1. loc' = [loc EXCEPT ![t] = NoLocals] /\ pc' = [pc EXCEPT ![t] = "idle"]
      BY <1>27, <2>3 DEF CountInstance, Return, Goto
    <3>4. Typed'
      BY <1>27, <1>d, <2>1, <3>1 DEF CountInstance, Typed, registry, locks, kexts
    <3>5. Locked'
      BY <1>27, <3>1 DEF CountInstance, Typed, Locked, locks, kexts, KextSteps, Loading, Leaving, Gone, InstanceSteps
    <3> QED BY <3>4, <3>5
  <2>4. CASE ~CountsSuper(up, c) /\ after # "idle"
    <3>1. loc' = [loc EXCEPT ![t].obj = obj] /\ pc' = [pc EXCEPT ![t] = after]
      BY <1>27, <2>4 DEF CountInstance, Goto
    <3>2. loc' \in [Threads -> Locals]
      BY <1>27, <3>1, LocalsFacts DEF Typed
    <3>4. Typed'
      BY <1>27, <2>1, <2>4, <3>1, <3>2 DEF CountInstance, Typed, registry, locks, kexts, InstanceSteps
    <3>5. Locked'
      BY <1>27, <2>4, <3>1 DEF CountInstance, Typed, Locked, locks, kexts, Locals, KextSteps, Loading, Leaving, Gone, InstanceSteps
    <3> QED BY <3>4, <3>5
  <2> QED BY <2>2, <2>3, <2>4
<1>28. CASE Alloc(t)
  <2>1. loc[t].obj \in Classes /\ pc[t] \notin KextSteps
    BY <1>28 DEF Alloc, Locked, KextSteps, Loading, Leaving, Gone, InstanceSteps
  <2>2. live' \in [Classes -> Nat]
    BY <1>28, <2>1 DEF Alloc, Typed
  <2> QED BY <1>27, <1>28, <2>1, <2>2 DEF Alloc
<1>29. ASSUME NEW c \in Classes, NewInstance(t, c) PROVE Typed' /\ Locked'
  <2>1. pc[t] \notin KextSteps /\ live' \in [Classes -> Nat]
    BY <1>29 DEF NewInstance, Typed, KextSteps, Loading, Leaving, Gone, InstanceSteps
  <2> QED BY <1>27, <1>29, <2>1 DEF NewInstance
<1>30. ASSUME NEW c \in Classes, Free(t, c) PROVE Typed' /\ Locked'
  <2>1. pc[t] \notin KextSteps /\ live' \in [Classes -> Nat]
    BY <1>30 DEF Free, Typed, KextSteps, Loading, Leaving, Gone, InstanceSteps
  <2> QED BY <1>27, <1>30, <2>1 DEF Free
<1>31. CASE CountSuper(t)
  <2>1. pc[t] \notin KextSteps /\ live' \in [Classes -> Nat]
        /\ loc[t].obj \in Classes /\ loc[t].cls \in Classes /\ loc[t].after \in {"idle", "release", "delete"}
    BY <1>31 DEF CountSuper, Typed, Locked, KextSteps, Loading, Leaving, Gone, InstanceSteps
  <2> DEFINE up == pc[t] = "countUp"
  <2>2. CountInstance(t, up, loc[t].cls, loc[t].obj, loc[t].after) /\ up \in BOOLEAN
    BY <1>31 DEF CountSuper
  <2> HIDE DEF up
  <2> QED BY <1>27, <2>1, <2>2
<1>32. CASE Call(t)
  BY <1>32, <1>1, <1>2, <1>3, <1>29, <1>30 DEF Call
<1>33. CASE Enter(t)
  BY <1>33, <1>4, <1>5, <1>8, <1>11, <1>12, <1>13, <1>26 DEF Enter
<1>34. CASE Inside(t)
  BY <1>34, <1>6, <1>7, <1>9, <1>10, <1>14, <1>15, <1>16, <1>17, <1>18, <1>19, <1>20, <1>21,
     <1>22, <1>23, <1>24, <1>25, <1>28, <1>31 DEF Inside
<1> QED BY <1>a, <1>32, <1>33, <1>34

-----------------------------------------------------------------------------
(* Loads is kept by every step.                                            *)
LEMMA LoadsInit == Init => Loads
<1> SUFFICES ASSUME Init PROVE Loads
  OBVIOUS
<1> QED
  BY DEF Init, Loads, Nested, LoadsAreOwn, ClassesAreKnown, NamesAreSound, HolderLoads, Apart,
         Loading, Leaving, Gone

(* A step of a thread that does not hold sKextLock.                        *)
LEMMA OthersKeepLoads ==
  ASSUME Loads, NEW t \in Threads, pc[t] \notin KextSteps, pc'[t] \notin KextSteps,
         \A u \in Threads \ {t} : pc'[u] = pc[u] /\ loc'[u] = loc[u],
         UNCHANGED <<dict, stalled, kexts, constructed, recorded>>
  PROVE  Loads'
<1>1. UNCHANGED <<dict, stalled, loaded, cppInit, started, running, metaClasses, constructed, recorded>>
  BY DEF kexts
<1>2. \A u \in Threads : \/ u = t /\ pc[u] \notin KextSteps /\ pc'[u] \notin KextSteps
                         \/ pc'[u] = pc[u] /\ loc'[u] = loc[u]
  OBVIOUS
<1>3. Nested' /\ NamesAreSound'
  BY <1>1 DEF Loads, Nested, NamesAreSound
<1>4. LoadsAreOwn'
  BY SMTT(30), <1>1, <1>2 DEF Loads, LoadsAreOwn, HolderLoads, KextSteps, Loading, Leaving, Gone
<1>5. ClassesAreKnown'
  BY <1>1, <1>2 DEF Loads, ClassesAreKnown, Apart, KextSteps, Leaving, Gone
<1> QED BY <1>3, <1>4, <1>5 DEF Loads

(* The holder of sKextLock returns, and took nothing apart.                *)
LEMMA ReturnKeepsLoads ==
  ASSUME Locked, Loads, NEW t \in Threads, pc[t] \in KextSteps, Locked', kextLock' = None,
         Nested', NamesAreSound', UNCHANGED <<cppInit, metaClasses, constructed, recorded>>,
         pc[t] \notin Gone, pc[t] = "finalize" => loc[t].kext \in started
  PROVE  Loads'
<1>1. \A u \in Threads : pc'[u] \notin KextSteps
  BY ConstantFacts DEF Locked
<1>2. LoadsAreOwn'
  BY <1>1 DEF LoadsAreOwn, HolderLoads, KextSteps, Loading, Leaving, Gone
<1>3. \A u \in Threads \ {t} : pc[u] \notin KextSteps
  BY DEF Locked
<1>4. \A u \in Threads : ~Apart(u)
  BY <1>3 DEF Apart, KextSteps, Leaving, Gone
<1>5. ClassesAreKnown'
  BY <1>4 DEF Loads, ClassesAreKnown
<1> QED BY <1>2, <1>5 DEF Loads

(* The holder takes a step and keeps the lock: what is left to show is     *)
(* about the holder.                                                       *)
LEMMA HolderKeepsLoads ==
  ASSUME Locked', NEW t \in Threads, pc'[t] \in KextSteps,
         Nested', HolderLoads(t)', NamesAreSound',
         \A k \in cppInit' : \/ k = loc'[t].kext /\ Apart(t)'
                             \/ Own(k) \subseteq metaClasses'[k] \cap constructed' \cap recorded'
  PROVE  Loads'
<1>1. \A u \in Threads : pc'[u] \in KextSteps => u = t
  BY DEF Locked
<1>2. LoadsAreOwn'
  BY <1>1 DEF LoadsAreOwn, HolderLoads, KextSteps, Loading, Leaving, Gone
<1>3. ClassesAreKnown'
  BY DEF ClassesAreKnown
<1> QED BY <1>2, <1>3 DEF Loads

(* What Loads says of the holder. *)
LEMMA HolderFacts ==
  ASSUME Locked, Loads, NEW t \in Threads, pc[t] \in KextSteps
  PROVE  /\ HolderLoads(t)
         /\ \A k \in cppInit : \/ k = loc[t].kext /\ Apart(t)
                               \/ Own(k) \subseteq metaClasses[k] \cap constructed \cap recorded
<1>1. \A u \in Threads : pc[u] \in KextSteps => u = t
  BY DEF Locked
<1>2. HolderLoads(t)
  BY DEF Loads, LoadsAreOwn
<1>3. \A u \in Threads : Apart(u) => u = t
  BY <1>1 DEF Apart, KextSteps, Leaving, Gone
<1> QED BY <1>2, <1>3 DEF Loads, ClassesAreKnown

LEMMA LoadsStep ==
  ASSUME AddClassSucceeds, Typed, Locked, Loads, Next
  PROVE  Loads'
<1> USE ConstantFacts
<1>a. PICK t \in Threads : Call(t) \/ Enter(t) \/ Inside(t)
  BY DEF Next
<1>b. Typed' /\ Locked'
  BY TypedStep DEF Loads
<1>c. pc[t] \in KextSteps =>
        /\ HolderLoads(t) /\ loc[t].kext \in Kexts /\ loc[t].kext \in loaded
        /\ \A k \in cppInit : \/ k = loc[t].kext /\ Apart(t)
                              \/ Own(k) \subseteq metaClasses[k] \cap constructed \cap recorded
  BY HolderFacts DEF Locked, Typed
<1>d. Nested /\ NamesAreSound /\ loaded \subseteq Kexts
  BY DEF Loads, Typed
<1>e. kextLock = None => \A k \in cppInit : Own(k) \subseteq metaClasses[k] \cap constructed \cap recorded
  BY DEF Loads, ClassesAreKnown, Apart, Locked, KextSteps, Leaving, Gone
<1>1. ASSUME NEW k \in Kexts, Start(t, k) PROVE Loads'
  <2>1. pc'[t] = (IF k \in cppInit THEN "startfunc" ELSE "preInit") /\ loc'[t].kext = k
    BY <1>1 DEF Start, Typed, Goto, Locals
  <2>2. UNCHANGED <<dict, cppInit, started, running, metaClasses, constructed, recorded>>
    BY <1>1 DEF Start, registry, metas
  <2>3. Nested'
    BY <1>1, <1>d, <2>2 DEF Nested, Start
  <2>4. NamesAreSound'
    BY <1>d, <2>2 DEF NamesAreSound
  <2>5. HolderLoads(t)'
    BY <2>1, <2>2 DEF HolderLoads, Loading, Leaving, Gone
  <2>6. kextLock = None /\ pc'[t] \in KextSteps
    BY <1>1, <2>1 DEF Start, KextSteps, Loading
  <2> QED BY <1>b, <1>e, <2>2, <2>3, <2>4, <2>5, <2>6, HolderKeepsLoads
<1>2. ASSUME NEW k \in Kexts, Unload(t, k) PROVE Loads'
  <2>1. pc'[t] = (IF metaClasses[k] = {} THEN "stop" ELSE "removeClasses") /\ loc'[t].kext = k
    BY <1>2 DEF Unload, Typed, Goto, Locals
  <2>2. UNCHANGED <<dict, loaded, cppInit, started, running, metaClasses, constructed, recorded>>
    BY <1>2 DEF Unload, registry, kexts, metas
  <2>3. Nested' /\ NamesAreSound'
    BY <1>d, <2>2 DEF Nested, NamesAreSound
  <2>4. kextLock = None /\ pc'[t] \in KextSteps
    BY <1>2, <2>1 DEF Unload, KextSteps, Leaving
  <2>5. metaClasses[k] = {} => \A n \in DOMAIN dict : dict[n] \notin Own(k)
    BY <1>d, <1>e, <2>4 DEF NamesAreSound, Nested, Typed
  <2>6. HolderLoads(t)'
    BY <2>1, <2>2, <2>5 DEF HolderLoads, Loading, Leaving, Gone
  <2> QED BY <1>b, <1>e, <2>2, <2>3, <2>4, <2>6, HolderKeepsLoads
<1>3. CASE PreModLoad(t)
  <2>1. /\ pc'[t] = (IF pc[t] = "preInit" THEN "construct" ELSE "terminate")
        /\ loc'[t].kext = loc[t].kext /\ loc'[t].list = Structors[loc[t].kext]
    BY <1>3 DEF PreModLoad, Typed, Goto, Locals
  <2>2. UNCHANGED <<dict, loaded, cppInit, started, running, metaClasses, constructed, recorded>>
    BY <1>3 DEF PreModLoad, registry, kexts, metas
  <2>3. Nested' /\ NamesAreSound'
    BY <1>d, <2>2 DEF Nested, NamesAreSound
  <2>4. pc[t] \in {"preInit", "preFinalize"} /\ pc[t] \in KextSteps /\ pc'[t] \in KextSteps
    BY <1>3, <2>1 DEF PreModLoad, KextSteps, Loading, Leaving, Gone
  <2>5. stalled' \in InFlight /\ stalled'.result = "success" /\ stalled'.classes = <<>>
    BY <1>3, EmptySeq DEF PreModLoad, InFlight
  <2>6. ToSet(stalled'.classes) = {}
    BY <2>5, EmptySeq, ToSetFacts
  <2>7. {Structors[loc[t].kext][i].class : i \in DOMAIN Structors[loc[t].kext]} = Own(loc[t].kext)
    BY DEF Own
  <2>8. HolderLoads(t)'
    BY <1>c, <2>1, <2>2, <2>4, <2>5, <2>6, <2>7 DEF HolderLoads, Loading, Leaving, Gone
  <2>9. Apart(t) => Apart(t)'
    BY <2>1, <2>4 DEF Apart, Gone
  <2> QED BY <1>b, <1>c, <2>1, <2>2, <2>3, <2>4, <2>8, <2>9, HolderKeepsLoads
<1>4. CASE PreModLoadFails(t)
  <2>1. UNCHANGED <<dict, loaded, cppInit, started, running, metaClasses, constructed, recorded>>
    BY <1>4 DEF PreModLoadFails, registry, kexts, metas
  <2>2. Nested' /\ NamesAreSound'
    BY <1>d, <2>1 DEF Nested, NamesAreSound
  <2>3. CASE pc[t] = "preInit"
    <3>1. kextLock' = None
      BY <1>4, <2>3 DEF PreModLoadFails, KextReturn
    <3> QED BY <1>b, <2>1, <2>2, <2>3, <3>1, ReturnKeepsLoads DEF KextSteps, Loading, Gone
  <2>4. CASE pc[t] # "preInit"
    <3>1. /\ pc[t] = "preFinalize" /\ pc'[t] = "terminate" /\ stalled' \in {None, Freed}
          /\ loc'[t].kext = loc[t].kext /\ loc'[t].list = Structors[loc[t].kext]
      BY <1>4, <2>4 DEF PreModLoadFails, Typed, Goto, Locals
    <3>2. {Structors[loc[t].kext][i].class : i \in DOMAIN Structors[loc[t].kext]} = Own(loc[t].kext)
      BY DEF Own
    <3>3. pc[t] \in KextSteps /\ pc'[t] \in KextSteps
      BY <3>1 DEF KextSteps, Leaving, Gone
    <3>4. HolderLoads(t)'
      BY <1>c, <2>1, <3>1, <3>2, <3>3 DEF HolderLoads, Loading, Leaving, Gone
    <3>5. Apart(t)'
      BY <3>1 DEF Apart, Gone
    <3> QED BY <1>b, <1>c, <2>1, <2>2, <3>1, <3>3, <3>4, <3>5, HolderKeepsLoads
  <2> QED BY <2>3, <2>4
<1>5. CASE Construct(t)
  <2> DEFINE k == loc[t].kext
             c == Head(loc[t].list).class
             listed == {loc[t].list[i].class : i \in DOMAIN loc[t].list}
             rest == {Tail(loc[t].list)[i].class : i \in DOMAIN Tail(loc[t].list)}
             s == stalled.classes
  <2>0. loc' = [loc EXCEPT ![t].list = Tail(loc[t].list)] /\ loc[t] \in Locals
    BY <1>5 DEF Construct, Typed
  <2>1. /\ pc[t] = "construct" /\ pc[t] \in KextSteps /\ pc' = pc
        /\ loc[t].list \in Seq(Structor) /\ loc[t].list # <<>>
        /\ loc'[t].kext = k /\ loc'[t].list = Tail(loc[t].list)
    BY <1>5, <2>0 DEF Construct, Typed, Locals, KextSteps, Loading
  <2>2. listed = {c} \cup rest /\ c \in Classes
    BY <2>1, StructorFacts
  <2>3. /\ k \notin cppInit /\ listed \subseteq Own(k)
        /\ stalled \in InFlight /\ stalled.result = "success"
        /\ ToSet(s) \subseteq Own(k) \cap constructed /\ Own(k) \subseteq ToSet(s) \cup listed
    BY <1>c, <2>1 DEF HolderLoads, Loading
  <2>4. s \in Seq(Classes)
    BY <2>3 DEF InFlight
  <2>5. Append(s, c) \in Seq(Classes) /\ ToSet(Append(s, c)) = ToSet(s) \cup {c}
    BY <2>2, <2>4, ToSetFacts
  <2>6. /\ stalled' = [stalled EXCEPT !.classes = Append(s, c),
                         !.capacity = @ + (IF StalledIsFull THEN CapacityIncrement ELSE 0)]
        /\ constructed' = constructed \cup {c} /\ recorded' = recorded \ {c}
    BY <1>5 DEF Construct, Constructed
  <2>7. UNCHANGED <<dict, loaded, cppInit, started, running, metaClasses>>
    BY <1>5 DEF Construct, registry, kexts
  <2>8. {loc'[t].list[i].class : i \in DOMAIN loc'[t].list} = rest
    BY <2>1
  <2>9. \A j \in cppInit : c \notin Own(j)
    BY <2>2, <2>3, <1>c, <1>d, <2>1 DEF Nested
  <2>10. stalled'.classes = Append(s, c) /\ stalled'.result = "success"
    BY <2>3, <2>6 DEF InFlight
  <2>14. stalled' \in InFlight
    <3> DEFINE room == stalled.capacity + (IF StalledIsFull THEN CapacityIncrement ELSE 0)
               a == Append(s, c)
    <3>1. room \in Nat
      BY <2>3 DEF InFlight
    <3>2. stalled' = [stalled EXCEPT !.classes = a, !.capacity = room]
      BY <2>6
    <3>3. a \in Seq(Classes)
      BY <2>5
    <3> HIDE DEF room, a
    <3> QED BY <2>3, <3>1, <3>2, <3>3 DEF InFlight
  <2> HIDE DEF k, c, listed, rest, s
  <2>11. HolderLoads(t)'
    BY <2>1, <2>2, <2>3, <2>5, <2>6, <2>7, <2>8, <2>10, <2>14 DEF HolderLoads, Loading, Leaving, Gone
  <2>12. Nested' /\ NamesAreSound'
    BY <1>d, <2>7 DEF Nested, NamesAreSound
  <2>13. \A j \in cppInit' : Own(j) \subseteq metaClasses'[j] \cap constructed' \cap recorded'
    BY <1>c, <2>1, <2>3, <2>6, <2>7, <2>9 DEF Apart, Gone, k
  <2> QED BY <1>b, <2>1, <2>11, <2>12, <2>13, HolderKeepsLoads
<1>6. CASE ConstructFails(t)
  <2> DEFINE k == loc[t].kext
             failed == Head(loc[t].list)
             listed == {loc[t].list[i].class : i \in DOMAIN loc[t].list}
             before == SegmentsBefore(k, failed.segment)
  <2>0. loc' = [loc EXCEPT ![t].list = before] /\ loc[t] \in Locals
    BY <1>6 DEF ConstructFails, Typed
  <2>1. /\ pc[t] = "construct" /\ pc[t] \in KextSteps /\ pc'[t] = "teardown"
        /\ loc[t].list \in Seq(Structor) /\ loc[t].list # <<>>
        /\ loc'[t].kext = k /\ loc'[t].list = before
    <3> HIDE DEF before
    <3> QED BY <1>6, <2>0 DEF ConstructFails, Goto, Typed, Locals, KextSteps, Loading
  <2>2. failed.class \in listed /\ failed.class \in Classes /\ failed.segment \in Nat
    BY <2>1, StructorFacts
  <2>3. k \notin cppInit /\ listed \subseteq Own(k) /\ stalled \in InFlight /\ k \in Kexts
    BY <1>c, <2>1 DEF HolderLoads, Loading
  <2>4. {before[i].class : i \in DOMAIN before} \subseteq Own(k)
    BY SMTT(30), <2>2, <2>3, SegmentsFacts
  <2>5. /\ stalled' = [stalled EXCEPT !.result = "NoTempData"]
        /\ constructed' = constructed \cup {failed.class} /\ recorded' = recorded \ {failed.class}
    BY <1>6 DEF ConstructFails, Constructed
  <2>6. stalled' \in InFlight /\ stalled'.result = "NoTempData"
    BY <2>3, <2>5 DEF InFlight
  <2>7. UNCHANGED <<dict, loaded, cppInit, started, running, metaClasses>>
    BY <1>6 DEF ConstructFails, registry, kexts
  <2>8. {loc'[t].list[i].class : i \in DOMAIN loc'[t].list} \subseteq Own(k)
    BY <2>1, <2>4
  <2>9. \A j \in cppInit : failed.class \notin Own(j)
    BY <2>2, <2>3, <1>d DEF Nested
  <2> HIDE DEF k, failed, listed, before
  <2>10. HolderLoads(t)'
    BY <2>1, <2>3, <2>6, <2>7, <2>8 DEF HolderLoads, Loading, Leaving, Gone
  <2>11. Nested' /\ NamesAreSound'
    BY <1>d, <2>7 DEF Nested, NamesAreSound
  <2>12. \A j \in cppInit' : Own(j) \subseteq metaClasses'[j] \cap constructed' \cap recorded'
    BY <1>c, <2>1, <2>3, <2>5, <2>7, <2>9 DEF Apart, Gone, k
  <2>13. pc'[t] \in KextSteps
    BY <2>1 DEF KextSteps, Loading
  <2> QED BY <1>b, <2>10, <2>11, <2>12, <2>13, HolderKeepsLoads
<1>7. CASE Terminate(t)
  <2> DEFINE k == loc[t].kext
             c == Head(loc[t].list).class
             listed == {loc[t].list[i].class : i \in DOMAIN loc[t].list}
             rest == {Tail(loc[t].list)[i].class : i \in DOMAIN Tail(loc[t].list)}
  <2>0. loc' = [loc EXCEPT ![t].list = Tail(loc[t].list)] /\ loc[t] \in Locals
    BY <1>7 DEF Terminate, Typed
  <2>1. /\ pc[t] \in {"teardown", "terminate"} /\ pc[t] \in KextSteps /\ pc' = pc
        /\ loc[t].list \in Seq(Structor) /\ loc[t].list # <<>>
        /\ loc'[t].kext = k /\ loc'[t].list = Tail(loc[t].list)
    BY <1>7, <2>0 DEF Terminate, Typed, Locals, KextSteps, Loading, Leaving, Gone
  <2>2. listed = {c} \cup rest /\ c \in Classes
    BY <2>1, StructorFacts
  <2>3. k \in Kexts /\ listed \subseteq Own(k)
    BY <1>c, <2>1 DEF HolderLoads
  <2>4. /\ dict' = Without(dict, {NameOf[c]})
        /\ metaClasses' = [metaClasses EXCEPT ![k] = IF c \in recorded THEN @ \ {c} ELSE @]
        /\ constructed' = constructed \ {c} /\ recorded' = recorded \ {c}
        /\ stalled' = IF stalled = None THEN None ELSE [stalled EXCEPT !.classes = Unlisted(@, c)]
        /\ stalled # Freed
        /\ UNCHANGED <<loaded, cppInit, started, running>>
    BY <1>7 DEF Terminate
  <2>5. /\ DOMAIN dict' \subseteq DOMAIN dict
        /\ \A n \in DOMAIN dict' : dict'[n] = dict[n]
    BY <2>4 DEF Without
  <2>6. /\ pc[t] = "teardown" => k \notin cppInit
        /\ pc[t] \in Leaving => \A n \in DOMAIN dict : dict[n] \notin Own(k)
        /\ pc[t] \in Gone => k \notin running
    BY <1>c, <2>1 DEF HolderLoads, Loading
  <2>7. pc[t] = "teardown" => stalled' \in InFlight /\ stalled'.result = "NoTempData"
    <3>1. SUFFICES ASSUME pc[t] = "teardown", stalled # None
                   PROVE  stalled' \in InFlight /\ stalled'.result = "NoTempData"
      BY <1>c, <2>1, <2>4 DEF HolderLoads
    <3>2. stalled \in InFlight /\ stalled.result = "NoTempData"
      BY <1>c, <2>1, <3>1 DEF HolderLoads
    <3> DEFINE l == Unlisted(stalled.classes, c)
    <3>3. l \in Seq(Classes) /\ stalled' = [stalled EXCEPT !.classes = l]
      BY <2>4, <3>1, <3>2, UnlistedFacts DEF InFlight
    <3> HIDE DEF l
    <3> QED BY <3>2, <3>3 DEF InFlight
  <2>8. pc[t] = "terminate" =>
          stalled' \in {None, Freed} \/ (stalled' \in InFlight /\ stalled'.classes = <<>>)
    <3>1. SUFFICES ASSUME pc[t] = "terminate", stalled # None
                   PROVE  stalled' \in InFlight /\ stalled'.classes = <<>>
      BY <2>4
    <3>2. stalled \in InFlight /\ stalled.classes = <<>>
      BY <1>c, <2>1, <2>4, <3>1 DEF HolderLoads
    <3> DEFINE l == Unlisted(stalled.classes, c)
    <3>3. l \in Seq(Classes) /\ l = <<>> /\ stalled' = [stalled EXCEPT !.classes = l]
      BY <2>4, <3>1, <3>2, UnlistedFacts DEF InFlight
    <3> HIDE DEF l
    <3> QED BY <3>2, <3>3 DEF InFlight
  <2>9. {loc'[t].list[i].class : i \in DOMAIN loc'[t].list} = rest
    BY <2>1
  <2>10. \A j \in cppInit : j # k => c \notin Own(j) /\ metaClasses'[j] = metaClasses[j]
    BY <2>2, <2>3, <2>4, <1>d DEF Nested, Typed
  <2> HIDE DEF k, c, listed, rest
  <2>11. HolderLoads(t)'
    BY <2>1, <2>2, <2>3, <2>4, <2>5, <2>6, <2>7, <2>8, <2>9 DEF HolderLoads, Loading, Leaving, Gone
  <2>12. Nested' /\ NamesAreSound'
    BY <1>d, <2>4, <2>5 DEF Nested, NamesAreSound
  <2>13. \A j \in cppInit' : \/ j = loc'[t].kext /\ Apart(t)'
                             \/ Own(j) \subseteq metaClasses'[j] \cap constructed' \cap recorded'
    <3>1. SUFFICES ASSUME NEW j \in cppInit
                   PROVE  \/ j = loc'[t].kext /\ Apart(t)'
                          \/ Own(j) \subseteq metaClasses'[j] \cap constructed' \cap recorded'
      BY <2>4
    <3>2. CASE j = k
      BY <2>1, <2>6, <3>2 DEF Apart, Gone
    <3>3. CASE j # k
      <4>1. Own(j) \subseteq metaClasses[j] \cap constructed \cap recorded
        BY <1>c, <2>1, <3>3 DEF k
      <4> QED BY <2>4, <2>10, <3>3, <4>1
    <3> QED BY <3>2, <3>3
  <2> QED BY <1>b, <2>1, <2>11, <2>12, <2>13, HolderKeepsLoads
<1>8. CASE UseFreedStalled(t)
  <2>1. /\ pc[t] = "terminate" /\ pc'[t] = "crash" /\ loc' = loc
        /\ UNCHANGED <<dict, loaded, cppInit, started, running, metaClasses, constructed, recorded>>
    BY <1>8 DEF UseFreedStalled, Typed, Goto, registry, kexts, metas
  <2>2. pc[t] \in KextSteps /\ pc'[t] \in KextSteps /\ Apart(t)'
    BY <2>1 DEF Apart, KextSteps, Leaving, Gone
  <2>3. HolderLoads(t)'
    BY <1>c, <2>1, <2>2 DEF HolderLoads, Loading, Leaving, Gone
  <2>4. Nested' /\ NamesAreSound'
    BY <1>d, <2>1 DEF Nested, NamesAreSound
  <2> QED BY <1>b, <1>c, <2>1, <2>2, <2>3, <2>4, HolderKeepsLoads
<1>9. ASSUME NEW success \in BOOLEAN, StructorsDone(t), FinishLoad(t, success),
             registry' = registry \/ MakeDictionary,
             UNCHANGED <<metaClasses, constructed, recorded>>,
             pc[t] # "terminate" => loc[t].kext \notin cppInit,
             success /\ pc[t] # "terminate" => Own(loc[t].kext) = {}
      PROVE  Loads'
  <2>1. pc[t] \in {"construct", "teardown", "terminate"} /\ pc[t] \in KextSteps
    BY <1>9 DEF StructorsDone, KextSteps, Loading, Leaving, Gone
  <2>2. /\ pc[t] = "terminate" =>
             /\ pc' = [pc EXCEPT ![t] = "unmap"] /\ loc' = loc
             /\ cppInit' = cppInit \ {loc[t].kext} /\ started' = started \ {loc[t].kext}
        /\ pc[t] # "terminate" /\ success =>
             /\ pc' = [pc EXCEPT ![t] = "startfunc"] /\ loc' = loc
             /\ cppInit' = cppInit \cup {loc[t].kext} /\ started' = started
        /\ pc[t] # "terminate" /\ ~success =>
             kextLock' = None /\ cppInit' = cppInit /\ started' = started
        /\ loaded' = loaded /\ running' = running
    BY <1>9, <2>1, FinishLoadFacts
  <2>3. DOMAIN dict' \subseteq DOMAIN dict /\ \A n \in DOMAIN dict' : dict'[n] = dict[n]
    BY <1>9 DEF registry, MakeDictionary
  <2>4. pc[t] = "terminate" =>
          /\ \A n \in DOMAIN dict : dict[n] \notin Own(loc[t].kext)
          /\ loc[t].kext \notin running
    BY <1>c, <2>1 DEF HolderLoads, Leaving, Gone
  <2>5. Nested'
    BY <1>c, <1>d, <2>1, <2>2, <2>4 DEF Nested
  <2>6. NamesAreSound'
    BY <1>c, <1>d, <2>1, <2>2, <2>3, <2>4 DEF NamesAreSound
  <2>7. CASE pc[t] # "terminate" /\ ~success
    BY <1>b, <1>9, <2>1, <2>2, <2>5, <2>6, <2>7, ReturnKeepsLoads DEF Gone
  <2>8. CASE pc[t] # "terminate" /\ success
    <3>1. pc'[t] = "startfunc" /\ pc'[t] \in KextSteps /\ loc'[t] = loc[t] /\ loc[t].kext \in cppInit'
      BY <2>2, <2>8 DEF Typed, KextSteps
    <3>2. HolderLoads(t)'
      BY <3>1 DEF HolderLoads, Loading, Leaving, Gone
    <3>3. \A j \in cppInit : Own(j) \subseteq metaClasses[j] \cap constructed \cap recorded
      BY <1>c, <1>9, <2>1, <2>8
    <3> QED BY <1>b, <1>9, <2>2, <2>5, <2>6, <2>8, <3>1, <3>2, <3>3, HolderKeepsLoads
  <2>9. CASE pc[t] = "terminate"
    <3>1. pc'[t] = "unmap" /\ pc'[t] \in KextSteps /\ loc'[t] = loc[t] /\ Apart(t)'
      BY <2>2, <2>9 DEF Typed, KextSteps, Leaving, Gone, Apart
    <3>2. HolderLoads(t)'
      BY <2>2, <2>3, <2>4, <2>9, <3>1 DEF HolderLoads, Loading, Leaving, Gone
    <3> QED BY <1>b, <1>c, <1>9, <2>1, <2>2, <2>5, <2>6, <2>9, <3>1, <3>2, HolderKeepsLoads
  <2> QED BY <2>7, <2>8, <2>9
<1>10. CASE PostModLoadOfNothing(t)
  <2>1. /\ StructorsDone(t) /\ FinishLoad(t, CanRegister(t)) /\ CanRegister(t) \in BOOLEAN
        /\ registry' = registry \/ MakeDictionary
        /\ UNCHANGED <<metaClasses, constructed, recorded>>
    BY <1>10 DEF PostModLoadOfNothing, CanRegister, StructorsDone, registry, metas
  <2>2. pc[t] \in {"construct", "teardown", "terminate"} /\ pc[t] \in KextSteps /\ loc[t].list = <<>>
    BY <2>1 DEF StructorsDone, KextSteps, Loading, Leaving, Gone
  <2>3. pc[t] # "terminate" => loc[t].kext \notin cppInit
    BY <1>c, <2>2 DEF HolderLoads, Loading
  <2>4. CanRegister(t) /\ pc[t] # "terminate" => Own(loc[t].kext) = {}
    <3> SUFFICES ASSUME CanRegister(t), pc[t] # "terminate" PROVE Own(loc[t].kext) = {}
      OBVIOUS
    <3>1. pc[t] = "construct"
      BY <1>c, <2>2 DEF HolderLoads, CanRegister
    <3>2. stalled.classes = <<>>
      BY <1>10 DEF PostModLoadOfNothing
    <3>3. ToSet(stalled.classes) = {}
      BY <3>2, EmptySeq, ToSetFacts
    <3>4. {loc[t].list[i].class : i \in DOMAIN loc[t].list} = {}
      BY <2>2
    <3> QED BY <1>c, <2>2, <3>1, <3>3, <3>4 DEF HolderLoads
  <2> DEFINE success == CanRegister(t)
  <2>5. success \in BOOLEAN /\ FinishLoad(t, success) /\ (success /\ pc[t] # "terminate" => Own(loc[t].kext) = {})
    BY <2>1, <2>4
  <2> HIDE DEF success
  <2> QED BY <1>9, <2>1, <2>3, <2>5
<1>11. CASE PostModLoadFails(t)
  <2>1. /\ StructorsDone(t) /\ FinishLoad(t, FALSE) /\ MakeDictionary
        /\ UNCHANGED <<metaClasses, constructed, recorded>>
    BY <1>11 DEF PostModLoadFails, CanRegister, metas
  <2>2. pc[t] \in {"construct", "teardown", "terminate"} /\ pc[t] \in KextSteps
    BY <2>1 DEF StructorsDone, KextSteps, Loading, Leaving, Gone
  <2>3. pc[t] # "terminate" => loc[t].kext \notin cppInit
    BY <1>c, <2>2 DEF HolderLoads, Loading
  <2> QED BY <1>9, <2>1, <2>3
<1>12. CASE FirstPass(t)
  <2>1. /\ pc[t] \in {"construct", "teardown", "terminate"} /\ pc[t] \in KextSteps
        /\ loc[t].list = <<>> /\ stalled # Freed /\ stalled # None
        /\ stalled.result = "success" /\ stalled.classes # <<>>
        /\ pc'[t] = "register" /\ loc' = loc /\ MakeDictionary
        /\ UNCHANGED <<stalled, loaded, cppInit, started, running, metaClasses, constructed, recorded>>
    BY <1>12 DEF FirstPass, CanRegister, StructorsDone, Typed, Goto, kexts, metas, KextSteps, Loading, Leaving, Gone
  <2>2. pc[t] = "construct"
    BY <1>c, <2>1 DEF HolderLoads
  <2>3. {loc[t].list[i].class : i \in DOMAIN loc[t].list} = {}
    BY <2>1
  <2>4. HolderLoads(t)'
    BY <1>c, <2>1, <2>2, <2>3 DEF HolderLoads, Loading, Leaving, Gone
  <2>5. DOMAIN dict' \subseteq DOMAIN dict /\ \A n \in DOMAIN dict' : dict'[n] = dict[n]
    BY <2>1 DEF registry, MakeDictionary
  <2>6. Nested' /\ NamesAreSound'
    BY <1>d, <2>1, <2>5 DEF Nested, NamesAreSound
  <2>7. ~Apart(t) /\ pc'[t] \in KextSteps
    BY <2>1, <2>2 DEF Apart, KextSteps, Loading, Gone
  <2> QED BY <1>b, <1>c, <2>1, <2>4, <2>6, <2>7, HolderKeepsLoads
<1>13. CASE SecondPass(t)
  <2> DEFINE k == loc[t].kext
             s == stalled.classes
  <2>1. /\ pc[t] = "register" /\ pc[t] \in KextSteps /\ k \notin cppInit
        /\ stalled \in InFlight /\ ToSet(s) = Own(k) /\ Own(k) \subseteq constructed
    BY <1>13, <1>c DEF SecondPass, HolderLoads, KextSteps, Loading
  <2>2. s \in Seq(Classes) /\ Len(s) \in Nat
    BY <2>1, LenProperties DEF InFlight
  <2>3. SubSeq(s, 1, Len(s)) = s
    BY <2>2, SubSeqFull
  <2> DEFINE names == {NameOf[c] : c \in Own(k)}
  <2>4. /\ dict' = [x \in DOMAIN dict \cup names |->
                     IF x \in names THEN CHOOSE c \in Own(k) : NameOf[c] = x ELSE dict[x]]
        /\ recorded' = recorded \cup Own(k)
        /\ metaClasses' = [metaClasses EXCEPT ![k] = @ \cup Own(k)]
        /\ FinishLoad(t, TRUE)
    <3>1. PICK n \in 0 .. Len(s) :
            LET all == n = Len(s)
                added == ToSet(SubSeq(s, 1, n))
                entered == IF all THEN added ELSE added \cup {s[n + 1]}
                new == {NameOf[c] : c \in entered}
            IN  /\ all \/ "addClass" \in May
                /\ dict' = [x \in DOMAIN dict \cup new |->
                              IF x \in new THEN CHOOSE c \in entered : NameOf[c] = x ELSE dict[x]]
                /\ recorded' = recorded \cup entered
                /\ metaClasses' = [metaClasses EXCEPT ![loc[t].kext] = @ \cup added]
                /\ FinishLoad(t, all)
      BY <1>13 DEF SecondPass
    <3>2. n = Len(s)
      BY <3>1 DEF AddClassSucceeds
    <3>3. ToSet(SubSeq(s, 1, n)) = Own(k)
      BY <2>1, <2>3, <3>2
    <3> DEFINE all == n = Len(s)
               added == ToSet(SubSeq(s, 1, n))
               entered == IF all THEN added ELSE added \cup {s[n + 1]}
               Entered(e) == [x \in DOMAIN dict \cup {NameOf[c] : c \in e} |->
                               IF x \in {NameOf[c] : c \in e}
                               THEN CHOOSE c \in e : NameOf[c] = x ELSE dict[x]]
    <3>4. added = Own(k) /\ entered = Own(k) /\ all = TRUE
      BY <3>2, <3>3
    <3>5. /\ dict' = Entered(entered)
          /\ recorded' = recorded \cup entered
          /\ metaClasses' = [metaClasses EXCEPT ![k] = @ \cup added]
          /\ FinishLoad(t, all)
      BY <3>1
    <3> HIDE DEF all, added, entered, Entered
    <3>6. dict' = Entered(Own(k)) /\ FinishLoad(t, TRUE)
      BY <3>4, <3>5, Zenon
    <3> QED BY <3>4, <3>5, <3>6 DEF Entered
  <2>5. /\ pc' = [pc EXCEPT ![t] = "startfunc"] /\ loc' = loc
        /\ cppInit' = cppInit \cup {k} /\ started' = started
        /\ loaded' = loaded /\ running' = running /\ constructed' = constructed
    BY <1>13, <2>1, <2>4, FinishLoadFacts DEF SecondPass
  <2>6. \A x \in names : LET c == CHOOSE c \in Own(k) : NameOf[c] = x IN c \in Own(k) /\ NameOf[c] = x
    OBVIOUS
  <2>7. \A x \in DOMAIN dict' : \/ x \in names /\ dict'[x] \in Own(k) /\ NameOf[dict'[x]] = x
                                \/ x \in DOMAIN dict /\ dict'[x] = dict[x]
    BY <2>4, <2>6
  <2> HIDE DEF names, s
  <2>8. NamesAreSound'
    BY <1>d, <2>5, <2>7 DEF NamesAreSound
  <2>9. Nested'
    BY <1>c, <1>d, <2>1, <2>5 DEF Nested
  <2>10. pc'[t] = "startfunc" /\ pc'[t] \in KextSteps /\ loc'[t].kext = k /\ k \in cppInit'
    BY <2>5 DEF Typed, KextSteps
  <2>11. HolderLoads(t)'
    BY <2>10 DEF HolderLoads, Loading, Leaving, Gone
  <2>12. \A j \in cppInit' : Own(j) \subseteq metaClasses'[j] \cap constructed' \cap recorded'
    <3>1. \A j \in cppInit : j # k /\ metaClasses'[j] = metaClasses[j]
      BY <1>d, <2>1, <2>4 DEF Nested, Typed
    <3>2. \A j \in cppInit : Own(j) \subseteq metaClasses[j] \cap constructed \cap recorded
      BY <1>c, <2>1, <3>1
    <3>3. Own(k) \subseteq metaClasses'[k] \cap constructed' \cap recorded'
      BY <1>c, <2>1, <2>4, <2>5 DEF Typed
    <3> QED BY <2>4, <2>5, <3>1, <3>2, <3>3
  <2> QED BY <1>b, <2>8, <2>9, <2>10, <2>11, <2>12, HolderKeepsLoads
<1>14. CASE EnterRemoveClasses(t)
  <2>1. /\ pc[t] = "removeClasses" /\ pc'[t] = "check" /\ loc' = loc
        /\ UNCHANGED <<dict, loaded, cppInit, started, running, metaClasses, constructed, recorded>>
    BY <1>14 DEF EnterRemoveClasses, Typed, Goto, registry, kexts, metas
  <2>2. pc[t] \in KextSteps /\ pc'[t] \in KextSteps /\ ~Apart(t)
    BY <2>1 DEF Apart, KextSteps, Gone
  <2>3. HolderLoads(t)'
    BY <2>1 DEF HolderLoads, Loading, Leaving, Gone
  <2>4. Nested' /\ NamesAreSound'
    BY <1>d, <2>1 DEF Nested, NamesAreSound
  <2> QED BY <1>b, <1>c, <2>1, <2>2, <2>3, <2>4, HolderKeepsLoads
<1>15. CASE StartFunc(t)
  <2>1. /\ pc[t] = "startfunc" /\ pc[t] \in KextSteps /\ pc[t] \notin Gone /\ kextLock' = None
        /\ UNCHANGED <<dict, loaded, cppInit, metaClasses, constructed, recorded>>
        /\ \/ started' = started \cup {loc[t].kext} /\ running' = running \cup {loc[t].kext}
           \/ UNCHANGED <<started, running>>
    BY <1>15 DEF StartFunc, KextReturn, registry, metas, KextSteps, Gone
  <2>2. loc[t].kext \in cppInit
    BY <1>c, <2>1 DEF HolderLoads
  <2>3. Nested' /\ NamesAreSound'
    BY <1>d, <2>1, <2>2 DEF Nested, NamesAreSound
  <2> QED BY <1>b, <2>1, <2>3, ReturnKeepsLoads
<1>16. CASE ClassUnused(t)
  <2>0. /\ pc[t] = "check" /\ pc' = pc
        /\ UNCHANGED <<dict, loaded, cppInit, started, running, metaClasses, constructed, recorded>>
        /\ \E s : loc' = [loc EXCEPT ![t].todo = s]
    BY <1>16 DEF ClassUnused, registry, kexts, metas
  <2>1. loc'[t].kext = loc[t].kext
    BY <2>0 DEF Typed, Locals
  <2>2. pc[t] \in KextSteps /\ pc'[t] \in KextSteps /\ ~Apart(t)
    BY <2>0 DEF Apart, KextSteps, Gone
  <2>3. HolderLoads(t)'
    BY <2>0 DEF HolderLoads, Loading, Leaving, Gone
  <2>4. Nested' /\ NamesAreSound'
    BY <1>d, <2>0 DEF Nested, NamesAreSound
  <2> QED BY <1>b, <1>c, <2>0, <2>2, <2>3, <2>4, HolderKeepsLoads
<1>17. CASE ClassInUse(t)
  <2>1. /\ pc[t] \in {"check"} /\ kextLock' = None
        /\ UNCHANGED <<dict, loaded, cppInit, started, running, metaClasses, constructed, recorded>>
    BY <1>17 DEF ClassInUse, KextReturn, registry, kexts, metas
  <2>2. Nested' /\ NamesAreSound'
    BY <1>d, <2>1 DEF Nested, NamesAreSound
  <2>3. pc[t] \in KextSteps /\ pc[t] \notin Gone
    BY <2>1 DEF KextSteps, Leaving, Gone
  <2> QED BY <1>b, <2>1, <2>2, <2>3, ReturnKeepsLoads
<1>18. CASE StopFuncFails(t)
  <2>1. /\ pc[t] \in {"stop"} /\ kextLock' = None
        /\ UNCHANGED <<dict, loaded, cppInit, started, running, metaClasses, constructed, recorded>>
    BY <1>18 DEF StopFuncFails, KextReturn, registry, kexts, metas
  <2>2. Nested' /\ NamesAreSound'
    BY <1>d, <2>1 DEF Nested, NamesAreSound
  <2>3. pc[t] \in KextSteps /\ pc[t] \notin Gone
    BY <2>1 DEF KextSteps, Leaving, Gone
  <2> QED BY <1>b, <2>1, <2>2, <2>3, ReturnKeepsLoads
<1>19. CASE FinalizeRefused(t)
  <2>1. /\ pc[t] \in {"finalize"} /\ kextLock' = None
        /\ UNCHANGED <<dict, loaded, cppInit, started, running, metaClasses, constructed, recorded>>
    BY <1>19 DEF FinalizeRefused, KextReturn, registry, kexts, metas
  <2>2. Nested' /\ NamesAreSound'
    BY <1>d, <2>1 DEF Nested, NamesAreSound
  <2>3. pc[t] \in KextSteps /\ pc[t] \notin Gone
    BY <2>1 DEF KextSteps, Leaving, Gone
  <2>4. loc[t].kext \in started
    BY <1>19, <1>c, <2>1, <2>3 DEF FinalizeRefused, HasInstances, HolderLoads
  <2> QED BY <1>b, <2>1, <2>2, <2>3, <2>4, ReturnKeepsLoads
<1>20. CASE RemoveClasses(t)
  <2>1. /\ pc[t] = "check" /\ pc'[t] = "stop" /\ loc' = loc
        /\ dict' = Without(dict, {NameOf[c] : c \in metaClasses[loc[t].kext]})
        /\ UNCHANGED <<loaded, cppInit, started, running, metaClasses, constructed, recorded>>
    BY <1>20 DEF RemoveClasses, Typed, Goto, kexts, metas
  <2>2. pc[t] \in KextSteps /\ pc'[t] \in KextSteps /\ ~Apart(t)
    BY <2>1 DEF Apart, KextSteps, Leaving, Gone
  <2>3. /\ DOMAIN dict' = DOMAIN dict \ {NameOf[c] : c \in metaClasses[loc[t].kext]}
        /\ \A n \in DOMAIN dict' : dict'[n] = dict[n]
    BY <2>1 DEF Without
  <2>4. Nested' /\ NamesAreSound'
    BY <1>d, <2>1, <2>3 DEF Nested, NamesAreSound
  <2>5. \A n \in DOMAIN dict' : dict'[n] \notin Own(loc[t].kext)
    <3> SUFFICES ASSUME NEW n \in DOMAIN dict', dict[n] \in Own(loc[t].kext) PROVE FALSE
      BY <2>3
    <3>1. PICK k \in cppInit : dict[n] \in Own(k) /\ NameOf[dict[n]] = n
      BY <1>d, <2>3 DEF NamesAreSound
    <3>2. k = loc[t].kext
      BY <1>c, <1>d, <2>2, <3>1 DEF Nested
    <3>3. dict[n] \in metaClasses[loc[t].kext]
      BY <1>c, <2>2, <3>1, <3>2
    <3> QED BY <2>3, <3>1, <3>3
  <2>6. HolderLoads(t)'
    BY <2>1, <2>5 DEF HolderLoads, Loading, Leaving, Gone
  <2> QED BY <1>b, <1>c, <2>1, <2>2, <2>4, <2>6, HolderKeepsLoads
<1>21. CASE StopFunc(t)
  <2>1. /\ pc[t] = "stop" /\ pc'[t] = "finalize" /\ loc' = loc /\ loc[t].kext \in started
        /\ running' = running \ {loc[t].kext}
        /\ UNCHANGED <<dict, loaded, cppInit, started, metaClasses, constructed, recorded>>
    BY <1>21 DEF StopFunc, Typed, Goto, registry, metas
  <2>2. pc[t] \in KextSteps /\ pc'[t] \in KextSteps /\ ~Apart(t)
    BY <2>1 DEF Apart, KextSteps, Leaving, Gone
  <2>3. HolderLoads(t)'
    BY <1>c, <2>1, <2>2 DEF HolderLoads, Loading, Leaving, Gone
  <2>4. Nested' /\ NamesAreSound'
    BY <1>d, <2>1 DEF Nested, NamesAreSound
  <2> QED BY <1>b, <1>c, <2>1, <2>2, <2>3, <2>4, HolderKeepsLoads
<1>22. CASE FlushClasses(t)
  <2>1. /\ pc[t] = "stop" /\ pc'[t] = "finalize" /\ loc' = loc /\ loc[t].kext \notin started
        /\ metaClasses' = [metaClasses EXCEPT ![loc[t].kext] = {}]
        /\ UNCHANGED <<dict, loaded, cppInit, started, running, constructed, recorded>>
    BY <1>22 DEF FlushClasses, Typed, Goto, registry, metas
  <2>2. pc[t] \in KextSteps /\ pc'[t] \in KextSteps /\ ~Apart(t) /\ Apart(t)'
    BY <2>1 DEF Apart, KextSteps, Leaving, Gone
  <2>3. metaClasses'[loc[t].kext] = {} /\ \A k \in Kexts : k # loc[t].kext => metaClasses'[k] = metaClasses[k]
    BY <1>c, <2>1, <2>2 DEF Typed
  <2>4. HolderLoads(t)'
    BY <1>c, <1>d, <2>1, <2>2, <2>3 DEF HolderLoads, Nested, Loading, Leaving, Gone
  <2>5. Nested' /\ NamesAreSound'
    BY <1>d, <2>1 DEF Nested, NamesAreSound
  <2>6. \A k \in cppInit' : \/ k = loc'[t].kext /\ Apart(t)'
                            \/ Own(k) \subseteq metaClasses'[k] \cap constructed' \cap recorded'
    BY <1>c, <1>d, <2>1, <2>2, <2>3 DEF Nested
  <2> QED BY <1>b, <2>2, <2>4, <2>5, <2>6, HolderKeepsLoads
<1>23. CASE Finalize(t)
  <2>1. /\ pc[t] = "finalize" /\ loc' = loc
        /\ pc'[t] = IF loc[t].kext \in cppInit THEN "preFinalize" ELSE "unmap"
        /\ UNCHANGED <<dict, loaded, cppInit, started, running, metaClasses, constructed, recorded>>
    BY <1>23 DEF Finalize, Typed, Goto, registry, kexts, metas
  <2>2. pc[t] \in KextSteps /\ pc'[t] \in KextSteps /\ Apart(t)'
    BY <2>1 DEF Apart, KextSteps, Leaving, Gone
  <2>3. HolderLoads(t)'
    BY <1>c, <2>1, <2>2 DEF HolderLoads, Loading, Leaving, Gone
  <2>4. Nested' /\ NamesAreSound'
    BY <1>d, <2>1 DEF Nested, NamesAreSound
  <2> QED BY <1>b, <1>c, <2>1, <2>2, <2>3, <2>4, HolderKeepsLoads
<1>24. CASE Unmap(t)
  <2> DEFINE k == loc[t].kext
  <2>1. /\ pc[t] = "unmap" /\ pc[t] \in KextSteps /\ kextLock' = None
        /\ metaClasses' = [metaClasses EXCEPT ![k] = {}]
        /\ loaded' = loaded \ {k}
        /\ constructed' = constructed \ Own(k) /\ recorded' = recorded \ Own(k)
        /\ UNCHANGED <<dict, cppInit, started, running>>
    BY <1>24 DEF Unmap, KextReturn, registry, KextSteps, Leaving, Gone
  <2>2. k \notin cppInit /\ k \in Kexts
    BY <1>c, <2>1 DEF HolderLoads
  <2>3. \A u \in Threads : pc'[u] \notin KextSteps
    BY <1>b, <2>1 DEF Locked
  <2>4. LoadsAreOwn'
    BY <2>3 DEF LoadsAreOwn, HolderLoads, KextSteps, Loading, Leaving, Gone
  <2>5. Nested' /\ NamesAreSound'
    BY <1>d, <2>1, <2>2 DEF Nested, NamesAreSound
  <2>6. ClassesAreKnown'
    <3> SUFFICES ASSUME NEW j \in cppInit
                 PROVE  Own(j) \subseteq metaClasses'[j] \cap constructed' \cap recorded'
      BY <2>1 DEF ClassesAreKnown
    <3>1. j # k /\ j \in Kexts /\ metaClasses'[j] = metaClasses[j]
      BY <1>d, <2>1, <2>2 DEF Nested, Typed
    <3>2. Own(j) \subseteq metaClasses[j] \cap constructed \cap recorded
      BY <1>c, <2>1, <3>1
    <3>3. \A c \in Own(j) : c \notin Own(k)
      BY <2>2, <3>1
    <3> QED BY <2>1, <3>1, <3>2, <3>3
  <2> QED BY <2>4, <2>5, <2>6 DEF Loads
<1>25. ASSUME pc[t] \notin KextSteps, pc'[t] \notin KextSteps,
              \A u \in Threads \ {t} : pc'[u] = pc[u] /\ loc'[u] = loc[u],
              UNCHANGED <<dict, stalled, kexts, constructed, recorded>>
       PROVE  Loads'
  BY <1>25, OthersKeepLoads
<1>26. ASSUME NEW n, CopyMetaClassWithName(t, n) PROVE Loads'
  BY <1>25, <1>26 DEF CopyMetaClassWithName, Typed, Goto, registry, kexts, KextSteps, Loading, Leaving, Gone
<1>27. ASSUME NEW up \in BOOLEAN, NEW c, NEW obj, NEW after \in {"idle", "release", "delete"},
              CountInstance(t, up, c, obj, after), pc[t] \notin KextSteps
       PROVE  Loads'
  <2>1. /\ pc'[t] \notin KextSteps
        /\ \A u \in Threads \ {t} : pc'[u] = pc[u] /\ loc'[u] = loc[u]
    BY <1>27 DEF CountInstance, Typed, Return, Goto, KextSteps, Loading, Leaving, Gone
  <2>2. UNCHANGED <<dict, stalled, kexts, constructed, recorded>>
    BY <1>27 DEF CountInstance, registry
  <2> QED BY <1>25, <1>27, <2>1, <2>2
<1>28. CASE Alloc(t)
  BY <1>27, <1>28 DEF Alloc, KextSteps, Loading, Leaving, Gone
<1>29. ASSUME NEW c, NewInstance(t, c) PROVE Loads'
  BY <1>27, <1>29 DEF NewInstance, KextSteps, Loading, Leaving, Gone
<1>30. ASSUME NEW c, Free(t, c) PROVE Loads'
  BY <1>27, <1>30 DEF Free, KextSteps, Loading, Leaving, Gone
<1>31. CASE CountSuper(t)
  <2> DEFINE up == pc[t] = "countUp"
  <2>1. CountInstance(t, up, loc[t].cls, loc[t].obj, loc[t].after) /\ up \in BOOLEAN
        /\ pc[t] \in {"countUp", "countDown"}
    BY <1>31 DEF CountSuper
  <2>2. pc[t] \notin KextSteps /\ loc[t].after \in {"idle", "release", "delete"}
    BY <2>1 DEF Locked, KextSteps, Loading, Leaving, Gone
  <2> HIDE DEF up
  <2> QED BY <1>27, <2>1, <2>2
<1>32. CASE Delete(t)
  BY <1>25, <1>32 DEF Delete, Typed, Return, Goto, registry, metas, KextSteps, Loading, Leaving, Gone
<1>33. CASE ReleaseMetaClass(t)
  BY <1>25, <1>33 DEF ReleaseMetaClass, Typed, Return, Goto, registry, KextSteps, Loading, Leaving, Gone
<1>34. CASE Call(t)
  BY <1>34, <1>1, <1>2, <1>26, <1>29, <1>30 DEF Call
<1>35. CASE Enter(t)
  BY <1>35, <1>3, <1>4, <1>7, <1>11, <1>12, <1>13, <1>14 DEF Enter
<1>36. CASE Inside(t)
  BY <1>36, <1>5, <1>6, <1>8, <1>10, <1>15, <1>16, <1>17, <1>18, <1>19, <1>20, <1>21,
     <1>22, <1>23, <1>24, <1>28, <1>31, <1>32, <1>33 DEF Inside
<1> QED BY <1>a, <1>34, <1>35, <1>36

-----------------------------------------------------------------------------
(* Instances is kept by every step.                                        *)
LEMMA InstancesInit == Init => Instances
<1> SUFFICES ASSUME Init PROVE Instances
  OBVIOUS
<1>1. \A c \in Classes : Users(c) = {}
  BY DEF Init, Users, Uses
<1>2. RetainIsExact
  BY <1>1, FS_EmptySet DEF Init, RetainIsExact
<1> QED
  BY <1>2 DEF Init, Instances, CountIsLive, InUseIsInitialized, HolderUnused, Leaving, Gone

LEMMA RetainFacts ==
  ASSUME Typed, Instances, NEW c \in Classes
  PROVE  retain[c] \in Nat /\ (\A t \in Threads : Uses(t, c) => retain[c] > 0)
<1>1. IsFiniteSet(Users(c)) /\ retain[c] = Cardinality(Users(c))
  BY DEF Instances, RetainIsExact
<1>2. Cardinality(Users(c)) \in Nat
  BY <1>1, FS_CardinalityType
<1>3. Cardinality(Users(c)) = 0 => Users(c) = {}
  BY <1>1, FS_EmptySet
<1> QED BY <1>1, <1>2, <1>3 DEF Users

(* A class of a kext that is not initialized is not in use.                *)
LEMMA Unloaded ==
  ASSUME Typed, Nested, Instances, NEW k \in Kexts, k \notin cppInit, NEW c \in Own(k)
  PROVE  c \in Classes /\ live[c] = 0 /\ retain[c] = 0 /\ count[c] = 0
<1>1. c \in Classes \ Kernel /\ live[c] \in Nat
  BY ConstantFacts DEF Kernel, Typed
<1>2. \A j \in cppInit : c \notin Own(j)
  BY <1>1, ConstantFacts DEF Nested, Typed
<1>3. live[c] = 0 /\ retain[c] = 0
  BY <1>1, <1>2, RetainFacts DEF Instances, InUseIsInitialized
<1> QED BY <1>1, <1>3 DEF Instances, CountIsLive

(* A step of a load or an unload, which changes no count.                  *)
LEMMA KextKeepsInstances ==
  ASSUME Typed, Locked, Instances, NEW t \in Threads,
         pc[t] \in KextSteps \/ (pc[t] = "idle" /\ kextLock = None),
         pc'[t] \in KextSteps \cup {"idle"},
         \A u \in Threads \ {t} : pc'[u] = pc[u] /\ loc'[u] = loc[u],
         UNCHANGED <<count, retain, live>>, InUseIsInitialized',
         pc'[t] \in KextSteps => HolderUnused(t)'
  PROVE  Instances'
<1>1. \A u \in Threads, c \in Classes : Uses(u, c)' <=> Uses(u, c)
  BY DEF Uses, KextSteps, Loading, Leaving, Gone
<1>2. \A c \in Classes : Users(c)' = Users(c)
  BY <1>1 DEF Users
<1>3. RetainIsExact'
  BY <1>2 DEF Instances, RetainIsExact
<1>4. CountIsLive'
  BY DEF Instances, CountIsLive, KextSteps, Loading, Leaving, Gone
<1>5. \A u \in Threads : HolderUnused(u)'
  <2> SUFFICES ASSUME NEW u \in Threads PROVE HolderUnused(u)'
    OBVIOUS
  <2>1. CASE pc'[u] \in KextSteps /\ u = t
    BY <2>1
  <2>2. CASE pc'[u] \in KextSteps /\ u # t
    <3>1. pc[u] \in KextSteps
      BY <2>2
    <3>2. kextLock = u
      BY <3>1 DEF Locked
    <3> QED BY <2>2, <3>2, ConstantFacts DEF Locked
  <2>3. CASE pc'[u] \notin KextSteps
    BY <2>3 DEF HolderUnused, KextSteps, Leaving, Gone
  <2> QED BY <2>1, <2>2, <2>3
<1> QED BY <1>3, <1>4, <1>5 DEF Instances

LEMMA InstancesStep ==
  ASSUME AddClassSucceeds, SupersAreKernel, Typed, Locked, Loads, Instances, Next
  PROVE  Instances'
<1> USE ConstantFacts
<1>a. PICK t \in Threads : Call(t) \/ Enter(t) \/ Inside(t)
  BY DEF Next
<1>b. Typed' /\ Locked' /\ Loads'
  BY TypedStep, LoadsStep DEF Loads
<1>c. pc[t] \in KextSteps => HolderLoads(t) /\ loc[t].kext \in Kexts /\ loc[t].kext \in loaded
  BY HolderFacts DEF Locked, Typed
<1>d. HolderUnused(t) /\ Nested
  BY DEF Instances, Loads
<1>e. \A k \in Kexts : k \notin cppInit =>
        \A c \in Own(k) : c \in Classes /\ live[c] = 0 /\ retain[c] = 0 /\ count[c] = 0
  BY Unloaded DEF Loads
<1>f. ASSUME pc[t] \in KextSteps \/ (pc[t] = "idle" /\ kextLock = None),
             pc'[t] \in KextSteps \cup {"idle"},
             \A u \in Threads \ {t} : pc'[u] = pc[u] /\ loc'[u] = loc[u],
             UNCHANGED <<count, retain, live>>, cppInit \subseteq cppInit',
             pc'[t] \in KextSteps => HolderUnused(t)'
      PROVE  Instances'
  <2>1. InUseIsInitialized'
    BY <1>f DEF Instances, InUseIsInitialized
  <2> QED BY <1>b, <1>f, <2>1, KextKeepsInstances
<1>1. ASSUME NEW k \in Kexts, Start(t, k) PROVE Instances'
  <2>1. /\ pc[t] = "idle" /\ kextLock = None /\ pc'[t] \in {"startfunc", "preInit"}
        /\ \A u \in Threads \ {t} : pc'[u] = pc[u] /\ loc'[u] = loc[u]
        /\ UNCHANGED <<count, retain, live, cppInit>>
    BY <1>1 DEF Start, Typed, Goto, metas
  <2>2. pc'[t] \in KextSteps /\ HolderUnused(t)'
    BY <2>1 DEF HolderUnused, KextSteps, Loading, Leaving, Gone
  <2> QED BY <1>f, <2>1, <2>2
<1>2. ASSUME NEW k \in Kexts, Unload(t, k) PROVE Instances'
  <2>1. /\ pc[t] = "idle" /\ kextLock = None
        /\ pc'[t] = (IF metaClasses[k] = {} THEN "stop" ELSE "removeClasses")
        /\ loc'[t].kext = k /\ loc'[t].todo = metaClasses[k]
        /\ \A u \in Threads \ {t} : pc'[u] = pc[u] /\ loc'[u] = loc[u]
        /\ UNCHANGED <<count, retain, live, cppInit, started, metaClasses>>
    BY <1>2 DEF Unload, Typed, Goto, Locals, kexts, metas
  <2>2. k \in cppInit => Own(k) \subseteq metaClasses[k]
    BY <2>1 DEF Loads, ClassesAreKnown, Apart, Locked, KextSteps, Leaving, Gone
  <2>3. pc'[t] = "stop" => \A c \in Own(k) : live[c] = 0 /\ retain[c] = 0
    BY <1>e, <2>1, <2>2
  <2>4. pc'[t] \in KextSteps /\ HolderUnused(t)'
    BY <2>1, <2>3 DEF HolderUnused, KextSteps, Leaving, Gone
  <2> QED BY <1>f, <2>1, <2>4
<1>3. CASE PreModLoad(t)
  <2>1. /\ pc[t] \in {"preInit", "preFinalize"} /\ pc'[t] \in {"construct", "terminate"}
        /\ pc'[t] = "terminate" => pc[t] = "preFinalize"
        /\ loc'[t].kext = loc[t].kext
        /\ \A u \in Threads \ {t} : pc'[u] = pc[u] /\ loc'[u] = loc[u]
        /\ UNCHANGED <<count, retain, live, cppInit, started, metaClasses>>
    BY <1>3 DEF PreModLoad, Typed, Goto, Locals, kexts, metas
  <2>2. pc[t] \in KextSteps /\ pc'[t] \in KextSteps /\ HolderUnused(t)'
    BY <1>d, <2>1 DEF HolderUnused, KextSteps, Loading, Leaving, Gone
  <2> QED BY <1>f, <2>1, <2>2
<1>4. CASE PreModLoadFails(t)
  <2>1. /\ pc[t] \in {"preInit", "preFinalize"} /\ pc'[t] \in {"idle", "terminate"}
        /\ pc'[t] = "terminate" => pc[t] = "preFinalize" /\ loc'[t].kext = loc[t].kext
        /\ \A u \in Threads \ {t} : pc'[u] = pc[u] /\ loc'[u] = loc[u]
        /\ UNCHANGED <<count, retain, live, cppInit, started, metaClasses>>
    BY <1>4 DEF PreModLoadFails, KextReturn, Return, Typed, Goto, Locals, kexts, metas
  <2>2. /\ pc[t] \in KextSteps /\ pc'[t] \in KextSteps \cup {"idle"}
        /\ pc'[t] \in KextSteps => HolderUnused(t)'
    BY <1>d, <2>1 DEF HolderUnused, KextSteps, Loading, Leaving, Gone
  <2> QED BY <1>f, <2>1, <2>2
<1>5. ASSUME NEW c \in Own(loc[t].kext), Constructed(c), pc[t] = "construct",
             \A u \in Threads \ {t} : pc'[u] = pc[u] /\ loc'[u] = loc[u],
             pc'[t] \in {"construct", "teardown"}, UNCHANGED <<live, cppInit>>
      PROVE  Instances'
  <2>1. pc[t] \in KextSteps /\ pc'[t] \in KextSteps /\ HolderUnused(t)'
    BY <1>5 DEF HolderUnused, KextSteps, Loading, Leaving, Gone
  <2>2. loc[t].kext \in Kexts /\ loc[t].kext \notin cppInit
    BY <1>c, <1>5, <2>1 DEF HolderLoads, Loading
  <2>3. c \in Classes /\ retain[c] = 0 /\ count[c] = 0
    BY <1>e, <2>2
  <2>4. UNCHANGED <<count, retain>>
    BY <1>5, <2>3 DEF Constructed, Typed
  <2> QED BY <1>f, <1>5, <2>1, <2>4
<1>6. ASSUME pc[t] = "construct", loc[t].list # <<>> PROVE Head(loc[t].list).class \in Own(loc[t].kext)
  <2>1. loc[t].list \in Seq(Structor)
    BY LocalsFacts DEF Typed
  <2>2. {loc[t].list[i].class : i \in DOMAIN loc[t].list} \subseteq Own(loc[t].kext)
    BY <1>c, <1>6 DEF HolderLoads, KextSteps, Loading
  <2> QED BY <1>6, <2>1, <2>2, StructorFacts
<1>7. CASE Construct(t)
  BY <1>5, <1>6, <1>7 DEF Construct, Typed, kexts
<1>8. CASE ConstructFails(t)
  BY <1>5, <1>6, <1>8 DEF ConstructFails, Goto, Typed, kexts
<1>9. CASE Terminate(t)
  <2>1. /\ pc[t] \in {"teardown", "terminate"} /\ pc' = pc /\ loc'[t].kext = loc[t].kext
        /\ \A u \in Threads \ {t} : pc'[u] = pc[u] /\ loc'[u] = loc[u]
        /\ UNCHANGED <<count, retain, live, cppInit, started>>
    BY <1>9 DEF Terminate, Typed, Locals
  <2>2. pc[t] \in KextSteps /\ pc'[t] \in KextSteps /\ HolderUnused(t)'
    BY <1>d, <2>1 DEF HolderUnused, KextSteps, Loading, Leaving, Gone
  <2> QED BY <1>f, <2>1, <2>2
<1>10. CASE UseFreedStalled(t)
  <2>1. /\ pc[t] = "terminate" /\ pc'[t] = "crash" /\ loc' = loc
        /\ \A u \in Threads \ {t} : pc'[u] = pc[u]
        /\ UNCHANGED <<count, retain, live, cppInit, started>>
    BY <1>10 DEF UseFreedStalled, Goto, Typed, kexts, metas
  <2>2. pc[t] \in KextSteps /\ pc'[t] \in KextSteps /\ HolderUnused(t)'
    BY <1>d, <2>1 DEF HolderUnused, KextSteps, Loading, Leaving, Gone
  <2> QED BY <1>f, <2>1, <2>2
<1>11. ASSUME NEW success \in BOOLEAN, FinishLoad(t, success),
              pc[t] \in {"construct", "teardown", "register", "terminate"},
              UNCHANGED <<count, retain, live>>
       PROVE  Instances'
  <2>1. /\ pc[t] = "terminate" =>
             /\ pc' = [pc EXCEPT ![t] = "unmap"] /\ loc' = loc
             /\ cppInit' = cppInit \ {loc[t].kext}
        /\ pc[t] # "terminate" /\ success =>
             /\ pc' = [pc EXCEPT ![t] = "startfunc"] /\ loc' = loc
             /\ cppInit' = cppInit \cup {loc[t].kext}
        /\ pc[t] # "terminate" /\ ~success =>
             /\ pc' = [pc EXCEPT ![t] = "idle"] /\ loc' = [loc EXCEPT ![t] = NoLocals]
             /\ cppInit' = cppInit
    BY <1>11, FinishLoadFacts
  <2>2. pc[t] \in KextSteps /\ pc'[t] \in KextSteps \cup {"idle"}
        /\ \A u \in Threads \ {t} : pc'[u] = pc[u] /\ loc'[u] = loc[u]
    BY <1>11, <2>1 DEF Typed, KextSteps, Loading, Leaving, Gone
  <2>3. CASE pc[t] # "terminate"
    <3>1. pc'[t] \in KextSteps => HolderUnused(t)'
      BY <2>1, <2>3 DEF Typed, HolderUnused, KextSteps, Loading, Leaving, Gone
    <3>2. cppInit \subseteq cppInit'
      BY <2>1, <2>3
    <3> QED BY <1>f, <1>11, <2>2, <3>1, <3>2
  <2>4. CASE pc[t] = "terminate"
    <3>1. \A c \in Own(loc[t].kext) : retain[c] = 0 /\ live[c] = 0
      BY <1>d, <2>4 DEF HolderUnused, Leaving, Gone
    <3>2. InUseIsInitialized'
      BY <1>11, <2>1, <2>4, <3>1 DEF Instances, InUseIsInitialized
    <3>3. HolderUnused(t)'
      BY <1>11, <2>1, <2>4, <3>1 DEF Typed, HolderUnused, Leaving, Gone
    <3> QED BY <1>b, <1>11, <2>2, <3>2, <3>3, KextKeepsInstances
  <2> QED BY <2>3, <2>4
<1>12. CASE PostModLoadOfNothing(t)
  <2> DEFINE success == CanRegister(t)
  <2>1. success \in BOOLEAN /\ FinishLoad(t, success) /\ UNCHANGED <<count, retain, live>>
        /\ pc[t] \in {"construct", "teardown", "register", "terminate"}
    BY <1>12 DEF PostModLoadOfNothing, CanRegister, StructorsDone, metas
  <2> HIDE DEF success
  <2> QED BY <1>11, <2>1
<1>13. CASE PostModLoadFails(t)
  BY <1>11, <1>13 DEF PostModLoadFails, CanRegister, StructorsDone, metas
<1>14. CASE SecondPass(t)
  <2>1. \E success \in BOOLEAN : FinishLoad(t, success)
    BY <1>14 DEF SecondPass
  <2> QED BY <1>11, <1>14, <2>1 DEF SecondPass
<1>15. CASE FirstPass(t)
  <2>1. /\ pc[t] \in {"construct", "teardown", "terminate"} /\ pc'[t] = "register" /\ loc' = loc
        /\ \A u \in Threads \ {t} : pc'[u] = pc[u]
        /\ UNCHANGED <<count, retain, live, cppInit>>
    BY <1>15 DEF FirstPass, CanRegister, StructorsDone, Goto, Typed, kexts, metas
  <2>2. pc[t] \in KextSteps /\ pc'[t] \in KextSteps /\ HolderUnused(t)'
    BY <2>1 DEF HolderUnused, KextSteps, Loading, Leaving, Gone
  <2> QED BY <1>f, <2>1, <2>2
<1>16. CASE EnterRemoveClasses(t)
  <2>1. /\ pc[t] = "removeClasses" /\ pc'[t] = "check" /\ loc' = loc
        /\ \A u \in Threads \ {t} : pc'[u] = pc[u]
        /\ UNCHANGED <<count, retain, live, cppInit, metaClasses>>
    BY <1>16 DEF EnterRemoveClasses, Goto, Typed, kexts, metas
  <2>2. pc[t] \in KextSteps /\ pc'[t] \in KextSteps /\ HolderUnused(t)'
    BY <1>d, <2>1 DEF HolderUnused, KextSteps, Leaving, Gone
  <2> QED BY <1>f, <2>1, <2>2
<1>17. CASE ClassUnused(t)
  <2>1. PICK c \in loc[t].todo :
          /\ count[c] = 0 /\ retain[c] = 0 /\ pc[t] = "check" /\ pc' = pc
          /\ loc' = [loc EXCEPT ![t].todo = loc[t].todo \ {c}]
          /\ UNCHANGED <<count, retain, live, cppInit, running, metaClasses>>
    BY <1>17 DEF ClassUnused, InUse, kexts, metas
  <2>2. /\ loc'[t].kext = loc[t].kext /\ loc'[t].todo = loc[t].todo \ {c}
        /\ \A u \in Threads \ {t} : loc'[u] = loc[u]
    BY <2>1 DEF Typed, Locals
  <2>3. pc[t] \in KextSteps /\ loc[t].kext \in Kexts
    BY <1>c, <2>1 DEF KextSteps
  <2>4. c \in Own(loc[t].kext) => live[c] = 0
    BY <2>1, <2>3 DEF Instances, CountIsLive, Kernel
  <2>5. HolderUnused(t)'
    BY <1>d, <2>1, <2>2, <2>4 DEF HolderUnused, Leaving, Gone
  <2> QED BY <1>f, <2>1, <2>2, <2>3, <2>5
<1>18. CASE ClassInUse(t)
  <2>1. /\ pc[t] = "check" /\ pc[t] \in KextSteps /\ pc'[t] = "idle" /\ "idle" \notin KextSteps
        /\ \A u \in Threads \ {t} : pc'[u] = pc[u] /\ loc'[u] = loc[u]
        /\ UNCHANGED <<count, retain, live, cppInit>>
    BY <1>18 DEF ClassInUse, KextReturn, Return, Goto, Typed, kexts, metas, KextSteps, Loading, Leaving, Gone
  <2> QED BY <1>f, <2>1
<1>19. CASE StopFuncFails(t)
  <2>1. /\ pc[t] = "stop" /\ pc[t] \in KextSteps /\ pc'[t] = "idle" /\ "idle" \notin KextSteps
        /\ \A u \in Threads \ {t} : pc'[u] = pc[u] /\ loc'[u] = loc[u]
        /\ UNCHANGED <<count, retain, live, cppInit>>
    BY <1>19 DEF StopFuncFails, KextReturn, Return, Goto, Typed, kexts, metas, KextSteps, Loading, Leaving, Gone
  <2> QED BY <1>f, <2>1
<1>20. CASE FinalizeRefused(t)
  <2>1. /\ pc[t] = "finalize" /\ pc[t] \in KextSteps /\ pc'[t] = "idle" /\ "idle" \notin KextSteps
        /\ \A u \in Threads \ {t} : pc'[u] = pc[u] /\ loc'[u] = loc[u]
        /\ UNCHANGED <<count, retain, live, cppInit>>
    BY <1>20 DEF FinalizeRefused, KextReturn, Return, Goto, Typed, kexts, metas, KextSteps, Loading, Leaving, Gone
  <2> QED BY <1>f, <2>1
<1>21. CASE StartFunc(t)
  <2>1. /\ pc[t] = "startfunc" /\ pc[t] \in KextSteps /\ pc'[t] = "idle" /\ "idle" \notin KextSteps
        /\ \A u \in Threads \ {t} : pc'[u] = pc[u] /\ loc'[u] = loc[u]
        /\ UNCHANGED <<count, retain, live, cppInit>>
    BY <1>21 DEF StartFunc, KextReturn, Return, Goto, Typed, kexts, metas, KextSteps, Loading, Leaving, Gone
  <2> QED BY <1>f, <2>1
<1>22. CASE Unmap(t)
  <2>1. /\ pc[t] = "unmap" /\ pc[t] \in KextSteps /\ pc'[t] = "idle" /\ "idle" \notin KextSteps
        /\ \A u \in Threads \ {t} : pc'[u] = pc[u] /\ loc'[u] = loc[u]
        /\ UNCHANGED <<count, retain, live, cppInit>>
    BY <1>22 DEF Unmap, KextReturn, Return, Goto, Typed, kexts, metas, KextSteps, Loading, Leaving, Gone
  <2> QED BY <1>f, <2>1
<1>23. CASE RemoveClasses(t)
  <2>1. /\ pc[t] = "check" /\ loc[t].todo = {} /\ pc'[t] = "stop" /\ loc' = loc
        /\ \A u \in Threads \ {t} : pc'[u] = pc[u]
        /\ UNCHANGED <<count, retain, live, cppInit, started, running, metaClasses>>
    BY <1>23 DEF RemoveClasses, Goto, Typed, kexts, metas
  <2>2. pc[t] \in KextSteps /\ pc'[t] \in KextSteps /\ loc[t].kext \in Kexts
    BY <1>c, <2>1 DEF KextSteps, Leaving
  <2>3. loc[t].kext \in cppInit => Own(loc[t].kext) \subseteq metaClasses[loc[t].kext]
    BY <2>1, <2>2, HolderFacts DEF Apart, Gone
  <2>4. \A c \in Own(loc[t].kext) :
          retain[c] = 0 /\ (loc[t].kext \notin started => live[c] = 0)
    BY <1>d, <1>e, <2>1, <2>2, <2>3 DEF HolderUnused, Nested
  <2>5. HolderUnused(t)'
    BY <2>1, <2>4 DEF HolderUnused, Leaving, Gone
  <2> QED BY <1>f, <2>1, <2>2, <2>5
<1>24. CASE StopFunc(t)
  <2>1. /\ pc[t] = "stop" /\ loc[t].kext \in started /\ pc'[t] = "finalize" /\ loc' = loc
        /\ \A u \in Threads \ {t} : pc'[u] = pc[u]
        /\ UNCHANGED <<count, retain, live, cppInit, started>>
    BY <1>24 DEF StopFunc, Goto, Typed, metas
  <2>2. pc[t] \in KextSteps /\ pc'[t] \in KextSteps /\ HolderUnused(t)'
    BY <1>d, <2>1 DEF HolderUnused, KextSteps, Leaving, Gone
  <2> QED BY <1>f, <2>1, <2>2
<1>25. CASE FlushClasses(t)
  <2>1. /\ pc[t] = "stop" /\ loc[t].kext \notin started /\ pc'[t] = "finalize" /\ loc' = loc
        /\ \A u \in Threads \ {t} : pc'[u] = pc[u]
        /\ UNCHANGED <<count, retain, live, cppInit, started>>
    BY <1>25 DEF FlushClasses, Goto, Typed, metas
  <2>2. pc[t] \in KextSteps /\ pc'[t] \in KextSteps /\ HolderUnused(t)'
    BY <1>d, <2>1 DEF HolderUnused, KextSteps, Leaving, Gone
  <2> QED BY <1>f, <2>1, <2>2
<1>26. CASE Finalize(t)
  <2>1. /\ pc[t] = "finalize" /\ loc' = loc
        /\ pc'[t] = (IF loc[t].kext \in cppInit THEN "preFinalize" ELSE "unmap")
        /\ loc[t].kext \in cppInit => \A c \in metaClasses[loc[t].kext] : count[c] = 0
        /\ \A u \in Threads \ {t} : pc'[u] = pc[u]
        /\ UNCHANGED <<count, retain, live, cppInit, started>>
    BY <1>26 DEF Finalize, HasInstances, Goto, Typed, kexts, metas
  <2>2. pc[t] \in KextSteps /\ pc'[t] \in KextSteps /\ loc[t].kext \in Kexts
    BY <1>c, <2>1 DEF KextSteps, Leaving, Gone
  <2>3. \A c \in Own(loc[t].kext) : live[c] = 0
    <3>1. CASE loc[t].kext \notin cppInit
      BY <1>e, <2>2, <3>1
    <3>2. CASE loc[t].kext \notin started
      BY <1>d, <2>1, <3>2 DEF HolderUnused
    <3>3. CASE loc[t].kext \in started /\ loc[t].kext \in cppInit
      <4>1. Own(loc[t].kext) \subseteq metaClasses[loc[t].kext]
        BY <2>1, <2>2, <3>3, HolderFacts DEF Apart, Gone
      <4>2. Own(loc[t].kext) \subseteq Classes \ Kernel
        BY <2>2 DEF Kernel
      <4> QED BY <2>1, <3>3, <4>1, <4>2 DEF Instances, CountIsLive
    <3> QED BY <3>1, <3>2, <3>3
  <2>4. \A c \in Own(loc[t].kext) : retain[c] = 0
    BY <1>d, <2>1 DEF HolderUnused, Leaving
  <2>5. HolderUnused(t)'
    BY <2>1, <2>3, <2>4 DEF HolderUnused, Leaving, Gone
  <2> QED BY <1>f, <2>1, <2>2, <2>5
<1>g. ASSUME pc[t] \notin KextSteps, pc'[t] \notin KextSteps,
             \A u \in Threads \ {t} : pc'[u] = pc[u] /\ loc'[u] = loc[u],
             NEW c \in Classes, \A u \in Threads \ {t} : pc[u] \in Leaving => c \notin Own(loc[u].kext),
             \A u \in Threads : pc[u] # "check",
             retain' = [retain EXCEPT ![c] = @ + 1],
             UNCHANGED <<live, metaClasses, running, started>>
      PROVE  \A u \in Threads : HolderUnused(u)'
  <2> SUFFICES ASSUME NEW u \in Threads PROVE HolderUnused(u)'
    OBVIOUS
  <2>1. CASE u = t
    BY <1>g, <2>1 DEF HolderUnused, KextSteps, Leaving, Gone
  <2>2. CASE u # t
    <3>1. HolderUnused(u) /\ (pc[u] \in KextSteps => Own(loc[u].kext) \subseteq Classes)
      BY DEF Instances, Locked, Typed
    <3>2. \A d \in Classes : d # c => retain'[d] = retain[d]
      BY <1>g DEF Typed
    <3> QED BY <1>g, <2>2, <3>1, <3>2 DEF HolderUnused, KextSteps, Leaving, Gone
  <2> QED BY <2>1, <2>2
<1>27. ASSUME NEW n \in Names, CopyMetaClassWithName(t, n) PROVE Instances'
  <2> DEFINE c == dict[n]
  <2>1. /\ pc[t] = "idle" /\ classesLock = None /\ n \in DOMAIN dict /\ c \in Classes
        /\ retain' = [retain EXCEPT ![c] = @ + 1]
        /\ pc' = [pc EXCEPT ![t] = "alloc"] /\ loc' = [loc EXCEPT ![t].obj = c]
        /\ UNCHANGED <<count, live, cppInit, metaClasses, running, started>>
    BY <1>27 DEF CopyMetaClassWithName, Goto, kexts, Typed
  <2>2. PICK k \in cppInit : c \in Own(k)
    BY <2>1 DEF Loads, NamesAreSound
  <2>3. \A u \in Threads \ {t} : pc[u] \in Leaving => c \notin Own(loc[u].kext)
    BY <2>1 DEF Loads, LoadsAreOwn, HolderLoads
  <2>4. \A u \in Threads : pc[u] # "check"
    BY <2>1 DEF Locked
  <2> HIDE DEF c
  <2>5. /\ pc'[t] = "alloc" /\ loc'[t].obj = c /\ loc'[t].cls = loc[t].cls
        /\ \A u \in Threads \ {t} : pc'[u] = pc[u] /\ loc'[u] = loc[u]
    BY <2>1 DEF Typed, Locals
  <2>6. \A u \in Threads : HolderUnused(u)'
    <3>1. pc[t] \notin KextSteps /\ pc'[t] \notin KextSteps
      BY <2>1, <2>5 DEF KextSteps, Loading, Leaving, Gone
    <3> QED BY <1>g, <2>1, <2>3, <2>4, <2>5, <3>1
  <2>7. CountIsLive'
    BY <2>1, <2>5 DEF Instances, CountIsLive
  <2>8. InUseIsInitialized'
    BY <2>1, <2>2 DEF Instances, InUseIsInitialized, Typed
  <2>9. \A d \in Classes : Users(d)' = IF d = c THEN Users(d) \cup {t} ELSE Users(d)
    BY <2>1, <2>5 DEF Users, Uses
  <2>10. \A d \in Classes : t \notin Users(d)
    BY <2>1 DEF Users, Uses
  <2>11. RetainIsExact'
    <3> SUFFICES ASSUME NEW d \in Classes
                 PROVE  IsFiniteSet(Users(d)') /\ retain'[d] = Cardinality(Users(d)')
      BY DEF RetainIsExact
    <3>1. IsFiniteSet(Users(d)) /\ retain[d] = Cardinality(Users(d))
      BY DEF Instances, RetainIsExact
    <3>2. IsFiniteSet(Users(d) \cup {t}) /\ Cardinality(Users(d) \cup {t}) = Cardinality(Users(d)) + 1
      BY <2>10, <3>1, FS_AddElement
    <3>3. CASE d = c
      <4>1. Users(d)' = Users(d) \cup {t} /\ retain'[d] = retain[d] + 1
        BY <2>1, <2>9, <3>3 DEF Typed
      <4> QED BY <3>1, <3>2, <4>1
    <3>4. CASE d # c
      <4>1. Users(d)' = Users(d) /\ retain'[d] = retain[d]
        BY <2>1, <2>9, <3>4 DEF Typed
      <4> QED BY <3>1, <4>1
    <3> QED BY <3>3, <3>4
  <2> QED BY <2>6, <2>7, <2>8, <2>11 DEF Instances
<1>28. CASE ReleaseMetaClass(t)
  <2> DEFINE c == loc[t].obj
  <2>1. /\ pc[t] = "release" /\ c \in Classes
        /\ retain' = [retain EXCEPT ![c] = @ - 1]
        /\ pc'[t] = "idle" /\ \A u \in Threads \ {t} : pc'[u] = pc[u] /\ loc'[u] = loc[u]
        /\ UNCHANGED <<count, live, cppInit, metaClasses, running, started>>
    BY <1>28 DEF ReleaseMetaClass, Return, Goto, kexts, Typed, Locked
  <2>2. \A d \in Classes : Uses(t, d) <=> d = c
    BY <2>1 DEF Uses
  <2>3. retain[c] > 0 /\ retain[c] \in Nat
    BY <2>1, <2>2, RetainFacts
  <2>4. \A d \in Classes : retain'[d] = IF d = c THEN retain[d] - 1 ELSE retain[d]
    BY <2>1 DEF Typed
  <2> HIDE DEF c
  <2>5. \A u \in Threads : HolderUnused(u)'
    <3> SUFFICES ASSUME NEW u \in Threads PROVE HolderUnused(u)'
      OBVIOUS
    <3>1. CASE u = t
      BY <2>1, <3>1 DEF HolderUnused, Leaving, Gone
    <3>2. CASE u # t
      <4>1. /\ HolderUnused(u) /\ (pc[u] \in KextSteps => loc[u].kext \in Kexts)
            /\ (pc[u] = "check" => metaClasses[loc[u].kext] \subseteq Classes)
        BY DEF Instances, Locked, Typed, KextSteps
      <4> QED BY <2>1, <2>3, <2>4, <3>2, <4>1 DEF HolderUnused, KextSteps, Leaving, Gone
    <3> QED BY <3>1, <3>2
  <2>6. CountIsLive'
    BY <2>1 DEF Instances, CountIsLive
  <2>7. InUseIsInitialized'
    BY <2>1, <2>3, <2>4 DEF Instances, InUseIsInitialized
  <2>8. \A d \in Classes : Users(d)' = IF d = c THEN Users(d) \ {t} ELSE Users(d)
    BY <2>1, <2>2 DEF Users, Uses
  <2>9. t \in Users(c)
    BY <2>1, <2>2 DEF Users
  <2>10. RetainIsExact'
    <3> SUFFICES ASSUME NEW d \in Classes
                 PROVE  IsFiniteSet(Users(d)') /\ retain'[d] = Cardinality(Users(d)')
      BY DEF RetainIsExact
    <3>1. IsFiniteSet(Users(d)) /\ retain[d] = Cardinality(Users(d))
      BY DEF Instances, RetainIsExact
    <3>2. CASE d = c
      <4>1. IsFiniteSet(Users(d) \ {t}) /\ Cardinality(Users(d) \ {t}) = Cardinality(Users(d)) - 1
        BY <2>9, <3>1, <3>2, FS_RemoveElement
      <4>2. Users(d)' = Users(d) \ {t} /\ retain'[d] = retain[d] - 1
        BY <2>4, <2>8, <3>2
      <4> QED BY <3>1, <4>1, <4>2
    <3>3. CASE d # c
      BY <2>4, <2>8, <3>1, <3>3
    <3> QED BY <3>2, <3>3
  <2> QED BY <2>5, <2>6, <2>7, <2>10 DEF Instances
<1>29. ASSUME NEW up \in BOOLEAN, NEW c \in Classes, NEW obj \in Classes,
              NEW after \in {"idle", "release", "delete"},
              CountInstance(t, up, c, obj, after), pc[t] \notin KextSteps,
              up \/ after # "release",
              \A d \in Classes : Uses(t, d) <=> after = "release" /\ d = obj,
              \A d \in Classes \ Kernel : count'[d] = live'[d],
              live' \in [Classes -> Nat],
              \A d \in Classes : \/ live'[d] <= live[d] \/ retain[d] > 0
                                 \/ \E k \in running : d \in Own(k)
       PROVE  Instances'
  <2>1. /\ pc'[t] \in {"idle", after, IF up THEN "countUp" ELSE "countDown"}
        /\ pc'[t] \in {"countUp", "countDown"} =>
             /\ pc'[t] = (IF up THEN "countUp" ELSE "countDown")
             /\ loc'[t].cls = SuperOf[c] /\ SuperOf[c] # None /\ loc'[t].after = after
        /\ pc'[t] \in {"countUp", "countDown", after} /\ pc'[t] # "idle" => loc'[t].obj = obj
        /\ pc'[t] = "idle" => after = "idle"
        /\ \A u \in Threads \ {t} : pc'[u] = pc[u] /\ loc'[u] = loc[u]
    BY SMTT(30), <1>29 DEF CountInstance, CountsSuper, Typed, Locals, Return, Goto
  <2>2. UNCHANGED <<retain, cppInit, metaClasses, running, started>>
    BY <1>29 DEF CountInstance, kexts
  <2>3. \A d \in Classes : Uses(t, d)' <=> after = "release" /\ d = obj
    BY <1>29, <2>1 DEF Uses
  <2>4. \A u \in Threads, d \in Classes : Uses(u, d)' <=> Uses(u, d)
    BY <1>29, <2>1, <2>3 DEF Uses
  <2>5. \A d \in Classes : Users(d)' = Users(d)
    BY <2>4 DEF Users
  <2>6. RetainIsExact'
    BY <2>2, <2>5 DEF Instances, RetainIsExact
  <2>7. CountIsLive'
    <3>1. SuperOf[c] # None => SuperOf[c] \in Kernel
      BY DEF SupersAreKernel
    <3> QED BY <1>29, <2>1, <3>1 DEF Instances, CountIsLive
  <2>8. InUseIsInitialized'
    <3>1. running \subseteq cppInit
      BY <1>d DEF Nested
    <3> SUFFICES ASSUME NEW d \in Classes, live'[d] > 0 \/ retain[d] > 0
                 PROVE  \E k \in cppInit : d \in Own(k)
      BY <2>2 DEF InUseIsInitialized
    <3>2. \/ live'[d] <= live[d] \/ retain[d] > 0
          \/ \E k \in running : d \in Own(k)
      BY <1>29
    <3>3. live[d] \in Nat /\ live'[d] \in Nat
      BY <1>29 DEF Typed
    <3>4. live[d] > 0 \/ retain[d] > 0 \/ \E k \in running : d \in Own(k)
      BY <3>2, <3>3
    <3> QED BY <3>1, <3>4 DEF Instances, InUseIsInitialized
  <2>9. \A u \in Threads : HolderUnused(u)'
    <3> SUFFICES ASSUME NEW u \in Threads PROVE HolderUnused(u)'
      OBVIOUS
    <3>1. CASE u = t
      BY <1>29, <2>1, <3>1 DEF HolderUnused, Leaving, Gone
    <3>2. CASE u # t
      <4>1. HolderUnused(u) /\ HolderLoads(u) /\ (pc[u] \in KextSteps => loc[u].kext \in Kexts)
        BY DEF Instances, Loads, LoadsAreOwn, Locked, Typed
      <4>2. CASE pc[u] \in KextSteps
        <5> DEFINE k == loc[u].kext
        <5>1. \A d \in Own(k) : d \in Classes /\ live[d] \in Nat /\ live'[d] \in Nat
          BY <1>29, <4>1, <4>2 DEF Typed
        <5>2. \A d \in Own(k) : live[d] = 0 /\ retain[d] = 0 /\ k \notin running => live'[d] = 0
          <6> SUFFICES ASSUME NEW d \in Own(k), live[d] = 0, retain[d] = 0, k \notin running
                       PROVE  live'[d] = 0
            OBVIOUS
          <6>1. \A j \in running : d \notin Own(j)
            BY <1>d, <4>1, <4>2, <5>1 DEF Nested, Typed
          <6> QED BY <1>29, <5>1, <6>1
        <5>3. pc[u] \in Leaving /\ (pc[u] \in Gone \/ k \notin started) => k \notin running
          BY <1>d, <4>1 DEF HolderLoads, Nested
        <5>4. pc'[u] = pc[u] /\ loc'[u] = loc[u]
          BY <2>1, <3>2
        <5> QED BY <2>2, <4>1, <5>2, <5>3, <5>4 DEF HolderUnused, Leaving, Gone
      <4>3. CASE pc[u] \notin KextSteps
        BY <2>1, <3>2, <4>3 DEF HolderUnused, KextSteps, Leaving, Gone
      <4> QED BY <4>2, <4>3
    <3> QED BY <3>1, <3>2
  <2> QED BY <2>6, <2>7, <2>8, <2>9 DEF Instances
<1>30. ASSUME NEW c \in Classes \ Kernel, NewInstance(t, c) PROVE Instances'
  <2>1. /\ CountInstance(t, TRUE, c, c, "idle") /\ pc[t] = "idle" /\ KextOf(c) \in running
        /\ live' = [live EXCEPT ![c] = @ + 1] /\ count' = [count EXCEPT ![c] = @ + 1]
    BY <1>30 DEF NewInstance, CountInstance
  <2>2. live' \in [Classes -> Nat] /\ \A d \in Classes \ Kernel : count'[d] = live'[d]
    BY <2>1 DEF Typed, Instances, CountIsLive
  <2>3. c \in Own(KextOf(c))
    BY DEF Kernel, KextOf
  <2>4. \A d \in Classes : live'[d] <= live[d] \/ \E k \in running : d \in Own(k)
    BY <2>1, <2>3 DEF Typed
  <2>5. pc[t] \notin KextSteps /\ \A d \in Classes : ~Uses(t, d)
    BY <2>1 DEF Uses, KextSteps, Loading, Leaving, Gone
  <2> QED BY <1>29, <2>1, <2>2, <2>4, <2>5
<1>31. ASSUME NEW c \in Classes \ Kernel, Free(t, c) PROVE Instances'
  <2>1. /\ CountInstance(t, FALSE, c, c, "delete") /\ pc[t] = "idle" /\ live[c] > 0
        /\ live' = [live EXCEPT ![c] = @ - 1] /\ count' = [count EXCEPT ![c] = @ - 1]
    BY <1>31 DEF Free, CountInstance
  <2>2. live' \in [Classes -> Nat] /\ \A d \in Classes \ Kernel : count'[d] = live'[d]
    BY <2>1 DEF Typed, Instances, CountIsLive
  <2>3. \A d \in Classes : live'[d] <= live[d]
    BY <2>1 DEF Typed
  <2>4. pc[t] \notin KextSteps /\ \A d \in Classes : ~Uses(t, d)
    BY <2>1 DEF Uses, KextSteps, Loading, Leaving, Gone
  <2> QED BY <1>29, <2>1, <2>2, <2>3, <2>4
<1>32. CASE Alloc(t)
  <2> DEFINE c == loc[t].obj
  <2>1. /\ CountInstance(t, TRUE, c, c, "release") /\ pc[t] = "alloc" /\ c \in Classes
        /\ live' = [live EXCEPT ![c] = @ + 1] /\ count' = [count EXCEPT ![c] = @ + 1]
    BY <1>32 DEF Alloc, CountInstance, Locked
  <2>2. \A d \in Classes : Uses(t, d) <=> d = c
    BY <2>1 DEF Uses
  <2>3. retain[c] > 0
    BY <2>1, <2>2, RetainFacts
  <2>4. c \notin Kernel
    BY <2>1, <2>3, <1>d DEF Instances, InUseIsInitialized, Kernel, Nested, Typed
  <2> HIDE DEF c
  <2>5. live' \in [Classes -> Nat] /\ \A d \in Classes \ Kernel : count'[d] = live'[d]
    BY <2>1, <2>4 DEF Typed, Instances, CountIsLive
  <2>6. \A d \in Classes : live'[d] <= live[d] \/ retain[d] > 0
    BY <2>1, <2>3 DEF Typed
  <2>7. pc[t] \notin KextSteps
    BY <2>1 DEF KextSteps, Loading, Leaving, Gone
  <2>8. PICK v \in BOOLEAN, x \in Classes, a \in {"idle", "release", "delete"} :
          v = TRUE /\ x = c /\ a = "release"
    BY <2>1
  <2>9. /\ CountInstance(t, v, x, x, a) /\ (v \/ a # "release")
        /\ \A d \in Classes : Uses(t, d) <=> a = "release" /\ d = x
    BY <2>1, <2>2, <2>8
  <2> QED BY <1>29, <2>5, <2>6, <2>7, <2>9
<1>33. CASE CountSuper(t)
  <2> DEFINE up == pc[t] = "countUp"
             c == loc[t].cls
             obj == loc[t].obj
             after == loc[t].after
  <2>1. /\ CountInstance(t, up, c, obj, after) /\ up \in BOOLEAN
        /\ pc[t] \in {"countUp", "countDown"} /\ live' = live
        /\ count' = [count EXCEPT ![c] = IF up THEN @ + 1 ELSE @ - 1]
    BY <1>33 DEF CountSuper, CountInstance
  <2>2. /\ c \in Kernel /\ c \in Classes /\ obj \in Classes /\ after \in {"idle", "release", "delete"}
        /\ pc[t] = "countDown" => after # "release"
    BY <2>1 DEF Locked, Instances, CountIsLive
  <2>3. pc[t] \notin KextSteps
    BY <2>1 DEF KextSteps, Loading, Leaving, Gone
  <2>4. \A d \in Classes : Uses(t, d) <=> after = "release" /\ d = obj
    BY <2>1, <2>2 DEF Uses
  <2>5. up \/ after # "release"
    BY <2>1, <2>2
  <2>6. live' \in [Classes -> Nat] /\ (\A d \in Classes \ Kernel : count'[d] = live'[d])
        /\ \A d \in Classes : live'[d] <= live[d]
    BY <2>1, <2>2 DEF Typed, Instances, CountIsLive
  <2> HIDE DEF up, c, obj, after
  <2>7. PICK v \in BOOLEAN, x \in Classes, o \in Classes, a \in {"idle", "release", "delete"} :
          v = up /\ x = c /\ o = obj /\ a = after
    BY <2>1, <2>2
  <2>8. CountInstance(t, v, x, o, a)
    BY <2>1, <2>7
  <2>9. (v \/ a # "release") /\ \A d \in Classes : Uses(t, d) <=> a = "release" /\ d = o
    BY <2>4, <2>5, <2>7
  <2> QED BY <1>29, <2>3, <2>6, <2>8, <2>9
<1>34. CASE Delete(t)
  <2>1. /\ pc[t] = "delete" /\ pc'[t] = "idle"
        /\ \A u \in Threads \ {t} : pc'[u] = pc[u] /\ loc'[u] = loc[u]
        /\ UNCHANGED <<count, retain, live, cppInit, metaClasses, running, started>>
    BY <1>34 DEF Delete, Return, Goto, kexts, metas, Typed
  <2>2. \A u \in Threads, d \in Classes : Uses(u, d)' <=> Uses(u, d)
    BY <2>1 DEF Uses
  <2>3. \A d \in Classes : Users(d)' = Users(d)
    BY <2>2 DEF Users
  <2>4. RetainIsExact' /\ CountIsLive' /\ InUseIsInitialized'
    BY <2>1, <2>3 DEF Instances, RetainIsExact, CountIsLive, InUseIsInitialized
  <2>5. \A u \in Threads : HolderUnused(u)'
    BY <2>1 DEF Instances, HolderUnused, Leaving, Gone
  <2> QED BY <2>4, <2>5 DEF Instances
<1>35. CASE Call(t)
  BY <1>35, <1>1, <1>2, <1>27, <1>30, <1>31 DEF Call
<1>36. CASE Enter(t)
  BY <1>36, <1>3, <1>4, <1>9, <1>13, <1>14, <1>15, <1>16 DEF Enter
<1>37. CASE Inside(t)
  BY <1>37, <1>7, <1>8, <1>10, <1>12, <1>17, <1>18, <1>19, <1>20, <1>21, <1>22, <1>23, <1>24,
     <1>25, <1>26, <1>28, <1>32, <1>33, <1>34 DEF Inside
<1> QED BY <1>a, <1>35, <1>36, <1>37

-----------------------------------------------------------------------------
(* A step that changes nothing keeps the invariants. *)
LEMMA Stutter ==
  ASSUME UNCHANGED vars
  PROVE  /\ Typed /\ Locked => Typed' /\ Locked'
         /\ Loads => Loads'
         /\ Instances => Instances'
<1> USE DEF vars, registry, locks, kexts, metas
<1>1. Typed /\ Locked => Typed' /\ Locked'
  BY DEF Typed, Locked
<1>2. Loads => Loads'
  <2>1. \A t \in Threads : HolderLoads(t) => HolderLoads(t)'
    BY DEF HolderLoads
  <2>2. ClassesAreKnown => ClassesAreKnown'
    BY DEF ClassesAreKnown, Apart
  <2> QED BY <2>1, <2>2 DEF Loads, Nested, LoadsAreOwn, NamesAreSound
<1>3. Instances => Instances'
  <2>1. \A t \in Threads : HolderUnused(t) => HolderUnused(t)'
    BY DEF HolderUnused
  <2>2. \A c \in Classes : Users(c)' = Users(c)
    BY DEF Users, Uses
  <2>3. RetainIsExact => RetainIsExact'
    BY <2>2 DEF RetainIsExact
  <2>4. CountIsLive => CountIsLive'
    BY DEF CountIsLive
  <2> QED BY <2>1, <2>3, <2>4 DEF Instances, InUseIsInitialized
<1> QED BY <1>1, <1>2, <1>3

LEMMA KextOfFacts ==
  ASSUME NEW k \in Kexts, NEW c \in Own(k)
  PROVE  KextOf(c) = k
<1>1. \A j \in Kexts : c \in Own(j) => j = k
  BY ConstantFacts
<1> QED BY <1>1 DEF KextOf

(* The loads keep their own invariant, whatever fails but addClass.        *)
LEMMA LoadsStay ==
  ASSUME AddClassSucceeds
  PROVE  Spec => [](Typed /\ Locked /\ Loads)
<1>1. Init => Typed /\ Locked /\ Loads
  BY TypedInit, LoadsInit
<1>2. Typed /\ Locked /\ Loads /\ [Next]_vars => (Typed /\ Locked /\ Loads)'
  <2>1. CASE Next
    BY <2>1, TypedStep, LoadsStep DEF Loads
  <2>2. CASE UNCHANGED vars
    BY <2>2, Stutter
  <2> QED BY <2>1, <2>2
<1> QED BY <1>1, <1>2, PTL DEF Spec

(* While no kext leaves, its names lead to its classes; once it is past    *)
(* removeClasses none of its names is left.                                *)
LEMMA LoadsGiveNames == Typed /\ Locked /\ Loads => NoDanglingClass
<1> SUFFICES ASSUME Typed, Locked, Loads, NEW n \in DOMAIN dict
             PROVE  LET c == dict[n]
                    IN  /\ NameOf[c] = n
                        /\ c \in constructed /\ c \in recorded
                        /\ KextOf(c) \in loaded /\ c \in metaClasses[KextOf(c)]
  BY DEF NoDanglingClass
<1> DEFINE c == dict[n]
<1>1. NameOf[c] = n
  BY DEF Loads, NamesAreSound
<1>2. PICK k \in cppInit : c \in Own(k)
  BY DEF Loads, NamesAreSound
<1>3. k \in loaded /\ k \in Kexts
  BY DEF Loads, Nested, Typed
<1>4. KextOf(c) = k
  BY <1>2, <1>3, KextOfFacts
<1>5. ~ \E t \in Threads : loc[t].kext = k /\ Apart(t)
  <2> SUFFICES ASSUME NEW t \in Threads, loc[t].kext = k, Apart(t) PROVE FALSE
    OBVIOUS
  <2>1. pc[t] \in Leaving
    BY DEF Apart, Leaving
  <2>2. \A m \in DOMAIN dict : dict[m] \notin Own(k)
    BY <2>1 DEF Loads, LoadsAreOwn, HolderLoads
  <2> QED BY <1>2, <2>2
<1>6. Own(k) \subseteq metaClasses[k] \cap constructed \cap recorded
  BY <1>2, <1>5 DEF Loads, ClassesAreKnown
<1> QED BY <1>1, <1>2, <1>3, <1>4, <1>6

(* While addClass succeeds, every name in the dictionary leads to the      *)
(* living metaclass of that name, of a kext that is in memory and knows it *)
(* as its own, at any moment of any load or unload of any kexts.           *)
THEOREM NamesStay == ASSUME AddClassSucceeds PROVE Spec => []NoDanglingClass
BY LoadsStay, LoadsGiveNames, PTL

(* So do the counts, when the superclasses are of the kernel.              *)
LEMMA InstancesStay ==
  ASSUME AddClassSucceeds, SupersAreKernel
  PROVE  Spec => [](Typed /\ Locked /\ Loads /\ Instances)
<1>1. Init => Instances
  BY InstancesInit
<1>2. Typed /\ Locked /\ Loads /\ Instances /\ [Next]_vars => Instances'
  BY InstancesStep, Stutter
<1> QED BY <1>1, <1>2, LoadsStay, PTL DEF Spec

(* A class in use is of an initialized kext that does not leave.           *)
LEMMA InUseIsMapped == Typed /\ Locked /\ Loads /\ Instances => LiveIsMapped
<1> SUFFICES ASSUME Typed, Locked, Loads, Instances, NEW c \in Classes,
                    live[c] > 0 \/ \E t \in Threads : pc[t] \in {"alloc", "release"} /\ loc[t].obj = c
             PROVE  KextOf(c) \in loaded /\ c \in constructed
  BY DEF LiveIsMapped
<1>1. live[c] > 0 \/ retain[c] > 0
  BY RetainFacts DEF Uses
<1>2. PICK k \in cppInit : c \in Own(k)
  BY <1>1 DEF Instances, InUseIsInitialized
<1>3. k \in loaded /\ k \in Kexts
  BY DEF Loads, Nested, Typed
<1>4. KextOf(c) = k
  BY <1>2, <1>3, KextOfFacts
<1>5. live[c] \in Nat /\ retain[c] \in Nat
  BY RetainFacts DEF Typed
<1>6. ~ \E t \in Threads : loc[t].kext = k /\ Apart(t)
  <2> SUFFICES ASSUME NEW t \in Threads, loc[t].kext = k, Apart(t) PROVE FALSE
    OBVIOUS
  <2>1. live[c] = 0 /\ retain[c] = 0
    BY <1>2 DEF Instances, HolderUnused, Apart, Leaving
  <2> QED BY <1>1, <2>1
<1>7. c \in constructed
  BY <1>2, <1>6 DEF Loads, ClassesAreKnown
<1> QED BY <1>3, <1>4, <1>7

(* A class that somebody is about to instantiate, or that has an instance, *)
(* is in memory and alive: the check of removeClasses, the second one of   *)
(* modHasInstance and the order of the steps between them let no kext be   *)
(* unmapped under its instances.                                           *)
THEOREM LiveStay ==
  ASSUME AddClassSucceeds, SupersAreKernel
  PROVE  Spec => []LiveIsMapped
BY InstancesStay, InUseIsMapped, PTL
-----------------------------------------------------------------------------
(* A name is taken from nobody but the kext that leaves: either no two     *)
(* classes share one, or nothing makes an unload turn back once its names  *)
(* are gone, or makes a load call destructors.                             *)
DistinctNames == \A c, d \in Classes : NameOf[c] = NameOf[d] => c = d
NoTurningBack == May \cap {"grow", "stop", "new"} = {}

Registered == {dict[n] : n \in DOMAIN dict}

(* No class of the kext has its name in the dictionary, or all have. *)
Nameless(k) == \A c \in Own(k) : NameOf[c] \notin DOMAIN dict
Named(k) == \A c \in Own(k) : NameOf[c] \in DOMAIN dict /\ dict[NameOf[c]] = c

(* What the holder of sKextLock knows of the names of its kext. *)
HolderNames(t) ==
  LET k == loc[t].kext
  IN  /\ pc[t] = "register" => Nameless(k)
      /\ pc[t] \in Leaving /\ k \in cppInit => Nameless(k)
      /\ pc[t] \in {"preFinalize", "terminate"} => k \in cppInit
      /\ NoTurningBack =>
           /\ pc[t] # "teardown"
           /\ pc[t] = "check" => \A c \in metaClasses[k] \ loc[t].todo : live[c] = 0
           /\ pc[t] \in Leaving => \A c \in Own(k) : live[c] = 0

(* A kext that is not initialized knows no classes, but while it goes. *)
KnownAreOwn ==
  \A k \in Kexts : /\ metaClasses[k] \subseteq Own(k)
                   /\ \/ k \in cppInit \/ metaClasses[k] = {}
                      \/ \E t \in Threads : pc[t] = "unmap" /\ loc[t].kext = k

NamesAreHeld ==
  NoTurningBack =>
    \A k \in cppInit : Named(k) \/ \E t \in Threads : pc[t] \in Leaving /\ loc[t].kext = k

Naming ==
  /\ bootstrap # "CompletedBootstrap" => DOMAIN dict = {}
  /\ \A c \in Classes : retain[c] > 0 => c \in Registered
  /\ KnownAreOwn
  /\ \A t \in Threads : HolderNames(t)
  /\ NamesAreHeld

-----------------------------------------------------------------------------
(* The step leaves every name where it is. *)
SameNames == DOMAIN dict' = DOMAIN dict /\ \A n \in DOMAIN dict : dict'[n] = dict[n]

LEMMA SameNamesFacts ==
  ASSUME SameNames
  PROVE  /\ Registered' = Registered
         /\ \A k : Nameless(k) => Nameless(k)'
         /\ \A k : Named(k) => Named(k)'
<1>1. Registered' = Registered
  BY DEF SameNames, Registered
<1> QED BY <1>1 DEF SameNames, Nameless, Named

LEMMA NamingInit == Init => Naming
<1> SUFFICES ASSUME Init PROVE Naming
  OBVIOUS
<1>1. \A c \in Classes : ~ (retain[c] > 0)
  BY DEF Init
<1>2. DOMAIN dict = {}
  BY DEF Init
<1>3. KnownAreOwn /\ NamesAreHeld
  BY DEF Init, KnownAreOwn, NamesAreHeld
<1>4. \A t \in Threads : HolderNames(t)
  BY DEF Init, HolderNames, Leaving, Gone
<1> QED BY <1>1, <1>2, <1>3, <1>4 DEF Naming

(* A step of the thread that holds or takes sKextLock. *)
LEMMA HolderKeepsNames ==
  ASSUME Typed, Locked, Loads, Naming, Locked', NEW t \in Threads,
         pc[t] \in KextSteps \/ (pc[t] = "idle" /\ kextLock = None),
         pc'[t] \in KextSteps \cup {"idle"},
         \A u \in Threads \ {t} : pc'[u] = pc[u] /\ loc'[u] = loc[u],
         SameNames, bootstrap = "CompletedBootstrap" => bootstrap' = "CompletedBootstrap",
         UNCHANGED retain,
         \A k \in Kexts : metaClasses'[k] \subseteq metaClasses[k],
         \A k \in cppInit' : k \in cppInit \/ Own(k) = {},
         \A k \in cppInit \ cppInit' : pc'[t] = "unmap" /\ loc'[t].kext = k,
         pc[t] = "unmap" => metaClasses'[loc[t].kext] = {},
         NoTurningBack /\ pc[t] \in Leaving =>
           loc[t].kext \notin cppInit' \/ (pc'[t] \in Leaving /\ loc'[t].kext = loc[t].kext),
         pc'[t] \in KextSteps => HolderNames(t)'
  PROVE  Naming'
<1>1. \A u \in Threads \ {t} : pc[u] \notin KextSteps
  BY ConstantFacts DEF Locked
<1>2. bootstrap' # "CompletedBootstrap" => DOMAIN dict' = {}
  BY DEF Naming, SameNames
<1>3. \A c \in Classes : retain'[c] > 0 => c \in Registered'
  BY SameNamesFacts DEF Naming
<1>4. KnownAreOwn'
  <2> SUFFICES ASSUME NEW k \in Kexts
               PROVE  /\ metaClasses'[k] \subseteq Own(k)
                      /\ \/ k \in cppInit' \/ metaClasses'[k] = {}
                         \/ \E u \in Threads : pc'[u] = "unmap" /\ loc'[u].kext = k
    BY DEF KnownAreOwn
  <2>1. /\ metaClasses[k] \subseteq Own(k)
        /\ \/ k \in cppInit \/ metaClasses[k] = {}
           \/ \E u \in Threads : pc[u] = "unmap" /\ loc[u].kext = k
    BY DEF Naming, KnownAreOwn
  <2>2. metaClasses'[k] \subseteq Own(k)
    BY <2>1
  <2>3. \A u \in Threads : pc[u] = "unmap" => u = t
    BY <1>1 DEF KextSteps, Leaving, Gone
  <2> QED BY <2>1, <2>2, <2>3
<1>5. \A u \in Threads : HolderNames(u)'
  <2> SUFFICES ASSUME NEW u \in Threads PROVE HolderNames(u)'
    OBVIOUS
  <2>1. pc'[u] \notin KextSteps => HolderNames(u)'
    BY DEF HolderNames, KextSteps, Loading, Leaving, Gone
  <2> QED BY <1>1, <2>1
<1>6. NamesAreHeld'
  <2> SUFFICES ASSUME NoTurningBack, NEW k \in cppInit'
               PROVE  Named(k)' \/ \E u \in Threads : pc'[u] \in Leaving /\ loc'[u].kext = k
    BY DEF NamesAreHeld
  <2>1. CASE Own(k) = {}
    BY <2>1 DEF Named
  <2>2. CASE k \in cppInit /\ Named(k)
    BY <2>2, SameNamesFacts
  <2>3. CASE \E u \in Threads : pc[u] \in Leaving /\ loc[u].kext = k
    BY <1>1, <2>3 DEF KextSteps
  <2> QED BY <2>1, <2>2, <2>3 DEF Naming, NamesAreHeld
<1> QED BY <1>2, <1>3, <1>4, <1>5, <1>6 DEF Naming

(* A step of a thread without sKextLock. *)
LEMMA OthersKeepNames ==
  ASSUME Typed, Locked, Loads, Instances, Naming, NEW t \in Threads,
         pc[t] \notin KextSteps, pc'[t] \notin KextSteps,
         \A u \in Threads \ {t} : pc'[u] = pc[u] /\ loc'[u] = loc[u],
         UNCHANGED <<dict, bootstrap, cppInit, metaClasses>>,
         \A c \in Classes : retain'[c] > 0 => retain[c] > 0 \/ c \in Registered,
         live' \in [Classes -> Nat],
         NoTurningBack => \A c \in Classes : live'[c] <= live[c] \/ retain[c] > 0
  PROVE  Naming'
<1>1. Registered' = Registered
  BY DEF Registered
<1>2. \A c \in Classes : retain'[c] > 0 => c \in Registered'
  BY <1>1 DEF Naming
<1>3. KnownAreOwn'
  BY DEF Naming, KnownAreOwn, KextSteps, Leaving, Gone
<1>4. NamesAreHeld'
  <2>1. \A k : Named(k) => Named(k)'
    BY DEF Named
  <2>2. pc[t] \notin Leaving
    BY DEF KextSteps
  <2>3. \A u \in Threads : pc[u] \in Leaving => pc'[u] = pc[u] /\ loc'[u] = loc[u]
    BY <2>2
  <2> QED BY <2>1, <2>3 DEF Naming, NamesAreHeld
<1>5. \A u \in Threads : HolderNames(u)'
  <2> SUFFICES ASSUME NEW u \in Threads PROVE HolderNames(u)'
    OBVIOUS
  <2>1. CASE u = t
    BY <2>1 DEF HolderNames, KextSteps, Loading, Leaving, Gone
  <2>2. CASE u # t
    <3> DEFINE k == loc[u].kext
    <3>1. HolderNames(u) /\ HolderUnused(u)
      BY DEF Naming, Instances
    <3>2. pc'[u] = pc[u] /\ loc'[u] = loc[u]
      BY <2>2
    <3>3. Nameless(k) => Nameless(k)'
      BY <3>2 DEF Nameless
    <3>4. \A c \in Classes : live[c] = 0 /\ retain[c] = 0 /\ NoTurningBack => live'[c] = 0
      BY DEF Typed
    <3>5. pc[u] \in KextSteps => k \in Kexts /\ Own(k) \subseteq Classes /\ metaClasses[k] \subseteq Classes
      BY ConstantFacts DEF Locked, Typed
    <3>6. NoTurningBack /\ pc[u] = "check" => \A c \in metaClasses[k] \ loc[u].todo : live'[c] = 0
      BY <3>1, <3>4, <3>5 DEF HolderNames, HolderUnused, KextSteps
    <3>7. NoTurningBack /\ pc[u] \in Leaving => \A c \in Own(k) : live'[c] = 0
      BY <3>1, <3>4, <3>5 DEF HolderNames, HolderUnused, KextSteps
    <3>8. UNCHANGED <<metaClasses, cppInit>>
      OBVIOUS
    <3> HIDE DEF k
    <3> QED BY <3>1, <3>2, <3>3, <3>6, <3>7, <3>8 DEF HolderNames, k
  <2> QED BY <2>1, <2>2
<1> QED BY <1>2, <1>3, <1>4, <1>5 DEF Naming

-----------------------------------------------------------------------------
(* What the steps that change the dictionary do to it.                     *)

(* Until the first registration there is no name a new dictionary loses.   *)
LEMMA MakeDictionaryFacts ==
  ASSUME Naming, MakeDictionary
  PROVE  SameNames /\ (bootstrap = "CompletedBootstrap" => bootstrap' = "CompletedBootstrap")
BY DEF Naming, MakeDictionary, SameNames, registry

(* A destructor finds no name of its class.                                *)
LEMMA TerminateFacts ==
  ASSUME DistinctNames \/ NoTurningBack, Typed, Locked, Loads, Naming, NEW t \in Threads, Terminate(t)
  PROVE  SameNames
<1> DEFINE k == loc[t].kext
           c == Head(loc[t].list).class
<1>1. pc[t] \in {"teardown", "terminate"} /\ loc[t].list # <<>> /\ dict' = Without(dict, {NameOf[c]})
  BY DEF Terminate
<1>2. pc[t] \in KextSteps
  BY <1>1 DEF KextSteps, Loading, Leaving, Gone
<1>3. HolderLoads(t) /\ HolderNames(t) /\ k \in Kexts
  BY <1>2, HolderFacts DEF Naming, Locked, Typed
<1>4. c \in Own(k) /\ c \in Classes
  <2>1. loc[t].list \in Seq(Structor)
    BY LocalsFacts DEF Typed
  <2>2. {loc[t].list[i].class : i \in DOMAIN loc[t].list} \subseteq Own(k)
    BY <1>1, <1>3 DEF HolderLoads
  <2> QED BY <1>1, <1>3, <2>1, <2>2, StructorFacts, ConstantFacts
<1>5. NameOf[c] \notin DOMAIN dict
  <2>1. CASE pc[t] = "terminate"
    <3>1. k \in cppInit
      BY <1>3, <2>1 DEF HolderNames
    <3>2. Nameless(k)
      BY <1>3, <2>1, <3>1 DEF HolderNames, Leaving, Gone
    <3> QED BY <1>4, <3>2 DEF Nameless
  <2>2. CASE pc[t] = "teardown"
    <3>1. DistinctNames /\ k \notin cppInit
      BY <1>3, <2>2 DEF HolderNames, HolderLoads, Loading
    <3> SUFFICES ASSUME NameOf[c] \in DOMAIN dict PROVE FALSE
      OBVIOUS
    <3> DEFINE d == dict[NameOf[c]]
    <3>2. d \in Classes /\ NameOf[d] = NameOf[c] /\ \E j \in cppInit : d \in Own(j)
      BY DEF Loads, NamesAreSound, Typed
    <3>3. d = c
      BY <1>4, <3>1, <3>2 DEF DistinctNames
    <3>4. PICK j \in cppInit : c \in Own(j)
      BY <3>2, <3>3
    <3>5. j \in Kexts
      BY DEF Loads, Nested, Typed
    <3> QED BY <1>3, <1>4, <3>1, <3>4, <3>5, ConstantFacts
  <2> QED BY <1>1, <2>1, <2>2
<1> QED BY <1>1, <1>5 DEF Without, SameNames

(* A constructor resets counts that are zero.                              *)
LEMMA ConstructFacts ==
  ASSUME Typed, Locked, Loads, Instances, NEW t \in Threads, Construct(t) \/ ConstructFails(t)
  PROVE  retain' = retain
<1> DEFINE k == loc[t].kext
           c == Head(loc[t].list).class
<1>1. pc[t] = "construct" /\ loc[t].list # <<>> /\ Constructed(c)
  BY DEF Construct, ConstructFails
<1>2. HolderLoads(t) /\ k \in Kexts
  BY <1>1, HolderFacts DEF Locked, Typed, KextSteps, Loading
<1>3. c \in Own(k)
  <2>1. loc[t].list \in Seq(Structor)
    BY LocalsFacts DEF Typed
  <2>2. {loc[t].list[i].class : i \in DOMAIN loc[t].list} \subseteq Own(k)
    BY <1>1, <1>2 DEF HolderLoads
  <2> QED BY <1>1, <2>1, <2>2, StructorFacts
<1>4. k \notin cppInit
  BY <1>1, <1>2 DEF HolderLoads, Loading
<1>5. retain[c] = 0
  BY <1>2, <1>3, <1>4, Unloaded DEF Loads
<1> HIDE DEF c
<1> QED BY <1>1, <1>5 DEF Constructed, Typed

(* The whole kext is registered, none of its names being taken.            *)
LEMMA SecondPassFacts ==
  ASSUME AddClassSucceeds, Typed, Locked, Loads, Naming, NEW t \in Threads, SecondPass(t)
  PROVE  LET k == loc[t].kext
         IN  /\ k \in Kexts /\ Own(k) \subseteq Classes /\ Nameless(k)
             /\ pc[t] = "register" /\ pc' = [pc EXCEPT ![t] = "startfunc"] /\ loc' = loc
             /\ cppInit' = cppInit \cup {k}
             /\ metaClasses' = [metaClasses EXCEPT ![k] = @ \cup Own(k)]
             /\ DOMAIN dict' = DOMAIN dict \cup {NameOf[c] : c \in Own(k)}
             /\ \A n \in DOMAIN dict : dict'[n] = dict[n]
             /\ \A c \in Own(k) : dict'[NameOf[c]] = c
             /\ Registered' = Registered \cup Own(k)
             /\ UNCHANGED <<retain, live>>
<1> DEFINE k == loc[t].kext
<1>1. pc[t] = "register" /\ UNCHANGED <<retain, live>>
  BY DEF SecondPass
<1>2. HolderLoads(t) /\ HolderNames(t) /\ k \in Kexts
  BY <1>1, HolderFacts DEF Naming, Locked, Typed, KextSteps, Loading
<1>3. stalled \in InFlight /\ ToSet(stalled.classes) = Own(k) /\ Nameless(k)
  BY <1>1, <1>2 DEF HolderLoads, HolderNames
<1> DEFINE S == stalled.classes
<1>4. S \in Seq(Classes) /\ Len(S) \in Nat
  BY <1>3, LenProperties DEF InFlight
<1>5. SubSeq(S, 1, Len(S)) = S
  BY <1>4
<1> DEFINE names == {NameOf[c] : c \in Own(k)}
<1>6. /\ dict' = [x \in DOMAIN dict \cup names |->
                   IF x \in names THEN CHOOSE c \in Own(k) : NameOf[c] = x ELSE dict[x]]
      /\ metaClasses' = [metaClasses EXCEPT ![k] = @ \cup Own(k)]
      /\ FinishLoad(t, TRUE)
  <2> DEFINE added(n) == ToSet(SubSeq(S, 1, n))
             all(n) == n = Len(S)
             entered(n) == IF all(n) THEN added(n) ELSE added(n) \cup {S[n + 1]}
             entries(n) == {NameOf[c] : c \in entered(n)}
  <2>1. PICK n \in 0 .. Len(S) :
          /\ all(n) \/ "addClass" \in May
          /\ dict' = [x \in DOMAIN dict \cup entries(n) |->
                        IF x \in entries(n) THEN CHOOSE c \in entered(n) : NameOf[c] = x ELSE dict[x]]
          /\ metaClasses' = [metaClasses EXCEPT ![k] = @ \cup added(n)]
          /\ FinishLoad(t, all(n))
    BY DEF SecondPass
  <2>2. all(n)
    BY <2>1 DEF AddClassSucceeds
  <2>3. added(n) = Own(k) /\ entered(n) = Own(k)
    BY <1>3, <1>5, <2>2
  <2>4. entries(n) = names
    BY <2>3
  <2>5. FinishLoad(t, TRUE)
    BY <2>1, <2>2 DEF FinishLoad
  <2> HIDE DEF added, entered, entries, S, k, names
  <2>6. dict' = [x \in DOMAIN dict \cup names |->
                  IF x \in names THEN CHOOSE c \in Own(k) : NameOf[c] = x ELSE dict[x]]
    BY <2>1, <2>3, <2>4
  <2> QED BY <2>1, <2>3, <2>5, <2>6
<1>7. /\ pc' = [pc EXCEPT ![t] = "startfunc"] /\ loc' = loc
      /\ cppInit' = cppInit \cup {k}
  BY <1>1, <1>6, FinishLoadFacts
<1>8. Own(k) \subseteq Classes
  BY <1>2, ConstantFacts
<1>9. \A c, d \in Own(k) : NameOf[c] = NameOf[d] => c = d
  BY <1>2, RegistryAssumption
<1>10. ASSUME NEW c \in Own(k) PROVE NameOf[c] \notin DOMAIN dict /\ dict'[NameOf[c]] = c
  BY <1>3, <1>6, <1>9 DEF Nameless
<1> HIDE DEF k
<1>11. DOMAIN dict' = DOMAIN dict \cup names
  BY <1>6
<1>12. \A n \in DOMAIN dict : dict'[n] = dict[n]
  BY <1>6, <1>10
<1>13. Registered' = Registered \cup Own(k)
  BY <1>10, <1>11, <1>12 DEF Registered
<1> QED BY <1>1, <1>2, <1>3, <1>6, <1>7, <1>8, <1>10, <1>11, <1>12, <1>13 DEF k

(* The names that are removed are of the kext's unused classes.            *)
LEMMA RemoveClassesFacts ==
  ASSUME DistinctNames \/ NoTurningBack, Typed, Locked, Loads, Instances, Naming,
         NEW t \in Threads, RemoveClasses(t)
  PROVE  LET k == loc[t].kext
             old == metaClasses[k] \cap Registered
         IN  /\ k \in Kexts /\ metaClasses[k] \subseteq Own(k) /\ Own(k) \subseteq Classes
             /\ \A c \in metaClasses[k] : retain[c] = 0
             /\ k \in cppInit => metaClasses[k] = Own(k)
             /\ DOMAIN dict' = DOMAIN dict \ {NameOf[c] : c \in metaClasses[k]}
             /\ \A n \in DOMAIN dict' : dict'[n] = dict[n]
             /\ \A n \in DOMAIN dict \ DOMAIN dict' : dict[n] \in metaClasses[k]
             /\ Registered' = Registered \ old
<1> DEFINE k == loc[t].kext
<1>1. pc[t] = "check" /\ loc[t].todo = {} /\ dict' = Without(dict, {NameOf[c] : c \in metaClasses[k]})
  BY DEF RemoveClasses
<1>2. k \in Kexts
  BY <1>1 DEF Locked, Typed, KextSteps
<1>3. metaClasses[k] \subseteq Own(k) /\ Own(k) \subseteq Classes
  BY <1>2, ConstantFacts DEF Naming, KnownAreOwn
<1>4. \A c \in metaClasses[k] : retain[c] = 0
  BY <1>1 DEF Instances, HolderUnused
<1>5. k \in cppInit => metaClasses[k] = Own(k)
  <2>1. pc[t] \in KextSteps /\ ~ Apart(t)
    BY <1>1 DEF KextSteps, Apart, Gone
  <2> QED BY <1>3, <2>1, HolderFacts
<1>6. ASSUME NEW c \in metaClasses[k], NameOf[c] \in DOMAIN dict PROVE dict[NameOf[c]] = c
  <2>1. CASE DistinctNames
    <3>1. dict[NameOf[c]] \in Classes /\ NameOf[dict[NameOf[c]]] = NameOf[c]
      BY <1>6 DEF Loads, NamesAreSound, Typed
    <3> QED BY <1>3, <1>6, <2>1, <3>1 DEF DistinctNames
  <2>2. CASE NoTurningBack
    <3>1. \A u \in Threads : pc[u] \in KextSteps => u = t
      BY <1>1 DEF Locked, KextSteps
    <3>2. \A u \in Threads : pc[u] \notin Leaving /\ pc[u] # "unmap"
      BY <1>1, <3>1 DEF KextSteps, Leaving, Gone
    <3>3. k \in cppInit
      BY <1>2, <1>6, <3>2 DEF Naming, KnownAreOwn
    <3>4. Named(k)
      BY <2>2, <3>2, <3>3 DEF Naming, NamesAreHeld
    <3> QED BY <1>3, <1>6, <3>4 DEF Named
  <2> QED BY <2>1, <2>2
<1>7. \A n \in DOMAIN dict : NameOf[dict[n]] = n
  BY DEF Loads, NamesAreSound
<1> HIDE DEF k
<1> DEFINE names == {NameOf[c] : c \in metaClasses[k]}
<1>8. DOMAIN dict' = DOMAIN dict \ names /\ \A n \in DOMAIN dict' : dict'[n] = dict[n]
  BY <1>1 DEF Without
<1>9. \A n \in DOMAIN dict \ DOMAIN dict' : dict[n] \in metaClasses[k]
  BY <1>6, <1>8
<1>10. Registered' = Registered \ (metaClasses[k] \cap Registered)
  <2>1. \A n \in DOMAIN dict : dict[n] \in metaClasses[k] => n \in names
    BY <1>7
  <2> QED BY <1>8, <1>9, <2>1 DEF Registered
<1> QED BY <1>2, <1>3, <1>4, <1>5, <1>8, <1>9, <1>10 DEF k

-----------------------------------------------------------------------------
LEMMA NamingStep ==
  ASSUME AddClassSucceeds, SupersAreKernel, DistinctNames \/ NoTurningBack,
         Typed, Locked, Loads, Instances, Naming, Next
  PROVE  Naming'
<1> USE ConstantFacts
<1>a. PICK t \in Threads : Call(t) \/ Enter(t) \/ Inside(t)
  BY DEF Next
<1>b. Typed' /\ Locked'
  BY TypedStep DEF Loads
<1>c. /\ HolderNames(t) /\ HolderUnused(t) /\ Nested
      /\ pc[t] \in KextSteps =>
           /\ HolderLoads(t) /\ loc[t].kext \in Kexts /\ loc[t].kext \in loaded
           /\ \A u \in Threads \ {t} : pc[u] \notin KextSteps
  BY HolderFacts DEF Naming, Instances, Loads, Locked, Typed
<1>d. \A k \in Kexts : metaClasses[k] \subseteq Own(k) /\ Own(k) \subseteq Classes \ Kernel
  BY DEF Naming, KnownAreOwn, Kernel
<1>e. \A k \in Kexts : k \notin cppInit => \A c \in Own(k) : live[c] = 0
  BY Unloaded DEF Loads
<1>f. ASSUME pc[t] \in KextSteps \/ (pc[t] = "idle" /\ kextLock = None),
             pc'[t] \in KextSteps \cup {"idle"}, pc[t] # "unmap",
             \A u \in Threads \ {t} : pc'[u] = pc[u] /\ loc'[u] = loc[u],
             SameNames, bootstrap = "CompletedBootstrap" => bootstrap' = "CompletedBootstrap",
             UNCHANGED <<retain, cppInit, metaClasses>>,
             NoTurningBack /\ pc[t] \in Leaving =>
               pc'[t] \in Leaving /\ loc'[t].kext = loc[t].kext,
             pc'[t] \in KextSteps => HolderNames(t)'
      PROVE  Naming'
  <2>1. /\ \A k \in Kexts : metaClasses'[k] \subseteq metaClasses[k]
        /\ \A k \in cppInit' : k \in cppInit \/ Own(k) = {}
        /\ \A k \in cppInit \ cppInit' : pc'[t] = "unmap" /\ loc'[t].kext = k
    BY <1>f
  <2> QED BY <1>b, <1>f, <2>1, HolderKeepsNames
<1>g. ASSUME UNCHANGED dict
      PROVE  SameNames /\ \A k : Nameless(k)' <=> Nameless(k)
  BY <1>g DEF SameNames, Nameless
<1>1. ASSUME NEW k \in Kexts, Start(t, k) PROVE Naming'
  <2>1. /\ pc[t] = "idle" /\ kextLock = None /\ pc'[t] \in {"startfunc", "preInit"}
        /\ \A u \in Threads \ {t} : pc'[u] = pc[u] /\ loc'[u] = loc[u]
        /\ UNCHANGED <<dict, bootstrap, retain, cppInit, metaClasses>>
    BY <1>1 DEF Start, Typed, Goto, metas, registry
  <2>2. pc'[t] \in KextSteps /\ pc[t] \notin Leaving /\ HolderNames(t)'
    BY <2>1 DEF HolderNames, KextSteps, Loading, Leaving, Gone
  <2> QED BY <1>f, <1>g, <2>1, <2>2
<1>2. ASSUME NEW k \in Kexts, Unload(t, k) PROVE Naming'
  <2>1. /\ pc[t] = "idle" /\ kextLock = None
        /\ pc'[t] = (IF metaClasses[k] = {} THEN "stop" ELSE "removeClasses")
        /\ loc'[t].kext = k
        /\ \A u \in Threads \ {t} : pc'[u] = pc[u] /\ loc'[u] = loc[u]
        /\ UNCHANGED <<dict, bootstrap, retain, live, cppInit, metaClasses>>
    BY <1>2 DEF Unload, Typed, Goto, Locals, kexts, metas, registry
  <2>2. k \in cppInit => Own(k) \subseteq metaClasses[k]
    BY <2>1 DEF Loads, ClassesAreKnown, Apart, Locked, KextSteps, Leaving, Gone
  <2>3. pc'[t] = "stop" => Own(k) = {} \/ k \notin cppInit
    BY <2>1, <2>2
  <2>4. pc'[t] = "stop" => (k \in cppInit => Nameless(k)') /\ \A c \in Own(k) : live'[c] = 0
    BY <1>e, <2>1, <2>3 DEF Nameless
  <2>5. pc'[t] \in KextSteps /\ pc[t] \notin Leaving /\ HolderNames(t)'
    BY <2>1, <2>4 DEF HolderNames, KextSteps, Leaving, Gone
  <2> QED BY <1>f, <1>g, <2>1, <2>5
<1>3. CASE PreModLoad(t)
  <2>1. /\ pc[t] \in {"preInit", "preFinalize"} /\ pc'[t] \in {"construct", "terminate"}
        /\ pc'[t] = "terminate" <=> pc[t] = "preFinalize"
        /\ loc'[t].kext = loc[t].kext
        /\ \A u \in Threads \ {t} : pc'[u] = pc[u] /\ loc'[u] = loc[u]
        /\ UNCHANGED <<dict, bootstrap, retain, live, cppInit, metaClasses>>
    BY <1>3 DEF PreModLoad, Typed, Goto, Locals, kexts, metas, registry
  <2>2. /\ pc[t] \in KextSteps /\ pc'[t] \in KextSteps /\ HolderNames(t)'
        /\ pc[t] \in Leaving => pc'[t] \in Leaving
    BY <1>c, <1>g, <2>1 DEF HolderNames, KextSteps, Loading, Leaving, Gone
  <2> QED BY <1>f, <1>g, <2>1, <2>2
<1>4. CASE PreModLoadFails(t)
  <2>1. /\ pc[t] \in {"preInit", "preFinalize"} /\ pc'[t] \in {"idle", "terminate"}
        /\ pc'[t] = "terminate" <=> pc[t] = "preFinalize"
        /\ pc'[t] = "terminate" => loc'[t].kext = loc[t].kext
        /\ \A u \in Threads \ {t} : pc'[u] = pc[u] /\ loc'[u] = loc[u]
        /\ UNCHANGED <<dict, bootstrap, retain, live, cppInit, metaClasses>>
    BY <1>4 DEF PreModLoadFails, KextReturn, Return, Typed, Goto, Locals, kexts, metas, registry
  <2>2. /\ pc[t] \in KextSteps /\ pc'[t] \in KextSteps \cup {"idle"}
        /\ pc'[t] \in KextSteps => HolderNames(t)'
        /\ pc[t] \in Leaving => pc'[t] \in Leaving /\ loc'[t].kext = loc[t].kext
    BY <1>c, <1>g, <2>1 DEF HolderNames, KextSteps, Loading, Leaving, Gone
  <2> QED BY <1>f, <1>g, <2>1, <2>2
<1>5. CASE Construct(t) \/ ConstructFails(t)
  <2>1. /\ pc[t] = "construct" /\ pc'[t] \in {"construct", "teardown"}
        /\ pc'[t] = "teardown" => ~NoTurningBack
        /\ \A u \in Threads \ {t} : pc'[u] = pc[u] /\ loc'[u] = loc[u]
        /\ UNCHANGED <<dict, bootstrap, cppInit, metaClasses>>
    BY <1>5 DEF Construct, ConstructFails, NoTurningBack, Typed, Goto, kexts, registry
  <2>2. retain' = retain
    BY <1>5, ConstructFacts
  <2>3. pc[t] \in KextSteps /\ pc'[t] \in KextSteps /\ pc[t] \notin Leaving /\ HolderNames(t)'
    BY <2>1 DEF HolderNames, KextSteps, Loading, Leaving, Gone
  <2> QED BY <1>f, <1>g, <2>1, <2>2, <2>3
<1>6. CASE Terminate(t)
  <2>1. /\ pc[t] \in {"teardown", "terminate"} /\ pc' = pc /\ loc'[t].kext = loc[t].kext
        /\ \A u \in Threads \ {t} : pc'[u] = pc[u] /\ loc'[u] = loc[u]
        /\ UNCHANGED <<bootstrap, retain, live, cppInit>>
        /\ \A k \in Kexts : metaClasses'[k] \subseteq metaClasses[k]
    BY <1>6 DEF Terminate, Typed, Locals
  <2>2. SameNames
    BY <1>6, TerminateFacts
  <2>3. pc[t] \in KextSteps /\ pc'[t] \in KextSteps
    BY <2>1 DEF KextSteps, Loading, Leaving, Gone
  <2>4. HolderNames(t)'
    <3>1. DOMAIN dict' = DOMAIN dict
      BY <2>2 DEF SameNames
    <3> QED BY <1>c, <2>1, <3>1 DEF HolderNames, Nameless, Leaving, Gone
  <2> QED BY <1>b, <2>1, <2>2, <2>3, <2>4, HolderKeepsNames
<1>7. CASE UseFreedStalled(t)
  <2>1. /\ pc[t] = "terminate" /\ pc'[t] = "crash" /\ loc' = loc
        /\ \A u \in Threads \ {t} : pc'[u] = pc[u]
        /\ UNCHANGED <<dict, bootstrap, retain, live, cppInit, metaClasses>>
    BY <1>7 DEF UseFreedStalled, Goto, Typed, kexts, metas, registry
  <2>2. /\ pc[t] \in KextSteps /\ pc'[t] \in KextSteps /\ HolderNames(t)' /\ pc'[t] \in Leaving
    BY <1>c, <1>g, <2>1 DEF HolderNames, KextSteps, Leaving, Gone
  <2> QED BY <1>f, <1>g, <2>1, <2>2
<1>h. ASSUME NEW success \in BOOLEAN, FinishLoad(t, success),
             pc[t] \in {"construct", "teardown", "terminate"},
             pc[t] # "terminate" /\ success => Own(loc[t].kext) = {},
             SameNames, bootstrap = "CompletedBootstrap" => bootstrap' = "CompletedBootstrap",
             UNCHANGED <<metaClasses, retain, live>>
      PROVE  Naming'
  <2>1. /\ pc[t] = "terminate" =>
             /\ pc' = [pc EXCEPT ![t] = "unmap"] /\ loc' = loc
             /\ cppInit' = cppInit \ {loc[t].kext}
        /\ pc[t] # "terminate" /\ success =>
             /\ pc' = [pc EXCEPT ![t] = "startfunc"] /\ loc' = loc
             /\ cppInit' = cppInit \cup {loc[t].kext}
        /\ pc[t] # "terminate" /\ ~success =>
             /\ pc' = [pc EXCEPT ![t] = "idle"] /\ loc' = [loc EXCEPT ![t] = NoLocals]
             /\ cppInit' = cppInit
    BY <1>h, FinishLoadFacts
  <2>2. /\ pc[t] \in KextSteps /\ pc'[t] \in KextSteps \cup {"idle"}
        /\ \A u \in Threads \ {t} : pc'[u] = pc[u] /\ loc'[u] = loc[u]
        /\ pc[t] # "terminate" => pc[t] \notin Leaving
    BY <1>h, <2>1 DEF Typed, KextSteps, Loading, Leaving, Gone
  <2>3. \A k \in cppInit' : k \in cppInit \/ Own(k) = {}
    BY <1>h, <2>1
  <2>4. \A k \in cppInit \ cppInit' : pc'[t] = "unmap" /\ loc'[t].kext = k
    BY <2>1 DEF Typed
  <2>5. pc[t] \in Leaving => loc[t].kext \notin cppInit'
    BY <2>1, <2>2
  <2>6. pc'[t] \in KextSteps => HolderNames(t)'
    <3>1. CASE pc[t] = "terminate"
      <4>1. pc'[t] = "unmap" /\ loc' = loc /\ loc[t].kext \notin cppInit'
        BY <2>1, <3>1 DEF Typed
      <4>2. NoTurningBack => \A c \in Own(loc[t].kext) : live[c] = 0
        BY <1>c, <3>1 DEF HolderNames, Leaving, Gone
      <4> QED BY <1>h, <4>1, <4>2 DEF HolderNames, Leaving, Gone
    <3>2. CASE pc[t] # "terminate"
      <4>1. pc'[t] \in {"startfunc", "idle"}
        BY <2>1, <3>2 DEF Typed
      <4> QED BY <4>1 DEF HolderNames, KextSteps, Loading, Leaving, Gone
    <3> QED BY <3>1, <3>2
  <2>7. \A k \in Kexts : metaClasses'[k] \subseteq metaClasses[k]
    BY <1>h
  <2> QED BY <1>b, <1>h, <2>2, <2>3, <2>4, <2>5, <2>6, <2>7, HolderKeepsNames
<1>i. ASSUME CanRegister(t), pc[t] # "terminate"
      PROVE  /\ pc[t] = "construct" /\ stalled.classes \in Seq(Classes)
             /\ Own(loc[t].kext) \subseteq ToSet(stalled.classes)
  <2>1. /\ pc[t] \in {"construct", "teardown"} /\ loc[t].list = <<>>
        /\ stalled # None /\ stalled # Freed /\ stalled.result = "success"
    BY <1>i DEF CanRegister, StructorsDone
  <2>2. pc[t] \in KextSteps
    BY <2>1 DEF KextSteps, Loading
  <2>3. pc[t] = "construct" /\ stalled \in InFlight
    BY <1>c, <2>1, <2>2 DEF HolderLoads
  <2>4. {loc[t].list[i].class : i \in DOMAIN loc[t].list} = {}
    <3>1. DOMAIN loc[t].list = {}
      BY <2>1
    <3> QED BY <3>1
  <2>5. Own(loc[t].kext) \subseteq ToSet(stalled.classes)
    BY <1>c, <2>2, <2>3, <2>4 DEF HolderLoads
  <2> QED BY <2>3, <2>5 DEF InFlight
<1>8. CASE PostModLoadOfNothing(t)
  <2> DEFINE success == CanRegister(t)
  <2>1. /\ success \in BOOLEAN /\ FinishLoad(t, success) /\ UNCHANGED <<metaClasses, retain, live>>
        /\ pc[t] \in {"construct", "teardown", "terminate"}
        /\ success => stalled.classes = <<>> /\ MakeDictionary
        /\ ~success => UNCHANGED <<dict, bootstrap>>
    BY <1>8 DEF PostModLoadOfNothing, CanRegister, StructorsDone, metas, registry
  <2>2. pc[t] # "terminate" /\ success => Own(loc[t].kext) = {}
    BY <1>i, <2>1, ToSetFacts
  <2>3. SameNames /\ (bootstrap = "CompletedBootstrap" => bootstrap' = "CompletedBootstrap")
    BY <1>g, <2>1, MakeDictionaryFacts
  <2> HIDE DEF success
  <2> QED BY <1>h, <2>1, <2>2, <2>3
<1>9. CASE PostModLoadFails(t)
  <2>1. /\ FinishLoad(t, FALSE) /\ MakeDictionary /\ UNCHANGED <<metaClasses, retain, live>>
        /\ pc[t] \in {"construct", "teardown", "terminate"}
    BY <1>9 DEF PostModLoadFails, CanRegister, StructorsDone, metas
  <2> QED BY <1>h, <2>1, MakeDictionaryFacts
<1>10. CASE FirstPass(t)
  <2>1. /\ CanRegister(t) /\ stalled.classes # <<>> /\ ~ Duplicates /\ MakeDictionary
        /\ pc' = [pc EXCEPT ![t] = "register"] /\ loc' = loc
        /\ UNCHANGED <<retain, live, cppInit, metaClasses>>
    BY <1>10 DEF FirstPass, Goto, kexts, metas
  <2>2. pc[t] # "terminate"
    <3>1. pc[t] = "terminate" => HolderLoads(t)
      BY <1>c DEF KextSteps, Leaving, Gone
    <3> QED BY <2>1, <3>1 DEF HolderLoads, CanRegister, StructorsDone
  <2>3. /\ pc[t] = "construct" /\ stalled.classes \in Seq(Classes)
        /\ Own(loc[t].kext) \subseteq ToSet(stalled.classes)
    BY <1>i, <2>1, <2>2
  <2>4. Nameless(loc[t].kext)
    BY <2>1, <2>3, ToSetFacts DEF Duplicates, Nameless, ToSet
  <2>5. SameNames /\ (bootstrap = "CompletedBootstrap" => bootstrap' = "CompletedBootstrap")
    BY <2>1, MakeDictionaryFacts
  <2>6. /\ pc[t] \in KextSteps /\ pc'[t] = "register" /\ pc'[t] \in KextSteps
        /\ pc[t] \notin Leaving /\ pc[t] # "unmap"
        /\ \A u \in Threads \ {t} : pc'[u] = pc[u] /\ loc'[u] = loc[u]
    BY <2>1, <2>3 DEF Typed, KextSteps, Loading, Leaving, Gone
  <2>7. DOMAIN dict' = DOMAIN dict
    BY <2>5 DEF SameNames
  <2>8. HolderNames(t)'
    BY <2>1, <2>4, <2>6, <2>7 DEF HolderNames, Nameless, Leaving, Gone
  <2> QED BY <1>f, <2>1, <2>5, <2>6, <2>8
<1>11. CASE SecondPass(t)
  <2> DEFINE k == loc[t].kext
  <2>1. /\ k \in Kexts /\ Own(k) \subseteq Classes /\ Nameless(k)
        /\ pc[t] = "register" /\ pc' = [pc EXCEPT ![t] = "startfunc"] /\ loc' = loc
        /\ cppInit' = cppInit \cup {k}
        /\ metaClasses' = [metaClasses EXCEPT ![k] = @ \cup Own(k)]
        /\ DOMAIN dict' = DOMAIN dict \cup {NameOf[c] : c \in Own(k)}
        /\ \A n \in DOMAIN dict : dict'[n] = dict[n]
        /\ \A c \in Own(k) : dict'[NameOf[c]] = c
        /\ Registered' = Registered \cup Own(k)
        /\ UNCHANGED <<retain, live>>
    BY <1>11, SecondPassFacts
  <2>2. bootstrap' = "CompletedBootstrap"
    BY <1>11 DEF SecondPass
  <2>3. \A c \in Classes : retain'[c] > 0 => c \in Registered'
    BY <2>1 DEF Naming
  <2>4. /\ pc'[t] = "startfunc" /\ \A u \in Threads \ {t} : pc'[u] = pc[u] /\ pc[u] \notin KextSteps
        /\ \A u \in Threads : pc[u] \notin Leaving /\ pc[u] # "unmap"
    BY <1>c, <2>1 DEF Typed, KextSteps, Loading, Leaving, Gone
  <2> HIDE DEF k
  <2>5. KnownAreOwn'
    <3>1. \A j \in Kexts : j # k => metaClasses'[j] = metaClasses[j]
      BY <2>1 DEF Typed
    <3>2. metaClasses'[k] = metaClasses[k] \cup Own(k)
      BY <2>1 DEF Typed
    <3>3. \A j \in Kexts : j \in cppInit \/ metaClasses[j] = {}
      BY <2>4 DEF Naming, KnownAreOwn
    <3> QED BY <1>d, <2>1, <3>1, <3>2, <3>3 DEF KnownAreOwn
  <2>6. \A u \in Threads : HolderNames(u)'
    <3> SUFFICES ASSUME NEW u \in Threads PROVE HolderNames(u)'
      OBVIOUS
    <3>1. pc'[u] \notin Leaving \cup {"register", "teardown", "check", "preFinalize", "terminate"}
      BY <2>4 DEF KextSteps, Loading, Leaving, Gone
    <3> QED BY <3>1 DEF HolderNames
  <2>7. NamesAreHeld'
    <3> SUFFICES ASSUME NoTurningBack, NEW j \in cppInit' PROVE Named(j)'
      BY DEF NamesAreHeld
    <3>1. CASE j = k
      BY <2>1, <3>1 DEF Named
    <3>2. CASE j # k
      <4>1. Named(j)
        BY <2>1, <2>4, <3>2 DEF Naming, NamesAreHeld
      <4> QED BY <2>1, <4>1 DEF Named
    <3> QED BY <3>1, <3>2
  <2> QED BY <2>2, <2>3, <2>5, <2>6, <2>7 DEF Naming
<1>12. CASE StartFunc(t)
  <2>1. /\ pc[t] = "startfunc" /\ pc'[t] = "idle"
        /\ \A u \in Threads \ {t} : pc'[u] = pc[u] /\ loc'[u] = loc[u]
        /\ UNCHANGED <<dict, bootstrap, retain, cppInit, metaClasses>>
    BY <1>12 DEF StartFunc, KextReturn, Return, Goto, Typed, registry, metas
  <2>2. pc[t] \in KextSteps /\ pc[t] \notin Leaving /\ pc'[t] \notin KextSteps
    BY <2>1 DEF KextSteps, Loading, Leaving, Gone
  <2> QED BY <1>f, <1>g, <2>1, <2>2
<1>13. CASE EnterRemoveClasses(t)
  <2>1. /\ pc[t] = "removeClasses" /\ pc'[t] = "check" /\ loc' = loc
        /\ \A u \in Threads \ {t} : pc'[u] = pc[u]
        /\ UNCHANGED <<dict, bootstrap, retain, live, cppInit, metaClasses>>
    BY <1>13 DEF EnterRemoveClasses, Goto, Typed, kexts, metas, registry
  <2>2. loc[t].todo = metaClasses[loc[t].kext]
    BY <1>c, <2>1 DEF HolderUnused
  <2>3. pc[t] \in KextSteps /\ pc[t] \notin Leaving /\ pc'[t] \in KextSteps /\ HolderNames(t)'
    BY <2>1, <2>2 DEF HolderNames, KextSteps, Leaving, Gone
  <2> QED BY <1>f, <1>g, <2>1, <2>3
<1>14. CASE ClassUnused(t)
  <2>1. PICK c \in loc[t].todo :
          /\ count[c] = 0 /\ pc[t] = "check" /\ pc' = pc
          /\ loc' = [loc EXCEPT ![t].todo = loc[t].todo \ {c}]
          /\ UNCHANGED <<dict, bootstrap, retain, live, cppInit, metaClasses>>
    BY <1>14 DEF ClassUnused, InUse, kexts, metas, registry
  <2>2. /\ loc'[t].kext = loc[t].kext /\ loc'[t].todo = loc[t].todo \ {c}
        /\ \A u \in Threads \ {t} : loc'[u] = loc[u]
    BY <2>1 DEF Typed, Locals
  <2>3. pc[t] \in KextSteps /\ pc[t] \notin Leaving
    BY <2>1 DEF KextSteps, Leaving, Gone
  <2>4. c \in metaClasses[loc[t].kext] => live[c] = 0
    BY <1>c, <1>d, <2>1, <2>3 DEF Instances, CountIsLive
  <2>5. HolderNames(t)'
    BY <1>c, <2>1, <2>2, <2>4 DEF HolderNames, Leaving, Gone
  <2> QED BY <1>f, <1>g, <2>1, <2>2, <2>3, <2>5
<1>15. CASE ClassInUse(t)
  <2>1. /\ pc[t] = "check" /\ pc'[t] = "idle"
        /\ \A u \in Threads \ {t} : pc'[u] = pc[u] /\ loc'[u] = loc[u]
        /\ UNCHANGED <<dict, bootstrap, retain, cppInit, metaClasses>>
    BY <1>15 DEF ClassInUse, KextReturn, Return, Goto, Typed, registry, kexts, metas
  <2>2. pc[t] \in KextSteps /\ pc[t] \notin Leaving /\ pc'[t] \notin KextSteps
    BY <2>1 DEF KextSteps, Loading, Leaving, Gone
  <2> QED BY <1>f, <1>g, <2>1, <2>2
<1>16. CASE RemoveClasses(t)
  <2> DEFINE k == loc[t].kext
  <2>1. /\ k \in Kexts /\ metaClasses[k] \subseteq Own(k) /\ Own(k) \subseteq Classes
        /\ \A c \in metaClasses[k] : retain[c] = 0
        /\ k \in cppInit => metaClasses[k] = Own(k)
        /\ DOMAIN dict' = DOMAIN dict \ {NameOf[c] : c \in metaClasses[k]}
        /\ \A n \in DOMAIN dict' : dict'[n] = dict[n]
        /\ \A n \in DOMAIN dict \ DOMAIN dict' : dict[n] \in metaClasses[k]
        /\ Registered' = Registered \ (metaClasses[k] \cap Registered)
    BY <1>16, RemoveClassesFacts
  <2>2. /\ pc[t] = "check" /\ loc[t].todo = {} /\ pc'[t] = "stop" /\ loc' = loc
        /\ \A u \in Threads \ {t} : pc'[u] = pc[u]
        /\ UNCHANGED <<bootstrap, retain, live, cppInit, metaClasses>>
    BY <1>16 DEF RemoveClasses, Goto, Typed, kexts, metas
  <2>3. /\ \A u \in Threads \ {t} : pc'[u] = pc[u] /\ pc[u] \notin KextSteps
        /\ \A u \in Threads : pc[u] \notin Leaving /\ pc[u] # "unmap"
    BY <1>c, <2>2 DEF KextSteps, Leaving, Gone
  <2> HIDE DEF k
  <2>4. bootstrap' # "CompletedBootstrap" => DOMAIN dict' = {}
    BY <2>1, <2>2 DEF Naming
  <2>5. \A c \in Classes : retain'[c] > 0 => c \in Registered'
    BY <2>1, <2>2 DEF Naming
  <2>6. KnownAreOwn'
    BY <2>2, <2>3 DEF Naming, KnownAreOwn
  <2>7. HolderNames(t)'
    <3>1. k \in cppInit => \A c \in Own(k) : NameOf[c] \notin DOMAIN dict'
      BY <2>1
    <3>2. NoTurningBack => \A c \in Own(k) : live[c] = 0
      BY <1>c, <1>e, <2>1, <2>2 DEF HolderNames, k
    <3> QED BY <2>2, <3>1, <3>2 DEF HolderNames, Nameless, k
  <2>8. \A u \in Threads : HolderNames(u)'
    <3> SUFFICES ASSUME NEW u \in Threads, u # t PROVE HolderNames(u)'
      BY <2>7
    <3> QED BY <2>3 DEF HolderNames, KextSteps, Loading, Leaving, Gone
  <2>9. NamesAreHeld'
    <3> SUFFICES ASSUME NoTurningBack, NEW j \in cppInit, j # k PROVE Named(j)'
      BY <2>2 DEF NamesAreHeld, Leaving, k
    <3>1. Named(j) /\ j \in Kexts
      BY <2>3 DEF Naming, NamesAreHeld, Loads, Nested, Typed
    <3>2. \A d \in Own(j) : d \in Classes /\ d \notin metaClasses[k]
      BY <2>1, <3>1
    <3> QED BY <2>1, <3>1, <3>2 DEF Named
  <2> QED BY <2>4, <2>5, <2>6, <2>8, <2>9 DEF Naming
<1>17. CASE StopFunc(t)
  <2>1. /\ pc[t] = "stop" /\ pc'[t] = "finalize" /\ loc' = loc
        /\ \A u \in Threads \ {t} : pc'[u] = pc[u]
        /\ UNCHANGED <<dict, bootstrap, retain, live, cppInit, metaClasses>>
    BY <1>17 DEF StopFunc, Goto, Typed, registry, metas
  <2>2. pc[t] \in KextSteps /\ pc'[t] \in KextSteps /\ pc'[t] \in Leaving /\ HolderNames(t)'
    BY <1>c, <1>g, <2>1 DEF HolderNames, KextSteps, Leaving, Gone
  <2> QED BY <1>f, <1>g, <2>1, <2>2
<1>18. CASE StopFuncFails(t)
  <2>1. /\ pc[t] = "stop" /\ pc'[t] = "idle" /\ ~NoTurningBack
        /\ \A u \in Threads \ {t} : pc'[u] = pc[u] /\ loc'[u] = loc[u]
        /\ UNCHANGED <<dict, bootstrap, retain, cppInit, metaClasses>>
    BY <1>18 DEF StopFuncFails, NoTurningBack, KextReturn, Return, Goto, Typed, registry, kexts, metas
  <2>2. pc[t] \in KextSteps /\ pc'[t] \notin KextSteps
    BY <2>1 DEF KextSteps, Loading, Leaving, Gone
  <2> QED BY <1>f, <1>g, <2>1, <2>2
<1>19. CASE FlushClasses(t)
  <2>1. /\ pc[t] = "stop" /\ pc'[t] = "finalize" /\ loc' = loc
        /\ \A u \in Threads \ {t} : pc'[u] = pc[u]
        /\ metaClasses' = [metaClasses EXCEPT ![loc[t].kext] = {}]
        /\ UNCHANGED <<dict, bootstrap, retain, live, cppInit>>
    BY <1>19 DEF FlushClasses, Goto, Typed, registry, metas
  <2>2. pc[t] \in KextSteps /\ pc'[t] \in KextSteps /\ pc'[t] \in Leaving /\ HolderNames(t)'
    BY <1>c, <1>g, <2>1 DEF HolderNames, KextSteps, Leaving, Gone
  <2>3. \A k \in Kexts : metaClasses'[k] \subseteq metaClasses[k]
    BY <2>1 DEF Typed
  <2> QED BY <1>b, <1>g, <2>1, <2>2, <2>3, HolderKeepsNames
<1>20. CASE Finalize(t)
  <2>1. /\ pc[t] = "finalize" /\ loc' = loc
        /\ pc'[t] = (IF loc[t].kext \in cppInit THEN "preFinalize" ELSE "unmap")
        /\ \A u \in Threads \ {t} : pc'[u] = pc[u]
        /\ UNCHANGED <<dict, bootstrap, retain, live, cppInit, metaClasses>>
    BY <1>20 DEF Finalize, Goto, Typed, registry, kexts, metas
  <2>2. pc[t] \in KextSteps /\ pc'[t] \in KextSteps /\ pc'[t] \in Leaving /\ HolderNames(t)'
    BY <1>c, <1>g, <2>1 DEF HolderNames, KextSteps, Leaving, Gone
  <2> QED BY <1>f, <1>g, <2>1, <2>2
<1>21. CASE FinalizeRefused(t)
  <2>1. /\ pc[t] = "finalize" /\ pc'[t] = "idle" /\ HasInstances(loc[t].kext)
        /\ \A u \in Threads \ {t} : pc'[u] = pc[u] /\ loc'[u] = loc[u]
        /\ UNCHANGED <<dict, bootstrap, retain, cppInit, metaClasses>>
    BY <1>21 DEF FinalizeRefused, KextReturn, Return, Goto, Typed, registry, kexts, metas
  <2>2. pc[t] \in KextSteps /\ pc'[t] \notin KextSteps
    BY <2>1 DEF KextSteps, Loading, Leaving, Gone
  <2>3. ~NoTurningBack
    <3>1. PICK c \in metaClasses[loc[t].kext] : count[c] # 0
      BY <2>1 DEF HasInstances
    <3>2. c \in Own(loc[t].kext) /\ c \in Classes \ Kernel
      BY <1>c, <1>d, <2>2
    <3>3. live[c] # 0
      BY <3>1, <3>2 DEF Instances, CountIsLive
    <3> QED BY <1>c, <2>1, <3>2, <3>3 DEF HolderNames, Leaving
  <2> QED BY <1>f, <1>g, <2>1, <2>2, <2>3
<1>22. CASE Unmap(t)
  <2>1. /\ pc[t] = "unmap" /\ pc'[t] = "idle"
        /\ \A u \in Threads \ {t} : pc'[u] = pc[u] /\ loc'[u] = loc[u]
        /\ metaClasses' = [metaClasses EXCEPT ![loc[t].kext] = {}]
        /\ UNCHANGED <<dict, bootstrap, retain, live, cppInit>>
    BY <1>22 DEF Unmap, KextReturn, Return, Goto, Typed, registry
  <2>2. pc[t] \in KextSteps /\ pc'[t] \notin KextSteps
    BY <2>1 DEF KextSteps, Loading, Leaving, Gone
  <2>3. \A k \in Kexts : metaClasses'[k] \subseteq metaClasses[k]
    BY <2>1 DEF Typed
  <2>4. loc[t].kext \notin cppInit /\ metaClasses'[loc[t].kext] = {}
    BY <1>c, <2>1, <2>2 DEF HolderLoads, Typed
  <2> QED BY <1>b, <1>g, <2>1, <2>2, <2>3, <2>4, HolderKeepsNames
<1>23. ASSUME NEW n \in Names, CopyMetaClassWithName(t, n) PROVE Naming'
  <2> DEFINE c == dict[n]
  <2>1. /\ pc[t] = "idle" /\ n \in DOMAIN dict /\ c \in Classes
        /\ retain' = [retain EXCEPT ![c] = @ + 1] /\ pc' = [pc EXCEPT ![t] = "alloc"]
        /\ \A u \in Threads \ {t} : loc'[u] = loc[u]
        /\ UNCHANGED <<dict, bootstrap, live, cppInit, metaClasses>>
    BY <1>23 DEF CopyMetaClassWithName, Goto, kexts, registry, Typed
  <2>2. c \in Registered
    BY <2>1 DEF Registered
  <2> HIDE DEF c
  <2>3. \A d \in Classes : retain'[d] > 0 => retain[d] > 0 \/ d \in Registered
    BY <2>1, <2>2 DEF Typed
  <2>4. /\ pc[t] \notin KextSteps /\ pc'[t] \notin KextSteps
        /\ \A u \in Threads \ {t} : pc'[u] = pc[u]
    BY <2>1 DEF Typed, KextSteps, Loading, Leaving, Gone
  <2>5. live' \in [Classes -> Nat] /\ \A d \in Classes : live'[d] <= live[d]
    BY <2>1 DEF Typed
  <2> QED BY <2>1, <2>3, <2>4, <2>5, OthersKeepNames
<1>24. CASE ReleaseMetaClass(t)
  <2>1. /\ pc[t] = "release" /\ loc[t].obj \in Classes
        /\ retain' = [retain EXCEPT ![loc[t].obj] = @ - 1] /\ pc' = [pc EXCEPT ![t] = "idle"]
        /\ \A u \in Threads \ {t} : loc'[u] = loc[u]
        /\ UNCHANGED <<dict, bootstrap, live, cppInit, metaClasses>>
    BY <1>24 DEF ReleaseMetaClass, Return, Goto, kexts, registry, Typed, Locked
  <2>2. \A d \in Classes : retain'[d] > 0 => retain[d] > 0
    BY <2>1 DEF Typed
  <2>3. /\ pc[t] \notin KextSteps /\ pc'[t] \notin KextSteps
        /\ \A u \in Threads \ {t} : pc'[u] = pc[u]
    BY <2>1 DEF Typed, KextSteps, Loading, Leaving, Gone
  <2>4. live' \in [Classes -> Nat] /\ \A d \in Classes : live'[d] <= live[d]
    BY <2>1 DEF Typed
  <2> QED BY <2>1, <2>2, <2>3, <2>4, OthersKeepNames
<1>25. CASE Delete(t)
  <2>1. /\ pc[t] = "delete" /\ pc' = [pc EXCEPT ![t] = "idle"]
        /\ \A u \in Threads \ {t} : loc'[u] = loc[u]
        /\ UNCHANGED <<dict, bootstrap, retain, live, cppInit, metaClasses>>
    BY <1>25 DEF Delete, Return, Goto, kexts, registry, metas, Typed
  <2>2. /\ pc[t] \notin KextSteps /\ pc'[t] \notin KextSteps
        /\ \A u \in Threads \ {t} : pc'[u] = pc[u]
    BY <2>1 DEF Typed, KextSteps, Loading, Leaving, Gone
  <2>3. live' \in [Classes -> Nat] /\ \A d \in Classes : live'[d] <= live[d]
    BY <2>1 DEF Typed
  <2> QED BY <2>1, <2>2, <2>3, OthersKeepNames
<1>j. ASSUME NEW up \in BOOLEAN, NEW c \in Classes, NEW obj \in Classes,
             NEW after \in {"idle", "release", "delete"},
             CountInstance(t, up, c, obj, after), pc[t] \notin KextSteps,
             NoTurningBack => \A d \in Classes : live'[d] <= live[d] \/ retain[d] > 0
      PROVE  Naming'
  <2>1. /\ pc'[t] \in {"idle", "countUp", "countDown", "release", "delete"}
        /\ \A u \in Threads \ {t} : pc'[u] = pc[u] /\ loc'[u] = loc[u]
        /\ UNCHANGED <<dict, bootstrap, retain, cppInit, metaClasses>>
    BY <1>j DEF CountInstance, Return, Goto, Typed, kexts, registry
  <2>2. pc'[t] \notin KextSteps
    BY <2>1 DEF KextSteps, Loading, Leaving, Gone
  <2>3. live' \in [Classes -> Nat]
    BY <1>b DEF Typed
  <2> QED BY <1>j, <2>1, <2>2, <2>3, OthersKeepNames
<1>26. CASE Alloc(t)
  <2>1. PICK c \in Classes : c = loc[t].obj
    BY <1>26 DEF Alloc, Locked
  <2>2. /\ pc[t] = "alloc" /\ CountInstance(t, TRUE, c, c, "release")
        /\ live' = [live EXCEPT ![c] = @ + 1]
    BY <1>26, <2>1, Zenon DEF Alloc
  <2>3. retain[c] > 0
    BY <2>1, <2>2, RetainFacts DEF Uses
  <2>4. \A d \in Classes : live'[d] <= live[d] \/ retain[d] > 0
    BY <2>2, <2>3 DEF Typed
  <2>5. pc[t] \notin KextSteps
    BY <2>2 DEF KextSteps, Loading, Leaving, Gone
  <2> QED BY <1>j, <2>2, <2>4, <2>5
<1>27. ASSUME NEW c \in Classes \ Kernel, NewInstance(t, c) \/ Free(t, c) PROVE Naming'
  <2>1. pc[t] \notin KextSteps
    BY <1>27 DEF NewInstance, Free, KextSteps, Loading, Leaving, Gone
  <2>2. CASE NewInstance(t, c)
    <3>1. CountInstance(t, TRUE, c, c, "idle") /\ ~NoTurningBack
      BY <2>2 DEF NewInstance, NoTurningBack
    <3> QED BY <1>j, <2>1, <3>1
  <2>3. CASE Free(t, c)
    <3>1. CountInstance(t, FALSE, c, c, "delete") /\ live' = [live EXCEPT ![c] = @ - 1]
      BY <2>3 DEF Free
    <3>2. \A d \in Classes : live'[d] <= live[d]
      BY <3>1 DEF Typed
    <3> QED BY <1>j, <2>1, <3>1, <3>2
  <2> QED BY <1>27, <2>2, <2>3
<1>28. CASE CountSuper(t)
  <2>1. /\ pc[t] \in {"countUp", "countDown"} /\ UNCHANGED live
        /\ CountInstance(t, pc[t] = "countUp", loc[t].cls, loc[t].obj, loc[t].after)
        /\ loc[t].cls \in Classes /\ loc[t].obj \in Classes /\ loc[t].after \in {"idle", "release", "delete"}
    BY <1>28 DEF CountSuper, Locked
  <2>2. PICK up \in BOOLEAN, c \in Classes, obj \in Classes, after \in {"idle", "release", "delete"} :
          up = (pc[t] = "countUp") /\ c = loc[t].cls /\ obj = loc[t].obj /\ after = loc[t].after
    BY <2>1
  <2>3. CountInstance(t, up, c, obj, after)
    BY <2>1, <2>2, Zenon
  <2>4. pc[t] \notin KextSteps /\ \A d \in Classes : live'[d] <= live[d]
    BY <2>1 DEF Typed, KextSteps, Loading, Leaving, Gone
  <2> QED BY <1>j, <2>3, <2>4
<1> QED
  BY <1>a, <1>1, <1>2, <1>3, <1>4, <1>5, <1>6, <1>7, <1>8, <1>9, <1>10, <1>11, <1>12, <1>13, <1>14,
     <1>15, <1>16, <1>17, <1>18, <1>19, <1>20, <1>21, <1>22, <1>23, <1>24, <1>25, <1>26, <1>27, <1>28
     DEF Call, Enter, Inside

-----------------------------------------------------------------------------
(* The registry as ClassRegistry sees it. *)
RegistryStep == [Registry!Next]_<<Registered, retain>>

LEMMA RegistrySteps ==
  /\ UNCHANGED <<Registered, retain>> => RegistryStep
  /\ \A s \in SUBSET Classes : Registry!Register(s) \/ Registry!Withdraw(s) => RegistryStep
  /\ \A c \in Classes : Registry!Use(c) \/ Registry!Done(c) => RegistryStep
BY DEF RegistryStep, Registry!Next

LEMMA StepRefines ==
  ASSUME AddClassSucceeds, SupersAreKernel, DistinctNames \/ NoTurningBack,
         Typed, Locked, Loads, Instances, Naming, [Next]_vars
  PROVE  RegistryStep
<1>1. ASSUME UNCHANGED <<dict, retain>> PROVE RegistryStep
  BY <1>1, RegistrySteps DEF Registered
<1>2. ASSUME SameNames, UNCHANGED retain PROVE RegistryStep
  BY <1>2, SameNamesFacts, RegistrySteps
<1>3. ASSUME NEW t \in Threads, Enter(t) PROVE RegistryStep
  <2>1. CASE PreModLoad(t) \/ PreModLoadFails(t) \/ EnterRemoveClasses(t)
    BY <1>1, <2>1 DEF PreModLoad, PreModLoadFails, EnterRemoveClasses, registry, metas
  <2>2. CASE Terminate(t)
    BY <1>2, <2>2, TerminateFacts DEF Terminate
  <2>3. CASE PostModLoadFails(t) \/ FirstPass(t)
    BY <1>2, <2>3, MakeDictionaryFacts DEF PostModLoadFails, FirstPass, metas
  <2>4. CASE SecondPass(t)
    <3> DEFINE new == Own(loc[t].kext)
    <3>1. /\ loc[t].kext \in Kexts /\ new \subseteq Classes /\ Nameless(loc[t].kext)
          /\ Registered' = Registered \cup new /\ UNCHANGED retain
      BY <2>4, SecondPassFacts
    <3>2. \A c, d \in new : NameOf[c] = NameOf[d] => c = d
      BY <3>1, RegistryAssumption
    <3>3. \A c \in new, d \in Registered : NameOf[c] # NameOf[d]
      <4>1. \A n \in DOMAIN dict : NameOf[dict[n]] = n
        BY DEF Loads, NamesAreSound
      <4> QED BY <3>1, <4>1 DEF Registered, Nameless
    <3>4. PICK s \in SUBSET Classes : s = new
      BY <3>1
    <3>5. Registry!Register(s)
      BY <3>1, <3>2, <3>3, <3>4 DEF Registry!Register, Registered
    <3> QED BY <3>5, RegistrySteps
  <2> QED BY <1>3, <2>1, <2>2, <2>3, <2>4 DEF Enter
<1>4. ASSUME NEW t \in Threads, Inside(t) PROVE RegistryStep
  <2>1. CASE Construct(t) \/ ConstructFails(t)
    BY <1>1, <2>1, ConstructFacts DEF Construct, ConstructFails, registry
  <2>2. CASE PostModLoadOfNothing(t)
    <3>1. UNCHANGED retain /\ (MakeDictionary \/ UNCHANGED dict)
      BY <2>2 DEF PostModLoadOfNothing, metas, registry
    <3> QED BY <1>1, <1>2, <3>1, MakeDictionaryFacts
  <2>3. CASE RemoveClasses(t)
    <3> DEFINE old == metaClasses[loc[t].kext] \cap Registered
    <3>1. /\ loc[t].kext \in Kexts /\ metaClasses[loc[t].kext] \subseteq Classes
          /\ \A c \in metaClasses[loc[t].kext] : retain[c] = 0
          /\ Registered' = Registered \ old
      BY <2>3, RemoveClassesFacts
    <3>2. UNCHANGED retain
      BY <2>3 DEF RemoveClasses, metas
    <3>3. PICK s \in SUBSET Classes : s = old
      BY <3>1
    <3>4. Registry!Withdraw(s)
      BY <3>1, <3>2, <3>3 DEF Registry!Withdraw, Registered
    <3> QED BY <3>4, RegistrySteps
  <2>4. CASE ReleaseMetaClass(t)
    <3> DEFINE c == loc[t].obj
    <3>1. /\ c \in Classes /\ pc[t] = "release" /\ UNCHANGED dict
          /\ retain' = [retain EXCEPT ![c] = @ - 1]
      BY <2>4 DEF ReleaseMetaClass, registry, Locked
    <3>2. retain[c] > 0
      BY <3>1, RetainFacts DEF Uses
    <3>3. Registry!Done(c)
      BY <3>1, <3>2 DEF Registry!Done
    <3> QED BY <3>1, <3>3, RegistrySteps
  <2>5. CASE \/ UseFreedStalled(t) \/ StartFunc(t) \/ ClassUnused(t) \/ ClassInUse(t)
             \/ StopFunc(t) \/ StopFuncFails(t) \/ FlushClasses(t)
             \/ Finalize(t) \/ FinalizeRefused(t) \/ Unmap(t)
    BY <1>1, <2>5 DEF UseFreedStalled, StartFunc, ClassUnused, ClassInUse, StopFunc, StopFuncFails,
                      FlushClasses, Finalize, FinalizeRefused, Unmap, registry, metas
  <2>6. CASE Alloc(t) \/ CountSuper(t) \/ Delete(t)
    BY <1>1, <2>6 DEF Alloc, CountSuper, Delete, CountInstance, registry, metas
  <2> QED BY <1>4, <2>1, <2>2, <2>3, <2>4, <2>5, <2>6 DEF Inside
<1>5. ASSUME NEW t \in Threads, Call(t) PROVE RegistryStep
  <2>1. ASSUME NEW n \in Names, CopyMetaClassWithName(t, n) PROVE RegistryStep
    <3> DEFINE c == dict[n]
    <3>1. /\ c \in Classes /\ c \in Registered /\ UNCHANGED dict
          /\ retain' = [retain EXCEPT ![c] = @ + 1]
      BY <2>1 DEF CopyMetaClassWithName, registry, Typed, Registered
    <3>2. Registry!Use(c)
      BY <3>1 DEF Registry!Use, Registered
    <3> QED BY <3>1, <3>2, RegistrySteps
  <2>2. ASSUME NEW k \in Kexts, Start(t, k) \/ Unload(t, k) PROVE RegistryStep
    BY <1>1, <2>2 DEF Start, Unload, registry, metas
  <2>3. ASSUME NEW c, NewInstance(t, c) \/ Free(t, c) PROVE RegistryStep
    BY <1>1, <2>3 DEF NewInstance, Free, CountInstance, registry
  <2> QED BY <1>5, <2>1, <2>2, <2>3 DEF Call
<1>6. CASE UNCHANGED vars
  BY <1>1, <1>6 DEF vars, registry, metas
<1> QED BY <1>3, <1>4, <1>5, <1>6 DEF Next

LEMMA NamingStutters == Naming /\ UNCHANGED vars => Naming'
<1> SUFFICES ASSUME Naming, UNCHANGED vars PROVE Naming'
  OBVIOUS
<1> USE DEF vars, registry, locks, kexts, metas
<1>1. \A t \in Threads : HolderNames(t)'
  BY DEF Naming, HolderNames, Nameless
<1>2. NamesAreHeld'
  BY DEF Naming, NamesAreHeld, Named
<1>3. KnownAreOwn' /\ Registered' = Registered
  BY DEF Naming, KnownAreOwn, Registered
<1> QED BY <1>1, <1>2, <1>3 DEF Naming

LEMMA InitRefines == Init => Registry!Init
BY DEF Init, Registry!Init

(* A name stands for one class at a time and a class in use keeps it: the  *)
(* dictionary, with its two locks, the queue of stalled classes and the    *)
(* loads and unloads half way, implements the abstract registry.           *)
THEOREM Refinement ==
  ASSUME AddClassSucceeds, SupersAreKernel, DistinctNames \/ NoTurningBack
  PROVE  Spec => ImplementsRegistry
<1> DEFINE Inv == Typed /\ Locked /\ Loads /\ Instances
<1>1. Spec => []Inv
  BY InstancesStay
<1>2. Init => Naming
  BY NamingInit
<1>3. Inv /\ Naming /\ [Next]_vars => Naming'
  BY NamingStep, NamingStutters
<1>4. Inv /\ Naming /\ [Next]_vars => [Registry!Next]_<<Registered, retain>>
  BY StepRefines DEF RegistryStep
<1>5. Inv /\ Naming /\ [Next]_vars => [Registry!Next]_<<{dict[n] : n \in DOMAIN dict}, retain>>
  BY <1>4 DEF Registered
<1>6. Init => Registry!Init
  BY InitRefines
<1> QED BY <1>1, <1>2, <1>3, <1>5, <1>6, PTL DEF Spec, ImplementsRegistry, Registry!Spec
=============================================================================
