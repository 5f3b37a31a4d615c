----------------------------- MODULE OSKextLoad -----------------------------
(***************************************************************************)
(* Registering, resolving, loading, starting, stopping and unloading kexts *)
(* (src/libkern/src/OSKext.cpp), with the scan that unloads idle kexts.    *)
(*                                                                         *)
(* All of it runs with sKextLock held, so one operation is under way at a  *)
(* time: the calls it makes, which recur over dependencies, are the frames *)
(* of a stack.  What goes on meanwhile without the lock is the making and  *)
(* freeing of instances of the kexts' classes, and the release of kexts    *)
(* that somebody looked up.  The retain count of a kext is the number of   *)
(* its holders; a kext is freed when nobody holds it.                      *)
(***************************************************************************)
EXTENDS Integers, Sequences, SequencesExt, FiniteSetsExt

CONSTANTS
  Kexts, Kernel,
  IdOf,          \* the bundle identifier of each kext
  VersionOf,
  LibrariesOf,   \* OSBundleLibraries of each: a sequence of identifiers
  Components,    \* the pseudo-kexts of the kernel, interfaces without code
  Codeless,      \* kexts that declare no executable
  Prelinked,     \* kexts of the prelinked kernel
  Refused,       \* kexts that declare a library they may not link against
  Excluded,      \* the kexts of the exclude list
  NotInSafeBoot, \* when this is a safe boot: the kexts it does not load
  InvalidTag,    \* kOSKextInvalidLoadTag
  WithClasses,   \* the kexts that have C++ classes
  Wanted,        \* bound: the kexts that somebody looks up
  Delayable,     \* bound: the kexts that a load may keep from the next scan
  MaxReferences, \* bound: the references a failing load may leave behind
  Opts,          \* the OSKextExcludeLevels that callers pass for starting
  May,           \* what may go wrong or go on in this instance, see Events
  None

(* Memory, the linker, the wiring of pages, the kext's start or stop       *)
(* function, or IOCatalogue fail; load tags run out; the flags that enable *)
(* loading and unloading are changed.                                      *)
Events == {"memory", "link", "wire", "start", "stop", "catalogue", "tags", "enable"}

Ids == {IdOf[k] : k \in Kexts}

(* The kernel itself has no libraries, and no kext may declare it one.     *)
ASSUME LoadAssumption ==
  /\ May \subseteq Events
  /\ Opts \subseteq {"none", "kext", "all"}
  /\ IsFiniteSet(Kexts) /\ Kernel \in Kexts /\ None \notin Kexts
  /\ Components \subseteq Kexts \ {Kernel}
  /\ Prelinked \subseteq Kexts /\ Wanted \subseteq Kexts
  /\ Codeless \cap (Components \cup {Kernel}) = {}
  /\ \A k \in Kexts :
       VersionOf[k] \in Nat /\ LibrariesOf[k] \in Seq(Ids \ {IdOf[Kernel]})
  /\ InvalidTag \in Nat \ {0}

VARIABLES
  byId,         \* sKextsByID, with None for an identifier without a kext
  loadedKexts,  \* sLoadedKexts
  loaded,       \* the kexts with flags.loaded,
  started,      \* with flags.started,
  resolved,     \* with flags.hasAllDependencies,
  delayed,      \* and with flags.delayAutounload
  deps,         \* the dependencies of each
  held,         \* the kexts that somebody looked up and has not released
  inUse,        \* the kexts whose classes have instances
  kmods,        \* the list of kmod_info structs: its head kmod, and their next
  references,   \* kmod_info->reference_count of each
  nextTag,      \* sNextLoadTag
  enabled,      \* sLoadEnabled and sUnloadEnabled
  userLoads,    \* sUserLoadsActive
  stack,        \* the calls under way, the innermost last
  result        \* what the last of them returned

holders == <<byId, loadedKexts, deps, resolved, delayed, held>>
kmodInfos == <<kmods, references>>
switches == <<enabled, userLoads>>
vars == <<holders, loaded, started, inUse, kmodInfos, nextTag, switches, stack, result>>

(* IsInterface: a pseudo-kext.  Every other kext but the kernel and the    *)
(* codeless ones is executable.                                            *)
IsExecutable(k) == k \notin Components \cup Codeless \cup {Kernel}

(* initialize, and the kexts a prelinked kernel registers. *)
Init ==
  /\ byId = [i \in Ids |->
               IF \E k \in Prelinked \cup {Kernel} : IdOf[k] = i
               THEN CHOOSE k \in Prelinked \cup {Kernel} : IdOf[k] = i ELSE None]
  /\ loadedKexts = <<Kernel>>
  /\ loaded = {Kernel} /\ started = {Kernel}
  /\ resolved = {Kernel} \cup Components
  /\ delayed = {} /\ held = {} /\ inUse = {}
  /\ deps = [k \in Kexts |-> <<>>]
  /\ kmods = [kmod |-> None, next |-> [k \in Kexts |-> None]]
  /\ references = [k \in Kexts |-> 0]
  /\ nextTag = 1
  /\ enabled = {"load", "unload"} /\ userLoads = FALSE
  /\ stack = <<>> /\ result = "success"

-----------------------------------------------------------------------------
(* The stack.  opt is startOpt; flag is alreadyLoaded in load, delayAuto-  *)
(* unload in a request, and didUnload in a scan.                           *)
Frame(op, k) ==
  [op |-> op, at |-> "begin", kext |-> k, i |-> 0, opt |-> "none", flag |-> FALSE, mkext |-> FALSE]

Idle == stack = <<>>
Top == Last(stack)
At(op, label) == ~Idle /\ Top.op = op /\ Top.at = label
Goto(label) == stack' = [stack EXCEPT ![Len(stack)].at = label]
Call(frame, label) == stack' = Append([stack EXCEPT ![Len(stack)].at = label], frame)
(* Nobody looks at what the outermost call returned. *)
Return(r) == stack' = Front(stack) /\ result' = IF Len(stack) = 1 THEN "success" ELSE r
Succeeded == result = "success"

-----------------------------------------------------------------------------
(* Who holds a kext: the dictionary, the array of loaded kexts, whoever    *)
(* looked it up, and the kexts alive that depend on it.                    *)
AliveWith(ids, array, libraries, refs) ==
  LET roots == ({ids[i] : i \in DOMAIN ids} \cup ToSet(array) \cup refs) \ {None}
      reach[n \in Nat] ==
        IF n = 0 THEN roots
        ELSE LET before == reach[n - 1]
             IN  before \cup UNION {ToSet(libraries[k]) : k \in before}
  IN  reach[Cardinality(Kexts)]

Alive == AliveWith(byId, loadedKexts, deps, held)

Occurrences(s, k) == Cardinality({i \in DOMAIN s : s[i] = k})

(* A kext has each of its dependencies once. *)
RetainCount(k) ==
  (IF byId[IdOf[k]] = k THEN 1 ELSE 0) + Occurrences(loadedKexts, k)
  + (IF k \in held THEN 1 ELSE 0)
  + Cardinality({j \in Kexts : k \in ToSet(deps[j])})

(* kOSKextMinLoadedRetainCount: the dictionary and the array. *)
HasClients(k) == RetainCount(k) > 2

(* The holders after a step, and OSKext::free for those it leaves without: *)
(* it releases the dependencies, and the flags go with the object.         *)
Holders(ids, array, libraries, full, refs) ==
  LET alive == AliveWith(ids, array, libraries, refs)
  IN  /\ byId' = ids /\ loadedKexts' = array /\ held' = refs
      /\ deps' = [k \in Kexts |-> IF k \in alive THEN libraries[k] ELSE <<>>]
      /\ resolved' = full \cap alive
      /\ delayed' = delayed \cap alive

ForgetId(k) ==
  Holders([byId EXCEPT ![IdOf[k]] = IF @ = k THEN None ELSE @], loadedKexts, deps, resolved, held)

(* flushDependencies of the kexts in S that are not loaded. *)
Flushed(S) == [k \in Kexts |-> IF k \in S \ loaded THEN <<>> ELSE deps[k]]

-----------------------------------------------------------------------------
(* registerIdentifier: which kext the identifier of k leads to afterwards. *)
Register(ids, k, late) ==
  LET existing == ids[IdOf[k]]
      wins == \/ existing = None
              \/ /\ existing \notin loaded \cup Prelinked
                 /\ late \/ VersionOf[k] > VersionOf[existing]
  IN  IF wins THEN [ids EXCEPT ![IdOf[k]] = k] ELSE ids

(* A kext read by the booter is registered. *)
RegisterBootKext(k) ==
  /\ Idle /\ ~userLoads /\ k \notin Alive \cup Prelinked
  /\ Holders(Register(byId, k, FALSE), loadedKexts, deps, resolved, held)
  /\ UNCHANGED <<loaded, started, inUse, kmodInfos, nextTag, switches, stack, result>>

Request(k, opt, flag, mkext) ==
  stack' = << [Frame("request", k) EXCEPT !.at = "loading", !.flag = flag, !.mkext = mkext],
              [Frame("load", k) EXCEPT !.opt = opt] >>

(* loadKextWithIdentifier, without a request to user space. *)
LoadKextWithIdentifier(i, opt, delay) ==
  /\ Idle
  /\ byId[i] # None /\ (delay => byId[i] \in Delayable)
  /\ Request(byId[i], opt, delay, FALSE)
  /\ UNCHANGED <<holders, loaded, started, inUse, kmodInfos, nextTag, switches, result>>

(* User agents resolve dependencies and send the exact kexts needed for k. *)
Exact(S, k) ==
  /\ \A j \in S : \A i \in ToSet(LibrariesOf[j]) :
       (\E l \in S : IdOf[l] = i) \/ byId[i] \in loaded \cup Prelinked
  /\ \A j \in S \ {k} : \E l \in S : IdOf[j] \in ToSet(LibrariesOf[l])

(* loadFromMkext registers the kexts in S and loads one of them.  Bound: it *)
(* does not ask for a delay of autounload.                                 *)
LoadFromMkext(S, k, opt) ==
  /\ Idle
  /\ k \in S /\ "load" \in enabled
  /\ S \cap (Alive \cup Prelinked) = {} /\ Exact(S, k)
  /\ \A j, l \in S : IdOf[j] = IdOf[l] => j = l
  /\ userLoads' = TRUE
  /\ LET ids == [i \in Ids |-> IF \E j \in S : IdOf[j] = i
                               THEN Register(byId, CHOOSE j \in S : IdOf[j] = i, TRUE)[i]
                               ELSE byId[i]]
     IN  /\ Holders(ids, loadedKexts, deps, resolved, held)
         /\ Request(ids[IdOf[k]], opt, FALSE, TRUE)
  /\ UNCHANGED <<loaded, started, inUse, kmodInfos, nextTag, enabled, result>>

(* flushNonloadedKexts: what is not loaded loses its dependencies, and,    *)
(* unless it is prelinked and these are to be kept, its place.             *)
FlushNonloadedKexts(keep) ==
  LET registered == {byId[i] : i \in Ids} \ {None}
      ids == [i \in Ids |->
                IF \E k \in loaded : k \in ToSet(loadedKexts) /\ IdOf[k] = i
                THEN CHOOSE k \in ToSet(loadedKexts) : IdOf[k] = i
                ELSE IF byId[i] \in keep THEN byId[i] ELSE None]
  IN  Holders(ids, loadedKexts, Flushed(registered), resolved \cap loaded, held)

(* The load returns to loadKextWithIdentifier.  A kext that failed is      *)
(* removed, and loadFromMkext flushes the others.                          *)
RequestFails ==
  /\ At("request", "loading") /\ ~Succeeded
  /\ Call(Frame("remove", Top.kext), "removed")
  /\ UNCHANGED <<holders, loaded, started, inUse, kmodInfos, nextTag, switches, result>>

RequestReturns ==
  /\ At("request", "removed") \/ (At("request", "loading") /\ Succeeded)
  /\ IF Top.mkext THEN FlushNonloadedKexts(Prelinked)
     ELSE /\ delayed' = IF Top.flag /\ Top.at = "loading" THEN delayed \cup {Top.kext} ELSE delayed
          /\ UNCHANGED <<byId, loadedKexts, deps, resolved, held>>
  /\ Return(result)
  /\ UNCHANGED <<loaded, started, inUse, kmodInfos, nextTag, switches>>

-----------------------------------------------------------------------------
IsResolved(k) == k \in resolved \cup Components \cup {Kernel}

(* Mutant: only the kext that asks is looked at. *)
BugInLoop(k) ==
  /\ stack[Len(stack) - 1].op = "resolve"
  /\ k = stack[Len(stack) - 1].kext

(* resolveDependencies.  loopStack is the kexts of the resolve frames. *)
InLoop(k) == k \in {stack[n].kext : n \in {m \in 1 .. Len(stack) - 1 : stack[m].op = "resolve"}}

(* Mutant: a kext in a loop counts as resolved. *)
BugResolveAtOnce ==
  /\ At("resolve", "begin") /\ (IsResolved(Top.kext) \/ InLoop(Top.kext))
  /\ Return("success")
  /\ UNCHANGED <<holders, loaded, started, inUse, kmodInfos, nextTag, switches>>

ResolveAtOnce ==
  /\ At("resolve", "begin")
  /\ \/ IsResolved(Top.kext) /\ Return("success")
     \/ ~IsResolved(Top.kext) /\ InLoop(Top.kext) /\ Return("error")
     \/ ~IsResolved(Top.kext) /\ "memory" \in May /\ Return("error")
  /\ UNCHANGED <<holders, loaded, started, inUse, kmodInfos, nextTag, switches>>

ResolveBegins ==
  LET k == Top.kext IN
  /\ At("resolve", "begin")
  /\ ~IsResolved(k) /\ ~InLoop(k)
  /\ Holders(byId, loadedKexts, Flushed({k}), resolved \ {k}, held)
  /\ IF LibrariesOf[k] = <<>> THEN Return("error") ELSE Goto("library") /\ UNCHANGED result
  /\ UNCHANGED <<loaded, started, inUse, kmodInfos, nextTag, switches>>

Library == byId[LibrariesOf[Top.kext][Top.i + 1]]

(* A library is not there, or is not prelinked as the kext that needs it.  *)
Unusable ==
  \/ Library = None
  \/ Top.kext \in Prelinked /\ Library \notin Codeless \cup Prelinked

ResolveLibrary ==
  /\ At("resolve", "library") /\ Top.i < Len(LibrariesOf[Top.kext])
  /\ IF Unusable THEN Return("error")
     ELSE Call(Frame("resolve", Library), "added") /\ UNCHANGED result
  /\ UNCHANGED <<holders, loaded, started, inUse, kmodInfos, nextTag, switches>>

(* Mutant: the dependencies of a codeless library are not pulled up. *)
BugPulled == <<Library>>

(* What a library that is resolved adds: itself, or if it has no code its  *)
(* own dependencies.                                                       *)
Pulled == IF Library \in Codeless THEN deps[Library] ELSE <<Library>>

WithAll(s, t) ==
  LET with[i \in 0 .. Len(t)] ==
        IF i = 0 THEN s
        ELSE IF t[i] \in ToSet(with[i - 1]) THEN with[i - 1] ELSE Append(with[i - 1], t[i])
  IN  with[Len(t)]

LibraryResolved ==
  LET k == Top.kext IN
  /\ At("resolve", "added")
  /\ IF Succeeded
     THEN /\ deps' = [deps EXCEPT ![k] = WithAll(@, Pulled)]
          /\ stack' = [stack EXCEPT ![Len(stack)].at = "library", ![Len(stack)].i = @ + 1]
          /\ UNCHANGED result
     ELSE Return("error") /\ UNCHANGED deps
  /\ UNCHANGED <<byId, loadedKexts, resolved, delayed, held, loaded, started, inUse, kmodInfos,
                 nextTag, switches>>

ResolveEnds ==
  /\ At("resolve", "library") /\ Top.i = Len(LibrariesOf[Top.kext])
  /\ IF Top.kext \in Refused THEN Return("error") /\ UNCHANGED resolved
     ELSE Return("success") /\ resolved' = resolved \cup {Top.kext}
  /\ UNCHANGED <<byId, loadedKexts, deps, delayed, held, loaded, started, inUse, kmodInfos,
                 nextTag, switches>>

-----------------------------------------------------------------------------
(* OSKext::load.  What makes it fail before it resolves anything. *)
NotLoadable(k) ==
  \/ k \in Excluded
  \/ /\ k \notin loaded
     /\ \/ "load" \notin enabled
        \/ nextTag = InvalidTag
        \/ k \in NotInSafeBoot \ Codeless
        \/ "memory" \in May /\ k \notin Codeless

LoadRefused ==
  /\ At("load", "begin") /\ NotLoadable(Top.kext)
  /\ Return("error")
  /\ UNCHANGED <<holders, loaded, started, inUse, kmodInfos, nextTag, switches>>

(* The kext is loaded already, or only its metadata are wanted. *)
LoadNothing ==
  LET k == Top.kext IN
  /\ At("load", "begin") /\ k \notin Excluded
  /\ k \in loaded \/ (k \in Codeless /\ "load" \in enabled /\ nextTag # InvalidTag)
  /\ stack' = [stack EXCEPT ![Len(stack)].at = "loaded", ![Len(stack)].flag = k \in loaded]
  /\ result' = "success"
  /\ UNCHANGED <<holders, loaded, started, inUse, kmodInfos, nextTag, switches>>

LoadResolves ==
  LET k == Top.kext IN
  /\ At("load", "begin") /\ k \notin loaded \cup Codeless \cup Excluded \cup NotInSafeBoot
  /\ "load" \in enabled /\ nextTag # InvalidTag
  /\ Call(Frame("resolve", k), "resolved")
  /\ UNCHANGED <<holders, loaded, started, inUse, kmodInfos, nextTag, switches, result>>

(* The dependencies are resolved, and those up to i loaded. *)
LibrariesAreIn == (At("load", "resolved") \/ At("load", "dependency")) /\ Succeeded

(* kOSKextExcludeKext excludes this kext from being started, kOSKextExclude-*)
(* All its dependencies too.                                               *)
DependencyOpt(opt) == IF opt = "kext" THEN "none" ELSE opt

LoadDependency ==
  LET i == Top.i + 1 IN
  /\ LibrariesAreIn /\ i <= Len(deps[Top.kext])
  /\ stack' = Append([stack EXCEPT ![Len(stack)].at = "dependency", ![Len(stack)].i = i],
                     [Frame("load", deps[Top.kext][i]) EXCEPT !.opt = DependencyOpt(Top.opt)])
  /\ UNCHANGED <<holders, loaded, started, inUse, kmodInfos, nextTag, switches, result>>

(* removeKext of the dependency that failed; if that is loaded, it has     *)
(* this kext for a client and stays.                                       *)
DependencyFailed ==
  LET dependency == deps[Top.kext][Top.i] IN
  /\ At("load", "dependency") /\ ~Succeeded
  /\ IF dependency \in loaded THEN UNCHANGED holders ELSE ForgetId(dependency)
  /\ Return("error")
  /\ UNCHANGED <<loaded, started, inUse, kmodInfos, nextTag, switches>>

ResolveFailed ==
  /\ At("load", "resolved") /\ ~Succeeded
  /\ Return("error")
  /\ UNCHANGED <<holders, loaded, started, inUse, kmodInfos, nextTag, switches>>

ReadyToLink == LibrariesAreIn /\ Top.i = Len(deps[Top.kext])

(* The references that the links of k to the kexts in S stand for. *)
Counted(S, change) == [j \in Kexts |-> IF j \in S THEN references[j] + change ELSE references[j]]

(* Bound: the load tags are only counted where they may run out. *)
NextTag ==
  IF "tags" \notin May THEN nextTag
  ELSE IF nextTag = InvalidTag THEN 0 ELSE nextTag + 1

(* Mutant: a failure gives back references that were not yet taken. *)
BugFails ==
  /\ ReadyToLink /\ "link" \in May /\ Top.kext \notin Prelinked
  /\ references' = Counted(ToSet(deps[Top.kext]), -1)
  /\ Return("error")
  /\ UNCHANGED <<holders, loaded, started, inUse, kmods, nextTag, switches>>

(* loadExecutable fails, before or after it has counted the references; or *)
(* there is no memory for the account.                                     *)
LoadExecutableFails ==
  LET k == Top.kext IN
  /\ ReadyToLink
  /\ \/ "link" \in May /\ k \notin Prelinked /\ UNCHANGED <<references, nextTag>>
     \/ /\ {"wire", "memory"} \cap May # {} /\ \A j \in Kexts : references[j] < MaxReferences
        /\ references' = [Counted(ToSet(deps[k]), 1) EXCEPT ![k] = 0]
        /\ nextTag' = NextTag
  /\ Return("error")
  /\ UNCHANGED <<holders, loaded, started, inUse, kmods, switches>>

LoadExecutable ==
  LET k == Top.kext
      last == Last(loadedKexts)
  IN  /\ ReadyToLink
      /\ references' = [Counted(ToSet(deps[k]), 1) EXCEPT ![k] = 0]
      /\ nextTag' = NextTag
      /\ loaded' = loaded \cup {k}
      /\ loadedKexts' = Append(loadedKexts, k)
      /\ kmods' = [kmod |-> k,
                   next |-> [kmods.next EXCEPT ![k] = IF last = Kernel THEN None ELSE last]]
      /\ Goto("loaded") /\ result' = "success"
      /\ UNCHANGED <<byId, deps, resolved, delayed, held, started, inUse, switches>>

LoadStarts ==
  /\ At("load", "loaded")
  /\ IF IsExecutable(Top.kext) /\ Top.kext \notin started /\ Top.opt = "none"
     THEN Call(Frame("start", Top.kext), "end")
     ELSE Goto("end")
  /\ UNCHANGED <<holders, loaded, started, inUse, kmodInfos, nextTag, switches, result>>

(* load returns; sendPersonalitiesToCatalog may fail. *)
LoadEnds ==
  /\ At("load", "end")
  /\ Return(result) \/ ("catalogue" \in May /\ Return("error"))
  /\ UNCHANGED <<holders, loaded, started, inUse, kmodInfos, nextTag, switches>>

-----------------------------------------------------------------------------
(* OSKext::start, with the flag to start the dependencies. *)
NothingToStart(k) == k \in started \/ ~IsExecutable(k)

StartAtOnce ==
  LET k == Top.kext IN
  /\ At("start", "begin")
  /\ \/ NothingToStart(k) /\ Return("success")
     \/ ~NothingToStart(k) /\ ~(k \in loaded /\ "load" \in enabled) /\ Return("error")
  /\ UNCHANGED <<holders, loaded, started, inUse, kmodInfos, nextTag, switches>>

StartBegins ==
  LET k == Top.kext IN
  /\ At("start", "begin")
  /\ ~NothingToStart(k) /\ k \in loaded /\ "load" \in enabled
  /\ Goto("dependencies") /\ result' = "success"
  /\ UNCHANGED <<holders, loaded, started, inUse, kmodInfos, nextTag, switches>>

(* The dependencies that do not run, of those not yet looked at. *)
Unstarted(k, done) == {i \in DOMAIN deps[k] : i > done /\ deps[k][i] \notin started}

Starting == (At("start", "dependencies") \/ At("start", "dependency")) /\ Succeeded

StartDependency ==
  /\ Starting
  /\ \E i \in Unstarted(Top.kext, Top.i) :
       /\ \A j \in Unstarted(Top.kext, Top.i) : i <= j
       /\ stack' = Append([stack EXCEPT ![Len(stack)].at = "dependency", ![Len(stack)].i = i],
                          Frame("start", deps[Top.kext][i]))
  /\ UNCHANGED <<holders, loaded, started, inUse, kmodInfos, nextTag, switches, result>>

(* The kext is not started, but its result is still the one of the check   *)
(* of its mapping: success.                                                *)
DependencyNotStarted ==
  /\ At("start", "dependency") /\ ~Succeeded
  /\ Return("success")
  /\ UNCHANGED <<holders, loaded, started, inUse, kmodInfos, nextTag, switches>>

StartFunc ==
  LET k == Top.kext IN
  /\ Starting /\ Unstarted(k, Top.i) = {}
  /\ \/ started' = started \cup {k} /\ Return("success")
     \/ "start" \in May /\ Return("error") /\ UNCHANGED started
  /\ UNCHANGED <<holders, loaded, inUse, kmodInfos, nextTag, switches>>

-----------------------------------------------------------------------------
(* removeKext and unload, which calls stop. *)
RemoveKext(i) ==
  /\ Idle /\ byId[i] # None
  /\ stack' = <<Frame("remove", byId[i])>>
  /\ UNCHANGED <<holders, loaded, started, inUse, kmodInfos, nextTag, switches, result>>

(* The kext is not the one its identifier leads to; or, when it is loaded, *)
(* IOCatalogue cannot terminate its services.                              *)
RemoveRefused ==
  LET k == Top.kext IN
  /\ At("remove", "begin")
  /\ (byId[IdOf[k]] # k) \/ (k \in loaded /\ "catalogue" \in May)
  /\ Return("error")
  /\ UNCHANGED <<holders, loaded, started, inUse, kmodInfos, nextTag, switches>>

RemoveBegins ==
  LET k == Top.kext IN
  /\ At("remove", "begin") /\ byId[IdOf[k]] = k
  /\ IF k \in loaded THEN Call(Frame("unload", k), "unloaded") /\ UNCHANGED holders
     ELSE ForgetId(k) /\ stack' = Front(stack)
  /\ result' = "success"
  /\ UNCHANGED <<loaded, started, inUse, kmodInfos, nextTag, switches>>

RemoveEnds ==
  LET k == Top.kext IN
  /\ At("remove", "unloaded")
  /\ IF Succeeded THEN ForgetId(k) ELSE UNCHANGED holders
  /\ Return(result)
  /\ UNCHANGED <<loaded, started, inUse, kmodInfos, nextTag, switches>>

(* Mutant: only instances keep a kext in memory. *)
BugUnloadable(k) == "unload" \in enabled /\ k \notin Components \cup {Kernel} /\ k \notin inUse

Unloadable(k) ==
  /\ "unload" \in enabled
  /\ ~HasClients(k)
  /\ k \notin Components \cup {Kernel}
  /\ k \notin inUse

UnloadRefused ==
  /\ At("unload", "begin") /\ ~Unloadable(Top.kext)
  /\ Return("error")
  /\ UNCHANGED <<holders, loaded, started, inUse, kmodInfos, nextTag, switches>>

UnloadBegins ==
  /\ At("unload", "begin") /\ Unloadable(Top.kext)
  /\ Goto(IF Top.kext \in started THEN "stop" ELSE "release")
  /\ UNCHANGED <<holders, loaded, started, inUse, kmodInfos, nextTag, switches, result>>

(* stop: the kext has clients again, its function fails, or its C++ cannot *)
(* be finalized because a class has instances again.                       *)
StopFails ==
  /\ At("unload", "stop")
  /\ "stop" \in May \/ HasClients(Top.kext) \/ Top.kext \in inUse
  /\ Return("error")
  /\ UNCHANGED <<holders, loaded, started, inUse, kmodInfos, nextTag, switches>>

Stop ==
  /\ At("unload", "stop")
  /\ ~HasClients(Top.kext) /\ Top.kext \notin inUse
  /\ started' = started \ {Top.kext}
  /\ Goto("release")
  /\ UNCHANGED <<holders, loaded, inUse, kmodInfos, nextTag, switches, result>>

(* The next of each kmod_info when the kext at i left the array.  The      *)
(* kernel is left out of the list only when a kext is loaded.              *)
Patched(array, i) ==
  IF i \in DOMAIN array
  THEN [kmods.next EXCEPT ![array[i]] = IF i > 1 THEN array[i - 1] ELSE None]
  ELSE kmods.next

Unload ==
  LET k == Top.kext
      at == CHOOSE i \in DOMAIN loadedKexts : loadedKexts[i] = k
      array == RemoveAt(loadedKexts, at)
  IN  /\ At("unload", "release")
      /\ kmods' = [kmod |-> IF Last(array) = Kernel THEN None ELSE Last(array),
                   next |-> [Patched(array, at) EXCEPT ![k] = None]]
      /\ references' = [Counted(ToSet(deps[k]), -1) EXCEPT ![k] = 0]
      /\ loaded' = loaded \ {k}
      /\ Holders(byId, array, [deps EXCEPT ![k] = <<>>], resolved \ {k}, held)
      /\ Return("success")
      /\ UNCHANGED <<started, inUse, nextTag, switches>>

-----------------------------------------------------------------------------
(* _OSKextConsiderUnloads, which walks the array of loaded kexts backwards *)
(* until it unloads none.                                                  *)
ConsiderUnloads ==
  /\ Idle
  /\ FlushNonloadedKexts({})
  /\ stack' = << [Frame("scan", None) EXCEPT !.at = "next", !.i = Len(loadedKexts)] >>
  /\ UNCHANGED <<loaded, started, inUse, kmodInfos, nextTag, switches, result>>

(* autounloadKext.  flags.autounloadEnabled is set in all kexts here. *)
Reapable(k) == ~HasClients(k) /\ k \notin Components \cup {Kernel}

Scan(i, flag) ==
  stack' = [stack EXCEPT ![Len(stack)].i = i, ![Len(stack)].flag = flag, ![Len(stack)].at = "next"]

ScanSkips ==
  LET k == loadedKexts[Top.i] IN
  /\ At("scan", "next") /\ Top.i > 0
  /\ ~Reapable(k) \/ k \in delayed \/ k \in inUse
  /\ delayed' = IF Reapable(k) THEN delayed \ {k} ELSE delayed
  /\ Scan(Top.i - 1, Top.flag)
  /\ UNCHANGED <<byId, loadedKexts, deps, resolved, held, loaded, started, inUse, kmodInfos,
                 nextTag, switches, result>>

ScanRemoves ==
  LET k == loadedKexts[Top.i] IN
  /\ At("scan", "next") /\ Top.i > 0
  /\ Reapable(k) /\ k \notin delayed /\ k \notin inUse
  /\ Call(Frame("remove", k), "removed")
  /\ UNCHANGED <<holders, loaded, started, inUse, kmodInfos, nextTag, switches, result>>

ScanRemoved ==
  /\ At("scan", "removed")
  /\ Scan(Top.i - 1, Top.flag \/ Succeeded)
  /\ result' = "success"
  /\ UNCHANGED <<holders, loaded, started, inUse, kmodInfos, nextTag, switches>>

PassEnds ==
  /\ At("scan", "next") /\ Top.i = 0
  /\ IF Top.flag THEN Scan(Len(loadedKexts), FALSE) ELSE stack' = Front(stack)
  /\ UNCHANGED <<holders, loaded, started, inUse, kmodInfos, nextTag, switches, result>>

-----------------------------------------------------------------------------
(* lookupKextWithIdentifier returns the kext with a reference, which its   *)
(* caller releases at any time.  Bound: one such reference at a time.      *)
LookupKext(i) ==
  /\ Idle /\ byId[i] \in Wanted /\ held = {}
  /\ Holders(byId, loadedKexts, deps, resolved, held \cup {byId[i]})
  /\ UNCHANGED <<loaded, started, inUse, kmodInfos, nextTag, switches, stack, result>>

ReleaseKext(k) ==
  /\ k \in held
  /\ Holders(byId, loadedKexts, deps, resolved, held \ {k})
  /\ UNCHANGED <<loaded, started, inUse, kmodInfos, nextTag, switches, stack, result>>

(* The code of a kext makes the first instance of its classes, or the last *)
(* is freed.  Bound: one kext at a time has instances.                     *)
FirstInstance(k) ==
  /\ k \in started \cap WithClasses /\ inUse = {}
  /\ inUse' = inUse \cup {k}
  /\ UNCHANGED <<holders, loaded, started, kmodInfos, nextTag, switches, stack, result>>

LastInstance(k) ==
  /\ k \in inUse
  /\ inUse' = inUse \ {k}
  /\ UNCHANGED <<holders, loaded, started, kmodInfos, nextTag, switches, stack, result>>

(* setLoadEnabled, setUnloadEnabled; willShutdown clears both. *)
SetEnabled(flags) ==
  /\ "enable" \in May /\ Idle
  /\ enabled' = flags
  /\ UNCHANGED <<holders, loaded, started, inUse, kmodInfos, nextTag, userLoads, stack, result>>

-----------------------------------------------------------------------------
Operation ==
  \/ ResolveAtOnce \/ ResolveBegins \/ ResolveLibrary \/ LibraryResolved \/ ResolveEnds
  \/ LoadRefused \/ LoadNothing \/ LoadResolves \/ LoadDependency
  \/ DependencyFailed \/ ResolveFailed \/ LoadExecutableFails \/ LoadExecutable
  \/ LoadStarts \/ LoadEnds
  \/ RequestFails \/ RequestReturns
  \/ StartAtOnce \/ StartBegins \/ StartDependency
  \/ DependencyNotStarted \/ StartFunc
  \/ RemoveRefused \/ RemoveBegins \/ RemoveEnds
  \/ UnloadRefused \/ UnloadBegins \/ StopFails \/ Stop \/ Unload
  \/ ScanSkips \/ ScanRemoves \/ ScanRemoved \/ PassEnds

Entry ==
  \/ \E k \in Kexts : RegisterBootKext(k)
  \/ \E i \in Ids : RemoveKext(i) \/ LookupKext(i)
  \/ \E i \in Ids, opt \in Opts, delay \in BOOLEAN : LoadKextWithIdentifier(i, opt, delay)
  \/ \E S \in SUBSET Kexts, k \in Kexts, opt \in Opts : LoadFromMkext(S, k, opt)
  \/ \E flags \in SUBSET {"load", "unload"} : SetEnabled(flags)
  \/ ConsiderUnloads

(* Only what removes kexts looks at references and instances: when they    *)
(* change during a load, they may as well change after it.                 *)
Others ==
  /\ \A n \in DOMAIN stack : stack[n].op \in {"remove", "unload", "scan"}
  /\ \E k \in Kexts : ReleaseKext(k) \/ FirstInstance(k) \/ LastInstance(k)

Next == Entry \/ Operation \/ Others

Spec == Init /\ [][Next]_vars

-----------------------------------------------------------------------------
(* The values every variable may take. *)
TypeOK ==
  /\ byId \in [Ids -> Kexts \cup {None}]
  /\ loadedKexts \in Seq(Kexts) /\ loadedKexts # <<>>
  /\ loaded \subseteq Kexts /\ started \subseteq loaded
  /\ resolved \subseteq Kexts /\ delayed \subseteq Kexts /\ held \subseteq Kexts
  /\ inUse \subseteq started
  /\ \A k \in Kexts : deps[k] \in Seq(Kexts)
  /\ kmods.kmod \in Kexts \cup {None} /\ kmods.next \in [Kexts -> Kexts \cup {None}]
  /\ references \in [Kexts -> Int] /\ nextTag \in 0 .. InvalidTag
  /\ enabled \subseteq {"load", "unload"} /\ userLoads \in BOOLEAN
  /\ result \in {"success", "error"}
  /\ \A n \in DOMAIN stack : stack[n].op \in {"request", "load", "resolve", "start", "remove",
                                             "unload", "scan"}

(* The list of kmod_info structs, followed from kmod. *)
KmodList ==
  LET from[n \in Nat] ==
        IF n = 0 THEN kmods.kmod
        ELSE IF from[n - 1] = None THEN None ELSE kmods.next[from[n - 1]]
  IN  [n \in 1 .. Len(loadedKexts) - 1 |-> from[n - 1]]

(* sLoadedKexts has the kexts in memory, each once and after the kexts it  *)
(* is linked against: the order the scan relies on.  The kmod_info structs *)
(* that debuggers follow are patched to the same order, the last one first.*)
LibrariesComeFirst ==
  /\ ToSet(loadedKexts) = loaded /\ Len(loadedKexts) = Cardinality(loaded)
  /\ \A n \in DOMAIN loadedKexts :
       ToSet(deps[loadedKexts[n]]) \subseteq {loadedKexts[m] : m \in 1 .. n - 1}
  /\ KmodList = Reverse(Tail(loadedKexts))

(* No kexts keep each other alive in a circle. *)
NoRetainCycle ==
  \A k \in Kexts : k \notin AliveWith(<<>>, deps[k], deps, {})

(* reference_count covers every kext in memory that is linked against one  *)
(* in memory: it is never zero while there is one.                         *)
ReferencesCoverLinks ==
  \A k \in loaded : references[k] >= Cardinality({j \in loaded : k \in ToSet(deps[j])})

Lifecycle ==
  INSTANCE KextLifecycle
    WITH Passive <- {k \in Kexts : ~IsExecutable(k)},
         links <- [k \in Kexts |-> IF k \in loaded THEN ToSet(deps[k]) ELSE {}]

ImplementsLifecycle == Lifecycle!Spec

(* No kext runs while one of its libraries does not: "Not starting %s -    *)
(* dependency %s not started yet", OSKext.cpp:6382.                        *)
LibrariesRunFirst ==
  \A k \in started, j \in loaded : j \in ToSet(deps[k]) => NothingToStart(j)

(* The recursion over dependencies ends, whatever libraries the kexts      *)
(* declare and whichever of them replace each other: a kext is resolved,   *)
(* loaded, started or removed on behalf of itself only to be told at once. *)
RecursionEnds ==
  \A m, n \in DOMAIN stack :
    m < n /\ stack[m].op = stack[n].op /\ stack[m].kext = stack[n].kext =>
      n = Len(stack) /\ Top.at = "begin"
=============================================================================
