--------------------------- MODULE OSKextSources ---------------------------
(***************************************************************************)
(* Where kexts come from (src/libkern/src/OSKext.cpp): the prelinked       *)
(* kernel, the booter's device tree and archives, and the archives that    *)
(* come with the load requests of user space; which copy of a kext is      *)
(* registered; the list of kexts that must not be loaded; and what becomes *)
(* of the buffer of a request, which is deallocated after it.              *)
(*                                                                         *)
(* An operation holds sKextLock from its first step to its last.  How a    *)
(* kext is linked and started is the business of OSKextLoad: here a load   *)
(* succeeds or fails.  A copy of a kext has a number; who holds it is      *)
(* what can be reached from the table, the loaded kexts and the            *)
(* dependencies, so that a copy nobody holds is gone at once.              *)
(***************************************************************************)
EXTENDS Integers, Sequences, SequencesExt, FiniteSets

CONSTANTS
  Bundles,     \* the kexts on disk
  Of,          \* what their files say, see SourcesAssumption
  BuiltIn,     \* the sequence of bundles of the prelinked kernel
  Booted,      \* the sequence of those the booter read one by one
  BootArchive, \* the sequence of those in the booter's archive
  Archives,    \* the archives that come with requests: sequences of bundles
  SafeBoot,    \* sSafeBoot
  MaxCopies,   \* bound: the copies alive at a time
  MaxRequests, \* bound: the requests of user space
  May,         \* what may go wrong in this instance, see Events
  None

(* Memory is short, an executable cannot be extracted or linked, or load-  *)
(* ing is disabled.                                                        *)
Events == {"memory", "link", "disable"}

Ids == {Of[b].id : b \in Bundles}
Copies == 1 .. MaxCopies

(* The text of an exclude list entry: a sequence of version numbers and of *)
(* these marks.                                                            *)
LT == -2
LE == -3
Comma == -4
Space == -5
Marks == {LT, LE, Comma, Space}

ASSUME SourcesAssumption ==
  /\ May \subseteq Events /\ None \notin Ids /\ None \notin Bundles
  /\ \A b \in Bundles :
       /\ DOMAIN Of[b] = {"id", "version", "valid", "code", "needs", "safe", "drives",
                          "excludes", "text", "host"}
       /\ Of[b].version \in Nat \ {0} /\ Of[b].needs \subseteq Ids
       /\ Of[b].valid \in BOOLEAN /\ Of[b].code \in BOOLEAN /\ Of[b].safe \in BOOLEAN
       /\ Of[b].excludes \in Ids \cup {None} /\ Of[b].drives \in Ids \cup {None}
       /\ DOMAIN Of[b].host \subseteq {"needs", "safe", "drives"}

VARIABLES
  copies,      \* the copies of kexts, by number
  table,       \* sKextsByID
  loaded,      \* sLoadedKexts
  excludeList, \* sExcludeListByID and sExcludeListVersion
  userLoads,   \* sUserLoadsActive
  loadEnabled, \* sLoadEnabled
  catalogue,   \* gIOCatalogue: the kext that a personality names, and the one it is from
  unloaded,    \* sUnloadedPrelinkedKexts: identifiers
  requests,    \* how many requests came
  rebuild,     \* of the prelinked kernel: "no", "asked", or "over" (requestedPrelink)
  op,          \* the operation under way,
  at,          \* the step it is about to take,
  todo,        \* the bundles it has yet to read,
  wanted,      \* the identifier to load,
  matching,    \* whose personalities are not to be sent: "none", "kext" or "all",
  work,        \* the calls of load, each for a dependency of the one before
  swept        \* the last flush went through

kexts == <<copies, table, loaded>>
switches == <<excludeList, userLoads, loadEnabled>>
others == <<catalogue, unloaded, requests, rebuild>>
locals == <<op, at, todo, wanted, matching, work>>
vars == <<kexts, switches, others, locals, swept>>

NoCopy ==
  [bundle |-> None, buffer |-> "none", executable |-> "none", prelinked |-> FALSE,
   resolved |-> FALSE, needs |-> {}]

Idle == op = "none"
In(o, step) == op = o /\ at = step

Init ==
  /\ copies = [n \in Copies |-> NoCopy]
  /\ table = [i \in Ids |-> 0] /\ loaded = <<>>
  /\ excludeList = [version |-> 0, of |-> None]
  /\ userLoads = FALSE /\ loadEnabled = TRUE /\ catalogue = {}
  /\ requests = 0 /\ unloaded = {} /\ rebuild = "no"
  /\ op = "boot" /\ at = "list" /\ todo = BuiltIn \o Booted /\ wanted = None
  /\ matching = "all" /\ work = <<>>
  /\ swept = TRUE

-----------------------------------------------------------------------------
(* getPropertyForHostArch: what is said for this architecture comes first, *)
(* except of the identifier, the version and the executable.               *)
Property(b, key) == IF key \in DOMAIN Of[b].host THEN Of[b].host[key] ELSE Of[b][key]

IdOf(n) == Of[copies[n].bundle].id
VersionOf(n) == Of[copies[n].bundle].version
IsLoaded(n) == Contains(loaded, n)

(* The copies that somebody holds; the others are freed. *)
Held(cs, t, l) ==
  LET reach[n \in 0 .. MaxCopies] ==
        IF n = 0 THEN ({t[i] : i \in Ids} \cup ToSet(l)) \ {0}
        ELSE LET before == reach[n - 1]
             IN  before \cup UNION {cs[m].needs : m \in before}
  IN  reach[MaxCopies]

Holding(cs, t, l) ==
  LET held == Held(cs, t, l)
  IN  /\ copies' = [n \in Copies |-> IF n \in held THEN cs[n] ELSE NoCopy]
      /\ table' = t /\ loaded' = l

Unused == {n \in Copies : copies[n].bundle = None}
Fresh == CHOOSE n \in Unused : \A m \in Unused : n <= m

-----------------------------------------------------------------------------
(* isInExcludeList.  The comma counts as white space; a version ends only  *)
(* where a comma or the end follows it at once, and else what comes next   *)
(* is appended to it, which makes it none (-1).  The mark of the first     *)
(* version goes with it.                                                   *)
Marked(text) == IF text # <<>> /\ Head(text) \in {LT, LE} THEN Head(text) ELSE Space

(* Mutant: up to a version leaves that version out. *)
BugMatches(mark, version, excluded) ==
  CASE mark \in {LE, LT} -> version < excluded
    [] OTHER -> version = excluded

Matches(mark, version, excluded) ==
  CASE mark = LE -> version <= excluded
    [] mark = LT -> version < excluded
    [] OTHER -> version = excluded

(* After a version: it is compared, unless more of it follows. *)
NextVersion(state, text, i, version) ==
  IF i = Len(text) \/ text[i + 1] = Comma
  THEN [found |-> state.found \/ Matches(state.mark, version, state.read),
        mark |-> Space, read |-> 0]
  ELSE state

InText(text, version) ==
  LET state[i \in 0 .. Len(text)] ==
        IF i = 0 THEN [found |-> FALSE, mark |-> Marked(text), read |-> 0]
        ELSE LET s == state[i - 1]
             IN  IF text[i] \in Marks THEN s
                 ELSE NextVersion([s EXCEPT !.read = IF s.read = 0 THEN text[i] ELSE -1],
                                  text, i, version)
  IN  state[Len(text)].found

IsInExcludeList(b) ==
  /\ excludeList.of # None
  /\ Of[excludeList.of].excludes = Of[b].id
  /\ InText(Of[excludeList.of].text, Of[b].version)

(* updateExcludeList: a newer list replaces the one there is, which is     *)
(* lost even if there is no memory for the newer one.                      *)
UpdateExcludeList(b) ==
  IF Of[b].excludes = None \/ Of[b].version <= excludeList.version THEN UNCHANGED excludeList
  ELSE \E list \in {b} \cup (IF "memory" \in May THEN {None} ELSE {}) :
         excludeList' = [version |-> Of[b].version, of |-> list]

-----------------------------------------------------------------------------
(* registerIdentifier: the table after copy n, which has just been made.   *)
Pinned(m) == IsLoaded(m) \/ copies[m].prelinked

(* Mutant: a prelinked kext that is not loaded gives way. *)
BugWins(b, m) ==
  m # 0 => ~IsLoaded(m) /\ (userLoads \/ Of[b].version > VersionOf(m))

Wins(b, m) ==
  m # 0 => ~Pinned(m) /\ (userLoads \/ Of[b].version > VersionOf(m))

(* setInfoDictionaryAndPath. *)
Acceptable(b) == Of[b].valid /\ ~IsInExcludeList(b)

(* The initialization of a copy of bundle b, with the buffer that its      *)
(* executable is part of, up to its registration.                          *)
Made(b, executable, buffer, prelinked) ==
  IF Of[b].code
  THEN [NoCopy EXCEPT !.bundle = b, !.executable = executable, !.buffer = buffer,
                      !.prelinked = prelinked]
  ELSE [NoCopy EXCEPT !.bundle = b, !.prelinked = prelinked]

(* Its caller lets go of it, since the table keeps it if it is registered. *)
Registered(b, copy) ==
  IF Acceptable(b) /\ Wins(b, table[Of[b].id])
  THEN /\ Unused # {}
       /\ \/ Holding([copies EXCEPT ![Fresh] = copy], [table EXCEPT ![Of[b].id] = Fresh], loaded)
          \/ "memory" \in May /\ UNCHANGED kexts
  ELSE UNCHANGED kexts

-----------------------------------------------------------------------------
(* Booting: the exclude list comes first, then the prelinked kexts or the  *)
(* booter's, and then the booter's archive.                                *)
ListsOf(bs) == SelectSeq(bs, LAMBDA b : Of[b].excludes # None)

BootExcludeList ==
  /\ In("boot", "list") /\ at' = "read"
  /\ IF ListsOf(todo) = <<>> THEN UNCHANGED excludeList ELSE UpdateExcludeList(Head(ListsOf(todo)))
  /\ UNCHANGED <<kexts, userLoads, loadEnabled, others, op, todo, wanted, matching, work, swept>>

InitWithPrelinkedInfoDict ==
  /\ In("boot", "read") /\ Len(todo) > Len(Booted)
  /\ todo' = Tail(todo)
  /\ Registered(Head(todo), Made(Head(todo), "linked", "none", TRUE))
  /\ UNCHANGED <<switches, others, op, at, wanted, matching, work, swept>>

(* A copy with an executable retains the data of the booter. *)
InitWithBooterData ==
  /\ In("boot", "read") /\ todo # <<>> /\ Len(todo) <= Len(Booted)
  /\ todo' = Tail(todo)
  /\ Registered(Head(todo), Made(Head(todo), "plain", "booter", FALSE))
  /\ UNCHANGED <<switches, others, op, at, wanted, matching, work, swept>>

(* readMkextArchive, which refuses what is not an archive of version 2. *)
ReadMkextArchive ==
  /\ In("boot", "read") /\ todo = <<>>
  /\ op' = "archive"
  /\ todo' \in {BootArchive, <<>>}
  /\ UNCHANGED <<kexts, switches, others, at, wanted, matching, work, swept>>

BootEnds ==
  /\ In("archive", "read") /\ todo = <<>>
  /\ op' = "none" /\ at' = "begin"
  /\ UNCHANGED <<kexts, switches, others, todo, wanted, matching, work, swept>>

-----------------------------------------------------------------------------
(* loadFromMkext.  An archive that cannot be read, and a request that says *)
(* nothing to load, go on to the end at once.                              *)
LoadFromMkext ==
  /\ Idle /\ requests < MaxRequests
  /\ requests' = requests + 1
  /\ userLoads' = TRUE
  /\ op' = "request"
  /\ \E archive \in Archives, i \in Ids :
       IF loadEnabled THEN todo' = archive /\ wanted' = i /\ at' = "read"
       ELSE todo' = <<>> /\ wanted' = None /\ at' = "finish"
  /\ UNCHANGED <<kexts, excludeList, loadEnabled, catalogue, unloaded, rebuild, matching, work,
                 swept>>

ReadFails ==
  /\ In("request", "read") /\ at' = "finish" /\ todo' = <<>>
  /\ UNCHANGED <<kexts, switches, others, op, wanted, matching, work, swept>>

(* createMkext2FileEntry: the copy refers to the executable within the     *)
(* archive, and retains the archive for it.                                *)
CreateMkext2FileEntry(b) == Made(b, "packed", IF op = "request" THEN "request" ELSE "booter", FALSE)

WithMkext2Info(b) == Registered(b, CreateMkext2FileEntry(b))

(* One turn of the loop of readMkext2Archive. *)
ReadMkext2Archive ==
  /\ op \in {"archive", "request"} /\ at = "read" /\ todo # <<>>
  /\ todo' = Tail(todo)
  /\ WithMkext2Info(Head(todo))
  /\ UNCHANGED <<switches, others, op, at, wanted, matching, work, swept>>

-----------------------------------------------------------------------------
(* loadKextWithIdentifier, for a request or for the kernel itself. *)
Call(n) == [of |-> n, resolved |-> FALSE, left |-> {}]

LoadKextWithIdentifier(i) ==
  /\ wanted' = i
  /\ IF table[i] = 0 THEN at' = "finish" /\ UNCHANGED <<matching, work>>
     ELSE at' = "load" /\ matching' \in {"none", "kext", "all"} /\ work' = <<Call(table[i])>>
  /\ UNCHANGED <<kexts, switches, others, todo, swept>>

BeginLoad ==
  \/ In("request", "read") /\ todo = <<>> /\ LoadKextWithIdentifier(wanted) /\ UNCHANGED op
  \/ Idle /\ op' = "load" /\ \E i \in Ids : LoadKextWithIdentifier(i)

Loading == at = "load"
Target == Last(work).of
BundleOf(n) == copies[n].bundle

Refused(n) ==
  \/ IsInExcludeList(BundleOf(n))
  \/ ~IsLoaded(n) /\ ~loadEnabled
  \/ ~IsLoaded(n) /\ Of[BundleOf(n)].code /\ SafeBoot /\ ~Property(BundleOf(n), "safe")

(* removePersonalitiesFromCatalog goes by the name in them. *)
Without(cat, id) == {p \in cat : p.names # id}

(* removeKext, of copy n: unless its identifier finds another, and, when   *)
(* it is loaded, unless its services do not terminate or a kext depends on *)
(* it.  Terminating them takes the personalities with them in any case.    *)
Ways == {"keep", "terminate", "busy"}

Removed(before, n, way) ==
  LET inUse == n \in ToSet(before.loaded) /\ \E m \in Copies : n \in copies[m].needs
      quiet == IF way = "keep" THEN before.cat ELSE Without(before.cat, IdOf(n))
  IN  CASE \/ before.table[IdOf(n)] # n
           \/ n \in ToSet(before.loaded) /\ way = "busy" -> before
        [] inUse /\ way # "busy" -> [before EXCEPT !.cat = quiet]
        [] OTHER -> [table |-> [before.table EXCEPT ![IdOf(n)] = 0],
                     loaded |-> SelectSeq(before.loaded, LAMBDA m : m # n), cat |-> quiet]

Now(l, cat) == [table |-> table, loaded |-> l, cat |-> cat]

(* unload remembers the prelinked kexts among those it unloads. *)
Unloading(l, left) ==
  unloaded' = unloaded \cup {IdOf(n) : n \in {m \in ToSet(l) \ ToSet(left) : copies[m].prelinked}}

(* What load does at its end: a kext without an executable must not be     *)
(* named by a personality, or the registry never goes quiet.               *)
Quiet(cat) == IF Of[BundleOf(Target)].code THEN cat ELSE Without(cat, IdOf(Target))

(* A load that fails makes those it is part of fail, and each of them is   *)
(* removed by whoever asked for it.                                        *)
Fails(cs, l) ==
  /\ at' = "finish" /\ matching' = "all" /\ work' = <<>>
  /\ \E way \in {"terminate", "busy"} :
       LET after == FoldLeft(LAMBDA before, call : Removed(before, call.of, way),
                             Now(l, Quiet(catalogue)), Reverse(work))
       IN  Holding(cs, after.table, after.loaded) /\ catalogue' = after.cat
           /\ Unloading(l, after.loaded)

LoadRefused ==
  /\ Loading /\ Refused(Target) /\ Fails(copies, loaded)
  /\ UNCHANGED <<switches, requests, rebuild, op, todo, wanted, swept>>

Done(cs, l) ==
  /\ Holding(cs, table, l) /\ UNCHANGED unloaded
  /\ IF Len(work) = 1 THEN at' = "finish" /\ matching' = "all" /\ work' = <<>>
     ELSE UNCHANGED <<at, matching>> /\ work' = Front(work)

-----------------------------------------------------------------------------
(* sendPersonalitiesToCatalog, which load calls last and whose result is   *)
(* that of the load: a kext that is loaded already is then removed.        *)
Sends == matching = "none" \/ (matching = "kext" /\ Len(work) > 1)
MaySend(n) == loadEnabled /\ (SafeBoot => Property(BundleOf(n), "safe"))

(* copyPersonalitiesArray *)
PersonalitiesOf(n) ==
  IF Property(BundleOf(n), "drives") = None THEN {}
  ELSE {[names |-> Property(BundleOf(n), "drives"), from |-> IdOf(n)]}

(* A request may give the names of the personalities, or of none there is. *)
Named == op = "request" /\ Len(work) = 1

LoadReturns(cs, l) ==
  \/ ~Sends /\ Done(cs, l) /\ catalogue' = Quiet(catalogue)
  \/ /\ Sends /\ MaySend(Target) /\ Done(cs, l)
     /\ \/ catalogue' = Quiet(catalogue \cup PersonalitiesOf(Target))
        \/ (Named \/ "memory" \in May) /\ catalogue' = Quiet(catalogue)
  \/ /\ Sends
     /\ ~MaySend(Target) \/ (Named /\ "memory" \in May)
     /\ Fails(cs, l)

(* A kext without an executable is never marked as loaded. *)
LoadCodeless ==
  /\ Loading /\ ~Refused(Target) /\ ~IsLoaded(Target) /\ ~Of[BundleOf(Target)].code
  /\ UpdateExcludeList(BundleOf(Target))
  /\ LoadReturns(copies, loaded)
  /\ UNCHANGED <<userLoads, loadEnabled, requests, rebuild, op, todo, wanted, swept>>

LoadAgain ==
  /\ Loading /\ ~Refused(Target) /\ IsLoaded(Target)
  /\ LoadReturns(copies, loaded)
  /\ UNCHANGED <<switches, requests, rebuild, op, todo, wanted, swept>>

ToLoad(n) == Loading /\ ~Refused(n) /\ ~IsLoaded(n) /\ Of[BundleOf(n)].code

(* resolveDependencies: a library is what its identifier finds now. *)
ResolveDependencies ==
  /\ Loading /\ ToLoad(Target) /\ ~Last(work).resolved
  /\ LET found == {table[i] : i \in Property(BundleOf(Target), "needs")}
         needs == IF copies[Target].resolved THEN copies[Target].needs ELSE found
     IN  IF 0 \in needs THEN Fails(copies, loaded)
         ELSE /\ Holding([copies EXCEPT ![Target].needs = needs, ![Target].resolved = TRUE],
                         table, loaded)
              /\ work' = Append(Front(work), [of |-> Target, resolved |-> TRUE, left |-> needs])
              /\ UNCHANGED <<at, matching, catalogue, unloaded>>
  /\ UNCHANGED <<switches, requests, rebuild, op, todo, wanted, swept>>

(* Each dependency is loaded, those that are loaded already as well. *)
LoadDependency ==
  /\ Loading /\ ToLoad(Target)
  /\ \E m \in Last(work).left :
       work' = Front(work) \o <<[Last(work) EXCEPT !.left = @ \ {m}], Call(m)>>
  /\ UNCHANGED <<kexts, switches, others, op, at, todo, wanted, matching, swept>>

(* Mutant: the data that the executable is part of is not released. *)
BugSpent(n) == [copies EXCEPT ![n].executable = "none"]

(* getExecutable and setExecutable(NULL): whatever comes of the link, the  *)
(* executable is used up, and what it was part of is released.             *)
Spent(n) == [copies EXCEPT ![n].executable = "none", ![n].buffer = "none"]

Linkable(n) == Loading /\ ToLoad(n) /\ Last(work).resolved /\ Last(work).left = {}

LoadExecutable ==
  /\ Loading /\ Linkable(Target) /\ copies[Target].executable # "none"
  /\ LoadReturns(IF copies[Target].executable = "linked" THEN copies ELSE Spent(Target),
                 Append(loaded, Target))
  /\ UNCHANGED <<switches, requests, rebuild, op, todo, wanted, swept>>

LoadExecutableFails ==
  /\ Loading /\ Linkable(Target)
  /\ "link" \in May \/ copies[Target].executable = "none"
  /\ Fails(Spent(Target), loaded)
  /\ UNCHANGED <<switches, requests, rebuild, op, todo, wanted, swept>>

(* extractMkext2FileData, when there is no memory or the data is not what  *)
(* its header says.                                                        *)
ExtractionFails ==
  /\ "memory" \in May
  /\ Loading /\ Linkable(Target) /\ copies[Target].executable = "packed"
  /\ Fails(Spent(Target), loaded)
  /\ UNCHANGED <<switches, requests, rebuild, op, todo, wanted, swept>>

LoadEnds ==
  /\ In("load", "finish") /\ op' = "none" /\ at' = "begin" /\ wanted' = None
  /\ UNCHANGED <<kexts, switches, others, todo, matching, work, swept>>

-----------------------------------------------------------------------------
(* flushNonloadedKexts: the prelinked kexts are put aside, the kexts that  *)
(* are not loaded lose their dependencies, and the table is made anew of   *)
(* the loaded kexts and of those put aside.                                *)
Flushed(aside) ==
  LET cs == [n \in Copies |-> IF IsLoaded(n) \/ copies[n].bundle = None THEN copies[n]
                              ELSE [copies[n] EXCEPT !.needs = {}, !.resolved = FALSE]]
      inUse == {n \in ToSet(loaded) : \A m \in ToSet(loaded) : IdOf(m) = IdOf(n) =>
                  SelectLastInSeq(loaded, LAMBDA k : k = m)
                    <= SelectLastInSeq(loaded, LAMBDA k : k = n)}
      t == [i \in Ids |->
              LET set == {n \in aside : IdOf(n) = i} \cup
                         {n \in inUse : IdOf(n) = i /\ \A m \in aside : IdOf(m) # i}
              IN  IF set = {} THEN 0 ELSE CHOOSE n \in set : TRUE]
  IN  Holding(cs, t, loaded)

PrelinkedKexts == {table[i] : i \in {j \in Ids : table[j] # 0 /\ copies[table[j]].prelinked}}

FlushNonloadedKexts(flushPrelinkedKexts) ==
  \/ Flushed(IF flushPrelinkedKexts THEN {} ELSE PrelinkedKexts) /\ swept' = TRUE
  \/ "memory" \in May /\ ~flushPrelinkedKexts /\ Flushed({}) /\ swept' = TRUE
  \/ "memory" \in May /\ swept' = FALSE /\ UNCHANGED kexts

(* The end of loadFromMkext: the buffer is deallocated by whoever called,  *)
(* and a copy that still refers to it refers to nothing.                   *)
FinishRequest ==
  /\ In("request", "finish") /\ at' = "deallocate"
  /\ todo' = <<>> /\ wanted' = None /\ work' = <<>>
  /\ FlushNonloadedKexts(FALSE)
  /\ UNCHANGED <<switches, others, op, matching>>

Deallocate ==
  /\ In("request", "deallocate") /\ op' = "none" /\ at' = "begin"
  /\ copies' = [n \in Copies |->
                  IF copies[n].buffer = "request" THEN [copies[n] EXCEPT !.buffer = "gone"]
                  ELSE copies[n]]
  /\ UNCHANGED <<table, loaded, switches, others, todo, wanted, matching, work, swept>>

Removing(n, ways) ==
  \E way \in ways :
    LET after == Removed(Now(loaded, catalogue), n, way)
    IN  /\ after # Now(loaded, catalogue)
        /\ Holding(copies, after.table, after.loaded) /\ Unloading(loaded, after.loaded)
        /\ catalogue' = after.cat

RemoveKextWithIdentifier(i) ==
  /\ Idle /\ table[i] # 0 /\ Removing(table[i], Ways)
  /\ UNCHANGED <<switches, requests, rebuild, locals, swept>>

(* removeKextWithLoadTag looks among the loaded kexts. *)
RemoveKextWithLoadTag(n) ==
  /\ Idle /\ IsLoaded(n) /\ Removing(n, Ways)
  /\ UNCHANGED <<switches, requests, rebuild, locals, swept>>

(* _OSKextConsiderUnloads begins with a flush of its own, goes over the    *)
(* loaded kexts until none of them can be unloaded, and ends with the      *)
(* question of the prelinked kernel.                                       *)
ConsiderUnloads ==
  /\ Idle /\ op' = "scan"
  /\ FlushNonloadedKexts(TRUE)
  /\ UNCHANGED <<switches, others, at, todo, wanted, matching, work>>

AutounloadKext(n) ==
  /\ op = "scan" /\ IsLoaded(n) /\ Removing(n, {"keep"})
  /\ UNCHANGED <<switches, requests, rebuild, locals, swept>>

(* Mutant: it may be asked for again. *)
BugAskable == BuiltIn # <<>>

(* Once, and only if the machine was booted from a prelinked kernel. *)
Askable == rebuild = "no" /\ BuiltIn # <<>>

(* _OSKextInUnloadedPrelinkedKexts *)
IsNew(i) == table[i] # 0 /\ ~copies[table[i]].prelinked /\ i \notin unloaded

(* Startup is long past, or there is no memory to look. *)
TooLate == Askable /\ rebuild' = "over" /\ UNCHANGED unloaded

(* Nothing is decided while a deferred load has yet to succeed, or too     *)
(* soon after waking up.                                                   *)
ConsiderRebuildOfPrelinkedKernel ==
  /\ op = "scan" /\ op' = "none"
  /\ \/ UNCHANGED <<rebuild, unloaded>>
     \/ TooLate
     \/ /\ Askable
        /\ unloaded' = {}
        /\ \/ (\E i \in Ids : IsNew(i)) /\ rebuild' = "asked"
           \/ ((\A i \in Ids : ~IsNew(i)) \/ "memory" \in May) /\ rebuild' = "over"
  /\ UNCHANGED <<kexts, switches, catalogue, requests, at, todo, wanted, matching, work, swept>>

(* When IOKit starts, every kext that may be loaded is offered for match-  *)
(* ing at once.                                                            *)
SendAllKextPersonalitiesToCatalog ==
  /\ Idle
  /\ LET eligible == {n \in {table[i] : i \in Ids} \ {0} : SafeBoot => Property(BundleOf(n), "safe")}
     IN  catalogue' = catalogue \cup UNION {PersonalitiesOf(n) : n \in eligible}
  /\ UNCHANGED <<kexts, switches, unloaded, requests, rebuild, locals, swept>>

SetLoadEnabled ==
  /\ Idle /\ "disable" \in May /\ loadEnabled' = ~loadEnabled
  /\ UNCHANGED <<kexts, excludeList, userLoads, others, locals, swept>>

Next ==
  \/ BootExcludeList \/ InitWithPrelinkedInfoDict \/ InitWithBooterData
  \/ ReadMkextArchive \/ BootEnds
  \/ LoadFromMkext \/ ReadFails \/ ReadMkext2Archive
  \/ BeginLoad \/ LoadRefused \/ LoadCodeless \/ LoadAgain \/ ResolveDependencies
  \/ LoadDependency \/ LoadExecutable \/ LoadExecutableFails
  \/ ExtractionFails \/ LoadEnds
  \/ FinishRequest \/ Deallocate
  \/ ConsiderUnloads \/ ConsiderRebuildOfPrelinkedKernel
  \/ \E n \in Copies : AutounloadKext(n)
  \/ \E i \in Ids : RemoveKextWithIdentifier(i)
  \/ \E n \in Copies : RemoveKextWithLoadTag(n)
  \/ SendAllKextPersonalitiesToCatalog \/ SetLoadEnabled

Spec == Init /\ [][Next]_vars

-----------------------------------------------------------------------------
(* What the variables hold. *)
TypeOK ==
  /\ \A n \in Copies :
       /\ copies[n].bundle \in Bundles \cup {None}
       /\ copies[n].buffer \in {"none", "booter", "request", "gone"}
       /\ copies[n].executable \in {"none", "plain", "packed", "linked"}
       /\ copies[n].needs \subseteq Copies
  /\ table \in [Ids -> Copies \cup {0}]
  /\ ToSet(loaded) \subseteq Copies
  /\ catalogue \subseteq [names : Ids, from : Ids]
  /\ unloaded \subseteq Ids /\ rebuild \in {"no", "asked", "over"}
  /\ \A call \in ToSet(work) : call.of \in Copies /\ call.left \subseteq Copies

(* The comment of loadFromMkext: no reference to the buffer of a request   *)
(* can remain after it, since the caller deallocates the buffer.  So it is *)
(* unless the flush at the end of the request had no memory, and again     *)
(* after the next flush that goes through.                                 *)
BufferIsLetGo == swept => \A n \in Copies : copies[n].buffer # "gone"

(* No kext is loaded that the list in force excludes, as the comment at    *)
(* isInExcludeList reads its text: "1.0, 1.1" is either version, and       *)
(* "LE 2.0" every one up to 2.0.  And a list gives way to newer ones only. *)
Excludes(text, version) ==
  LET numbers == SelectSeq(text, LAMBDA x : x \notin Marks)
      upTo == LE \in ToSet(text)
      below == LT \in ToSet(text)
  IN  \/ version \in ToSet(IF below THEN Tail(numbers) ELSE numbers)
      \/ (upTo \/ below) /\ version < Head(numbers)

ExcludedIsKeptOut ==
  [][/\ \A n \in ToSet(loaded') \ ToSet(loaded) :
          excludeList.of # None => 
            ~(/\ Of[excludeList.of].excludes = Of[BundleOf(n)].id
              /\ Excludes(Of[excludeList.of].text, Of[BundleOf(n)].version))
     /\ excludeList'.version >= excludeList.version]_vars
=============================================================================
