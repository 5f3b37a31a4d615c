------------------------- MODULE OSKextLoad_proofs -------------------------
(***************************************************************************)
(* Proofs about the loading of kexts.                                      *)
(*                                                                         *)
(* None of the properties is inductive.  The invariant IInv adds what      *)
(* every call under way relies on: that links go in an order (Graph), that *)
(* the array, the list and the counts of references agree with what is in  *)
(* memory (Memory), where each caller waits and for whom (Control), and    *)
(* what each call has found out and may still rely on (Loads, Resolves,    *)
(* Starts, Removes).  A step is first classified by what it does to the    *)
(* stack (Pops, Moves, CallsFrom) and to the kexts (Steady, Losing, or one *)
(* of the four that link, load and unload).                                *)
(***************************************************************************)
EXTENDS OSKextLoad, SequenceLemmas, FiniteSetTheorems, TLAPS
Usable(full) == full \cup Components \cup {Kernel}

(* The order of the links: among any kexts there is one that none of them  *)
(* depends on.                                                             *)
Ordered(libraries) ==
  \A S \in SUBSET Kexts : S # {} => \E k \in S : \A j \in S : k \notin ToSet(libraries[j])

(* What is resolved has resolved dependencies; parts of the kernel have    *)
(* none, and codeless kexts are nobody's.                                  *)
Resolving(libraries, full) ==
  /\ \A k \in Usable(full) : ToSet(libraries[k]) \subseteq Usable(full)
  /\ \A k \in Components \cup {Kernel} : libraries[k] = <<>>
  /\ \A k \in Kexts : ToSet(libraries[k]) \cap Codeless = {}

Graph == Ordered(deps) /\ Resolving(deps, resolved)

(* The array of loaded kexts. *)
Listing(array, in, libraries) ==
  /\ ToSet(array) = in
  /\ \A m, n \in DOMAIN array : array[m] = array[n] => m = n
  /\ 1 \in DOMAIN array /\ array[1] = Kernel
  /\ \A n \in DOMAIN array : \A k \in ToSet(libraries[array[n]]) : \E m \in 1 .. n - 1 : array[m] = k

Chaining(array, head, next) ==
  /\ head = IF Len(array) = 1 THEN None ELSE array[Len(array)]
  /\ \A n \in 3 .. Len(array) : next[array[n]] = array[n - 1]

Memory ==
  /\ Listing(loadedKexts, loaded, deps)
  /\ Chaining(loadedKexts, kmods.kmod, kmods.next)
  /\ loaded \subseteq Usable(resolved)
  /\ started \subseteq loaded /\ inUse \subseteq started
  /\ ReferencesCoverLinks

Ops == {"request", "load", "resolve", "start", "remove", "unload", "scan"}

Labels == {"begin", "loading", "removed", "resolved", "dependency", "dependencies", "loaded", "end",
           "library", "added", "unloaded", "stop", "release", "next"}

FrameType ==
  [op : Ops, at : Labels, kext : Kexts \cup {None}, i : Nat,
   opt : {"none", "kext", "all"}, flag : BOOLEAN, mkext : BOOLEAN]

Typed ==
  /\ byId \in [Ids -> Kexts \cup {None}]
  /\ loadedKexts \in Seq(Kexts)
  /\ loaded \subseteq Kexts
  /\ resolved \subseteq Kexts /\ delayed \subseteq Kexts /\ held \subseteq Kexts
  /\ deps \in [Kexts -> Seq(Kexts)]
  /\ kmods \in [kmod : Kexts \cup {None}, next : [Kexts -> Kexts \cup {None}]]
  /\ references \in [Kexts -> Int] /\ nextTag \in 0 .. InvalidTag
  /\ enabled \subseteq {"load", "unload"} /\ userLoads \in BOOLEAN
  /\ result \in {"success", "error"}
  /\ stack \in Seq(FrameType)

(* Where a call can be, *)
WellPlaced(f) ==
  /\ \/ f.op = "request" /\ f.at \in {"loading", "removed"}
     \/ f.op = "load" /\ f.at \in {"begin", "resolved", "dependency", "loaded", "end"}
     \/ f.op = "resolve" /\ f.at \in {"begin", "library", "added"}
     \/ f.op = "start" /\ f.at \in {"begin", "dependencies", "dependency"}
     \/ f.op = "remove" /\ f.at \in {"begin", "unloaded"}
     \/ f.op = "unload" /\ f.at \in {"begin", "stop", "release"}
     \/ f.op = "scan" /\ f.at \in {"next", "removed"}
  /\ f.op # "scan" => f.kext \in Kexts
  /\ f.at \in {"begin", "resolved", "dependencies"} => f.i = 0
  /\ f.op = "scan" /\ f.at = "removed" => f.i > 0

(* whom it calls from there, *)
Calls(f, g) ==
  \/ f.op = "request" /\ f.at = "loading" /\ g.op = "load" /\ g.kext = f.kext
  \/ f.op = "request" /\ f.at = "removed" /\ g.op = "remove" /\ g.kext = f.kext
  \/ f.op = "load" /\ f.at = "resolved" /\ g.op = "resolve" /\ g.kext = f.kext
  \/ f.op = "load" /\ f.at = "dependency" /\ g.op = "load"
  \/ f.op = "load" /\ f.at = "end" /\ g.op = "start" /\ g.kext = f.kext
  \/ f.op = "resolve" /\ f.at = "added" /\ g.op = "resolve"
  \/ f.op = "start" /\ f.at = "dependency" /\ g.op = "start"
  \/ f.op = "remove" /\ f.at = "unloaded" /\ g.op = "unload" /\ g.kext = f.kext
  \/ f.op = "scan" /\ f.at = "removed" /\ g.op = "remove"

(* and which calls can be under way under which.                           *)
Above(o, p) ==
  \/ o = "request" /\ p \in {"load", "resolve", "start", "remove", "unload"}
  \/ o = "load" /\ p \in {"load", "resolve", "start"}
  \/ o = "resolve" /\ p = "resolve"
  \/ o = "start" /\ p = "start"
  \/ o = "remove" /\ p = "unload"
  \/ o = "scan" /\ p \in {"remove", "unload"}

(* Who may be returned an error. *)
ErrorFits(f) ==
  \/ f.op = "request"
  \/ f.op = "load" /\ f.at \in {"resolved", "dependency", "end"}
  \/ f.op = "resolve" /\ f.at = "added"
  \/ f.op = "start" /\ f.at = "dependency"
  \/ f.op = "remove"
  \/ f.op = "scan" /\ f.at = "removed"

Control ==
  /\ \A n \in DOMAIN stack : WellPlaced(stack[n])
  /\ \A n \in DOMAIN stack : n < Len(stack) => Calls(stack[n], stack[n + 1])
  /\ \A m, n \in DOMAIN stack : m < n => Above(stack[m].op, stack[n].op)
  /\ ~Succeeded => ~Idle /\ ErrorFits(Top)

Going == Succeeded \/ Top.op = "start"

(* A load has found out: first that its kext can be loaded, then which of  *)
(* its libraries are, finally that it is in memory itself.                 *)
LoadFits(n) ==
  LET f == stack[n]
      k == f.kext
  IN  /\ f.at \in {"loaded", "end"} => k \in loaded \cup Codeless
      /\ f.at = "resolved" =>
           /\ k \notin loaded
           /\ n = Len(stack) /\ Succeeded => k \in Usable(resolved)
      /\ f.at = "dependency" /\ Going =>
           /\ k \in Usable(resolved) \ loaded
           /\ f.i \in DOMAIN deps[k]
           /\ \A j \in 1 .. f.i - 1 : deps[k][j] \in loaded
           /\ IF n = Len(stack) THEN deps[k][f.i] \in loaded ELSE stack[n + 1].kext = deps[k][f.i]

Loads ==
  /\ \A n \in DOMAIN stack : stack[n].op = "load" => LoadFits(n)
  /\ \A m, n \in DOMAIN stack :
       m < n /\ stack[m].op = "load" /\ stack[n].op = "load" => stack[m].kext # stack[n].kext

(* A kext that is being resolved is linked to resolved ones only, and no   *)
(* load waits for its dependencies meanwhile.                              *)
ResolveFits(n) ==
  LET f == stack[n]
      k == f.kext
  IN  f.at \in {"library", "added"} =>
        /\ k \notin Usable(resolved) /\ ToSet(deps[k]) \subseteq Usable(resolved)
        /\ f.i \in 0 .. Len(LibrariesOf[k])
        /\ \A m \in 1 .. n - 1 : stack[m].op = "load" => stack[m].at # "dependency"
        /\ f.at = "added" =>
             /\ f.i < Len(LibrariesOf[k])
             /\ LET library == byId[LibrariesOf[k][f.i + 1]]
                IN  /\ library \in Kexts
                    /\ IF n = Len(stack) THEN Succeeded => library \in Usable(resolved)
                       ELSE stack[n + 1].kext = library

Resolves ==
  /\ \A n \in DOMAIN stack : stack[n].op = "resolve" => ResolveFits(n)
  /\ \A m, n \in DOMAIN stack :
       m < n /\ stack[m].op = "resolve" /\ stack[n].op = "resolve" /\ stack[n].at # "begin" =>
         stack[m].kext # stack[n].kext

(* A start has tried the libraries before the one it is at.  One that has  *)
(* executable libraries itself counts as tried, for better or worse.       *)
Tried(j) == NothingToStart(j) \/ \E l \in ToSet(deps[j]) : IsExecutable(l)

StartFits(n) ==
  LET f == stack[n]
      k == f.kext
  IN  f.at \in {"dependencies", "dependency"} =>
        /\ k \in loaded /\ IsExecutable(k)
        /\ \A j \in DOMAIN deps[k] : j < f.i => Tried(deps[k][j])
        /\ f.at = "dependency" =>
             /\ f.i \in DOMAIN deps[k]
             /\ IF n < Len(stack) THEN stack[n + 1].kext = deps[k][f.i]
                ELSE IF Succeeded THEN Tried(deps[k][f.i]) ELSE IsExecutable(deps[k][f.i])

Starts ==
  /\ \A n \in DOMAIN stack : stack[n].op = "start" => StartFits(n)
  /\ \A m, n \in DOMAIN stack :
       m < n /\ stack[m].op = "start" /\ stack[n].op = "start" => stack[m].kext # stack[n].kext

(* What is unloaded has its identifier still, and past the checks nobody   *)
(* is linked to it.                                                        *)
RemoveFits(f) ==
  /\ f.op = "remove" /\ f.at = "unloaded" => byId[IdOf[f.kext]] = f.kext
  /\ f.op = "unload" =>
       /\ f.kext \in loaded /\ byId[IdOf[f.kext]] = f.kext
       /\ f.at # "begin" =>
            /\ f.kext \notin Components \cup {Kernel}
            /\ \A j \in Kexts : f.kext \notin ToSet(deps[j])
       /\ f.at = "release" => f.kext \notin started

(* The scan is at a place of the array that is there, though what it       *)
(* removes goes from the array behind it.                                  *)
ScanFits(f) ==
  /\ f.at = "next" => f.i \in 0 .. Len(loadedKexts)
  /\ f.at = "removed" =>
       /\ f.i \in 1 .. Len(loadedKexts) + 1
       /\ Top.op = "unload" \/ Top.at = "begin" => f.i <= Len(loadedKexts)

Removes ==
  /\ \A n \in DOMAIN stack : RemoveFits(stack[n])
  /\ \A n \in DOMAIN stack : stack[n].op = "scan" => ScanFits(stack[n])

(* What a walk along the dependencies reaches in n steps. *)
Roots(ids, array, refs) == ({ids[i] : i \in DOMAIN ids} \cup ToSet(array) \cup refs) \ {None}

Further(libraries, S) == S \cup UNION {ToSet(libraries[k]) : k \in S}

Reaches(roots, libraries, f) ==
  /\ f \in [Nat -> SUBSET Kexts] /\ f[0] = roots
  /\ \A n \in Nat : f[n + 1] = Further(libraries, f[n])

(* One step of the walk. *)
LEMMA FurtherFacts ==
  ASSUME NEW libraries \in [Kexts -> Seq(Kexts)], NEW S \in SUBSET Kexts
  PROVE  /\ Further(libraries, S) \in SUBSET Kexts /\ S \subseteq Further(libraries, S)
         /\ \A k \in S : ToSet(libraries[k]) \subseteq Further(libraries, S)
         /\ \A x \in Further(libraries, S) : x \in S \/ \E k \in S : x \in ToSet(libraries[k])
<1>1. \A k \in S : ToSet(libraries[k]) \subseteq Kexts
  BY ToSetFacts
<1> QED BY <1>1 DEF Further

(* AliveWith is such a walk, of as many steps as there are kexts. *)
LEMMA AliveIsReached ==
  ASSUME NEW ids, NEW array, NEW refs, NEW libraries \in [Kexts -> Seq(Kexts)],
         Roots(ids, array, refs) \subseteq Kexts
  PROVE  \E f : /\ Reaches(Roots(ids, array, refs), libraries, f)
                /\ AliveWith(ids, array, libraries, refs) = f[Cardinality(Kexts)]
<1>1. PICK roots : roots = Roots(ids, array, refs)
  OBVIOUS
<1>2. PICK g : g = [n \in Nat |-> [S \in SUBSET Kexts |-> Further(libraries, S)]]
  OBVIOUS
<1>3. StepsWithin(Nat, SUBSET Kexts, g)
  BY <1>2, FurtherFacts DEF StepsWithin
<1>4. PICK e : IteratesOn(SUBSET Kexts, roots, g, e)
  BY <1>1, <1>3, Recursion
<1>5. /\ e \in [Nat -> SUBSET Kexts] /\ e[0] = roots
      /\ \A n \in Nat : e[n + 1] = Further(libraries, e[n])
  BY <1>2, <1>4 DEF IteratesOn
<1> DEFINE Step(h, n) == IF n = 0 THEN roots
                         ELSE LET before == h[n - 1]
                              IN  before \cup UNION {ToSet(libraries[k]) : k \in before}
           f == CHOOSE f : f = [n \in Nat |-> Step(f, n)]
<1>6. e = [n \in Nat |-> Step(e, n)]
  <2>1. ASSUME NEW n \in Nat PROVE e[n] = Step(e, n)
    <3>1. CASE n = 0
      BY <1>5, <3>1
    <3>2. CASE n # 0
      <4>1. PICK m \in Nat : n = m + 1 /\ n - 1 = m
        BY <3>2
      <4> QED BY <1>5, <3>2, <4>1 DEF Further
    <3> QED BY <3>1, <3>2
  <2> HIDE DEF Step
  <2> QED BY <1>5, <2>1
<1>7. f = [n \in Nat |-> Step(f, n)]
  <2> HIDE DEF Step
  <2> QED BY <1>6
<1>8. AliveWith(ids, array, libraries, refs) = f[Cardinality(Kexts)]
  BY <1>1 DEF AliveWith, Roots
<1> HIDE DEF f
<1>9. f[0] = roots /\ \A n \in Nat : f[n + 1] = Further(libraries, f[n])
  <2>1. f[0] = roots
    BY <1>7
  <2>2. ASSUME NEW n \in Nat PROVE f[n + 1] = Further(libraries, f[n])
    <3>1. n + 1 \in Nat /\ n + 1 # 0 /\ (n + 1) - 1 = n
      OBVIOUS
    <3>2. f[n + 1] = Step(f, n + 1)
      <4> HIDE DEF Step
      <4> QED BY <1>7, <3>1
    <3>3. Step(f, n + 1) = f[n] \cup UNION {ToSet(libraries[k]) : k \in f[n]}
      BY <3>1
    <3> QED BY <3>2, <3>3 DEF Further
  <2> QED BY <2>1, <2>2
<1>10. f \in [Nat -> SUBSET Kexts]
  <2> DEFINE T == {n \in Nat : f[n] \in SUBSET Kexts}
  <2>1. 0 \in T
    BY <1>1, <1>9
  <2>2. ASSUME NEW n \in Nat, n \in T PROVE n + 1 \in T
    <3>1. PICK S \in SUBSET Kexts : S = f[n]
      BY <2>2
    <3>2. Further(libraries, S) \in SUBSET Kexts
      BY FurtherFacts
    <3>3. f[n + 1] = Further(libraries, S) /\ n + 1 \in Nat
      BY <1>9, <3>1
    <3> QED BY <3>2, <3>3
  <2>3. Nat \subseteq T
    <3> HIDE DEF T
    <3> QED BY <2>1, <2>2, Induction
  <2>4. f = [n \in Nat |-> f[n]]
    <3> HIDE DEF Step
    <3> QED BY <1>7
  <2> QED BY <2>3, <2>4
<1> QED BY <1>1, <1>8, <1>9, <1>10 DEF Reaches

(* What one step finds, and that a walk that finds nothing has ended. *)
LEMMA ReachFacts ==
  ASSUME NEW libraries \in [Kexts -> Seq(Kexts)], NEW roots, NEW f, Reaches(roots, libraries, f),
         NEW n \in Nat
  PROVE  /\ f[n] \in SUBSET Kexts /\ f[n + 1] \in SUBSET Kexts /\ f[n] \subseteq f[n + 1]
         /\ \A k \in f[n] : ToSet(libraries[k]) \subseteq f[n + 1]
         /\ \A x \in f[n + 1] : x \in f[n] \/ \E k \in f[n] : x \in ToSet(libraries[k])
         /\ f[n + 1] = f[n] => f[n + 1 + 1] = f[n + 1]
<1>1. /\ f[n] \in SUBSET Kexts /\ f[n + 1] \in SUBSET Kexts /\ f[n + 1] = Further(libraries, f[n])
      /\ f[n + 1 + 1] = Further(libraries, f[n + 1])
  <2>1. n + 1 \in Nat
    OBVIOUS
  <2> QED BY <2>1 DEF Reaches
<1>2. PICK S \in SUBSET Kexts : S = f[n]
  BY <1>1
<1>3. /\ S \subseteq Further(libraries, S)
      /\ \A k \in S : ToSet(libraries[k]) \subseteq Further(libraries, S)
      /\ \A x \in Further(libraries, S) : x \in S \/ \E k \in S : x \in ToSet(libraries[k])
  BY FurtherFacts
<1>4. f[n + 1] = Further(libraries, S)
  BY <1>1, <1>2
<1>5. f[n + 1] = f[n] => f[n + 1 + 1] = f[n + 1]
  BY <1>1
<1> QED BY <1>1, <1>2, <1>3, <1>4, <1>5

(* After as many steps as there are kexts the walk has come everywhere:    *)
(* each step before finds another kext.                                    *)
LEMMA ReachEnds ==
  ASSUME NEW libraries \in [Kexts -> Seq(Kexts)], NEW roots, NEW f, Reaches(roots, libraries, f)
  PROVE  /\ f[Cardinality(Kexts)] \subseteq Kexts /\ roots \subseteq f[Cardinality(Kexts)]
         /\ \A k \in f[Cardinality(Kexts)] : ToSet(libraries[k]) \subseteq f[Cardinality(Kexts)]
<1> USE LoadAssumption
<1> DEFINE C == Cardinality(Kexts)
<1>1. /\ f \in [Nat -> SUBSET Kexts] /\ f[0] = roots
      /\ \A n \in Nat : f[n + 1] = Further(libraries, f[n])
  BY DEF Reaches
<1>2. C \in Nat /\ IsFiniteSet(Kexts)
  BY FS_CardinalityType DEF LoadAssumption
<1> DEFINE T == {n \in Nat : roots \subseteq f[n] /\ (f[n + 1] = f[n] \/ Cardinality(f[n]) >= n)}
<1>3. 0 \in T
  <2>1. IsFiniteSet(f[0])
    BY <1>1, <1>2, FS_Subset
  <2>2. Cardinality(f[0]) \in Nat
    BY <2>1, FS_CardinalityType
  <2> QED BY <1>1, <2>2
<1>4. ASSUME NEW n \in Nat, n \in T PROVE n + 1 \in T
  <2>1. f[n] \in SUBSET Kexts /\ f[n + 1] \in SUBSET Kexts
    BY ReachFacts
  <2>2. f[n] \subseteq f[n + 1]
    BY ReachFacts
  <2>3. CASE f[n + 1] = f[n]
    <3>1. f[n + 1 + 1] = f[n + 1]
      <4>1. n + 1 \in Nat
        OBVIOUS
      <4>2. f[n + 1] = Further(libraries, f[n]) /\ f[n + 1 + 1] = Further(libraries, f[n + 1])
        BY <1>1, <4>1
      <4> QED BY <2>3, <4>2
    <3> QED BY <1>4, <2>3, <3>1
  <2>4. CASE f[n + 1] # f[n] /\ Cardinality(f[n]) >= n
    <3>1. IsFiniteSet(f[n + 1]) /\ IsFiniteSet(f[n])
      BY <1>2, <2>1, FS_Subset
    <3>2. Cardinality(f[n]) \in Nat /\ Cardinality(f[n + 1]) \in Nat
      BY <3>1, FS_CardinalityType
    <3>3. Cardinality(f[n]) < Cardinality(f[n + 1])
      BY <2>2, <2>4, <3>1, <3>2, FS_Subset
    <3>4. Cardinality(f[n + 1]) >= n + 1
      BY <2>4, <3>2, <3>3
    <3> QED BY <1>4, <2>2, <3>4
  <2> QED BY <1>4, <2>3, <2>4
<1>5. C \in T
  <2> HIDE DEF T, C
  <2>1. Nat \subseteq T
    BY <1>3, <1>4, Induction
  <2> QED BY <1>2, <2>1
<1>6. PICK S : S = f[C] /\ S \in SUBSET Kexts /\ roots \subseteq S
  BY <1>1, <1>2, <1>5
<1>7. \A k \in S : ToSet(libraries[k]) \subseteq S
  <2>1. CASE f[C + 1] = f[C]
    <3>1. PICK c \in Nat : c = C
      BY <1>2
    <3>2. \A k \in f[c] : ToSet(libraries[k]) \subseteq f[c + 1]
      BY ReachFacts
    <3> QED BY <1>6, <2>1, <3>1, <3>2
  <2>2. CASE Cardinality(f[C]) >= C
    <3>1. S = Kexts
      <4>1. IsFiniteSet(S) /\ Cardinality(S) \in Nat
        BY <1>2, <1>6, FS_Subset, FS_CardinalityType
      <4>2. Cardinality(S) >= C
        BY <1>6, <2>2
      <4>3. Cardinality(S) <= C /\ (Cardinality(S) = C => S = Kexts)
        BY <1>2, <1>6, FS_Subset
      <4> QED BY <1>2, <4>1, <4>2, <4>3
    <3> QED BY <3>1, ToSetFacts
  <2> QED BY <1>5, <2>1, <2>2
<1> QED BY <1>6, <1>7

(* Whoever is alive has live dependencies, and the roots are alive. *)
LEMMA AliveFacts ==
  ASSUME NEW ids \in [Ids -> Kexts \cup {None}], NEW array \in Seq(Kexts),
         NEW refs \in SUBSET Kexts, NEW libraries \in [Kexts -> Seq(Kexts)]
  PROVE  LET alive == AliveWith(ids, array, libraries, refs)
         IN  /\ alive \subseteq Kexts /\ ToSet(array) \subseteq alive /\ refs \subseteq alive
             /\ \A i \in Ids : ids[i] # None => ids[i] \in alive
             /\ \A k \in alive : ToSet(libraries[k]) \subseteq alive
<1> USE LoadAssumption
<1>1. ToSet(array) \subseteq Kexts
  BY ToSetFacts
<1>2. /\ Roots(ids, array, refs) \subseteq Kexts /\ ToSet(array) \subseteq Roots(ids, array, refs)
      /\ refs \subseteq Roots(ids, array, refs)
      /\ \A i \in Ids : ids[i] # None => ids[i] \in Roots(ids, array, refs)
  BY <1>1 DEF Roots, LoadAssumption
<1>3. PICK f : /\ Reaches(Roots(ids, array, refs), libraries, f)
               /\ AliveWith(ids, array, libraries, refs) = f[Cardinality(Kexts)]
  BY <1>2, AliveIsReached
<1>4. PICK roots, S : roots = Roots(ids, array, refs) /\ S = f[Cardinality(Kexts)]
  OBVIOUS
<1>5. S \subseteq Kexts /\ roots \subseteq S /\ \A k \in S : ToSet(libraries[k]) \subseteq S
  BY <1>3, <1>4, ReachEnds
<1> QED BY <1>2, <1>3, <1>4, <1>5

(* Where the links are in order, no kext can be reached from itself.       *)
LEMMA OrderedHasNoCycle ==
  ASSUME NEW libraries \in [Kexts -> Seq(Kexts)], Ordered(libraries), NEW k \in Kexts
  PROVE  k \notin AliveWith(<<>>, libraries[k], libraries, {})
<1> USE LoadAssumption
<1>1. PICK roots : roots = Roots(<<>>, libraries[k], {}) /\ roots = ToSet(libraries[k])
  <2>1. ToSet(libraries[k]) \subseteq Kexts
    BY ToSetFacts
  <2> QED BY <2>1 DEF Roots, LoadAssumption
<1>2. roots \subseteq Kexts
  BY <1>1, ToSetFacts
<1>3. PICK f : /\ Reaches(roots, libraries, f)
               /\ AliveWith(<<>>, libraries[k], libraries, {}) = f[Cardinality(Kexts)]
  <2>1. PICK array, ids, refs : array = libraries[k] /\ ids = <<>> /\ refs = {}
    OBVIOUS
  <2>2. Roots(ids, array, refs) \subseteq Kexts
    BY <1>1, <1>2, <2>1
  <2>3. \E f : /\ Reaches(Roots(ids, array, refs), libraries, f)
               /\ AliveWith(ids, array, libraries, refs) = f[Cardinality(Kexts)]
    BY <2>2, AliveIsReached
  <2> QED BY <1>1, <2>1, <2>3
<1>4. /\ f \in [Nat -> SUBSET Kexts] /\ f[0] = roots
      /\ \A n \in Nat : f[n + 1] = Further(libraries, f[n])
  BY <1>3 DEF Reaches
<1>5. SUFFICES ASSUME k \in f[Cardinality(Kexts)] PROVE FALSE
  BY <1>3
<1> DEFINE S == UNION {f[n] : n \in Nat}
           T == {n \in Nat : \A x \in f[n] : \E y \in S : x \in ToSet(libraries[y])}
<1>6. k \in S /\ S \in SUBSET Kexts
  <2>1. Cardinality(Kexts) \in Nat
    BY FS_CardinalityType DEF LoadAssumption
  <2> QED BY <1>4, <1>5, <2>1
<1>7. 0 \in T
  <2> HIDE DEF S
  <2> QED BY <1>1, <1>4, <1>6
<1>8. ASSUME NEW n \in Nat, n \in T PROVE n + 1 \in T
  <2>1. f[n] \subseteq S
    OBVIOUS
  <2>2. \A x \in f[n + 1] : x \in f[n] \/ \E y \in f[n] : x \in ToSet(libraries[y])
    BY <1>3, ReachFacts
  <2>3. ASSUME NEW x \in f[n + 1] PROVE \E y \in S : x \in ToSet(libraries[y])
    <3> HIDE DEF S
    <3> QED BY <1>8, <2>1, <2>2, <2>3
  <2> HIDE DEF S
  <2> QED BY <2>3
<1>9. \A x \in S : \E y \in S : x \in ToSet(libraries[y])
  <2>1. Nat \subseteq T
    <3> HIDE DEF T
    <3> QED BY <1>7, <1>8, Induction
  <2> QED BY <2>1
<1> HIDE DEF S
<1> QED BY <1>6, <1>9 DEF Ordered

(* WithAll adds the elements of one sequence to another. *)
LEMMA WithAllFacts ==
  ASSUME NEW s \in Seq(Kexts), NEW t \in Seq(Kexts)
  PROVE  WithAll(s, t) \in Seq(Kexts) /\ ToSet(WithAll(s, t)) = ToSet(s) \cup ToSet(t)
<1> DEFINE Add(x, e) == IF e \in ToSet(x) THEN x ELSE Append(x, e)
           N == Len(t)
<1>1. N \in Nat /\ DOMAIN t = 1 .. N /\ \A j \in 1 .. N : t[j] \in Kexts
  BY ToSetFacts, ElementOfSeq
<1>2. \A x \in Seq(Kexts), e \in Kexts :
        Add(x, e) \in Seq(Kexts) /\ ToSet(Add(x, e)) = ToSet(x) \cup {e}
  BY AppendFacts
<1>3. PICK g : g = [j \in 1 .. N |-> [x \in Seq(Kexts) |-> Add(x, t[j])]]
  OBVIOUS
<1>4. StepsWithin(1 .. N, Seq(Kexts), g)
  <2> HIDE DEF Add, N
  <2> QED BY <1>1, <1>2, <1>3 DEF StepsWithin
<1>5. PICK e : Iterates(N, Seq(Kexts), s, g, e)
  BY <1>1, <1>4, RecursionTo
<1>6. e \in [0 .. N -> Seq(Kexts)] /\ e[0] = s /\ \A j \in 1 .. N : e[j] = g[j][e[j - 1]]
  BY <1>5 DEF Iterates
<1>7. \A j \in 1 .. N : e[j] = Add(e[j - 1], t[j])
  <2> TAKE j \in 1 .. N
  <2>1. j - 1 \in 0 .. N
    BY <1>1
  <2> HIDE DEF Add, N
  <2> QED BY <1>3, <1>6, <2>1
<1> DEFINE Step(h, i) == IF i = 0 THEN s
                         ELSE IF t[i] \in ToSet(h[i - 1]) THEN h[i - 1] ELSE Append(h[i - 1], t[i])
           f == CHOOSE f : f = [i \in 0 .. N |-> Step(f, i)]
<1>8. e = [i \in 0 .. N |-> Step(e, i)]
  <2>1. ASSUME NEW i \in 0 .. N PROVE e[i] = Step(e, i)
    <3>1. CASE i = 0
      BY <1>6, <3>1
    <3>2. CASE i # 0
      <4>1. i \in 1 .. N
        BY <1>1, <3>2
      <4> QED BY <1>7, <3>2, <4>1
    <3> QED BY <3>1, <3>2
  <2> HIDE DEF Step
  <2> QED BY <1>6, <2>1
<1>9. f = [i \in 0 .. N |-> Step(f, i)]
  <2> HIDE DEF Step
  <2> QED BY <1>8
<1>10. WithAll(s, t) = f[N]
  BY DEF WithAll
<1> HIDE DEF f
<1>11. f[0] = s /\ \A j \in 1 .. N : f[j] = Add(f[j - 1], t[j])
  <2>1. 0 \in 0 .. N /\ \A j \in 1 .. N : j \in 0 .. N /\ j # 0
    BY <1>1
  <2>2. \A i \in 0 .. N : f[i] = Step(f, i)
    <3> HIDE DEF Step
    <3> QED BY <1>9
  <2> QED BY <2>1, <2>2
<1> DEFINE T == {j \in 0 .. N : f[j] \in Seq(Kexts) /\ ToSet(f[j]) = ToSet(s) \cup {t[l] : l \in 1 .. j}}
<1>12. 0 \in T
  <2>1. 1 .. 0 = {} /\ 0 \in 0 .. N
    BY <1>1
  <2> QED BY <1>11, <2>1
<1>13. ASSUME NEW j \in 1 .. N, j - 1 \in T PROVE j \in T
  <2>1. PICK h : h = f[j - 1] /\ h \in Seq(Kexts) /\ ToSet(h) = ToSet(s) \cup {t[l] : l \in 1 .. j - 1}
    BY <1>13
  <2>2. f[j] = Add(h, t[j]) /\ t[j] \in Kexts
    BY <1>1, <1>11, <2>1
  <2>3. f[j] \in Seq(Kexts) /\ ToSet(f[j]) = ToSet(h) \cup {t[j]}
    <3> HIDE DEF Add
    <3> QED BY <1>2, <2>1, <2>2
  <2>4. 1 .. j = 1 .. j - 1 \cup {j} /\ j \in 0 .. N
    BY <1>1
  <2>5. {t[l] : l \in 1 .. j} = {t[l] : l \in 1 .. j - 1} \cup {t[j]}
    BY <2>4
  <2> QED BY <2>1, <2>3, <2>4, <2>5
<1>14. N \in T
  <2> HIDE DEF T, N
  <2>1. 0 .. N \subseteq T
    BY <1>1, <1>12, <1>13, InductionTo
  <2> QED BY <1>1, <2>1
<1>15. ToSet(t) = {t[l] : l \in 1 .. N}
  BY <1>1 DEF ToSet
<1> QED BY <1>10, <1>14, <1>15

(* An array that lists each kext once is as long as its kexts are many.    *)
LEMMA ListingCount ==
  ASSUME NEW array \in Seq(Kexts), \A m, n \in DOMAIN array : array[m] = array[n] => m = n
  PROVE  Cardinality(ToSet(array)) = Len(array) /\ IsFiniteSet(ToSet(array))
<1>1. DOMAIN array = 1 .. Len(array) /\ Len(array) \in Nat
  BY ToSetFacts
<1>2. array \in [1 .. Len(array) -> ToSet(array)]
  <2>1. array = [n \in 1 .. Len(array) |-> array[n]]
    BY <1>1
  <2>2. \A n \in 1 .. Len(array) : array[n] \in ToSet(array)
    BY <1>1 DEF ToSet
  <2> QED BY <2>1, <2>2
<1>3. array \in Bijection(1 .. Len(array), ToSet(array))
  <2>1. array \in Injection(1 .. Len(array), ToSet(array))
    BY <1>1, <1>2 DEF Injection, IsInjective
  <2>2. array \in Surjection(1 .. Len(array), ToSet(array))
    BY <1>1, <1>2 DEF Surjection, ToSet
  <2> QED BY <2>1, <2>2 DEF Bijection
<1>4. ExistsBijection(1 .. Len(array), ToSet(array))
  BY <1>3 DEF ExistsBijection
<1>5. IsFiniteSet(1 .. Len(array)) /\ Cardinality(1 .. Len(array)) = Len(array)
  BY <1>1, FS_Interval
<1> QED BY <1>4, <1>5, FS_Bijection

(* The list of kmod_info structs of a chained array goes down from its end.*)
LEMMA ChainIsFollowed ==
  ASSUME NEW array \in Seq(Kexts), array # <<>>,
         kmods \in [kmod : Kexts \cup {None}, next : [Kexts -> Kexts \cup {None}]],
         loadedKexts = array, Chaining(array, kmods.kmod, kmods.next)
  PROVE  KmodList = Reverse(Tail(array))
<1> USE LoadAssumption
<1> DEFINE C == Kexts \cup {None}
           Next1(x) == IF x = None THEN None ELSE kmods.next[x]
<1>1. PICK N : N \in Nat /\ N = Len(array) /\ N >= 1 /\ DOMAIN array = 1 .. N
  <2>1. Len(array) \in Nat /\ DOMAIN array = 1 .. Len(array)
    BY ToSetFacts
  <2>2. Len(array) # 0
    BY EmptySeq
  <2> QED BY <2>1, <2>2
<1>2. \A x \in C : Next1(x) \in C
  BY DEF LoadAssumption
<1>3. PICK g : g = [n \in Nat |-> [x \in C |-> Next1(x)]]
  OBVIOUS
<1>4. StepsWithin(Nat, C, g)
  <2> HIDE DEF Next1, C
  <2> QED BY <1>2, <1>3 DEF StepsWithin
<1>5. PICK e : IteratesOn(C, kmods.kmod, g, e)
  <2>1. PICK base \in C : base = kmods.kmod
    OBVIOUS
  <2>2. \E f : IteratesOn(C, base, g, f)
    <3> HIDE DEF C
    <3> QED BY <1>4, Recursion
  <2> QED BY <2>1, <2>2
<1>6. e \in [Nat -> C] /\ e[0] = kmods.kmod /\ \A n \in Nat : e[n + 1] = Next1(e[n])
  <2> HIDE DEF Next1, C
  <2> QED BY <1>3, <1>5 DEF IteratesOn
<1> DEFINE Step(h, n) == IF n = 0 THEN kmods.kmod
                         ELSE IF h[n - 1] = None THEN None ELSE kmods.next[h[n - 1]]
           f == CHOOSE f : f = [n \in Nat |-> Step(f, n)]
<1>7. e = [n \in Nat |-> Step(e, n)]
  <2>1. ASSUME NEW n \in Nat PROVE e[n] = Step(e, n)
    <3>1. CASE n = 0
      BY <1>6, <3>1
    <3>2. CASE n # 0
      <4>1. PICK m \in Nat : n = m + 1 /\ n - 1 = m
        BY <3>2
      <4> QED BY <1>6, <3>2, <4>1
    <3> QED BY <3>1, <3>2
  <2> HIDE DEF Step
  <2> QED BY <1>6, <2>1
<1>8. f = [n \in Nat |-> Step(f, n)]
  <2> HIDE DEF Step
  <2> QED BY <1>7
<1>9. KmodList = [n \in 1 .. N - 1 |-> f[n - 1]]
  BY <1>1 DEF KmodList
<1> HIDE DEF f
<1>10. f[0] = kmods.kmod /\ \A n \in Nat : n # 0 => f[n] = Next1(f[n - 1])
  <2>1. \A n \in Nat : f[n] = Step(f, n)
    <3> HIDE DEF Step
    <3> QED BY <1>8
  <2> QED BY <2>1
<1>11. \A n \in 1 .. N : array[n] \in Kexts
  BY <1>1, ElementOfSeq
<1>12. /\ kmods.kmod = IF N = 1 THEN None ELSE array[N]
       /\ \A n \in 3 .. N : kmods.next[array[n]] = array[n - 1]
  BY <1>1 DEF Chaining
<1>13. CASE N = 1
  <2>1. Tail(array) \in Seq(Kexts) /\ Len(Tail(array)) = 0
    BY <1>1, <1>13, HeadTailProperties
  <2>2. N - 1 = 0 /\ 1 .. 0 = {}
    BY <1>13
  <2>3. Reverse(Tail(array)) = [n \in 1 .. 0 |-> Tail(array)[(0 - n) + 1]]
    BY <2>1 DEF Reverse
  <2> QED BY <1>9, <2>2, <2>3
<1>14. CASE N # 1
  <2>1. PICK M : M \in Nat /\ M = N - 2
    <3>1. N - 2 \in Nat
      BY <1>1, <1>14
    <3> QED BY <3>1
  <2> DEFINE T == {n \in 0 .. M : f[n] = array[N - n]}
  <2>2. 0 \in T
    <3>1. N - 0 = N /\ 0 \in 0 .. M
      BY <1>1, <2>1
    <3> QED BY <1>10, <1>12, <1>14, <3>1
  <2>3. ASSUME NEW n \in 1 .. M, n - 1 \in T PROVE n \in T
    <3>1. PICK m : m = N - n + 1 /\ m \in 3 .. N /\ m \in 1 .. N /\ m = N - (n - 1) /\ m - 1 = N - n
      BY <1>1, <2>1
    <3>2. f[n - 1] = array[m] /\ array[m] \in Kexts
      BY <1>11, <2>3, <3>1
    <3>3. f[n] = Next1(f[n - 1])
      BY <1>10
    <3>4. f[n] = array[m - 1]
      BY <1>12, <3>1, <3>2, <3>3 DEF LoadAssumption
    <3> QED BY <3>1, <3>4
  <2>4. \A n \in 0 .. M : f[n] = array[N - n]
    <3>1. 0 .. M \subseteq T
      <4> HIDE DEF T
      <4> QED BY <2>1, <2>2, <2>3, InductionTo
    <3> QED BY <3>1
  <2>5. PICK t : t = Tail(array) /\ t \in Seq(Kexts) /\ Len(t) = N - 1
                 /\ \A n \in 1 .. N - 1 : t[n] = array[n + 1]
    <3>1. Tail(array) \in Seq(Kexts) /\ Len(Tail(array)) = N - 1
      BY <1>1, HeadTailProperties
    <3>2. \A n \in 1 .. N - 1 : Tail(array)[n] = array[n + 1]
      BY <1>1
    <3> QED BY <3>1, <3>2
  <2>6. ASSUME NEW n \in 1 .. N - 1 PROVE f[n - 1] = t[(N - 1 - n) + 1]
    <3>1. n - 1 \in 0 .. M /\ N - n \in 1 .. N - 1 /\ (N - 1 - n) + 1 = N - n /\ (N - n) + 1 = N - (n - 1)
      BY <1>1, <2>1
    <3> QED BY <2>4, <2>5, <3>1
  <2>7. Reverse(t) = [n \in 1 .. N - 1 |-> t[(N - 1 - n) + 1]]
    BY <2>5 DEF Reverse
  <2> QED BY <1>9, <2>5, <2>6, <2>7
<1> QED BY <1>13, <1>14

(* Two holders are the dictionary and the array: one that has no more, no  *)
(* kext depends on.                                                        *)
LEMMA Unclaimed ==
  ASSUME deps \in [Kexts -> Seq(Kexts)], loadedKexts \in Seq(Kexts), NEW k \in Kexts,
         k \in ToSet(loadedKexts), byId[IdOf[k]] = k, ~HasClients(k)
  PROVE  \A j \in Kexts : k \notin ToSet(deps[j])
<1> USE LoadAssumption
<1> DEFINE D == {j \in Kexts : k \in ToSet(deps[j])}
           O == {i \in DOMAIN loadedKexts : loadedKexts[i] = k}
<1>1. IsFiniteSet(D) /\ Cardinality(D) \in Nat
  BY FS_Subset, FS_CardinalityType DEF LoadAssumption
<1>2. IsFiniteSet(O) /\ Cardinality(O) \in Nat /\ O # {}
  <2>1. DOMAIN loadedKexts = 1 .. Len(loadedKexts) /\ Len(loadedKexts) \in Nat /\ O # {}
    BY ToSetFacts
  <2>2. IsFiniteSet(DOMAIN loadedKexts)
    BY <2>1, FS_Interval
  <2>3. IsFiniteSet(O)
    BY <2>2, FS_Subset
  <2> QED BY <2>1, <2>3, FS_CardinalityType
<1>3. Cardinality(O) # 0
  BY <1>2, FS_EmptySet
<1>4. RetainCount(k) = 1 + Cardinality(O) + (IF k \in held THEN 1 ELSE 0) + Cardinality(D)
  BY DEF RetainCount, Occurrences
<1> HIDE DEF D, O
<1>5. Cardinality(D) = 0
  BY <1>1, <1>2, <1>3, <1>4 DEF HasClients
<1>6. D = {}
  BY <1>1, <1>5, FS_EmptySet
<1> QED BY <1>6 DEF D


-----------------------------------------------------------------------------
(* What a step does to the stack. *)
Pops ==
  /\ stack' \in Seq(FrameType) /\ DOMAIN stack' = 1 .. Len(stack') /\ Len(stack') = Len(stack) - 1
  /\ \A n \in 1 .. Len(stack) - 1 : stack'[n] = stack[n]

Replaces(f) ==
  /\ stack' \in Seq(FrameType) /\ DOMAIN stack' = 1 .. Len(stack') /\ Len(stack') = Len(stack)
  /\ \A n \in 1 .. Len(stack) - 1 : stack'[n] = stack[n]
  /\ stack'[Len(stack)] = f

Pushes(f, g) ==
  /\ stack' \in Seq(FrameType) /\ DOMAIN stack' = 1 .. Len(stack') /\ Len(stack') = Len(stack) + 1
  /\ \A n \in 1 .. Len(stack) - 1 : stack'[n] = stack[n]
  /\ stack'[Len(stack)] = f /\ stack'[Len(stack) + 1] = g

(* The stack is a sequence of frames, the innermost last. *)
LEMMA StackFacts ==
  ASSUME stack \in Seq(FrameType)
  PROVE  /\ DOMAIN stack = 1 .. Len(stack) /\ Len(stack) \in Nat
         /\ Idle <=> Len(stack) = 0
         /\ ~Idle => /\ Len(stack) \in DOMAIN stack /\ Top = stack[Len(stack)] /\ Top \in FrameType
         /\ \A n \in DOMAIN stack : stack[n] \in FrameType
<1>1. DOMAIN stack = 1 .. Len(stack) /\ Len(stack) \in Nat
  OBVIOUS
<1>2. Idle <=> Len(stack) = 0
  BY EmptySeq DEF Idle
<1>3. \A n \in DOMAIN stack : stack[n] \in FrameType
  BY ElementOfSeq
<1>4. ~Idle => Len(stack) \in DOMAIN stack
  BY <1>1, <1>2
<1> QED BY <1>1, <1>2, <1>3, <1>4 DEF Top, Last

(* The frames below the innermost. *)
LEMMA BelowTop ==
  ASSUME NEW N \in Nat
  PROVE  \A n \in 1 .. N - 1 : n \in 1 .. N /\ n # N
OBVIOUS

(* Front, EXCEPT and Append are the three things done to the stack. *)
LEMMA PopFacts ==
  ASSUME stack \in Seq(FrameType), ~Idle, stack' = Front(stack)
  PROVE  Pops
<1>1. stack # <<>>
  BY DEF Idle
<1>2. /\ Front(stack) \in Seq(FrameType) /\ Len(Front(stack)) = Len(stack) - 1
      /\ \A n \in 1 .. Len(stack) - 1 : Front(stack)[n] = stack[n]
  BY <1>1, FrontFacts
<1>3. DOMAIN stack' = 1 .. Len(stack')
  BY <1>2
<1> QED BY <1>2, <1>3 DEF Pops

(* The innermost call goes on. *)
LEMMA ReplaceFacts ==
  ASSUME stack \in Seq(FrameType), ~Idle, NEW f \in FrameType,
         stack' = [stack EXCEPT ![Len(stack)] = f]
  PROVE  Replaces(f)
<1>1. DOMAIN stack = 1 .. Len(stack) /\ Len(stack) \in DOMAIN stack /\ Len(stack) \in Nat
  BY StackFacts
<1>2. [stack EXCEPT ![Len(stack)] = f] \in Seq(FrameType)
  BY <1>1, ExceptSeq
<1>3. stack' \in Seq(FrameType) /\ DOMAIN stack' = 1 .. Len(stack') /\ Len(stack') = Len(stack)
  BY <1>1, <1>2, LenProperties
<1>4. /\ \A n \in 1 .. Len(stack) - 1 : stack'[n] = stack[n]
      /\ stack'[Len(stack)] = f
  <2>1. \A n \in 1 .. Len(stack) - 1 : n \in 1 .. Len(stack) /\ n # Len(stack)
    BY <1>1, BelowTop
  <2>2. \A n \in 1 .. Len(stack) : stack'[n] = IF n = Len(stack) THEN f ELSE stack[n]
    BY <1>1
  <2> QED BY <1>1, <2>1, <2>2
<1> QED BY <1>3, <1>4 DEF Replaces

(* The innermost call goes on, and makes another. *)
LEMMA PushFacts ==
  ASSUME stack \in Seq(FrameType), ~Idle, NEW f \in FrameType, NEW g \in FrameType,
         stack' = Append([stack EXCEPT ![Len(stack)] = f], g)
  PROVE  Pushes(f, g)
<1>1. DOMAIN stack = 1 .. Len(stack) /\ Len(stack) \in DOMAIN stack /\ Len(stack) \in Nat
  BY StackFacts
<1>2. PICK s : s = [stack EXCEPT ![Len(stack)] = f] /\ s \in Seq(FrameType)
  BY <1>1, ExceptSeq
<1>3. Len(s) = Len(stack) /\ DOMAIN s = 1 .. Len(stack)
  BY <1>1, <1>2, LenProperties
<1>4. /\ Append(s, g) \in Seq(FrameType) /\ Len(Append(s, g)) = Len(s) + 1
      /\ DOMAIN Append(s, g) = 1 .. Len(s) + 1
      /\ \A i \in DOMAIN s : Append(s, g)[i] = s[i]
      /\ Append(s, g)[Len(s) + 1] = g
  BY <1>2, AppendFacts
<1>5. \A n \in 1 .. Len(stack) : Append(s, g)[n] = IF n = Len(stack) THEN f ELSE stack[n]
  BY <1>1, <1>2, <1>3, <1>4
<1>6. \A n \in 1 .. Len(stack) - 1 : Append(s, g)[n] = stack[n]
  <2>1. \A n \in 1 .. Len(stack) - 1 : n \in 1 .. Len(stack) /\ n # Len(stack)
    BY <1>1, BelowTop
  <2> QED BY <1>5, <2>1
<1>7. Append(s, g)[Len(stack)] = f
  BY <1>1, <1>5
<1>8. stack' = Append(s, g)
  BY <1>2
<1> QED BY <1>3, <1>4, <1>6, <1>7, <1>8 DEF Pushes

(* A caller looks at what it is told, so that it may be told of a failure. *)
LEMMA CallFacts ==
  ASSUME NEW f, NEW g, Calls(f, g)
  PROVE  ErrorFits(f) /\ Above(f.op, g.op)
BY DEF Calls, ErrorFits, Above

(* A return leaves the caller at a place that awaits it. *)
LEMMA PopControl ==
  ASSUME stack \in Seq(FrameType), Control, ~Idle, Pops,
         result' \in {"success", "error"}, Len(stack) = 1 => result' = "success"
  PROVE  Control'
<1>1. /\ DOMAIN stack = 1 .. Len(stack) /\ Len(stack) \in Nat /\ Len(stack) # 0
  BY StackFacts
<1>2. /\ DOMAIN stack' = 1 .. Len(stack) - 1 /\ Len(stack') = Len(stack) - 1
      /\ \A n \in 1 .. Len(stack) - 1 : stack'[n] = stack[n]
  BY DEF Pops
<1>3. \A n \in DOMAIN stack' : WellPlaced(stack'[n])
  BY <1>1, <1>2 DEF Control
<1>4. \A n \in DOMAIN stack' : n < Len(stack') => Calls(stack'[n], stack'[n + 1])
  BY <1>1, <1>2 DEF Control
<1>5. \A m, n \in DOMAIN stack' : m < n => Above(stack'[m].op, stack'[n].op)
  BY <1>1, <1>2 DEF Control
<1>6. ~Succeeded' => ~Idle' /\ ErrorFits(Top')
  <2>1. SUFFICES ASSUME result' # "success" PROVE ~Idle' /\ ErrorFits(Top')
    BY DEF Succeeded
  <2>2. Len(stack) # 1
    BY <2>1
  <2>3. stack' # <<>> /\ Top' = stack'[Len(stack')]
    BY <1>1, <1>2, <2>2 DEF Top, Last
  <2>4. Calls(stack[Len(stack) - 1], stack[Len(stack) - 1 + 1])
    <3>1. Len(stack) - 1 \in DOMAIN stack /\ Len(stack) - 1 < Len(stack)
      BY <1>1, <2>2
    <3> QED BY <3>1 DEF Control
  <2>5. Top' = stack[Len(stack) - 1]
    BY <1>1, <1>2, <2>2, <2>3
  <2> QED BY <2>3, <2>4, <2>5, CallFacts DEF Idle
<1> QED BY <1>3, <1>4, <1>5, <1>6 DEF Control

(* So does a call that goes on, *)
LEMMA ReplaceControl ==
  ASSUME stack \in Seq(FrameType), Control, ~Idle, NEW f, Replaces(f),
         WellPlaced(f), f.op = Top.op, f.kext = Top.kext,
         result' = "success" \/ ErrorFits(f)
  PROVE  Control'
<1>1. /\ DOMAIN stack = 1 .. Len(stack) /\ Len(stack) \in Nat /\ Len(stack) # 0
      /\ Top = stack[Len(stack)]
  BY StackFacts
<1>2. /\ DOMAIN stack' = 1 .. Len(stack) /\ Len(stack') = Len(stack)
      /\ \A n \in 1 .. Len(stack) - 1 : stack'[n] = stack[n]
      /\ stack'[Len(stack)] = f
  BY DEF Replaces
<1>3. \A n \in DOMAIN stack' : /\ n # Len(stack) => stack'[n] = stack[n] /\ n \in 1 .. Len(stack) - 1
                               /\ stack'[n].op = stack[n].op /\ stack'[n].kext = stack[n].kext
  BY <1>1, <1>2
<1>4. \A n \in DOMAIN stack' : WellPlaced(stack'[n])
  BY <1>1, <1>2, <1>3 DEF Control
<1>5. \A n \in DOMAIN stack' : n < Len(stack') => Calls(stack'[n], stack'[n + 1])
  <2> SUFFICES ASSUME NEW n \in DOMAIN stack', n < Len(stack') PROVE Calls(stack'[n], stack'[n + 1])
    OBVIOUS
  <2>1. Calls(stack[n], stack[n + 1]) /\ stack'[n] = stack[n] /\ n + 1 \in DOMAIN stack'
    BY <1>1, <1>2 DEF Control
  <2> QED BY <1>3, <2>1 DEF Calls
<1>6. \A m, n \in DOMAIN stack' : m < n => Above(stack'[m].op, stack'[n].op)
  BY <1>1, <1>2, <1>3 DEF Control
<1>7. ~Succeeded' => ~Idle' /\ ErrorFits(Top')
  <2>1. stack' # <<>> /\ Top' = stack'[Len(stack')]
    BY <1>1, <1>2 DEF Top, Last
  <2> QED BY <1>2, <2>1 DEF Idle, Succeeded
<1> QED BY <1>4, <1>5, <1>6, <1>7 DEF Control

(* and one that makes a call it may make. *)
LEMMA PushControl ==
  ASSUME stack \in Seq(FrameType), Control, ~Idle, NEW f, NEW g, Pushes(f, g),
         WellPlaced(f), WellPlaced(g), Calls(f, g), f.op = Top.op, f.kext = Top.kext,
         result' = "success" \/ ErrorFits(g)
  PROVE  Control'
<1>1. /\ DOMAIN stack = 1 .. Len(stack) /\ Len(stack) \in Nat /\ Len(stack) # 0
      /\ Top = stack[Len(stack)]
  BY StackFacts
<1>2. /\ DOMAIN stack' = 1 .. Len(stack) + 1 /\ Len(stack') = Len(stack) + 1
      /\ \A n \in 1 .. Len(stack) - 1 : stack'[n] = stack[n]
      /\ stack'[Len(stack)] = f /\ stack'[Len(stack) + 1] = g
  BY DEF Pushes
<1>3. \A n \in DOMAIN stack : /\ n # Len(stack) => stack'[n] = stack[n] /\ n \in 1 .. Len(stack) - 1
                              /\ stack'[n].op = stack[n].op /\ stack'[n].kext = stack[n].kext
  BY <1>1, <1>2
<1>4. \A n \in DOMAIN stack' : n \in DOMAIN stack \/ n = Len(stack) + 1
  BY <1>1, <1>2
<1>5. \A n \in DOMAIN stack' : WellPlaced(stack'[n])
  BY <1>1, <1>2, <1>3, <1>4 DEF Control
<1>6. \A n \in DOMAIN stack' : n < Len(stack') => Calls(stack'[n], stack'[n + 1])
  <2> SUFFICES ASSUME NEW n \in DOMAIN stack', n < Len(stack') PROVE Calls(stack'[n], stack'[n + 1])
    OBVIOUS
  <2>1. CASE n = Len(stack)
    BY <1>1, <1>2, <2>1
  <2>2. CASE n # Len(stack)
    <3>1. Calls(stack[n], stack[n + 1]) /\ stack'[n] = stack[n] /\ n + 1 \in DOMAIN stack
      BY <1>1, <1>2, <2>2 DEF Control
    <3> QED BY <1>3, <3>1 DEF Calls
  <2> QED BY <2>1, <2>2
<1>7. \A m, n \in DOMAIN stack' : m < n => Above(stack'[m].op, stack'[n].op)
  <2> SUFFICES ASSUME NEW m \in DOMAIN stack', NEW n \in DOMAIN stack', m < n
               PROVE  Above(stack'[m].op, stack'[n].op)
    OBVIOUS
  <2>1. CASE n \in DOMAIN stack
    BY <1>1, <1>2, <1>3, <2>1 DEF Control
  <2>2. CASE n = Len(stack) + 1
    <3>1. Above(Top.op, g.op)
      BY CallFacts
    <3>2. m = Len(stack) \/ (m \in DOMAIN stack /\ Above(stack[m].op, Top.op))
      BY <1>1, <1>2, <2>2 DEF Control
    <3>3. Above(stack'[m].op, g.op)
      BY <1>1, <1>3, <3>1, <3>2 DEF Above
    <3> QED BY <1>2, <2>2, <3>3
  <2> QED BY <1>4, <2>1, <2>2
<1>8. ~Succeeded' => ~Idle' /\ ErrorFits(Top')
  <2>1. stack' # <<>> /\ Top' = stack'[Len(stack')]
    BY <1>1, <1>2 DEF Top, Last
  <2> QED BY <1>2, <2>1 DEF Idle, Succeeded
<1> QED BY <1>5, <1>6, <1>7, <1>8 DEF Control

(* The innermost call goes on elsewhere, or makes a call itself. *)
Moves(label, i) ==
  \E f : /\ Replaces(f)
         /\ f.op = Top.op /\ f.kext = Top.kext /\ f.at = label /\ f.i = i

CallsFrom(label, i, op, k) ==
  \E f, g : /\ Pushes(f, g)
            /\ f.op = Top.op /\ f.kext = Top.kext /\ f.at = label /\ f.i = i
            /\ g.op = op /\ g.kext = k /\ g.at = "begin" /\ g.i = 0

Returns(r) == Pops /\ result' = IF Len(stack) = 1 THEN "success" ELSE r

(* A new frame. *)
LEMMA FrameFacts ==
  ASSUME NEW op \in Ops, NEW k \in Kexts \cup {None}
  PROVE  /\ Frame(op, k) \in FrameType
         /\ Frame(op, k).op = op /\ Frame(op, k).kext = k
         /\ Frame(op, k).at = "begin" /\ Frame(op, k).i = 0
<1>1. Frame(op, k) \in FrameType
  BY DEF Frame, FrameType, Labels
<1> QED BY <1>1 DEF Frame

(* The operators that the model writes the changes of the stack with do    *)
(* these.                                                                  *)
LEMMA ReturnDoes ==
  ASSUME stack \in Seq(FrameType), ~Idle, NEW r, Return(r)
  PROVE  Returns(r)
BY PopFacts DEF Return, Returns

(* A frame that replaces the innermost. *)
LEMMA MoveDoes ==
  ASSUME stack \in Seq(FrameType), ~Idle, NEW f \in FrameType,
         f.op = Top.op, f.kext = Top.kext, stack' = [stack EXCEPT ![Len(stack)] = f]
  PROVE  Moves(f.at, f.i)
BY ReplaceFacts DEF Moves

(* Goto. *)
LEMMA GotoDoes ==
  ASSUME stack \in Seq(FrameType), ~Idle, NEW label \in Labels, Goto(label)
  PROVE  Moves(label, Top.i)
<1>1. Top \in FrameType /\ Top = stack[Len(stack)] /\ Len(stack) \in DOMAIN stack
  BY StackFacts
<1>2. PICK f : f = [Top EXCEPT !.at = label]
  OBVIOUS
<1>3. f \in FrameType /\ f.op = Top.op /\ f.kext = Top.kext /\ f.at = label /\ f.i = Top.i
  BY <1>1, <1>2 DEF FrameType
<1>4. stack' = [stack EXCEPT ![Len(stack)] = f]
  BY <1>1, <1>2 DEF Goto
<1> QED BY <1>3, <1>4, MoveDoes

(* A frame upon one that was replaced. *)
LEMMA PushDoes ==
  ASSUME stack \in Seq(FrameType), ~Idle, NEW f \in FrameType, NEW g \in FrameType,
         f.op = Top.op, f.kext = Top.kext, g.at = "begin", g.i = 0,
         stack' = Append([stack EXCEPT ![Len(stack)] = f], g)
  PROVE  CallsFrom(f.at, f.i, g.op, g.kext)
BY PushFacts DEF CallsFrom

(* Call. *)
LEMMA CallDoes ==
  ASSUME stack \in Seq(FrameType), ~Idle, NEW label \in Labels, NEW op \in Ops,
         NEW k \in Kexts \cup {None}, Call(Frame(op, k), label)
  PROVE  CallsFrom(label, Top.i, op, k)
<1>1. Top \in FrameType /\ Top = stack[Len(stack)] /\ Len(stack) \in DOMAIN stack
  BY StackFacts
<1>2. PICK f, g : f = [Top EXCEPT !.at = label] /\ g = Frame(op, k)
  OBVIOUS
<1>3. f \in FrameType /\ f.op = Top.op /\ f.kext = Top.kext /\ f.at = label /\ f.i = Top.i
  BY <1>1, <1>2 DEF FrameType
<1>4. g \in FrameType /\ g.op = op /\ g.kext = k /\ g.at = "begin" /\ g.i = 0
  BY <1>2, FrameFacts
<1>5. stack' = Append([stack EXCEPT ![Len(stack)] = f], g)
  BY <1>1, <1>2 DEF Call
<1>6. CallsFrom(f.at, f.i, g.op, g.kext)
  BY <1>3, <1>4, <1>5, PushDoes
<1> QED BY <1>3, <1>4, <1>6

(* Where a step leaves the control, whatever it does to the rest. *)
LEMMA ReturnsControl ==
  ASSUME stack \in Seq(FrameType), Control, ~Idle, NEW r \in {"success", "error"}, Returns(r)
  PROVE  Control' /\ stack' \in Seq(FrameType) /\ result' \in {"success", "error"}
<1>1. Pops /\ result' \in {"success", "error"} /\ (Len(stack) = 1 => result' = "success")
  BY DEF Returns
<1> QED BY <1>1, PopControl DEF Pops

(* Where a call that goes on leaves the control, *)
LEMMA MovesControl ==
  ASSUME stack \in Seq(FrameType), Control, ~Idle, NEW label, NEW i, Moves(label, i),
         \A f : f.op = Top.op /\ f.kext = Top.kext /\ f.at = label /\ f.i = i =>
                  WellPlaced(f) /\ (result' = "success" \/ ErrorFits(f))
  PROVE  Control' /\ stack' \in Seq(FrameType)
<1>1. PICK f : /\ Replaces(f)
               /\ f.op = Top.op /\ f.kext = Top.kext /\ f.at = label /\ f.i = i
  BY DEF Moves
<1> QED BY <1>1, ReplaceControl DEF Replaces

(* and one that makes a call. *)
LEMMA CallsControl ==
  ASSUME stack \in Seq(FrameType), Control, ~Idle, NEW label, NEW i, NEW op, NEW k \in Kexts,
         CallsFrom(label, i, op, k), op \in {"load", "resolve", "start", "remove", "unload"},
         \A f : f.op = Top.op /\ f.kext = Top.kext /\ f.at = label /\ f.i = i =>
                  WellPlaced(f) /\ \A g : g.op = op /\ g.kext = k => Calls(f, g),
         result' = "success" \/ op = "remove"
  PROVE  Control' /\ stack' \in Seq(FrameType)
<1>1. PICK f, g : /\ Pushes(f, g)
                  /\ f.op = Top.op /\ f.kext = Top.kext /\ f.at = label /\ f.i = i
                  /\ g.op = op /\ g.kext = k /\ g.at = "begin" /\ g.i = 0
  BY DEF CallsFrom
<1>2. WellPlaced(f) /\ Calls(f, g)
  BY <1>1
<1>3. WellPlaced(g)
  BY <1>1 DEF WellPlaced
<1>4. result' = "success" \/ ErrorFits(g)
  BY <1>1 DEF ErrorFits
<1> QED BY <1>1, <1>2, <1>3, <1>4, PushControl DEF Pushes

(* What is known where the innermost call is at a label. *)
LEMMA AtFacts ==
  ASSUME stack \in Seq(FrameType), Control, NEW op, NEW label, At(op, label)
  PROVE  /\ ~Idle /\ Top \in FrameType /\ WellPlaced(Top)
         /\ Top.op = op /\ Top.at = label /\ (op # "scan" => Top.kext \in Kexts)
         /\ Len(stack) \in DOMAIN stack /\ Top = stack[Len(stack)] /\ DOMAIN stack = 1 .. Len(stack)
         /\ Succeeded \/ ErrorFits(Top)
BY StackFacts DEF At, Control, WellPlaced

-----------------------------------------------------------------------------
(* What each operation does to the stack. *)
LEMMA LoadDoes ==
  ASSUME Typed, Control
  PROVE  /\ LoadRefused \/ DependencyFailed \/ ResolveFailed \/ LoadExecutableFails => Returns("error")
         /\ LoadNothing \/ LoadExecutable => Moves("loaded", Top.i)
         /\ LoadResolves => CallsFrom("resolved", Top.i, "resolve", Top.kext)
         /\ LoadDependency =>
              /\ CallsFrom("dependency", Top.i + 1, "load", deps[Top.kext][Top.i + 1])
              /\ Top.i + 1 \in DOMAIN deps[Top.kext] /\ deps[Top.kext][Top.i + 1] \in Kexts
         /\ LoadStarts =>
              \/ Moves("end", Top.i)
              \/ CallsFrom("end", Top.i, "start", Top.kext) /\ IsExecutable(Top.kext) /\ Top.kext \notin started
         /\ LoadEnds => Returns(result) \/ Returns("error")
<1>1. stack \in Seq(FrameType)
  BY DEF Typed
<1>2. LoadRefused \/ DependencyFailed \/ ResolveFailed \/ LoadExecutableFails => Returns("error")
  <2>1. LoadRefused => ~Idle /\ Return("error")
    BY DEF LoadRefused, At
  <2>2. DependencyFailed => ~Idle /\ Return("error")
    BY DEF DependencyFailed, At
  <2>3. ResolveFailed => ~Idle /\ Return("error")
    BY DEF ResolveFailed, At
  <2>4. LoadExecutableFails => ~Idle /\ Return("error")
    BY DEF LoadExecutableFails, ReadyToLink, LibrariesAreIn, At
  <2> QED BY <1>1, <2>1, <2>2, <2>3, <2>4, ReturnDoes
<1>3. ASSUME LoadNothing \/ LoadExecutable PROVE Moves("loaded", Top.i)
  <2>1. CASE LoadExecutable
    <3>1. ~Idle /\ Goto("loaded") /\ "loaded" \in Labels
      BY <2>1 DEF LoadExecutable, ReadyToLink, LibrariesAreIn, At, Labels
    <3> QED BY <1>1, <3>1, GotoDoes
  <2>2. CASE LoadNothing
    <3>1. ~Idle
      BY <2>2 DEF LoadNothing, At
    <3>2. Top \in FrameType /\ Top = stack[Len(stack)] /\ Len(stack) \in DOMAIN stack
      BY <1>1, <3>1, StackFacts
    <3>3. PICK f : f = [Top EXCEPT !.at = "loaded", !.flag = Top.kext \in loaded]
      OBVIOUS
    <3>4. PICK t, label : t = Top /\ t \in FrameType /\ label = "loaded" /\ label \in Labels
      BY <3>2 DEF Labels
    <3>5. f \in FrameType /\ f.op = t.op /\ f.kext = t.kext /\ f.at = label /\ f.i = t.i
      <4>1. CASE t.kext \in loaded
        <5>1. f = [t EXCEPT !.at = label, !.flag = TRUE]
          BY <3>3, <3>4, <4>1
        <5> QED BY <3>4, <5>1 DEF FrameType
      <4>2. CASE t.kext \notin loaded
        <5>1. (Top.kext \in loaded) = FALSE
          BY <3>4, <4>2
        <5>2. f = [t EXCEPT !.at = label, !.flag = FALSE]
          BY <3>3, <3>4, <5>1, Zenon
        <5> QED BY <3>4, <5>2 DEF FrameType
      <4> QED BY <4>1, <4>2
    <3>6. stack' = [stack EXCEPT ![Len(stack)] = f]
      BY <2>2, <3>2, <3>3 DEF LoadNothing
    <3>7. Moves(f.at, f.i)
      BY <1>1, <3>1, <3>4, <3>5, <3>6, MoveDoes
    <3> QED BY <3>4, <3>5, <3>7
  <2> QED BY <1>3, <2>1, <2>2
<1>4. ASSUME LoadResolves PROVE CallsFrom("resolved", Top.i, "resolve", Top.kext)
  <2>1. At("load", "begin") /\ Call(Frame("resolve", Top.kext), "resolved")
    BY <1>4 DEF LoadResolves
  <2>2. ~Idle /\ Top.kext \in Kexts \cup {None} /\ "resolved" \in Labels /\ "resolve" \in Ops
    BY <1>1, <2>1, AtFacts DEF Labels, Ops
  <2> QED BY <1>1, <2>1, <2>2, CallDoes
<1>5. ASSUME LoadDependency
      PROVE  /\ CallsFrom("dependency", Top.i + 1, "load", deps[Top.kext][Top.i + 1])
             /\ Top.i + 1 \in DOMAIN deps[Top.kext] /\ deps[Top.kext][Top.i + 1] \in Kexts
  <2>1. At("load", "resolved") \/ At("load", "dependency")
    BY <1>5 DEF LoadDependency, LibrariesAreIn
  <2>2. ~Idle /\ Top \in FrameType /\ Top = stack[Len(stack)] /\ Len(stack) \in DOMAIN stack /\ Top.kext \in Kexts
    BY <1>1, <2>1, AtFacts
  <2>3. PICK d : d = deps[Top.kext][Top.i + 1]
    OBVIOUS
  <2>4. PICK f, g : /\ f = [Top EXCEPT !.at = "dependency", !.i = Top.i + 1]
                    /\ g = [Frame("load", d) EXCEPT !.opt = DependencyOpt(Top.opt)]
    OBVIOUS
  <2>5. f \in FrameType /\ f.op = Top.op /\ f.kext = Top.kext /\ f.at = "dependency" /\ f.i = Top.i + 1
    <3>1. PICK i, label : i = Top.i + 1 /\ i \in Nat /\ label = "dependency" /\ label \in Labels
      BY <2>2 DEF FrameType, Labels
    <3>2. PICK t \in FrameType : t = Top
      BY <2>2
    <3>3. PICK g1 : g1 = [t EXCEPT !.at = label, !.i = i]
      OBVIOUS
    <3>4. g1 \in FrameType /\ g1.op = t.op /\ g1.kext = t.kext /\ g1.at = label /\ g1.i = i
      BY <3>1, <3>2, <3>3 DEF FrameType
    <3>5. f = g1
      BY <2>4, <3>1, <3>2, <3>3
    <3> QED BY <3>1, <3>2, <3>4, <3>5
  <2>6. Top.i + 1 <= Len(deps[Top.kext])
    BY <1>5 DEF LoadDependency
  <2>7. d \in Kexts /\ Top.i + 1 \in DOMAIN deps[Top.kext]
    <3>1. deps[Top.kext] \in Seq(Kexts)
      BY <2>2 DEF Typed
    <3>2. Top.i \in Nat
      BY <2>2 DEF FrameType
    <3> QED BY <2>3, <2>6, <3>1, <3>2
  <2>8. g \in FrameType /\ g.op = "load" /\ g.kext = d /\ g.at = "begin" /\ g.i = 0
    <3>1. Frame("load", d) \in FrameType
      BY <2>7, FrameFacts DEF Ops
    <3>2. DependencyOpt(Top.opt) \in {"none", "kext", "all"}
      BY <2>2 DEF DependencyOpt, FrameType
    <3> QED BY <2>4, <2>7, <3>1, <3>2, FrameFacts DEF FrameType, Ops
  <2>9. stack' = Append([stack EXCEPT ![Len(stack)] = f], g)
    BY <1>5, <2>2, <2>3, <2>4 DEF LoadDependency
  <2>10. CallsFrom(f.at, f.i, g.op, g.kext)
    BY <1>1, <2>2, <2>5, <2>8, <2>9, PushDoes
  <2> QED BY <2>3, <2>5, <2>7, <2>8, <2>10
<1>6. ASSUME LoadStarts
      PROVE  \/ Moves("end", Top.i)
             \/ CallsFrom("end", Top.i, "start", Top.kext) /\ IsExecutable(Top.kext) /\ Top.kext \notin started
  <2>1. At("load", "loaded")
    BY <1>6 DEF LoadStarts
  <2>2. ~Idle /\ Top.kext \in Kexts \cup {None} /\ "end" \in Labels /\ "start" \in Ops
    BY <1>1, <2>1, AtFacts DEF Labels, Ops
  <2>3. CASE IsExecutable(Top.kext) /\ Top.kext \notin started /\ Top.opt = "none"
    <3>1. Call(Frame("start", Top.kext), "end")
      BY <1>6, <2>3 DEF LoadStarts
    <3> QED BY <1>1, <2>2, <2>3, <3>1, CallDoes
  <2>4. CASE ~(IsExecutable(Top.kext) /\ Top.kext \notin started /\ Top.opt = "none")
    <3>1. Goto("end")
      BY <1>6, <2>4 DEF LoadStarts
    <3> QED BY <1>1, <2>2, <3>1, GotoDoes
  <2> QED BY <2>3, <2>4
<1>7. ASSUME LoadEnds PROVE Returns(result) \/ Returns("error")
  <2>1. ~Idle /\ (Return(result) \/ Return("error"))
    BY <1>7 DEF LoadEnds, At
  <2> QED BY <1>1, <2>1, ReturnDoes
<1> QED BY <1>2, <1>3, <1>4, <1>5, <1>6, <1>7

(* The same for resolveDependencies, *)
LEMMA ResolveDoes ==
  ASSUME Typed, Control
  PROVE  /\ ResolveAtOnce => \/ IsResolved(Top.kext) /\ Returns("success")
                             \/ Returns("error")
         /\ ResolveBegins => IF LibrariesOf[Top.kext] = <<>> THEN Returns("error")
                             ELSE Moves("library", Top.i) /\ UNCHANGED result
         /\ ResolveLibrary =>
              \/ Returns("error")
              \/ /\ CallsFrom("added", Top.i, "resolve", Library) /\ UNCHANGED result
                 /\ Library \in Kexts
         /\ LibraryResolved => IF Succeeded THEN Moves("library", Top.i + 1) /\ UNCHANGED result
                               ELSE Returns("error")
         /\ ResolveEnds => IF Top.kext \in Refused THEN Returns("error") ELSE Returns("success")
<1>1. stack \in Seq(FrameType)
  BY DEF Typed
<1>2. ASSUME ResolveAtOnce PROVE \/ IsResolved(Top.kext) /\ Returns("success")
                                 \/ Returns("error")
  <2>1. /\ ~Idle
        /\ \/ IsResolved(Top.kext) /\ Return("success")
           \/ Return("error")
    BY <1>2 DEF ResolveAtOnce, At
  <2> QED BY <1>1, <2>1, ReturnDoes
<1>3. ASSUME ResolveBegins
      PROVE  IF LibrariesOf[Top.kext] = <<>> THEN Returns("error")
             ELSE Moves("library", Top.i) /\ UNCHANGED result
  <2>1. /\ ~Idle /\ "library" \in Labels
        /\ IF LibrariesOf[Top.kext] = <<>> THEN Return("error") ELSE Goto("library") /\ UNCHANGED result
    BY <1>3 DEF ResolveBegins, At, Labels
  <2> QED BY <1>1, <2>1, ReturnDoes, GotoDoes
<1>4. ASSUME ResolveLibrary
      PROVE  \/ Returns("error")
             \/ /\ CallsFrom("added", Top.i, "resolve", Library) /\ UNCHANGED result
                /\ Library \in Kexts
  <2>1. At("resolve", "library") /\ Top.i < Len(LibrariesOf[Top.kext])
    BY <1>4 DEF ResolveLibrary
  <2>2. ~Idle /\ Top \in FrameType /\ Top.kext \in Kexts
    BY <1>1, <2>1, AtFacts
  <2>3. CASE Unusable
    BY <1>1, <1>4, <2>2, <2>3, ReturnDoes DEF ResolveLibrary
  <2>4. CASE ~Unusable
    <3>1. Call(Frame("resolve", Library), "added") /\ UNCHANGED result
      BY <1>4, <2>4 DEF ResolveLibrary
    <3>2. Library \in Kexts
      <4>1. LibrariesOf[Top.kext] \in Seq(Ids)
        BY <2>2, LoadAssumption DEF LoadAssumption
      <4>2. Top.i + 1 \in 1 .. Len(LibrariesOf[Top.kext])
        BY <2>1, <2>2, <4>1 DEF FrameType
      <4>3. LibrariesOf[Top.kext][Top.i + 1] \in Ids
        BY <4>1, <4>2
      <4>4. Library \in Kexts \cup {None}
        BY <4>3 DEF Library, Typed
      <4> QED BY <2>4, <4>4 DEF Unusable
    <3>3. PICK k, label, op : k = Library /\ label = "added" /\ label \in Labels /\ op = "resolve" /\ op \in Ops
      BY DEF Labels, Ops
    <3>4. CallsFrom(label, Top.i, op, k)
      BY <1>1, <2>2, <3>1, <3>2, <3>3, CallDoes
    <3> QED BY <3>1, <3>2, <3>3, <3>4
  <2> QED BY <2>3, <2>4
<1>5. ASSUME LibraryResolved
      PROVE  IF Succeeded THEN Moves("library", Top.i + 1) /\ UNCHANGED result ELSE Returns("error")
  <2>1. At("resolve", "added")
    BY <1>5 DEF LibraryResolved
  <2>2. ~Idle /\ Top \in FrameType /\ Top = stack[Len(stack)] /\ Len(stack) \in DOMAIN stack
    BY <1>1, <2>1, AtFacts
  <2>3. CASE Succeeded
    <3>1. PICK t, label, i : /\ t = Top /\ t \in FrameType /\ label = "library" /\ label \in Labels
                             /\ i = Top.i + 1 /\ i \in Nat
      BY <2>2 DEF FrameType, Labels
    <3>2. PICK f : f = [t EXCEPT !.at = label, !.i = i]
      OBVIOUS
    <3>3. f \in FrameType /\ f.op = t.op /\ f.kext = t.kext /\ f.at = label /\ f.i = i
      BY <3>1, <3>2 DEF FrameType
    <3>4. stack' = [stack EXCEPT ![Len(stack)] = f] /\ UNCHANGED result
      BY <1>5, <2>2, <2>3, <3>1, <3>2 DEF LibraryResolved
    <3>5. Moves(f.at, f.i)
      BY <1>1, <2>2, <3>1, <3>3, <3>4, MoveDoes
    <3> QED BY <2>3, <3>1, <3>3, <3>4, <3>5
  <2>4. CASE ~Succeeded
    BY <1>1, <1>5, <2>2, <2>4, ReturnDoes DEF LibraryResolved
  <2> QED BY <2>3, <2>4
<1>6. ASSUME ResolveEnds PROVE IF Top.kext \in Refused THEN Returns("error") ELSE Returns("success")
  <2>1. ~Idle /\ IF Top.kext \in Refused THEN Return("error") ELSE Return("success")
    BY <1>6 DEF ResolveEnds, At
  <2> QED BY <1>1, <2>1, ReturnDoes
<1> QED BY <1>2, <1>3, <1>4, <1>5, <1>6

(* for start, *)
LEMMA StartDoes ==
  ASSUME Typed, Control
  PROVE  /\ StartAtOnce => \/ NothingToStart(Top.kext) /\ Returns("success")
                           \/ ~NothingToStart(Top.kext) /\ Returns("error")
         /\ StartBegins => Moves("dependencies", Top.i)
         /\ StartDependency =>
              \E i \in Unstarted(Top.kext, Top.i) :
                /\ \A j \in Unstarted(Top.kext, Top.i) : i <= j
                /\ CallsFrom("dependency", i, "start", deps[Top.kext][i])
                /\ i \in DOMAIN deps[Top.kext] /\ deps[Top.kext][i] \in Kexts
         /\ DependencyNotStarted => Returns("success")
         /\ StartFunc => \/ started' = started \cup {Top.kext} /\ Returns("success")
                         \/ UNCHANGED started /\ Returns("error")
<1>1. stack \in Seq(FrameType)
  BY DEF Typed
<1>2. ASSUME StartAtOnce PROVE \/ NothingToStart(Top.kext) /\ Returns("success")
                               \/ ~NothingToStart(Top.kext) /\ Returns("error")
  <2>1. /\ ~Idle
        /\ \/ NothingToStart(Top.kext) /\ Return("success")
           \/ ~NothingToStart(Top.kext) /\ Return("error")
    BY <1>2 DEF StartAtOnce, At
  <2> QED BY <1>1, <2>1, ReturnDoes
<1>3. ASSUME StartBegins PROVE Moves("dependencies", Top.i)
  <2>1. ~Idle /\ "dependencies" \in Labels /\ Goto("dependencies")
    BY <1>3 DEF StartBegins, At, Labels
  <2> QED BY <1>1, <2>1, GotoDoes
<1>4. ASSUME StartDependency
      PROVE  \E i \in Unstarted(Top.kext, Top.i) :
               /\ \A j \in Unstarted(Top.kext, Top.i) : i <= j
               /\ CallsFrom("dependency", i, "start", deps[Top.kext][i])
               /\ i \in DOMAIN deps[Top.kext] /\ deps[Top.kext][i] \in Kexts
  <2>1. At("start", "dependencies") \/ At("start", "dependency")
    BY <1>4 DEF StartDependency, Starting
  <2>2. ~Idle /\ Top \in FrameType /\ Top = stack[Len(stack)] /\ Len(stack) \in DOMAIN stack /\ Top.kext \in Kexts
    BY <1>1, <2>1, AtFacts
  <2>3. PICK i \in Unstarted(Top.kext, Top.i) :
          /\ \A j \in Unstarted(Top.kext, Top.i) : i <= j
          /\ stack' = Append([stack EXCEPT ![Len(stack)].at = "dependency", ![Len(stack)].i = i],
                             Frame("start", deps[Top.kext][i]))
    BY <1>4 DEF StartDependency
  <2>4. /\ i \in DOMAIN deps[Top.kext] /\ deps[Top.kext][i] \in Kexts /\ i \in Nat
    <3>1. i \in DOMAIN deps[Top.kext] /\ deps[Top.kext] \in Seq(Kexts)
      BY <2>2, <2>3 DEF Unstarted, Typed
    <3> QED BY <3>1, ElementOfSeq
  <2>5. PICK t, label, d, g : /\ t = Top /\ t \in FrameType /\ label = "dependency" /\ label \in Labels
                              /\ d = deps[Top.kext][i] /\ d \in Kexts /\ g = Frame("start", d)
    BY <2>2, <2>4 DEF Labels
  <2>6. PICK f : f = [t EXCEPT !.at = label, !.i = i]
    OBVIOUS
  <2>7. f \in FrameType /\ f.op = t.op /\ f.kext = t.kext /\ f.at = label /\ f.i = i
    BY <2>4, <2>5, <2>6 DEF FrameType
  <2>8. g \in FrameType /\ g.op = "start" /\ g.kext = d /\ g.at = "begin" /\ g.i = 0
    BY <2>5, FrameFacts DEF Ops
  <2>9. stack' = Append([stack EXCEPT ![Len(stack)] = f], g)
    BY <2>2, <2>3, <2>5, <2>6
  <2>10. CallsFrom(f.at, f.i, g.op, g.kext)
    BY <1>1, <2>2, <2>5, <2>7, <2>8, <2>9, PushDoes
  <2> QED BY <2>3, <2>4, <2>5, <2>7, <2>8, <2>10
<1>5. DependencyNotStarted => Returns("success")
  <2>1. DependencyNotStarted => ~Idle /\ Return("success")
    BY DEF DependencyNotStarted, At
  <2> QED BY <1>1, <2>1, ReturnDoes
<1>6. ASSUME StartFunc PROVE \/ started' = started \cup {Top.kext} /\ Returns("success")
                             \/ UNCHANGED started /\ Returns("error")
  <2>1. /\ ~Idle
        /\ \/ started' = started \cup {Top.kext} /\ Return("success")
           \/ UNCHANGED started /\ Return("error")
    BY <1>6 DEF StartFunc, Starting, At
  <2> QED BY <1>1, <2>1, ReturnDoes
<1> QED BY <1>2, <1>3, <1>4, <1>5, <1>6

(* for removeKext and unload; *)
LEMMA RemoveDoes ==
  ASSUME Typed, Control
  PROVE  /\ RemoveRefused \/ UnloadRefused \/ StopFails => Returns("error")
         /\ RemoveBegins => IF Top.kext \in loaded THEN CallsFrom("unloaded", Top.i, "unload", Top.kext)
                            ELSE Pops
         /\ RemoveEnds => Returns(result)
         /\ UnloadBegins => IF Top.kext \in started THEN Moves("stop", Top.i) ELSE Moves("release", Top.i)
         /\ Stop => Moves("release", Top.i)
         /\ Unload => Returns("success")
<1>1. stack \in Seq(FrameType)
  BY DEF Typed
<1>2. RemoveRefused \/ UnloadRefused \/ StopFails => Returns("error")
  <2>1. RemoveRefused => ~Idle /\ Return("error")
    BY DEF RemoveRefused, At
  <2>2. UnloadRefused => ~Idle /\ Return("error")
    BY DEF UnloadRefused, At
  <2>3. StopFails => ~Idle /\ Return("error")
    BY DEF StopFails, At
  <2> QED BY <1>1, <2>1, <2>2, <2>3, ReturnDoes
<1>3. ASSUME RemoveBegins
      PROVE  IF Top.kext \in loaded THEN CallsFrom("unloaded", Top.i, "unload", Top.kext) ELSE Pops
  <2>1. At("remove", "begin")
    BY <1>3 DEF RemoveBegins
  <2>2. ~Idle /\ Top.kext \in Kexts \cup {None} /\ "unloaded" \in Labels /\ "unload" \in Ops
    BY <1>1, <2>1, AtFacts DEF Labels, Ops
  <2>3. CASE Top.kext \in loaded
    <3>1. Call(Frame("unload", Top.kext), "unloaded")
      BY <1>3, <2>3 DEF RemoveBegins
    <3> QED BY <1>1, <2>2, <2>3, <3>1, CallDoes
  <2>4. CASE Top.kext \notin loaded
    BY <1>1, <1>3, <2>2, <2>4, PopFacts DEF RemoveBegins
  <2> QED BY <2>3, <2>4
<1>4. RemoveEnds => Returns(result)
  <2>1. RemoveEnds => ~Idle /\ Return(result)
    BY DEF RemoveEnds, At
  <2> QED BY <1>1, <2>1, ReturnDoes
<1>5. UnloadBegins => IF Top.kext \in started THEN Moves("stop", Top.i) ELSE Moves("release", Top.i)
  <2>1. UnloadBegins => ~Idle /\ Goto(IF Top.kext \in started THEN "stop" ELSE "release")
    BY DEF UnloadBegins, At
  <2>2. "stop" \in Labels /\ "release" \in Labels
    BY DEF Labels
  <2> QED BY <1>1, <2>1, <2>2, GotoDoes
<1>6. Stop => Moves("release", Top.i)
  <2>1. Stop => ~Idle /\ Goto("release")
    BY DEF Stop, At
  <2>2. "release" \in Labels
    BY DEF Labels
  <2> QED BY <1>1, <2>1, <2>2, GotoDoes
<1>7. Unload => Returns("success")
  <2>1. Unload => ~Idle /\ Return("success")
    BY DEF Unload, At
  <2> QED BY <1>1, <2>1, ReturnDoes
<1> QED BY <1>2, <1>3, <1>4, <1>5, <1>6, <1>7

(* and for the scan, which goes on with the kext at i. *)
LEMMA ScanMoves ==
  ASSUME stack \in Seq(FrameType), ~Idle, NEW i \in Nat, NEW flag \in BOOLEAN, Scan(i, flag)
  PROVE  Moves("next", i)
<1>1. Top \in FrameType /\ Top = stack[Len(stack)] /\ Len(stack) \in DOMAIN stack
  BY StackFacts
<1>2. PICK t, label : t = Top /\ t \in FrameType /\ label = "next" /\ label \in Labels
  BY <1>1 DEF Labels
<1>3. PICK f : f = [t EXCEPT !.i = i, !.flag = flag, !.at = label]
  OBVIOUS
<1>4. f \in FrameType /\ f.op = t.op /\ f.kext = t.kext /\ f.at = label /\ f.i = i
  BY <1>2, <1>3 DEF FrameType
<1>5. stack' = [stack EXCEPT ![Len(stack)] = f]
  BY <1>1, <1>2, <1>3 DEF Scan
<1>6. Moves(f.at, f.i)
  BY <1>2, <1>4, <1>5, MoveDoes
<1> QED BY <1>2, <1>4, <1>6

(* The scan and the request of a load. *)
LEMMA ScanDoes ==
  ASSUME Typed, Control
  PROVE  /\ ScanSkips \/ ScanRemoved => Moves("next", Top.i - 1) /\ Top.i - 1 \in Nat
         /\ ScanRemoves /\ Top.i \in DOMAIN loadedKexts =>
              CallsFrom("removed", Top.i, "remove", loadedKexts[Top.i]) /\ loadedKexts[Top.i] \in Kexts
         /\ PassEnds => IF Top.flag THEN Moves("next", Len(loadedKexts)) ELSE Pops
         /\ RequestFails => CallsFrom("removed", Top.i, "remove", Top.kext)
         /\ RequestReturns => Returns(result)
<1>1. stack \in Seq(FrameType)
  BY DEF Typed
<1>2. ASSUME ScanSkips \/ ScanRemoved PROVE Moves("next", Top.i - 1) /\ Top.i - 1 \in Nat
  <2>1. \/ At("scan", "next") /\ Top.i > 0 /\ Scan(Top.i - 1, Top.flag)
        \/ At("scan", "removed") /\ Scan(Top.i - 1, Top.flag \/ Succeeded)
    BY <1>2 DEF ScanSkips, ScanRemoved
  <2>2. ~Idle /\ Top.flag \in BOOLEAN /\ Top.i - 1 \in Nat
    <3>1. ~Idle /\ Top \in FrameType /\ WellPlaced(Top) /\ Top.op = "scan" /\ Top.at \in {"next", "removed"}
      BY <1>1, <2>1, AtFacts
    <3> QED BY <2>1, <3>1 DEF FrameType, WellPlaced, At
  <2>3. PICK i, flag : i \in Nat /\ flag \in BOOLEAN /\ i = Top.i - 1 /\ Scan(i, flag)
    <3>1. CASE Scan(Top.i - 1, Top.flag)
      BY <2>2, <3>1
    <3>2. CASE Scan(Top.i - 1, Top.flag \/ Succeeded)
      <4>1. (Top.flag \/ Succeeded) \in BOOLEAN
        OBVIOUS
      <4> QED BY <2>2, <3>2, <4>1
    <3> QED BY <2>1, <3>1, <3>2
  <2>4. Moves("next", i)
    BY <1>1, <2>2, <2>3, ScanMoves
  <2> QED BY <2>2, <2>3, <2>4
<1>3. ASSUME ScanRemoves, Top.i \in DOMAIN loadedKexts
      PROVE  CallsFrom("removed", Top.i, "remove", loadedKexts[Top.i]) /\ loadedKexts[Top.i] \in Kexts
  <2>1. ~Idle /\ Call(Frame("remove", loadedKexts[Top.i]), "removed")
    BY <1>3 DEF ScanRemoves, At
  <2>2. loadedKexts[Top.i] \in Kexts
    <3>1. loadedKexts \in Seq(Kexts)
      BY DEF Typed
    <3> QED BY <1>3, <3>1, ElementOfSeq
  <2>3. "removed" \in Labels /\ "remove" \in Ops /\ loadedKexts[Top.i] \in Kexts \cup {None}
    BY <2>2 DEF Labels, Ops
  <2> QED BY <1>1, <2>1, <2>2, <2>3, CallDoes
<1>4. ASSUME PassEnds PROVE IF Top.flag THEN Moves("next", Len(loadedKexts)) ELSE Pops
  <2>1. ~Idle /\ IF Top.flag THEN Scan(Len(loadedKexts), FALSE) ELSE stack' = Front(stack)
    BY <1>4 DEF PassEnds, At
  <2>2. Len(loadedKexts) \in Nat
    BY DEF Typed
  <2> QED BY <1>1, <2>1, <2>2, ScanMoves, PopFacts
<1>5. ASSUME RequestFails PROVE CallsFrom("removed", Top.i, "remove", Top.kext)
  <2>1. At("request", "loading") /\ Call(Frame("remove", Top.kext), "removed")
    BY <1>5 DEF RequestFails
  <2>2. ~Idle /\ Top.kext \in Kexts \cup {None} /\ "removed" \in Labels /\ "remove" \in Ops
    BY <1>1, <2>1, AtFacts DEF Labels, Ops
  <2> QED BY <1>1, <2>1, <2>2, CallDoes
<1>6. RequestReturns => Returns(result)
  <2>1. RequestReturns => ~Idle /\ Return(result)
    BY DEF RequestReturns, At
  <2> QED BY <1>1, <2>1, ReturnDoes
<1> QED BY <1>2, <1>3, <1>4, <1>5, <1>6

-----------------------------------------------------------------------------
(* What a change of the holders leaves: those alive, with the kexts that   *)
(* keep them so. *)
Leaves(ids, array, libraries, full, refs, alive) ==
  /\ byId' = ids /\ loadedKexts' = array /\ held' = refs
  /\ deps' = [k \in Kexts |-> IF k \in alive THEN libraries[k] ELSE <<>>]
  /\ resolved' = full \cap alive /\ delayed' = delayed \cap alive
  /\ alive \subseteq Kexts /\ ToSet(array) \subseteq alive
  /\ \A k \in alive : ToSet(libraries[k]) \subseteq alive

(* Holders does so. *)
LEMMA HoldersLeave ==
  ASSUME NEW ids \in [Ids -> Kexts \cup {None}], NEW array \in Seq(Kexts),
         NEW libraries \in [Kexts -> Seq(Kexts)], NEW full, NEW refs \in SUBSET Kexts,
         Holders(ids, array, libraries, full, refs)
  PROVE  \E alive : Leaves(ids, array, libraries, full, refs, alive)
<1>1. PICK alive : alive = AliveWith(ids, array, libraries, refs)
  OBVIOUS
<1>2. /\ alive \subseteq Kexts /\ ToSet(array) \subseteq alive
      /\ \A k \in alive : ToSet(libraries[k]) \subseteq alive
  BY <1>1, AliveFacts
<1>3. /\ byId' = ids /\ loadedKexts' = array /\ held' = refs
      /\ deps' = [k \in Kexts |-> IF k \in alive THEN libraries[k] ELSE <<>>]
      /\ resolved' = full \cap alive /\ delayed' = delayed \cap alive
  BY <1>1 DEF Holders
<1> QED BY <1>2, <1>3 DEF Leaves

(* Holders that fit are left as they were. *)
HoldersTyped ==
  /\ byId \in [Ids -> Kexts \cup {None}]
  /\ loadedKexts \in Seq(Kexts)
  /\ resolved \subseteq Kexts /\ delayed \subseteq Kexts /\ held \subseteq Kexts
  /\ deps \in [Kexts -> Seq(Kexts)]

(* The holders keep to their values. *)
LEMMA LeavesTyped ==
  ASSUME NEW ids \in [Ids -> Kexts \cup {None}], NEW array \in Seq(Kexts),
         NEW libraries \in [Kexts -> Seq(Kexts)], NEW full \in SUBSET Kexts, NEW refs \in SUBSET Kexts,
         NEW alive, Leaves(ids, array, libraries, full, refs, alive), delayed \subseteq Kexts
  PROVE  HoldersTyped'
<1>1. /\ byId' = ids /\ loadedKexts' = array /\ held' = refs
      /\ resolved' \subseteq Kexts /\ delayed' \subseteq Kexts
  BY DEF Leaves
<1>2. deps' \in [Kexts -> Seq(Kexts)]
  <2>1. \A k \in Kexts : (IF k \in alive THEN libraries[k] ELSE <<>>) \in Seq(Kexts)
    OBVIOUS
  <2> QED BY <2>1 DEF Leaves
<1> QED BY <1>1, <1>2 DEF HoldersTyped

(* The links of those alive are those they had, or none.                   *)
Fewer(libraries) ==
  libraries \in [Kexts -> Seq(Kexts)] /\ \A k \in Kexts : libraries[k] \in {deps[k], <<>>}

(* flushDependencies leaves fewer links, and those of the kexts in memory. *)
LEMMA FlushedFacts ==
  ASSUME deps \in [Kexts -> Seq(Kexts)], NEW S
  PROVE  Fewer(Flushed(S)) /\ \A k \in loaded \cap Kexts : Flushed(S)[k] = deps[k]
<1>1. \A k \in Kexts : (IF k \in S \ loaded THEN <<>> ELSE deps[k]) \in Seq(Kexts)
  OBVIOUS
<1> QED BY <1>1 DEF Flushed, Fewer

(* Forgetting an identifier is a change of the holders, *)
LEMMA ForgetLeaves ==
  ASSUME HoldersTyped, NEW k \in Kexts, ForgetId(k)
  PROVE  \E ids, alive :
           ids \in [Ids -> Kexts \cup {None}] /\ Leaves(ids, loadedKexts, deps, resolved, held, alive)
<1>1. PICK ids : ids = [byId EXCEPT ![IdOf[k]] = IF @ = k THEN None ELSE @]
  OBVIOUS
<1>2. ids \in [Ids -> Kexts \cup {None}]
  BY <1>1 DEF HoldersTyped
<1>3. Holders(ids, loadedKexts, deps, resolved, held)
  BY <1>1 DEF ForgetId
<1> QED BY <1>2, <1>3, HoldersLeave DEF HoldersTyped

(* registering one leads to a dictionary, *)
LEMMA RegisterType ==
  ASSUME NEW ids \in [Ids -> Kexts \cup {None}], NEW k \in Kexts, NEW late
  PROVE  Register(ids, k, late) \in [Ids -> Kexts \cup {None}]
BY DEF Register

(* and a flush of what is not loaded is a change of the holders. *)
LEMMA FlushLeaves ==
  ASSUME HoldersTyped, loaded \subseteq Kexts, NEW keep, FlushNonloadedKexts(keep)
  PROVE  \E ids, libraries, alive :
           /\ ids \in [Ids -> Kexts \cup {None}]
           /\ Fewer(libraries) /\ \A k \in loaded : libraries[k] = deps[k]
           /\ Leaves(ids, loadedKexts, libraries, resolved \cap loaded, held, alive)
<1>1. PICK ids : /\ ids = [i \in Ids |->
                             IF \E k \in loaded : k \in ToSet(loadedKexts) /\ IdOf[k] = i
                             THEN CHOOSE k \in ToSet(loadedKexts) : IdOf[k] = i
                             ELSE IF byId[i] \in keep THEN byId[i] ELSE None]
  OBVIOUS
<1>2. PICK S : S = {byId[i] : i \in Ids} \ {None}
  OBVIOUS
<1>3. Holders(ids, loadedKexts, Flushed(S), resolved \cap loaded, held)
  BY <1>1, <1>2 DEF FlushNonloadedKexts
<1>4. ids \in [Ids -> Kexts \cup {None}]
  <2>1. \A i \in Ids : ids[i] \in Kexts \cup {None}
    <3> TAKE i \in Ids
    <3>1. CASE \E k \in loaded : k \in ToSet(loadedKexts) /\ IdOf[k] = i
      <4>1. ids[i] = CHOOSE k \in ToSet(loadedKexts) : IdOf[k] = i
        BY <1>1, <3>1
      <4>2. ids[i] \in ToSet(loadedKexts)
        BY <3>1, <4>1
      <4>3. ToSet(loadedKexts) \subseteq Kexts
        BY ToSetFacts DEF HoldersTyped
      <4> QED BY <4>2, <4>3
    <3>2. CASE ~ \E k \in loaded : k \in ToSet(loadedKexts) /\ IdOf[k] = i
      BY <1>1, <3>2 DEF HoldersTyped
    <3> QED BY <3>1, <3>2
  <2> QED BY <1>1, <2>1
<1>5. Fewer(Flushed(S)) /\ \A k \in loaded \cap Kexts : Flushed(S)[k] = deps[k]
  BY FlushedFacts DEF HoldersTyped
<1>6. PICK libraries : libraries = Flushed(S)
  OBVIOUS
<1>7. \E alive : Leaves(ids, loadedKexts, libraries, resolved \cap loaded, held, alive)
  <2>1. /\ loadedKexts \in Seq(Kexts) /\ libraries \in [Kexts -> Seq(Kexts)] /\ held \in SUBSET Kexts
        /\ Holders(ids, loadedKexts, libraries, resolved \cap loaded, held)
    BY <1>3, <1>5, <1>6 DEF HoldersTyped, Fewer
  <2> QED BY <1>4, <2>1, HoldersLeave
<1> QED BY <1>4, <1>5, <1>6, <1>7

-----------------------------------------------------------------------------
(* Every step leaves values and calls that fit: first, what a call does    *)
(* with the control.                                                       *)
KeepsControl == Control' /\ stack' \in Seq(FrameType) /\ result' \in {"success", "error"}

(* load keeps the control, *)
LEMMA LoadControl ==
  ASSUME Typed, Control,
         \/ LoadRefused \/ LoadNothing \/ LoadResolves \/ LoadDependency \/ DependencyFailed
         \/ ResolveFailed \/ LoadExecutableFails \/ LoadExecutable \/ LoadStarts \/ LoadEnds
  PROVE  KeepsControl
<1>1. stack \in Seq(FrameType) /\ result \in {"success", "error"}
  BY DEF Typed
<1>2. At("load", "begin") \/ At("load", "resolved") \/ At("load", "dependency")
      \/ At("load", "loaded") \/ At("load", "end")
  BY DEF LoadRefused, LoadNothing, LoadResolves, LoadDependency, DependencyFailed, ResolveFailed,
         LoadExecutableFails, LoadExecutable, LoadStarts, LoadEnds, ReadyToLink, LibrariesAreIn
<1>3. /\ ~Idle /\ Top \in FrameType /\ WellPlaced(Top) /\ Top.op = "load" /\ Top.kext \in Kexts
      /\ Succeeded \/ ErrorFits(Top)
  BY <1>1, <1>2, AtFacts
<1>4. CASE LoadRefused \/ DependencyFailed \/ ResolveFailed \/ LoadExecutableFails
  BY <1>1, <1>3, <1>4, LoadDoes, ReturnsControl DEF KeepsControl
<1>5. CASE LoadNothing \/ LoadExecutable
  <2>1. Moves("loaded", Top.i)
    BY <1>5, LoadDoes
  <2>2. result' = "success"
    BY <1>5 DEF LoadNothing, LoadExecutable
  <2>3. \A f : f.op = Top.op /\ f.kext = Top.kext /\ f.at = "loaded" /\ f.i = Top.i => WellPlaced(f)
    BY <1>3 DEF WellPlaced
  <2> QED BY <1>1, <1>3, <2>1, <2>2, <2>3, MovesControl DEF KeepsControl
<1>6. CASE LoadResolves
  <2>1. CallsFrom("resolved", Top.i, "resolve", Top.kext)
    BY <1>6, LoadDoes
  <2>2. Top.at = "begin" /\ result' = result
    BY <1>6 DEF LoadResolves, At
  <2>3. result' = "success" /\ Top.i = 0
    BY <1>3, <2>2 DEF ErrorFits, WellPlaced, Succeeded
  <2>4. \A f : f.op = Top.op /\ f.kext = Top.kext /\ f.at = "resolved" /\ f.i = Top.i =>
         WellPlaced(f) /\ \A g : g.op = "resolve" /\ g.kext = Top.kext => Calls(f, g)
    <3> SUFFICES ASSUME NEW f, f.op = Top.op, f.kext = Top.kext, f.at = "resolved", f.i = Top.i
                 PROVE  WellPlaced(f) /\ \A g : g.op = "resolve" /\ g.kext = Top.kext => Calls(f, g)
      OBVIOUS
    <3>1. WellPlaced(f)
      BY <1>3, <2>3 DEF WellPlaced
    <3>2. \A g : g.op = "resolve" /\ g.kext = Top.kext => Calls(f, g)
      BY <1>3, <2>3 DEF Calls
    <3> QED BY <3>1, <3>2
  <2> QED BY <1>1, <1>3, <2>1, <2>3, <2>4, CallsControl DEF KeepsControl
<1>7. CASE LoadDependency
  <2>1. PICK k \in Kexts : k = deps[Top.kext][Top.i + 1]
    BY <1>7, LoadDoes
  <2>2. CallsFrom("dependency", Top.i + 1, "load", k)
    BY <1>7, <2>1, LoadDoes
  <2>3. result' = "success"
    BY <1>7 DEF LoadDependency, LibrariesAreIn, Succeeded
  <2>4. \A f : f.op = Top.op /\ f.kext = Top.kext /\ f.at = "dependency" /\ f.i = Top.i + 1 =>
         WellPlaced(f) /\ \A g : g.op = "load" /\ g.kext = k => Calls(f, g)
    <3> SUFFICES ASSUME NEW f, f.op = Top.op, f.kext = Top.kext, f.at = "dependency", f.i = Top.i + 1
                 PROVE  WellPlaced(f) /\ \A g : g.op = "load" /\ g.kext = k => Calls(f, g)
      OBVIOUS
    <3>1. WellPlaced(f)
      BY <1>3 DEF WellPlaced
    <3>2. \A g : g.op = "load" /\ g.kext = k => Calls(f, g)
      BY <1>3 DEF Calls
    <3> QED BY <3>1, <3>2
  <2> QED BY <1>1, <1>3, <2>2, <2>3, <2>4, CallsControl DEF KeepsControl
<1>8. CASE LoadStarts
  <2>1. Top.at = "loaded" /\ result' = result
    BY <1>8 DEF LoadStarts, At
  <2>2. result' = "success"
    BY <1>3, <2>1 DEF ErrorFits, Succeeded
  <2>3. \A f : f.op = Top.op /\ f.kext = Top.kext /\ f.at = "end" /\ f.i = Top.i => WellPlaced(f)
    BY <1>3 DEF WellPlaced
  <2>4. \A f : f.op = Top.op /\ f.kext = Top.kext /\ f.at = "end" /\ f.i = Top.i =>
         WellPlaced(f) /\ \A g : g.op = "start" /\ g.kext = Top.kext => Calls(f, g)
    <3> SUFFICES ASSUME NEW f, f.op = Top.op, f.kext = Top.kext, f.at = "end", f.i = Top.i
                 PROVE  WellPlaced(f) /\ \A g : g.op = "start" /\ g.kext = Top.kext => Calls(f, g)
      OBVIOUS
    <3>1. WellPlaced(f)
      BY <1>3, <2>3 DEF WellPlaced
    <3>2. \A g : g.op = "start" /\ g.kext = Top.kext => Calls(f, g)
      BY <1>3, <2>3 DEF Calls
    <3> QED BY <3>1, <3>2
  <2>5. CASE Moves("end", Top.i)
    BY <1>1, <1>3, <2>2, <2>3, <2>5, MovesControl DEF KeepsControl
  <2>6. CASE CallsFrom("end", Top.i, "start", Top.kext)
    BY <1>1, <1>3, <2>2, <2>4, <2>6, CallsControl DEF KeepsControl
  <2> QED BY <1>8, <2>5, <2>6, LoadDoes
<1>9. CASE LoadEnds
  BY <1>1, <1>3, <1>9, LoadDoes, ReturnsControl DEF KeepsControl
<1> QED BY <1>4, <1>5, <1>6, <1>7, <1>8, <1>9

(* resolveDependencies does, *)
LEMMA ResolveControl ==
  ASSUME Typed, Control,
         \/ ResolveAtOnce \/ ResolveBegins \/ ResolveLibrary \/ LibraryResolved \/ ResolveEnds
  PROVE  KeepsControl
<1>1. stack \in Seq(FrameType) /\ result \in {"success", "error"}
  BY DEF Typed
<1>2. At("resolve", "begin") \/ At("resolve", "library") \/ At("resolve", "added")
  BY DEF ResolveAtOnce, ResolveBegins, ResolveLibrary, LibraryResolved, ResolveEnds
<1>3. /\ ~Idle /\ Top \in FrameType /\ WellPlaced(Top) /\ Top.op = "resolve" /\ Top.kext \in Kexts
      /\ Succeeded \/ ErrorFits(Top)
  BY <1>1, <1>2, AtFacts
<1>4. ASSUME NEW r \in {"success", "error"}, Returns(r) PROVE KeepsControl
  BY <1>1, <1>3, <1>4, ReturnsControl DEF KeepsControl
<1>5. \A i : \A f : f.op = Top.op /\ f.kext = Top.kext /\ f.at = "library" /\ f.i = i => WellPlaced(f)
  BY <1>3 DEF WellPlaced
<1>6. ASSUME Succeeded, UNCHANGED result, NEW i, Moves("library", i) PROVE KeepsControl
  <2>1. result' = "success"
    BY <1>6 DEF Succeeded
  <2> QED BY <1>1, <1>3, <1>5, <1>6, <2>1, MovesControl DEF KeepsControl
<1>7. CASE ResolveAtOnce
  BY <1>4, <1>7, ResolveDoes
<1>8. CASE ResolveBegins
  <2>1. Succeeded
    BY <1>3, <1>8 DEF ResolveBegins, At, ErrorFits
  <2> QED BY <1>4, <1>6, <1>8, <2>1, ResolveDoes
<1>9. CASE ResolveLibrary
  <2>1. Succeeded
    BY <1>3, <1>9 DEF ResolveLibrary, At, ErrorFits
  <2>2. CASE Returns("error")
    BY <1>4, <2>2
  <2>3. CASE CallsFrom("added", Top.i, "resolve", Library) /\ UNCHANGED result /\ Library \in Kexts
    <3>1. PICK k \in Kexts : k = Library
      BY <2>3
    <3>2. \A f : f.op = Top.op /\ f.kext = Top.kext /\ f.at = "added" /\ f.i = Top.i =>
           WellPlaced(f) /\ \A g : g.op = "resolve" /\ g.kext = k => Calls(f, g)
      <4> SUFFICES ASSUME NEW f, f.op = Top.op, f.kext = Top.kext, f.at = "added", f.i = Top.i
                   PROVE  WellPlaced(f) /\ \A g : g.op = "resolve" /\ g.kext = k => Calls(f, g)
        OBVIOUS
      <4>1. WellPlaced(f)
        BY <1>3 DEF WellPlaced
      <4>2. \A g : g.op = "resolve" /\ g.kext = k => Calls(f, g)
        BY <1>3 DEF Calls
      <4> QED BY <4>1, <4>2
    <3>3. result' = "success" /\ CallsFrom("added", Top.i, "resolve", k)
      BY <2>1, <2>3, <3>1 DEF Succeeded
    <3> QED BY <1>1, <1>3, <3>2, <3>3, CallsControl DEF KeepsControl
  <2> QED BY <1>9, <2>2, <2>3, ResolveDoes
<1>10. CASE LibraryResolved
  BY <1>4, <1>6, <1>10, ResolveDoes
<1>11. CASE ResolveEnds
  BY <1>4, <1>11, ResolveDoes
<1> QED BY <1>7, <1>8, <1>9, <1>10, <1>11

(* start, *)
LEMMA StartControl ==
  ASSUME Typed, Control,
         StartAtOnce \/ StartBegins \/ StartDependency \/ DependencyNotStarted \/ StartFunc
  PROVE  KeepsControl
<1>1. stack \in Seq(FrameType) /\ result \in {"success", "error"}
  BY DEF Typed
<1>2. At("start", "begin") \/ At("start", "dependencies") \/ At("start", "dependency")
  BY DEF StartAtOnce, StartBegins, StartDependency, DependencyNotStarted, StartFunc, Starting
<1>3. /\ ~Idle /\ Top \in FrameType /\ WellPlaced(Top) /\ Top.op = "start" /\ Top.kext \in Kexts
  BY <1>1, <1>2, AtFacts
<1>4. ASSUME NEW r \in {"success", "error"}, Returns(r) PROVE KeepsControl
  BY <1>1, <1>3, <1>4, ReturnsControl DEF KeepsControl
<1>5. CASE StartAtOnce \/ DependencyNotStarted \/ StartFunc
  BY <1>4, <1>5, StartDoes
<1>6. CASE StartBegins
  <2>1. Top.at = "begin" /\ result' = "success" /\ Moves("dependencies", Top.i)
    BY <1>6, StartDoes DEF StartBegins, At
  <2>2. \A f : f.op = Top.op /\ f.kext = Top.kext /\ f.at = "dependencies" /\ f.i = Top.i => WellPlaced(f)
    BY <1>3, <2>1 DEF WellPlaced
  <2> QED BY <1>1, <1>3, <2>1, <2>2, MovesControl DEF KeepsControl
<1>7. CASE StartDependency
  <2>1. PICK i \in Unstarted(Top.kext, Top.i) :
          CallsFrom("dependency", i, "start", deps[Top.kext][i]) /\ deps[Top.kext][i] \in Kexts
    BY <1>7, StartDoes
  <2>2. PICK k \in Kexts : k = deps[Top.kext][i]
    BY <2>1
  <2>3. result' = "success"
    BY <1>7 DEF StartDependency, Starting, Succeeded
  <2>4. \A f : f.op = Top.op /\ f.kext = Top.kext /\ f.at = "dependency" /\ f.i = i =>
         WellPlaced(f) /\ \A g : g.op = "start" /\ g.kext = k => Calls(f, g)
    <3> SUFFICES ASSUME NEW f, f.op = Top.op, f.kext = Top.kext, f.at = "dependency", f.i = i
                 PROVE  WellPlaced(f) /\ \A g : g.op = "start" /\ g.kext = k => Calls(f, g)
      OBVIOUS
    <3>1. WellPlaced(f)
      BY <1>3 DEF WellPlaced
    <3>2. \A g : g.op = "start" /\ g.kext = k => Calls(f, g)
      BY <1>3 DEF Calls
    <3> QED BY <3>1, <3>2
  <2> QED BY <1>1, <1>3, <2>1, <2>2, <2>3, <2>4, CallsControl DEF KeepsControl
<1> QED BY <1>5, <1>6, <1>7

(* and removeKext, unload and stop. *)
LEMMA RemoveControl ==
  ASSUME Typed, Control,
         \/ RemoveRefused \/ RemoveBegins \/ RemoveEnds
         \/ UnloadRefused \/ UnloadBegins \/ StopFails \/ Stop \/ Unload
  PROVE  KeepsControl
<1>1. stack \in Seq(FrameType) /\ result \in {"success", "error"}
  BY DEF Typed
<1>2. \/ At("remove", "begin") \/ At("remove", "unloaded")
      \/ At("unload", "begin") \/ At("unload", "stop") \/ At("unload", "release")
  BY DEF RemoveRefused, RemoveBegins, RemoveEnds, UnloadRefused, UnloadBegins, StopFails, Stop, Unload
<1>3. /\ ~Idle /\ Top \in FrameType /\ WellPlaced(Top) /\ Top.op \in {"remove", "unload"} /\ Top.kext \in Kexts
      /\ Succeeded \/ ErrorFits(Top)
  BY <1>1, <1>2, AtFacts
<1>4. ASSUME NEW r \in {"success", "error"}, Returns(r) PROVE KeepsControl
  BY <1>1, <1>3, <1>4, ReturnsControl DEF KeepsControl
<1>5. CASE RemoveRefused \/ UnloadRefused \/ StopFails \/ RemoveEnds \/ Unload
  BY <1>1, <1>4, <1>5, RemoveDoes
<1>6. CASE RemoveBegins
  <2>1. result' = "success" /\ Top.op = "remove"
    BY <1>6 DEF RemoveBegins, At
  <2>2. CASE Top.kext \in loaded
    <3>1. CallsFrom("unloaded", Top.i, "unload", Top.kext)
      BY <1>6, <2>2, RemoveDoes
    <3>2. \A f : f.op = Top.op /\ f.kext = Top.kext /\ f.at = "unloaded" /\ f.i = Top.i =>
           WellPlaced(f) /\ \A g : g.op = "unload" /\ g.kext = Top.kext => Calls(f, g)
      <4> SUFFICES ASSUME NEW f, f.op = Top.op, f.kext = Top.kext, f.at = "unloaded", f.i = Top.i
                   PROVE  WellPlaced(f) /\ \A g : g.op = "unload" /\ g.kext = Top.kext => Calls(f, g)
        OBVIOUS
      <4>1. WellPlaced(f)
        BY <1>3, <2>1 DEF WellPlaced
      <4>2. \A g : g.op = "unload" /\ g.kext = Top.kext => Calls(f, g)
        BY <2>1 DEF Calls
      <4> QED BY <4>1, <4>2
    <3> QED BY <1>1, <1>3, <2>1, <3>1, <3>2, CallsControl DEF KeepsControl
  <2>3. CASE Top.kext \notin loaded
    <3>1. Pops
      BY <1>6, <2>3, RemoveDoes
    <3> QED BY <1>1, <1>3, <2>1, <3>1, PopControl DEF KeepsControl, Pops
  <2> QED BY <2>2, <2>3
<1>7. CASE UnloadBegins \/ Stop
  <2>1. Top.op = "unload" /\ result' = result /\ (Moves("stop", Top.i) \/ Moves("release", Top.i))
    BY <1>7, RemoveDoes DEF UnloadBegins, Stop, At
  <2>2. result' = "success"
    BY <1>3, <2>1 DEF ErrorFits, Succeeded
  <2>3. \A f : f.op = Top.op /\ f.kext = Top.kext /\ f.at = "stop" /\ f.i = Top.i => WellPlaced(f)
    BY <1>3, <2>1 DEF WellPlaced
  <2>4. \A f : f.op = Top.op /\ f.kext = Top.kext /\ f.at = "release" /\ f.i = Top.i => WellPlaced(f)
    BY <1>3, <2>1 DEF WellPlaced
  <2>5. CASE Moves("stop", Top.i)
    BY <1>1, <1>3, <2>2, <2>3, <2>5, MovesControl DEF KeepsControl
  <2>6. CASE Moves("release", Top.i)
    BY <1>1, <1>3, <2>2, <2>4, <2>6, MovesControl DEF KeepsControl
  <2> QED BY <2>1, <2>5, <2>6
<1> QED BY <1>5, <1>6, <1>7

(* Calls to remove what is not to stay.                                    *)
LEMMA RemovalControl ==
  ASSUME stack \in Seq(FrameType), Control, ~Idle, NEW k \in Kexts,
         CallsFrom("removed", Top.i, "remove", k),
         \/ Top.op = "request" /\ Top.kext = k
         \/ Top.op = "scan" /\ Top.i > 0,
         result' \in {"success", "error"}
  PROVE  KeepsControl
<1>1. /\ WellPlaced(Top) /\ Top \in FrameType
  BY StackFacts DEF Control
<1>2. \A f : f.op = Top.op /\ f.kext = Top.kext /\ f.at = "removed" /\ f.i = Top.i =>
       WellPlaced(f) /\ \A g : g.op = "remove" /\ g.kext = k => Calls(f, g)
  <2> SUFFICES ASSUME NEW f, f.op = Top.op, f.kext = Top.kext, f.at = "removed", f.i = Top.i
               PROVE  WellPlaced(f) /\ \A g : g.op = "remove" /\ g.kext = k => Calls(f, g)
    OBVIOUS
  <2>1. WellPlaced(f)
    BY <1>1 DEF WellPlaced
  <2>2. \A g : g.op = "remove" /\ g.kext = k => Calls(f, g)
    BY DEF Calls
  <2> QED BY <2>1, <2>2
<1> QED BY <1>2, CallsControl DEF KeepsControl

(* The scan and the request keep the control. *)
LEMMA ScanControl ==
  ASSUME Typed, Control, Removes,
         RequestFails \/ RequestReturns \/ ScanSkips \/ ScanRemoves \/ ScanRemoved \/ PassEnds
  PROVE  KeepsControl
<1>1. stack \in Seq(FrameType) /\ result \in {"success", "error"}
  BY DEF Typed
<1>2. \/ At("request", "loading") \/ At("request", "removed")
      \/ At("scan", "next") \/ At("scan", "removed")
  BY DEF RequestFails, RequestReturns, ScanSkips, ScanRemoves, ScanRemoved, PassEnds
<1>3. /\ ~Idle /\ Top \in FrameType /\ WellPlaced(Top) /\ Top.op \in {"request", "scan"}
      /\ Top = stack[Len(stack)] /\ Len(stack) \in DOMAIN stack
      /\ Succeeded \/ ErrorFits(Top)
  BY <1>1, <1>2, AtFacts
<1>4. ASSUME Top.op = "scan", NEW i \in Nat, Moves("next", i), result' = "success" PROVE KeepsControl
  <2>1. \A f : f.op = Top.op /\ f.kext = Top.kext /\ f.at = "next" /\ f.i = i => WellPlaced(f)
    BY <1>3, <1>4 DEF WellPlaced
  <2> QED BY <1>1, <1>3, <1>4, <2>1, MovesControl DEF KeepsControl
<1>5. CASE RequestFails
  <2>1. Top.op = "request" /\ result' = result /\ CallsFrom("removed", Top.i, "remove", Top.kext)
    BY <1>5, ScanDoes DEF RequestFails, At
  <2>2. Top.kext \in Kexts
    BY <1>3, <2>1 DEF WellPlaced
  <2> QED BY <1>1, <1>3, <2>1, <2>2, RemovalControl
<1>6. CASE RequestReturns
  BY <1>1, <1>3, <1>6, ScanDoes, ReturnsControl DEF KeepsControl
<1>7. CASE ScanSkips \/ ScanRemoved
  <2>1. Top.op = "scan" /\ Moves("next", Top.i - 1) /\ Top.i - 1 \in Nat
    BY <1>7, ScanDoes DEF ScanSkips, ScanRemoved, At
  <2>2. result' = "success"
    <3>1. CASE ScanRemoved
      BY <3>1 DEF ScanRemoved
    <3>2. CASE ScanSkips
      BY <1>3, <3>2 DEF ScanSkips, At, ErrorFits, Succeeded
    <3> QED BY <1>7, <3>1, <3>2
  <2> QED BY <1>4, <2>1, <2>2
<1>8. CASE ScanRemoves
  <2>1. Top.op = "scan" /\ Top.at = "next" /\ Top.i > 0 /\ result' = result
    BY <1>8 DEF ScanRemoves, At
  <2>2. Top.i \in DOMAIN loadedKexts
    <3>1. Top.i \in 0 .. Len(loadedKexts)
      BY <1>3, <2>1 DEF Removes, ScanFits
    <3>2. loadedKexts \in Seq(Kexts)
      BY DEF Typed
    <3> QED BY <2>1, <3>1, <3>2
  <2>3. PICK k \in Kexts : k = loadedKexts[Top.i] /\ CallsFrom("removed", Top.i, "remove", k)
    BY <1>8, <2>2, ScanDoes
  <2> QED BY <1>1, <1>3, <2>1, <2>3, RemovalControl
<1>9. CASE PassEnds
  <2>1. Top.op = "scan" /\ Top.at = "next" /\ result' = result /\ Top.flag \in BOOLEAN
    BY <1>3, <1>9 DEF PassEnds, At, FrameType
  <2>2. result' = "success"
    BY <1>3, <2>1 DEF ErrorFits, Succeeded
  <2>3. Len(loadedKexts) \in Nat
    BY DEF Typed
  <2>4. CASE Pops
    BY <1>1, <1>3, <2>2, <2>4, PopControl DEF KeepsControl, Pops
  <2> QED BY <1>4, <1>9, <2>1, <2>2, <2>3, <2>4, ScanDoes
<1> QED BY <1>5, <1>6, <1>7, <1>8, <1>9

(* The calls that an operation begins with.                                *)
LEMMA FirstCall ==
  ASSUME NEW f \in FrameType, WellPlaced(f), stack' = <<f>>, result' = "success"
  PROVE  KeepsControl
<1>1. stack' \in Seq(FrameType) /\ Len(stack') = 1 /\ DOMAIN stack' = 1 .. 1 /\ stack'[1] = f
  OBVIOUS
<1>2. \A n \in DOMAIN stack' : n = 1
  BY <1>1
<1>3. \A n \in DOMAIN stack' : WellPlaced(stack'[n])
  BY <1>1, <1>2
<1>4. \A n \in DOMAIN stack' : n < Len(stack') => Calls(stack'[n], stack'[n + 1])
  BY <1>1, <1>2
<1>5. \A m, n \in DOMAIN stack' : m < n => Above(stack'[m].op, stack'[n].op)
  BY <1>1, <1>2
<1> QED BY <1>1, <1>3, <1>4, <1>5 DEF KeepsControl, Control, Succeeded

(* A request of a load makes two calls. *)
LEMMA FirstCalls ==
  ASSUME NEW f \in FrameType, NEW g \in FrameType, WellPlaced(f), WellPlaced(g), Calls(f, g),
         stack' = <<f, g>>, result' = "success"
  PROVE  KeepsControl
<1>1. /\ stack' \in Seq(FrameType) /\ Len(stack') = 2 /\ DOMAIN stack' = 1 .. 2
      /\ stack'[1] = f /\ stack'[2] = g
  OBVIOUS
<1>2. \A n \in DOMAIN stack' : n = 1 \/ n = 2
  BY <1>1
<1>3. \A n \in DOMAIN stack' : WellPlaced(stack'[n])
  BY <1>1, <1>2
<1>4. \A n \in DOMAIN stack' : n < Len(stack') => Calls(stack'[n], stack'[n + 1])
  BY <1>1, <1>2
<1>5. \A m, n \in DOMAIN stack' : m < n => Above(stack'[m].op, stack'[n].op)
  BY <1>1, <1>2, CallFacts
<1> QED BY <1>1, <1>3, <1>4, <1>5 DEF KeepsControl, Control, Succeeded

(* Request makes them. *)
LEMMA RequestControl ==
  ASSUME NEW k \in Kexts, NEW opt \in {"none", "kext", "all"}, NEW flag \in BOOLEAN, NEW mkext \in BOOLEAN,
         Request(k, opt, flag, mkext), result' = "success"
  PROVE  KeepsControl
<1>1. PICK request, load, loading :
        /\ request = Frame("request", k) /\ load = Frame("load", k)
        /\ loading = "loading" /\ loading \in Labels
  BY DEF Labels
<1>2. /\ request \in FrameType /\ request.op = "request" /\ request.kext = k /\ request.i = 0
      /\ load \in FrameType /\ load.op = "load" /\ load.kext = k /\ load.i = 0 /\ load.at = "begin"
  BY <1>1, FrameFacts DEF Ops
<1>3. PICK f, g : /\ f = [request EXCEPT !.at = loading, !.flag = flag, !.mkext = mkext]
                  /\ g = [load EXCEPT !.opt = opt]
  OBVIOUS
<1>4. f \in FrameType /\ f.op = "request" /\ f.kext = k /\ f.at = loading
  BY <1>1, <1>2, <1>3 DEF FrameType
<1>5. g \in FrameType /\ g.op = "load" /\ g.kext = k /\ g.at = "begin" /\ g.i = 0
  BY <1>2, <1>3 DEF FrameType
<1>6. WellPlaced(f) /\ WellPlaced(g)
  BY <1>1, <1>4, <1>5 DEF WellPlaced
<1>7. Calls(f, g)
  BY <1>1, <1>4, <1>5 DEF Calls
<1>8. stack' = <<f, g>>
  BY <1>1, <1>3 DEF Request
<1> QED BY <1>4, <1>5, <1>6, <1>7, <1>8, FirstCalls

(* Whatever is begun, and whatever others do meanwhile, keeps the control. *)
LEMMA EntryControl ==
  ASSUME Typed, Control, Entry \/ Others
  PROVE  KeepsControl
<1> USE LoadAssumption DEF LoadAssumption
<1>1. /\ stack \in Seq(FrameType) /\ result \in {"success", "error"} /\ byId \in [Ids -> Kexts \cup {None}]
      /\ Len(loadedKexts) \in Nat
  BY DEF Typed
<1>2. Idle => result = "success"
  BY DEF Control, Succeeded
<1>3. ASSUME UNCHANGED <<stack, result>> PROVE KeepsControl
  <2>1. Control'
    BY <1>3 DEF Control, Idle, Top, Last, Succeeded
  <2> QED BY <1>1, <1>3, <2>1 DEF KeepsControl
<1>4. CASE Others
  BY <1>3, <1>4 DEF Others, ReleaseKext, FirstInstance, LastInstance
<1>5. ASSUME NEW k \in Kexts, RegisterBootKext(k) PROVE KeepsControl
  BY <1>3, <1>5 DEF RegisterBootKext
<1>6. ASSUME NEW i \in Ids, LookupKext(i) PROVE KeepsControl
  BY <1>3, <1>6 DEF LookupKext
<1>7. ASSUME NEW flags \in SUBSET {"load", "unload"}, SetEnabled(flags) PROVE KeepsControl
  BY <1>3, <1>7 DEF SetEnabled
<1>8. ASSUME NEW i \in Ids, RemoveKext(i) PROVE KeepsControl
  <2>1. PICK k \in Kexts : k = byId[i]
    BY <1>1, <1>8 DEF RemoveKext
  <2>2. PICK f : f = Frame("remove", k) /\ f \in FrameType /\ f.op = "remove" /\ f.kext = k
                 /\ f.at = "begin" /\ f.i = 0
    BY FrameFacts DEF Ops
  <2>3. WellPlaced(f)
    BY <2>2 DEF WellPlaced
  <2>4. stack' = <<f>> /\ result' = "success"
    BY <1>2, <1>8, <2>1, <2>2 DEF RemoveKext
  <2> QED BY <2>2, <2>3, <2>4, FirstCall
<1>9. ASSUME NEW i \in Ids, NEW opt \in Opts, NEW delay \in BOOLEAN, LoadKextWithIdentifier(i, opt, delay)
      PROVE  KeepsControl
  <2>1. PICK k \in Kexts : k = byId[i]
    BY <1>1, <1>9 DEF LoadKextWithIdentifier
  <2>2. Request(k, opt, delay, FALSE) /\ result' = "success" /\ opt \in {"none", "kext", "all"}
    BY <1>2, <1>9, <2>1 DEF LoadKextWithIdentifier
  <2> QED BY <2>2, RequestControl
<1>10. ASSUME NEW S \in SUBSET Kexts, NEW k \in Kexts, NEW opt \in Opts, LoadFromMkext(S, k, opt)
       PROVE  KeepsControl
  <2>1. PICK ids : ids = [i \in Ids |-> IF \E j \in S : IdOf[j] = i
                                        THEN Register(byId, CHOOSE j \in S : IdOf[j] = i, TRUE)[i]
                                        ELSE byId[i]]
    OBVIOUS
  <2>2. k \in S /\ Request(ids[IdOf[k]], opt, FALSE, TRUE) /\ result' = "success"
    BY <1>2, <1>10, <2>1 DEF LoadFromMkext
  <2>3. IdOf[k] \in Ids
    BY DEF Ids
  <2>4. PICK j : j = CHOOSE l \in S : IdOf[l] = IdOf[k]
    OBVIOUS
  <2>5. j \in S /\ IdOf[j] = IdOf[k] /\ j \in Kexts
    BY <2>2, <2>4
  <2>6. ids[IdOf[k]] = Register(byId, j, TRUE)[IdOf[k]]
    BY <2>1, <2>2, <2>3, <2>4
  <2>7. Register(byId, j, TRUE)[IdOf[k]] \in Kexts
    BY <1>1, <2>3, <2>5 DEF Register
  <2>8. PICK l \in Kexts : l = ids[IdOf[k]]
    BY <2>6, <2>7
  <2> QED BY <2>2, <2>8, RequestControl
<1>11. CASE ConsiderUnloads
  <2>1. PICK scan, next, none, n : /\ scan = Frame("scan", None) /\ scan \in FrameType
                                   /\ scan.op = "scan" /\ scan.kext = None
                                   /\ next = "next" /\ next \in Labels
                                   /\ n = Len(loadedKexts) /\ n \in Nat
    BY <1>1, FrameFacts DEF Ops, Labels
  <2>2. PICK f : f = [scan EXCEPT !.at = next, !.i = n]
    OBVIOUS
  <2>3. f \in FrameType /\ f.op = "scan" /\ f.at = next
    BY <2>1, <2>2 DEF FrameType
  <2>4. WellPlaced(f)
    BY <2>1, <2>3 DEF WellPlaced
  <2>5. stack' = <<f>> /\ result' = "success"
    BY <1>2, <1>11, <2>1, <2>2 DEF ConsiderUnloads
  <2> QED BY <2>3, <2>4, <2>5, FirstCall
<1> QED BY <1>4, <1>5, <1>6, <1>7, <1>8, <1>9, <1>10, <1>11 DEF Entry

-----------------------------------------------------------------------------
(* A kext in memory has the kexts it is linked against in memory.          *)
LEMMA LinksAreIn ==
  ASSUME Typed, Memory
  PROVE  /\ \A k \in loaded : ToSet(deps[k]) \subseteq loaded /\ deps[k] \in Seq(Kexts)
         /\ ToSet(loadedKexts) = loaded
         /\ \A n \in DOMAIN loadedKexts : loadedKexts[n] \in loaded
<1>1. loadedKexts \in Seq(Kexts) /\ deps \in [Kexts -> Seq(Kexts)] /\ loaded \subseteq Kexts
  BY DEF Typed
<1>2. /\ ToSet(loadedKexts) = loaded
      /\ \A n \in DOMAIN loadedKexts : \A k \in ToSet(deps[loadedKexts[n]]) :
           \E m \in 1 .. n - 1 : loadedKexts[m] = k
  BY DEF Memory, Listing
<1>3. DOMAIN loadedKexts = 1 .. Len(loadedKexts) /\ Len(loadedKexts) \in Nat
      /\ \A x : x \in ToSet(loadedKexts) <=> \E i \in DOMAIN loadedKexts : loadedKexts[i] = x
  BY <1>1, ToSetFacts
<1>4. ASSUME NEW k \in loaded, NEW d \in ToSet(deps[k]) PROVE d \in loaded
  <2>1. PICK n \in DOMAIN loadedKexts : loadedKexts[n] = k
    BY <1>2, <1>3
  <2>2. PICK m \in 1 .. n - 1 : loadedKexts[m] = d
    BY <1>2, <1>4, <2>1
  <2>3. m \in DOMAIN loadedKexts
    BY <1>3, <2>1, <2>2
  <2> QED BY <1>2, <1>3, <2>2, <2>3
<1>5. \A n \in DOMAIN loadedKexts : loadedKexts[n] \in loaded
  BY <1>2, <1>3
<1> QED BY <1>1, <1>2, <1>4, <1>5

(* A step that leaves the kexts in memory their links, and takes them away *)
(* from some that are not: those of the others stay or go as a whole.      *)
Loses ==
  \E libraries, full, alive :
    /\ Fewer(libraries) /\ \A k \in loaded : libraries[k] = deps[k]
    /\ full \subseteq resolved /\ loaded \subseteq Usable(full)
    /\ \A k \in Usable(full) : ToSet(libraries[k]) \subseteq Usable(full)
    /\ deps' = [k \in Kexts |-> IF k \in alive THEN libraries[k] ELSE <<>>]
    /\ resolved' = full \cap alive
    /\ loadedKexts' = loadedKexts
    /\ alive \subseteq Kexts /\ ToSet(loadedKexts) \subseteq alive
    /\ \A k \in alive : ToSet(libraries[k]) \subseteq alive

(* A kext without links. *)
LEMMA EmptyToSet ==
  ToSet(<<>>) = {} /\ <<>> \in Seq(Kexts)
BY DEF ToSet

(* What a step that loses leaves of the links. *)
LEMMA LosesFacts ==
  ASSUME Typed, Memory, Loses
  PROVE  /\ \A k \in Kexts : deps'[k] \in {deps[k], <<>>} /\ ToSet(deps'[k]) \subseteq ToSet(deps[k])
         /\ \A k \in loaded : deps'[k] = deps[k]
         /\ resolved' \subseteq resolved /\ loadedKexts' = loadedKexts
<1>1. PICK libraries, full, alive :
        /\ Fewer(libraries) /\ \A k \in loaded : libraries[k] = deps[k]
        /\ full \subseteq resolved
        /\ deps' = [k \in Kexts |-> IF k \in alive THEN libraries[k] ELSE <<>>]
        /\ resolved' = full \cap alive
        /\ loadedKexts' = loadedKexts
        /\ ToSet(loadedKexts) \subseteq alive
  BY Zenon DEF Loses
<1>2. \A k \in Kexts : deps'[k] \in {deps[k], <<>>}
  BY <1>1 DEF Fewer
<1>3. \A k \in Kexts : ToSet(deps'[k]) \subseteq ToSet(deps[k])
  BY <1>2, EmptyToSet
<1>4. \A k \in loaded : deps'[k] = deps[k]
  BY <1>1, LinksAreIn DEF Typed
<1> QED BY <1>1, <1>2, <1>3, <1>4

(* It keeps the order of the links, and the kexts in memory. *)
LEMMA LosesKeeps ==
  ASSUME Typed, Graph, Memory, Loses, UNCHANGED <<loaded, started, inUse, kmodInfos>>
  PROVE  Graph' /\ Memory'
<1>1. PICK libraries, full, alive :
        /\ Fewer(libraries) /\ \A k \in loaded : libraries[k] = deps[k]
        /\ full \subseteq resolved /\ loaded \subseteq Usable(full)
        /\ \A k \in Usable(full) : ToSet(libraries[k]) \subseteq Usable(full)
        /\ deps' = [k \in Kexts |-> IF k \in alive THEN libraries[k] ELSE <<>>]
        /\ resolved' = full \cap alive
        /\ loadedKexts' = loadedKexts
        /\ alive \subseteq Kexts /\ ToSet(loadedKexts) \subseteq alive
        /\ \A k \in alive : ToSet(libraries[k]) \subseteq alive
  BY Zenon DEF Loses
<1>2. /\ \A k \in Kexts : deps'[k] \in {deps[k], <<>>} /\ ToSet(deps'[k]) \subseteq ToSet(deps[k])
      /\ \A k \in loaded : deps'[k] = deps[k]
  BY LosesFacts
<1>3. Ordered(deps)'
  BY <1>2 DEF Graph, Ordered
<1>4. \A k \in Components \cup {Kernel} : deps'[k] = <<>>
  BY <1>2, LoadAssumption DEF Graph, Resolving, LoadAssumption
<1>5. \A k \in Kexts : ToSet(deps'[k]) \cap Codeless = {}
  BY <1>2 DEF Graph, Resolving
<1>6. \A k \in Usable(resolved') : ToSet(deps'[k]) \subseteq Usable(resolved')
  <2> SUFFICES ASSUME NEW k \in Usable(resolved'), k \notin Components \cup {Kernel}
               PROVE  ToSet(deps'[k]) \subseteq Usable(resolved')
    BY <1>4, EmptyToSet
  <2>1. k \in full /\ k \in alive /\ k \in Kexts
    BY <1>1 DEF Usable
  <2>2. ToSet(libraries[k]) \subseteq Usable(full) /\ ToSet(libraries[k]) \subseteq alive
    BY <1>1, <2>1 DEF Usable
  <2>3. deps'[k] = libraries[k]
    BY <1>1, <2>1
  <2> QED BY <1>1, <2>2, <2>3 DEF Usable
<1>7. Resolving(deps, resolved)'
  BY <1>4, <1>5, <1>6 DEF Resolving
<1>8. Listing(loadedKexts, loaded, deps)'
  <2>1. /\ loadedKexts' = loadedKexts /\ loaded' = loaded
        /\ \A n \in DOMAIN loadedKexts : deps'[loadedKexts[n]] = deps[loadedKexts[n]]
    BY <1>1, <1>2, LinksAreIn
  <2> QED BY <2>1 DEF Memory, Listing
<1>9. Chaining(loadedKexts, kmods.kmod, kmods.next)'
  BY <1>1 DEF Memory, kmodInfos
<1>10. loaded' \subseteq Usable(resolved')
  <2>1. loaded \subseteq alive
    BY <1>1, LinksAreIn
  <2> QED BY <1>1, <2>1 DEF Usable
<1>11. ReferencesCoverLinks'
  <2>1. \A k : {j \in loaded : k \in ToSet(deps'[j])} = {j \in loaded : k \in ToSet(deps[j])}
    BY <1>2
  <2> QED BY <2>1 DEF ReferencesCoverLinks, Memory, kmodInfos
<1> QED BY <1>3, <1>7, <1>8, <1>9, <1>10, <1>11 DEF Graph, Memory

(* The steps that do so.                                                   *)
LEMMA LeavesLoses ==
  ASSUME Typed, Graph, Memory, NEW ids, NEW refs, NEW libraries, NEW full, NEW alive,
         Leaves(ids, loadedKexts, libraries, full, refs, alive),
         Fewer(libraries), \A k \in loaded : libraries[k] = deps[k],
         full \subseteq resolved, loaded \subseteq Usable(full),
         \A k \in Usable(full) : ToSet(libraries[k]) \subseteq Usable(full)
  PROVE  Loses
BY Zenon DEF Leaves, Loses

(* A look-up, and the release of what was looked up, lose; *)
LEMMA SameLoses ==
  ASSUME Typed, Graph, Memory, NEW ids \in [Ids -> Kexts \cup {None}], NEW refs \in SUBSET Kexts,
         Holders(ids, loadedKexts, deps, resolved, refs)
  PROVE  Loses /\ HoldersTyped'
<1>1. /\ loadedKexts \in Seq(Kexts) /\ deps \in [Kexts -> Seq(Kexts)] /\ resolved \in SUBSET Kexts
      /\ delayed \subseteq Kexts
  BY DEF Typed
<1>2. PICK alive : Leaves(ids, loadedKexts, deps, resolved, refs, alive)
  BY <1>1, HoldersLeave
<1>3. HoldersTyped'
  BY <1>1, <1>2, LeavesTyped
<1>4. Fewer(deps) /\ \A k \in loaded : deps[k] = deps[k]
  BY <1>1 DEF Fewer
<1>5. loaded \subseteq Usable(resolved) /\ \A k \in Usable(resolved) : ToSet(deps[k]) \subseteq Usable(resolved)
  BY DEF Memory, Graph, Resolving
<1> QED BY <1>2, <1>3, <1>4, <1>5, LeavesLoses

(* so does forgetting an identifier, *)
LEMMA ForgetLoses ==
  ASSUME Typed, Graph, Memory, NEW k \in Kexts, ForgetId(k)
  PROVE  Loses /\ HoldersTyped'
<1>1. PICK ids : ids = [byId EXCEPT ![IdOf[k]] = IF @ = k THEN None ELSE @]
  OBVIOUS
<1>2. ids \in [Ids -> Kexts \cup {None}] /\ held \in SUBSET Kexts
  BY <1>1 DEF Typed
<1>3. Holders(ids, loadedKexts, deps, resolved, held)
  BY <1>1 DEF ForgetId
<1> QED BY <1>2, <1>3, SameLoses

(* a flush of what is not loaded, *)
LEMMA FlushLoses ==
  ASSUME Typed, Graph, Memory, NEW keep, FlushNonloadedKexts(keep)
  PROVE  Loses /\ HoldersTyped'
<1> USE LoadAssumption
<1>1. HoldersTyped /\ loaded \subseteq Kexts /\ delayed \subseteq Kexts
      /\ held \in SUBSET Kexts /\ loadedKexts \in Seq(Kexts) /\ (resolved \cap loaded) \in SUBSET Kexts
  BY DEF Typed, HoldersTyped
<1>2. PICK ids, libraries, alive :
        /\ ids \in [Ids -> Kexts \cup {None}]
        /\ Fewer(libraries) /\ \A k \in loaded : libraries[k] = deps[k]
        /\ Leaves(ids, loadedKexts, libraries, resolved \cap loaded, held, alive)
  BY <1>1, FlushLeaves
<1>3. PICK full : full = resolved \cap loaded
  OBVIOUS
<1>4. HoldersTyped'
  <2>1. libraries \in [Kexts -> Seq(Kexts)] /\ full \in SUBSET Kexts
    BY <1>1, <1>2, <1>3 DEF Fewer
  <2> QED BY <1>1, <1>2, <1>3, <2>1, LeavesTyped
<1>5. loaded \subseteq Usable(full)
  BY <1>3 DEF Memory, Usable
<1>6. ASSUME NEW k \in Usable(full) PROVE ToSet(libraries[k]) \subseteq Usable(full)
  <2>1. CASE k \in loaded
    BY <1>2, <1>5, <2>1, LinksAreIn
  <2>2. CASE k \in Components \cup {Kernel}
    <3>1. deps[k] = <<>> /\ k \in Kexts
      BY <2>2 DEF Graph, Resolving, LoadAssumption
    <3>2. libraries[k] = <<>>
      BY <1>2, <3>1 DEF Fewer
    <3> QED BY <3>2, EmptyToSet
  <2> QED BY <1>3, <1>6, <2>1, <2>2 DEF Usable
<1>7. Leaves(ids, loadedKexts, libraries, full, held, alive) /\ full \subseteq resolved
  BY <1>2, <1>3
<1> QED BY <1>2, <1>4, <1>5, <1>6, <1>7, LeavesLoses

(* and the flush that the resolving of a kext begins with. *)
LEMMA ResolveLoses ==
  ASSUME Typed, Graph, Memory, Control, ResolveBegins
  PROVE  /\ Loses /\ HoldersTyped' /\ deps'[Top.kext] = <<>> /\ byId' = byId
         /\ \E alive : /\ \A k \in alive : ToSet(deps[k]) \subseteq alive \/ k = Top.kext
                       /\ \A k \in Kexts : k \notin alive => deps'[k] = <<>>
                       /\ resolved' = resolved \cap alive
<1>1. PICK k \in Kexts : k = Top.kext /\ k \notin Usable(resolved)
  <2>1. At("resolve", "begin") /\ ~IsResolved(Top.kext) /\ stack \in Seq(FrameType)
    BY DEF ResolveBegins, Typed
  <2>2. Top.kext \in Kexts
    BY <2>1, AtFacts
  <2> QED BY <2>1, <2>2 DEF IsResolved, Usable
<1>2. /\ byId \in [Ids -> Kexts \cup {None}] /\ loadedKexts \in Seq(Kexts) /\ deps \in [Kexts -> Seq(Kexts)]
      /\ resolved \in SUBSET Kexts /\ held \in SUBSET Kexts /\ delayed \subseteq Kexts /\ loaded \subseteq Kexts
  BY DEF Typed
<1>3. PICK libraries : libraries = Flushed({k})
  OBVIOUS
<1>4. Fewer(libraries) /\ \A j \in loaded : libraries[j] = deps[j]
  BY <1>2, <1>3, FlushedFacts
<1>5. resolved \ {k} = resolved /\ k \notin loaded
  BY <1>1 DEF Usable, Memory
<1>6. libraries[k] = <<>> /\ \A j \in Kexts : j # k => libraries[j] = deps[j]
  BY <1>1, <1>3, <1>5 DEF Flushed
<1>7. Holders(byId, loadedKexts, libraries, resolved, held)
  BY <1>1, <1>3, <1>5 DEF ResolveBegins
<1>8. PICK alive : Leaves(byId, loadedKexts, libraries, resolved, held, alive)
  BY <1>2, <1>4, <1>7, HoldersLeave DEF Fewer
<1>9. HoldersTyped'
  BY <1>2, <1>4, <1>8, LeavesTyped DEF Fewer
<1>10. loaded \subseteq Usable(resolved) /\ \A j \in Usable(resolved) : ToSet(libraries[j]) \subseteq Usable(resolved)
  <2>1. \A j \in Kexts : ToSet(libraries[j]) \subseteq ToSet(deps[j])
    BY <1>4, EmptyToSet DEF Fewer
  <2>2. Usable(resolved) \subseteq Kexts
    BY <1>2, LoadAssumption DEF Usable, LoadAssumption
  <2>3. \A j \in Usable(resolved) : ToSet(deps[j]) \subseteq Usable(resolved)
    BY DEF Graph, Resolving
  <2> QED BY <2>1, <2>2, <2>3 DEF Memory
<1>11. Loses
  BY <1>4, <1>8, <1>10, LeavesLoses
<1>12. deps'[k] = <<>> /\ byId' = byId /\ resolved' = resolved \cap alive
       /\ \A j \in Kexts : j \notin alive => deps'[j] = <<>>
  BY <1>6, <1>8 DEF Leaves
<1>13. \A j \in alive : ToSet(deps[j]) \subseteq alive \/ j = k
  BY <1>6, <1>8 DEF Leaves
<1> QED BY <1>1, <1>9, <1>11, <1>12, <1>13

-----------------------------------------------------------------------------
(* What a step does to the kexts.  Most change neither which are in memory *)
(* nor what is linked against what.                                        *)
Steady ==
  /\ UNCHANGED <<byId, loadedKexts, deps, resolved, held, loaded, kmodInfos, nextTag>>
  /\ delayed' \subseteq Kexts /\ started' \subseteq loaded /\ inUse' \subseteq started'
  /\ enabled' \subseteq {"load", "unload"} /\ userLoads' = userLoads

Losing ==
  /\ Loses /\ HoldersTyped'
  /\ UNCHANGED <<loaded, started, inUse, kmodInfos, nextTag, enabled>> /\ userLoads' \in BOOLEAN

(* Steady steps keep values, links and memory, *)
LEMMA SteadyKeeps ==
  ASSUME Typed, Graph, Memory, Steady, KeepsControl
  PROVE  Typed' /\ Graph' /\ Memory'
<1>1. UNCHANGED <<byId, loadedKexts, deps, resolved, held, loaded, kmods, references, nextTag, userLoads>>
      /\ delayed' \subseteq Kexts /\ started' \subseteq loaded /\ inUse' \subseteq started'
      /\ enabled' \subseteq {"load", "unload"}
  BY DEF Steady, kmodInfos
<1>2. Typed'
  BY <1>1 DEF Typed, KeepsControl
<1>3. Graph'
  BY <1>1 DEF Graph
<1>4. Listing(loadedKexts, loaded, deps)' /\ Chaining(loadedKexts, kmods.kmod, kmods.next)'
  BY <1>1 DEF Memory
<1>5. loaded' \subseteq Usable(resolved)'
  BY <1>1 DEF Memory
<1>6. ReferencesCoverLinks'
  BY <1>1 DEF Memory, ReferencesCoverLinks
<1> QED BY <1>1, <1>2, <1>3, <1>4, <1>5, <1>6 DEF Memory

(* and so do the losing ones. *)
LEMMA LosingKeeps ==
  ASSUME Typed, Graph, Memory, Losing, KeepsControl
  PROVE  Typed' /\ Graph' /\ Memory'
<1>1. Graph' /\ Memory'
  BY LosesKeeps DEF Losing
<1>2. Typed'
  BY DEF Typed, Losing, HoldersTyped, KeepsControl, kmodInfos
<1> QED BY <1>1, <1>2

(* The steady steps, *)
LEMMA SteadySteps ==
  ASSUME Typed, Memory, Control,
         \/ ResolveAtOnce \/ ResolveLibrary \/ LoadRefused \/ LoadNothing \/ LoadResolves \/ LoadDependency
         \/ ResolveFailed \/ LoadStarts \/ LoadEnds \/ RequestFails
         \/ StartAtOnce \/ StartBegins \/ StartDependency \/ DependencyNotStarted
         \/ RemoveRefused \/ UnloadRefused \/ UnloadBegins \/ StopFails \/ Stop
         \/ ScanSkips \/ ScanRemoves \/ ScanRemoved \/ PassEnds
         \/ \E i \in Ids : RemoveKext(i)
         \/ \E i \in Ids, opt \in Opts, delay \in BOOLEAN : LoadKextWithIdentifier(i, opt, delay)
         \/ \E flags \in SUBSET {"load", "unload"} : SetEnabled(flags)
         \/ \E k \in Kexts : FirstInstance(k) \/ LastInstance(k)
  PROVE  Steady
<1>1. /\ delayed \subseteq Kexts /\ started \subseteq loaded /\ inUse \subseteq started
      /\ enabled \subseteq {"load", "unload"}
  BY DEF Typed, Memory
<1>2. ASSUME UNCHANGED <<holders, loaded, started, inUse, kmodInfos, nextTag, switches>> PROVE Steady
  BY <1>1, <1>2 DEF Steady, holders, switches
<1>3. CASE ResolveAtOnce \/ ResolveLibrary \/ LoadRefused \/ LoadNothing \/ LoadResolves
  BY <1>2, <1>3 DEF ResolveAtOnce, ResolveLibrary, LoadRefused, LoadNothing, LoadResolves
<1>4. CASE LoadDependency \/ ResolveFailed \/ LoadStarts \/ LoadEnds \/ RequestFails
  BY <1>2, <1>4 DEF LoadDependency, ResolveFailed, LoadStarts, LoadEnds, RequestFails
<1>5. CASE StartAtOnce \/ StartBegins \/ StartDependency \/ DependencyNotStarted
  BY <1>2, <1>5 DEF StartAtOnce, StartBegins, StartDependency, DependencyNotStarted
<1>6. CASE RemoveRefused \/ UnloadRefused \/ UnloadBegins \/ StopFails
  BY <1>2, <1>6 DEF RemoveRefused, UnloadRefused, UnloadBegins, StopFails
<1>7. CASE ScanRemoves \/ ScanRemoved \/ PassEnds
  BY <1>2, <1>7 DEF ScanRemoves, ScanRemoved, PassEnds
<1>8. CASE Stop
  BY <1>1, <1>8 DEF Stop, Steady, holders, switches
<1>9. CASE ScanSkips
  <2>1. delayed' \subseteq delayed
    BY <1>9 DEF ScanSkips
  <2> QED BY <1>1, <1>9, <2>1 DEF ScanSkips, Steady, switches
<1>10. CASE \E i \in Ids : RemoveKext(i)
  BY <1>2, <1>10 DEF RemoveKext
<1>11. CASE \E i \in Ids, opt \in Opts, delay \in BOOLEAN : LoadKextWithIdentifier(i, opt, delay)
  BY <1>2, <1>11 DEF LoadKextWithIdentifier
<1>12. CASE \E flags \in SUBSET {"load", "unload"} : SetEnabled(flags)
  BY <1>1, <1>12 DEF SetEnabled, Steady, holders
<1>13. CASE \E k \in Kexts : FirstInstance(k) \/ LastInstance(k)
  BY <1>1, <1>13 DEF FirstInstance, LastInstance, Steady, holders, switches
<1> QED BY <1>3, <1>4, <1>5, <1>6, <1>7, <1>8, <1>9, <1>10, <1>11, <1>12, <1>13

(* and those that lose. *)
LEMMA LosingSteps ==
  ASSUME Typed, Graph, Memory, Control,
         \/ ResolveBegins \/ DependencyFailed \/ RemoveBegins \/ RemoveEnds
         \/ RequestReturns \/ ConsiderUnloads
         \/ \E k \in Kexts : RegisterBootKext(k) \/ ReleaseKext(k)
         \/ \E i \in Ids : LookupKext(i)
         \/ \E S \in SUBSET Kexts, k \in Kexts, opt \in Opts : LoadFromMkext(S, k, opt)
  PROVE  Steady \/ Losing
<1> USE LoadAssumption DEF LoadAssumption
<1>1. /\ delayed \subseteq Kexts /\ started \subseteq loaded /\ inUse \subseteq started
      /\ enabled \subseteq {"load", "unload"} /\ userLoads \in BOOLEAN
      /\ stack \in Seq(FrameType) /\ byId \in [Ids -> Kexts \cup {None}] /\ held \in SUBSET Kexts
  BY DEF Typed, Memory
<1>2. ASSUME UNCHANGED <<holders, loaded, started, inUse, kmodInfos, nextTag, switches>> PROVE Steady
  BY <1>1, <1>2 DEF Steady, holders, switches
<1>3. ASSUME Loses /\ HoldersTyped', UNCHANGED <<loaded, started, inUse, kmodInfos, nextTag, enabled>>,
             userLoads' \in BOOLEAN
      PROVE  Losing
  BY <1>3 DEF Losing
<1>4. CASE ResolveBegins
  BY <1>1, <1>3, <1>4, ResolveLoses DEF ResolveBegins, switches
<1>5. CASE DependencyFailed
  <2>1. PICK d : d = deps[Top.kext][Top.i]
    OBVIOUS
  <2>2. CASE d \in loaded
    BY <1>2, <1>5, <2>1, <2>2 DEF DependencyFailed
  <2>3. CASE d \notin loaded
    <3>1. ForgetId(d)
      BY <1>5, <2>1, <2>3 DEF DependencyFailed
    <3>2. CASE d \in Kexts
      BY <1>1, <1>3, <1>5, <3>1, <3>2, ForgetLoses DEF DependencyFailed, switches
    <3>3. CASE d \notin Kexts
      <4>1. PICK ids : ids = [byId EXCEPT ![IdOf[d]] = IF @ = d THEN None ELSE @]
        OBVIOUS
      <4>2. ids \in [Ids -> Kexts \cup {None}]
        BY <1>1, <4>1
      <4>3. Holders(ids, loadedKexts, deps, resolved, held)
        BY <3>1, <4>1 DEF ForgetId
      <4>4. Loses /\ HoldersTyped'
        BY <1>1, <4>2, <4>3, SameLoses
      <4> QED BY <1>1, <1>3, <1>5, <4>4 DEF DependencyFailed, switches
    <3> QED BY <3>2, <3>3
  <2> QED BY <2>2, <2>3
<1>6. ASSUME Top.kext \in Kexts, ForgetId(Top.kext) PROVE Loses /\ HoldersTyped'
  BY <1>6, ForgetLoses
<1>7. CASE RemoveBegins
  <2>1. At("remove", "begin")
    BY <1>7 DEF RemoveBegins
  <2>2. Top.kext \in Kexts
    BY <1>1, <2>1, AtFacts
  <2>3. CASE Top.kext \in loaded
    BY <1>2, <1>7, <2>3 DEF RemoveBegins
  <2>4. CASE Top.kext \notin loaded
    BY <1>1, <1>3, <1>6, <1>7, <2>2, <2>4 DEF RemoveBegins, switches
  <2> QED BY <2>3, <2>4
<1>8. CASE RemoveEnds
  <2>1. At("remove", "unloaded")
    BY <1>8 DEF RemoveEnds
  <2>2. Top.kext \in Kexts
    BY <1>1, <2>1, AtFacts
  <2>3. CASE ~Succeeded
    BY <1>2, <1>8, <2>3 DEF RemoveEnds
  <2>4. CASE Succeeded
    BY <1>1, <1>3, <1>6, <1>8, <2>2, <2>4 DEF RemoveEnds, switches
  <2> QED BY <2>3, <2>4
<1>9. CASE RequestReturns
  <2>1. CASE Top.mkext
    BY <1>1, <1>3, <1>9, <2>1, FlushLoses DEF RequestReturns, switches
  <2>2. CASE ~Top.mkext
    <3>1. /\ delayed' = IF Top.flag /\ Top.at = "loading" THEN delayed \cup {Top.kext} ELSE delayed
          /\ UNCHANGED <<byId, loadedKexts, deps, resolved, held, loaded, started, inUse, kmodInfos, nextTag, switches>>
      BY <1>9, <2>2 DEF RequestReturns
    <3>2. Top.kext \in Kexts
      <4>1. At("request", "removed") \/ At("request", "loading")
        BY <1>9 DEF RequestReturns
      <4> QED BY <1>1, <4>1, AtFacts
    <3> QED BY <1>1, <3>1, <3>2 DEF Steady, switches
  <2> QED BY <2>1, <2>2
<1>10. CASE ConsiderUnloads
  BY <1>1, <1>3, <1>10, FlushLoses DEF ConsiderUnloads, switches
<1>11. ASSUME NEW k \in Kexts, RegisterBootKext(k) PROVE Losing
  <2>1. PICK late : late = FALSE
    OBVIOUS
  <2>2. Register(byId, k, late) \in [Ids -> Kexts \cup {None}]
    BY <1>1, RegisterType
  <2>3. Loses /\ HoldersTyped'
    BY <1>1, <1>11, <2>1, <2>2, SameLoses DEF RegisterBootKext
  <2> QED BY <1>1, <1>3, <1>11, <2>3 DEF RegisterBootKext, switches
<1>12. ASSUME NEW k \in Kexts, ReleaseKext(k) PROVE Losing
  <2>1. held \ {k} \in SUBSET Kexts
    BY <1>1
  <2>2. Loses /\ HoldersTyped'
    BY <1>1, <1>12, <2>1, SameLoses DEF ReleaseKext
  <2> QED BY <1>1, <1>3, <1>12, <2>2 DEF ReleaseKext, switches
<1>13. ASSUME NEW i \in Ids, LookupKext(i) PROVE Losing
  <2>1. PICK k \in Kexts : k = byId[i] /\ Holders(byId, loadedKexts, deps, resolved, held \cup {k})
    BY <1>13 DEF LookupKext
  <2>2. held \cup {k} \in SUBSET Kexts
    BY <1>1
  <2>3. Loses /\ HoldersTyped'
    BY <1>1, <2>1, <2>2, SameLoses
  <2> QED BY <1>1, <1>3, <1>13, <2>3 DEF LookupKext, switches
<1>14. ASSUME NEW S \in SUBSET Kexts, NEW k \in Kexts, NEW opt \in Opts, LoadFromMkext(S, k, opt)
       PROVE  Losing
  <2>1. PICK ids : ids = [i \in Ids |-> IF \E j \in S : IdOf[j] = i
                                        THEN Register(byId, CHOOSE j \in S : IdOf[j] = i, TRUE)[i]
                                        ELSE byId[i]]
    OBVIOUS
  <2>2. Holders(ids, loadedKexts, deps, resolved, held)
    BY <1>14, <2>1 DEF LoadFromMkext
  <2>3. PICK late : late = TRUE
    OBVIOUS
  <2>4. \A i \in Ids : ids[i] \in Kexts \cup {None}
    <3> TAKE i \in Ids
    <3>1. CASE \E j \in S : IdOf[j] = i
      <4>1. PICK j : j = CHOOSE l \in S : IdOf[l] = i
        OBVIOUS
      <4>2. j \in Kexts /\ ids[i] = Register(byId, j, late)[i]
        BY <2>1, <2>3, <3>1, <4>1
      <4>3. Register(byId, j, late) \in [Ids -> Kexts \cup {None}]
        BY <1>1, <4>2, RegisterType
      <4> QED BY <4>2, <4>3
    <3>2. CASE ~ \E j \in S : IdOf[j] = i
      BY <1>1, <2>1, <3>2
    <3> QED BY <3>1, <3>2
  <2>5. ids \in [Ids -> Kexts \cup {None}]
    BY <2>1, <2>4
  <2>6. Loses /\ HoldersTyped'
    BY <1>1, <2>2, <2>5, SameLoses
  <2> QED BY <1>3, <1>14, <2>6 DEF LoadFromMkext
<1> QED BY <1>4, <1>5, <1>7, <1>8, <1>9, <1>10, <1>11, <1>12, <1>13, <1>14

-----------------------------------------------------------------------------
(* The steps that link kexts, and bring them into memory and out of it.    *)
LEMMA OrderedWith ==
  ASSUME NEW libraries \in [Kexts -> Seq(Kexts)], NEW more \in [Kexts -> Seq(Kexts)], NEW R, NEW k,
         Ordered(libraries), k \notin R, \A j \in R \cap Kexts : ToSet(libraries[j]) \subseteq R,
         ToSet(more[k]) \subseteq R, \A j \in Kexts : j # k => more[j] = libraries[j]
  PROVE  Ordered(more)
<1> SUFFICES ASSUME NEW S \in SUBSET Kexts, S # {}
             PROVE  \E i \in S : \A j \in S : i \notin ToSet(more[j])
  BY DEF Ordered
<1>1. CASE S \subseteq R
  <2>1. PICK i \in S : \A j \in S : i \notin ToSet(libraries[j])
    BY DEF Ordered
  <2> QED BY <1>1, <2>1
<1>2. CASE ~(S \subseteq R)
  <2>1. S \ R # {} /\ S \ R \in SUBSET Kexts
    BY <1>2
  <2>2. PICK i \in S \ R : \A j \in S \ R : i \notin ToSet(libraries[j])
    BY <2>1 DEF Ordered
  <2>3. \A j \in S : i \notin ToSet(more[j])
    <3> SUFFICES ASSUME NEW j \in S PROVE i \notin ToSet(more[j])
      OBVIOUS
    <3>1. CASE j = k
      BY <2>2, <3>1
    <3>2. CASE j # k
      BY <2>2, <3>2
    <3> QED BY <3>1, <3>2
  <2> QED BY <2>2, <2>3
<1> QED BY <1>1, <1>2

(* The array does not depend on the links of others. *)
LEMMA SameListing ==
  ASSUME NEW array, NEW in, NEW libraries, NEW others, Listing(array, in, libraries),
         \A n \in DOMAIN array : others[array[n]] = libraries[array[n]]
  PROVE  Listing(array, in, others)
BY DEF Listing

(* What is known where a library was resolved. *)
LEMMA AddedFacts ==
  ASSUME Typed, Control, Resolves, NEW label \in {"library", "added"}, At("resolve", label)
  PROVE  /\ Top.kext \in Kexts \ Usable(resolved) /\ ToSet(deps[Top.kext]) \subseteq Usable(resolved)
         /\ Top.i \in 0 .. Len(LibrariesOf[Top.kext])
         /\ \A m \in 1 .. Len(stack) - 1 : stack[m].op = "load" => stack[m].at # "dependency"
         /\ label = "added" => /\ Top.i < Len(LibrariesOf[Top.kext]) /\ Library \in Kexts
                               /\ Succeeded => Library \in Usable(resolved)
<1>1. /\ Top.op = "resolve" /\ Top.at = label /\ Top.kext \in Kexts
      /\ Len(stack) \in DOMAIN stack /\ Top = stack[Len(stack)]
  BY AtFacts DEF Typed
<1>2. ResolveFits(Len(stack))
  BY <1>1 DEF Resolves
<1> QED BY <1>1, <1>2 DEF ResolveFits, Library

(* A kext is linked to a library that is resolved: no circle can close,    *)
(* since the library does not reach what is not resolved.                  *)
LEMMA LibraryKeeps ==
  ASSUME Typed, Graph, Memory, Control, Resolves, LibraryResolved, Succeeded, KeepsControl
  PROVE  /\ Typed' /\ Graph' /\ Memory'
         /\ \A k \in Kexts : k # Top.kext => deps'[k] = deps[k]
         /\ ToSet(deps'[Top.kext]) \subseteq Usable(resolved)
<1>1. PICK k \in Kexts, library \in Kexts : k = Top.kext /\ library = Library
  <2>1. At("resolve", "added")
    BY DEF LibraryResolved
  <2> QED BY <2>1, AddedFacts
<1>2. k \notin Usable(resolved) /\ ToSet(deps[k]) \subseteq Usable(resolved) /\ library \in Usable(resolved)
  <2>1. At("resolve", "added")
    BY DEF LibraryResolved
  <2> QED BY <1>1, <2>1, AddedFacts
<1>3. deps \in [Kexts -> Seq(Kexts)] /\ loaded \subseteq Kexts /\ resolved \subseteq Kexts
  BY DEF Typed
<1>4. PICK p : p = Pulled /\ p \in Seq(Kexts) /\ ToSet(p) \subseteq Usable(resolved) /\ ToSet(p) \cap Codeless = {}
  <2>1. CASE library \in Codeless
    <3>1. Pulled = deps[library]
      BY <1>1, <2>1 DEF Pulled
    <3>2. deps[library] \in Seq(Kexts) /\ ToSet(deps[library]) \subseteq Usable(resolved)
          /\ ToSet(deps[library]) \cap Codeless = {}
      BY <1>2, <1>3 DEF Graph, Resolving
    <3> QED BY <3>1, <3>2
  <2>2. CASE library \notin Codeless
    <3>1. ToSet(<<library>>) = {library} /\ <<library>> \in Seq(Kexts)
      BY DEF ToSet
    <3>2. Pulled = <<library>>
      BY <1>1, <2>2 DEF Pulled
    <3>3. Pulled \in Seq(Kexts) /\ ToSet(Pulled) = {library}
      BY <3>1, <3>2
    <3> QED BY <1>2, <2>2, <3>3
  <2> QED BY <2>1, <2>2
<1>5. PICK w \in Seq(Kexts) : w = WithAll(deps[k], p) /\ ToSet(w) = ToSet(deps[k]) \cup ToSet(p)
  BY <1>3, <1>4, WithAllFacts
<1>6. /\ deps' = [deps EXCEPT ![k] = w]
      /\ UNCHANGED <<byId, loadedKexts, resolved, delayed, held, loaded, started, inUse, kmods, references,
                     nextTag, enabled, userLoads>>
  BY <1>1, <1>4, <1>5 DEF LibraryResolved, kmodInfos, switches
<1>7. deps' \in [Kexts -> Seq(Kexts)] /\ deps'[k] = w /\ \A j \in Kexts : j # k => deps'[j] = deps[j]
  BY <1>3, <1>6
<1>8. Typed'
  BY <1>6, <1>7 DEF Typed, KeepsControl
<1>9. ToSet(deps'[k]) \subseteq Usable(resolved)
  BY <1>2, <1>4, <1>5, <1>7
<1>10. Ordered(deps)'
  <2>1. \A j \in Usable(resolved) \cap Kexts : ToSet(deps[j]) \subseteq Usable(resolved)
    BY DEF Graph, Resolving
  <2>2. PICK libraries \in [Kexts -> Seq(Kexts)], more \in [Kexts -> Seq(Kexts)] :
          libraries = deps /\ more = deps'
    BY <1>3, <1>7
  <2>3. PICK R : R = Usable(resolved)
    OBVIOUS
  <2>4. Ordered(libraries) /\ k \notin R /\ \A j \in R \cap Kexts : ToSet(libraries[j]) \subseteq R
    BY <1>2, <2>1, <2>2, <2>3 DEF Graph
  <2>5. ToSet(more[k]) \subseteq R /\ \A j \in Kexts : j # k => more[j] = libraries[j]
    BY <1>7, <1>9, <2>2, <2>3
  <2>6. Ordered(more)
    BY <2>4, <2>5, OrderedWith
  <2> QED BY <2>2, <2>6
<1>11. Resolving(deps, resolved)'
  <2>1. /\ \A j \in Usable(resolved) : ToSet(deps[j]) \subseteq Usable(resolved)
        /\ \A j \in Components \cup {Kernel} : deps[j] = <<>>
        /\ \A j \in Kexts : ToSet(deps[j]) \cap Codeless = {}
    BY DEF Graph, Resolving
  <2>2. Usable(resolved) \subseteq Kexts /\ k \notin Components \cup {Kernel}
    BY <1>2, <1>3, LoadAssumption DEF Usable, LoadAssumption
  <2>3. ToSet(deps'[k]) \cap Codeless = {}
    BY <1>4, <1>5, <1>7, <2>1
  <2>4. \A j \in Usable(resolved) : ToSet(deps'[j]) \subseteq Usable(resolved)
    BY <1>2, <1>7, <2>1, <2>2
  <2>5. \A j \in Components \cup {Kernel} : deps'[j] = <<>>
    BY <1>7, <2>1, <2>2 DEF Usable
  <2>6. \A j \in Kexts : ToSet(deps'[j]) \cap Codeless = {}
    BY <1>7, <2>1, <2>3
  <2> QED BY <1>6, <2>4, <2>5, <2>6 DEF Resolving
<1>12. k \notin loaded /\ \A j \in loaded : deps'[j] = deps[j]
  BY <1>2, <1>3, <1>7 DEF Memory
<1>13. Listing(loadedKexts, loaded, deps)'
  <2>1. \A n \in DOMAIN loadedKexts : deps'[loadedKexts[n]] = deps[loadedKexts[n]]
    BY <1>12, LinksAreIn
  <2>2. loadedKexts' = loadedKexts /\ loaded' = loaded
    BY <1>6
  <2>3. PICK others : others = deps'
    OBVIOUS
  <2>4. Listing(loadedKexts, loaded, deps)
    BY DEF Memory
  <2>5. Listing(loadedKexts, loaded, others)
    BY <2>1, <2>3, <2>4, SameListing
  <2> QED BY <2>2, <2>3, <2>5
<1>14. ReferencesCoverLinks'
  <2>1. \A i : {j \in loaded : i \in ToSet(deps'[j])} = {j \in loaded : i \in ToSet(deps[j])}
    BY <1>12
  <2> QED BY <1>6, <2>1 DEF ReferencesCoverLinks, Memory
<1>15. Memory'
  BY <1>6, <1>13, <1>14 DEF Memory
<1> QED BY <1>1, <1>7, <1>8, <1>9, <1>10, <1>11, <1>15 DEF Graph

(* A kext whose libraries are all resolved counts as resolved. *)
LEMMA ResolvedKeeps ==
  ASSUME Typed, Graph, Memory, Control, Resolves, ResolveEnds, Top.kext \notin Refused, KeepsControl
  PROVE  /\ Typed' /\ Graph' /\ Memory'
         /\ resolved' = resolved \cup {Top.kext} /\ deps' = deps
<1>1. PICK k \in Kexts : k = Top.kext /\ ToSet(deps[k]) \subseteq Usable(resolved)
  <2>1. At("resolve", "library")
    BY DEF ResolveEnds
  <2> QED BY <2>1, AddedFacts
<1>2. /\ resolved' = resolved \cup {k}
      /\ UNCHANGED <<byId, loadedKexts, deps, delayed, held, loaded, started, inUse, kmods, references,
                     nextTag, enabled, userLoads>>
  BY <1>1 DEF ResolveEnds, kmodInfos, switches
<1>3. Typed'
  BY <1>2 DEF Typed, KeepsControl
<1>4. Usable(resolved') = Usable(resolved) \cup {k}
  BY <1>2 DEF Usable
<1>5. Graph'
  BY <1>1, <1>2, <1>4 DEF Graph, Resolving
<1>6. Memory'
  <2>1. ReferencesCoverLinks'
    BY <1>2 DEF Memory, ReferencesCoverLinks
  <2> QED BY <1>2, <1>4, <2>1 DEF Memory
<1> QED BY <1>1, <1>2, <1>3, <1>5, <1>6

(* The load tags. *)
LEMMA NextTagType ==
  ASSUME nextTag \in 0 .. InvalidTag
  PROVE  NextTag \in 0 .. InvalidTag
BY LoadAssumption DEF NextTag, LoadAssumption

(* The kext that is about to be linked. *)
LEMMA ReadyFacts ==
  ASSUME Typed, Control, Loads, ReadyToLink
  PROVE  /\ Top.kext \in Kexts \ loaded /\ Top.kext \in Usable(resolved)
         /\ ToSet(deps[Top.kext]) \subseteq loaded
         /\ ~Idle /\ Top.op = "load"
<1>1. Succeeded /\ Top.i = Len(deps[Top.kext]) /\ (At("load", "resolved") \/ At("load", "dependency"))
  BY DEF ReadyToLink, LibrariesAreIn
<1>2. /\ ~Idle /\ Top.op = "load" /\ Top.kext \in Kexts /\ WellPlaced(Top)
      /\ Len(stack) \in DOMAIN stack /\ Top = stack[Len(stack)] /\ stack \in Seq(FrameType)
  BY <1>1, AtFacts DEF Typed
<1>3. LoadFits(Len(stack))
  BY <1>2 DEF Loads
<1>4. PICK s \in Seq(Kexts) : s = deps[Top.kext]
  BY <1>2 DEF Typed
<1>5. DOMAIN s = 1 .. Len(s) /\ Len(s) \in Nat /\ \A x \in ToSet(s) : \E i \in DOMAIN s : s[i] = x
  BY ToSetFacts
<1>6. CASE Top.at = "resolved"
  <2>1. Len(s) = 0
    BY <1>1, <1>2, <1>4, <1>6 DEF WellPlaced
  <2>2. ToSet(s) = {}
    BY <1>5, <2>1
  <2> QED BY <1>1, <1>2, <1>3, <1>4, <1>6, <2>2 DEF LoadFits
<1>7. CASE Top.at = "dependency"
  <2>1. Top.kext \in Usable(resolved) \ loaded
    BY <1>1, <1>2, <1>3, <1>7 DEF LoadFits, Going
  <2>2. /\ Top.i \in DOMAIN s /\ \A j \in 1 .. Top.i - 1 : s[j] \in loaded
        /\ s[Top.i] \in loaded
    BY <1>1, <1>2, <1>3, <1>4, <1>7 DEF LoadFits, Going
  <2>3. \A j \in DOMAIN s : j \in 1 .. Top.i - 1 \/ j = Top.i
    BY <1>1, <1>4, <1>5
  <2>4. ToSet(s) \subseteq loaded
    BY <1>5, <2>2, <2>3
  <2> QED BY <1>2, <1>4, <2>1, <2>4
<1> QED BY <1>1, <1>6, <1>7 DEF At

(* References that go up, *)
LEMMA CountedUp ==
  ASSUME references \in [Kexts -> Int], NEW S
  PROVE  \E c \in [Kexts -> Int] :
           c = Counted(S, 1) /\ \A j \in Kexts : c[j] = references[j] + IF j \in S THEN 1 ELSE 0
<1>1. PICK c : c = [j \in Kexts |-> references[j] + IF j \in S THEN 1 ELSE 0]
  OBVIOUS
<1>2. \A j \in Kexts : (references[j] + IF j \in S THEN 1 ELSE 0) \in Int
  OBVIOUS
<1>3. c \in [Kexts -> Int]
  BY <1>1, <1>2
<1>4. \A j \in Kexts : (IF j \in S THEN references[j] + 1 ELSE references[j]) = c[j]
  BY <1>1
<1>5. c = Counted(S, 1)
  BY <1>1, <1>4 DEF Counted
<1> QED BY <1>1, <1>3, <1>5

(* A failure that has counted the references leaves them too high.         *)
LEMMA FailureKeeps ==
  ASSUME Typed, Graph, Memory, Control, Loads, LoadExecutableFails, KeepsControl
  PROVE  /\ Typed' /\ Graph' /\ Memory'
         /\ UNCHANGED <<byId, loadedKexts, deps, resolved, loaded, started>>
<1>1. UNCHANGED <<byId, loadedKexts, deps, resolved, delayed, held, loaded, started, inUse, kmods, enabled, userLoads>>
  BY DEF LoadExecutableFails, holders, switches
<1>2. Top.kext \in Kexts \ loaded
  BY ReadyFacts DEF LoadExecutableFails
<1>3. PICK k, S : k = Top.kext /\ S = ToSet(deps[k])
  OBVIOUS
<1>4. \/ UNCHANGED <<references, nextTag>>
      \/ references' = [Counted(S, 1) EXCEPT ![k] = 0] /\ nextTag' = NextTag
  BY <1>3 DEF LoadExecutableFails
<1>5. references \in [Kexts -> Int] /\ nextTag \in 0 .. InvalidTag /\ loaded \subseteq Kexts
  BY DEF Typed
<1>6. nextTag' \in 0 .. InvalidTag
  BY <1>4, <1>5, NextTagType
<1>7. /\ references' \in [Kexts -> Int]
      /\ \A j \in loaded : references'[j] >= references[j]
  <2>1. CASE references' = references
    BY <1>5, <2>1
  <2>2. CASE references' = [Counted(S, 1) EXCEPT ![k] = 0]
    <3>1. PICK c \in [Kexts -> Int] : /\ c = Counted(S, 1)
                                     /\ \A j \in Kexts : c[j] = references[j] + IF j \in S THEN 1 ELSE 0
      BY <1>5, CountedUp
    <3>2. references' = [c EXCEPT ![k] = 0]
      BY <2>2, <3>1
    <3>3. references' \in [Kexts -> Int]
      BY <1>2, <1>3, <3>1, <3>2
    <3>4. \A j \in loaded : references'[j] = c[j] /\ c[j] >= references[j]
      BY <1>2, <1>3, <1>5, <3>1, <3>2
    <3> QED BY <3>3, <3>4
  <2> QED BY <1>4, <2>1, <2>2
<1>8. Typed'
  BY <1>1, <1>6, <1>7 DEF Typed, KeepsControl
<1>9. Graph'
  BY <1>1 DEF Graph
<1>10. ReferencesCoverLinks'
  <2>1. \A j \in loaded : Cardinality({i \in loaded : j \in ToSet(deps[i])}) \in Nat
    <3> TAKE j \in loaded
    <3>1. IsFiniteSet({i \in loaded : j \in ToSet(deps[i])})
      BY <1>5, FS_Subset, LoadAssumption DEF LoadAssumption
    <3> QED BY <3>1, FS_CardinalityType
  <2>2. \A j \in loaded : references[j] >= Cardinality({i \in loaded : j \in ToSet(deps[i])})
    BY DEF Memory, ReferencesCoverLinks
  <2>3. \A j \in loaded : references[j] \in Int /\ references'[j] \in Int
    BY <1>5, <1>7
  <2>4. \A j \in loaded : references'[j] >= Cardinality({i \in loaded : j \in ToSet(deps[i])})
    BY <1>7, <2>1, <2>2, <2>3
  <2> QED BY <1>1, <2>4 DEF ReferencesCoverLinks
<1>11. Memory'
  BY <1>1, <1>10 DEF Memory
<1> QED BY <1>1, <1>8, <1>9, <1>11

Clients(in, libraries, j) == {i \in in : j \in ToSet(libraries[i])}

(* How many kexts in memory are linked against one, with another that      *)
(* comes or goes.                                                          *)
LEMMA ClientsCount ==
  ASSUME NEW in \in SUBSET Kexts, NEW libraries, NEW k \in Kexts \ in, NEW j
  PROVE  /\ Cardinality(Clients(in, libraries, j)) \in Nat
         /\ Cardinality(Clients(in \cup {k}, libraries, j))
              = Cardinality(Clients(in, libraries, j)) + IF j \in ToSet(libraries[k]) THEN 1 ELSE 0
<1>1. PICK S : S = Clients(in, libraries, j) /\ k \notin S /\ S \subseteq Kexts
  BY DEF Clients
<1>2. IsFiniteSet(S) /\ Cardinality(S) \in Nat
  BY <1>1, FS_Subset, FS_CardinalityType, LoadAssumption DEF LoadAssumption
<1>3. Clients(in \cup {k}, libraries, j) = IF j \in ToSet(libraries[k]) THEN S \cup {k} ELSE S
  BY <1>1 DEF Clients
<1>4. Cardinality(S \cup {k}) = Cardinality(S) + 1
  BY <1>1, <1>2, FS_AddElement
<1>5. CASE j \in ToSet(libraries[k])
  BY <1>1, <1>2, <1>3, <1>4, <1>5
<1>6. CASE j \notin ToSet(libraries[k])
  BY <1>1, <1>2, <1>3, <1>6
<1> QED BY <1>5, <1>6

(* ReferencesCoverLinks in terms of Clients. *)
LEMMA ReferencesRestated ==
  ReferencesCoverLinks <=> \A j \in loaded : references[j] >= Cardinality(Clients(loaded, deps, j))
BY DEF ReferencesCoverLinks, Clients

(* A kext enters the array last, with its links counted and its kmod_info  *)
(* first in the list.                                                      *)
LEMMA LoadKeeps ==
  ASSUME Typed, Graph, Memory, Control, Loads, LoadExecutable, KeepsControl
  PROVE  /\ Typed' /\ Graph' /\ Memory'
         /\ loaded' = loaded \cup {Top.kext} /\ UNCHANGED <<byId, deps, resolved, started>>
<1>0. PICK s, N : s = loadedKexts /\ N = Len(s)
  OBVIOUS
<1>1. PICK k \in Kexts \ loaded : k = Top.kext /\ k \in Usable(resolved) /\ ToSet(deps[k]) \subseteq loaded
  BY ReadyFacts DEF LoadExecutable
<1>2. /\ UNCHANGED <<byId, deps, resolved, delayed, held, started, inUse, enabled, userLoads>>
      /\ references' = [Counted(ToSet(deps[k]), 1) EXCEPT ![k] = 0]
      /\ nextTag' = NextTag /\ loaded' = loaded \cup {k} /\ loadedKexts' = Append(s, k)
      /\ kmods' = [kmod |-> k, next |-> [kmods.next EXCEPT ![k] = IF Last(s) = Kernel THEN None ELSE Last(s)]]
  BY <1>0, <1>1 DEF LoadExecutable, switches
<1>3. /\ s \in Seq(Kexts) /\ loaded \subseteq Kexts /\ deps \in [Kexts -> Seq(Kexts)]
      /\ references \in [Kexts -> Int] /\ nextTag \in 0 .. InvalidTag
      /\ kmods \in [kmod : Kexts \cup {None}, next : [Kexts -> Kexts \cup {None}]]
  BY <1>0 DEF Typed
<1>4. /\ N \in Nat /\ DOMAIN s = 1 .. N /\ \A n \in 1 .. N : s[n] \in Kexts
      /\ \A x : x \in ToSet(s) <=> \E i \in 1 .. N : s[i] = x
  BY <1>0, <1>3, ToSetFacts, ElementOfSeq
<1>5. /\ ToSet(s) = loaded /\ \A m, n \in 1 .. N : s[m] = s[n] => m = n
      /\ 1 \in 1 .. N /\ s[1] = Kernel
      /\ \A n \in 1 .. N : \A d \in ToSet(deps[s[n]]) : \E m \in 1 .. n - 1 : s[m] = d
  <2>1. Listing(s, loaded, deps)
    BY <1>0 DEF Memory
  <2> QED BY <1>4, <2>1 DEF Listing
<1>6. PICK a : /\ a = Append(s, k) /\ a \in Seq(Kexts) /\ Len(a) = N + 1 /\ DOMAIN a = 1 .. N + 1
               /\ \A i \in 1 .. N : a[i] = s[i]
               /\ a[N + 1] = k /\ ToSet(a) = ToSet(s) \cup {k}
  <2>1. /\ Append(s, k) \in Seq(Kexts) /\ Len(Append(s, k)) = Len(s) + 1
        /\ DOMAIN Append(s, k) = 1 .. Len(s) + 1 /\ DOMAIN s = 1 .. Len(s)
        /\ \A i \in DOMAIN s : Append(s, k)[i] = s[i]
        /\ Append(s, k)[Len(s) + 1] = k
        /\ ToSet(Append(s, k)) = ToSet(s) \cup {k}
    BY <1>1, <1>3, AppendFacts
  <2>2. PICK a : a = Append(s, k)
    OBVIOUS
  <2> QED BY <1>0, <2>1, <2>2
<1>7. Last(s) = s[N] /\ N \in 1 .. N
  BY <1>0, <1>4, <1>5 DEF Last
<1>8. loadedKexts' = a /\ nextTag' \in 0 .. InvalidTag
  BY <1>2, <1>3, <1>6, NextTagType
<1>9. PICK next : /\ next \in [Kexts -> Kexts \cup {None}] /\ kmods' = [kmod |-> k, next |-> next]
                  /\ next = [kmods.next EXCEPT ![k] = IF s[N] = Kernel THEN None ELSE s[N]]
  <2>1. PICK next : next = [kmods.next EXCEPT ![k] = IF s[N] = Kernel THEN None ELSE s[N]]
    OBVIOUS
  <2>2. next \in [Kexts -> Kexts \cup {None}]
    BY <1>3, <1>4, <1>7, <2>1
  <2> QED BY <1>2, <1>7, <2>1, <2>2
<1>10. /\ next[k] = IF s[N] = Kernel THEN None ELSE s[N]
       /\ \A j \in Kexts : j # k => next[j] = kmods.next[j]
  BY <1>1, <1>3, <1>9
<1>11. PICK c \in [Kexts -> Int] :
         /\ c = Counted(ToSet(deps[k]), 1)
         /\ \A j \in Kexts : c[j] = references[j] + IF j \in ToSet(deps[k]) THEN 1 ELSE 0
  BY <1>3, CountedUp
<1>12. references' \in [Kexts -> Int] /\ references'[k] = 0
       /\ \A j \in loaded : references'[j] = references[j] + IF j \in ToSet(deps[k]) THEN 1 ELSE 0
  <2>1. references' = [c EXCEPT ![k] = 0]
    BY <1>2, <1>11
  <2>2. references'[k] = 0 /\ \A j \in loaded : references'[j] = c[j]
    BY <1>1, <1>3, <1>11, <2>1
  <2>3. \A j \in loaded : c[j] = references[j] + IF j \in ToSet(deps[k]) THEN 1 ELSE 0
    BY <1>3, <1>11
  <2>4. references' \in [Kexts -> Int]
    BY <1>11, <2>1
  <2> QED BY <2>2, <2>3, <2>4
<1>13. Typed'
  <2>1. kmods' \in [kmod : Kexts \cup {None}, next : [Kexts -> Kexts \cup {None}]]
    BY <1>1, <1>9
  <2> QED BY <1>2, <1>3, <1>6, <1>8, <1>12, <2>1 DEF Typed, KeepsControl
<1>14. Graph'
  BY <1>2 DEF Graph
<1>15. Listing(loadedKexts, loaded, deps)'
  <2>1. ToSet(a) = loaded \cup {k}
    BY <1>5, <1>6
  <2>2. \A m, n \in DOMAIN a : a[m] = a[n] => m = n
    <3>1. \A n \in 1 .. N + 1 : n \in 1 .. N \/ n = N + 1
      BY <1>4
    <3>2. \A n \in 1 .. N : a[n] = s[n] /\ a[n] \in loaded
      BY <1>4, <1>5, <1>6
    <3> QED BY <1>1, <1>5, <1>6, <3>1, <3>2
  <2>3. 1 \in DOMAIN a /\ a[1] = Kernel
    BY <1>4, <1>5, <1>6
  <2>4. ASSUME NEW n \in DOMAIN a, NEW d \in ToSet(deps[a[n]]) PROVE \E m \in 1 .. n - 1 : a[m] = d
    <3>1. CASE n \in 1 .. N
      <4>1. PICK m \in 1 .. n - 1 : s[m] = d
        BY <1>5, <1>6, <2>4, <3>1
      <4>2. a[m] = s[m]
        BY <1>4, <1>6, <3>1, <4>1
      <4> QED BY <4>1, <4>2
    <3>2. CASE n = N + 1
      <4>1. d \in ToSet(s)
        BY <1>1, <1>5, <1>6, <2>4, <3>2
      <4>2. PICK m \in 1 .. N : s[m] = d
        BY <1>4, <4>1
      <4>3. m \in 1 .. n - 1 /\ a[m] = d
        BY <1>4, <1>6, <3>2, <4>2
      <4> QED BY <4>3
    <3> QED BY <1>4, <1>6, <3>1, <3>2
  <2>5. PICK in, libraries : in = loaded' /\ libraries = deps'
    OBVIOUS
  <2>6. in = loaded \cup {k} /\ libraries = deps
    BY <1>2, <2>5
  <2>7. Listing(a, in, libraries)
    BY <2>1, <2>2, <2>3, <2>4, <2>6 DEF Listing
  <2> QED BY <1>8, <2>5, <2>7
<1>16. Chaining(loadedKexts, kmods.kmod, kmods.next)'
  <2>1. /\ \A n \in 3 .. N : kmods.next[s[n]] = s[n - 1]
    BY <1>0 DEF Memory, Chaining
  <2>2. Len(a) # 1 /\ a[Len(a)] = k
    BY <1>4, <1>5, <1>6
  <2>3. ASSUME NEW n \in 3 .. Len(a) PROVE next[a[n]] = a[n - 1]
    <3>1. CASE n = N + 1
      <4>1. s[N] # Kernel
        <5>1. N # 1
          BY <1>4, <2>3, <3>1
        <5> QED BY <1>5, <1>7, <5>1
      <4>2. a[n] = k /\ a[n - 1] = s[N]
        BY <1>4, <1>6, <1>7, <3>1
      <4> QED BY <1>10, <4>1, <4>2
    <3>2. CASE n # N + 1
      <4>1. n \in 1 .. N /\ n - 1 \in 1 .. N /\ n \in 3 .. N
        BY <1>4, <1>6, <2>3, <3>2
      <4>2. a[n] = s[n] /\ a[n - 1] = s[n - 1] /\ s[n] \in Kexts /\ s[n] # k
        BY <1>1, <1>4, <1>5, <1>6, <4>1
      <4> QED BY <1>10, <2>1, <4>1, <4>2
    <3> QED BY <3>1, <3>2
  <2>4. Chaining(a, k, next)
    BY <2>2, <2>3 DEF Chaining
  <2>5. kmods'.kmod = k /\ kmods'.next = next
    BY <1>9
  <2> QED BY <1>8, <2>4, <2>5
<1>17. ReferencesCoverLinks'
  <2>1. ASSUME NEW j \in loaded \cup {k}
        PROVE  references'[j] >= Cardinality(Clients(loaded \cup {k}, deps, j))
    <3>1. /\ Cardinality(Clients(loaded, deps, j)) \in Nat
          /\ Cardinality(Clients(loaded \cup {k}, deps, j))
               = Cardinality(Clients(loaded, deps, j)) + IF j \in ToSet(deps[k]) THEN 1 ELSE 0
      <4>1. PICK in, libraries : in \in SUBSET Kexts /\ in = loaded /\ libraries = deps
        BY <1>3
      <4>2. k \in Kexts \ in
        BY <1>1, <4>1
      <4>3. /\ Cardinality(Clients(in, libraries, j)) \in Nat
            /\ Cardinality(Clients(in \cup {k}, libraries, j))
                 = Cardinality(Clients(in, libraries, j)) + IF j \in ToSet(libraries[k]) THEN 1 ELSE 0
        BY ONLY <4>1, <4>2, ClientsCount
      <4> QED BY <4>1, <4>3
    <3>2. CASE j \in loaded
      <4>1. references[j] >= Cardinality(Clients(loaded, deps, j)) /\ references[j] \in Int
        BY <1>3, <3>2, ReferencesRestated DEF Memory
      <4>2. CASE j \in ToSet(deps[k])
        BY <1>12, <3>1, <3>2, <4>1, <4>2
      <4>3. CASE j \notin ToSet(deps[k])
        BY <1>12, <3>1, <3>2, <4>1, <4>3
      <4> QED BY <4>2, <4>3
    <3>3. CASE j = k
      <4>1. Clients(loaded \cup {k}, deps, j) = {}
        BY <1>1, <3>3, LinksAreIn DEF Clients
      <4>2. Cardinality(Clients(loaded \cup {k}, deps, j)) = 0
        BY <4>1, FS_EmptySet
      <4> QED BY <1>12, <3>3, <4>2
    <3> QED BY <2>1, <3>2, <3>3
  <2> QED BY <1>2, <2>1 DEF ReferencesCoverLinks, Clients
<1>18. Memory'
  <2>1. loaded' \subseteq Usable(resolved')
    BY <1>1, <1>2 DEF Memory
  <2>2. started' \subseteq loaded' /\ inUse' \subseteq started'
    BY <1>2 DEF Memory
  <2> QED BY <1>15, <1>16, <1>17, <2>1, <2>2 DEF Memory
<1> QED BY <1>1, <1>2, <1>13, <1>14, <1>18

(* and references that go down. *)
LEMMA CountedDown ==
  ASSUME references \in [Kexts -> Int], NEW S
  PROVE  \E c \in [Kexts -> Int] :
           c = Counted(S, -1) /\ \A j \in Kexts : c[j] = references[j] - IF j \in S THEN 1 ELSE 0
<1>1. PICK c : c = [j \in Kexts |-> references[j] - IF j \in S THEN 1 ELSE 0]
  OBVIOUS
<1>2. \A j \in Kexts : (references[j] - IF j \in S THEN 1 ELSE 0) \in Int
  OBVIOUS
<1>3. c \in [Kexts -> Int]
  BY <1>1, <1>2
<1>4. \A j \in Kexts : (IF j \in S THEN references[j] + (-1) ELSE references[j]) = c[j]
  BY <1>1
<1>5. c = Counted(S, -1)
  BY <1>1, <1>4 DEF Counted
<1> QED BY <1>1, <1>3, <1>5

(* The list of kmod_infos when a kext leaves the array.                    *)
AgreesBut(k, f, g) == \A j \in Kexts \ {k} : f[j] = g[j]

(* The list is patched around the kext that left. *)
LEMMA PatchedChain ==
  ASSUME NEW s \in Seq(Kexts), NEW at \in DOMAIN s, NEW r, r = RemoveAt(s, at), at # 1,
         NEW in, NEW libraries, Listing(s, in, libraries),
         kmods \in [kmod : Kexts \cup {None}, next : [Kexts -> Kexts \cup {None}]],
         Chaining(s, kmods.kmod, kmods.next),
         NEW next, AgreesBut(s[at], next, Patched(r, at))
  PROVE  /\ Patched(r, at) \in [Kexts -> Kexts \cup {None}]
         /\ Chaining(r, IF Last(r) = Kernel THEN None ELSE Last(r), next)
         /\ Last(r) \in Kexts
<1>0. (\A m, n \in DOMAIN s : s[m] = s[n] => m = n) /\ s[1] = Kernel
  BY DEF Listing
<1>1. PICK N : N = Len(s) /\ N \in Nat /\ DOMAIN s = 1 .. N /\ at \in 1 .. N /\ 1 \in 1 .. N - 1
  BY ToSetFacts
<1>2. /\ r \in Seq(Kexts) /\ Len(r) = N - 1 /\ DOMAIN r = 1 .. N - 1
      /\ \A j \in 1 .. N - 1 : /\ j < at => r[j] = s[j]
                               /\ j >= at => r[j] = s[j + 1]
      /\ \A j \in 1 .. N - 1 : r[j] \in Kexts
  <2>1. /\ r \in Seq(Kexts) /\ Len(r) = N - 1
        /\ \A j \in 1 .. N - 1 : /\ j < at => r[j] = s[j]
                                 /\ j >= at => r[j] = s[j + 1]
    BY <1>1, RemoveAtFacts
  <2> QED BY <2>1, ToSetFacts, ElementOfSeq
<1>3. \A m, n \in 1 .. N - 1 : r[m] = r[n] => m = n
  <2>1. \A m, n \in DOMAIN RemoveAt(s, at) : RemoveAt(s, at)[m] = RemoveAt(s, at)[n] => m = n
    BY <1>0, RemoveOnce
  <2> QED BY <1>2, <2>1
<1>4. ASSUME NEW j \in 1 .. N - 1 PROVE r[j] # s[at]
  <2>1. j \in 1 .. N /\ j + 1 \in 1 .. N
    BY <1>1, <1>4
  <2>2. CASE j < at
    <3>1. r[j] = s[j] /\ j # at
      BY <1>1, <1>2, <2>1, <2>2
    <3> QED BY <1>0, <1>1, <2>1, <3>1
  <2>3. CASE j >= at
    <3>1. r[j] = s[j + 1] /\ j + 1 # at
      BY <1>1, <1>2, <2>1, <2>3
    <3> QED BY <1>0, <1>1, <2>1, <3>1
  <2> QED BY <1>1, <1>4, <2>2, <2>3
<1>5. r[1] = Kernel
  BY <1>0, <1>1, <1>2
<1>6. Last(r) = r[N - 1]
  BY <1>2 DEF Last
<1>7. Last(r) = Kernel <=> N - 1 = 1
  BY <1>1, <1>3, <1>5, <1>6
<1>8. PICK f : f = kmods.next /\ f \in [Kexts -> Kexts \cup {None}]
  OBVIOUS
<1>9. \A n \in 3 .. N : f[s[n]] = s[n - 1]
  BY <1>1, <1>8 DEF Chaining
<1>10. PICK p : p = Patched(r, at)
  OBVIOUS
<1>11. p \in [Kexts -> Kexts \cup {None}]
       /\ \A n \in 1 .. N - 1 : p[r[n]] = IF n = at THEN r[at - 1] ELSE f[r[n]]
  <2>1. CASE at \in 1 .. N - 1
    <3>1. p = [f EXCEPT ![r[at]] = r[at - 1]]
      BY <1>1, <1>2, <1>8, <1>10, <2>1 DEF Patched
    <3>2. r[at - 1] \in Kexts /\ r[at] \in Kexts
      BY <1>1, <1>2, <2>1
    <3>3. p \in [Kexts -> Kexts \cup {None}]
      BY <1>8, <3>1, <3>2
    <3>4. p[r[at]] = r[at - 1]
      BY <1>8, <3>1, <3>2
    <3>5. \A n \in 1 .. N - 1 : n # at => p[r[n]] = f[r[n]]
      BY <1>2, <1>3, <1>8, <2>1, <3>1
    <3> QED BY <3>3, <3>4, <3>5
  <2>2. CASE at \notin 1 .. N - 1
    BY <1>2, <1>8, <1>10, <2>2 DEF Patched
  <2> QED BY <2>1, <2>2
<1>12. \A n \in 1 .. N - 1 : next[r[n]] = p[r[n]]
  BY <1>2, <1>4, <1>10 DEF AgreesBut
<1>13. ASSUME NEW n \in 3 .. N - 1 PROVE next[r[n]] = r[n - 1]
  <2>1. n \in 1 .. N - 1 /\ n - 1 \in 1 .. N - 1
    BY <1>1, <1>13
  <2>2. CASE n = at
    BY <1>11, <1>12, <2>1, <2>2
  <2>3. CASE n < at
    <3>1. n \in 3 .. N /\ r[n] = s[n] /\ r[n - 1] = s[n - 1]
      BY <1>1, <1>2, <2>1, <2>3, <1>13
    <3> QED BY <1>9, <1>11, <1>12, <2>1, <2>3, <3>1
  <2>4. CASE n > at
    <3>1. n + 1 \in 3 .. N /\ r[n] = s[n + 1] /\ r[n - 1] = s[n - 1 + 1] /\ n - 1 + 1 = n /\ n + 1 - 1 = n
      BY <1>1, <1>2, <2>1, <2>4, <1>13
    <3>2. f[r[n]] = r[n - 1]
      BY <1>9, <3>1
    <3> QED BY <1>1, <1>11, <1>12, <2>1, <2>4, <3>2
  <2> QED BY <1>1, <1>13, <2>2, <2>3, <2>4
<1>14. Last(r) \in Kexts
  BY <1>1, <1>2, <1>6
<1>15. Chaining(r, IF Last(r) = Kernel THEN None ELSE Last(r), next)
  BY <1>2, <1>6, <1>7, <1>13 DEF Chaining
<1> QED BY <1>10, <1>11, <1>14, <1>15

(* The kext that is about to leave.                                        *)
LEMMA ReleaseFacts ==
  ASSUME Typed, Control, Removes, Unload
  PROVE  /\ Top.kext \in loaded /\ Top.kext \notin Components \cup {Kernel} /\ Top.kext \notin started
         /\ \A j \in Kexts : Top.kext \notin ToSet(deps[j])
<1>1. At("unload", "release")
  BY DEF Unload
<1>2. Top.op = "unload" /\ Top.at = "release" /\ Len(stack) \in DOMAIN stack /\ Top = stack[Len(stack)]
  BY <1>1, AtFacts DEF Typed
<1>3. RemoveFits(Top)
  BY <1>2 DEF Removes
<1> QED BY <1>2, <1>3 DEF RemoveFits

(* A kext that nothing is linked against leaves the array, the list and    *)
(* the counts in order.                                                    *)
LEMMA UnloadKeeps ==
  ASSUME Typed, Graph, Memory, Control, Removes, Unload, KeepsControl
  PROVE  /\ Typed' /\ Graph' /\ Memory'
         /\ loaded' = loaded \ {Top.kext} /\ started' = started
         /\ \A j \in loaded' : deps'[j] = deps[j]
<1>1. PICK k \in loaded : /\ k = Top.kext /\ k \notin Components \cup {Kernel} /\ k \notin started
                          /\ \A j \in Kexts : k \notin ToSet(deps[j])
  BY ReleaseFacts
<1>2. PICK s : s = loadedKexts /\ s \in Seq(Kexts) /\ DOMAIN s = 1 .. Len(s)
               /\ \A x : x \in ToSet(s) <=> \E i \in DOMAIN s : s[i] = x
  <2>1. PICK s : s = loadedKexts
    OBVIOUS
  <2> QED BY <2>1, ToSetFacts DEF Typed
<1>3. /\ ToSet(s) = loaded /\ \A m, n \in DOMAIN s : s[m] = s[n] => m = n
      /\ 1 \in DOMAIN s /\ s[1] = Kernel
      /\ \A n \in DOMAIN s : \A d \in ToSet(deps[s[n]]) : \E m \in 1 .. n - 1 : s[m] = d
  <2>1. Listing(s, loaded, deps)
    BY <1>2 DEF Memory
  <2> QED BY <2>1 DEF Listing
<1>4. PICK at \in DOMAIN s : at = (CHOOSE i \in DOMAIN loadedKexts : loadedKexts[i] = k) /\ s[at] = k
  <2>1. \E i \in DOMAIN s : s[i] = k
    BY <1>1, <1>2, <1>3
  <2> QED BY <1>2, <2>1
<1>5. at # 1
  BY <1>1, <1>3, <1>4
<1>6. PICK r : r = RemoveAt(s, at)
  OBVIOUS
<1>7. PICK next : next = [Patched(r, at) EXCEPT ![k] = None]
  OBVIOUS
<1>8. PICK others : others = [deps EXCEPT ![k] = <<>>]
  OBVIOUS
<1>9. /\ kmods' = [kmod |-> IF Last(r) = Kernel THEN None ELSE Last(r), next |-> next]
      /\ references' = [Counted(ToSet(deps[k]), -1) EXCEPT ![k] = 0]
      /\ loaded' = loaded \ {k}
      /\ Holders(byId, r, others, resolved \ {k}, held)
      /\ UNCHANGED <<started, inUse, nextTag, enabled, userLoads>>
  BY <1>1, <1>2, <1>4, <1>6, <1>7, <1>8 DEF Unload, switches
<1>10. /\ byId \in [Ids -> Kexts \cup {None}] /\ deps \in [Kexts -> Seq(Kexts)] /\ held \in SUBSET Kexts
       /\ loaded \in SUBSET Kexts /\ references \in [Kexts -> Int] /\ resolved \in SUBSET Kexts
       /\ delayed \subseteq Kexts /\ k \in Kexts
       /\ kmods \in [kmod : Kexts \cup {None}, next : [Kexts -> Kexts \cup {None}]]
  BY <1>1 DEF Typed
<1>11. others \in [Kexts -> Seq(Kexts)] /\ others[k] = <<>> /\ \A j \in Kexts : j # k => others[j] = deps[j]
  BY <1>8, <1>10, EmptyToSet
<1>12. PICK N : /\ N = Len(s) /\ N \in Nat
                /\ r \in Seq(Kexts) /\ Len(r) = N - 1 /\ DOMAIN r = 1 .. N - 1
                /\ \A j \in 1 .. N - 1 : /\ j < at => r[j] = s[j]
                                         /\ j >= at => r[j] = s[j + 1]
                /\ at \in 1 .. N /\ 1 \in 1 .. N - 1
  <2>1. /\ r \in Seq(Kexts) /\ Len(r) = Len(s) - 1 /\ Len(s) \in Nat
        /\ \A j \in 1 .. Len(s) - 1 : /\ j < at => r[j] = s[j]
                                      /\ j >= at => r[j] = s[j + 1]
    <3>1. at \in DOMAIN s /\ s \in Seq(Kexts)
      BY <1>2, <1>4
    <3>2. /\ RemoveAt(s, at) \in Seq(Kexts) /\ Len(RemoveAt(s, at)) = Len(s) - 1
          /\ \A j \in 1 .. Len(s) - 1 : /\ j < at => RemoveAt(s, at)[j] = s[j]
                                        /\ j >= at => RemoveAt(s, at)[j] = s[j + 1]
      BY ONLY <3>1, RemoveAtFacts
    <3>3. Len(s) \in Nat
      BY <3>1, ToSetFacts
    <3> QED BY <1>6, <3>2, <3>3
  <2>2. DOMAIN r = 1 .. Len(r)
    BY <2>1, ToSetFacts
  <2>3. PICK N : N = Len(s)
    OBVIOUS
  <2>4. at \in 1 .. N /\ 1 \in 1 .. N - 1
    BY <1>2, <1>3, <1>4, <1>5, <2>1, <2>3
  <2> QED BY <2>1, <2>2, <2>3, <2>4
<1>13. ToSet(r) = loaded \ {k} /\ \A m, n \in DOMAIN r : r[m] = r[n] => m = n
  <2>1. /\ ToSet(RemoveAt(s, at)) = ToSet(s) \ {s[at]}
        /\ \A m, n \in DOMAIN RemoveAt(s, at) : RemoveAt(s, at)[m] = RemoveAt(s, at)[n] => m = n
    BY <1>2, <1>3, RemoveOnce
  <2> QED BY <1>3, <1>4, <1>6, <2>1
<1>14. PICK alive : Leaves(byId, r, others, resolved \ {k}, held, alive)
  BY <1>9, <1>10, <1>11, <1>12, HoldersLeave
<1>15. HoldersTyped'
  <2>1. PICK full \in SUBSET Kexts : full = resolved \ {k}
    BY <1>10
  <2> QED BY <1>10, <1>11, <1>12, <1>14, <2>1, LeavesTyped
<1>16. /\ byId' = byId /\ loadedKexts' = r
       /\ deps' = [j \in Kexts |-> IF j \in alive THEN others[j] ELSE <<>>]
       /\ resolved' = (resolved \ {k}) \cap alive
       /\ alive \subseteq Kexts /\ ToSet(r) \subseteq alive
       /\ \A j \in alive : ToSet(others[j]) \subseteq alive
  BY <1>14 DEF Leaves
<1>17. /\ \A j \in Kexts : deps'[j] \in {deps[j], <<>>} /\ ToSet(deps'[j]) \subseteq ToSet(deps[j])
       /\ \A j \in alive : j # k => deps'[j] = deps[j] /\ ToSet(deps[j]) \subseteq alive
  BY <1>11, <1>16, EmptyToSet
<1>18. \A j \in loaded \ {k} : deps'[j] = deps[j]
  BY <1>13, <1>16, <1>17
<1>19. kmods' \in [kmod : Kexts \cup {None}, next : [Kexts -> Kexts \cup {None}]]
       /\ Chaining(r, kmods'.kmod, kmods'.next)
  <2>1. Chaining(s, kmods.kmod, kmods.next)
    BY <1>2 DEF Memory
  <2>2. /\ next \in [Kexts -> Kexts \cup {None}] /\ Last(r) \in Kexts
        /\ Chaining(r, IF Last(r) = Kernel THEN None ELSE Last(r), next)
    <3>1. at \in DOMAIN s /\ s \in Seq(Kexts) /\ r = RemoveAt(s, at) /\ s[at] = k
      BY <1>2, <1>4, <1>6
    <3>2. Listing(s, loaded, deps)
      BY <1>2 DEF Memory
    <3>3. ASSUME NEW n, AgreesBut(s[at], n, Patched(r, at))
          PROVE  /\ Patched(r, at) \in [Kexts -> Kexts \cup {None}] /\ Last(r) \in Kexts
                 /\ Chaining(r, IF Last(r) = Kernel THEN None ELSE Last(r), n)
      BY ONLY <1>5, <1>10, <2>1, <3>1, <3>2, <3>3, PatchedChain
    <3>4. Patched(r, at) \in [Kexts -> Kexts \cup {None}] /\ Last(r) \in Kexts
      BY <3>3 DEF AgreesBut
    <3>5. next \in [Kexts -> Kexts \cup {None}] /\ AgreesBut(s[at], next, Patched(r, at))
      BY <1>7, <1>10, <3>1, <3>4 DEF AgreesBut
    <3> QED BY <3>3, <3>4, <3>5
  <2> QED BY <1>9, <2>2
<1>20. references' \in [Kexts -> Int]
       /\ \A j \in loaded \ {k} : references'[j] = references[j] - IF j \in ToSet(deps[k]) THEN 1 ELSE 0
  <2>1. PICK c \in [Kexts -> Int] :
          /\ c = Counted(ToSet(deps[k]), -1)
          /\ \A j \in Kexts : c[j] = references[j] - IF j \in ToSet(deps[k]) THEN 1 ELSE 0
    BY <1>10, CountedDown
  <2>2. references' = [c EXCEPT ![k] = 0]
    BY <1>9, <2>1
  <2>3. references' \in [Kexts -> Int] /\ \A j \in Kexts : j # k => references'[j] = c[j]
    BY <1>10, <2>1, <2>2
  <2>4. \A j \in loaded \ {k} : j \in Kexts /\ j # k
    BY <1>10
  <2> QED BY <2>1, <2>3, <2>4
<1>21. Typed'
  BY <1>9, <1>10, <1>15, <1>19, <1>20 DEF Typed, HoldersTyped, KeepsControl
<1>22. Ordered(deps)'
  BY <1>17 DEF Graph, Ordered
<1>23. Resolving(deps, resolved)'
  <2>1. /\ \A j \in Usable(resolved) : ToSet(deps[j]) \subseteq Usable(resolved)
        /\ \A j \in Components \cup {Kernel} : deps[j] = <<>>
        /\ \A j \in Kexts : ToSet(deps[j]) \cap Codeless = {}
    BY DEF Graph, Resolving
  <2>2. \A j \in Components \cup {Kernel} : deps'[j] = <<>>
    BY <1>17, <2>1, LoadAssumption DEF LoadAssumption
  <2>3. \A j \in Kexts : ToSet(deps'[j]) \cap Codeless = {}
    BY <1>17, <2>1
  <2>4. ASSUME NEW j \in Usable(resolved'), j \notin Components \cup {Kernel}
        PROVE  ToSet(deps'[j]) \subseteq Usable(resolved')
    <3>1. j \in resolved /\ j # k /\ j \in alive /\ j \in Kexts
      BY <1>16, <2>4 DEF Usable
    <3>2. ToSet(deps[j]) \subseteq Usable(resolved) /\ ToSet(deps[j]) \subseteq alive /\ k \notin ToSet(deps[j])
      BY <1>1, <1>17, <2>1, <3>1 DEF Usable
    <3>3. ToSet(deps'[j]) \subseteq ToSet(deps[j])
      BY <1>17, <3>1
    <3> QED BY <1>16, <3>2, <3>3 DEF Usable
  <2>5. \A j \in Usable(resolved') : ToSet(deps'[j]) \subseteq Usable(resolved')
    BY <2>2, <2>4, EmptyToSet
  <2> QED BY <2>2, <2>3, <2>5 DEF Resolving
<1>24. Graph'
  BY <1>22, <1>23 DEF Graph
<1>25. \A n \in 1 .. N - 1 : \A d \in ToSet(deps[r[n]]) : \E m \in 1 .. n - 1 : r[m] = d
  <2> SUFFICES ASSUME NEW n \in 1 .. N - 1, NEW d \in ToSet(deps[r[n]])
               PROVE  \E m \in 1 .. n - 1 : r[m] = d
    OBVIOUS
  <2>1. PICK p \in 1 .. N : r[n] = s[p] /\ p <= n + 1 /\ (n < at => p = n)
    <3>1. n \in 1 .. N /\ n + 1 \in 1 .. N
      BY <1>12
    <3>2. CASE n < at
      BY <1>12, <3>1, <3>2
    <3>3. CASE n >= at
      BY <1>12, <3>1, <3>3
    <3> QED BY <1>12, <3>2, <3>3
  <2>2. PICK q \in 1 .. p - 1 : s[q] = d
    <3>1. d \in ToSet(deps[s[p]]) /\ p \in DOMAIN s
      BY <1>2, <1>12, <2>1
    <3> QED BY <1>3, <3>1
  <2>3. r[n] \in Kexts /\ d # k
    <3>1. r[n] \in ToSet(r)
      BY <1>12, ToSetFacts
    <3> QED BY <1>1, <1>10, <1>13, <3>1
  <2>4. q # at
    BY <1>4, <2>2, <2>3
  <2>5. CASE q < at
    <3>1. q \in 1 .. n - 1 \/ (q = n /\ n >= at)
      BY <1>12, <2>1, <2>2, <2>5
    <3>2. q \in 1 .. N - 1 /\ r[q] = s[q] /\ q \in 1 .. n - 1
      BY <1>12, <2>2, <2>5, <3>1
    <3> QED BY <2>2, <3>2
  <2>6. CASE q > at
    <3>1. q - 1 \in 1 .. N - 1 /\ q - 1 \in 1 .. n - 1 /\ q - 1 >= at /\ q - 1 + 1 = q
      BY <1>12, <2>1, <2>2, <2>6
    <3>2. r[q - 1] = d
      BY <1>12, <2>2, <3>1
    <3> QED BY <3>1, <3>2
  <2> QED BY <1>12, <2>2, <2>4, <2>5, <2>6
<1>26. Listing(loadedKexts, loaded, deps)'
  <2>1. 1 \in DOMAIN r /\ r[1] = Kernel
    BY <1>3, <1>5, <1>12
  <2>2. Listing(r, loaded \ {k}, deps)
    BY <1>12, <1>13, <1>25, <2>1 DEF Listing
  <2>3. PICK in, libraries, more : in = loaded' /\ libraries = deps /\ more = deps'
    OBVIOUS
  <2>4. Listing(r, in, libraries)
    BY <1>9, <2>2, <2>3
  <2>5. \A n \in DOMAIN r : more[r[n]] = libraries[r[n]]
    <3>1. \A n \in DOMAIN r : r[n] \in ToSet(r)
      BY <1>12, ToSetFacts
    <3> QED BY <1>13, <1>18, <2>3, <3>1
  <2>6. Listing(r, in, more)
    BY <2>4, <2>5, SameListing
  <2> QED BY <1>16, <2>3, <2>6
<1>27. loaded' \subseteq Usable(resolved')
  <2>1. loaded \ {k} \subseteq alive
    BY <1>13, <1>16
  <2> QED BY <1>9, <1>16, <2>1 DEF Memory, Usable
<1>28. ReferencesCoverLinks'
  <2>1. ASSUME NEW j \in loaded \ {k}
        PROVE  references'[j] >= Cardinality(Clients(loaded \ {k}, deps', j))
    <3>0. loaded \ {k} \in SUBSET Kexts
      BY <1>10
    <3>1. PICK in, libraries, more : in \in SUBSET Kexts /\ in = loaded \ {k} /\ libraries = deps /\ more = deps'
      BY <3>0
    <3>2. k \in Kexts \ in
      BY <1>10, <3>1
    <3>3. /\ Cardinality(Clients(in, libraries, j)) \in Nat
          /\ Cardinality(Clients(in \cup {k}, libraries, j))
               = Cardinality(Clients(in, libraries, j)) + IF j \in ToSet(libraries[k]) THEN 1 ELSE 0
      BY ONLY <3>1, <3>2, ClientsCount
    <3>4. Clients(in, more, j) = Clients(in, libraries, j)
      BY <1>18, <3>1 DEF Clients
    <3>5. in \cup {k} = loaded
      BY <1>1, <3>1
    <3>6. references[j] >= Cardinality(Clients(in \cup {k}, libraries, j)) /\ references[j] \in Int
      BY <1>10, <3>1, <3>5, ReferencesRestated DEF Memory
    <3>7. CASE j \in ToSet(deps[k])
      BY <1>20, <2>1, <3>1, <3>3, <3>4, <3>6, <3>7
    <3>8. CASE j \notin ToSet(deps[k])
      BY <1>20, <2>1, <3>1, <3>3, <3>4, <3>6, <3>8
    <3> QED BY <3>7, <3>8
  <2> QED BY <1>9, <2>1 DEF ReferencesCoverLinks, Clients
<1>29. started' \subseteq loaded' /\ inUse' \subseteq started'
  BY <1>1, <1>9 DEF Memory
<1>30. Memory'
  BY <1>16, <1>19, <1>26, <1>27, <1>28, <1>29 DEF Memory
<1> QED BY <1>1, <1>9, <1>18, <1>21, <1>24, <1>30

(* A start function leaves the links alone. *)
LEMMA StartFuncSteady ==
  ASSUME Typed, Memory, Control, Starts, StartFunc
  PROVE  Steady
<1>1. PICK label \in {"dependencies", "dependency"} : At("start", label)
  BY DEF StartFunc, Starting
<1>2. /\ Top.op = "start" /\ Top.at \in {"dependencies", "dependency"}
      /\ Len(stack) \in DOMAIN stack /\ Top = stack[Len(stack)]
  BY <1>1, AtFacts DEF Typed
<1>3. StartFits(Len(stack))
  BY <1>2 DEF Starts
<1>4. Top.kext \in loaded
  BY <1>2, <1>3 DEF StartFits
<1>5. started' \subseteq loaded /\ started \subseteq started'
  BY <1>4 DEF StartFunc, Memory
<1> QED BY <1>5 DEF StartFunc, Steady, Memory, Typed, holders, kmodInfos, switches

(* A library that was not resolved, or is refused, changes nothing. *)
LEMMA FailingIsSteady ==
  ASSUME Typed, Memory
  PROVE  /\ LibraryResolved => Succeeded \/ Steady
         /\ ResolveEnds => Top.kext \notin Refused \/ Steady
BY DEF LibraryResolved, ResolveEnds, Steady, Memory, Typed, kmodInfos, switches

IInv ==
  Typed /\ Graph /\ Memory /\ Control /\ Loads /\ Resolves /\ Starts /\ Removes

(* Every step keeps the control. *)
LEMMA ControlKept ==
  ASSUME Typed, Control, Removes, Next
  PROVE  KeepsControl
BY LoadControl, ResolveControl, StartControl, RemoveControl, ScanControl, EntryControl
   DEF Next, Operation

(* Every step keeps what the kexts are: which of them are linked to which, *)
(* and which are in memory.                                                *)
LEMMA DataKept ==
  ASSUME IInv, Next
  PROVE  Typed' /\ Graph' /\ Memory'
<1>1. Typed /\ Graph /\ Memory /\ Control /\ Loads /\ Resolves /\ Starts /\ Removes
  BY DEF IInv
<1>2. KeepsControl
  BY <1>1, ControlKept
<1>3. CASE Steady
  BY <1>1, <1>2, <1>3, SteadyKeeps
<1>4. CASE Losing
  BY <1>1, <1>2, <1>4, LosingKeeps
<1>5. CASE StartFunc
  BY <1>1, <1>3, <1>5, StartFuncSteady
<1>6. CASE LibraryResolved
  <2>1. CASE Succeeded
    BY <1>1, <1>2, <1>6, <2>1, LibraryKeeps
  <2>2. CASE ~Succeeded
    BY <1>1, <1>3, <1>6, <2>2, FailingIsSteady
  <2> QED BY <2>1, <2>2
<1>7. CASE ResolveEnds
  BY <1>1, <1>2, <1>3, <1>7, FailingIsSteady, ResolvedKeeps
<1>8. CASE LoadExecutableFails
  BY <1>1, <1>2, <1>8, FailureKeeps
<1>9. CASE LoadExecutable
  BY <1>1, <1>2, <1>9, LoadKeeps
<1>10. CASE Unload
  BY <1>1, <1>2, <1>10, UnloadKeeps
<1>11. CASE \/ ResolveAtOnce \/ ResolveLibrary \/ LoadRefused \/ LoadNothing \/ LoadResolves \/ LoadDependency
            \/ ResolveFailed \/ LoadStarts \/ LoadEnds \/ RequestFails
            \/ StartAtOnce \/ StartBegins \/ StartDependency \/ DependencyNotStarted
            \/ RemoveRefused \/ UnloadRefused \/ UnloadBegins \/ StopFails \/ Stop
            \/ ScanSkips \/ ScanRemoves \/ ScanRemoved \/ PassEnds
            \/ \E i \in Ids : RemoveKext(i)
            \/ \E i \in Ids, opt \in Opts, delay \in BOOLEAN : LoadKextWithIdentifier(i, opt, delay)
            \/ \E flags \in SUBSET {"load", "unload"} : SetEnabled(flags)
            \/ \E k \in Kexts : FirstInstance(k) \/ LastInstance(k)
  BY <1>1, <1>3, <1>11, SteadySteps
<1>12. CASE \/ ResolveBegins \/ DependencyFailed \/ RemoveBegins \/ RemoveEnds
            \/ RequestReturns \/ ConsiderUnloads
            \/ \E k \in Kexts : RegisterBootKext(k) \/ ReleaseKext(k)
            \/ \E i \in Ids : LookupKext(i)
            \/ \E S \in SUBSET Kexts, k \in Kexts, opt \in Opts : LoadFromMkext(S, k, opt)
  BY <1>1, <1>3, <1>4, <1>12, LosingSteps
<1> QED
  <2>1. CASE Operation
    BY <2>1, <1>5, <1>6, <1>7, <1>8, <1>9, <1>10, <1>11, <1>12, ZenonT(60) DEF Operation
  <2>2. CASE Entry
    <3>1. CASE \E i \in Ids : RemoveKext(i) \/ LookupKext(i)
      BY <3>1, <1>11, <1>12
    <3>2. CASE \E i \in Ids, opt \in Opts, delay \in BOOLEAN : LoadKextWithIdentifier(i, opt, delay)
      BY <3>2, <1>11
    <3>3. CASE \E S \in SUBSET Kexts, k \in Kexts, opt \in Opts : LoadFromMkext(S, k, opt)
      BY <3>3, <1>12
    <3>4. CASE \E flags \in SUBSET {"load", "unload"} : SetEnabled(flags)
      BY <3>4, <1>11
    <3>5. CASE ConsiderUnloads \/ \E k \in Kexts : RegisterBootKext(k)
      BY <3>5, <1>12
    <3> QED BY <2>2, <3>1, <3>2, <3>3, <3>4, <3>5 DEF Entry
  <2>3. CASE Others
    BY <2>3, <1>11, <1>12 DEF Others
  <2> QED BY <2>1, <2>2, <2>3 DEF Next

-----------------------------------------------------------------------------
(* A stack loads, resolves and starts, or removes, unloads and scans.      *)
Loading == {"request", "load", "resolve", "start"}
Removing == {"request", "remove", "unload", "scan"}
OpsIn(calls, S) == \A n \in DOMAIN calls : calls[n].op \in S

LoadStep ==
  \/ LoadRefused \/ LoadNothing \/ LoadResolves \/ LoadDependency \/ DependencyFailed
  \/ ResolveFailed \/ LoadExecutableFails \/ LoadExecutable \/ LoadStarts \/ LoadEnds

ResolveStep == ResolveAtOnce \/ ResolveBegins \/ ResolveLibrary \/ LibraryResolved \/ ResolveEnds

StartStep == StartAtOnce \/ StartBegins \/ StartDependency \/ DependencyNotStarted \/ StartFunc

RemoveStep ==
  \/ RemoveRefused \/ RemoveBegins \/ RemoveEnds
  \/ UnloadRefused \/ UnloadBegins \/ StopFails \/ Stop \/ Unload
  \/ RequestFails \/ RequestReturns \/ ScanSkips \/ ScanRemoves \/ ScanRemoved \/ PassEnds

(* The steps of an operation. *)
LEMMA OperationSides ==
  Operation <=> LoadStep \/ ResolveStep \/ StartStep \/ RemoveStep
BY ZenonT(60) DEF Operation, LoadStep, ResolveStep, StartStep, RemoveStep

(* The call that each kind of step is of. *)
LEMMA StepOps ==
  ASSUME Typed, Control
  PROVE  /\ LoadStep => ~Idle /\ Top.op = "load"
         /\ ResolveStep => ~Idle /\ Top.op = "resolve"
         /\ StartStep => ~Idle /\ Top.op = "start"
         /\ RemoveStep => ~Idle /\ Top.op \in Removing
<1>1. LoadStep => ~Idle /\ Top.op = "load"
  BY DEF LoadStep, LoadRefused, LoadNothing, LoadResolves, LoadDependency, DependencyFailed,
         ResolveFailed,
         LoadExecutableFails, LoadExecutable, LoadStarts, LoadEnds, ReadyToLink, LibrariesAreIn, At
<1>2. ResolveStep => ~Idle /\ Top.op = "resolve"
  BY DEF ResolveStep, ResolveAtOnce, ResolveBegins, ResolveLibrary, LibraryResolved, ResolveEnds, At
<1>3. StartStep => ~Idle /\ Top.op = "start"
  BY DEF StartStep, StartAtOnce, StartBegins, StartDependency, DependencyNotStarted, StartFunc,
         Starting, At
<1>4. RemoveStep => ~Idle /\ Top.op \in Removing
  BY DEF RemoveStep, RemoveRefused, RemoveBegins, RemoveEnds, UnloadRefused, UnloadBegins, StopFails,
         Stop,
         Unload, RequestFails, RequestReturns, ScanSkips, ScanRemoves, ScanRemoved, PassEnds, At, Removing
<1> QED BY <1>1, <1>2, <1>3, <1>4

(* Calls that load and calls that remove are not mixed. *)
LEMMA Sides ==
  ASSUME Typed, Control, ~Idle
  PROVE  /\ Top.op \in Removing => OpsIn(stack, Removing)
         /\ Top.op \in {"load", "resolve", "start"} => OpsIn(stack, Loading)
<1>1. /\ Len(stack) \in DOMAIN stack /\ Top = stack[Len(stack)] /\ DOMAIN stack = 1 .. Len(stack)
      /\ Len(stack) \in Nat
  BY StackFacts DEF Typed
<1>2. \A n \in DOMAIN stack : n = Len(stack) \/ Above(stack[n].op, Top.op)
  BY <1>1 DEF Control
<1>3. Top.op \in Removing => OpsIn(stack, Removing)
  BY <1>1, <1>2 DEF Above, Removing, OpsIn
<1>4. Top.op \in {"load", "resolve", "start"} => OpsIn(stack, Loading)
  BY <1>1, <1>2 DEF Above, Loading, OpsIn
<1> QED BY <1>3, <1>4

(* What each kind of step does to the calls below the innermost. *)
LEMMA ShapeOps ==
  ASSUME Typed, Control, ~Idle, NEW S, OpsIn(stack, S)
  PROVE  /\ Pops => OpsIn(stack', S)
         /\ \A label : \A i : Moves(label, i) => OpsIn(stack', S)
         /\ \A label : \A i : \A op : \A k : CallsFrom(label, i, op, k) /\ op \in S => OpsIn(stack', S)
<1>1. /\ Len(stack) \in DOMAIN stack /\ Top = stack[Len(stack)] /\ DOMAIN stack = 1 .. Len(stack)
      /\ Len(stack) \in Nat
  BY StackFacts DEF Typed
<1>2. \A n \in 1 .. Len(stack) - 1 : n \in DOMAIN stack
  BY <1>1, BelowTop
<1>3. Pops => OpsIn(stack', S)
  BY <1>2 DEF Pops, OpsIn
<1>4. ASSUME NEW label, NEW i, Moves(label, i) PROVE OpsIn(stack', S)
  <2>1. PICK f : Replaces(f) /\ f.op = Top.op
    BY <1>4 DEF Moves
  <2>2. \A n \in DOMAIN stack' : n \in 1 .. Len(stack) - 1 \/ n = Len(stack)
    BY <1>1, <2>1 DEF Replaces
  <2> QED BY <1>1, <1>2, <2>1, <2>2 DEF Replaces, OpsIn
<1>5. ASSUME NEW label, NEW i, NEW op, NEW k, CallsFrom(label, i, op, k), op \in S PROVE OpsIn(stack', S)
  <2>1. PICK f, g : Pushes(f, g) /\ f.op = Top.op /\ g.op = op
    BY <1>5 DEF CallsFrom
  <2>2. \A n \in DOMAIN stack' : n \in 1 .. Len(stack) - 1 \/ n = Len(stack) \/ n = Len(stack) + 1
    BY <1>1, <2>1 DEF Pushes
  <2> QED BY <1>1, <1>2, <1>5, <2>1, <2>2 DEF Pushes, OpsIn
<1> QED BY <1>3, <1>4, <1>5

(* A load goes on as a load, *)
LEMMA LoadSide ==
  ASSUME Typed, Control, LoadStep \/ ResolveStep \/ StartStep
  PROVE  OpsIn(stack', Loading)
<1>1. ~Idle /\ OpsIn(stack, Loading)
  BY StepOps, Sides
<1>2. PICK S : S = Loading
  OBVIOUS
<1>3. {"load", "resolve", "start"} \subseteq S
  BY <1>2 DEF Loading
<1>4. /\ Pops => OpsIn(stack', S)
      /\ \A label : \A i : Moves(label, i) => OpsIn(stack', S)
      /\ \A label : \A i : \A op : \A k : CallsFrom(label, i, op, k) /\ op \in S => OpsIn(stack', S)
  BY <1>1, <1>2, ShapeOps
<1>5. CASE LoadStep
  BY <1>3, <1>4, <1>5, <1>2, LoadDoes DEF LoadStep, Returns
<1>6. CASE ResolveStep
  BY <1>3, <1>4, <1>6, <1>2, ResolveDoes DEF ResolveStep, Returns
<1>7. CASE StartStep
  BY <1>3, <1>4, <1>7, <1>2, StartDoes DEF StartStep, Returns
<1> QED BY <1>5, <1>6, <1>7

(* and a removal as a removal. *)
LEMMA RemoveSide ==
  ASSUME Typed, Control, Removes, RemoveStep
  PROVE  OpsIn(stack', Removing)
<1>1. ~Idle /\ OpsIn(stack, Removing)
  BY StepOps, Sides
<1>2. PICK S : S = Removing
  OBVIOUS
<1>3. "remove" \in S /\ "unload" \in S
  BY <1>2 DEF Removing
<1>4. /\ Pops => OpsIn(stack', S)
      /\ \A label : \A i : Moves(label, i) => OpsIn(stack', S)
      /\ \A label : \A i : \A op : \A k : CallsFrom(label, i, op, k) /\ op \in S => OpsIn(stack', S)
  BY <1>1, <1>2, ShapeOps
<1>5. ScanRemoves => Top.i \in DOMAIN loadedKexts
  <2>1. SUFFICES ASSUME ScanRemoves PROVE Top.i \in DOMAIN loadedKexts
    OBVIOUS
  <2>2. At("scan", "next") /\ Top.i > 0
    BY <2>1 DEF ScanRemoves
  <2>3. /\ Top.op = "scan" /\ Top.at = "next" /\ Len(stack) \in DOMAIN stack /\ Top = stack[Len(stack)]
    BY <2>2, AtFacts DEF Typed
  <2>4. Top.i \in 0 .. Len(loadedKexts)
    BY <2>3 DEF Removes, ScanFits
  <2>5. DOMAIN loadedKexts = 1 .. Len(loadedKexts) /\ Len(loadedKexts) \in Nat
    BY ToSetFacts DEF Typed
  <2> QED BY <2>2, <2>4, <2>5
<1>6. CASE \/ RemoveRefused \/ RemoveBegins \/ RemoveEnds \/ UnloadRefused \/ UnloadBegins \/ StopFails
           \/ Stop \/ Unload
  BY <1>3, <1>4, <1>6, <1>2, RemoveDoes DEF Returns
<1>7. CASE RequestFails \/ RequestReturns \/ ScanSkips \/ ScanRemoves \/ ScanRemoved \/ PassEnds
  BY <1>3, <1>4, <1>5, <1>7, <1>2, ScanDoes DEF Returns
<1> QED BY <1>6, <1>7 DEF RemoveStep

(* Nothing is claimed of loads while something is removed, *)
LEMMA NoLoading ==
  ASSUME OpsIn(stack', Removing)
  PROVE  Loads' /\ Resolves' /\ Starts'
BY DEF OpsIn, Removing, Loads, Resolves, Starts

(* nor of removals during a load. *)
LEMMA NoRemoving ==
  ASSUME OpsIn(stack', Loading)
  PROVE  Removes'
BY DEF OpsIn, Loading, Removes, RemoveFits

-----------------------------------------------------------------------------
(* A kext that is asked for along a chain of dependencies is not on it.    *)
LEMMA ChainIsNew ==
  ASSUME NEW libraries \in [Kexts -> Seq(Kexts)], Ordered(libraries),
         NEW N \in Nat, NEW m \in 1 .. N, NEW c,
         \A j \in m .. N : c[j] \in Kexts,
         \A j \in m .. N : j < N => c[j + 1] \in ToSet(libraries[c[j]]),
         NEW d \in ToSet(libraries[c[N]])
  PROVE  d # c[m]
<1> SUFFICES ASSUME d = c[m] PROVE FALSE
  OBVIOUS
<1>1. PICK S : S = {c[j] : j \in m .. N}
  OBVIOUS
<1>2. S \in SUBSET Kexts /\ S # {}
  BY <1>1
<1>3. PICK k \in S : \A j \in S : k \notin ToSet(libraries[j])
  BY <1>2 DEF Ordered
<1>4. PICK q \in m .. N : k = c[q]
  BY <1>1, <1>3
<1>5. CASE q = m
  <2>1. c[N] \in S
    BY <1>1
  <2> QED BY <1>3, <1>4, <1>5, <2>1
<1>6. CASE q # m
  <2>1. q - 1 \in m .. N /\ q - 1 < N /\ q - 1 + 1 = q
    BY <1>4, <1>6
  <2>2. c[q] \in ToSet(libraries[c[q - 1]]) /\ c[q - 1] \in S
    BY <1>1, <2>1
  <2> QED BY <1>3, <1>4, <2>2
<1> QED BY <1>5, <1>6

(* The calls that load kexts, from one of them to the innermost. *)
LEMMA LoadChain ==
  ASSUME Typed, Graph, Control, Loads, Going, ~Idle, Top.op = "load",
         NEW m \in DOMAIN stack, stack[m].op = "load", NEW d \in ToSet(deps[Top.kext])
  PROVE  d # stack[m].kext
<1>1. PICK N : /\ N = Len(stack) /\ N \in Nat /\ DOMAIN stack = 1 .. N /\ Top = stack[N] /\ N \in 1 .. N
  BY StackFacts DEF Typed
<1>2. \A j \in m .. N : j \in 1 .. N /\ stack[j].op = "load"
  <2> SUFFICES ASSUME NEW j \in m .. N, j # m, j # N PROVE j \in 1 .. N /\ stack[j].op = "load"
    BY <1>1
  <2>1. j \in 1 .. N /\ m < j /\ j < N
    BY <1>1
  <2>2. Above("load", stack[j].op) /\ Above(stack[j].op, "load")
    BY <1>1, <2>1 DEF Control
  <2> QED BY <2>1, <2>2 DEF Above
<1>3. \A j \in m .. N : stack[j].kext \in Kexts
  BY <1>1, <1>2 DEF Control, WellPlaced
<1>4. ASSUME NEW j \in m .. N, j < N PROVE stack[j + 1].kext \in ToSet(deps[stack[j].kext])
  <2>1. j \in 1 .. N /\ j + 1 \in m .. N
    BY <1>1, <1>4
  <2>2. Calls(stack[j], stack[j + 1])
    BY <1>1, <1>4, <2>1 DEF Control
  <2>3. stack[j].at = "dependency" /\ stack[j].op = "load" /\ stack[j + 1].op = "load"
    BY <1>2, <1>4, <2>1, <2>2 DEF Calls
  <2>4. LoadFits(j)
    BY <1>1, <2>1, <2>3 DEF Loads
  <2>5. /\ stack[j].i \in DOMAIN deps[stack[j].kext]
        /\ stack[j + 1].kext = deps[stack[j].kext][stack[j].i]
    BY <1>1, <1>4, <2>3, <2>4 DEF LoadFits
  <2>6. deps[stack[j].kext] \in Seq(Kexts)
    BY <1>3 DEF Typed
  <2> QED BY <2>5, <2>6, ToSetFacts
<1>5. PICK libraries, c : libraries = deps /\ c = [j \in 1 .. N |-> stack[j].kext]
  OBVIOUS
<1>6. \A j \in m .. N : c[j] \in Kexts /\ c[j] = stack[j].kext
  BY <1>2, <1>3, <1>5
<1>7. \A j \in m .. N : j < N => c[j + 1] \in ToSet(libraries[c[j]])
  <2> SUFFICES ASSUME NEW j \in m .. N, j < N PROVE c[j + 1] \in ToSet(libraries[c[j]])
    OBVIOUS
  <2>1. j + 1 \in m .. N
    BY <1>1
  <2> QED BY <1>4, <1>5, <1>6, <2>1
<1>8. libraries \in [Kexts -> Seq(Kexts)] /\ Ordered(libraries)
  BY <1>5 DEF Typed, Graph
<1>9. m \in 1 .. N /\ N \in m .. N /\ m \in m .. N
  BY <1>1
<1>10. d \in ToSet(libraries[c[N]])
  BY <1>1, <1>5, <1>6, <1>9
<1>11. d # c[m]
  <2>1. \A j \in m .. N : c[j] \in Kexts
    BY <1>6
  <2> QED BY <1>1, <1>7, <1>8, <1>9, <1>10, <2>1, ChainIsNew
<1> QED BY <1>6, <1>9, <1>11

(* What a step must leave alone for the loads below the innermost call.    *)
LoadData ==
  /\ loaded \subseteq loaded'
  /\ \A n \in 1 .. Len(stack) - 1 : stack[n].op = "load" =>
       /\ stack[n].kext \in loaded' => stack[n].kext \in loaded
       /\ stack[n].at = "dependency" /\ Going' =>
            /\ Going /\ deps'[stack[n].kext] = deps[stack[n].kext]
            /\ stack[n].kext \in Usable(resolved) => stack[n].kext \in Usable(resolved')

(* A load below the innermost call stays as it was, *)
LEMMA LoadFitsKept ==
  ASSUME Loads, LoadData, NEW n \in DOMAIN stack, stack[n].op = "load", n \in 1 .. Len(stack) - 1,
         n < Len(stack'), n # Len(stack), stack'[n] = stack[n], stack'[n + 1].kext = stack[n + 1].kext
  PROVE  LoadFits(n)'
<1>1. LoadFits(n)
  BY DEF Loads
<1>2. PICK f, k, g : f = stack[n] /\ k = f.kext /\ g = stack[n + 1].kext
  OBVIOUS
<1>3. stack'[n] = f /\ stack'[n + 1].kext = g /\ n # Len(stack')
  BY <1>2
<1>4. /\ loaded \subseteq loaded' /\ (k \in loaded' => k \in loaded)
      /\ f.at = "dependency" /\ Going' =>
           /\ Going /\ deps'[k] = deps[k]
           /\ k \in Usable(resolved) => k \in Usable(resolved')
  BY <1>2 DEF LoadData
<1>5. /\ f.at \in {"loaded", "end"} => k \in loaded \cup Codeless
      /\ f.at = "resolved" => k \notin loaded
      /\ f.at = "dependency" /\ Going =>
           /\ k \in Usable(resolved) \ loaded
           /\ f.i \in DOMAIN deps[k]
           /\ \A j \in 1 .. f.i - 1 : deps[k][j] \in loaded
           /\ g = deps[k][f.i]
  BY <1>1, <1>2 DEF LoadFits
<1>6. /\ f.at \in {"loaded", "end"} => k \in loaded' \cup Codeless
      /\ f.at = "resolved" => k \notin loaded'
  BY <1>4, <1>5
<1>7. ASSUME f.at = "dependency", Going'
      PROVE  /\ k \in Usable(resolved') \ loaded'
             /\ f.i \in DOMAIN deps'[k]
             /\ \A j \in 1 .. f.i - 1 : deps'[k][j] \in loaded'
             /\ g = deps'[k][f.i]
  BY <1>4, <1>5, <1>7
<1> QED BY <1>2, <1>3, <1>6, <1>7 DEF LoadFits

(* and takes its caller's place when the innermost call returns. *)
LEMMA LoadsPop ==
  ASSUME Typed, Control, Loads, ~Idle, Pops, LoadData,
         Len(stack) > 1 /\ stack[Len(stack) - 1].op = "load" /\ Going' =>
           /\ Top.op = "resolve" => Top.kext \in Usable(resolved')
           /\ Top.op = "load" => Top.kext \in loaded'
  PROVE  Loads'
<1>1. PICK N : /\ N = Len(stack) /\ N \in Nat /\ DOMAIN stack = 1 .. N /\ Top = stack[N] /\ N \in 1 .. N
               /\ \A n \in 1 .. N - 1 : n \in 1 .. N /\ n # N
  BY StackFacts, BelowTop DEF Typed
<1>2. DOMAIN stack' = 1 .. N - 1 /\ Len(stack') = N - 1 /\ \A n \in 1 .. N - 1 : stack'[n] = stack[n]
  BY <1>1 DEF Pops
<1>3. ASSUME NEW n \in 1 .. N - 1, stack[n].op = "load" PROVE LoadFits(n)'
  <2>1. CASE n < N - 1
    <3>1. n + 1 \in 1 .. N - 1
      BY <1>1, <2>1
    <3> QED BY <1>1, <1>2, <1>3, <2>1, <3>1, LoadFitsKept
  <2>2. CASE n = N - 1
    <3>1. LoadFits(n)
      BY <1>1, <1>3 DEF Loads
    <3>2. PICK f, k, g : f = stack[n] /\ k = f.kext /\ g = stack[N]
      OBVIOUS
    <3>3. stack'[n] = f /\ n = Len(stack') /\ n # Len(stack) /\ n + 1 = N /\ N > 1
      BY <1>1, <1>2, <2>2, <3>2
    <3>4. Calls(f, g)
      BY <1>1, <3>2, <3>3 DEF Control
    <3>5. /\ loaded \subseteq loaded' /\ (k \in loaded' => k \in loaded)
          /\ f.at = "dependency" /\ Going' =>
               /\ Going /\ deps'[k] = deps[k]
               /\ k \in Usable(resolved) => k \in Usable(resolved')
      BY <1>1, <1>3, <3>2 DEF LoadData
    <3>6. Going' => /\ g.op = "resolve" => g.kext \in Usable(resolved')
                    /\ g.op = "load" => g.kext \in loaded'
      BY <1>1, <1>3, <2>2, <3>2, <3>3
    <3>7. CASE f.at \in {"loaded", "end"}
      <4>1. k \in loaded \cup Codeless
        BY <3>1, <3>2, <3>7 DEF LoadFits
      <4> QED BY <3>2, <3>3, <3>5, <3>7, <4>1 DEF LoadFits
    <3>8. CASE f.at = "resolved"
      <4>1. k \notin loaded /\ g.op = "resolve" /\ g.kext = k
        BY <1>3, <3>1, <3>2, <3>4, <3>8 DEF LoadFits, Calls
      <4>2. Succeeded' => Going'
        BY DEF Going
      <4> QED BY <3>2, <3>3, <3>5, <3>6, <3>8, <4>1, <4>2 DEF LoadFits
    <3>9. CASE f.at = "dependency"
      <4>1. SUFFICES ASSUME Going'
                     PROVE  /\ k \in Usable(resolved') \ loaded'
                            /\ f.i \in DOMAIN deps'[k]
                            /\ \A j \in 1 .. f.i - 1 : deps'[k][j] \in loaded'
                            /\ deps'[k][f.i] \in loaded'
        BY <3>2, <3>3, <3>9 DEF LoadFits
      <4>2. /\ k \in Usable(resolved) \ loaded
            /\ f.i \in DOMAIN deps[k]
            /\ \A j \in 1 .. f.i - 1 : deps[k][j] \in loaded
            /\ g.kext = deps[k][f.i]
        BY <3>1, <3>2, <3>3, <3>5, <3>9, <4>1 DEF LoadFits
      <4>3. g.op = "load"
        BY <1>3, <3>2, <3>4, <3>9 DEF Calls
      <4> QED BY <3>5, <3>6, <3>9, <4>1, <4>2, <4>3
    <3>10. f.at \in {"begin", "loaded", "end", "resolved", "dependency"}
      BY <1>1, <1>3, <3>2 DEF Control, WellPlaced
    <3>11. CASE f.at = "begin"
      BY <3>2, <3>3, <3>11 DEF LoadFits
    <3> QED BY <3>7, <3>8, <3>9, <3>10, <3>11
  <2> QED BY <1>1, <2>1, <2>2
<1>4. \A m, n \in 1 .. N - 1 :
        m < n /\ stack'[m].op = "load" /\ stack'[n].op = "load" => stack'[m].kext # stack'[n].kext
  <2> SUFFICES ASSUME NEW m \in 1 .. N - 1, NEW n \in 1 .. N - 1,
                      m < n, stack'[m].op = "load", stack'[n].op = "load"
               PROVE  stack'[m].kext # stack'[n].kext
    OBVIOUS
  <2>1. m \in DOMAIN stack /\ n \in DOMAIN stack /\ stack'[m] = stack[m] /\ stack'[n] = stack[n]
    BY <1>1, <1>2
  <2> QED BY <2>1 DEF Loads
<1>5. \A n \in DOMAIN stack' : stack'[n].op = "load" => LoadFits(n)'
  BY <1>1, <1>2, <1>3
<1> QED BY <1>2, <1>4, <1>5 DEF Loads

(* The innermost call goes on, *)
LEMMA LoadsMove ==
  ASSUME Typed, Control, Loads, ~Idle, NEW label, NEW i, Moves(label, i), LoadData,
         Top.op = "load" => label \in {"loaded", "end"} /\ Top.kext \in loaded' \cup Codeless
  PROVE  Loads'
<1>1. PICK N : /\ N = Len(stack) /\ N \in Nat /\ DOMAIN stack = 1 .. N /\ Top = stack[N] /\ N \in 1 .. N
               /\ \A n \in 1 .. N - 1 : n \in 1 .. N /\ n # N
  BY StackFacts, BelowTop DEF Typed
<1>2. PICK f : f.op = Top.op /\ f.kext = Top.kext /\ f.at = label /\ Replaces(f)
  BY DEF Moves
<1>3. /\ DOMAIN stack' = 1 .. N /\ Len(stack') = N /\ stack'[N] = f
      /\ \A n \in 1 .. N - 1 : stack'[n] = stack[n]
  BY <1>1, <1>2 DEF Replaces
<1>4. \A n \in 1 .. N : stack'[n].op = stack[n].op /\ stack'[n].kext = stack[n].kext
  <2>1. \A n \in 1 .. N : n = N \/ n \in 1 .. N - 1
    BY <1>1
  <2> QED BY <1>1, <1>2, <1>3, <2>1
<1>5. ASSUME NEW n \in 1 .. N, stack'[n].op = "load" PROVE LoadFits(n)'
  <2>1. CASE n = N
    BY <1>1, <1>2, <1>3, <1>5, <2>1 DEF LoadFits
  <2>2. CASE n # N
    <3>1. n \in 1 .. N - 1 /\ n + 1 \in 1 .. N /\ n < Len(stack')
      BY <1>1, <1>3, <2>2
    <3> QED BY <1>1, <1>3, <1>4, <1>5, <2>2, <3>1, LoadFitsKept
  <2> QED BY <2>1, <2>2
<1>6. \A m, n \in 1 .. N :
        m < n /\ stack'[m].op = "load" /\ stack'[n].op = "load" => stack'[m].kext # stack'[n].kext
  <2> SUFFICES ASSUME NEW m \in 1 .. N, NEW n \in 1 .. N,
                      m < n, stack'[m].op = "load", stack'[n].op = "load"
               PROVE  stack'[m].kext # stack'[n].kext
    OBVIOUS
  <2>1. stack[m].op = "load" /\ stack[n].op = "load" /\ stack'[m].kext = stack[m].kext
        /\ stack'[n].kext = stack[n].kext
    BY <1>4
  <2> QED BY <1>1, <2>1 DEF Loads
<1> QED BY <1>3, <1>5, <1>6 DEF Loads

(* or makes a call. *)
LEMMA LoadsCall ==
  ASSUME Typed, Control, Loads, ~Idle, NEW label, NEW i, NEW op, NEW k, CallsFrom(label, i, op, k), LoadData,
         Top.op = "load" =>
           \/ label = "end" /\ Top.kext \in loaded' \cup Codeless
           \/ label = "resolved" /\ Top.kext \notin loaded'
           \/ /\ label = "dependency" /\ Top.kext \in Usable(resolved') \ loaded'
              /\ i \in DOMAIN deps'[Top.kext] /\ k = deps'[Top.kext][i]
              /\ \A j \in 1 .. i - 1 : deps'[Top.kext][j] \in loaded',
         op = "load" => \A n \in DOMAIN stack : stack[n].op = "load" => k # stack[n].kext
  PROVE  Loads'
<1>1. PICK N : /\ N = Len(stack) /\ N \in Nat /\ DOMAIN stack = 1 .. N /\ Top = stack[N] /\ N \in 1 .. N
               /\ \A n \in 1 .. N - 1 : n \in 1 .. N /\ n # N
  BY StackFacts, BelowTop DEF Typed
<1>2. PICK f, g : /\ f.op = Top.op /\ f.kext = Top.kext /\ f.at = label /\ f.i = i
                  /\ g.op = op /\ g.kext = k /\ g.at = "begin" /\ Pushes(f, g)
  BY DEF CallsFrom
<1>3. /\ DOMAIN stack' = 1 .. N + 1 /\ Len(stack') = N + 1 /\ stack'[N] = f /\ stack'[N + 1] = g
      /\ \A n \in 1 .. N - 1 : stack'[n] = stack[n]
  BY <1>1, <1>2 DEF Pushes
<1>4. \A n \in 1 .. N : stack'[n].op = stack[n].op /\ stack'[n].kext = stack[n].kext
  <2>1. \A n \in 1 .. N : n = N \/ n \in 1 .. N - 1
    BY <1>1
  <2> QED BY <1>1, <1>2, <1>3, <2>1
<1>5. ASSUME NEW n \in 1 .. N + 1, stack'[n].op = "load" PROVE LoadFits(n)'
  <2>1. CASE n = N
    <3>1. N # Len(stack') /\ Top.op = "load" /\ stack'[n] = f /\ stack'[n + 1] = g
      BY <1>1, <1>2, <1>3, <1>5, <2>1
    <3>2. CASE label = "end" /\ Top.kext \in loaded' \cup Codeless
      BY <1>2, <2>1, <3>1, <3>2 DEF LoadFits
    <3>3. CASE label = "resolved" /\ Top.kext \notin loaded'
      BY <1>2, <2>1, <3>1, <3>3 DEF LoadFits
    <3>4. CASE /\ label = "dependency" /\ Top.kext \in Usable(resolved') \ loaded'
               /\ i \in DOMAIN deps'[Top.kext] /\ k = deps'[Top.kext][i]
               /\ \A j \in 1 .. i - 1 : deps'[Top.kext][j] \in loaded'
      BY <1>2, <2>1, <3>1, <3>4 DEF LoadFits
    <3> QED BY <3>1, <3>2, <3>3, <3>4
  <2>2. CASE n < N
    <3>1. n \in 1 .. N - 1 /\ n + 1 \in 1 .. N /\ n < Len(stack') /\ n \in DOMAIN stack /\ n # N
      BY <1>1, <1>3, <2>2
    <3> QED BY <1>1, <1>3, <1>4, <1>5, <2>2, <3>1, LoadFitsKept
  <2>3. CASE n = N + 1
    BY <1>2, <1>3, <2>3 DEF LoadFits
  <2> QED BY <1>1, <2>1, <2>2, <2>3
<1>6. \A m, n \in 1 .. N + 1 :
        m < n /\ stack'[m].op = "load" /\ stack'[n].op = "load" => stack'[m].kext # stack'[n].kext
  <2> SUFFICES ASSUME NEW m \in 1 .. N + 1, NEW n \in 1 .. N + 1,
                      m < n, stack'[m].op = "load", stack'[n].op = "load"
               PROVE  stack'[m].kext # stack'[n].kext
    OBVIOUS
  <2>0. N \in Nat
    BY <1>1
  <2>1. m \in 1 .. N /\ (n \in 1 .. N \/ n = N + 1)
    BY <2>0
  <2>2. stack[m].op = "load" /\ stack'[m].kext = stack[m].kext
    BY <1>4, <2>1
  <2>3. CASE n \in 1 .. N
    <3>1. m \in DOMAIN stack /\ n \in DOMAIN stack
      BY <1>1, <2>1, <2>3
    <3>2. stack[n].op = "load" /\ stack'[n].kext = stack[n].kext
      BY <1>4, <2>3
    <3> QED BY <2>2, <3>1, <3>2 DEF Loads
  <2>4. CASE n = N + 1
    <3>1. op = "load" /\ stack'[n].kext = k
      BY <1>2, <1>3, <2>4
    <3> QED BY <1>1, <2>1, <2>2, <3>1
  <2> QED BY <2>1, <2>3, <2>4
<1> QED BY <1>3, <1>5, <1>6 DEF Loads

(* A load goes on after a success, or after a start, whose result it does  *)
(* not look at.                                                            *)
LEMMA PopGoing ==
  ASSUME Typed, Control, ~Idle, NEW r, Returns(r), Len(stack) > 1, Top.op \in {"load", "resolve"}, Going'
  PROVE  r = "success" /\ Succeeded'
<1>1. PICK N : /\ N = Len(stack) /\ N \in Nat /\ DOMAIN stack = 1 .. N /\ Top = stack[N] /\ N \in 1 .. N
  BY StackFacts DEF Typed
<1>0. N - 1 \in 1 .. N - 1 /\ N - 1 \in 1 .. N /\ N - 1 < N /\ N # 1
  BY <1>1
<1>2. stack'[N - 1] = stack[N - 1] /\ Len(stack') = N - 1
  BY <1>0, <1>1 DEF Returns, Pops
<1>3. Top' = stack[N - 1]
  BY <1>2 DEF Top, Last
<1>4. Above(stack[N - 1].op, Top.op)
  BY <1>0, <1>1 DEF Control
<1>5. stack[N - 1].op # "start"
  BY <1>4 DEF Above
<1>6. Succeeded'
  BY <1>3, <1>5 DEF Going
<1>7. result' = r
  BY <1>0, <1>1 DEF Returns
<1> QED BY <1>6, <1>7 DEF Succeeded

(* A step that changes nothing of the kexts. *)
LEMMA SameLoadData ==
  ASSUME UNCHANGED <<loaded, deps, resolved>>, Len(stack) > 1 /\ Going' => Going, Len(stack) \in Nat
  PROVE  LoadData
<1>1. \A n \in 1 .. Len(stack) - 1 : Len(stack) > 1
  OBVIOUS
<1> QED BY <1>1 DEF LoadData

(* What load returns is looked at. *)
LEMMA LoadingSucceeds ==
  ASSUME Typed, Control, ~Idle, Top.op = "load", Top.at \in {"begin", "loaded"}
  PROVE  Succeeded /\ Going
<1>1. Succeeded \/ ErrorFits(Top)
  BY DEF Control
<1> QED BY <1>1 DEF ErrorFits, Going

(* A failure of load is passed on. *)
LEMMA FailuresLoads ==
  ASSUME Typed, Graph, Memory, Control, Loads,
         LoadRefused \/ DependencyFailed \/ ResolveFailed \/ LoadExecutableFails
  PROVE  Loads'
<1>1. ~Idle /\ Top.op = "load" /\ Returns("error")
  BY StepOps, LoadDoes DEF LoadStep
<1>2. ~(Len(stack) > 1 /\ Going')
  BY <1>1, PopGoing
<1>3. loaded' = loaded
  BY DEF LoadRefused, DependencyFailed, ResolveFailed, LoadExecutableFails
<1>4. Len(stack) \in Nat /\ \A n \in 1 .. Len(stack) - 1 : Len(stack) > 1
  BY StackFacts DEF Typed
<1>5. LoadData
  BY <1>2, <1>3, <1>4 DEF LoadData
<1>6. Pops
  BY <1>1 DEF Returns
<1> QED BY <1>1, <1>2, <1>5, <1>6, LoadsPop

(* A load that returns has its kext in memory, unless it failed or the     *)
(* kext has no code.                                                       *)
LEMMA LoadEndsLoads ==
  ASSUME Typed, Graph, Memory, Control, Loads, LoadEnds
  PROVE  Loads'
<1>1. At("load", "end") /\ (Returns(result) \/ Returns("error")) /\ UNCHANGED <<loaded, deps, resolved>>
  BY LoadDoes DEF LoadEnds, holders
<1>2. PICK N : /\ N = Len(stack) /\ N \in Nat /\ DOMAIN stack = 1 .. N /\ Top = stack[N] /\ N \in 1 .. N /\ ~Idle
               /\ Top.op = "load" /\ Top.at = "end"
  BY <1>1, AtFacts, StackFacts DEF Typed
<1>3. Len(stack) > 1 /\ Going' => Succeeded /\ Going
  <2>1. CASE Returns(result)
    BY <1>2, <2>1, PopGoing DEF Succeeded, Going
  <2>2. CASE Returns("error")
    BY <1>2, <2>2, PopGoing
  <2> QED BY <1>1, <2>1, <2>2
<1>4. LoadData
  BY <1>1, <1>2, <1>3, SameLoadData
<1>5. ASSUME N > 1, stack[N - 1].op = "load", Going' PROVE Top.kext \in loaded'
  <2>1. N - 1 \in 1 .. N /\ N - 1 < N /\ N - 1 + 1 = N
    BY <1>2, <1>5
  <2>2. PICK f, k : f = stack[N - 1] /\ k = f.kext
    OBVIOUS
  <2>3. Calls(f, Top) /\ WellPlaced(f)
    BY <1>2, <2>1, <2>2 DEF Control
  <2>4. f.at = "dependency" /\ k \in Kexts
    BY <1>2, <1>5, <2>2, <2>3 DEF Calls, WellPlaced
  <2>5. LoadFits(N - 1)
    BY <1>2, <1>5, <2>1 DEF Loads
  <2>6. f.i \in DOMAIN deps[k] /\ Top.kext = deps[k][f.i]
    BY <1>2, <1>3, <1>5, <2>1, <2>2, <2>4, <2>5 DEF LoadFits
  <2>7. Top.kext \in ToSet(deps[k])
    BY <2>4, <2>6, ToSetFacts DEF Typed
  <2>8. Top.kext \notin Codeless
    BY <2>4, <2>7 DEF Graph, Resolving
  <2>9. LoadFits(N)
    BY <1>2 DEF Loads
  <2> QED BY <1>1, <1>2, <2>8, <2>9 DEF LoadFits
<1>6. Pops
  BY <1>1 DEF Returns
<1> QED BY <1>2, <1>4, <1>5, <1>6, LoadsPop

(* The steps of load that make no call, *)
LEMMA LoadMovesLoads ==
  ASSUME Typed, Graph, Memory, Control, Loads, LoadNothing \/ LoadExecutable
  PROVE  Loads'
<1>1. ~Idle /\ Top.op = "load" /\ Moves("loaded", Top.i)
  BY StepOps, LoadDoes DEF LoadStep
<1>2. PICK N : /\ N = Len(stack) /\ N \in Nat /\ DOMAIN stack = 1 .. N /\ Top = stack[N] /\ N \in 1 .. N
  BY <1>1, StackFacts DEF Typed
<1>5. \A n \in 1 .. N - 1 : n \in 1 .. N /\ n < N
  BY <1>2
<1>3. CASE LoadNothing
  <2>1. At("load", "begin") /\ UNCHANGED <<loaded, deps, resolved>> /\ Top.kext \in loaded \cup Codeless
    BY <1>3 DEF LoadNothing, holders
  <2>2. Going
    BY <1>1, <2>1, LoadingSucceeds DEF At
  <2>3. LoadData
    BY <1>2, <2>1, <2>2, SameLoadData
  <2> QED BY <1>1, <2>1, <2>3, LoadsMove
<1>4. CASE LoadExecutable
  <2>1. loaded' = loaded \cup {Top.kext} /\ UNCHANGED <<deps, resolved>> /\ Succeeded
    BY <1>4 DEF LoadExecutable, ReadyToLink, LibrariesAreIn
  <2>2. Going
    BY <2>1 DEF Going
  <2>3. \A n \in 1 .. N - 1 : stack[n].op = "load" => stack[n].kext # Top.kext
    BY <1>1, <1>2, <1>5 DEF Loads
  <2>4. LoadData
    BY <1>2, <2>1, <2>2, <2>3 DEF LoadData
  <2> QED BY <1>1, <2>1, <2>4, LoadsMove
<1> QED BY <1>3, <1>4

(* those that do but for the dependencies, *)
LEMMA LoadCallsLoads ==
  ASSUME Typed, Graph, Memory, Control, Loads, LoadResolves \/ LoadStarts
  PROVE  Loads'
<1>1. ~Idle /\ Top.op = "load" /\ Len(stack) \in DOMAIN stack /\ Top = stack[Len(stack)] /\ Len(stack) \in Nat
  BY StepOps, StackFacts DEF LoadStep, Typed
<1>2. Top.at \in {"begin", "loaded"} /\ UNCHANGED <<loaded, deps, resolved>>
  BY DEF LoadResolves, LoadStarts, At, holders
<1>3. LoadData
  BY <1>1, <1>2, LoadingSucceeds, SameLoadData
<1>4. CASE LoadResolves
  <2>1. CallsFrom("resolved", Top.i, "resolve", Top.kext) /\ Top.kext \notin loaded'
    BY <1>4, LoadDoes DEF LoadResolves
  <2> QED BY <1>1, <1>3, <2>1, LoadsCall
<1>5. CASE LoadStarts
  <2>1. Top.kext \in loaded \cup Codeless
    <3>1. Top.at = "loaded" /\ LoadFits(Len(stack))
      BY <1>1, <1>5 DEF LoadStarts, At, Loads
    <3> QED BY <1>1, <3>1 DEF LoadFits
  <2>2. CASE Moves("end", Top.i)
    BY <1>1, <1>2, <1>3, <2>1, <2>2, LoadsMove
  <2>3. CASE CallsFrom("end", Top.i, "start", Top.kext)
    BY <1>1, <1>2, <1>3, <2>1, <2>3, LoadsCall
  <2> QED BY <1>5, <2>2, <2>3, LoadDoes
<1> QED BY <1>4, <1>5

(* and the load of the next dependency. *)
LEMMA LoadDependencyLoads ==
  ASSUME Typed, Graph, Memory, Control, Loads, LoadDependency
  PROVE  Loads'
<1>1. ~Idle /\ Top.op = "load" /\ Len(stack) \in DOMAIN stack /\ Top = stack[Len(stack)] /\ Len(stack) \in Nat
      /\ Top.kext \in Kexts /\ WellPlaced(Top)
  BY StepOps, StackFacts DEF LoadStep, Typed, Control, WellPlaced
<1>2. /\ Succeeded /\ Going /\ Top.at \in {"resolved", "dependency"} /\ UNCHANGED <<loaded, deps, resolved>>
  BY DEF LoadDependency, LibrariesAreIn, At, holders, Going
<1>3. LoadData
  BY <1>1, <1>2, SameLoadData
<1>4. PICK k, s, i : k = Top.kext /\ s = deps[k] /\ i = Top.i
  OBVIOUS
<1>5. LoadFits(Len(stack))
  BY <1>1 DEF Loads
<1>6. k \in Usable(resolved) \ loaded /\ \A j \in 1 .. i : s[j] \in loaded
  <2>1. CASE Top.at = "resolved"
    <3>1. k \in Usable(resolved) \ loaded
      BY <1>1, <1>2, <1>4, <1>5, <2>1 DEF LoadFits
    <3>2. i = 0
      BY <1>1, <1>4, <2>1 DEF WellPlaced
    <3> QED BY <3>1, <3>2
  <2>2. CASE Top.at = "dependency"
    <3>1. /\ k \in Usable(resolved) \ loaded /\ i \in DOMAIN s
          /\ \A j \in 1 .. i - 1 : s[j] \in loaded
          /\ s[i] \in loaded
      BY <1>1, <1>2, <1>4, <1>5, <2>2 DEF LoadFits
    <3>2. DOMAIN s = 1 .. Len(s) /\ Len(s) \in Nat
      BY <1>1, <1>4, ToSetFacts DEF Typed
    <3>3. \A j \in 1 .. i : j \in 1 .. i - 1 \/ j = i
      BY <3>1, <3>2
    <3> QED BY <3>1, <3>3
  <2> QED BY <1>2, <2>1, <2>2
<1>7. PICK h : h = i + 1
  OBVIOUS
<1>8. /\ CallsFrom("dependency", h, "load", s[h])
      /\ h \in DOMAIN s /\ s[h] \in Kexts /\ s \in Seq(Kexts) /\ i \in Nat
  <2>1. s \in Seq(Kexts) /\ i \in Nat
    BY <1>1, <1>4, StackFacts DEF Typed, FrameType
  <2> QED BY <1>4, <1>7, <2>1, LoadDoes
<1>9. PICK d : d = s[h]
  OBVIOUS
<1>10. d \in ToSet(deps[Top.kext])
  BY <1>4, <1>8, <1>9, ToSetFacts
<1>11. \A n \in DOMAIN stack : stack[n].op = "load" => d # stack[n].kext
  BY <1>1, <1>2, <1>10, LoadChain
<1>12. \A j \in 1 .. h - 1 : s[j] \in loaded
  <2>1. h - 1 = i
    BY <1>7, <1>8
  <2> QED BY <1>6, <2>1
<1>13. deps'[Top.kext] = s /\ loaded' = loaded /\ resolved' = resolved
  BY <1>2, <1>4
<1>14. /\ Top.kext \in Usable(resolved') \ loaded'
       /\ h \in DOMAIN deps'[Top.kext] /\ d = deps'[Top.kext][h]
       /\ \A j \in 1 .. h - 1 : deps'[Top.kext][j] \in loaded'
  BY <1>4, <1>6, <1>8, <1>9, <1>12, <1>13
<1>15. CallsFrom("dependency", h, "load", d)
  BY <1>8, <1>9
<1>16. Typed /\ Control /\ Loads /\ ~Idle
  BY <1>1
<1> QED BY ONLY <1>3, <1>11, <1>14, <1>15, <1>16, LoadsCall

(* load keeps Loads. *)
LEMMA LoadStepLoads ==
  ASSUME Typed, Graph, Memory, Control, Loads, LoadStep
  PROVE  Loads'
BY FailuresLoads, LoadEndsLoads, LoadMovesLoads, LoadCallsLoads, LoadDependencyLoads DEF LoadStep

(* Only for a kext that nothing depends on yet are libraries resolved.     *)
LEMMA NoDeepResolve ==
  ASSUME Typed, Graph, Control, Loads, Resolves, At("resolve", "begin"), ~IsResolved(Top.kext)
  PROVE  \A m \in 1 .. Len(stack) - 1 : stack[m].op = "load" => stack[m].at # "dependency"
<1>1. PICK N : /\ N = Len(stack) /\ N \in Nat /\ DOMAIN stack = 1 .. N /\ Top = stack[N] /\ N \in 1 .. N
               /\ Top.op = "resolve" /\ Top.at = "begin" /\ Top.kext \in Kexts
  <2>1. ~Idle /\ Top.op = "resolve" /\ Top.at = "begin" /\ Top.kext \in Kexts
    BY AtFacts DEF Typed
  <2>2. Len(stack) \in Nat /\ DOMAIN stack = 1 .. Len(stack) /\ Top = stack[Len(stack)]
        /\ Len(stack) \in 1 .. Len(stack)
    BY <2>1, StackFacts DEF Typed
  <2> QED BY <2>1, <2>2
<1>2. Going
  <2>1. Succeeded \/ ErrorFits(Top)
    BY AtFacts DEF Typed
  <2> QED BY <1>1, <2>1 DEF ErrorFits, Going
<1>3. SUFFICES ASSUME NEW m \in 1 .. N - 1, stack[m].op = "load", stack[m].at = "dependency" PROVE FALSE
  BY <1>1
<1>4. m \in 1 .. N /\ N - 1 \in 1 .. N /\ N - 1 < N /\ N - 1 + 1 = N /\ m <= N - 1
  BY <1>1, <1>3
<1>5. PICK g : g = stack[N - 1]
  OBVIOUS
<1>6. Calls(g, Top)
  BY <1>1, <1>4, <1>5 DEF Control
<1>7. CASE g.op = "resolve"
  <2>1. g.at = "added"
    BY <1>1, <1>6, <1>7 DEF Calls
  <2>2. ResolveFits(N - 1)
    BY <1>1, <1>4, <1>5, <1>7 DEF Resolves
  <2>3. m \in 1 .. N - 1 - 1
    BY <1>1, <1>3, <1>4, <1>5, <1>7
  <2> QED BY <1>3, <1>5, <2>1, <2>2, <2>3 DEF ResolveFits
<1>8. CASE g.op = "load" /\ g.at = "resolved" /\ g.kext = Top.kext
  <2>1. m # N - 1
    BY <1>3, <1>5, <1>8
  <2>2. N - 2 \in 1 .. N /\ N - 2 < N /\ N - 2 + 1 = N - 1 /\ m <= N - 2
    BY <1>1, <1>4, <2>1
  <2>3. PICK f, k : f = stack[N - 2] /\ k = f.kext
    OBVIOUS
  <2>4. Calls(f, g) /\ WellPlaced(f)
    BY <1>1, <1>5, <2>2, <2>3 DEF Control
  <2>5. f.op # "request"
    <3>1. CASE m = N - 2
      BY <1>3, <2>3, <3>1
    <3>2. CASE m # N - 2
      <4>1. Above("load", f.op)
        <5>1. m < N - 2 /\ m \in DOMAIN stack /\ N - 2 \in DOMAIN stack
          BY <1>1, <1>4, <2>2, <3>2
        <5> QED BY <1>3, <2>3, <5>1 DEF Control
      <4> QED BY <4>1 DEF Above
    <3> QED BY <3>1, <3>2
  <2>6. f.op = "load" /\ f.at = "dependency" /\ k \in Kexts
    BY <1>8, <2>3, <2>4, <2>5 DEF Calls, WellPlaced
  <2>7. LoadFits(N - 2)
    BY <1>1, <2>2, <2>3, <2>6 DEF Loads
  <2>8. k \in Usable(resolved) /\ f.i \in DOMAIN deps[k] /\ g.kext = deps[k][f.i]
    BY <1>1, <1>2, <1>5, <2>2, <2>3, <2>6, <2>7 DEF LoadFits
  <2>9. g.kext \in ToSet(deps[k])
    BY <2>6, <2>8, ToSetFacts DEF Typed
  <2>10. g.kext \in Usable(resolved)
    BY <2>8, <2>9 DEF Graph, Resolving
  <2> QED BY <1>8, <2>10 DEF IsResolved, Usable
<1> QED BY <1>1, <1>6, <1>7, <1>8 DEF Calls

(* Kexts are resolved before any dependency is loaded. *)
LEMMA ShallowLoadData ==
  ASSUME loaded' = loaded, \A m \in 1 .. Len(stack) - 1 : stack[m].op = "load" => stack[m].at # "dependency"
  PROVE  LoadData
BY DEF LoadData

(* What was resolved, where a call of resolveDependencies succeeds. *)
LEMMA ResolveReturns ==
  ASSUME Typed, Graph, Memory, Control, Resolves, ResolveStep, Pops, Len(stack) > 1
  PROVE  result' = "error" \/ (Succeeded' /\ Top.kext \in Usable(resolved'))
<1>1. PICK N : N = Len(stack) /\ N \in Nat /\ Len(stack') = N - 1 /\ N # 1
  <2>1. Len(stack) \in Nat /\ Len(stack') = Len(stack) - 1
    BY StackFacts DEF Typed, Pops
  <2> QED BY <2>1
<1>2. \A r : Returns(r) => result' = r
  BY <1>1 DEF Returns
<1>3. \A label : \A i : ~Moves(label, i)
  BY <1>1 DEF Moves, Replaces
<1>4. \A label : \A i : \A op : \A k : ~CallsFrom(label, i, op, k)
  BY <1>1 DEF CallsFrom, Pushes
<1>5. CASE ResolveAtOnce
  <2>1. CASE IsResolved(Top.kext) /\ Returns("success")
    <3>1. resolved' = resolved
      BY <1>5 DEF ResolveAtOnce, holders
    <3> QED BY <1>2, <2>1, <3>1 DEF IsResolved, Usable, Succeeded
  <2>2. CASE Returns("error")
    BY <1>2, <2>2
  <2> QED BY <1>5, <2>1, <2>2, ResolveDoes
<1>6. CASE ResolveBegins
  BY <1>2, <1>3, <1>6, ResolveDoes
<1>7. CASE ResolveLibrary
  BY <1>2, <1>4, <1>7, ResolveDoes
<1>8. CASE LibraryResolved
  BY <1>2, <1>3, <1>8, ResolveDoes
<1>9. CASE ResolveEnds
  <2>1. CASE Top.kext \in Refused
    BY <1>2, <1>9, <2>1, ResolveDoes
  <2>2. CASE Top.kext \notin Refused
    <3>1. Top.kext \in resolved'
      BY <1>9, <2>2 DEF ResolveEnds
    <3> QED BY <1>2, <1>9, <2>2, <3>1, ResolveDoes DEF Usable, Succeeded
  <2> QED BY <2>1, <2>2
<1> QED BY <1>5, <1>6, <1>7, <1>8, <1>9 DEF ResolveStep

(* What is resolved is not on the way of a load. *)
LEMMA ResolveLoadData ==
  ASSUME Typed, Graph, Memory, Control, Loads, Resolves, ResolveStep
  PROVE  LoadData
<1>1. PICK N : N = Len(stack) /\ N \in Nat
  BY StackFacts DEF Typed
<1>2. loaded' = loaded /\ ~Idle /\ Top.op = "resolve"
  BY StepOps DEF ResolveStep, ResolveAtOnce, ResolveBegins, ResolveLibrary, LibraryResolved, ResolveEnds
<1>3. ASSUME NEW label \in {"library", "added"}, At("resolve", label) PROVE LoadData
  BY <1>2, <1>3, AddedFacts, ShallowLoadData
<1>4. CASE ResolveAtOnce
  <2>1. At("resolve", "begin") /\ UNCHANGED <<loaded, deps, resolved>>
    BY <1>4 DEF ResolveAtOnce, holders
  <2>2. Succeeded \/ ErrorFits(Top)
    BY <2>1, AtFacts DEF Typed
  <2>3. Going
    BY <1>2, <2>1, <2>2 DEF ErrorFits, Going, At
  <2> QED BY <1>1, <2>1, <2>3, SameLoadData
<1>5. CASE ResolveBegins
  BY <1>2, <1>5, NoDeepResolve, ShallowLoadData DEF ResolveBegins
<1>6. CASE ResolveLibrary \/ ResolveEnds
  BY <1>3, <1>6 DEF ResolveLibrary, ResolveEnds
<1>7. CASE LibraryResolved
  BY <1>3, <1>7 DEF LibraryResolved
<1> QED BY <1>4, <1>5, <1>6, <1>7 DEF ResolveStep

(* resolveDependencies keeps Loads, *)
LEMMA ResolveStepLoads ==
  ASSUME Typed, Graph, Memory, Control, Loads, Resolves, ResolveStep
  PROVE  Loads'
<1>1. ~Idle /\ Top.op = "resolve" /\ LoadData
  BY StepOps, ResolveLoadData
<1>2. CASE Pops
  <2>1. ASSUME Len(stack) > 1, Going' PROVE Top.kext \in Usable(resolved')
    <3>1. Len(stack) # 1
      <4>1. PICK N : N = Len(stack) /\ N \in Nat
        BY StackFacts DEF Typed
      <4>2. N > 1
        BY <2>1, <4>1
      <4> QED BY <4>1, <4>2
    <3>2. PICK r : r = result'
      OBVIOUS
    <3>3. Returns(r)
      BY <1>2, <3>1, <3>2 DEF Returns
    <3>4. Succeeded'
      BY <1>1, <2>1, <3>3, PopGoing
    <3> QED BY <1>2, <2>1, <3>4, ResolveReturns DEF Succeeded
  <2> QED BY <1>1, <1>2, <2>1, LoadsPop
<1>3. ASSUME NEW label, NEW i, Moves(label, i) PROVE Loads'
  BY <1>1, <1>3, LoadsMove
<1>4. ASSUME NEW label, NEW i, NEW k, CallsFrom(label, i, "resolve", k) PROVE Loads'
  BY <1>1, <1>4, LoadsCall
<1> QED BY <1>2, <1>3, <1>4, ResolveDoes DEF ResolveStep, Returns

(* and start does. *)
LEMMA StartStepLoads ==
  ASSUME Typed, Graph, Memory, Control, Loads, StartStep
  PROVE  Loads'
<1>1. ~Idle /\ Top.op = "start" /\ Going /\ Len(stack) \in Nat
  BY StepOps, StackFacts DEF Going, Typed
<1>2. UNCHANGED <<loaded, deps, resolved>>
  BY DEF StartStep, StartAtOnce, StartBegins, StartDependency, DependencyNotStarted, StartFunc, holders
<1>3. LoadData
  BY <1>1, <1>2, SameLoadData
<1>4. Pops => Loads'
  BY <1>1, <1>3, LoadsPop
<1>5. ASSUME NEW label, NEW i, Moves(label, i) PROVE Loads'
  BY <1>1, <1>3, <1>5, LoadsMove
<1>6. ASSUME NEW label, NEW i, NEW k, CallsFrom(label, i, "start", k) PROVE Loads'
  BY <1>1, <1>3, <1>6, LoadsCall
<1> QED BY <1>4, <1>5, <1>6, StartDoes DEF StartStep, Returns

-----------------------------------------------------------------------------
(* What a step must leave alone for the kexts whose libraries are being    *)
(* resolved below the innermost call.                                      *)
ResolveData ==
  /\ byId' = byId
  /\ \A n \in 1 .. Len(stack) - 1 : stack[n].op = "resolve" /\ stack[n].at = "added" =>
       stack[n].kext \notin Usable(resolved') /\ ToSet(deps'[stack[n].kext]) \subseteq Usable(resolved')

(* A resolving below the innermost call stays as it was, *)
LEMMA ResolveFitsKept ==
  ASSUME Control, Resolves, ResolveData, NEW n \in DOMAIN stack, stack[n].op = "resolve",
         n \in 1 .. Len(stack) - 1, n < Len(stack'), n # Len(stack), n + 1 \in DOMAIN stack, n < Len(stack),
         \A m \in 1 .. n : stack'[m] = stack[m], stack'[n] = stack[n],
         stack'[n + 1].kext = stack[n + 1].kext,
         \A m \in 1 .. n - 1 : m \in 1 .. n
  PROVE  ResolveFits(n)'
<1>1. ResolveFits(n)
  BY DEF Resolves
<1>2. stack[n].at = "added"
  BY DEF Control, Calls
<1>3. PICK f, k, g : f = stack[n] /\ k = f.kext /\ g = stack[n + 1].kext
  OBVIOUS
<1>4. stack'[n] = f /\ stack'[n + 1].kext = g /\ n # Len(stack') /\ f.at = "added"
  BY <1>2, <1>3
<1>5. k \notin Usable(resolved') /\ ToSet(deps'[k]) \subseteq Usable(resolved') /\ byId' = byId
  BY <1>2, <1>3 DEF ResolveData
<1>6. \A m \in 1 .. n - 1 : stack'[m].op = "load" => stack'[m].at # "dependency"
  BY <1>1, <1>2 DEF ResolveFits
<1>7. /\ f.i \in 0 .. Len(LibrariesOf[k]) /\ f.i < Len(LibrariesOf[k])
      /\ byId[LibrariesOf[k][f.i + 1]] \in Kexts /\ g = byId[LibrariesOf[k][f.i + 1]]
  BY <1>1, <1>3, <1>4 DEF ResolveFits
<1> QED BY <1>3, <1>4, <1>5, <1>6, <1>7 DEF ResolveFits

(* and goes on when the innermost call returns. *)
LEMMA ResolvesPop ==
  ASSUME Typed, Control, Resolves, ~Idle, Pops, ResolveData, Top.op = "resolve",
         Len(stack) > 1 => result' = "error" \/ (Succeeded' /\ Top.kext \in Usable(resolved'))
  PROVE  Resolves'
<1>1. PICK N : /\ N = Len(stack) /\ N \in Nat /\ DOMAIN stack = 1 .. N /\ Top = stack[N] /\ N \in 1 .. N
               /\ \A n \in 1 .. N - 1 : n \in 1 .. N /\ n # N
  BY StackFacts, BelowTop DEF Typed
<1>2. DOMAIN stack' = 1 .. N - 1 /\ Len(stack') = N - 1 /\ \A n \in 1 .. N - 1 : stack'[n] = stack[n]
  BY <1>1 DEF Pops
<1>3. ASSUME NEW n \in 1 .. N - 1, stack[n].op = "resolve" PROVE ResolveFits(n)'
  <2>1. \A m \in 1 .. n - 1 : m \in 1 .. n
    BY <1>1, <1>3
  <2>2. \A m \in 1 .. n : stack'[m] = stack[m]
    <3>1. \A m \in 1 .. n : m \in 1 .. N - 1
      BY <1>1, <1>3
    <3> QED BY <1>2, <3>1
  <2>3. n + 1 \in 1 .. N /\ n < N /\ n \in 1 .. N
    BY <1>1, <1>3
  <2>4. CASE n < N - 1
    <3>1. n + 1 \in 1 .. N - 1
      BY <1>1, <2>4
    <3>2. stack'[n + 1].kext = stack[n + 1].kext /\ n < Len(stack') /\ stack'[n] = stack[n]
      BY <1>2, <1>3, <2>4, <3>1
    <3> QED BY <1>1, <1>3, <2>1, <2>2, <2>3, <3>2, ResolveFitsKept
  <2>5. CASE n = N - 1
    <3>1. PICK f, k, g : f = stack[n] /\ k = f.kext /\ g = stack[N]
      OBVIOUS
    <3>2. stack'[n] = f /\ n = Len(stack') /\ n # Len(stack) /\ n + 1 = N /\ N > 1
      BY <1>1, <1>2, <2>5, <3>1
    <3>3. Calls(f, g)
      BY <1>1, <2>3, <3>1, <3>2 DEF Control
    <3>4. f.at = "added"
      BY <1>3, <3>1, <3>3 DEF Calls
    <3>5. ResolveFits(n)
      BY <1>1, <1>3, <2>3 DEF Resolves
    <3>6. k \notin Usable(resolved') /\ ToSet(deps'[k]) \subseteq Usable(resolved') /\ byId' = byId
      BY <1>1, <1>3, <3>1, <3>4 DEF ResolveData
    <3>7. \A m \in 1 .. n - 1 : stack'[m].op = "load" => stack'[m].at # "dependency"
      BY <2>1, <2>2, <3>1, <3>4, <3>5 DEF ResolveFits
    <3>8. /\ f.i \in 0 .. Len(LibrariesOf[k]) /\ f.i < Len(LibrariesOf[k])
          /\ byId[LibrariesOf[k][f.i + 1]] \in Kexts /\ g.kext = byId[LibrariesOf[k][f.i + 1]]
      BY <3>1, <3>2, <3>4, <3>5 DEF ResolveFits
    <3>9. Succeeded' => g.kext \in Usable(resolved')
      BY <1>1, <3>1, <3>2 DEF Succeeded
    <3> QED BY <3>1, <3>2, <3>4, <3>6, <3>7, <3>8, <3>9 DEF ResolveFits
  <2> QED BY <1>1, <1>3, <2>4, <2>5
<1>4. \A m, n \in 1 .. N - 1 :
        m < n /\ stack'[m].op = "resolve" /\ stack'[n].op = "resolve" /\ stack'[n].at # "begin" =>
          stack'[m].kext # stack'[n].kext
  <2> SUFFICES ASSUME NEW m \in 1 .. N - 1, NEW n \in 1 .. N - 1,
                      m < n, stack'[m].op = "resolve", stack'[n].op = "resolve", stack'[n].at # "begin"
               PROVE  stack'[m].kext # stack'[n].kext
    OBVIOUS
  <2>1. m \in DOMAIN stack /\ n \in DOMAIN stack /\ stack'[m] = stack[m] /\ stack'[n] = stack[n]
    BY <1>1, <1>2
  <2> QED BY <2>1 DEF Resolves
<1>5. \A n \in DOMAIN stack' : stack'[n].op = "resolve" => ResolveFits(n)'
  BY <1>1, <1>2, <1>3
<1> QED BY <1>2, <1>4, <1>5 DEF Resolves

(* The innermost call goes on with the libraries of its kext. *)
ResolveTop(i) ==
  /\ Top.kext \notin Usable(resolved') /\ ToSet(deps'[Top.kext]) \subseteq Usable(resolved')
  /\ i \in 0 .. Len(LibrariesOf[Top.kext])
  /\ \A n \in 1 .. Len(stack) - 1 : /\ stack[n].op = "load" => stack[n].at # "dependency"
                                    /\ stack[n].op = "resolve" => stack[n].kext # Top.kext

(* The innermost call goes on with the next library, *)
LEMMA ResolvesMove ==
  ASSUME Typed, Control, Resolves, ~Idle, NEW i, Moves("library", i), ResolveData, Top.op = "resolve",
         ResolveTop(i)
  PROVE  Resolves'
<1>1. PICK N : /\ N = Len(stack) /\ N \in Nat /\ DOMAIN stack = 1 .. N /\ Top = stack[N] /\ N \in 1 .. N
               /\ \A n \in 1 .. N - 1 : n \in 1 .. N /\ n # N
  BY StackFacts, BelowTop DEF Typed
<1>2. PICK f : f.op = Top.op /\ f.kext = Top.kext /\ f.at = "library" /\ f.i = i /\ Replaces(f)
  BY DEF Moves
<1>3. /\ DOMAIN stack' = 1 .. N /\ Len(stack') = N /\ stack'[N] = f
      /\ \A n \in 1 .. N - 1 : stack'[n] = stack[n]
  BY <1>1, <1>2 DEF Replaces
<1>4. \A n \in 1 .. N : stack'[n].op = stack[n].op /\ stack'[n].kext = stack[n].kext
  <2>1. \A n \in 1 .. N : n = N \/ n \in 1 .. N - 1
    BY <1>1
  <2> QED BY <1>1, <1>2, <1>3, <2>1
<1>5. ASSUME NEW n \in 1 .. N, stack'[n].op = "resolve" PROVE ResolveFits(n)'
  <2>1. CASE n = N
    <3>1. stack'[n] = f
      BY <1>3, <2>1
    <3>2. \A m \in 1 .. n - 1 : stack'[m].op = "load" => stack'[m].at # "dependency"
      BY <1>1, <1>3, <2>1 DEF ResolveTop
    <3>3. /\ f.kext \notin Usable(resolved') /\ ToSet(deps'[f.kext]) \subseteq Usable(resolved')
          /\ f.i \in 0 .. Len(LibrariesOf[f.kext]) /\ f.at = "library"
      BY <1>2 DEF ResolveTop
    <3> QED BY <3>1, <3>2, <3>3 DEF ResolveFits
  <2>2. CASE n # N
    <3>1. n \in 1 .. N - 1 /\ n + 1 \in 1 .. N /\ n < N
      BY <1>1, <2>2
    <3>2. \A m \in 1 .. n - 1 : m \in 1 .. n
      BY <1>1
    <3>3. \A m \in 1 .. n : stack'[m] = stack[m]
      <4>1. \A m \in 1 .. n : m \in 1 .. N - 1
        BY <1>1, <3>1
      <4> QED BY <1>3, <4>1
    <3>4. stack'[n + 1].kext = stack[n + 1].kext /\ n < Len(stack') /\ stack'[n] = stack[n]
      BY <1>3, <1>4, <3>1
    <3> QED BY <1>1, <1>4, <1>5, <2>2, <3>1, <3>2, <3>3, <3>4, ResolveFitsKept
  <2> QED BY <2>1, <2>2
<1>6. \A m, n \in 1 .. N :
        m < n /\ stack'[m].op = "resolve" /\ stack'[n].op = "resolve" /\ stack'[n].at # "begin" =>
          stack'[m].kext # stack'[n].kext
  <2> SUFFICES ASSUME NEW m \in 1 .. N, NEW n \in 1 .. N,
                      m < n, stack'[m].op = "resolve", stack'[n].op = "resolve", stack'[n].at # "begin"
               PROVE  stack'[m].kext # stack'[n].kext
    OBVIOUS
  <2>0. N \in Nat
    BY <1>1
  <2>1. m \in 1 .. N - 1
    BY <2>0
  <2>2. stack'[m] = stack[m]
    BY <1>3, <2>1
  <2>3. CASE n = N
    BY <1>1, <1>2, <1>3, <2>1, <2>2, <2>3 DEF ResolveTop
  <2>4. CASE n # N
    <3>1. n \in 1 .. N - 1
      BY <2>0, <2>4
    <3>2. stack'[n] = stack[n] /\ m \in DOMAIN stack /\ n \in DOMAIN stack
      BY <1>1, <1>3, <2>1, <3>1
    <3> QED BY <2>2, <3>2 DEF Resolves
  <2> QED BY <2>3, <2>4
<1> QED BY <1>3, <1>5, <1>6 DEF Resolves

(* or resolves the library. *)
LEMMA ResolvesCall ==
  ASSUME Typed, Control, Resolves, ~Idle, NEW i, NEW k \in Kexts, CallsFrom("added", i, "resolve", k),
         ResolveData, Top.op = "resolve", ResolveTop(i), i < Len(LibrariesOf[Top.kext]),
         k = byId[LibrariesOf[Top.kext][i + 1]]
  PROVE  Resolves'
<1>1. PICK N : /\ N = Len(stack) /\ N \in Nat /\ DOMAIN stack = 1 .. N /\ Top = stack[N] /\ N \in 1 .. N
               /\ \A n \in 1 .. N - 1 : n \in 1 .. N /\ n # N
  BY StackFacts, BelowTop DEF Typed
<1>2. PICK f, g : /\ f.op = Top.op /\ f.kext = Top.kext /\ f.at = "added" /\ f.i = i
                  /\ g.op = "resolve" /\ g.kext = k /\ g.at = "begin" /\ Pushes(f, g)
  BY DEF CallsFrom
<1>3. /\ DOMAIN stack' = 1 .. N + 1 /\ Len(stack') = N + 1 /\ stack'[N] = f /\ stack'[N + 1] = g
      /\ \A n \in 1 .. N - 1 : stack'[n] = stack[n]
  BY <1>1, <1>2 DEF Pushes
<1>4. \A n \in 1 .. N : stack'[n].op = stack[n].op /\ stack'[n].kext = stack[n].kext
  <2>1. \A n \in 1 .. N : n = N \/ n \in 1 .. N - 1
    BY <1>1
  <2> QED BY <1>1, <1>2, <1>3, <2>1
<1>5. ASSUME NEW n \in 1 .. N + 1, stack'[n].op = "resolve" PROVE ResolveFits(n)'
  <2>1. CASE n = N
    <3>1. stack'[n] = f /\ stack'[n + 1] = g /\ n # Len(stack')
      BY <1>1, <1>3, <2>1
    <3>2. \A m \in 1 .. n - 1 : stack'[m].op = "load" => stack'[m].at # "dependency"
      BY <1>1, <1>3, <2>1 DEF ResolveTop
    <3>3. /\ f.kext \notin Usable(resolved') /\ ToSet(deps'[f.kext]) \subseteq Usable(resolved')
          /\ f.i \in 0 .. Len(LibrariesOf[f.kext]) /\ f.at = "added" /\ f.i < Len(LibrariesOf[f.kext])
      BY <1>2 DEF ResolveTop
    <3>4. byId'[LibrariesOf[f.kext][f.i + 1]] \in Kexts /\ g.kext = byId'[LibrariesOf[f.kext][f.i + 1]]
      BY <1>2 DEF ResolveData
    <3> QED BY <3>1, <3>2, <3>3, <3>4 DEF ResolveFits
  <2>2. CASE n < N
    <3>0. N \in Nat
      BY <1>1
    <3>1. n \in 1 .. N - 1 /\ n + 1 \in 1 .. N /\ n < N /\ n \in 1 .. N /\ n # N
      BY <3>0, <2>2, <1>5
    <3>2. \A m \in 1 .. n - 1 : m \in 1 .. n
      BY <3>0, <1>5
    <3>3. \A m \in 1 .. n : stack'[m] = stack[m]
      <4>1. \A m \in 1 .. n : m \in 1 .. N - 1
        BY <3>0, <3>1
      <4> QED BY <1>3, <4>1
    <3>4. stack'[n + 1].kext = stack[n + 1].kext /\ n < Len(stack') /\ stack'[n] = stack[n]
      BY <3>0, <1>3, <1>4, <3>1
    <3> QED BY <1>1, <1>4, <1>5, <2>2, <3>1, <3>2, <3>3, <3>4, ResolveFitsKept
  <2>3. CASE n = N + 1
    BY <1>2, <1>3, <2>3 DEF ResolveFits
  <2> QED BY <1>1, <2>1, <2>2, <2>3
<1>6. \A m, n \in 1 .. N + 1 :
        m < n /\ stack'[m].op = "resolve" /\ stack'[n].op = "resolve" /\ stack'[n].at # "begin" =>
          stack'[m].kext # stack'[n].kext
  <2> SUFFICES ASSUME NEW m \in 1 .. N + 1, NEW n \in 1 .. N + 1,
                      m < n, stack'[m].op = "resolve", stack'[n].op = "resolve", stack'[n].at # "begin"
               PROVE  stack'[m].kext # stack'[n].kext
    OBVIOUS
  <2>0. N \in Nat
    BY <1>1
  <2>1. n # N + 1
    BY <1>2, <1>3
  <2>2. n \in 1 .. N /\ m \in 1 .. N - 1
    <3>1. n \in 1 .. N
      BY <2>0, <2>1
    <3>2. m \in Nat /\ m >= 1 /\ m < n
      BY <2>0
    <3> QED BY <2>0, <3>1, <3>2
  <2>3. stack'[m] = stack[m]
    BY <1>3, <2>2
  <2>4. CASE n = N
    BY <1>1, <1>2, <1>3, <2>2, <2>3, <2>4 DEF ResolveTop
  <2>5. CASE n # N
    <3>1. n \in 1 .. N - 1
      BY <2>0, <2>2, <2>5
    <3>2. stack'[n] = stack[n] /\ m \in DOMAIN stack /\ n \in DOMAIN stack
      BY <1>1, <1>3, <2>2, <3>1
    <3> QED BY <2>3, <3>2 DEF Resolves
  <2> QED BY <2>4, <2>5
<1> QED BY <1>3, <1>5, <1>6 DEF Resolves

-----------------------------------------------------------------------------
(* Where a step only begins a call of some kind, and makes none of it go   *)
(* on, nothing is claimed of calls of that kind.                           *)
OnlyBegun(calls, o) ==
  \A n \in DOMAIN calls : calls[n].op = o => n = Len(calls) /\ calls[n].at = "begin"

(* What a step does to the calls of another kind than the innermost. *)
LEMMA BegunOnly ==
  ASSUME Typed, ~Idle, NEW o, Top.op # o, \A n \in 1 .. Len(stack) - 1 : stack[n].op # o
  PROVE  /\ Pops => OnlyBegun(stack', o)
         /\ \A label : \A i : Moves(label, i) => OnlyBegun(stack', o)
         /\ \A label : \A i : \A op : \A k : CallsFrom(label, i, op, k) => OnlyBegun(stack', o)
<1>1. PICK N : N = Len(stack) /\ N \in Nat
  BY StackFacts DEF Typed
<1>2. \A n \in 1 .. N - 1 : stack[n].op # o
  BY <1>1
<1>3. Pops => OnlyBegun(stack', o)
  BY <1>1, <1>2 DEF Pops, OnlyBegun
<1>4. ASSUME NEW label, NEW i, Moves(label, i) PROVE OnlyBegun(stack', o)
  <2>1. PICK f : Replaces(f) /\ f.op = Top.op
    BY <1>4 DEF Moves
  <2>2. /\ DOMAIN stack' = 1 .. N /\ Len(stack') = N /\ stack'[N] = f
        /\ \A n \in 1 .. N - 1 : stack'[n] = stack[n]
    BY <1>1, <2>1 DEF Replaces
  <2>3. \A n \in 1 .. N : n = N \/ n \in 1 .. N - 1
    BY <1>1
  <2> QED BY <1>2, <2>1, <2>2, <2>3 DEF OnlyBegun
<1>5. ASSUME NEW label, NEW i, NEW op, NEW k, CallsFrom(label, i, op, k) PROVE OnlyBegun(stack', o)
  <2>1. PICK f, g : Pushes(f, g) /\ f.op = Top.op /\ g.at = "begin"
    BY <1>5 DEF CallsFrom
  <2>2. /\ DOMAIN stack' = 1 .. N + 1 /\ Len(stack') = N + 1 /\ stack'[N] = f /\ stack'[N + 1] = g
        /\ \A n \in 1 .. N - 1 : stack'[n] = stack[n]
    BY <1>1, <2>1 DEF Pushes
  <2>3. \A n \in 1 .. N + 1 : n = N \/ n \in 1 .. N - 1 \/ n = N + 1
    BY <1>1
  <2> QED BY <1>2, <2>1, <2>2, <2>3 DEF OnlyBegun
<1> QED BY <1>3, <1>4, <1>5

(* Nothing is resolved or started below a load. *)
LEMMA NoneBelow ==
  ASSUME Typed, Control, ~Idle
  PROVE  /\ Top.op \in {"load", "start"} => \A n \in 1 .. Len(stack) - 1 : stack[n].op # "resolve"
         /\ Top.op \in {"load", "resolve"} => \A n \in 1 .. Len(stack) - 1 : stack[n].op # "start"
<1>1. PICK N : /\ N = Len(stack) /\ N \in Nat /\ DOMAIN stack = 1 .. N /\ Top = stack[N] /\ N \in 1 .. N
               /\ \A n \in 1 .. N - 1 : n \in 1 .. N /\ n # N
  BY StackFacts, BelowTop DEF Typed
<1>2. \A n \in 1 .. N - 1 : Above(stack[n].op, Top.op)
  <2>1. \A n \in 1 .. N - 1 : n < N
    BY <1>1
  <2> QED BY <1>1, <2>1 DEF Control
<1> QED BY <1>1, <1>2 DEF Above

(* A call that only begins fits. *)
LEMMA BegunFits ==
  ASSUME stack' \in Seq(FrameType)
  PROVE  /\ OnlyBegun(stack', "resolve") => Resolves'
         /\ OnlyBegun(stack', "start") => Starts'
<1>1. ASSUME OnlyBegun(stack', "resolve") PROVE Resolves'
  BY <1>1 DEF OnlyBegun, Resolves, ResolveFits
<1>2. ASSUME OnlyBegun(stack', "start") PROVE Starts'
  <2>1. \A n \in DOMAIN stack' : stack'[n].op = "start" => StartFits(n)'
    BY <1>2 DEF OnlyBegun, StartFits
  <2>2. DOMAIN stack' = 1 .. Len(stack') /\ Len(stack') \in Nat
    OBVIOUS
  <2>3. \A m, n \in DOMAIN stack' : ~(m < n /\ stack'[m].op = "start" /\ stack'[n].op = "start")
    BY <1>2, <2>2 DEF OnlyBegun
  <2> QED BY <2>1, <2>3 DEF Starts
<1> QED BY <1>1, <1>2

(* load keeps Resolves and Starts, *)
LEMMA LoadStepBegins ==
  ASSUME Typed, Control, LoadStep, stack' \in Seq(FrameType)
  PROVE  Resolves' /\ Starts'
<1>1. ~Idle /\ Top.op = "load"
  BY StepOps
<1>2. ASSUME NEW o \in {"resolve", "start"} PROVE OnlyBegun(stack', o)
  <2>1. Top.op # o /\ \A n \in 1 .. Len(stack) - 1 : stack[n].op # o
    BY <1>1, NoneBelow
  <2>2. /\ Pops => OnlyBegun(stack', o)
        /\ \A label : \A i : Moves(label, i) => OnlyBegun(stack', o)
        /\ \A label : \A i : \A op : \A k : CallsFrom(label, i, op, k) => OnlyBegun(stack', o)
    BY <1>1, <2>1, BegunOnly
  <2> QED BY <2>2, LoadDoes DEF LoadStep, Returns
<1> QED BY <1>2, BegunFits

(* resolveDependencies keeps Starts, *)
LEMMA ResolveStepBegins ==
  ASSUME Typed, Control, ResolveStep, stack' \in Seq(FrameType)
  PROVE  Starts'
<1>1. ~Idle /\ Top.op = "resolve"
  BY StepOps
<1>2. Top.op # "start" /\ \A n \in 1 .. Len(stack) - 1 : stack[n].op # "start"
  BY <1>1, NoneBelow
<1>3. /\ Pops => OnlyBegun(stack', "start")
      /\ \A label : \A i : Moves(label, i) => OnlyBegun(stack', "start")
      /\ \A label : \A i : \A op : \A k : CallsFrom(label, i, op, k) => OnlyBegun(stack', "start")
  BY <1>1, <1>2, BegunOnly
<1>4. OnlyBegun(stack', "start")
  BY <1>3, ResolveDoes DEF ResolveStep, Returns
<1> QED BY <1>4, BegunFits

(* and start keeps Resolves. *)
LEMMA StartStepBegins ==
  ASSUME Typed, Control, StartStep, stack' \in Seq(FrameType)
  PROVE  Resolves'
<1>1. ~Idle /\ Top.op = "start"
  BY StepOps
<1>2. Top.op # "resolve" /\ \A n \in 1 .. Len(stack) - 1 : stack[n].op # "resolve"
  BY <1>1, NoneBelow
<1>3. /\ Pops => OnlyBegun(stack', "resolve")
      /\ \A label : \A i : Moves(label, i) => OnlyBegun(stack', "resolve")
      /\ \A label : \A i : \A op : \A k : CallsFrom(label, i, op, k) => OnlyBegun(stack', "resolve")
  BY <1>1, <1>2, BegunOnly
<1>4. OnlyBegun(stack', "resolve")
  BY <1>3, StartDoes DEF StartStep, Returns
<1> QED BY <1>4, BegunFits

(* No kext whose libraries are being resolved is so twice.                 *)
LEMMA ResolvedOnce ==
  ASSUME Typed, Resolves, ~Idle, Top.op = "resolve", Top.at # "begin"
  PROVE  \A n \in 1 .. Len(stack) - 1 : stack[n].op = "resolve" => stack[n].kext # Top.kext
<1>1. PICK N : /\ N = Len(stack) /\ N \in Nat /\ DOMAIN stack = 1 .. N /\ Top = stack[N] /\ N \in 1 .. N
               /\ \A n \in 1 .. N - 1 : n \in 1 .. N /\ n # N
  BY StackFacts, BelowTop DEF Typed
<1>2. \A n \in 1 .. N - 1 : n < N
  BY <1>1
<1> QED BY <1>1, <1>2 DEF Resolves

(* The loop check of resolveDependencies. *)
LEMMA NotInLoop ==
  ASSUME ~InLoop(Top.kext)
  PROVE  \A n \in 1 .. Len(stack) - 1 : stack[n].op = "resolve" => stack[n].kext # Top.kext
BY DEF InLoop

(* A kext whose libraries are being resolved below is none that a step     *)
(* changes.                                                                *)
LEMMA ResolveStepData ==
  ASSUME Typed, Graph, Memory, Control, Resolves, ResolveStep, KeepsControl
  PROVE  ResolveData
<1>1. PICK N : /\ N = Len(stack) /\ N \in Nat /\ DOMAIN stack = 1 .. N
               /\ \A n \in 1 .. N - 1 : n \in 1 .. N /\ n # N
  BY StackFacts, BelowTop DEF Typed
<1>2. \A n \in 1 .. N - 1 : stack[n].op = "resolve" /\ stack[n].at = "added" =>
        /\ stack[n].kext \in Kexts /\ stack[n].kext \notin Usable(resolved)
        /\ ToSet(deps[stack[n].kext]) \subseteq Usable(resolved)
  <2>1. SUFFICES ASSUME NEW n \in 1 .. N - 1, stack[n].op = "resolve", stack[n].at = "added"
                 PROVE  /\ stack[n].kext \in Kexts /\ stack[n].kext \notin Usable(resolved)
                        /\ ToSet(deps[stack[n].kext]) \subseteq Usable(resolved)
    OBVIOUS
  <2>2. n \in DOMAIN stack
    BY <1>1
  <2>3. ResolveFits(n) /\ WellPlaced(stack[n])
    BY <2>1, <2>2 DEF Resolves, Control
  <2> QED BY <2>1, <2>3 DEF ResolveFits, WellPlaced
<1>3. Steady => ResolveData
  BY <1>1, <1>2 DEF Steady, ResolveData
<1>4. CASE ResolveBegins
  <2>1. /\ Loses /\ byId' = byId /\ \A n \in 1 .. N - 1 : stack[n].op = "resolve" => stack[n].kext # Top.kext
    BY <1>1, <1>4, ResolveLoses, NotInLoop DEF ResolveBegins
  <2>2. PICK alive : /\ \A k \in alive : ToSet(deps[k]) \subseteq alive \/ k = Top.kext
                     /\ \A k \in Kexts : k \notin alive => deps'[k] = <<>>
                     /\ resolved' = resolved \cap alive
    BY <1>4, ResolveLoses
  <2>3. ASSUME NEW n \in 1 .. N - 1, stack[n].op = "resolve", stack[n].at = "added"
        PROVE  stack[n].kext \notin Usable(resolved') /\ ToSet(deps'[stack[n].kext]) \subseteq Usable(resolved')
    <3>1. PICK k : k = stack[n].kext
      OBVIOUS
    <3>2. k \in Kexts /\ k \notin Usable(resolved) /\ ToSet(deps[k]) \subseteq Usable(resolved) /\ k # Top.kext
      BY <1>2, <2>1, <2>3, <3>1
    <3>3. k \notin Usable(resolved')
      BY <2>2, <3>2 DEF Usable
    <3>4. ToSet(deps'[k]) \subseteq Usable(resolved')
      <4>1. CASE k \in alive
        <5>1. ToSet(deps'[k]) \subseteq ToSet(deps[k])
          BY <2>1, <3>2, LosesFacts
        <5> QED BY <2>2, <3>2, <4>1, <5>1 DEF Usable
      <4>2. CASE k \notin alive
        BY <2>2, <3>2, <4>2, EmptyToSet
      <4> QED BY <4>1, <4>2
    <3> QED BY <3>1, <3>3, <3>4
  <2> QED BY <1>1, <2>1, <2>3 DEF ResolveData
<1>5. CASE LibraryResolved /\ Succeeded
  <2>1. /\ byId' = byId /\ resolved' = resolved
        /\ \A k \in Kexts : k # Top.kext => deps'[k] = deps[k]
    BY <1>5, LibraryKeeps DEF LibraryResolved
  <2>2. \A n \in 1 .. N - 1 : stack[n].op = "resolve" => stack[n].kext # Top.kext
    <3>1. At("resolve", "added")
      BY <1>5 DEF LibraryResolved
    <3>2. ~Idle /\ Top.op = "resolve" /\ Top.at # "begin"
      BY <3>1, AtFacts DEF Typed
    <3> QED BY <1>1, <3>2, ResolvedOnce
  <2> QED BY <1>1, <1>2, <2>1, <2>2 DEF ResolveData
<1>6. CASE ResolveEnds /\ Top.kext \notin Refused
  <2>1. byId' = byId /\ resolved' = resolved \cup {Top.kext} /\ deps' = deps
    BY <1>6, ResolvedKeeps DEF ResolveEnds
  <2>2. \A n \in 1 .. N - 1 : stack[n].op = "resolve" => stack[n].kext # Top.kext
    <3>1. At("resolve", "library")
      BY <1>6 DEF ResolveEnds
    <3>2. ~Idle /\ Top.op = "resolve" /\ Top.at # "begin"
      BY <3>1, AtFacts DEF Typed
    <3> QED BY <1>1, <3>2, ResolvedOnce
  <2> QED BY <1>1, <1>2, <2>1, <2>2 DEF ResolveData, Usable
<1>7. CASE ResolveAtOnce \/ ResolveLibrary
  BY <1>3, <1>7, SteadySteps
<1> QED BY <1>3, <1>4, <1>5, <1>6, <1>7, FailingIsSteady DEF ResolveStep

(* resolveDependencies keeps Resolves. *)
LEMMA ResolveStepResolves ==
  ASSUME Typed, Graph, Memory, Control, Loads, Resolves, ResolveStep, KeepsControl
  PROVE  Resolves'
<1>1. ~Idle /\ Top.op = "resolve" /\ ResolveData
  BY StepOps, ResolveStepData
<1>2. Pops => Resolves'
  BY <1>1, ResolveReturns, ResolvesPop
<1>3. CASE ResolveAtOnce
  BY <1>2, <1>3, ResolveDoes DEF Returns
<1>4. CASE ResolveBegins
  <2>1. CASE LibrariesOf[Top.kext] = <<>>
    BY <1>2, <1>4, <2>1, ResolveDoes DEF Returns
  <2>2. CASE LibrariesOf[Top.kext] # <<>>
    <3>1. At("resolve", "begin") /\ ~IsResolved(Top.kext) /\ ~InLoop(Top.kext)
      BY <1>4 DEF ResolveBegins
    <3>2. Top.i = 0 /\ Top.kext \in Kexts
      BY <3>1, AtFacts DEF WellPlaced, Typed
    <3>3. Moves("library", 0)
      BY <1>4, <2>2, <3>2, ResolveDoes
    <3>4. Loses /\ deps'[Top.kext] = <<>>
      BY <1>4, ResolveLoses
    <3>5. Top.kext \notin Usable(resolved')
      BY <3>1, <3>4, LosesFacts DEF IsResolved, Usable
    <3>6. \A m \in 1 .. Len(stack) - 1 : stack[m].op = "load" => stack[m].at # "dependency"
      BY <3>1, NoDeepResolve
    <3>7. 0 \in 0 .. Len(LibrariesOf[Top.kext])
      BY <3>2, LoadAssumption DEF LoadAssumption
    <3>8. ResolveTop(0)
      BY <3>1, <3>4, <3>5, <3>6, <3>7, NotInLoop, EmptyToSet DEF ResolveTop
    <3> QED BY <1>1, <3>3, <3>8, ResolvesMove
  <2> QED BY <2>1, <2>2
<1>5. CASE ResolveLibrary
  <2>1. ASSUME CallsFrom("added", Top.i, "resolve", Library), Library \in Kexts PROVE Resolves'
    <3>1. At("resolve", "library") /\ Top.i < Len(LibrariesOf[Top.kext]) /\ resolved' = resolved /\ deps' = deps
      BY <1>5 DEF ResolveLibrary, holders
    <3>2. Top.at = "library"
      BY <3>1 DEF At
    <3>3. ResolveTop(Top.i)
      BY <1>1, <3>1, <3>2, AddedFacts, ResolvedOnce DEF ResolveTop
    <3>4. PICK i, k : i = Top.i /\ k = Library
      OBVIOUS
    <3>5. k = byId[LibrariesOf[Top.kext][i + 1]]
      BY <3>4 DEF Library
    <3> QED BY <1>1, <2>1, <3>1, <3>3, <3>4, <3>5, ResolvesCall
  <2> QED BY <1>2, <1>5, <2>1, ResolveDoes DEF Returns
<1>6. CASE LibraryResolved
  <2>1. CASE ~Succeeded
    BY <1>2, <1>6, <2>1, ResolveDoes DEF Returns
  <2>2. CASE Succeeded
    <3>1. At("resolve", "added") /\ resolved' = resolved
      BY <1>6 DEF LibraryResolved
    <3>2. Top.at # "begin"
      BY <3>1 DEF At
    <3>3. Moves("library", Top.i + 1)
      BY <1>6, <2>2, ResolveDoes
    <3>4. PICK j : j = Top.i + 1
      OBVIOUS
    <3>5. j \in 0 .. Len(LibrariesOf[Top.kext])
      <4>1. PICK n, i : n = Len(LibrariesOf[Top.kext]) /\ i = Top.i
        OBVIOUS
      <4>2. i \in 0 .. n /\ i < n
        BY <3>1, <4>1, AddedFacts
      <4>3. n \in Nat
        <5>1. Top.kext \in Kexts
          BY <3>1, AddedFacts
        <5> QED BY <4>1, <5>1, LoadAssumption DEF LoadAssumption
      <4>4. j = i + 1
        BY <3>4, <4>1
      <4>5. j \in 0 .. n
        BY <4>2, <4>3, <4>4
      <4> QED BY <4>1, <4>5
    <3>6. ToSet(deps'[Top.kext]) \subseteq Usable(resolved')
      BY <1>6, <2>2, <3>1, LibraryKeeps
    <3>7. ResolveTop(j)
      BY <1>1, <3>1, <3>2, <3>5, <3>6, AddedFacts, ResolvedOnce DEF ResolveTop
    <3> QED BY <1>1, <3>3, <3>4, <3>7, ResolvesMove
  <2> QED BY <2>1, <2>2
<1>7. CASE ResolveEnds
  BY <1>2, <1>7, ResolveDoes DEF Returns
<1> QED BY <1>3, <1>4, <1>5, <1>6, <1>7 DEF ResolveStep

-----------------------------------------------------------------------------
(* While kexts are started, none of them is linked or leaves, and none     *)
(* that runs is stopped.                                                   *)
StartData ==
  UNCHANGED <<loaded, deps>> /\ started \subseteq started'

(* What was seen to stays so. *)
LEMMA TriedKept ==
  ASSUME StartData, NEW j, Tried(j)
  PROVE  Tried(j)'
BY DEF StartData, Tried, NothingToStart

(* A start below the innermost call stays as it was, *)
LEMMA StartFitsKept ==
  ASSUME Control, Starts, StartData, NEW n \in DOMAIN stack, stack[n].op = "start",
         n < Len(stack), n < Len(stack'), stack'[n] = stack[n],
         stack'[n + 1].kext = stack[n + 1].kext
  PROVE  StartFits(n)'
<1>1. StartFits(n)
  BY DEF Starts
<1>2. PICK f, k, g : f = stack[n] /\ k = f.kext /\ g = stack[n + 1].kext
  OBVIOUS
<1>3. stack'[n] = f /\ stack'[n + 1].kext = g /\ loaded' = loaded /\ deps' = deps
  BY <1>2 DEF StartData
<1>4. \A j \in DOMAIN deps[k] : j < f.i => Tried(deps[k][j])'
  <2> SUFFICES ASSUME NEW j \in DOMAIN deps[k], j < f.i PROVE Tried(deps[k][j])'
    OBVIOUS
  <2>1. PICK l : l = deps[k][j]
    OBVIOUS
  <2>2. f.at \in {"dependencies", "dependency"} => Tried(l)
    BY <1>1, <1>2, <2>1 DEF StartFits
  <2>3. f.at = "dependency"
    BY <1>2 DEF Control, Calls
  <2> QED BY <2>1, <2>2, <2>3, <1>3, TriedKept
<1> QED BY <1>1, <1>2, <1>3, <1>4 DEF StartFits

(* and goes on when the innermost call returns. *)
LEMMA StartsPop ==
  ASSUME Typed, Control, Starts, ~Idle, Pops, StartData, Top.op = "start", NEW top, top = Top.kext,
         Len(stack) > 1 => IF Succeeded' THEN Tried(top)' ELSE IsExecutable(top)
  PROVE  Starts'
<1>1. PICK N : /\ N = Len(stack) /\ N \in Nat /\ DOMAIN stack = 1 .. N /\ Top = stack[N] /\ N \in 1 .. N
               /\ \A n \in 1 .. N - 1 : n \in 1 .. N /\ n # N
  BY StackFacts, BelowTop DEF Typed
<1>2. DOMAIN stack' = 1 .. N - 1 /\ Len(stack') = N - 1 /\ \A n \in 1 .. N - 1 : stack'[n] = stack[n]
  BY <1>1 DEF Pops
<1>3. ASSUME NEW n \in 1 .. N - 1, stack[n].op = "start" PROVE StartFits(n)'
  <2>1. n + 1 \in 1 .. N /\ n < N /\ n \in 1 .. N
    BY <1>1, <1>3
  <2>2. CASE n < N - 1
    <3>1. n + 1 \in 1 .. N - 1
      BY <1>1, <2>2
    <3>2. stack'[n + 1].kext = stack[n + 1].kext /\ n < Len(stack') /\ stack'[n] = stack[n]
      BY <1>2, <1>3, <2>2, <3>1
    <3> QED BY <1>1, <1>3, <2>1, <3>2, StartFitsKept
  <2>3. CASE n = N - 1
    <3>1. PICK f, k, g : f = stack[n] /\ k = f.kext /\ g = stack[N]
      OBVIOUS
    <3>2. stack'[n] = f /\ n = Len(stack') /\ ~(n < Len(stack')) /\ n < Len(stack) /\ n + 1 = N /\ N > 1
      BY <1>1, <1>2, <2>3, <3>1
    <3>3. Calls(f, g)
      BY <1>1, <2>1, <3>1, <3>2 DEF Control
    <3>4. f.at = "dependency"
      BY <1>3, <3>1, <3>3 DEF Calls
    <3>5. StartFits(n)
      BY <1>1, <1>3, <2>1 DEF Starts
    <3>6. /\ k \in loaded' /\ IsExecutable(k) /\ deps' = deps
          /\ f.i \in DOMAIN deps[k] /\ g.kext = deps[k][f.i]
      BY <3>1, <3>2, <3>4, <3>5 DEF StartFits, StartData
    <3>7. \A j \in DOMAIN deps[k] : j < f.i => Tried(deps[k][j])'
      <4> SUFFICES ASSUME NEW j \in DOMAIN deps[k], j < f.i PROVE Tried(deps[k][j])'
        OBVIOUS
      <4>1. PICK l : l = deps[k][j]
        OBVIOUS
      <4>2. Tried(l)
        BY <3>1, <3>4, <3>5, <4>1 DEF StartFits
      <4> QED BY <3>6, <4>1, <4>2, TriedKept
    <3>8. top = g.kext /\ IF Succeeded' THEN Tried(top)' ELSE IsExecutable(top)
      BY <1>1, <3>1, <3>2
    <3>9. k \in loaded' /\ IsExecutable(k)' /\ (IsExecutable(top) => IsExecutable(top)')
      BY <3>6 DEF IsExecutable
    <3>10. /\ stack'[n] = f /\ f.kext = k /\ f.at = "dependency"
           /\ f.i \in DOMAIN deps'[k] /\ deps'[k][f.i] = top
           /\ \A j \in DOMAIN deps[k]' : j < f.i => Tried(deps[k][j])'
      BY <3>1, <3>2, <3>4, <3>6, <3>7, <3>8
    <3>11. IF Succeeded' THEN Tried(deps[k][f.i])' ELSE IsExecutable(deps[k][f.i])'
      BY <3>8, <3>9, <3>10
    <3> QED BY <3>2, <3>9, <3>10, <3>11 DEF StartFits
  <2> QED BY <1>1, <1>3, <2>2, <2>3
<1>4. \A m, n \in 1 .. N - 1 :
        m < n /\ stack'[m].op = "start" /\ stack'[n].op = "start" => stack'[m].kext # stack'[n].kext
  <2> SUFFICES ASSUME NEW m \in 1 .. N - 1, NEW n \in 1 .. N - 1,
                      m < n, stack'[m].op = "start", stack'[n].op = "start"
               PROVE  stack'[m].kext # stack'[n].kext
    OBVIOUS
  <2>1. m \in DOMAIN stack /\ n \in DOMAIN stack /\ stack'[m] = stack[m] /\ stack'[n] = stack[n]
    BY <1>1, <1>2
  <2> QED BY <2>1 DEF Starts
<1>5. \A n \in DOMAIN stack' : stack'[n].op = "start" => StartFits(n)'
  BY <1>1, <1>2, <1>3
<1> QED BY <1>2, <1>4, <1>5 DEF Starts

(* The dependencies of k before the one at i are seen to. *)
TriedBefore(k, i) == \A j \in DOMAIN deps[k] : j < i => Tried(deps[k][j])

(* The innermost call looks at its dependencies, *)
LEMMA StartsMove ==
  ASSUME Typed, Control, Starts, ~Idle, Moves("dependencies", 0), StartData, Top.op = "start",
         Top.kext \in loaded, IsExecutable(Top.kext)
  PROVE  Starts'
<1>1. PICK N : /\ N = Len(stack) /\ N \in Nat /\ DOMAIN stack = 1 .. N /\ Top = stack[N] /\ N \in 1 .. N
               /\ \A n \in 1 .. N - 1 : n \in 1 .. N /\ n # N
  BY StackFacts, BelowTop DEF Typed
<1>2. PICK f : f.op = Top.op /\ f.kext = Top.kext /\ f.at = "dependencies" /\ f.i = 0 /\ Replaces(f)
  BY DEF Moves
<1>3. /\ DOMAIN stack' = 1 .. N /\ Len(stack') = N /\ stack'[N] = f
      /\ \A n \in 1 .. N - 1 : stack'[n] = stack[n]
  BY <1>1, <1>2 DEF Replaces
<1>4. \A n \in 1 .. N : stack'[n].op = stack[n].op /\ stack'[n].kext = stack[n].kext
  <2>1. \A n \in 1 .. N : n = N \/ n \in 1 .. N - 1
    BY <1>1
  <2> QED BY <1>1, <1>2, <1>3, <2>1
<1>5. ASSUME NEW n \in 1 .. N, stack'[n].op = "start" PROVE StartFits(n)'
  <2>1. CASE n = N
    <3>1. Top.kext \in Kexts
      BY <1>1 DEF Control, WellPlaced, Typed
    <3>2. \A j \in DOMAIN deps'[f.kext] : ~(j < 0)
      BY <1>2, <3>1 DEF Typed, StartData
    <3>3. f.kext \in loaded' /\ IsExecutable(f.kext)'
      BY <1>2 DEF StartData, IsExecutable
    <3> QED BY <1>2, <1>3, <2>1, <3>2, <3>3 DEF StartFits
  <2>2. CASE n # N
    <3>1. n \in 1 .. N - 1 /\ n + 1 \in 1 .. N /\ n < Len(stack')
      BY <1>1, <1>3, <2>2
    <3>2. n < Len(stack) /\ stack'[n] = stack[n] /\ stack'[n + 1].kext = stack[n + 1].kext
      BY <1>1, <1>3, <1>4, <3>1
    <3> QED BY <1>1, <1>4, <1>5, <3>1, <3>2, StartFitsKept
  <2> QED BY <2>1, <2>2
<1>6. \A m, n \in 1 .. N :
        m < n /\ stack'[m].op = "start" /\ stack'[n].op = "start" => stack'[m].kext # stack'[n].kext
  <2> SUFFICES ASSUME NEW m \in 1 .. N, NEW n \in 1 .. N,
                      m < n, stack'[m].op = "start", stack'[n].op = "start"
               PROVE  stack'[m].kext # stack'[n].kext
    OBVIOUS
  <2>1. stack[m].op = "start" /\ stack[n].op = "start" /\ stack'[m].kext = stack[m].kext
        /\ stack'[n].kext = stack[n].kext
    BY <1>4
  <2> QED BY <1>1, <2>1 DEF Starts
<1> QED BY <1>3, <1>5, <1>6 DEF Starts

(* or starts one of them. *)
LEMMA StartsCall ==
  ASSUME Typed, Control, Starts, ~Idle, StartData, Top.op = "start", NEW i, NEW k,
         CallsFrom("dependency", i, "start", k),
         Top.kext \in loaded, IsExecutable(Top.kext), TriedBefore(Top.kext, i),
         i \in DOMAIN deps[Top.kext], k = deps[Top.kext][i],
         \A n \in DOMAIN stack : stack[n].op = "start" => k # stack[n].kext
  PROVE  Starts'
<1>1. PICK N : /\ N = Len(stack) /\ N \in Nat /\ DOMAIN stack = 1 .. N /\ Top = stack[N] /\ N \in 1 .. N
               /\ \A n \in 1 .. N - 1 : n \in 1 .. N /\ n # N
  BY StackFacts, BelowTop DEF Typed
<1>2. PICK f, g : /\ f.op = Top.op /\ f.kext = Top.kext /\ f.at = "dependency" /\ f.i = i
                  /\ g.op = "start" /\ g.kext = k /\ g.at = "begin" /\ Pushes(f, g)
  BY DEF CallsFrom
<1>3. /\ DOMAIN stack' = 1 .. N + 1 /\ Len(stack') = N + 1 /\ stack'[N] = f /\ stack'[N + 1] = g
      /\ \A n \in 1 .. N - 1 : stack'[n] = stack[n]
  BY <1>1, <1>2 DEF Pushes
<1>4. \A n \in 1 .. N : stack'[n].op = stack[n].op /\ stack'[n].kext = stack[n].kext
  <2>1. \A n \in 1 .. N : n = N \/ n \in 1 .. N - 1
    BY <1>1
  <2> QED BY <1>1, <1>2, <1>3, <2>1
<1>5. ASSUME NEW n \in 1 .. N + 1, stack'[n].op = "start" PROVE StartFits(n)'
  <2>0. N \in Nat
    BY <1>1
  <2>1. CASE n = N
    <3>1. n < Len(stack') /\ stack'[n] = f /\ stack'[n + 1] = g
      BY <1>1, <1>3, <2>1
    <3>2. f.kext \in loaded' /\ IsExecutable(f.kext)' /\ deps' = deps
      BY <1>2 DEF StartData, IsExecutable
    <3>3. \A j \in DOMAIN deps[f.kext] : j < i => Tried(deps[f.kext][j])'
      <4> SUFFICES ASSUME NEW j \in DOMAIN deps[f.kext], j < i PROVE Tried(deps[f.kext][j])'
        OBVIOUS
      <4>1. PICK l : l = deps[f.kext][j]
        OBVIOUS
      <4>2. Tried(l)
        BY <1>2, <4>1 DEF TriedBefore
      <4> QED BY <3>2, <4>1, <4>2, TriedKept
    <3> QED BY <1>2, <3>1, <3>2, <3>3 DEF StartFits
  <2>2. CASE n < N
    <3>1. n \in 1 .. N - 1 /\ n + 1 \in 1 .. N /\ n < N + 1
      BY <2>0, <2>2, <1>5
    <3>2. n < Len(stack) /\ n < Len(stack') /\ stack'[n] = stack[n] /\ stack'[n + 1].kext = stack[n + 1].kext
      BY <1>1, <1>3, <1>4, <2>2, <3>1
    <3> QED BY <1>1, <1>4, <1>5, <3>1, <3>2, StartFitsKept
  <2>3. CASE n = N + 1
    BY <1>2, <1>3, <2>3 DEF StartFits
  <2> QED BY <2>0, <2>1, <2>2, <2>3
<1>6. \A m, n \in 1 .. N + 1 :
        m < n /\ stack'[m].op = "start" /\ stack'[n].op = "start" => stack'[m].kext # stack'[n].kext
  <2> SUFFICES ASSUME NEW m \in 1 .. N + 1, NEW n \in 1 .. N + 1,
                      m < n, stack'[m].op = "start", stack'[n].op = "start"
               PROVE  stack'[m].kext # stack'[n].kext
    OBVIOUS
  <2>0. N \in Nat
    BY <1>1
  <2>1. m \in 1 .. N /\ (n \in 1 .. N \/ n = N + 1)
    BY <2>0
  <2>2. stack[m].op = "start" /\ stack'[m].kext = stack[m].kext
    BY <1>4, <2>1
  <2>3. CASE n \in 1 .. N
    <3>1. m \in DOMAIN stack /\ n \in DOMAIN stack
      BY <1>1, <2>1, <2>3
    <3>2. stack[n].op = "start" /\ stack'[n].kext = stack[n].kext
      BY <1>4, <2>3
    <3> QED BY <2>2, <3>1, <3>2 DEF Starts
  <2>4. CASE n = N + 1
    <3>1. stack'[n].kext = k
      BY <1>2, <1>3, <2>4
    <3> QED BY <1>1, <2>1, <2>2, <3>1
  <2> QED BY <2>1, <2>3, <2>4
<1> QED BY <1>3, <1>5, <1>6 DEF Starts

-----------------------------------------------------------------------------
(* The calls that start kexts, from one of them to the innermost.          *)
LEMMA StartChain ==
  ASSUME Typed, Graph, Control, Starts, ~Idle, Top.op = "start",
         NEW m \in DOMAIN stack, stack[m].op = "start", NEW d \in ToSet(deps[Top.kext])
  PROVE  d # stack[m].kext
<1>1. PICK N : /\ N = Len(stack) /\ N \in Nat /\ DOMAIN stack = 1 .. N /\ Top = stack[N] /\ N \in 1 .. N
  BY StackFacts DEF Typed
<1>2. \A j \in m .. N : j \in 1 .. N /\ stack[j].op = "start"
  <2> SUFFICES ASSUME NEW j \in m .. N, j # m, j # N PROVE j \in 1 .. N /\ stack[j].op = "start"
    BY <1>1
  <2>1. j \in 1 .. N /\ m < j /\ j < N
    BY <1>1
  <2>2. Above("start", stack[j].op)
    BY <1>1, <2>1 DEF Control
  <2> QED BY <2>1, <2>2 DEF Above
<1>3. \A j \in m .. N : stack[j].kext \in Kexts
  BY <1>1, <1>2 DEF Control, WellPlaced
<1>4. ASSUME NEW j \in m .. N, j < N PROVE stack[j + 1].kext \in ToSet(deps[stack[j].kext])
  <2>1. j \in 1 .. N /\ j + 1 \in m .. N
    BY <1>1, <1>4
  <2>2. Calls(stack[j], stack[j + 1])
    BY <1>1, <1>4, <2>1 DEF Control
  <2>3. stack[j].at = "dependency" /\ stack[j].op = "start"
    BY <1>2, <1>4, <2>1, <2>2 DEF Calls
  <2>4. StartFits(j)
    BY <1>1, <2>1, <2>3 DEF Starts
  <2>5. /\ stack[j].i \in DOMAIN deps[stack[j].kext]
        /\ stack[j + 1].kext = deps[stack[j].kext][stack[j].i]
    BY <1>1, <1>4, <2>3, <2>4 DEF StartFits
  <2>6. deps[stack[j].kext] \in Seq(Kexts)
    BY <1>3 DEF Typed
  <2> QED BY <2>5, <2>6, ToSetFacts
<1>5. PICK libraries, c : libraries = deps /\ c = [j \in 1 .. N |-> stack[j].kext]
  OBVIOUS
<1>6. \A j \in m .. N : c[j] \in Kexts /\ c[j] = stack[j].kext
  BY <1>2, <1>3, <1>5
<1>7. \A j \in m .. N : j < N => c[j + 1] \in ToSet(libraries[c[j]])
  <2> SUFFICES ASSUME NEW j \in m .. N, j < N PROVE c[j + 1] \in ToSet(libraries[c[j]])
    OBVIOUS
  <2>1. j + 1 \in m .. N
    BY <1>1
  <2> QED BY <1>4, <1>5, <1>6, <2>1
<1>8. libraries \in [Kexts -> Seq(Kexts)] /\ Ordered(libraries)
  BY <1>5 DEF Typed, Graph
<1>9. m \in 1 .. N /\ N \in m .. N /\ m \in m .. N
  BY <1>1
<1>10. d \in ToSet(libraries[c[N]])
  BY <1>1, <1>5, <1>6, <1>9
<1>11. d # c[m]
  <2>1. \A j \in m .. N : c[j] \in Kexts
    BY <1>6
  <2> QED BY <1>1, <1>7, <1>8, <1>9, <1>10, <2>1, ChainIsNew
<1> QED BY <1>6, <1>9, <1>11

(* What is known of the kext that is being started. *)
LEMMA StartingFacts ==
  ASSUME Typed, Control, Starts, ~Idle, Top.op = "start", Top.at \in {"dependencies", "dependency"}
  PROVE  /\ Top.kext \in loaded /\ Top.kext \in Kexts /\ IsExecutable(Top.kext)
         /\ TriedBefore(Top.kext, Top.i)
         /\ Top.at = "dependencies" => Top.i = 0
         /\ Top.at = "dependency" =>
              /\ Top.i \in DOMAIN deps[Top.kext]
              /\ IF Succeeded THEN Tried(deps[Top.kext][Top.i]) ELSE IsExecutable(deps[Top.kext][Top.i])
<1>1. PICK N : N = Len(stack) /\ N \in Nat /\ DOMAIN stack = 1 .. N /\ Top = stack[N] /\ N \in 1 .. N
  BY StackFacts DEF Typed
<1>2. StartFits(N) /\ WellPlaced(Top)
  BY <1>1 DEF Starts, Control
<1>3. ~(N < Len(stack))
  BY <1>1
<1> QED BY <1>1, <1>2, <1>3 DEF StartFits, TriedBefore, WellPlaced, Typed

(* The dependencies before the next one that does not run are seen to.     *)
LEMMA NextIsLeast ==
  ASSUME Typed, Control, Starts, ~Idle, Top.op = "start", Starting,
         NEW i \in Unstarted(Top.kext, Top.i), \A j \in Unstarted(Top.kext, Top.i) : i <= j
  PROVE  TriedBefore(Top.kext, i)
<1>1. Top.at \in {"dependencies", "dependency"} /\ Succeeded
  BY DEF Starting, At
<1>2. PICK k, n : k = Top.kext /\ n = Top.i
  OBVIOUS
<1>3. /\ k \in Kexts /\ TriedBefore(k, n)
      /\ Top.at = "dependencies" => n = 0
      /\ Top.at = "dependency" => n \in DOMAIN deps[k] /\ Tried(deps[k][n])
  BY <1>1, <1>2, StartingFacts
<1>4. DOMAIN deps[k] \subseteq Nat \ {0}
  BY <1>3 DEF Typed
<1>5. n \in Nat
  BY <1>1, <1>3, <1>4
<1>6. i \in DOMAIN deps[k] /\ \A j \in DOMAIN deps[k] : j > n /\ deps[k][j] \notin started => i <= j
  BY <1>2 DEF Unstarted
<1>7. ASSUME NEW j \in DOMAIN deps[k], j < i PROVE Tried(deps[k][j])
  <2>1. CASE j < n
    BY <1>3, <2>1 DEF TriedBefore
  <2>2. CASE j = n
    BY <1>1, <1>3, <1>4, <2>2
  <2>3. CASE j > n
    <3>1. ~(i <= j)
      BY <1>4, <1>6, <1>7
    <3>2. deps[k][j] \in started
      BY <1>6, <2>3, <3>1
    <3> QED BY <3>2 DEF Tried, NothingToStart
  <2> QED BY <1>4, <1>5, <2>1, <2>2, <2>3
<1> QED BY <1>2, <1>7 DEF TriedBefore

(* start keeps Starts. *)
LEMMA StartStepStarts ==
  ASSUME Typed, Graph, Control, Starts, StartStep
  PROVE  Starts'
<1>1. ~Idle /\ Top.op = "start" /\ StartData
  BY StepOps DEF StartStep, StartAtOnce, StartBegins, StartDependency, DependencyNotStarted, StartFunc,
                 StartData, holders
<1>2. PICK k, N : k = Top.kext /\ N = Len(stack) /\ N \in Nat
  BY StackFacts DEF Typed
<1>3. \A r : Returns(r) /\ (N > 1 => IF r = "success" THEN Tried(k)' ELSE IsExecutable(k)) => Starts'
  <2> SUFFICES ASSUME NEW r, Returns(r), N > 1 => IF r = "success" THEN Tried(k)' ELSE IsExecutable(k)
               PROVE  Starts'
    OBVIOUS
  <2>1. N > 1 => (Succeeded' <=> r = "success")
    BY <1>2 DEF Returns, Succeeded
  <2>2. Len(stack) > 1 => IF Succeeded' THEN Tried(k)' ELSE IsExecutable(k)
    BY <1>2, <2>1
  <2>3. Pops
    BY DEF Returns
  <2> QED BY <1>1, <1>2, <2>2, <2>3, StartsPop
<1>4. CASE StartAtOnce
  <2>1. CASE NothingToStart(k) /\ Returns("success")
    <3>1. Tried(k)'
      BY <1>4, <2>1 DEF StartAtOnce, Tried, NothingToStart, IsExecutable
    <3> QED BY <1>3, <2>1, <3>1
  <2>2. CASE ~NothingToStart(k) /\ Returns("error")
    BY <1>3, <2>2 DEF NothingToStart
  <2> QED BY <1>2, <1>4, <2>1, <2>2, StartDoes
<1>5. CASE StartBegins
  <2>1. At("start", "begin") /\ k \in loaded /\ IsExecutable(k)
    BY <1>2, <1>5 DEF StartBegins, NothingToStart
  <2>2. Top.i = 0
    BY <2>1, AtFacts DEF WellPlaced, Typed
  <2>3. Moves("dependencies", 0)
    BY <1>5, <2>2, StartDoes
  <2> QED BY <1>1, <1>2, <2>1, <2>3, StartsMove
<1>6. CASE StartDependency
  <2>1. PICK i \in Unstarted(k, Top.i) :
          /\ \A j \in Unstarted(k, Top.i) : i <= j
          /\ CallsFrom("dependency", i, "start", deps[k][i])
          /\ i \in DOMAIN deps[k] /\ deps[k][i] \in Kexts
    BY <1>2, <1>6, StartDoes
  <2>2. PICK d : d = deps[k][i]
    OBVIOUS
  <2>3. Starting /\ Top.at \in {"dependencies", "dependency"}
    BY <1>6 DEF StartDependency, Starting, At
  <2>4. k \in loaded /\ k \in Kexts /\ IsExecutable(k)
    BY <1>1, <1>2, <2>3, StartingFacts
  <2>5. TriedBefore(k, i)
    BY <1>1, <1>2, <2>1, <2>3, NextIsLeast
  <2>6. d \in ToSet(deps[k])
    BY <2>1, <2>2, <2>4, ToSetFacts DEF Typed
  <2>7. \A n \in DOMAIN stack : stack[n].op = "start" => d # stack[n].kext
    BY <1>1, <1>2, <2>6, StartChain
  <2>8. CallsFrom("dependency", i, "start", d) /\ i \in DOMAIN deps[Top.kext] /\ d = deps[Top.kext][i]
        /\ Top.kext \in loaded /\ IsExecutable(Top.kext) /\ TriedBefore(Top.kext, i)
    BY <1>2, <2>1, <2>2, <2>4, <2>5
  <2> QED BY <1>1, <2>7, <2>8, StartsCall
<1>7. CASE DependencyNotStarted
  <2>1. Top.at = "dependency" /\ ~Succeeded /\ deps' = deps /\ Returns("success")
    BY <1>7, StartDoes DEF DependencyNotStarted, At, holders
  <2>2. k \in Kexts /\ Top.i \in DOMAIN deps[k] /\ IsExecutable(deps[k][Top.i])
    BY <1>1, <1>2, <2>1, StartingFacts
  <2>3. deps[k][Top.i] \in ToSet(deps[k])
    BY <2>2, ToSetFacts DEF Typed
  <2>4. Tried(k)'
    BY <2>1, <2>2, <2>3 DEF Tried, IsExecutable
  <2> QED BY <1>3, <2>1, <2>4
<1>8. CASE StartFunc
  <2>1. CASE started' = started \cup {Top.kext} /\ Returns("success")
    <3>1. Tried(k)'
      BY <1>2, <2>1 DEF Tried, NothingToStart
    <3> QED BY <1>3, <2>1, <3>1
  <2>2. CASE Returns("error")
    <3>1. Top.at \in {"dependencies", "dependency"}
      BY <1>8 DEF StartFunc, Starting, At
    <3>2. IsExecutable(k)
      BY <1>1, <1>2, <3>1, StartingFacts
    <3> QED BY <1>3, <2>2, <3>2
  <2> QED BY <1>8, <2>1, <2>2, StartDoes
<1> QED BY <1>4, <1>5, <1>6, <1>7, <1>8 DEF StartStep

-----------------------------------------------------------------------------
(* What a step leaves to the calls that remove, unload and scan.           *)
LEMMA TopPrimed ==
  ASSUME Len(stack') \in DOMAIN stack'
  PROVE  Top' = stack'[Len(stack')]
BY DEF Top, Last

(* The calls below one that removes. *)
LEMMA BelowRemoves ==
  ASSUME Typed, Control, ~Idle, Top.op \in Removing, NEW n \in 1 .. Len(stack) - 1
  PROVE  /\ stack[n].op # "unload"
         /\ stack[n].op = "remove" => Top.op = "unload"
         /\ stack[n].op = "scan" => stack[n].at = "removed" /\ Top.op \in {"remove", "unload"}
         /\ n = Len(stack) - 1 => stack[n].op # "unload" /\ stack[n].at # "begin"
         /\ Top.op \notin {"request", "scan"}
<1>1. PICK N : /\ N = Len(stack) /\ N \in Nat /\ DOMAIN stack = 1 .. N /\ Top = stack[N] /\ N \in 1 .. N
               /\ \A j \in 1 .. N - 1 : j \in 1 .. N /\ j # N
  BY StackFacts, BelowTop DEF Typed
<1>2. n \in 1 .. N /\ n + 1 \in 1 .. N /\ n < N
  BY <1>1
<1>3. Above(stack[n].op, Top.op) /\ Calls(stack[n], stack[n + 1])
  BY <1>1, <1>2 DEF Control
<1>4. stack[n].op # "unload" /\ Top.op \notin {"request", "scan"} /\ (stack[n].op = "remove" => Top.op = "unload")
  BY <1>3 DEF Above, Removing
<1>5. stack[n].at # "begin" /\ (stack[n].op = "scan" => stack[n].at = "removed")
  BY <1>3 DEF Calls
<1>6. stack[n].op = "scan" => Top.op \in {"remove", "unload"}
  BY <1>3 DEF Above
<1> QED BY <1>4, <1>5, <1>6

(* A call that removes or unloads returns. *)
LEMMA RemovesPop ==
  ASSUME Typed, Control, Removes, ~Idle, Pops, Top.op \in Removing,
         Len(loadedKexts) \in Nat, Len(loadedKexts') \in Nat,
         Top.op = "unload" => /\ byId' = byId
                              /\ Len(loadedKexts') \in {Len(loadedKexts), Len(loadedKexts) - 1},
         Top.op # "unload" => loadedKexts' = loadedKexts
  PROVE  Removes'
<1>1. PICK N : /\ N = Len(stack) /\ N \in Nat /\ DOMAIN stack = 1 .. N /\ Top = stack[N] /\ N \in 1 .. N
               /\ \A j \in 1 .. N - 1 : j \in 1 .. N /\ j # N
  BY StackFacts, BelowTop DEF Typed
<1>2. DOMAIN stack' = 1 .. N - 1 /\ Len(stack') = N - 1 /\ \A n \in 1 .. N - 1 : stack'[n] = stack[n]
  BY <1>1 DEF Pops
<1>3. ASSUME NEW n \in 1 .. N - 1 PROVE RemoveFits(stack[n])'
  <2>1. PICK f : f = stack[n] /\ stack'[n] = f
    BY <1>2
  <2>2. f.op # "unload" /\ (f.op = "remove" => Top.op = "unload") /\ RemoveFits(f)
    BY <1>1, <2>1, BelowRemoves DEF Removes
  <2>3. f.op = "remove" => byId' = byId
    BY <2>2
  <2>4. RemoveFits(f)'
    BY <2>2, <2>3 DEF RemoveFits
  <2> QED BY <2>1, <2>4
<1>4. ASSUME NEW n \in 1 .. N - 1, stack'[n].op = "scan" PROVE ScanFits(stack[n])'
  <2>1. PICK f : f = stack[n] /\ stack'[n] = f /\ f.op = "scan"
    BY <1>2, <1>4
  <2>2. f.at = "removed" /\ ScanFits(f)
    BY <1>1, <2>1, BelowRemoves DEF Removes
  <2>3. N - 1 \in 1 .. N - 1
    BY <1>1, <1>4
  <2>4. Top' = stack[N - 1] /\ stack[N - 1].op # "unload" /\ stack[N - 1].at # "begin"
    BY <1>1, <1>2, <2>3, TopPrimed, BelowRemoves
  <2>5. f.i \in 1 .. Len(loadedKexts')  + 1
    BY <2>2 DEF ScanFits
  <2>6. ScanFits(f)'
    BY <2>2, <2>4, <2>5 DEF ScanFits
  <2> QED BY <2>1, <2>6
<1> QED BY <1>2, <1>3, <1>4 DEF Removes

(* unload goes on, *)
LEMMA UnloadMoves ==
  ASSUME Typed, Control, Removes, ~Idle, NEW label, NEW i, Moves(label, i), Top.op = "unload",
         UNCHANGED <<byId, loadedKexts>>,
         \A f : f.op = "unload" /\ f.kext = Top.kext /\ f.at = label => RemoveFits(f)'
  PROVE  Removes'
<1>1. PICK N : /\ N = Len(stack) /\ N \in Nat /\ DOMAIN stack = 1 .. N /\ Top = stack[N] /\ N \in 1 .. N
               /\ \A j \in 1 .. N - 1 : j \in 1 .. N /\ j # N
  BY StackFacts, BelowTop DEF Typed
<1>2. PICK f : f.op = Top.op /\ f.kext = Top.kext /\ f.at = label /\ Replaces(f)
  BY DEF Moves
<1>3. /\ DOMAIN stack' = 1 .. N /\ Len(stack') = N /\ stack'[N] = f
      /\ \A n \in 1 .. N - 1 : stack'[n] = stack[n]
  BY <1>1, <1>2 DEF Replaces
<1>4. ASSUME NEW n \in 1 .. N PROVE RemoveFits(stack[n])' /\ (stack'[n].op = "scan" => ScanFits(stack[n])')
  <2>1. CASE n = N
    <3>1. RemoveFits(f)' /\ f.op = "unload"
      BY <1>2
    <3> QED BY <1>3, <2>1, <3>1
  <2>2. CASE n # N
    <3>1. n \in 1 .. N - 1
      BY <1>1, <2>2
    <3>2. PICK h : h = stack[n] /\ stack'[n] = h
      BY <1>3, <3>1
    <3>3. h.op # "unload" /\ RemoveFits(h) /\ (h.op = "scan" => ScanFits(h) /\ h.at = "removed")
      BY <1>1, <3>1, <3>2, BelowRemoves DEF Removes, Removing
    <3>4. RemoveFits(h)' /\ (h.op = "scan" => ScanFits(h)')
      BY <3>3 DEF RemoveFits, ScanFits
    <3> QED BY <3>2, <3>4
  <2> QED BY <2>1, <2>2
<1> QED BY <1>3, <1>4 DEF Removes

(* the scan does, *)
LEMMA ScanNext ==
  ASSUME Typed, Control, Removes, ~Idle, NEW i, Moves("next", i), Top.op = "scan",
         i \in 0 .. Len(loadedKexts')
  PROVE  Removes'
<1>1. PICK N : /\ N = Len(stack) /\ N \in Nat /\ DOMAIN stack = 1 .. N /\ Top = stack[N] /\ N \in 1 .. N
               /\ \A j \in 1 .. N - 1 : j \in 1 .. N /\ j # N
  BY StackFacts, BelowTop DEF Typed
<1>2. PICK f : f.op = Top.op /\ f.kext = Top.kext /\ f.at = "next" /\ f.i = i /\ Replaces(f)
  BY DEF Moves
<1>3. DOMAIN stack' = 1 .. N /\ stack'[N] = f
  BY <1>1, <1>2 DEF Replaces
<1>4. \A n \in 1 .. N : n = N
  <2>1. \A n \in 1 .. N - 1 : FALSE
    BY <1>1, BelowRemoves DEF Removing
  <2>2. N \in Nat
    BY <1>1
  <2> QED BY <2>1, <2>2
<1>5. RemoveFits(f)' /\ ScanFits(f)'
  BY <1>2 DEF RemoveFits, ScanFits
<1> QED BY <1>3, <1>4, <1>5 DEF Removes

(* removeKext calls unload, *)
LEMMA UnloadCall ==
  ASSUME Typed, Control, Removes, ~Idle, NEW i, CallsFrom("unloaded", i, "unload", Top.kext),
         Top.op = "remove", Top.at = "begin",
         UNCHANGED <<byId, loadedKexts, loaded>>, Top.kext \in loaded, byId[IdOf[Top.kext]] = Top.kext
  PROVE  Removes'
<1>1. PICK N : /\ N = Len(stack) /\ N \in Nat /\ DOMAIN stack = 1 .. N /\ Top = stack[N] /\ N \in 1 .. N
               /\ \A j \in 1 .. N - 1 : j \in 1 .. N /\ j # N
  BY StackFacts, BelowTop DEF Typed
<1>2. PICK f, g : /\ f.op = Top.op /\ f.kext = Top.kext /\ f.at = "unloaded"
                  /\ g.op = "unload" /\ g.kext = Top.kext /\ g.at = "begin" /\ Pushes(f, g)
  BY DEF CallsFrom
<1>3. /\ DOMAIN stack' = 1 .. N + 1 /\ Len(stack') = N + 1 /\ stack'[N] = f /\ stack'[N + 1] = g
      /\ \A n \in 1 .. N - 1 : stack'[n] = stack[n]
  BY <1>1, <1>2 DEF Pushes
<1>4. ASSUME NEW n \in 1 .. N + 1
      PROVE  RemoveFits(stack[n])' /\ (stack'[n].op = "scan" => ScanFits(stack[n])')
  <2>1. CASE n = N
    <3>1. RemoveFits(f)' /\ f.op # "scan"
      BY <1>2 DEF RemoveFits
    <3> QED BY <1>3, <2>1, <3>1
  <2>2. CASE n = N + 1
    <3>1. RemoveFits(g)' /\ g.op # "scan"
      BY <1>2 DEF RemoveFits
    <3> QED BY <1>3, <2>2, <3>1
  <2>3. CASE n # N /\ n # N + 1
    <3>1. n \in 1 .. N - 1
      BY <1>1, <2>3
    <3>2. PICK h : h = stack[n] /\ stack'[n] = h
      BY <1>3, <3>1
    <3>3. h.op # "unload" /\ RemoveFits(h) /\ (h.op = "scan" => ScanFits(h) /\ h.at = "removed")
      BY <1>1, <3>1, <3>2, BelowRemoves DEF Removes, Removing
    <3>4. RemoveFits(h)' /\ (h.op = "scan" => ScanFits(h)')
      BY <3>3 DEF RemoveFits, ScanFits
    <3> QED BY <3>2, <3>4
  <2> QED BY <2>1, <2>2, <2>3
<1> QED BY <1>3, <1>4 DEF Removes

(* and the scan, or a load that failed, calls removeKext. *)
LEMMA RemoveCall ==
  ASSUME Typed, Control, Removes, ~Idle, NEW i, NEW k, CallsFrom("removed", i, "remove", k),
         Top.op = "request" \/ (Top.op = "scan" /\ i \in 1 .. Len(loadedKexts')), Len(loadedKexts') \in Nat
  PROVE  Removes'
<1>1. PICK N : /\ N = Len(stack) /\ N \in Nat /\ DOMAIN stack = 1 .. N /\ Top = stack[N] /\ N \in 1 .. N
               /\ \A j \in 1 .. N - 1 : j \in 1 .. N /\ j # N
  BY StackFacts, BelowTop DEF Typed
<1>2. PICK f, g : /\ f.op = Top.op /\ f.at = "removed" /\ f.i = i
                  /\ g.op = "remove" /\ g.at = "begin" /\ Pushes(f, g)
  BY DEF CallsFrom
<1>3. DOMAIN stack' = 1 .. N + 1 /\ stack'[N] = f /\ stack'[N + 1] = g
  BY <1>1, <1>2 DEF Pushes
<1>4. \A n \in 1 .. N + 1 : n = N \/ n = N + 1
  <2>1. \A n \in 1 .. N - 1 : FALSE
    BY <1>1, BelowRemoves DEF Removing
  <2>2. N \in Nat
    BY <1>1
  <2> QED BY <2>1, <2>2
<1>5. RemoveFits(f)' /\ RemoveFits(g)' /\ (f.op = "scan" => ScanFits(f)') /\ g.op # "scan"
  BY <1>2 DEF RemoveFits, ScanFits
<1> QED BY <1>3, <1>4, <1>5 DEF Removes

-----------------------------------------------------------------------------
(* The array has one kext less after an unload, *)
LEMMA UnloadShortens ==
  ASSUME Typed, Graph, Memory, Control, Removes, Unload, KeepsControl
  PROVE  byId' = byId /\ Len(loadedKexts') = Len(loadedKexts) - 1
<1>1. byId' = byId
  BY DEF Unload, Holders
<1>2. /\ loadedKexts \in Seq(Kexts) /\ loadedKexts' \in Seq(Kexts)
      /\ ToSet(loadedKexts) = loaded /\ ToSet(loadedKexts') = loaded \ {Top.kext} /\ Top.kext \in loaded
      /\ \A m, n \in DOMAIN loadedKexts : loadedKexts[m] = loadedKexts[n] => m = n
      /\ \A m, n \in DOMAIN loadedKexts' : loadedKexts'[m] = loadedKexts'[n] => m = n
  BY UnloadKeeps, ReleaseFacts DEF Typed, Memory, Listing
<1>3. PICK s, t : s = loadedKexts /\ t = loadedKexts'
  OBVIOUS
<1>4. Cardinality(loaded) = Len(s) /\ IsFiniteSet(loaded) /\ Cardinality(loaded \ {Top.kext}) = Len(t)
  <2>1. Cardinality(ToSet(s)) = Len(s) /\ IsFiniteSet(ToSet(s))
    BY <1>2, <1>3, ListingCount
  <2>2. Cardinality(ToSet(t)) = Len(t)
    BY <1>2, <1>3, ListingCount
  <2> QED BY <1>2, <1>3, <2>1, <2>2
<1>5. Cardinality(loaded \ {Top.kext}) = Cardinality(loaded) - 1
  BY <1>2, <1>4, FS_RemoveElement
<1> QED BY <1>1, <1>3, <1>4, <1>5

(* and is left alone otherwise. *)
LEMMA RemovalsSteady ==
  ASSUME Typed, Graph, Memory, Control, RemoveStep, ~Unload
  PROVE  loadedKexts' = loadedKexts
<1>1. Steady \/ Losing
  BY SteadySteps, LosingSteps DEF RemoveStep
<1> QED BY <1>1, LosesFacts DEF Steady, Losing

(* What nothing is linked against stays so between the check of the        *)
(* clients and the release.                                                *)
LEMMA UnloadStepRemoves ==
  ASSUME Typed, Graph, Memory, Control, Removes, UnloadBegins \/ Stop
  PROVE  Removes'
<1>1. ~Idle /\ Top.op = "unload" /\ Top.kext \in Kexts /\ Top \in FrameType
  BY AtFacts DEF UnloadBegins, Stop, Typed
<1>2. RemoveFits(Top)
  BY <1>1, StackFacts DEF Removes, Typed
<1>3. UNCHANGED <<byId, loadedKexts, deps, loaded>>
  BY DEF UnloadBegins, Stop, holders
<1>4. PICK k : k = Top.kext
  OBVIOUS
<1>5. k \in loaded /\ k \in Kexts /\ byId[IdOf[k]] = k
  BY <1>1, <1>2, <1>4 DEF RemoveFits
<1>6. CASE UnloadBegins
  <2>1. ~HasClients(k) /\ k \notin Components \cup {Kernel} /\ started' = started
    BY <1>4, <1>6 DEF UnloadBegins, Unloadable
  <2>2. k \in ToSet(loadedKexts)
    BY <1>5, LinksAreIn
  <2>3. \A j \in Kexts : k \notin ToSet(deps[j])
    BY <1>5, <2>1, <2>2, Unclaimed DEF Typed
  <2>4. CASE k \in started
    <3>1. Moves("stop", Top.i)
      BY <1>4, <1>6, <2>4, RemoveDoes
    <3>2. ASSUME NEW f, f.op = "unload", f.kext = k, f.at = "stop" PROVE RemoveFits(f)'
      BY <1>3, <1>5, <2>1, <2>3, <3>2 DEF RemoveFits
    <3> QED BY <1>1, <1>3, <1>4, <3>1, <3>2, UnloadMoves
  <2>5. CASE k \notin started
    <3>1. Moves("release", Top.i)
      BY <1>4, <1>6, <2>5, RemoveDoes
    <3>2. ASSUME NEW f, f.op = "unload", f.kext = k, f.at = "release" PROVE RemoveFits(f)'
      BY <1>3, <1>5, <2>1, <2>3, <2>5, <3>2 DEF RemoveFits
    <3> QED BY <1>1, <1>3, <1>4, <3>1, <3>2, UnloadMoves
  <2> QED BY <2>4, <2>5
<1>7. CASE Stop
  <2>1. Top.at = "stop" /\ k \notin started'
    BY <1>4, <1>7 DEF Stop, At
  <2>2. k \notin Components \cup {Kernel} /\ \A j \in Kexts : k \notin ToSet(deps[j])
    BY <1>1, <1>2, <1>4, <2>1 DEF RemoveFits
  <2>3. Moves("release", Top.i)
    BY <1>7, RemoveDoes
  <2>4. ASSUME NEW f, f.op = "unload", f.kext = k, f.at = "release" PROVE RemoveFits(f)'
    BY <1>3, <1>5, <2>1, <2>2, <2>4 DEF RemoveFits
  <2> QED BY <1>1, <1>3, <1>4, <2>3, <2>4, UnloadMoves
<1> QED BY <1>6, <1>7

(* The scan stays within the array. *)
LEMMA ScanStepRemoves ==
  ASSUME Typed, Graph, Memory, Control, Removes, ScanSkips \/ ScanRemoves \/ ScanRemoved \/ PassEnds
  PROVE  Removes'
<1>1. ~Idle /\ Top.op = "scan" /\ Top.op \in Removing /\ Top \in FrameType
  BY AtFacts DEF ScanSkips, ScanRemoves, ScanRemoved, PassEnds, Typed, Removing
<1>2. ScanFits(Top)
  BY <1>1, StackFacts DEF Removes, Typed
<1>3. PICK n, i : /\ n = Len(loadedKexts) /\ i = Top.i /\ n \in Nat /\ DOMAIN loadedKexts = 1 .. n
                  /\ loadedKexts' = loadedKexts
  BY RemovalsSteady, ToSetFacts
     DEF RemoveStep, Typed, ScanSkips, ScanRemoves, ScanRemoved, PassEnds, Unload, At
<1>4. Top.at = "next" => i \in 0 .. n
  BY <1>2, <1>3 DEF ScanFits
<1>5. Top.at = "removed" => i \in 1 .. n + 1
  BY <1>2, <1>3 DEF ScanFits
<1>6. ASSUME NEW j \in 0 .. n, Moves("next", j) PROVE Removes'
  BY <1>1, <1>3, <1>6, ScanNext
<1>7. CASE ScanSkips \/ ScanRemoved
  <2>1. Moves("next", i - 1)
    BY <1>3, <1>7, ScanDoes
  <2>2. (Top.at = "next" /\ i > 0) \/ Top.at = "removed"
    BY <1>3, <1>7 DEF ScanSkips, ScanRemoved, At
  <2>3. i - 1 \in 0 .. n
    <3>1. n \in Nat
      BY <1>3
    <3> QED BY <1>4, <1>5, <2>2, <3>1
  <2> QED BY <1>6, <2>1, <2>3
<1>8. CASE ScanRemoves
  <2>1. Top.at = "next" /\ i > 0
    BY <1>3, <1>8 DEF ScanRemoves, At
  <2>2. i \in 1 .. n
    <3>1. n \in Nat
      BY <1>3
    <3> QED BY <1>4, <2>1, <3>1
  <2>3. PICK k : k = loadedKexts[i]
    OBVIOUS
  <2>4. CallsFrom("removed", i, "remove", k)
    BY <1>3, <1>8, <2>2, <2>3, ScanDoes
  <2> QED BY <1>1, <1>3, <2>2, <2>4, RemoveCall
<1>9. CASE PassEnds
  <2>1. CASE Top.flag
    <3>1. Moves("next", n)
      BY <1>3, <1>9, <2>1, ScanDoes
    <3>2. n \in 0 .. n
      BY <1>3
    <3> QED BY <1>6, <3>1, <3>2
  <2>2. CASE ~Top.flag
    <3>1. Pops
      BY <1>9, <2>2, ScanDoes
    <3> QED BY <1>1, <1>3, <3>1, RemovesPop
  <2> QED BY <2>1, <2>2
<1> QED BY <1>7, <1>8, <1>9

(* removeKext, unload and the scan keep Removes. *)
LEMMA RemoveStepRemoves ==
  ASSUME Typed, Graph, Memory, Control, Removes, RemoveStep, KeepsControl
  PROVE  Removes'
<1>1. ~Idle /\ Top.op \in Removing
  BY StepOps
<1>2. Len(loadedKexts) \in Nat
  BY ToSetFacts DEF Typed
<1>3. ~Unload => loadedKexts' = loadedKexts
  BY RemovalsSteady
<1>4. ASSUME Pops, ~Unload, Top.op = "unload" => byId' = byId PROVE Removes'
  BY <1>1, <1>2, <1>3, <1>4, RemovesPop
<1>5. CASE RemoveRefused \/ UnloadRefused \/ StopFails
  <2>1. Pops /\ byId' = byId
    BY <1>5, RemoveDoes DEF Returns, RemoveRefused, UnloadRefused, StopFails, holders
  <2>2. ~Unload \/ loadedKexts' = loadedKexts
    BY <1>5 DEF RemoveRefused, UnloadRefused, StopFails, holders
  <2> QED BY <1>1, <1>2, <1>3, <2>1, <2>2, RemovesPop
<1>6. CASE RemoveBegins
  <2>1. Top.op = "remove" /\ Top.at = "begin" /\ ~Unload
    BY <1>6 DEF RemoveBegins, Unload, At
  <2>2. CASE Top.kext \in loaded
    <3>1. /\ CallsFrom("unloaded", Top.i, "unload", Top.kext)
          /\ UNCHANGED <<byId, loadedKexts, loaded>> /\ byId[IdOf[Top.kext]] = Top.kext
      BY <1>6, <2>2, RemoveDoes DEF RemoveBegins, holders
    <3>2. PICK i : i = Top.i
      OBVIOUS
    <3> QED BY <1>1, <2>1, <2>2, <3>1, <3>2, UnloadCall
  <2>3. CASE Top.kext \notin loaded
    <3>1. Pops
      BY <1>6, <2>3, RemoveDoes
    <3> QED BY <1>4, <2>1, <3>1
  <2> QED BY <2>2, <2>3
<1>7. CASE RemoveEnds \/ RequestReturns
  <2>1. Pops
    BY <1>7, RemoveDoes, ScanDoes DEF Returns
  <2>2. Top.op # "unload" /\ ~Unload
    BY <1>7 DEF RemoveEnds, RequestReturns, Unload, At
  <2> QED BY <1>4, <2>1, <2>2
<1>8. CASE UnloadBegins \/ Stop
  BY <1>8, UnloadStepRemoves
<1>9. CASE Unload
  <2>1. Pops
    BY <1>9, RemoveDoes DEF Returns
  <2>2. byId' = byId /\ Len(loadedKexts') = Len(loadedKexts) - 1 /\ Top.op = "unload"
    BY <1>9, UnloadShortens DEF Unload, At
  <2>3. Len(loadedKexts') \in Nat
    <3>1. loadedKexts' \in Seq(Kexts)
      BY <1>9, UnloadKeeps DEF Typed
    <3> QED BY <3>1
  <2> QED BY <1>1, <1>2, <2>1, <2>2, <2>3, RemovesPop
<1>10. CASE RequestFails
  <2>1. CallsFrom("removed", Top.i, "remove", Top.kext) /\ Top.op = "request" /\ ~Unload
    BY <1>10, ScanDoes DEF RequestFails, Unload, At
  <2>2. PICK i, k : i = Top.i /\ k = Top.kext
    OBVIOUS
  <2> QED BY <1>1, <1>2, <1>3, <2>1, <2>2, RemoveCall
<1>11. CASE ScanSkips \/ ScanRemoves \/ ScanRemoved \/ PassEnds
  BY <1>11, ScanStepRemoves
<1> QED BY <1>5, <1>6, <1>7, <1>8, <1>9, <1>10, <1>11 DEF RemoveStep

-----------------------------------------------------------------------------
(* The calls that an operation begins with, and what others do meanwhile.  *)
LEMMA NothingCalled ==
  ASSUME stack' = <<>>
  PROVE  Loads' /\ Resolves' /\ Starts' /\ Removes'
<1>1. DOMAIN stack' = {}
  OBVIOUS
<1> QED BY <1>1 DEF Loads, Resolves, Starts, Removes

(* A request of a load begins. *)
LEMMA RequestFits ==
  ASSUME NEW k, NEW opt, NEW flag, NEW mkext, Request(k, opt, flag, mkext)
  PROVE  Loads' /\ Resolves' /\ Starts' /\ Removes'
<1>1. PICK f, g : /\ f = [Frame("request", k) EXCEPT !.at = "loading", !.flag = flag, !.mkext = mkext]
                  /\ g = [Frame("load", k) EXCEPT !.opt = opt]
  OBVIOUS
<1>2. f.op = "request" /\ g.op = "load" /\ g.at = "begin"
  BY <1>1 DEF Frame
<1>3. stack' = <<f, g>>
  BY <1>1 DEF Request
<1>4. DOMAIN stack' = {1, 2} /\ stack'[1] = f /\ stack'[2] = g
  BY <1>3
<1>5. OpsIn(stack', Loading)
  BY <1>2, <1>4 DEF OpsIn, Loading
<1>6. Loads'
  BY <1>2, <1>4 DEF Loads, LoadFits
<1>7. Resolves' /\ Starts'
  BY <1>2, <1>4 DEF Resolves, Starts
<1> QED BY <1>5, <1>6, <1>7, NoRemoving

(* Whatever is begun fits, *)
LEMMA EntryFits ==
  ASSUME Typed, Graph, Memory, Control, Entry
  PROVE  Loads' /\ Resolves' /\ Starts' /\ Removes'
<1>1. ASSUME Idle, stack' = stack PROVE Loads' /\ Resolves' /\ Starts' /\ Removes'
  BY <1>1, NothingCalled DEF Idle
<1>2. ASSUME NEW k \in Kexts, RegisterBootKext(k) PROVE Loads' /\ Resolves' /\ Starts' /\ Removes'
  BY <1>1, <1>2 DEF RegisterBootKext
<1>3. ASSUME NEW i \in Ids, LookupKext(i) PROVE Loads' /\ Resolves' /\ Starts' /\ Removes'
  BY <1>1, <1>3 DEF LookupKext
<1>4. ASSUME NEW flags, SetEnabled(flags) PROVE Loads' /\ Resolves' /\ Starts' /\ Removes'
  BY <1>1, <1>4 DEF SetEnabled
<1>5. ASSUME NEW i \in Ids, RemoveKext(i) PROVE Loads' /\ Resolves' /\ Starts' /\ Removes'
  <2>1. PICK f : f = Frame("remove", byId[i])
    OBVIOUS
  <2>2. f.op = "remove" /\ f.at = "begin"
    BY <2>1 DEF Frame
  <2>3. stack' = <<f>>
    BY <1>5, <2>1 DEF RemoveKext
  <2>4. DOMAIN stack' = {1} /\ stack'[1] = f
    BY <2>3
  <2>5. OpsIn(stack', Removing) /\ Removes'
    BY <2>2, <2>4 DEF OpsIn, Removing, Removes, RemoveFits
  <2> QED BY <2>5, NoLoading
<1>6. ASSUME NEW i \in Ids, NEW opt \in Opts, NEW delay \in BOOLEAN, LoadKextWithIdentifier(i, opt, delay)
      PROVE  Loads' /\ Resolves' /\ Starts' /\ Removes'
  BY <1>6, RequestFits DEF LoadKextWithIdentifier
<1>7. ASSUME NEW S \in SUBSET Kexts, NEW k \in Kexts, NEW opt \in Opts, LoadFromMkext(S, k, opt)
      PROVE  Loads' /\ Resolves' /\ Starts' /\ Removes'
  <2>1. \E l : Request(l, opt, FALSE, TRUE)
    BY <1>7 DEF LoadFromMkext
  <2> QED BY <2>1, RequestFits
<1>8. CASE ConsiderUnloads
  <2>1. loadedKexts' = loadedKexts
    BY <1>8, FlushLoses, LosesFacts DEF ConsiderUnloads
  <2>2. PICK f : f = [Frame("scan", None) EXCEPT !.at = "next", !.i = Len(loadedKexts)]
    OBVIOUS
  <2>3. f.op = "scan" /\ f.at = "next" /\ f.i = Len(loadedKexts)
    BY <2>2 DEF Frame
  <2>4. stack' = <<f>>
    BY <1>8, <2>2 DEF ConsiderUnloads
  <2>5. DOMAIN stack' = {1} /\ stack'[1] = f
    BY <2>4
  <2>6. f.i \in 0 .. Len(loadedKexts')
    BY <2>1, <2>3, ToSetFacts DEF Typed
  <2>7. OpsIn(stack', Removing) /\ Removes'
    BY <2>3, <2>5, <2>6 DEF OpsIn, Removing, Removes, RemoveFits, ScanFits
  <2> QED BY <2>7, NoLoading
<1> QED BY <1>2, <1>3, <1>4, <1>5, <1>6, <1>7, <1>8 DEF Entry

(* and what others do meanwhile. *)
LEMMA OthersFit ==
  ASSUME Typed, Graph, Memory, Control, Removes, Others
  PROVE  Loads' /\ Resolves' /\ Starts' /\ Removes'
<1>1. OpsIn(stack, Removing) /\ stack' = stack
  BY DEF Others, OpsIn, Removing, ReleaseKext, FirstInstance, LastInstance
<1>2. Loads' /\ Resolves' /\ Starts'
  BY <1>1, NoLoading DEF OpsIn
<1>3. UNCHANGED <<byId, loadedKexts, loaded, started>> /\ \A k \in Kexts : ToSet(deps'[k]) \subseteq ToSet(deps[k])
  <2>1. ASSUME NEW k \in Kexts, FirstInstance(k) \/ LastInstance(k)
        PROVE  UNCHANGED <<byId, loadedKexts, deps, loaded, started>>
    BY <2>1 DEF FirstInstance, LastInstance, holders
  <2>2. ASSUME NEW k \in Kexts, ReleaseKext(k)
        PROVE  /\ UNCHANGED <<byId, loadedKexts, loaded, started>>
               /\ \A j \in Kexts : ToSet(deps'[j]) \subseteq ToSet(deps[j])
    <3>1. byId' = byId /\ loadedKexts' = loadedKexts /\ loaded' = loaded /\ started' = started
      BY <2>2 DEF ReleaseKext, Holders
    <3>2. PICK refs \in SUBSET Kexts : refs = held \ {k}
      BY DEF Typed
    <3>3. Loses
      BY <2>2, <3>2, SameLoses DEF ReleaseKext, Typed
    <3> QED BY <3>1, <3>3, LosesFacts
  <2> QED BY <2>1, <2>2 DEF Others
<1>4. Top' = Top
  BY <1>1 DEF Top
<1>5. \A f : RemoveFits(f) => RemoveFits(f)'
  BY <1>3 DEF RemoveFits
<1>6. \A f : ScanFits(f) => ScanFits(f)'
  BY <1>3, <1>4 DEF ScanFits
<1>7. Removes'
  BY <1>1, <1>5, <1>6 DEF Removes
<1> QED BY <1>2, <1>7

(* The invariant is inductive.                                             *)
LEMMA OperationFits ==
  ASSUME IInv, Operation, KeepsControl, Typed', Graph', Memory'
  PROVE  Loads' /\ Resolves' /\ Starts' /\ Removes'
<1> USE DEF IInv
<1>1. stack' \in Seq(FrameType)
  BY DEF KeepsControl
<1>2. CASE LoadStep
  BY <1>1, <1>2, LoadStepLoads, LoadStepBegins, LoadSide, NoRemoving
<1>3. CASE ResolveStep
  BY <1>1, <1>3, ResolveStepLoads, ResolveStepResolves, ResolveStepBegins, LoadSide, NoRemoving
<1>4. CASE StartStep
  BY <1>1, <1>4, StartStepLoads, StartStepBegins, StartStepStarts, LoadSide, NoRemoving
<1>5. CASE RemoveStep
  BY <1>5, RemoveStepRemoves, RemoveSide, NoLoading
<1> QED BY <1>2, <1>3, <1>4, <1>5, OperationSides

(* The invariant is inductive. *)
LEMMA InvKept ==
  ASSUME IInv, [Next]_vars
  PROVE  IInv'
<1>1. CASE Next
  <2>1. Typed' /\ Graph' /\ Memory'
    BY <1>1, DataKept
  <2>2. KeepsControl
    BY <1>1, ControlKept DEF IInv
  <2>3. Loads' /\ Resolves' /\ Starts' /\ Removes'
    BY <1>1, <2>1, <2>2, OperationFits, EntryFits, OthersFit DEF Next, IInv
  <2> QED BY <2>1, <2>2, <2>3 DEF IInv, KeepsControl
<1>2. CASE UNCHANGED vars
  <2>1. UNCHANGED <<byId, loadedKexts, deps, resolved, delayed, held, loaded, started, inUse, kmods, references,
                    nextTag, enabled, userLoads, stack, result>>
    BY <1>2 DEF vars, holders, kmodInfos, switches
  <2>2. Typed'
    BY <2>1 DEF IInv, Typed
  <2>3. Graph' /\ Memory'
    BY <2>1 DEF IInv, Graph, Memory, ReferencesCoverLinks
  <2>4. Top' = Top /\ (Idle' <=> Idle) /\ (Succeeded' <=> Succeeded)
    BY <2>1 DEF Top, Idle, Succeeded
  <2>5. Control'
    BY <2>1, <2>4 DEF IInv, Control
  <2>6. Loads'
    BY <2>1, <2>4 DEF IInv, Loads, LoadFits, Going
  <2>7. Resolves'
    BY <2>1, <2>4 DEF IInv, Resolves, ResolveFits
  <2>8. Starts'
    BY <2>1, <2>4 DEF IInv, Starts, StartFits, Tried, NothingToStart
  <2>9. Removes'
    BY <2>1, <2>4 DEF IInv, Removes, RemoveFits, ScanFits
  <2> QED BY <2>2, <2>3, <2>5, <2>6, <2>7, <2>8, <2>9 DEF IInv
<1> QED BY <1>1, <1>2

-----------------------------------------------------------------------------
(* It holds at the beginning. *)
LEMMA InitFits ==
  ASSUME Init
  PROVE  IInv
<1> USE LoadAssumption DEF LoadAssumption
<1>1. deps = [k \in Kexts |-> <<>>] /\ loadedKexts = <<Kernel>> /\ loaded = {Kernel} /\ stack = <<>>
      /\ resolved = {Kernel} \cup Components /\ started = {Kernel} /\ inUse = {}
  BY DEF Init
<1>2. \A k \in Kexts : deps[k] = <<>> /\ ToSet(deps[k]) = {}
  BY <1>1, EmptyToSet
<1>3. /\ loadedKexts \in Seq(Kexts) /\ Len(loadedKexts) = 1 /\ DOMAIN loadedKexts = {1} /\ loadedKexts[1] = Kernel
      /\ ToSet(loadedKexts) = {Kernel}
  <2>1. loadedKexts \in Seq(Kexts) /\ Len(loadedKexts) = 1 /\ DOMAIN loadedKexts = {1} /\ loadedKexts[1] = Kernel
    BY <1>1
  <2> QED BY <2>1 DEF ToSet
<1>4. Typed
  <2>1. byId \in [Ids -> Kexts \cup {None}]
    <3>1. \A i \in Ids : (\E k \in Prelinked \cup {Kernel} : IdOf[k] = i) =>
                           (CHOOSE k \in Prelinked \cup {Kernel} : IdOf[k] = i) \in Kexts
      OBVIOUS
    <3> QED BY <3>1 DEF Init
  <2>2. deps \in [Kexts -> Seq(Kexts)]
    BY <1>1, EmptyToSet
  <2>3. /\ kmods \in [kmod : Kexts \cup {None}, next : [Kexts -> Kexts \cup {None}]]
        /\ references \in [Kexts -> Int] /\ nextTag \in 0 .. InvalidTag
        /\ enabled \subseteq {"load", "unload"} /\ userLoads \in BOOLEAN /\ result \in {"success", "error"}
    <3>1. PICK next : next = [k \in Kexts |-> None] /\ kmods = [kmod |-> None, next |-> next]
      BY DEF Init
    <3>2. next \in [Kexts -> Kexts \cup {None}]
      BY <3>1
    <3>3. kmods \in [kmod : Kexts \cup {None}, next : [Kexts -> Kexts \cup {None}]]
      BY <3>1, <3>2
    <3>4. nextTag \in 0 .. InvalidTag
      BY DEF Init
    <3>5. references \in [Kexts -> Int]
      BY DEF Init
    <3>6. enabled \subseteq {"load", "unload"} /\ userLoads \in BOOLEAN /\ result \in {"success", "error"}
      BY DEF Init
    <3> QED BY <3>3, <3>4, <3>5, <3>6
  <2>4. resolved \subseteq Kexts /\ delayed \subseteq Kexts /\ held \subseteq Kexts /\ loaded \subseteq Kexts
    BY DEF Init
  <2>5. stack \in Seq(FrameType)
    BY <1>1
  <2> QED BY <1>3, <2>1, <2>2, <2>3, <2>4, <2>5 DEF Typed
<1>5. Graph
  <2>1. Ordered(deps)
    BY <1>2 DEF Ordered
  <2>2. Resolving(deps, resolved)
    BY <1>1, <1>2 DEF Resolving, Usable
  <2> QED BY <2>1, <2>2 DEF Graph
<1>6. Memory
  <2>1. Listing(loadedKexts, loaded, deps)
    BY <1>1, <1>2, <1>3 DEF Listing
  <2>2. Chaining(loadedKexts, kmods.kmod, kmods.next)
    <3>1. kmods.kmod = None
      BY DEF Init
    <3>2. \A n \in 3 .. 1 : FALSE
      OBVIOUS
    <3> QED BY <1>3, <3>1, <3>2 DEF Chaining
  <2>3. ReferencesCoverLinks
    <3>1. ASSUME NEW k \in loaded PROVE references[k] >= Cardinality(Clients(loaded, deps, k))
      <4>1. PICK S : S = Clients(loaded, deps, k)
        OBVIOUS
      <4>2. S = {}
        BY <1>1, <1>2, <4>1 DEF Clients
      <4>3. Cardinality(S) = 0
        BY <4>2, FS_EmptySet
      <4>4. references[k] = 0
        BY <1>1, <3>1 DEF Init
      <4> QED BY <4>1, <4>3, <4>4
    <3> QED BY <3>1, ReferencesRestated
  <2>4. loaded \subseteq Usable(resolved) /\ started \subseteq loaded /\ inUse \subseteq started
    BY <1>1 DEF Usable
  <2> QED BY <2>1, <2>2, <2>3, <2>4 DEF Memory
<1>7. DOMAIN stack = {} /\ Succeeded
  BY <1>1 DEF Init, Succeeded
<1>8. Control /\ Loads /\ Resolves /\ Starts /\ Removes
  BY <1>7 DEF Control, Loads, Resolves, Starts, Removes
<1> QED BY <1>4, <1>5, <1>6, <1>8 DEF IInv

(* In every state the calls under way, the links and the kexts in memory   *)
(* fit together.                                                           *)
THEOREM Invariant == Spec => []IInv
BY InitFits, InvKept, PTL DEF Spec

(* Every variable keeps to its values. *)
THEOREM Typing == Spec => []TypeOK
<1>1. ASSUME IInv PROVE TypeOK
  <2>1. Typed /\ Memory
    BY <1>1 DEF IInv
  <2>2. \A k \in Kexts : deps[k] \in Seq(Kexts)
    BY <2>1 DEF Typed
  <2>3. \A n \in DOMAIN stack : stack[n].op \in {"request", "load", "resolve", "start", "remove",
                                                 "unload", "scan"}
    BY <2>1, StackFacts DEF Typed, FrameType, Ops
  <2>4. loadedKexts # <<>>
    <3>1. 1 \in DOMAIN loadedKexts
      BY <2>1 DEF Memory, Listing
    <3>2. DOMAIN (<<>>) = {}
      OBVIOUS
    <3> QED BY <3>1, <3>2
  <2>5. kmods.kmod \in Kexts \cup {None} /\ kmods.next \in [Kexts -> Kexts \cup {None}]
    BY <2>1 DEF Typed
  <2> QED BY <2>1, <2>2, <2>3, <2>4, <2>5 DEF Typed, Memory, TypeOK
<1> QED BY <1>1, Invariant, PTL

(* sLoadedKexts has the kexts in memory, each once and after its           *)
(* libraries, and the list of kmod_info structs that debuggers follow has  *)
(* them in the same order, whatever is resolved, loaded, refused or        *)
(* removed on the way.                                                     *)
THEOREM ListingIsRight == Spec => []LibrariesComeFirst
<1>1. ASSUME IInv PROVE LibrariesComeFirst
  <2>1. /\ loadedKexts \in Seq(Kexts) /\ Listing(loadedKexts, loaded, deps)
        /\ Chaining(loadedKexts, kmods.kmod, kmods.next)
        /\ kmods \in [kmod : Kexts \cup {None}, next : [Kexts -> Kexts \cup {None}]]
    BY <1>1 DEF IInv, Typed, Memory
  <2>2. ToSet(loadedKexts) = loaded /\ Len(loadedKexts) = Cardinality(loaded)
    <3>1. \A m, n \in DOMAIN loadedKexts : loadedKexts[m] = loadedKexts[n] => m = n
      BY <2>1 DEF Listing
    <3>2. ToSet(loadedKexts) = loaded
      BY <2>1 DEF Listing
    <3> QED BY <2>1, <3>1, <3>2, ListingCount
  <2>3. \A n \in DOMAIN loadedKexts :
          ToSet(deps[loadedKexts[n]]) \subseteq {loadedKexts[m] : m \in 1 .. n - 1}
    <3> SUFFICES ASSUME NEW n \in DOMAIN loadedKexts, NEW k \in ToSet(deps[loadedKexts[n]])
                 PROVE  \E m \in 1 .. n - 1 : k = loadedKexts[m]
      OBVIOUS
    <3> QED BY <2>1 DEF Listing
  <2>4. loadedKexts # <<>>
    <3>1. 1 \in DOMAIN loadedKexts
      BY <2>1 DEF Listing
    <3>2. DOMAIN (<<>>) = {}
      OBVIOUS
    <3> QED BY <3>1, <3>2
  <2>5. KmodList = Reverse(Tail(loadedKexts))
    BY <2>1, <2>4, ChainIsFollowed
  <2> QED BY <2>2, <2>3, <2>5 DEF LibrariesComeFirst
<1> QED BY <1>1, Invariant, PTL

(* No kexts keep each other alive in a circle, whatever libraries they     *)
(* declare: resolveDependencies links a kext only to what does not reach   *)
(* it.                                                                     *)
THEOREM Acyclic == Spec => []NoRetainCycle
<1>1. ASSUME IInv PROVE NoRetainCycle
  BY <1>1, OrderedHasNoCycle DEF IInv, Typed, Graph, NoRetainCycle
<1> QED BY <1>1, Invariant, PTL

(* reference_count is never below the number of kexts in memory that are   *)
(* linked against one, whatever failed in between.                         *)
THEOREM Counting == Spec => []ReferencesCoverLinks
<1>1. IInv => ReferencesCoverLinks
  BY DEF IInv, Memory
<1> QED BY <1>1, Invariant, PTL

(* A kext is never resolved, loaded, started or removed on behalf of       *)
(* itself, but to be told at once: the recursion over dependencies ends.   *)
THEOREM EndOfRecursion == Spec => []RecursionEnds
<1>1. ASSUME IInv, NEW m \in DOMAIN stack, NEW n \in DOMAIN stack,
             m < n, stack[m].op = stack[n].op, stack[m].kext = stack[n].kext
      PROVE  n = Len(stack) /\ Top.at = "begin"
  <2>1. Above(stack[n].op, stack[n].op) /\ WellPlaced(stack[n]) /\ (n < Len(stack) => Calls(stack[n], stack[n + 1]))
    BY <1>1 DEF IInv, Control
  <2>2. stack[n].op \in {"load", "resolve", "start"}
    BY <2>1 DEF Above
  <2>3. stack[n].op = "resolve" /\ stack[n].at = "begin"
    BY <1>1, <2>2 DEF IInv, Loads, Resolves, Starts
  <2>4. ~(n < Len(stack))
    BY <2>1, <2>3 DEF Calls
  <2>5. PICK N : N = Len(stack) /\ DOMAIN stack = 1 .. N /\ N \in Nat
    BY <1>1, StackFacts DEF IInv, Typed
  <2>6. n = N
    BY <2>4, <2>5
  <2>7. Top = stack[N]
    BY <2>5 DEF Top, Last
  <2> QED BY <2>3, <2>5, <2>6, <2>7
<1>2. IInv => RecursionEnds
  BY <1>1 DEF RecursionEnds
<1> QED BY <1>2, Invariant, PTL

-----------------------------------------------------------------------------
(* The steps of KextLifecycle.                                             *)
Links == [k \in Kexts |-> IF k \in loaded THEN ToSet(deps[k]) ELSE {}]

(* The links of the kexts in memory. *)
LEMMA SameLinks ==
  ASSUME loaded' = loaded, \A k \in loaded : deps'[k] = deps[k]
  PROVE  Links' = Links
BY DEF Links

(* Most steps change nothing of the lifecycle. *)
LEMMA StuttersAre ==
  ASSUME UNCHANGED <<loaded, started>>, \A k \in loaded : deps'[k] = deps[k]
  PROVE  UNCHANGED Lifecycle!vars
<1>1. Links' = Links
  BY SameLinks
<1> QED BY <1>1 DEF Lifecycle!vars, Links

(* A kext enters, *)
LEMMA LoadRefines ==
  ASSUME NEW k \in Kexts \ loaded, loaded' = loaded \cup {k}, UNCHANGED <<deps, started>>,
         ToSet(deps[k]) \subseteq loaded
  PROVE  Lifecycle!Load(k)
<1>1. Links'[k] \subseteq loaded
  BY DEF Links
<1>2. Links' = [Links EXCEPT ![k] = Links'[k]]
  BY DEF Links
<1> QED BY <1>1, <1>2 DEF Lifecycle!Load, Links

(* starts, *)
LEMMA StartRefines ==
  ASSUME NEW k \in loaded, k \in Kexts, loaded \subseteq Kexts, IsExecutable(k),
         started' = started \cup {k}, UNCHANGED <<loaded, deps>>,
         \A j \in ToSet(deps[k]) : j \in loaded /\ Tried(j) /\ ToSet(deps[j]) \subseteq Kexts
  PROVE  Lifecycle!Start(k)
<1>1. PICK passive : passive = {l \in Kexts : ~IsExecutable(l)}
  OBVIOUS
<1>2. Links[k] = ToSet(deps[k]) /\ \A j \in ToSet(deps[k]) : Links[j] = ToSet(deps[j])
  BY DEF Links
<1>3. ASSUME NEW j \in Links[k] \ (started \cup passive) PROVE Links[j] \ passive # {}
  <2>1. j \in ToSet(deps[k]) /\ j \in Kexts /\ Links[j] = ToSet(deps[j])
    BY <1>2, <1>3
  <2>2. ~NothingToStart(j)
    BY <1>1, <1>3, <2>1 DEF NothingToStart
  <2>3. PICK l \in ToSet(deps[j]) : IsExecutable(l)
    BY <2>1, <2>2 DEF Tried
  <2> QED BY <1>1, <2>1, <2>3
<1>4. k \in loaded \ passive /\ Links' = Links
  BY <1>1, SameLinks
<1> QED BY <1>1, <1>3, <1>4 DEF Lifecycle!Start, Links

(* stops, *)
LEMMA StopRefines ==
  ASSUME NEW k \in Kexts, k # Kernel, started' = started \ {k}, UNCHANGED <<loaded, deps>>,
         loaded \subseteq Kexts, \A j \in Kexts : k \notin ToSet(deps[j])
  PROVE  Lifecycle!Stop(k)
<1>1. {j \in loaded : k \in Links[j]} = {}
  BY DEF Links
<1>2. Links' = Links
  BY SameLinks
<1> QED BY <1>1, <1>2 DEF Lifecycle!Stop, Lifecycle!Clients, Links

(* and leaves. *)
LEMMA UnloadRefines ==
  ASSUME NEW k \in Kexts, k \notin started, started' = started, loaded' = loaded \ {k},
         loaded \subseteq Kexts, \A j \in loaded' : deps'[j] = deps[j],
         \A j \in Kexts : k \notin ToSet(deps[j])
  PROVE  Lifecycle!Unload(k)
<1>1. {j \in loaded : k \in Links[j]} = {}
  BY DEF Links
<1>2. Links' = [Links EXCEPT ![k] = {}]
  BY DEF Links
<1> QED BY <1>1, <1>2 DEF Lifecycle!Unload, Lifecycle!Clients, Links

(* All the libraries of a kext whose function is called are seen to.       *)
LEMMA AllTried ==
  ASSUME Typed, Control, Starts, StartFunc, NEW j \in ToSet(deps[Top.kext])
  PROVE  Tried(j)
<1>1. ~Idle /\ Top.op = "start" /\ Top.at \in {"dependencies", "dependency"} /\ Succeeded
      /\ Unstarted(Top.kext, Top.i) = {}
  BY DEF StartFunc, Starting, At
<1>2. PICK k, n : k = Top.kext /\ n = Top.i
  OBVIOUS
<1>3. /\ k \in Kexts /\ TriedBefore(k, n)
      /\ Top.at = "dependencies" => n = 0
      /\ Top.at = "dependency" => n \in DOMAIN deps[k] /\ Tried(deps[k][n])
  BY <1>1, <1>2, StartingFacts
<1>4. DOMAIN deps[k] \subseteq Nat \ {0}
  BY <1>3 DEF Typed
<1>5. PICK i \in DOMAIN deps[k] : j = deps[k][i]
  BY <1>2 DEF ToSet
<1>6. n \in Nat
  BY <1>1, <1>3, <1>4
<1>7. CASE i < n
  BY <1>3, <1>5, <1>7 DEF TriedBefore
<1>8. CASE i = n
  BY <1>1, <1>3, <1>4, <1>5, <1>8
<1>9. CASE i > n
  BY <1>1, <1>2, <1>5, <1>9 DEF Unstarted, Tried, NothingToStart
<1> QED BY <1>4, <1>5, <1>6, <1>7, <1>8, <1>9

(* Every step is one of KextLifecycle, or none. *)
LEMMA StepRefines ==
  ASSUME IInv, [Next]_vars
  PROVE  [Lifecycle!Next]_Lifecycle!vars
<1> USE DEF IInv
<1>1. loaded \subseteq Kexts /\ deps \in [Kexts -> Seq(Kexts)] /\ loaded \subseteq Usable(resolved)
  BY DEF Typed, Memory
<1>2. ASSUME Steady, started' = started PROVE UNCHANGED Lifecycle!vars
  BY <1>2, StuttersAre DEF Steady
<1>3. ASSUME Losing PROVE UNCHANGED Lifecycle!vars
  BY <1>3, StuttersAre, LosesFacts DEF Losing
<1>4. ASSUME Next PROVE [Lifecycle!Next]_Lifecycle!vars
  <2>1. KeepsControl
    BY <1>4, ControlKept
  <2>2. CASE StartFunc
    <3>1. PICK k : k = Top.kext
      OBVIOUS
    <3>2. ~Idle /\ Top.op = "start" /\ Top.at \in {"dependencies", "dependency"}
      BY <2>2 DEF StartFunc, Starting, At
    <3>3. k \in loaded /\ k \in Kexts /\ IsExecutable(k) /\ UNCHANGED <<loaded, deps>>
      BY <2>2, <3>1, <3>2, StartingFacts DEF StartFunc, holders
    <3>4. \A j \in ToSet(deps[k]) : j \in loaded /\ Tried(j) /\ ToSet(deps[j]) \subseteq Kexts
      BY <1>1, <2>2, <3>1, <3>3, AllTried, LinksAreIn
    <3>5. started' = started \cup {k} \/ started' = started
      BY <2>2, <3>1 DEF StartFunc
    <3>6. started' = started => UNCHANGED Lifecycle!vars
      BY <3>3, StuttersAre
    <3>7. started' = started \cup {k} => Lifecycle!Start(k)
      BY <1>1, <3>3, <3>4, StartRefines
    <3> QED BY <3>3, <3>5, <3>6, <3>7 DEF Lifecycle!Next
  <2>3. CASE Stop
    <3>1. PICK k : k = Top.kext
      OBVIOUS
    <3>2. ~Idle /\ Top.op = "unload" /\ Top.at = "stop" /\ k \in Kexts /\ Top = stack[Len(stack)]
          /\ Len(stack) \in DOMAIN stack
      BY <2>3, <3>1, AtFacts DEF Stop, Typed
    <3>3. k # Kernel /\ \A j \in Kexts : k \notin ToSet(deps[j])
      BY <3>1, <3>2 DEF Removes, RemoveFits
    <3>4. started' = started \ {k} /\ UNCHANGED <<loaded, deps>>
      BY <2>3, <3>1 DEF Stop, holders
    <3> QED BY <1>1, <3>2, <3>3, <3>4, StopRefines DEF Lifecycle!Next
  <2>4. CASE Unload
    <3>1. PICK k : k = Top.kext
      OBVIOUS
    <3>2. k \in loaded /\ k \notin started /\ \A j \in Kexts : k \notin ToSet(deps[j])
      BY <2>4, <3>1, ReleaseFacts
    <3>3. loaded' = loaded \ {k} /\ started' = started /\ \A j \in loaded' : deps'[j] = deps[j]
      BY <2>1, <2>4, <3>1, UnloadKeeps
    <3>4. k \in Kexts
      BY <1>1, <3>2
    <3> QED BY <1>1, <3>2, <3>3, <3>4, UnloadRefines DEF Lifecycle!Next
  <2>5. CASE LoadExecutable
    <3>1. PICK k : k = Top.kext
      OBVIOUS
    <3>2. k \in Kexts \ loaded /\ ToSet(deps[k]) \subseteq loaded
      BY <2>5, <3>1, ReadyFacts DEF LoadExecutable
    <3>3. loaded' = loaded \cup {k} /\ UNCHANGED <<deps, started>>
      BY <2>1, <2>5, <3>1, LoadKeeps
    <3> QED BY <3>2, <3>3, LoadRefines DEF Lifecycle!Next
  <2>6. CASE LoadExecutableFails
    BY <2>1, <2>6, FailureKeeps, StuttersAre
  <2>7. CASE LibraryResolved
    <3>1. CASE Succeeded
      <4>1. Top.kext \notin loaded
        BY <1>1, <2>7, AddedFacts DEF LibraryResolved
      <4>2. \A k \in Kexts : k # Top.kext => deps'[k] = deps[k]
        BY <2>1, <2>7, <3>1, LibraryKeeps
      <4>3. UNCHANGED <<loaded, started>>
        BY <2>7 DEF LibraryResolved
      <4> QED BY <1>1, <4>1, <4>2, <4>3, StuttersAre
    <3>2. CASE ~Succeeded
      BY <2>7, <3>2, StuttersAre DEF LibraryResolved
    <3> QED BY <3>1, <3>2
  <2>8. CASE ResolveEnds
    BY <2>8, StuttersAre DEF ResolveEnds
  <2>9. CASE Entry \/ Others
    <3>1. started' = started
      BY <2>9 DEF Entry, Others, RegisterBootKext, RemoveKext, LookupKext, LoadKextWithIdentifier,
             LoadFromMkext,
                  SetEnabled, ConsiderUnloads, ReleaseKext, FirstInstance, LastInstance
    <3>2. Steady \/ Losing
      BY <2>9, SteadySteps, LosingSteps DEF Entry, Others
    <3> QED BY <1>2, <1>3, <3>1, <3>2
  <2>10. CASE Operation /\ ~StartFunc /\ ~Stop /\ ~Unload /\ ~LoadExecutable /\ ~LoadExecutableFails
              /\ ~LibraryResolved /\ ~ResolveEnds
    <3>1. started' = started
      BY <2>10 DEF Operation, ResolveAtOnce, ResolveBegins, ResolveLibrary, LoadRefused, LoadNothing,
                   LoadResolves, LoadDependency, DependencyFailed, ResolveFailed, LoadStarts, LoadEnds,
                   RequestFails, RequestReturns, StartAtOnce, StartBegins, StartDependency,
                   DependencyNotStarted, RemoveRefused, RemoveBegins, RemoveEnds, UnloadRefused, UnloadBegins,
                   StopFails, ScanSkips, ScanRemoves, ScanRemoved, PassEnds
    <3>2. Steady \/ Losing
      BY <2>10, SteadySteps, LosingSteps DEF Operation
    <3> QED BY <1>2, <1>3, <3>1, <3>2
  <2> QED BY <1>4, <2>2, <2>3, <2>4, <2>5, <2>6, <2>7, <2>8, <2>9, <2>10 DEF Next
<1>5. ASSUME UNCHANGED vars PROVE UNCHANGED Lifecycle!vars
  BY <1>5, StuttersAre DEF vars, holders
<1> QED BY <1>4, <1>5

(* So is the beginning. *)
LEMMA InitRefines ==
  Init => Lifecycle!Init
<1>1. SUFFICES ASSUME Init PROVE Lifecycle!Init
  OBVIOUS
<1>2. Links = [k \in Kexts |-> {}]
  BY <1>1, EmptyToSet DEF Init, Links
<1> QED BY <1>1, <1>2 DEF Init, Lifecycle!Init, Links

(* The recursive load, start, stop and unload of OSKext.cpp implement      *)
(* KextLifecycle: a kext enters after what it is linked against, none of   *)
(* which stops or leaves before it.                                        *)
THEOREM Refinement == Spec => ImplementsLifecycle
<1>1. Init => Lifecycle!Init
  BY InitRefines
<1>2. IInv /\ [Next]_vars => [Lifecycle!Next]_Lifecycle!vars
  BY StepRefines
<1> QED BY <1>1, <1>2, Invariant, PTL DEF Spec, ImplementsLifecycle, Lifecycle!Spec

=============================================================================
