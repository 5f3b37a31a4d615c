---------------------------- MODULE OSKextImages ----------------------------
(***************************************************************************)
(* The memory that kexts run in (src/libkern/src/OSKext.cpp): the pages    *)
(* the linker asks for, or that came with a prelinked kernel; the wrapper  *)
(* linkedExecutable that gives them back when it is released; the          *)
(* protection and the wiring of segments; and what is freed early: the     *)
(* relocations of a kext that was slid, and the link edit segment of a     *)
(* kext nobody links against, once DTrace has read it.                     *)
(*                                                                         *)
(* A page is the unit, a segment a page.  All operations hold sKextLock;   *)
(* OSKextSummaries composes them with the tables that are read without it. *)
(***************************************************************************)
EXTENDS Integers, Sequences, SequencesExt, FiniteSetsExt

CONSTANTS
  Kexts,
  Prelinked,    \* those that come with a prelinked kernel
  Libraries,    \* those that others may link against: isLibrary
  PartsOf,      \* the pages of each, in order
  Pages,        \* the pages of the kext map: 1 .. n
  Faults,       \* what may fail in this instance
  None, Lost    \* no kext; the owner of pages nothing leads to any more

Parts == {"text", "data", "linkedit", "relocs"}

(* Link edit is the last segment, with the relocations at its end: a kext  *)
(* for which that is not so keeps both, and is one without them here.      *)
IsLaidOut(parts) ==
  /\ parts[1] = "text"
  /\ \E code, kept \in DOMAIN parts : \A i \in DOMAIN parts :
       /\ parts[i] \in {"text", "data"} <=> i <= code
       /\ parts[i] # "relocs" <=> i <= kept

ASSUME ImageAssumption ==
  /\ Prelinked \cup Libraries \subseteq Kexts
  /\ IsFiniteSet(Pages) /\ Pages = 1 .. Cardinality(Pages)
  /\ \A k \in Kexts : PartsOf[k] \in Seq(Parts) /\ PartsOf[k] # <<>> /\ IsLaidOut(PartsOf[k])
  /\ Faults \subseteq {"memory", "link", "vm", "start", "stop"}
  /\ {None, Lost} \cap Kexts = {}

VARIABLES
  memory,       \* the kext whose image each page was allocated for
  image,        \* linkedExecutable: the pages that its release frees
  info,         \* kmod_info: address and size, as everybody reads them
  wired,        \* the pages that are wired,
  protected,    \* and those whose protection is set
  prelinked,    \* flags.prelinked
  probed,       \* flags.dtraceInitialized
  corrupt       \* history: pages were freed that belonged to nobody

imageVars == <<memory, image, info, wired, protected, prelinked, probed, corrupt>>

NoImage == [at |-> 0, size |-> 0]
PagesOf(r) == r.at .. (r.at + r.size - 1)
PartAt(k, p) == PartsOf[k][p - image[k].at + 1]

ImageInit ==
  /\ memory = [p \in Pages |-> None]
  /\ image = [k \in Kexts |-> NoImage]
  /\ info = [k \in Kexts |-> NoImage]
  /\ wired = {} /\ protected = {}
  /\ prelinked = {} /\ probed = {}
  /\ corrupt = FALSE

(* kext_alloc: the first place where n pages fit, or none. *)
Places(n) ==
  LET fits == {a \in Pages : /\ a + n - 1 \in Pages
                             /\ \A p \in a .. (a + n - 1) : memory[p] = None}
  IN  {a \in fits : \A b \in fits : a <= b}

(* kext_free, and osdata_kext_free for a whole image. *)
Freed(mem, ps) == [p \in Pages |-> IF p \in ps THEN None ELSE mem[p]]
FreePages(ps) ==
  /\ memory' = Freed(memory, ps)
  /\ corrupt' = (corrupt \/ \E p \in ps : memory[p] = None)
  /\ wired' = wired \ ps /\ protected' = protected \ ps

(* releasing linkedExecutable of k; kmod_info lies in these pages. *)
ReleaseImage(k) ==
  /\ FreePages(PagesOf(image[k]))
  /\ image' = [image EXCEPT ![k] = NoImage]
  /\ info' = [info EXCEPT ![k] = NoImage]

-----------------------------------------------------------------------------
(* The pages of k without the relocations, which are the end of link edit. *)
Trimmed(k) == Cardinality({i \in DOMAIN PartsOf[k] : PartsOf[k][i] # "relocs"})

(* slidePrelinkedExecutable: relocations are freed after they are applied, *)
(* if the smaller wrapper can be made.                                     *)
Slid(r, k) ==
  {[r EXCEPT !.size = Trimmed(k)]} \cup (IF "memory" \in Faults THEN {r} ELSE {})

(* initWithPrelinkedInfoDict and the setAllVMAttributes that follows it:   *)
(* pages at the address the kext was linked for, a wrapper, the slide, and *)
(* the protection of the segments.  Without memory for the wrapper nobody  *)
(* knows the pages any more; a kext that cannot be slid is released.       *)
InitWithPrelinkedInfoDict(k) ==
  LET n == Len(PartsOf[k])
  IN  /\ k \in Prelinked \ prelinked /\ image[k] = NoImage
      /\ \E at \in Places(n) :
           LET whole == [at |-> at, size |-> n]
           IN  \/ /\ "memory" \in Faults
                  /\ memory' = [p \in Pages |-> IF p \in PagesOf(whole) THEN Lost ELSE memory[p]]
                  /\ UNCHANGED <<image, info, wired, protected, prelinked, probed, corrupt>>
               \/ \E r \in Slid(whole, k) :
                    /\ memory' = [p \in Pages |-> IF p \in PagesOf(r) THEN k ELSE memory[p]]
                    /\ image' = [image EXCEPT ![k] = r]
                    /\ info' = [info EXCEPT ![k] = r]
                    /\ protected' = protected \cup PagesOf(r)
                    /\ prelinked' = prelinked \cup {k}
                    /\ UNCHANGED <<wired, probed, corrupt>>

(* kern_allocate, called by the linker: pages, and the wrapper that        *)
(* becomes linkedExecutable; without the wrapper the pages are freed.      *)
KernAllocate(k) ==
  \E at \in Places(Trimmed(k)) :
    LET r == [at |-> at, size |-> Trimmed(k)]
    IN  /\ memory' = [p \in Pages |-> IF p \in PagesOf(r) THEN k ELSE memory[p]]
        /\ image' = [image EXCEPT ![k] = r]
        /\ UNCHANGED <<info, wired, protected, prelinked, probed, corrupt>>

(* kxld_link_file has put the kmod_info into the image. *)
KxldLinkFile(k) ==
  /\ info' = [info EXCEPT ![k] = image[k]]
  /\ UNCHANGED <<memory, image, wired, protected, prelinked, probed, corrupt>>

(* segmentShouldBeWired: all but link edit. *)
ShouldBeWired(k) == {p \in PagesOf(image[k]) : PartAt(k, p) \in {"text", "data"}}

(* Mutant: the pages that a prelinked kext already has protected are taken *)
(* to be wired as well. *)
BugSetVMAttributes(k, ps) ==
  /\ wired' = wired \cup (IF k \in prelinked THEN {} ELSE ps \cap ShouldBeWired(k))
  /\ protected' = protected \cup (IF k \in prelinked THEN {} ELSE ps)
  /\ UNCHANGED <<memory, image, info, prelinked, probed, corrupt>>

(* setVMAttributes, as far as the segments ps: a prelinked kext is         *)
(* protected already, and only wired.                                      *)
SetVMAttributes(k, ps) ==
  /\ wired' = wired \cup (ps \cap ShouldBeWired(k))
  /\ protected' = protected \cup (IF k \in prelinked THEN {} ELSE ps)
  /\ UNCHANGED <<memory, image, info, prelinked, probed, corrupt>>

(* loadExecutable fails and lets the image go; OSKext::free does it for a  *)
(* kext that was not loaded.                                               *)
DropImage(k) ==
  /\ ReleaseImage(k)
  /\ prelinked' = prelinked \ {k}
  /\ UNCHANGED probed

(* validateKextMapping and verifySegmentMapping, before start: the start   *)
(* function lies within the kext, is executable, and every page that is    *)
(* not link edit is backed.                                                *)
MappingIsValid(k) ==
  /\ info[k] # NoImage
  /\ info[k].at \in protected
  /\ \A p \in ShouldBeWired(k) : memory[p] # None

-----------------------------------------------------------------------------
(* Mutant: the old wrapper still frees everything when it is released. *)
BugJettison(ks) ==
  LET tail(k) == {p \in PagesOf(image[k]) : PartAt(k, p) \notin {"text", "data"}}
  IN  /\ FreePages(UNION {tail(k) : k \in ks})
      /\ info' = [k \in Kexts |-> IF k \in ks THEN [info[k] EXCEPT !.size = @ - Cardinality(tail(k))]
                                  ELSE info[k]]
      /\ UNCHANGED image

(* jettisonLinkeditSegment for the kexts ks: a smaller wrapper, kmod_info  *)
(* shrunk, the old wrapper told not to free, and the link edit pages freed.*)
Jettison(ks) ==
  LET tail(k) == {p \in PagesOf(image[k]) : PartAt(k, p) \notin {"text", "data"}}
      shrunk(r, k) == IF k \in ks THEN [r EXCEPT !.size = @ - Cardinality(tail(k))] ELSE r
  IN  /\ FreePages(UNION {tail(k) : k \in ks})
      /\ image' = [k \in Kexts |-> shrunk(image[k], k)]
      /\ info' = [k \in Kexts |-> shrunk(info[k], k)]

(* registerWithDTrace for each of ks: a wrapper that cannot be made keeps  *)
(* the link edit segment, and so do relocations that could not be freed:   *)
(* the size of link edit was reduced for them, the size of the kext not.   *)
RegisterWithDTrace(ks) ==
  /\ probed' = probed \cup ks
  /\ \E kept \in SUBSET (ks \ Libraries) :
       /\ "memory" \in Faults \/ kept = {}
       /\ Jettison({k \in ks \ (probed \cup Libraries \cup kept) : image[k].size = Trimmed(k)})
  /\ UNCHANGED prelinked

(* The end of unload: unregisterWithDTrace has been told, the segments are *)
(* unwired and the image is freed.                                         *)
UnloadImage(k) ==
  /\ ReleaseImage(k)
  /\ probed' = probed \ {k} /\ prelinked' = prelinked \ {k}
=============================================================================
