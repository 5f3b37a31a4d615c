--------------------------- MODULE OSKextReports ---------------------------
(***************************************************************************)
(* What user space is told about kexts (OSKext::handleRequest with         *)
(* copyLoadedKextInfo, copyLoadedKextInfoByUUID and copyInfo), added to    *)
(* OSKextSources: which kexts an answer is about, and what it says of      *)
(* each.  A query is not without consequences: the UUID of a kext is in    *)
(* its executable, which is extracted from its archive for it, and then    *)
(* is no longer part of the archive, or is lost if memory is short.        *)
(*                                                                         *)
(* The other predicates of handleRequest are in OSKextRequests (start,     *)
(* stop, resources, the queue) or are operations here (unload).            *)
(***************************************************************************)
EXTENDS OSKextSources

CONSTANTS
  Keys,    \* what may be asked about a kext, see Value
  Queries  \* the queries: the kexts that they name, or None for all of them,
           \* by identifier or by UUID, and the keys that they ask for

(* A kext with code has a UUID of its own, for which its bundle stands. *)
ASSUME QueriesAssumption ==
  \A q \in Queries :
    /\ q.by \in {"id", "uuid"} /\ q.keys \subseteq Keys /\ q.prelinked \in BOOLEAN
    /\ q.prelinked => q.keys # {}
    /\ q.of = None \/ q.of \in Seq(IF q.by = "id" THEN Ids ELSE Bundles)

VARIABLE reply  \* the answer on its way to user space: a set, or None

reportVars == <<vars, reply>>

-----------------------------------------------------------------------------
(* copyInfo: of what is asked for, what there is to say about copy n.      *)
HasImage(n) == IsLoaded(n) \/ copies[n].executable = "linked"

(* copyUUID looks into the linked executable, or else into the one to be   *)
(* linked: getExecutable has extracted it, or removed it.                  *)
HasUUID(cs, n) == Of[BundleOf(n)].code /\ (HasImage(n) \/ cs[n].executable # "none")

(* Who holds copy n: the table, the loaded kexts, its dependents. *)
RetainCount(n) ==
  Cardinality({i \in Ids : table[i] = n}) + Cardinality({k \in 1 .. Len(loaded) : loaded[k] = n})
  + Cardinality({m \in Copies : n \in copies[m].needs})

(* Mutant: the reference of the loaded kexts is told as well. *)
BugReferences(n) == RetainCount(n) - 1

References(n) == RetainCount(n) - 1 - (IF IsLoaded(n) THEN 1 ELSE 0)

Dependencies(n) == {IdOf(m) : m \in copies[n].needs}

(* An executable that has not been linked is nowhere: it has no header, no *)
(* address and no size to tell of.                                         *)
Told(cs, n) ==
  {k \in Keys : k \in {"headers", "address"} => Of[BundleOf(n)].code /\ HasImage(n)}
    \ ((IF HasUUID(cs, n) THEN {} ELSE {"uuid"})
       \cup (IF copies[n].needs = {} THEN {"dependencies"} ELSE {}))

Value(n, key) ==
  CASE key = "version" -> VersionOf(n)
    [] key = "prelinked" -> copies[n].prelinked
    [] key = "dependencies" -> Dependencies(n)
    [] key = "references" -> References(n)
    [] key = "id" -> IdOf(n)
    [] OTHER -> BundleOf(n)

(* No keys are all keys, and the identifier is told in any case. *)
CopyInfo(cs, n, keys) ==
  LET asked == IF keys = {} THEN Keys ELSE keys
  IN  [key \in {"id"} \cup (asked \cap Told(cs, n)) |-> Value(n, key)]

-----------------------------------------------------------------------------
(* The answer: a kext for whose information there is no memory is left     *)
(* out, and without memory for the answer there is none.                   *)
Answer(infos) ==
  \/ reply' = infos
  \/ "memory" \in May /\ \E left \in SUBSET infos : reply' = infos \ left
  \/ "memory" \in May /\ reply' = None

(* copyLoadedKextInfo goes through sKextsByID, and no list is all of them. *)
Listed(q) ==
  {n \in {table[i] : i \in IF q.of \in {None, <<>>} THEN Ids ELSE ToSet(q.of)} \ {0} :
     q.prelinked \/ IsLoaded(n)}

(* What getExecutable makes of the copies it has to extract, except those  *)
(* in failed.                                                              *)
Extracted(opened, failed) ==
  [n \in Copies |->
     IF n \notin opened THEN copies[n]
     ELSE [copies[n] EXCEPT !.executable = IF n \in failed THEN "none" ELSE "plain",
                            !.buffer = "none"]]

CopyLoadedKextInfo(q) ==
  LET opened == {n \in Listed(q) : /\ q.keys = {} \/ "uuid" \in q.keys
                                   /\ Of[BundleOf(n)].code /\ ~HasImage(n)
                                   /\ copies[n].executable = "packed"}
  IN  \E failed \in SUBSET opened :
        /\ failed # {} => "memory" \in May
        /\ copies' = Extracted(opened, failed)
        /\ Answer({CopyInfo(copies', n, q.keys) : n \in Listed(q)})

(* copyLoadedKextInfoByUUID goes through sLoadedKexts, and strikes a UUID  *)
(* off the list when it is found.  How many there were is not counted      *)
(* anew, so that the next kext that is not on the list is compared with    *)
(* what follows its end: there is nothing, and the kernel panics.          *)
ByUUID(q) ==
  LET all == q.of \in {None, <<>>}
      state[k \in 0 .. Len(loaded)] ==
        IF k = 0 THEN [left |-> q.of, found |-> {}, panic |-> FALSE]
        ELSE LET s == state[k - 1]
                 uuid == BundleOf(loaded[k])
             IN  CASE s.panic \/ (~all /\ s.left = <<>>) -> s
                   [] all -> [s EXCEPT !.found = @ \cup {loaded[k]}]
                   [] ~all /\ Contains(s.left, uuid) ->
                        [s EXCEPT !.left = RemoveFirst(s.left, uuid), !.found = @ \cup {loaded[k]}]
                   [] OTHER -> [s EXCEPT !.panic = Len(s.left) < Len(q.of)]
  IN  state[Len(loaded)]

CopyLoadedKextInfoByUUID(q) ==
  IF ByUUID(q).panic THEN op' = "panic" /\ reply' = None
  ELSE op' = op /\ Answer({CopyInfo(copies, n, q.keys) : n \in ByUUID(q).found})

HandleRequest(q) ==
  /\ Idle /\ reply = None
  /\ IF q.by = "id" THEN CopyLoadedKextInfo(q) /\ UNCHANGED op
     ELSE CopyLoadedKextInfoByUUID(q) /\ UNCHANGED copies
  /\ UNCHANGED <<table, loaded, switches, others, at, todo, wanted,
                 matching, work, swept>>

(* The answer is handed over with the lock still held. *)
Return == reply # None /\ reply' = None /\ UNCHANGED vars

(* The machine has stopped. *)
Panicked == op = "panic" /\ UNCHANGED reportVars

ReportInit == Init /\ reply = None

ReportNext ==
  \/ reply = None /\ Next /\ UNCHANGED reply
  \/ \E q \in Queries : HandleRequest(q)
  \/ Return
  \/ Panicked

ReportSpec == ReportInit /\ [][ReportNext]_reportVars

-----------------------------------------------------------------------------
(* Registration is a table of what each identifier finds, and what is told *)
(* of a kext is what the table has: the version of the copy that is found, *)
(* and how many kexts depend on it.                                        *)
Table == INSTANCE KextTable WITH
  found <- [i \in Ids |-> IF table[i] = 0 THEN None ELSE table[i]],
  version <- [i \in Ids |-> IF table[i] = 0 THEN 0 ELSE VersionOf(table[i])],
  kept <- {i \in Ids : table[i] # 0 /\ IsLoaded(table[i])},
  built <- {i \in Ids : table[i] # 0 /\ copies[table[i]].prelinked},
  users <- [i \in Ids |-> Cardinality({m \in Copies : table[i] \in copies[m].needs})],
  offers <- {p.from : p \in catalogue}, late <- userLoads, struck <- unloaded,
  told <- IF reply = None THEN None
          ELSE {Restrict(info, DOMAIN info \cap {"id", "version", "references"}) : info \in reply}

ImplementsKextTable == Table!Spec
=============================================================================
