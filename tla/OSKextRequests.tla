--------------------------- MODULE OSKextRequests ---------------------------
(***************************************************************************)
(* The requests of kexts to user space (src/libkern/src/OSKext.cpp): the   *)
(* queue that kextd fetches, the callback records that wait for its        *)
(* answers, and the scan that times them out and unloads idle kexts.       *)
(*                                                                         *)
(* sKextLock is held throughout an operation, and through the code of a    *)
(* kext that it calls: the start and stop functions, the callbacks, and    *)
(* what terminates with its services.  That code may make and cancel       *)
(* requests of its own, since the lock is recursive: the calls are frames  *)
(* of a stack.  The timer of the scan, which is often put off, is left out:*)
(* a scan may begin whenever the lock is free.                             *)
(***************************************************************************)
EXTENDS Integers, Sequences, SequencesExt, FiniteSets

CONSTANTS
  Kexts,
  InvalidTag,   \* kOSKextRequestTagInvalid
  Wanted,       \* bound: the kexts that somebody asks kextd to load
  Asking,       \* bound: the kexts that ask for resources
  May,          \* what may fail in this instance, see Events
  None

(* Memory, a start or stop function or the termination of services fails;  *)
(* a kext asks for a resource while its services terminate; a callback     *)
(* cancels requests.                                                       *)
Events == {"memory", "start", "stop", "services", "late", "cancel"}

ASSUME RequestsAssumption ==
  InvalidTag \in Nat \ {0} /\ May \subseteq Events /\ None \notin Kexts

Tags == 0 .. InvalidTag - 1

VARIABLES
  kexts,      \* absent, loaded, starting, started or stopping: the flags
  queue,      \* sKernelRequests, without order: see Resource and Load
  posted,     \* sPostedKextLoadIdentifiers
  told,       \* kextd was pinged since it last fetched the queue
  kextdActive,
  records,    \* sRequestCallbackRecords
  nextTag,    \* sNextRequestTag
  owner,      \* the kext that has the callback of each request
  ended,      \* how each request ended, "no" before
  down,       \* willShutdown was called: all that may be disabled is
  stack,      \* the calls under way, the innermost last
  disturbed,  \* a callback of this scan cancelled a request
  panicked

kextd == <<queue, posted, told, kextdActive>>
requests == <<records, nextTag, owner, ended>>
vars == <<kexts, kextd, requests, down, stack, disturbed, panicked>>

Resource(t) == [what |-> "resource", of |-> t]
Load(k) == [what |-> "load", of |-> k]

Init ==
  /\ kexts = [k \in Kexts |-> "absent"]
  /\ queue = {} /\ posted = {} /\ told = FALSE /\ kextdActive = FALSE
  /\ records = <<>> /\ nextTag = 0
  /\ owner = [t \in Tags |-> None] /\ ended = [t \in Tags |-> "no"]
  /\ down = FALSE /\ stack = <<>> /\ disturbed = FALSE /\ panicked = FALSE

-----------------------------------------------------------------------------
(* The stack.  In the frame of a scan i is the next record, marked is what *)
(* it marked as stale, and flag says that it may yet remove a kext; else   *)
(* flag is that of removeKext, and whether a start or stop is part of a    *)
(* load or unload.                                                         *)
Frame(op, k, flag) == [op |-> op, kext |-> k, flag |-> flag, i |-> 0, marked |-> {}]

Idle == stack = <<>>
Top == Last(stack)
In(op) == ~Idle /\ Top.op = op
Pop == stack' = Front(stack)
Become(op) == stack' = [stack EXCEPT ![Len(stack)].op = op]
Scanning == \E n \in DOMAIN stack : stack[n].op = "scan"

(* The code of kext k may call into OSKext: from a thread of its own, or   *)
(* because it was called.                                                  *)
Runs(k) ==
  IF Idle THEN kexts[k] = "started"
  ELSE Top.op \in {"start", "stop", "callback", "services"} /\ Top.kext = k

Running == {k \in Kexts : kexts[k] \in {"starting", "started", "stopping"}}

RecordsOf(k) == {i \in DOMAIN records : owner[records[i].tag] = k}

-----------------------------------------------------------------------------
(* pingKextd, which finds the port of an active kextd. *)
PingKextd(requested) == told' = (requested # {} /\ (told \/ kextdActive))

(* Mutant: the change is not announced to the new kextd. *)
BugSetKextdActive(active) ==
  /\ Idle /\ kextdActive' = active
  /\ UNCHANGED <<kexts, queue, posted, told, requests, down, stack, disturbed, panicked>>

SetKextdActive(active) ==
  /\ Idle /\ kextdActive' = active
  /\ told' = (told \/ (active /\ queue # {}))
  /\ UNCHANGED <<kexts, queue, posted, requests, down, stack, disturbed, panicked>>

-----------------------------------------------------------------------------
(* requestResource, with a callback in kext k. *)
Refused(k) ==
  k \notin Asking \/ down \/ k \notin Running \/ kexts[k] = "stopping" \/ nextTag = InvalidTag

(* The tag is used up even if memory is short; the rest is undone then. *)
RequestFails(k) ==
  /\ "memory" \in May
  /\ Runs(k) /\ ~Refused(k)
  /\ nextTag' = nextTag + 1
  /\ UNCHANGED <<kexts, kextd, records, owner, ended, down, stack, disturbed, panicked>>

RequestResource(k) ==
  /\ Runs(k) /\ ~Refused(k) /\ (In("services") => "late" \in May)
  /\ nextTag' = nextTag + 1
  /\ records' = Append(records, [tag |-> nextTag, stale |-> FALSE, late |-> In("services")])
  /\ owner' = [owner EXCEPT ![nextTag] = k]
  /\ queue' = queue \cup {Resource(nextTag)} /\ PingKextd(queue')
  /\ UNCHANGED <<kexts, posted, kextdActive, ended, down, stack, disturbed, panicked>>

(* dequeueCallbackForRequestTag removes the record of a request; how says  *)
(* how the request ended.                                                  *)
Dequeue(t, how) ==
  /\ \E i \in DOMAIN records : records[i].tag = t /\ records' = RemoveAt(records, i)
  /\ ended' = [ended EXCEPT ![t] = how]
  /\ UNCHANGED <<nextTag, owner>>

Recorded(t) == \E i \in DOMAIN records : records[i].tag = t

CancelRequest(t) ==
  /\ Recorded(t) /\ Runs(owner[t])
  /\ In("callback") => "cancel" \in May
  /\ Dequeue(t, "cancelled")
  /\ disturbed' = (disturbed \/ Scanning)
  /\ UNCHANGED <<kexts, kextd, down, stack, panicked>>

(* Mutant: the callback is looked up by address alone. *)
BugDispatchResource(t, below) ==
  /\ Dequeue(t, "called")
  /\ stack' = Append(below, Frame("callback", owner[t], FALSE))

(* dispatchResource: the record goes first, whether or not the callback    *)
(* can be called.                                                          *)
DispatchResource(t, below) ==
  IF owner[t] \in Running
  THEN Dequeue(t, "called") /\ stack' = Append(below, Frame("callback", owner[t], FALSE))
  ELSE Dequeue(t, "dropped") /\ stack' = below

CallbackReturns ==
  /\ In("callback") /\ Pop
  /\ UNCHANGED <<kexts, kextd, requests, down, disturbed, panicked>>

-----------------------------------------------------------------------------
(* loadKextWithIdentifier for a kext that is not registered, when it may   *)
(* be deferred to user space.                                              *)
CallerMayLoad == Idle \/ (\E k \in Kexts : Runs(k))

DeferLoad(k) ==
  /\ CallerMayLoad /\ k \in Wanted /\ kexts[k] = "absent" /\ ~down
  /\ queue' = queue \cup (IF k \in posted THEN {} ELSE {Load(k)})
  /\ posted' = posted \cup {k}
  /\ PingKextd(queue')
  /\ UNCHANGED <<kexts, kextdActive, requests, down, stack, disturbed, panicked>>

(* The request is queued but could not be noted as posted: no ping.        *)
DeferLoadFails(k) ==
  /\ "memory" \in May
  /\ CallerMayLoad /\ k \in Wanted /\ kexts[k] = "absent" /\ ~down /\ k \notin posted
  /\ queue' = queue \cup {Load(k)}
  /\ UNCHANGED <<kexts, posted, told, kextdActive, requests, down, stack, disturbed,
                 panicked>>

(* willShutdown: everything is disabled.  Left out: kextd is asked to exit.*)
WillShutdown ==
  /\ Idle /\ ~down
  /\ down' = TRUE
  /\ UNCHANGED <<kexts, kextd, requests, stack, disturbed, panicked>>

(* handleRequest: kextd fetches the queue.  It is gone even if the answer  *)
(* cannot be serialized or copied out, and kextd then answers nothing.     *)
GetKernelRequests ==
  /\ Idle /\ queue # {}
  /\ queue' = {} /\ posted' = {} /\ told' = FALSE
  /\ UNCHANGED <<kexts, kextdActive, requests, down, stack, disturbed, panicked>>

(* handleRequest: kextd answers a request that it fetched, or once more.   *)
SendResource(t) ==
  /\ Idle /\ t < nextTag /\ Resource(t) \notin queue
  /\ IF Recorded(t) THEN DispatchResource(t, stack) ELSE UNCHANGED <<requests, stack>>
  /\ UNCHANGED <<kexts, kextd, down, disturbed, panicked>>

-----------------------------------------------------------------------------
(* A kext is loaded and started; or started by kextd's request.            *)
Start(k, loading) ==
  /\ Idle /\ ~down
  /\ kexts[k] = (IF loading THEN "absent" ELSE "loaded")
  /\ kexts' = [kexts EXCEPT ![k] = "starting"]
  /\ stack' = <<Frame("start", k, loading)>>
  /\ UNCHANGED <<kextd, requests, down, disturbed, panicked>>

StartSucceeds ==
  /\ In("start")
  /\ kexts' = [kexts EXCEPT ![Top.kext] = "started"]
  /\ Pop
  /\ UNCHANGED <<kextd, requests, down, disturbed, panicked>>

StartFails ==
  /\ In("start") /\ "start" \in May
  /\ kexts' = [kexts EXCEPT ![Top.kext] = "loaded"]
  /\ Become("cancel")
  /\ UNCHANGED <<kextd, requests, down, disturbed, panicked>>

(* invokeOrCancelRequestCallbacks removes the records of the kext, the     *)
(* last one first.                                                         *)
CancelRecord ==
  /\ In("cancel")
  /\ \E i \in RecordsOf(Top.kext) :
       /\ \A j \in RecordsOf(Top.kext) : j <= i
       /\ Dequeue(records[i].tag, "cancelled")
  /\ UNCHANGED <<kexts, kextd, down, stack, disturbed, panicked>>

(* A kext that was being loaded is removed then. *)
CancelEnds ==
  /\ In("cancel") /\ RecordsOf(Top.kext) = {}
  /\ IF Top.flag THEN Become("remove") ELSE Pop
  /\ UNCHANGED <<kexts, kextd, requests, down, disturbed, panicked>>

(* handleRequest: kextd stops a kext, whatever it is waiting for. *)
StopKext(k) ==
  /\ Idle /\ kexts[k] = "started"
  /\ kexts' = [kexts EXCEPT ![k] = "stopping"]
  /\ stack' = <<Frame("stop", k, FALSE)>>
  /\ UNCHANGED <<kextd, requests, down, disturbed, panicked>>

StopSucceeds ==
  /\ In("stop")
  /\ kexts' = [kexts EXCEPT ![Top.kext] = "loaded"]
  /\ IF Top.flag THEN Become("unload") ELSE Pop
  /\ UNCHANGED <<kextd, requests, down, disturbed, panicked>>

StopFails ==
  /\ In("stop") /\ "stop" \in May
  /\ kexts' = [kexts EXCEPT ![Top.kext] = "started"]
  /\ Pop
  /\ UNCHANGED <<kextd, requests, down, disturbed, panicked>>

(* removeKext, which may terminate the kext's services first. *)
RemoveKext(k, terminate) ==
  /\ Idle /\ kexts[k] # "absent"
  /\ stack' = <<Frame("remove", k, terminate)>>
  /\ UNCHANGED <<kexts, kextd, requests, down, disturbed, panicked>>

(* Mutant: requests in flight do not keep a kext. *)
BugRemoveBegins ==
  /\ In("remove") /\ Become(IF Top.flag THEN "services" ELSE "unload")
  /\ UNCHANGED <<kexts, kextd, requests, down, disturbed, panicked>>

RemoveBegins ==
  /\ In("remove")
  /\ IF RecordsOf(Top.kext) # {} THEN Pop ELSE Become(IF Top.flag THEN "services" ELSE "unload")
  /\ UNCHANGED <<kexts, kextd, requests, down, disturbed, panicked>>

(* IOCatalogue terminated the services, or it could not. *)
ServicesTerminated ==
  /\ In("services")
  /\ Become("unload") \/ ("services" \in May /\ Pop)
  /\ UNCHANGED <<kexts, kextd, requests, down, disturbed, panicked>>

UnloadRefused ==
  /\ In("unload") /\ down /\ Pop
  /\ UNCHANGED <<kexts, kextd, requests, down, disturbed, panicked>>

UnloadStops ==
  /\ In("unload") /\ ~down /\ kexts[Top.kext] = "started"
  /\ kexts' = [kexts EXCEPT ![Top.kext] = "stopping"]
  /\ stack' = [stack EXCEPT ![Len(stack)].op = "stop", ![Len(stack)].flag = TRUE]
  /\ UNCHANGED <<kextd, requests, down, disturbed, panicked>>

Unload ==
  /\ In("unload") /\ ~down /\ kexts[Top.kext] = "loaded"
  /\ kexts' = [kexts EXCEPT ![Top.kext] = "absent"]
  /\ Pop
  /\ UNCHANGED <<kextd, requests, down, disturbed, panicked>>

-----------------------------------------------------------------------------
(* _OSKextConsiderUnloads, first pass: over the records, backwards. *)
ScanBegins ==
  /\ Idle
  /\ stack' = <<[Frame("scan", None, TRUE) EXCEPT !.i = Len(records)]>>
  /\ disturbed' = FALSE
  /\ UNCHANGED <<kexts, kextd, requests, down, panicked>>

OneDown == [stack EXCEPT ![Len(stack)].i = @ - 1]

(* The record is not there: the code calls a method of NULL. *)
ScanPanics ==
  /\ In("scan") /\ Top.i > Len(records)
  /\ panicked' = TRUE
  /\ UNCHANGED <<kexts, kextd, requests, down, stack, disturbed>>

(* Mutant: a copy of the record is marked. *)
BugScanMarks ==
  /\ In("scan") /\ Top.i \in DOMAIN records /\ ~records[Top.i].stale
  /\ stack' = [OneDown EXCEPT ![Len(stack)].marked = @ \cup {records[Top.i].tag}]
  /\ UNCHANGED <<kexts, kextd, requests, down, disturbed, panicked>>

ScanMarks ==
  /\ In("scan") /\ Top.i \in DOMAIN records /\ ~records[Top.i].stale
  /\ records' = [records EXCEPT ![Top.i].stale = TRUE]
  /\ stack' = [OneDown EXCEPT ![Len(stack)].marked = @ \cup {records[Top.i].tag}]
  /\ UNCHANGED <<kexts, kextd, nextTag, owner, ended, down, disturbed, panicked>>

(* Mutant: after a timeout the same index is looked at again. *)
BugScanCalls ==
  /\ In("scan") /\ Top.i \in DOMAIN records /\ records[Top.i].stale
  /\ DispatchResource(records[Top.i].tag, IF Top.i = Len(records) THEN OneDown ELSE stack)
  /\ UNCHANGED <<kexts, kextd, down, disturbed, panicked>>

(* invokeRequestCallback with kOSKextReturnTimeout. *)
ScanCalls ==
  /\ In("scan") /\ Top.i \in DOMAIN records /\ records[Top.i].stale
  /\ DispatchResource(records[Top.i].tag, OneDown)
  /\ UNCHANGED <<kexts, kextd, down, disturbed, panicked>>

(* No memory for the number that says so: the record stays.  *)
ScanCallFails ==
  /\ "memory" \in May
  /\ In("scan") /\ Top.i \in DOMAIN records /\ records[Top.i].stale
  /\ stack' = OneDown
  /\ UNCHANGED <<kexts, kextd, requests, down, disturbed, panicked>>

(* autounloadKext; what else keeps a kext is in OSKextLoad.  Bound: a scan *)
(* tries to remove one kext.                                               *)
ScanRemoves(k) ==
  /\ In("scan") /\ Top.i = 0 /\ Top.flag
  /\ kexts[k] # "absent" /\ RecordsOf(k) = {}
  /\ stack' = Append([stack EXCEPT ![Len(stack)].flag = FALSE], Frame("remove", k, FALSE))
  /\ UNCHANGED <<kexts, kextd, requests, down, disturbed, panicked>>

ScanEnds ==
  /\ In("scan") /\ Top.i = 0
  /\ disturbed' = FALSE
  /\ Pop
  /\ UNCHANGED <<kexts, kextd, requests, down, panicked>>

-----------------------------------------------------------------------------
Operation ==
  /\ ~panicked
  /\ \/ CallbackReturns \/ StartSucceeds \/ StartFails \/ CancelRecord \/ CancelEnds
     \/ StopSucceeds \/ StopFails
     \/ RemoveBegins \/ ServicesTerminated \/ UnloadRefused \/ UnloadStops \/ Unload
     \/ ScanPanics \/ ScanMarks \/ ScanCalls \/ ScanCallFails \/ ScanEnds
     \/ \E k \in Kexts : ScanRemoves(k)

(* What kexts, kextd and the kernel ask for. *)
Request ==
  /\ ~panicked
  /\ \/ \E k \in Kexts : RequestFails(k) \/ RequestResource(k)
     \/ \E k \in Kexts : DeferLoad(k) \/ DeferLoadFails(k) \/ StopKext(k)
     \/ \E k \in Kexts, flag \in BOOLEAN : Start(k, flag) \/ RemoveKext(k, flag)
     \/ \E t \in Tags : CancelRequest(t) \/ SendResource(t)
     \/ \E active \in BOOLEAN : SetKextdActive(active)
     \/ GetKernelRequests \/ WillShutdown \/ ScanBegins

Next == Operation \/ Request

Spec == Init /\ [][Next]_vars

(* The thread that has the lock goes on, and memory comes back some time. *)
FairSpec == Spec /\ WF_vars(Operation) /\ SF_vars(ScanCalls)

-----------------------------------------------------------------------------
(* The values every variable may take. *)
TypeOK ==
  /\ kexts \in [Kexts -> {"absent", "loaded", "starting", "started", "stopping"}]
  /\ queue \subseteq {Resource(t) : t \in Tags} \cup {Load(k) : k \in Kexts}
  /\ posted \subseteq Kexts /\ nextTag \in 0 .. InvalidTag
  /\ told \in BOOLEAN /\ kextdActive \in BOOLEAN /\ disturbed \in BOOLEAN /\ panicked \in BOOLEAN
  /\ \A i \in DOMAIN records : records[i].tag \in 0 .. nextTag - 1
  /\ owner \in [Tags -> Kexts \cup {None}]
  /\ ended \in [Tags -> {"no", "called", "cancelled", "dropped"}]
  /\ down \in BOOLEAN

(* No kext leaves memory while a callback in it may be called ("make sure  *)
(* there are no resource requests in flight"), but for requests made while *)
(* its services terminate: those come after the check in removeKext.       *)
RecordsHaveCode ==
  \A i \in DOMAIN records :
    kexts[owner[records[i].tag]] = "absent" => records[i].late

(* While kextd is active it has been told of what is queued, except for a  *)
(* load that could not be noted as posted.                                 *)
QueuedIsTold ==
  kextdActive /\ ~told => \A r \in queue : r.what = "load" /\ r.of \notin posted

(* A record is never timed out by the scan that marked it stale, and the   *)
(* scan never looks past the end of the array, unless a callback of the    *)
(* same scan cancels a request: the array then shrinks under the index.    *)
TimeoutSpansScans ==
  \A n \in DOMAIN stack : stack[n].op = "scan" /\ ~disturbed =>
    /\ ~panicked /\ stack[n].i <= Len(records)
    /\ \A i \in 1 .. stack[n].i : records[i].tag \notin stack[n].marked

Ledger ==
  INSTANCE RequestLedger
    WITH running <- Running,
         outcome <- [t \in Tags |-> IF Recorded(t) THEN "pending"
                                    ELSE IF ended[t] = "no" THEN "none" ELSE ended[t]]

(* Each request ends once, by its callback only while its kext runs. *)
ImplementsLedger == Ledger!Spec

(* A request does not wait for ever if the scan goes on being made. *)
RequestsEnd ==
  \A t \in Tags : []<>In("scan")
                  => (Recorded(t) ~> (~Recorded(t) \/ panicked))
=============================================================================
