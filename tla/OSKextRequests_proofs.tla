------------------------ MODULE OSKextRequests_proofs ------------------------
(***************************************************************************)
(* Proofs about OSKextRequests for every set of kexts, every number of     *)
(* request tags and everything that may fail.                              *)
(***************************************************************************)
EXTENDS OSKextRequests, SequenceLemmas, TLAPS

Record == [tag : Tags, stale : BOOLEAN, late : BOOLEAN]

FrameType ==
  [op : {"start", "stop", "callback", "services", "remove", "unload", "cancel", "scan"},
   kext : Kexts \cup {None}, flag : BOOLEAN, i : Nat, marked : SUBSET Tags]

(* What TypeOK says, and what the arrays hold. *)
Typed ==
  /\ kexts \in [Kexts -> {"absent", "loaded", "starting", "started", "stopping"}]
  /\ queue \subseteq {Resource(t) : t \in Tags} \cup {Load(k) : k \in Kexts}
  /\ posted \subseteq Kexts /\ nextTag \in 0 .. InvalidTag
  /\ told \in BOOLEAN /\ kextdActive \in BOOLEAN /\ disturbed \in BOOLEAN /\ panicked \in BOOLEAN
  /\ records \in Seq(Record) /\ stack \in Seq(FrameType)
  /\ owner \in [Tags -> Kexts \cup {None}]
  /\ ended \in [Tags -> {"no", "called", "cancelled", "dropped"}]
  /\ down \in BOOLEAN

(* A tag is given out once: there is one record of it, made by the kext    *)
(* that owns it, and nothing is known of a tag that was not given out.     *)
TagsAreFresh ==
  /\ \A i \in DOMAIN records : records[i].tag < nextTag /\ owner[records[i].tag] \in Kexts
  /\ \A i, j \in DOMAIN records : records[i].tag = records[j].tag => i = j
  /\ \A t \in Tags : t >= nextTag => ended[t] = "no"

(* Calls are nested in a scan only, which calls a callback or removes a    *)
(* kext without terminating its services.                                  *)
StackIsShallow ==
  /\ Len(stack) <= 2
  /\ \A n \in DOMAIN stack : stack[n].op # "scan" => stack[n].kext \in Kexts
  /\ \A n \in DOMAIN stack : stack[n].op = "scan" => n = 1
  /\ Len(stack) = 2 => /\ stack[1].op = "scan"
                       /\ stack[2].op \in {"callback", "remove", "unload", "stop"}
                       /\ stack[2].op = "remove" => ~stack[2].flag
  /\ \A n \in DOMAIN stack : stack[n].op = "stop" => kexts[stack[n].kext] = "stopping"

(* The calls in which a kext is going, after removeKext has looked for     *)
(* requests in flight.                                                     *)
Leaving(frame) == frame.op \in {"services", "unload"} \/ (frame.op = "stop" /\ frame.flag)

(* Nothing is in flight then but what was asked for meanwhile. *)
LeavingHasOnlyLate ==
  \A n \in DOMAIN stack : Leaving(stack[n]) =>
    \A i \in DOMAIN records : owner[records[i].tag] = stack[n].kext => records[i].late

IInv ==
  /\ Typed
  /\ TagsAreFresh
  /\ StackIsShallow
  /\ LeavingHasOnlyLate
  /\ RecordsHaveCode
  /\ QueuedIsTold
  /\ TimeoutSpansScans

-----------------------------------------------------------------------------
(* What a call on top of a scan does to the stack. *)
LEMMA NestFacts ==
  ASSUME NEW S, NEW s \in Seq(S), Len(s) = 1, NEW e \in S, NEW f \in S
  PROVE  /\ Append([s EXCEPT ![1] = e], f) \in Seq(S)
         /\ Len(Append([s EXCEPT ![1] = e], f)) = 2
         /\ DOMAIN Append([s EXCEPT ![1] = e], f) = {1, 2}
         /\ Append([s EXCEPT ![1] = e], f)[1] = e
         /\ Append([s EXCEPT ![1] = e], f)[2] = f
<1> DEFINE b == [s EXCEPT ![1] = e]
<1>1. b \in Seq(S) /\ Len(b) = 1 /\ b[1] = e
  BY ExceptSeq
<1>2. ASSUME NEW t \in Seq(S), Len(t) = 1
      PROVE  /\ Append(t, f) \in Seq(S) /\ Len(Append(t, f)) = 2 /\ DOMAIN Append(t, f) = {1, 2}
             /\ Append(t, f)[1] = t[1] /\ Append(t, f)[2] = f
  <2>1. Append(t, f) \in Seq(S)
    OBVIOUS
  <2>2. Len(Append(t, f)) = 2
    <3>1. Len(Append(t, f)) = Len(t) + 1
      BY AppendProperties
    <3>2. Len(t) + 1 = 2
      BY <1>2
    <3> QED BY <3>1, <3>2, Zenon
  <2>3. DOMAIN Append(t, f) = {1, 2}
    BY <2>1, <2>2, LenProperties
  <2>4. (\A i \in 1 .. Len(t) : Append(t, f)[i] = t[i]) /\ Append(t, f)[Len(t) + 1] = f
    BY AppendProperties
  <2>5. 1 \in 1 .. Len(t) /\ Len(t) + 1 = 2
    BY <1>2
  <2> QED BY <2>1, <2>2, <2>3, <2>4, <2>5, Zenon
<1> HIDE DEF b
<1>3. /\ Append(b, f) \in Seq(S) /\ Len(Append(b, f)) = 2 /\ DOMAIN Append(b, f) = {1, 2}
      /\ Append(b, f)[1] = b[1] /\ Append(b, f)[2] = f
  BY <1>1, <1>2, Zenon
<1> QED BY <1>1, <1>3, Zenon DEF b

USE RequestsAssumption

-----------------------------------------------------------------------------
LEMMA InitInvariant == Init => IInv
BY DEF Init, IInv, Typed, TagsAreFresh, StackIsShallow, LeavingHasOnlyLate, RecordsHaveCode,
       QueuedIsTold, TimeoutSpansScans, Tags

(* How the calls move the stack. *)
LEMMA TopFacts ==
  ASSUME IInv, ~Idle
  PROVE  /\ Len(stack) \in 1 .. 2 /\ Top = stack[Len(stack)] /\ Top \in FrameType
         /\ Len(stack) \in DOMAIN stack
         /\ Top.op # "scan" => Top.kext \in Kexts
<1>1. stack \in Seq(FrameType) /\ stack # <<>> /\ Len(stack) <= 2
  BY DEF IInv, Typed, StackIsShallow, Idle
<1>2. Len(stack) \in Nat \ {0}
  BY <1>1, EmptySeq
<1>3. Len(stack) \in 1 .. 2 /\ Len(stack) \in DOMAIN stack
  <2>1. DOMAIN stack = 1 .. Len(stack)
    BY <1>1, LenProperties
  <2> QED BY <1>1, <1>2, <2>1
<1>4. Top = stack[Len(stack)]
  BY DEF Top, Last
<1>5. Top \in FrameType
  BY <1>1, <1>2, <1>3, <1>4, ElementOfSeq
<1>6. Top.op # "scan" => Top.kext \in Kexts
  BY <1>3, <1>4 DEF IInv, StackIsShallow
<1> QED BY <1>3, <1>4, <1>5, <1>6

LEMMA PopFacts ==
  ASSUME IInv, ~Idle, Pop
  PROVE  /\ stack' \in Seq(FrameType)
         /\ Len(stack') = Len(stack) - 1
         /\ \A n \in DOMAIN stack' : /\ n \in DOMAIN stack /\ stack'[n] = stack[n]
                                     /\ n = 1 /\ Len(stack) = 2 /\ stack[n].op = "scan"
<1>1. stack \in Seq(FrameType) /\ stack # <<>> /\ Len(stack) \in 1 .. 2
  BY TopFacts DEF IInv, Typed, Idle
<1>2. /\ stack' \in Seq(FrameType) /\ Len(stack') = Len(stack) - 1
      /\ \A n \in 1 .. Len(stack) - 1 : stack'[n] = stack[n]
  BY <1>1, FrontFacts DEF Pop
<1>3. DOMAIN stack' = 1 .. Len(stack) - 1
  BY <1>2
<1> QED BY <1>1, <1>2, <1>3 DEF IInv, StackIsShallow

LEMMA BecomeFacts ==
  ASSUME IInv, ~Idle, NEW op, Become(op),
         op \in {"stop", "services", "remove", "unload", "cancel"}
  PROVE  /\ stack' \in Seq(FrameType)
         /\ Len(stack') = Len(stack)
         /\ stack'[Len(stack)] = [Top EXCEPT !.op = op]
         /\ \A n \in DOMAIN stack' : /\ n \in DOMAIN stack
                                     /\ n # Len(stack) => stack'[n] = stack[n]
<1>1. stack \in Seq(FrameType) /\ Len(stack) \in 1 .. 2 /\ Top = stack[Len(stack)] /\ Top \in FrameType
  BY TopFacts DEF IInv, Typed
<1>2. [Top EXCEPT !.op = op] \in FrameType
  BY <1>1 DEF FrameType
<1>3. stack' = [stack EXCEPT ![Len(stack)] = [Top EXCEPT !.op = op]]
  BY <1>1 DEF Become
<1> QED BY SMTT(30), <1>1, <1>2, <1>3, ExceptSeq

LEMMA RecordFacts ==
  ASSUME IInv, NEW i \in DOMAIN records
  PROVE  /\ records[i] \in Record /\ records[i].tag \in Tags
         /\ owner[records[i].tag] \in Kexts /\ records[i].tag < nextTag
<1>1. records \in Seq(Record) /\ DOMAIN records = 1 .. Len(records) /\ Len(records) \in Nat
  BY DEF IInv, Typed
<1>2. records[i] \in Record
  BY <1>1, ElementOfSeq
<1>3. records[i].tag \in Tags
  BY <1>2 DEF Record
<1> QED BY <1>2, <1>3 DEF IInv, TagsAreFresh

LEMMA DequeueFacts ==
  ASSUME IInv, NEW t \in Tags, NEW how \in {"called", "cancelled", "dropped"}, Dequeue(t, how)
  PROVE  /\ records' \in Seq(Record)
         /\ Recorded(t)
         /\ \E i \in DOMAIN records :
              /\ records[i].tag = t
              /\ Len(records') = Len(records) - 1
              /\ \A j \in DOMAIN records' :
                   /\ j < i => j \in DOMAIN records /\ records'[j] = records[j]
                   /\ j >= i => j + 1 \in DOMAIN records /\ records'[j] = records[j + 1]
         /\ \A j \in DOMAIN records' : records'[j].tag # t
         /\ TagsAreFresh'
         /\ ended' \in [Tags -> {"no", "called", "cancelled", "dropped"}]
<1>1. PICK i \in DOMAIN records : records[i].tag = t /\ records' = RemoveAt(records, i)
  BY DEF Dequeue
<1>2. records \in Seq(Record)
  BY DEF IInv, Typed
<1>3. /\ records' \in Seq(Record) /\ Len(records') = Len(records) - 1
      /\ \A j \in 1 .. Len(records) - 1 : /\ j < i => records'[j] = records[j]
                                          /\ j >= i => records'[j] = records[j + 1]
  BY <1>1, <1>2, RemoveAtFacts
<1>4. DOMAIN records = 1 .. Len(records) /\ DOMAIN records' = 1 .. Len(records) - 1
      /\ Len(records) \in Nat
  BY <1>2, <1>3
<1>5. \A j \in DOMAIN records' :
        /\ j < i => j \in DOMAIN records /\ records'[j] = records[j]
        /\ j >= i => j + 1 \in DOMAIN records /\ records'[j] = records[j + 1]
  BY <1>1, <1>3, <1>4
<1>6. \A j \in DOMAIN records' : records'[j].tag # t
  BY <1>1, <1>4, <1>5 DEF IInv, TagsAreFresh
<1>7. TagsAreFresh'
  <2>1. UNCHANGED <<nextTag, owner>> /\ ended' = [ended EXCEPT ![t] = how]
    BY DEF Dequeue
  <2>2. \A j \in DOMAIN records' : records'[j].tag < nextTag' /\ owner'[records'[j].tag] \in Kexts
    BY <1>1, <1>4, <1>5, <2>1 DEF IInv, TagsAreFresh
  <2>3. \A j, l \in DOMAIN records' : records'[j].tag = records'[l].tag => j = l
    BY <1>1, <1>4, <1>5 DEF IInv, TagsAreFresh
  <2>4. \A u \in Tags : u >= nextTag' => ended'[u] = "no"
    BY <1>1, <2>1 DEF IInv, TagsAreFresh, Typed, Tags
  <2> QED BY <2>2, <2>3, <2>4 DEF TagsAreFresh
<1>8. ended' \in [Tags -> {"no", "called", "cancelled", "dropped"}]
  BY DEF Dequeue, IInv, Typed
<1> QED BY <1>1, <1>3, <1>5, <1>6, <1>7, <1>8 DEF Recorded

-----------------------------------------------------------------------------
(* Every action keeps the invariant.  Those that end the innermost call. *)
LEMMA PopInvariant ==
  ASSUME IInv, ~Idle, Pop,
         kexts' \in [Kexts -> {"absent", "loaded", "starting", "started", "stopping"}],
         RecordsHaveCode', UNCHANGED <<kextd, requests, down, panicked>>,
         disturbed' = disturbed \/ (disturbed' = FALSE /\ Top.op = "scan")
  PROVE  IInv'
<1>1. Typed'
  BY PopFacts DEF IInv, Typed, kextd, requests
<1>2. TagsAreFresh' /\ QueuedIsTold'
  BY DEF IInv, TagsAreFresh, QueuedIsTold, kextd, requests
<1>3. StackIsShallow'
  BY TopFacts, PopFacts DEF IInv, StackIsShallow
<1>4. LeavingHasOnlyLate'
  BY PopFacts DEF LeavingHasOnlyLate, Leaving
<1>5. TimeoutSpansScans'
  <2>1. CASE Len(stack) = 2
    BY <2>1, TopFacts, PopFacts DEF IInv, StackIsShallow, TimeoutSpansScans, requests
  <2>2. CASE Len(stack) # 2
    BY <2>2, PopFacts DEF TimeoutSpansScans
  <2> QED BY <2>1, <2>2
<1> QED BY <1>1, <1>2, <1>3, <1>4, <1>5 DEF IInv

(* Those that go on to another part of it. *)
LEMMA BecomeInvariant ==
  ASSUME IInv, ~Idle, NEW op \in {"stop", "services", "remove", "unload", "cancel"}, Become(op),
         Top.op # "scan", Len(stack) = 2 => op \in {"remove", "unload", "stop"} /\ (op = "remove" => ~Top.flag),
         op = "stop" => kexts'[Top.kext] = "stopping",
         Leaving([Top EXCEPT !.op = op]) => \A i \in RecordsOf(Top.kext) : records[i].late,
         kexts' \in [Kexts -> {"absent", "loaded", "starting", "started", "stopping"}],
         RecordsHaveCode', UNCHANGED <<kextd, requests, down, disturbed, panicked>>
  PROVE  IInv'
<1>1. Typed'
  BY BecomeFacts DEF IInv, Typed, kextd, requests
<1>2. TagsAreFresh' /\ QueuedIsTold'
  BY DEF IInv, TagsAreFresh, QueuedIsTold, kextd, requests
<1>3. DOMAIN stack' = DOMAIN stack /\ DOMAIN stack = 1 .. Len(stack) /\ Top = stack[Len(stack)]
      /\ Len(stack) \in 1 .. 2 /\ Top \in FrameType
  BY BecomeFacts, TopFacts DEF IInv, Typed
<1>4. StackIsShallow'
  BY <1>3, TopFacts, BecomeFacts DEF IInv, StackIsShallow, FrameType
<1>5. LeavingHasOnlyLate'
  <2> SUFFICES ASSUME NEW n \in DOMAIN stack', Leaving(stack'[n]), NEW i \in DOMAIN records,
                      owner[records[i].tag] = stack'[n].kext
               PROVE  records[i].late
    BY DEF LeavingHasOnlyLate, requests
  <2>1. CASE n = Len(stack)
    <3>1. stack'[n] = [Top EXCEPT !.op = op] /\ stack'[n].kext = Top.kext
      BY <1>3, <2>1, BecomeFacts DEF FrameType
    <3> QED BY <3>1 DEF RecordsOf
  <2>2. CASE n # Len(stack)
    <3>1. n \in DOMAIN stack /\ stack'[n] = stack[n]
      BY <2>2, BecomeFacts
    <3> QED BY <3>1 DEF IInv, LeavingHasOnlyLate
  <2> QED BY <2>1, <2>2
<1>6. TimeoutSpansScans'
  BY <1>3, BecomeFacts DEF IInv, TimeoutSpansScans, FrameType, requests
<1> QED BY <1>1, <1>2, <1>4, <1>5, <1>6 DEF IInv

(* Starting, stopping and removing a kext. *)
LEMMA OperationInvariant ==
  ASSUME IInv,
         \/ CallbackReturns \/ StartSucceeds \/ StartFails \/ CancelEnds \/ StopSucceeds
         \/ StopFails \/ RemoveBegins \/ ServicesTerminated \/ UnloadRefused \/ Unload
  PROVE  IInv'
<1>1. ~Idle
  BY DEF CallbackReturns, StartSucceeds, StartFails, CancelEnds, StopSucceeds, StopFails,
         RemoveBegins, ServicesTerminated, UnloadRefused, Unload, In
<1>2. /\ Len(stack) \in 1 .. 2 /\ Top = stack[Len(stack)] /\ Top \in FrameType
      /\ Len(stack) \in DOMAIN stack /\ (Top.op # "scan" => Top.kext \in Kexts)
  BY <1>1, TopFacts
<1>3. Len(stack) = 2 => Top.op \in {"callback", "remove", "unload", "stop"}
                        /\ (Top.op = "remove" => ~Top.flag)
  BY <1>2 DEF IInv, StackIsShallow
<1>4. Leaving(Top) => \A i \in RecordsOf(Top.kext) : records[i].late
  BY <1>2 DEF IInv, LeavingHasOnlyLate, RecordsOf
<1>5. ASSUME UNCHANGED <<kexts, requests>> PROVE RecordsHaveCode'
  BY <1>5 DEF IInv, RecordsHaveCode, requests
<1>6. kexts \in [Kexts -> {"absent", "loaded", "starting", "started", "stopping"}]
  BY DEF IInv, Typed
<1>7. ASSUME NEW to \in {"loaded", "starting", "started", "stopping"},
             kexts' = [kexts EXCEPT ![Top.kext] = to], UNCHANGED requests
      PROVE  RecordsHaveCode' /\ kexts' \in [Kexts -> {"absent", "loaded", "starting", "started", "stopping"}]
  BY <1>6, <1>7 DEF IInv, RecordsHaveCode, TagsAreFresh, requests
<1>8. CASE CallbackReturns \/ UnloadRefused
  BY <1>1, <1>2, <1>5, <1>6, <1>8, PopInvariant DEF CallbackReturns, UnloadRefused
<1>9. CASE StartSucceeds \/ StopFails
  BY <1>1, <1>2, <1>7, <1>9, PopInvariant DEF StartSucceeds, StopFails
<1>10. CASE StartFails
  <2>1. Len(stack) # 2 /\ ~Leaving([Top EXCEPT !.op = "cancel"]) /\ Top.op = "start"
    BY <1>2, <1>3, <1>10 DEF StartFails, In, Leaving, FrameType
  <2> QED BY <1>1, <1>2, <1>7, <1>10, <2>1, BecomeInvariant DEF StartFails
<1>11. CASE CancelEnds
  <2>1. Len(stack) # 2 /\ ~Leaving([Top EXCEPT !.op = "remove"]) /\ Top.op = "cancel"
    BY <1>2, <1>3, <1>11 DEF CancelEnds, In, Leaving, FrameType
  <2> QED BY <1>1, <1>2, <1>5, <1>6, <1>11, <2>1, PopInvariant, BecomeInvariant DEF CancelEnds
<1>12. CASE StopSucceeds
  <2>1. Top.op = "stop"
    BY <1>12 DEF StopSucceeds, In
  <2>2. Top.flag => Leaving(Top)
    BY <2>1 DEF Leaving
  <2> QED BY <1>1, <1>2, <1>4, <1>7, <1>12, <2>1, <2>2, PopInvariant, BecomeInvariant DEF StopSucceeds
<1>13. CASE RemoveBegins
  <2>1. Top.op = "remove"
    BY <1>13 DEF RemoveBegins, In
  <2>2. CASE RecordsOf(Top.kext) # {}
    BY <1>1, <1>2, <1>5, <1>6, <1>13, <2>1, <2>2, PopInvariant DEF RemoveBegins
  <2>3. CASE RecordsOf(Top.kext) = {}
    <3> DEFINE op == IF Top.flag THEN "services" ELSE "unload"
    <3>1. op \in {"services", "unload"} /\ Become(op) /\ (Len(stack) = 2 => op = "unload")
      BY <1>3, <1>13, <2>1, <2>3 DEF RemoveBegins
    <3>2. UNCHANGED <<kexts, kextd, requests, down, disturbed, panicked>>
      BY <1>13 DEF RemoveBegins
    <3> HIDE DEF op
    <3> QED BY <1>1, <1>2, <1>5, <1>6, <2>1, <2>3, <3>1, <3>2, BecomeInvariant
  <2> QED BY <2>2, <2>3
<1>14. CASE ServicesTerminated
  <2>1. Top.op = "services" /\ Leaving(Top)
    BY <1>14 DEF ServicesTerminated, In, Leaving
  <2> QED BY <1>1, <1>2, <1>3, <1>4, <1>5, <1>6, <1>14, <2>1, PopInvariant, BecomeInvariant DEF ServicesTerminated
<1>15. CASE Unload
  <2>1. Top.op = "unload" /\ Leaving(Top)
    BY <1>15 DEF Unload, In, Leaving
  <2>2. RecordsHaveCode' /\ kexts' \in [Kexts -> {"absent", "loaded", "starting", "started", "stopping"}]
    BY <1>2, <1>4, <1>6, <1>15, <2>1 DEF Unload, IInv, RecordsHaveCode, TagsAreFresh, RecordsOf, requests
  <2> QED BY <1>1, <1>15, <2>2, PopInvariant DEF Unload
<1> QED BY <1>8, <1>9, <1>10, <1>11, <1>12, <1>13, <1>14, <1>15

(* A record fewer disturbs nothing but a scan. *)
LEMMA DequeueKeeps ==
  ASSUME IInv, NEW t \in Tags, NEW how \in {"called", "cancelled", "dropped"}, Dequeue(t, how),
         UNCHANGED kexts
  PROVE  /\ \A j \in DOMAIN records' : \E l \in DOMAIN records : records'[j] = records[l]
         /\ RecordsHaveCode' /\ UNCHANGED <<nextTag, owner>>
         /\ UNCHANGED stack => LeavingHasOnlyLate'
<1>1. \A j \in DOMAIN records' : \E l \in DOMAIN records : records'[j] = records[l]
  <2> SUFFICES ASSUME NEW j \in DOMAIN records'
               PROVE  \E l \in DOMAIN records : records'[j] = records[l]
    OBVIOUS
  <2>1. PICK i \in DOMAIN records :
          /\ j < i => j \in DOMAIN records /\ records'[j] = records[j]
          /\ j >= i => j + 1 \in DOMAIN records /\ records'[j] = records[j + 1]
    BY DequeueFacts
  <2>2. i \in Nat /\ j \in Nat
    BY DequeueFacts DEF IInv, Typed
  <2> QED BY <2>1, <2>2
<1>2. UNCHANGED <<nextTag, owner>>
  BY DEF Dequeue
<1>3. RecordsHaveCode'
  BY <1>1, <1>2 DEF IInv, RecordsHaveCode
<1>4. UNCHANGED stack => LeavingHasOnlyLate'
  BY <1>1, <1>2 DEF IInv, LeavingHasOnlyLate
<1> QED BY <1>1, <1>2, <1>3, <1>4

LEMMA CancelInvariant ==
  ASSUME IInv, CancelRecord \/ \E t \in Tags : CancelRequest(t)
  PROVE  IInv'
<1>1. PICK t \in Tags : Dequeue(t, "cancelled")
  <2>1. CASE CancelRecord
    <3>1. PICK i \in DOMAIN records : Dequeue(records[i].tag, "cancelled")
      BY <2>1 DEF CancelRecord, RecordsOf
    <3>2. records[i].tag \in Tags
      BY RecordFacts
    <3> QED BY <3>1, <3>2
  <2> QED BY <2>1 DEF CancelRequest
<1>2. UNCHANGED <<kexts, kextd, down, stack, panicked>>
  BY DEF CancelRecord, CancelRequest
<1>3. disturbed' \in BOOLEAN
  BY DEF CancelRecord, CancelRequest, IInv, Typed
<1>4. Typed' /\ TagsAreFresh'
  BY <1>1, <1>2, <1>3, DequeueFacts, DequeueKeeps DEF IInv, Typed, kextd
<1>5. QueuedIsTold' /\ StackIsShallow'
  BY <1>2 DEF IInv, QueuedIsTold, StackIsShallow, kextd
<1>6. RecordsHaveCode' /\ LeavingHasOnlyLate'
  BY <1>1, <1>2, DequeueKeeps
<1>7. TimeoutSpansScans'
  <2>1. Scanning => disturbed'
    <3>1. CASE CancelRecord
      <4>1. Len(stack) \in 1 .. 2 /\ Top = stack[Len(stack)] /\ Top.op = "cancel"
        BY <3>1, TopFacts DEF CancelRecord, In
      <4>2. Len(stack) = 1
        BY <4>1 DEF IInv, StackIsShallow
      <4> QED BY <4>1, <4>2 DEF Scanning, IInv, StackIsShallow
    <3>2. CASE \E u \in Tags : CancelRequest(u)
      BY <3>2 DEF CancelRequest
    <3> QED BY <3>1, <3>2
  <2> QED BY <1>2, <2>1 DEF TimeoutSpansScans, Scanning
<1> QED BY <1>4, <1>5, <1>6, <1>7 DEF IInv

LEMMA UnloadStopsInvariant == ASSUME IInv, UnloadStops PROVE IInv'
<1>1. /\ Len(stack) \in 1 .. 2 /\ Top = stack[Len(stack)] /\ Top \in FrameType
      /\ Len(stack) \in DOMAIN stack /\ Top.op = "unload" /\ Top.kext \in Kexts
  BY TopFacts DEF UnloadStops, In
<1> DEFINE frame == [Top EXCEPT !.op = "stop", !.flag = TRUE]
<1>2. frame \in FrameType /\ frame.op = "stop" /\ frame.kext = Top.kext /\ frame.flag
  BY <1>1 DEF FrameType
<1>3. stack' = [stack EXCEPT ![Len(stack)] = frame]
  BY <1>1 DEF UnloadStops
<1> HIDE DEF frame
<1>4. stack \in Seq(FrameType)
  BY DEF IInv, Typed
<1>5. /\ stack' \in Seq(FrameType) /\ Len(stack') = Len(stack) /\ DOMAIN stack' = DOMAIN stack
      /\ \A n \in DOMAIN stack : stack'[n] = IF n = Len(stack) THEN frame ELSE stack[n]
  BY <1>1, <1>2, <1>3, <1>4, ExceptSeq
<1>6. kexts' = [kexts EXCEPT ![Top.kext] = "stopping"] /\ UNCHANGED <<kextd, requests, down, disturbed, panicked>>
  BY DEF UnloadStops
<1>7. Typed'
  BY <1>1, <1>5, <1>6 DEF IInv, Typed, kextd, requests
<1>8. TagsAreFresh' /\ QueuedIsTold' /\ RecordsHaveCode'
  BY <1>1, <1>6 DEF IInv, Typed, TagsAreFresh, QueuedIsTold, RecordsHaveCode, kextd, requests
<1>9. StackIsShallow'
  BY <1>1, <1>2, <1>5, <1>6 DEF IInv, Typed, StackIsShallow
<1>10. LeavingHasOnlyLate'
  BY <1>1, <1>2, <1>5, <1>6 DEF IInv, LeavingHasOnlyLate, Leaving, requests
<1>11. TimeoutSpansScans'
  BY <1>1, <1>2, <1>5, <1>6 DEF IInv, TimeoutSpansScans, requests
<1> QED BY <1>7, <1>8, <1>9, <1>10, <1>11 DEF IInv

(* The scan over the records. *)
LEMMA ScanInvariant ==
  ASSUME IInv, ~panicked,
         ScanPanics \/ ScanMarks \/ ScanCalls \/ ScanCallFails \/ ScanEnds
         \/ \E k \in Kexts : ScanRemoves(k)
  PROVE  IInv'
<1>1. ~Idle /\ Top.op = "scan"
  BY DEF ScanPanics, ScanMarks, ScanCalls, ScanCallFails, ScanEnds, ScanRemoves, In
<1>2. stack \in Seq(FrameType) /\ DOMAIN stack = 1 .. Len(stack) /\ records \in Seq(Record)
      /\ DOMAIN records = 1 .. Len(records) /\ Len(records) \in Nat
  BY DEF IInv, Typed
<1>3. Len(stack) = 1 /\ Top = stack[1] /\ Top \in FrameType /\ DOMAIN stack = {1} /\ Top.i \in Nat
  BY <1>1, <1>2, TopFacts DEF IInv, StackIsShallow, FrameType
<1>4. ~disturbed => /\ Top.i <= Len(records)
                    /\ \A i \in 1 .. Top.i : records[i].tag \notin Top.marked
  BY <1>1, <1>3 DEF IInv, TimeoutSpansScans
<1>5. CASE ScanPanics
  <2>1. disturbed
    BY <1>2, <1>3, <1>4, <1>5 DEF ScanPanics
  <2> QED BY <1>3, <1>5, <2>1 DEF ScanPanics, IInv, Typed, TagsAreFresh, StackIsShallow, LeavingHasOnlyLate,
             RecordsHaveCode, QueuedIsTold, TimeoutSpansScans, kextd, requests
<1>6. CASE ScanEnds
  <2>1. RecordsHaveCode'
    BY <1>6 DEF ScanEnds, IInv, RecordsHaveCode, requests
  <2>2. kexts' \in [Kexts -> {"absent", "loaded", "starting", "started", "stopping"}]
    BY <1>6 DEF ScanEnds, IInv, Typed
  <2> QED BY <1>1, <1>6, <2>1, <2>2, PopInvariant DEF ScanEnds
<1>7. ASSUME NEW frame \in FrameType, stack' = [stack EXCEPT ![1] = frame], frame.op = "scan"
      PROVE  /\ stack' \in Seq(FrameType) /\ Len(stack') = 1 /\ DOMAIN stack' = {1} /\ stack'[1] = frame
             /\ StackIsShallow'
             /\ \A n \in DOMAIN stack' : ~Leaving(stack'[n])
  <2>1. stack' \in Seq(FrameType) /\ Len(stack') = 1 /\ stack'[1] = frame /\ DOMAIN stack' = {1}
    BY SMTT(30), <1>2, <1>3, <1>7, ExceptSeq
  <2>2. \A n \in DOMAIN stack' : n = 1 /\ stack'[n].op = "scan"
    BY <1>7, <2>1
  <2>3. StackIsShallow'
    BY <2>1, <2>2 DEF StackIsShallow
  <2> QED BY <2>1, <2>2, <2>3 DEF Leaving
<1>8. CASE ScanMarks
  <2> DEFINE t == records[Top.i].tag
             frame == [Top EXCEPT !.i = @ - 1, !.marked = @ \cup {t}]
  <2>1. Top.i \in 1 .. Len(records) /\ records[Top.i] \in Record /\ t \in Tags
    BY <1>2, <1>8, RecordFacts DEF ScanMarks
  <2>2. frame \in FrameType /\ frame.op = "scan" /\ frame.i = Top.i - 1
        /\ frame.marked = Top.marked \cup {t}
    <3> HIDE DEF t
    <3>1. Top.i - 1 \in Nat /\ Top.marked \cup {t} \in SUBSET Tags
      BY <1>2, <1>3, <2>1 DEF FrameType
    <3>2. frame \in FrameType
      BY <1>3, <3>1 DEF FrameType
    <3>3. frame.op = "scan" /\ frame.i = Top.i - 1
      BY <1>1, <1>3 DEF FrameType
    <3>4. frame.marked = Top.marked \cup {t}
      BY <1>3 DEF FrameType
    <3> QED BY <3>2, <3>3, <3>4
  <2>3. stack' = [stack EXCEPT ![1] = frame]
    BY ZenonT(60), <1>3, <1>8 DEF ScanMarks, OneDown
  <2> HIDE DEF frame
  <2>4. /\ stack' \in Seq(FrameType) /\ Len(stack') = 1 /\ DOMAIN stack' = {1} /\ stack'[1] = frame
        /\ StackIsShallow' /\ \A n \in DOMAIN stack' : ~Leaving(stack'[n])
    BY <1>7, <2>2, <2>3
  <2> DEFINE r == [records[Top.i] EXCEPT !.stale = TRUE]
  <2>5. r \in Record /\ r.tag = records[Top.i].tag /\ r.late = records[Top.i].late
    BY <2>1 DEF Record
  <2>6. records' = [records EXCEPT ![Top.i] = r]
    BY <1>8 DEF ScanMarks
  <2> HIDE DEF r
  <2>7. records' \in Seq(Record) /\ Len(records') = Len(records) /\ DOMAIN records' = DOMAIN records
        /\ \A i \in DOMAIN records : /\ records'[i].tag = records[i].tag
                                     /\ records'[i].late = records[i].late
    BY <1>2, <2>1, <2>5, <2>6, ExceptSeq
  <2>8. UNCHANGED <<kexts, kextd, nextTag, owner, ended, down, disturbed, panicked>>
    BY <1>8 DEF ScanMarks
  <2>9. Typed' /\ TagsAreFresh' /\ RecordsHaveCode' /\ QueuedIsTold'
    BY <2>4, <2>7, <2>8 DEF IInv, Typed, TagsAreFresh, RecordsHaveCode, QueuedIsTold, kextd
  <2>10. LeavingHasOnlyLate'
    BY <2>4 DEF LeavingHasOnlyLate
  <2>11. TimeoutSpansScans'
    <3> SUFFICES ASSUME ~disturbed
                 PROVE  /\ ~panicked /\ frame.i <= Len(records)
                        /\ \A i \in 1 .. frame.i : records[i].tag \notin frame.marked
      BY <1>2, <1>3, <2>1, <2>2, <2>4, <2>7, <2>8 DEF TimeoutSpansScans
    <3>1. ASSUME NEW i \in 1 .. frame.i PROVE records[i].tag \notin frame.marked
      <4>1. i \in DOMAIN records /\ i < Top.i /\ i \in 1 .. Top.i
        BY <1>2, <2>1, <2>2
      <4>2. records[i].tag # records[Top.i].tag
        BY <1>2, <2>1, <4>1 DEF IInv, TagsAreFresh
      <4> QED BY <1>4, <2>2, <4>1, <4>2
    <3> QED BY <1>4, <2>1, <2>2, <3>1
  <2> QED BY <2>4, <2>9, <2>10, <2>11 DEF IInv
<1>9. Top.i \in Nat \ {0} => /\ [Top EXCEPT !.i = @ - 1] \in FrameType
                             /\ OneDown = [stack EXCEPT ![1] = [Top EXCEPT !.i = @ - 1]]
  BY <1>3 DEF FrameType, OneDown
<1>10. CASE ScanCallFails
  <2> DEFINE frame == [Top EXCEPT !.i = @ - 1]
  <2>1. Top.i \in 1 .. Len(records) /\ stack' = OneDown
        /\ UNCHANGED <<kexts, kextd, requests, down, disturbed, panicked>>
    BY <1>2, <1>10 DEF ScanCallFails
  <2>2. frame \in FrameType /\ frame.op = "scan" /\ frame.i = Top.i - 1 /\ frame.marked = Top.marked
        /\ stack' = [stack EXCEPT ![1] = frame]
    BY <1>1, <1>2, <1>3, <1>9, <2>1 DEF FrameType
  <2> HIDE DEF frame
  <2>3. /\ stack' \in Seq(FrameType) /\ Len(stack') = 1 /\ DOMAIN stack' = {1} /\ stack'[1] = frame
        /\ StackIsShallow' /\ \A n \in DOMAIN stack' : ~Leaving(stack'[n])
    BY <1>7, <2>2
  <2>4. Typed' /\ TagsAreFresh' /\ RecordsHaveCode' /\ QueuedIsTold' /\ LeavingHasOnlyLate'
    BY <2>1, <2>3 DEF IInv, Typed, TagsAreFresh, RecordsHaveCode, QueuedIsTold, LeavingHasOnlyLate, kextd, requests
  <2>5. TimeoutSpansScans'
    BY <1>1, <1>2, <1>3, <1>4, <2>1, <2>2, <2>3 DEF IInv, TimeoutSpansScans, requests
  <2> QED BY <2>3, <2>4, <2>5 DEF IInv
<1>11. ASSUME NEW frame \in FrameType, frame.op = "scan", NEW call \in FrameType, call.kext \in Kexts,
              call.op \in {"callback", "remove"}, ~call.flag,
              stack' = Append([stack EXCEPT ![1] = frame], call)
       PROVE  /\ stack' \in Seq(FrameType) /\ Len(stack') = 2 /\ DOMAIN stack' = {1, 2}
              /\ stack'[1] = frame /\ stack'[2] = call /\ StackIsShallow'
              /\ \A n \in DOMAIN stack' : ~Leaving(stack'[n])
  <2>1. /\ stack' \in Seq(FrameType) /\ Len(stack') = 2 /\ DOMAIN stack' = {1, 2}
        /\ stack'[1] = frame /\ stack'[2] = call
    BY <1>2, <1>3, <1>11, NestFacts
  <2>2. StackIsShallow'
    BY <1>11, <2>1 DEF StackIsShallow
  <2> QED BY <1>11, <2>1, <2>2 DEF Leaving
<1>12. CASE ScanCalls
  <2> DEFINE frame == [Top EXCEPT !.i = @ - 1]
             t == records[Top.i].tag
             call == Frame("callback", owner[t], FALSE)
  <2>1. /\ Top.i \in 1 .. Len(records) /\ t \in Tags /\ owner[t] \in Kexts
        /\ UNCHANGED <<kexts, kextd, down, disturbed, panicked>>
    BY <1>2, <1>12, RecordFacts DEF ScanCalls
  <2>2. /\ frame \in FrameType /\ frame.op = "scan" /\ frame.i = Top.i - 1 /\ frame.marked = Top.marked
        /\ OneDown = [stack EXCEPT ![1] = frame]
    <3>1. Top.i \in Nat \ {0}
      BY <1>2, <2>1
    <3>2. frame \in FrameType /\ OneDown = [stack EXCEPT ![1] = frame]
      BY <1>9, <3>1
    <3>3. frame.op = "scan" /\ frame.i = Top.i - 1 /\ frame.marked = Top.marked
      BY <1>1, <1>3 DEF FrameType
    <3> QED BY <3>2, <3>3
  <2>3. call \in FrameType /\ call.op = "callback" /\ call.kext \in Kexts /\ ~call.flag
    BY <2>1 DEF FrameType, Frame
  <2>4. \/ Dequeue(t, "called") /\ stack' = Append(OneDown, call)
        \/ Dequeue(t, "dropped") /\ stack' = OneDown
    BY <1>12 DEF ScanCalls, DispatchResource
  <2> HIDE DEF frame, call
  <2>5. /\ stack' \in Seq(FrameType) /\ 1 \in DOMAIN stack' /\ stack'[1] = frame
        /\ StackIsShallow' /\ \A n \in DOMAIN stack' : ~Leaving(stack'[n])
    <3>1. CASE stack' = Append(OneDown, call)
      BY <1>11, <2>2, <2>3, <3>1
    <3>2. CASE stack' = OneDown
      BY <1>7, <2>2, <3>2
    <3> QED BY <2>4, <3>1, <3>2
  <2>6. PICK how \in {"called", "cancelled", "dropped"} : Dequeue(t, how)
    BY <2>4
  <2>7. /\ records' \in Seq(Record) /\ TagsAreFresh'
        /\ ended' \in [Tags -> {"no", "called", "cancelled", "dropped"}]
        /\ RecordsHaveCode' /\ UNCHANGED <<nextTag, owner>>
    BY <2>1, <2>6, DequeueFacts, DequeueKeeps
  <2>8. PICK i \in DOMAIN records :
          /\ records[i].tag = t
          /\ Len(records') = Len(records) - 1
          /\ \A j \in DOMAIN records' :
               /\ j < i => j \in DOMAIN records /\ records'[j] = records[j]
               /\ j >= i => j + 1 \in DOMAIN records /\ records'[j] = records[j + 1]
    BY <2>1, <2>6, DequeueFacts
  <2>9. i = Top.i
    BY <1>2, <2>1, <2>8 DEF IInv, TagsAreFresh
  <2>10. Typed' /\ QueuedIsTold' /\ LeavingHasOnlyLate'
    BY <2>1, <2>5, <2>7 DEF IInv, Typed, QueuedIsTold, LeavingHasOnlyLate, kextd
  <2>11. TimeoutSpansScans'
    <3>1. ASSUME ~disturbed
          PROVE  ~panicked /\ frame.i <= Len(records') /\ frame.i \in Nat
                 /\ \A j \in 1 .. frame.i : records'[j].tag \notin frame.marked
      <4>1. frame.i <= Len(records') /\ frame.i \in Nat
        BY <1>2, <2>1, <2>2, <2>8
      <4>2. DOMAIN records' = 1 .. Len(records') /\ Len(records') \in Nat
        BY <2>7
      <4>3. ASSUME NEW j \in 1 .. frame.i PROVE records'[j].tag \notin frame.marked
        <5>1. j \in DOMAIN records' /\ j < i /\ j \in 1 .. Top.i
          BY <2>1, <2>2, <2>9, <4>1, <4>2
        <5> QED BY <1>4, <2>2, <2>8, <3>1, <5>1
      <4> QED BY <4>1, <4>3
    <3>2. \A n \in DOMAIN stack' : stack'[n].op = "scan" => n = 1
      BY <2>5 DEF StackIsShallow
    <3> QED BY <2>1, <2>5, <3>1, <3>2 DEF TimeoutSpansScans
  <2> QED BY <2>5, <2>7, <2>10, <2>11 DEF IInv
<1>13. CASE \E k \in Kexts : ScanRemoves(k)
  <2>1. PICK k \in Kexts : ScanRemoves(k)
    BY <1>13
  <2> DEFINE frame == [Top EXCEPT !.flag = FALSE]
             call == Frame("remove", k, FALSE)
  <2>2. call \in FrameType /\ call.op = "remove" /\ call.kext \in Kexts /\ ~call.flag
    BY DEF FrameType, Frame
  <2>3. frame \in FrameType /\ frame.op = "scan" /\ frame.i = Top.i /\ frame.marked = Top.marked
    BY <1>1, <1>3 DEF FrameType
  <2>4. stack' = Append([stack EXCEPT ![1] = frame], call)
        /\ UNCHANGED <<kexts, kextd, requests, down, disturbed, panicked>>
    BY <1>3, <2>1 DEF ScanRemoves
  <2> HIDE DEF frame, call
  <2>5. /\ stack' \in Seq(FrameType) /\ Len(stack') = 2 /\ DOMAIN stack' = {1, 2}
        /\ stack'[1] = frame /\ stack'[2] = call /\ StackIsShallow'
        /\ \A n \in DOMAIN stack' : ~Leaving(stack'[n])
    BY <1>11, <2>2, <2>3, <2>4
  <2>6. Typed' /\ TagsAreFresh' /\ RecordsHaveCode' /\ QueuedIsTold' /\ LeavingHasOnlyLate'
    BY <2>4, <2>5 DEF IInv, Typed, TagsAreFresh, RecordsHaveCode, QueuedIsTold, LeavingHasOnlyLate, kextd, requests
  <2>7. TimeoutSpansScans'
    BY <1>1, <1>3, <2>2, <2>3, <2>4, <2>5 DEF IInv, TimeoutSpansScans, requests
  <2> QED BY <2>5, <2>6, <2>7 DEF IInv
<1> QED BY <1>5, <1>6, <1>8, <1>10, <1>12, <1>13

(* What changes the queue or the flags alone. *)
LEMMA QueueInvariant ==
  ASSUME IInv,
         \/ \E k \in Kexts : RequestFails(k) \/ DeferLoad(k) \/ DeferLoadFails(k)
         \/ (\E active \in BOOLEAN : SetKextdActive(active)) \/ GetKernelRequests \/ WillShutdown
  PROVE  IInv'
<1>1. UNCHANGED <<kexts, records, owner, ended, stack, disturbed, panicked>>
  BY DEF RequestFails, DeferLoad, DeferLoadFails, SetKextdActive, GetKernelRequests, WillShutdown, requests, kextd
<1>2. nextTag' = nextTag \/ (nextTag' = nextTag + 1 /\ nextTag # InvalidTag)
  BY DEF RequestFails, DeferLoad, DeferLoadFails, SetKextdActive, GetKernelRequests, WillShutdown, requests, Refused
<1>3. StackIsShallow' /\ LeavingHasOnlyLate' /\ RecordsHaveCode' /\ TimeoutSpansScans'
  BY <1>1 DEF IInv, StackIsShallow, LeavingHasOnlyLate, RecordsHaveCode, TimeoutSpansScans
<1>4. TagsAreFresh' /\ nextTag' \in 0 .. InvalidTag
  <2>1. nextTag' \in 0 .. InvalidTag /\ nextTag' >= nextTag
    BY <1>2 DEF IInv, Typed
  <2>2. \A i \in DOMAIN records : records[i].tag \in Nat /\ records[i].tag < nextTag
    BY RecordFacts DEF Tags
  <2>3. \A i \in DOMAIN records : records[i].tag < nextTag'
    BY <2>1, <2>2 DEF IInv, Typed
  <2>4. \A t \in Tags : t >= nextTag' => t >= nextTag
    BY <2>1 DEF IInv, Typed, Tags
  <2> QED BY <1>1, <2>1, <2>3, <2>4 DEF IInv, TagsAreFresh
<1>5. QueuedIsTold' /\ Typed'
  <2> USE <1>1, <1>4 DEF IInv, Typed, QueuedIsTold
  <2>1. CASE \E k \in Kexts : RequestFails(k)
    BY <2>1 DEF RequestFails, kextd
  <2>2. CASE \E k \in Kexts : DeferLoad(k)
    BY <2>2 DEF DeferLoad, PingKextd, requests
  <2>3. CASE \E k \in Kexts : DeferLoadFails(k)
    BY <2>3 DEF DeferLoadFails, requests, Load
  <2>4. CASE \E active \in BOOLEAN : SetKextdActive(active)
    BY <2>4 DEF SetKextdActive, requests
  <2>5. CASE GetKernelRequests
    BY <2>5 DEF GetKernelRequests, requests
  <2>6. CASE WillShutdown
    BY <2>6 DEF WillShutdown, kextd, requests
  <2> QED BY <2>1, <2>2, <2>3, <2>4, <2>5, <2>6
<1> QED BY <1>3, <1>4, <1>5 DEF IInv

(* What somebody asks for while no call is under way. *)
LEMMA BeginInvariant ==
  ASSUME IInv, ~panicked,
         \/ \E k \in Kexts : StopKext(k)
         \/ \E k \in Kexts, flag \in BOOLEAN : Start(k, flag) \/ RemoveKext(k, flag)
         \/ ScanBegins
  PROVE  IInv'
<1>1. Idle /\ UNCHANGED <<kextd, requests, down, panicked>> /\ records \in Seq(Record)
      /\ kexts \in [Kexts -> {"absent", "loaded", "starting", "started", "stopping"}]
  BY DEF StopKext, Start, RemoveKext, ScanBegins, IInv, Typed
<1>2. TagsAreFresh' /\ QueuedIsTold'
  BY <1>1 DEF IInv, TagsAreFresh, QueuedIsTold, kextd, requests
<1>3. ASSUME NEW frame \in FrameType, stack' = <<frame>>,
             kexts' \in [Kexts -> {"absent", "loaded", "starting", "started", "stopping"}],
             disturbed' \in BOOLEAN
      PROVE  Typed' /\ Len(stack') = 1 /\ DOMAIN stack' = {1} /\ stack'[1] = frame
  BY <1>1, <1>3 DEF IInv, Typed, kextd, requests
<1>4. CASE \E k \in Kexts : StopKext(k)
  <2>1. PICK k \in Kexts : StopKext(k)
    BY <1>4
  <2> DEFINE frame == Frame("stop", k, FALSE)
  <2>2. frame \in FrameType /\ frame.op = "stop" /\ frame.kext = k /\ ~frame.flag
    BY DEF Frame, FrameType
  <2>3. stack' = <<frame>> /\ kexts[k] = "started" /\ kexts' = [kexts EXCEPT ![k] = "stopping"] /\ UNCHANGED disturbed
    BY <2>1 DEF StopKext
  <2> HIDE DEF frame
  <2>4. Typed' /\ Len(stack') = 1 /\ DOMAIN stack' = {1} /\ stack'[1] = frame
    BY <1>1, <1>3, <2>2, <2>3 DEF IInv, Typed
  <2>5. RecordsHaveCode'
    BY <1>1, <2>3 DEF IInv, RecordsHaveCode, TagsAreFresh, requests
  <2>6. StackIsShallow' /\ LeavingHasOnlyLate' /\ TimeoutSpansScans'
    BY <1>1, <2>2, <2>3, <2>4 DEF StackIsShallow, LeavingHasOnlyLate, TimeoutSpansScans, Leaving
  <2> QED BY <1>2, <2>4, <2>5, <2>6 DEF IInv
<1>5. CASE \E k \in Kexts, flag \in BOOLEAN : Start(k, flag)
  <2>1. PICK k \in Kexts, flag \in BOOLEAN : Start(k, flag)
    BY <1>5
  <2> DEFINE frame == Frame("start", k, flag)
  <2>2. frame \in FrameType /\ frame.op = "start" /\ frame.kext = k
    BY DEF Frame, FrameType
  <2>3. stack' = <<frame>> /\ kexts' = [kexts EXCEPT ![k] = "starting"] /\ UNCHANGED disturbed
    BY <2>1 DEF Start
  <2> HIDE DEF frame
  <2>4. Typed' /\ Len(stack') = 1 /\ DOMAIN stack' = {1} /\ stack'[1] = frame
    BY <1>1, <1>3, <2>2, <2>3 DEF IInv, Typed
  <2>5. RecordsHaveCode'
    BY <1>1, <2>3 DEF IInv, RecordsHaveCode, TagsAreFresh, requests
  <2>6. StackIsShallow' /\ LeavingHasOnlyLate' /\ TimeoutSpansScans'
    BY <1>1, <2>2, <2>3, <2>4 DEF StackIsShallow, LeavingHasOnlyLate, TimeoutSpansScans, Leaving
  <2> QED BY <1>2, <2>4, <2>5, <2>6 DEF IInv
<1>6. CASE \E k \in Kexts, flag \in BOOLEAN : RemoveKext(k, flag)
  <2>1. PICK k \in Kexts, flag \in BOOLEAN : RemoveKext(k, flag)
    BY <1>6
  <2> DEFINE frame == Frame("remove", k, flag)
  <2>2. frame \in FrameType /\ frame.op = "remove" /\ frame.kext = k
    BY DEF Frame, FrameType
  <2>3. stack' = <<frame>> /\ UNCHANGED <<kexts, disturbed>>
    BY <2>1 DEF RemoveKext
  <2> HIDE DEF frame
  <2>4. Typed' /\ Len(stack') = 1 /\ DOMAIN stack' = {1} /\ stack'[1] = frame
    BY <1>1, <1>3, <2>2, <2>3 DEF IInv, Typed
  <2>5. RecordsHaveCode'
    BY <1>1, <2>3 DEF IInv, RecordsHaveCode, requests
  <2>6. StackIsShallow' /\ LeavingHasOnlyLate' /\ TimeoutSpansScans'
    BY <1>1, <2>2, <2>3, <2>4 DEF StackIsShallow, LeavingHasOnlyLate, TimeoutSpansScans, Leaving
  <2> QED BY <1>2, <2>4, <2>5, <2>6 DEF IInv
<1>7. CASE ScanBegins
  <2> DEFINE frame == [Frame("scan", None, TRUE) EXCEPT !.i = Len(records)]
  <2>1. Len(records) \in Nat
    BY <1>1
  <2>2. frame \in FrameType /\ frame.op = "scan" /\ frame.i = Len(records) /\ frame.marked = {}
    BY <2>1 DEF Frame, FrameType
  <2>3. stack' = <<frame>> /\ UNCHANGED kexts /\ disturbed' = FALSE
    BY <1>7 DEF ScanBegins
  <2> HIDE DEF frame
  <2>4. Typed' /\ Len(stack') = 1 /\ DOMAIN stack' = {1} /\ stack'[1] = frame
    BY <1>1, <1>3, <2>2, <2>3 DEF IInv, Typed
  <2>5. RecordsHaveCode'
    BY <1>1, <2>3 DEF IInv, RecordsHaveCode, requests
  <2>6. StackIsShallow' /\ LeavingHasOnlyLate'
    BY <2>2, <2>4 DEF StackIsShallow, LeavingHasOnlyLate, Leaving
  <2>7. TimeoutSpansScans'
    BY <1>1, <2>1, <2>2, <2>4 DEF TimeoutSpansScans, requests
  <2> QED BY <1>2, <2>4, <2>5, <2>6, <2>7 DEF IInv
<1> QED BY <1>4, <1>5, <1>6, <1>7

(* A kext asks for a resource: nothing that is leaving does. *)
LEMMA AskInvariant == ASSUME IInv, NEW k \in Kexts, RequestResource(k) PROVE IInv'
<1> DEFINE r == [tag |-> nextTag, stale |-> FALSE, late |-> In("services")]
<1>1. /\ nextTag \in Tags /\ nextTag' = nextTag + 1 /\ nextTag' \in 0 .. InvalidTag /\ nextTag \in Nat
      /\ kexts[k] \in {"starting", "started"}
      /\ records' = Append(records, r) /\ owner' = [owner EXCEPT ![nextTag] = k]
      /\ queue' = queue \cup {Resource(nextTag)} /\ PingKextd(queue')
      /\ Runs(k)
      /\ UNCHANGED <<kexts, posted, kextdActive, ended, down, stack, disturbed, panicked>>
  BY DEF RequestResource, Refused, Running, IInv, Typed, Tags
<1>2. r \in Record /\ r.tag = nextTag /\ r.late = In("services")
  BY <1>1 DEF Record, In
<1> HIDE DEF r
<1>3. records \in Seq(Record) /\ Len(records) \in Nat /\ DOMAIN records = 1 .. Len(records)
  BY DEF IInv, Typed
<1>4. /\ records' \in Seq(Record) /\ Len(records') = Len(records) + 1
      /\ (\A i \in 1 .. Len(records) : records'[i] = records[i])
      /\ records'[Len(records) + 1] = r
  BY <1>1, <1>2, <1>3, AppendProperties
<1>5. DOMAIN records' = 1 .. Len(records) + 1
  BY <1>3, <1>4, LenProperties
<1>6. \A i \in DOMAIN records' : (i \in DOMAIN records /\ records'[i] = records[i])
                               \/ (i = Len(records) + 1 /\ records'[i] = r)
  BY <1>3, <1>4, <1>5
<1>7. ASSUME NEW i \in DOMAIN records
      PROVE  /\ records[i].tag \in Tags /\ owner'[records[i].tag] = owner[records[i].tag]
             /\ records[i].tag # nextTag /\ records[i].tag < nextTag
             /\ owner[records[i].tag] \in Kexts
  <2>1. records[i].tag \in Tags /\ records[i].tag < nextTag /\ owner[records[i].tag] \in Kexts
    BY RecordFacts
  <2>2. records[i].tag # nextTag
    BY <1>1, <2>1 DEF Tags
  <2> QED BY <1>1, <2>1, <2>2 DEF IInv, Typed
<1>8. owner'[nextTag] = k /\ owner' \in [Tags -> Kexts \cup {None}]
  BY <1>1 DEF IInv, Typed
<1>9. Typed' /\ QueuedIsTold'
  BY <1>1, <1>4, <1>8 DEF IInv, Typed, QueuedIsTold, PingKextd
<1>10. TagsAreFresh'
  <2>1. \A i \in DOMAIN records' : records'[i].tag < nextTag' /\ owner'[records'[i].tag] \in Kexts
    BY <1>1, <1>2, <1>6, <1>7, <1>8 DEF Tags
  <2>2. \A i, j \in DOMAIN records' : records'[i].tag = records'[j].tag => i = j
    BY <1>2, <1>6, <1>7 DEF IInv, TagsAreFresh
  <2>3. \A t \in Tags : t >= nextTag' => t >= nextTag
    BY <1>1 DEF Tags
  <2> QED BY <1>1, <2>1, <2>2, <2>3 DEF IInv, TagsAreFresh
<1>11. RecordsHaveCode'
  BY <1>1, <1>2, <1>6, <1>7, <1>8 DEF IInv, RecordsHaveCode
<1>12. StackIsShallow'
  BY <1>1 DEF IInv, StackIsShallow
<1>13. LeavingHasOnlyLate'
  <2> SUFFICES ASSUME NEW n \in DOMAIN stack, Leaving(stack[n]), NEW i \in DOMAIN records',
                      owner'[records'[i].tag] = stack[n].kext
               PROVE  records'[i].late
    BY <1>1 DEF LeavingHasOnlyLate
  <2>1. CASE i \in DOMAIN records /\ records'[i] = records[i]
    BY <1>7, <2>1 DEF IInv, LeavingHasOnlyLate
  <2>2. CASE records'[i] = r
    <3>1. stack[n].kext = k
      BY <1>2, <1>8, <2>2
    <3>2. DOMAIN stack = 1 .. Len(stack)
      BY DEF IInv, Typed
    <3>3. ~Idle
      BY <3>2 DEF Idle
    <3>4. Top.op \in {"start", "stop", "callback", "services"} /\ Top.kext = k
      BY <1>1, <3>3 DEF Runs
    <3>5. Len(stack) \in 1 .. 2 /\ Top = stack[Len(stack)]
      BY <3>3, TopFacts
    <3>6. n = Len(stack)
      BY <3>2, <3>5 DEF IInv, StackIsShallow, Leaving
    <3>7. Top.op # "stop"
      BY <1>1, <3>1, <3>5, <3>6 DEF IInv, StackIsShallow
    <3>8. Top.op = "services"
      BY <3>4, <3>5, <3>6, <3>7 DEF Leaving
    <3> QED BY <1>2, <2>2, <3>3, <3>8 DEF In
  <2> QED BY <1>6, <2>1, <2>2
<1>14. TimeoutSpansScans'
  <2> SUFFICES ASSUME NEW n \in DOMAIN stack, stack[n].op = "scan", ~disturbed
               PROVE  /\ ~panicked /\ stack[n].i <= Len(records')
                      /\ \A i \in 1 .. stack[n].i : records'[i].tag \notin stack[n].marked
    BY <1>1 DEF TimeoutSpansScans
  <2>1. /\ ~panicked /\ stack[n].i <= Len(records)
        /\ \A i \in 1 .. stack[n].i : records[i].tag \notin stack[n].marked
    BY DEF IInv, TimeoutSpansScans
  <2>2. stack[n].i \in Nat
    <3>1. stack[n] \in FrameType
      BY DEF IInv, Typed
    <3> QED BY <3>1 DEF FrameType
  <2>3. \A i \in 1 .. stack[n].i : records'[i] = records[i]
    BY <1>3, <1>4, <2>1, <2>2
  <2> QED BY <1>3, <1>4, <2>1, <2>2, <2>3
<1> QED BY <1>9, <1>10, <1>11, <1>12, <1>13, <1>14 DEF IInv

(* kextd answers a request. *)
LEMMA AnswerInvariant == ASSUME IInv, ~panicked, NEW t \in Tags, SendResource(t) PROVE IInv'
<1>1. Idle /\ UNCHANGED <<kexts, kextd, down, disturbed, panicked>>
  BY DEF SendResource
<1>2. CASE ~Recorded(t)
  BY <1>1, <1>2 DEF SendResource, IInv, Typed, TagsAreFresh, StackIsShallow, LeavingHasOnlyLate, RecordsHaveCode,
                    QueuedIsTold, TimeoutSpansScans, kextd, requests
<1>3. CASE Recorded(t)
  <2> DEFINE call == Frame("callback", owner[t], FALSE)
  <2>1. \/ Dequeue(t, "called") /\ stack' = Append(stack, call)
        \/ Dequeue(t, "dropped") /\ stack' = stack
    BY <1>3 DEF SendResource, DispatchResource
  <2>2. PICK how \in {"called", "cancelled", "dropped"} : Dequeue(t, how)
    BY <2>1
  <2>3. call \in FrameType /\ call.op = "callback" /\ call.kext \in Kexts
    <3>1. owner[t] \in Kexts
      BY <1>3, RecordFacts DEF Recorded
    <3> QED BY <3>1 DEF Frame, FrameType
  <2> HIDE DEF call
  <2>4. stack' = <<>> \/ stack' = <<call>>
    BY <1>1, <2>1 DEF Idle
  <2>5. /\ stack' \in Seq(FrameType) /\ Len(stack') <= 2 /\ Len(stack') # 2
        /\ \A n \in DOMAIN stack' : stack'[n] = call
    <3>1. CASE stack' = <<>>
      BY <3>1
    <3>2. CASE stack' = <<call>>
      <4>1. stack' \in Seq(FrameType) /\ Len(stack') = 1 /\ DOMAIN stack' = {1} /\ stack'[1] = call
        BY <2>3, <3>2
      <4> QED BY <4>1
    <3> QED BY <2>4, <3>1, <3>2
  <2>6. /\ records' \in Seq(Record) /\ TagsAreFresh'
        /\ ended' \in [Tags -> {"no", "called", "cancelled", "dropped"}]
        /\ RecordsHaveCode' /\ UNCHANGED <<nextTag, owner>>
    BY <1>1, <2>2, DequeueFacts, DequeueKeeps
  <2>7. Typed' /\ QueuedIsTold'
    BY <1>1, <2>5, <2>6 DEF IInv, Typed, QueuedIsTold, kextd
  <2>8. StackIsShallow' /\ LeavingHasOnlyLate' /\ TimeoutSpansScans'
    BY <2>3, <2>5 DEF StackIsShallow, LeavingHasOnlyLate, TimeoutSpansScans, Leaving
  <2> QED BY <2>6, <2>7, <2>8 DEF IInv
<1> QED BY <1>2, <1>3

-----------------------------------------------------------------------------
LEMMA StepInvariant == IInv /\ [Next]_vars => IInv'
<1> SUFFICES ASSUME IInv, [Next]_vars PROVE IInv'
  OBVIOUS
<1>1. CASE Operation
  BY <1>1, OperationInvariant, CancelInvariant, UnloadStopsInvariant, ScanInvariant DEF Operation
<1>2. CASE Request
  BY <1>2, AskInvariant, AnswerInvariant, CancelInvariant, QueueInvariant, BeginInvariant DEF Request
<1>3. CASE UNCHANGED vars
  BY <1>3 DEF vars, kextd, requests, IInv, Typed, TagsAreFresh, StackIsShallow, LeavingHasOnlyLate,
              RecordsHaveCode, QueuedIsTold, TimeoutSpansScans
<1> QED BY <1>1, <1>2, <1>3 DEF Next

(* The inductive invariant holds of every run. *)
THEOREM Invariant == Spec => []IInv
BY InitInvariant, StepInvariant, PTL DEF Spec

(* Every variable keeps its type: a tag is given out only while one is     *)
(* left, and what is recorded was given out.                               *)
THEOREM Typing == Spec => []TypeOK
<1>1. IInv => TypeOK
  <2> SUFFICES ASSUME IInv PROVE TypeOK
    OBVIOUS
  <2>1. \A i \in DOMAIN records : records[i].tag \in 0 .. nextTag - 1
    BY RecordFacts DEF IInv, Typed, Tags
  <2> QED BY <2>1 DEF IInv, Typed, TypeOK
<1> QED BY <1>1, Invariant, PTL

(* No kext leaves memory while a callback in it may be called, except for  *)
(* one that was asked for while its services were being terminated.        *)
THEOREM CodeStays == Spec => []RecordsHaveCode
BY Invariant, PTL DEF IInv

(* An active kextd has been told of whatever is queued for it.             *)
THEOREM KextdKnows == Spec => []QueuedIsTold
BY Invariant, PTL DEF IInv

(* The scan never calls what it has itself marked, and never looks past    *)
(* the end of the records, unless one of its callbacks cancels a request.  *)
THEOREM TwoScans == Spec => []TimeoutSpansScans
BY Invariant, PTL DEF IInv

-----------------------------------------------------------------------------
(* The ledger of requests: the record of a request is what pends.          *)
Outcome == [t \in Tags |-> IF Recorded(t) THEN "pending"
                           ELSE IF ended[t] = "no" THEN "none" ELSE ended[t]]

LEMMA LedgerSteps ==
  /\ UNCHANGED <<Running, owner, Outcome>> <=> UNCHANGED Ledger!vars
  /\ \A k : Ledger!Starts(k) <=> Running' = Running \cup {k} /\ UNCHANGED <<owner, Outcome>>
  /\ \A k : Ledger!Stops(k) <=> k \in Running /\ Running' = Running \ {k} /\ UNCHANGED <<owner, Outcome>>
  /\ \A t, k : Ledger!Ask(t, k) <=> /\ Outcome[t] = "none" /\ k \in Running
                                    /\ owner' = [owner EXCEPT ![t] = k]
                                    /\ Outcome' = [Outcome EXCEPT ![t] = "pending"]
                                    /\ UNCHANGED Running
  /\ \A t, how : Ledger!Ends(t, how) <=> /\ Outcome[t] = "pending"
                                         /\ how = "called" => owner[t] \in Running
                                         /\ how = "dropped" => owner[t] \notin Running
                                         /\ Outcome' = [Outcome EXCEPT ![t] = how]
                                         /\ UNCHANGED <<Running, owner>>
<1>1. UNCHANGED <<Running, owner, Outcome>> <=> UNCHANGED Ledger!vars
  BY Zenon DEF Ledger!vars, Outcome
<1>2. \A k : Ledger!Starts(k) <=> Running' = Running \cup {k} /\ UNCHANGED <<owner, Outcome>>
  BY Zenon DEF Ledger!Starts, Outcome
<1>3. \A k : Ledger!Stops(k) <=> k \in Running /\ Running' = Running \ {k} /\ UNCHANGED <<owner, Outcome>>
  BY Zenon DEF Ledger!Stops, Outcome
<1>4. \A t, k : Ledger!Ask(t, k) <=> /\ Outcome[t] = "none" /\ k \in Running
                                     /\ owner' = [owner EXCEPT ![t] = k]
                                     /\ Outcome' = [Outcome EXCEPT ![t] = "pending"]
                                     /\ UNCHANGED Running
  BY Zenon DEF Ledger!Ask, Outcome
<1>5. \A t, how : Ledger!Ends(t, how) <=> /\ Outcome[t] = "pending"
                                          /\ how = "called" => owner[t] \in Running
                                          /\ how = "dropped" => owner[t] \notin Running
                                          /\ Outcome' = [Outcome EXCEPT ![t] = how]
                                          /\ UNCHANGED <<Running, owner>>
  BY Zenon DEF Ledger!Ends, Outcome
<1> QED BY <1>1, <1>2, <1>3, <1>4, <1>5

(* What leaves the records alone is a step of one kext, or none.           *)
LEMMA RecordsStay ==
  ASSUME UNCHANGED <<records, ended>>
  PROVE  UNCHANGED Outcome
BY DEF Outcome, Recorded

LEMMA KextSteps ==
  ASSUME IInv, NEW k \in Kexts, NEW to \in {"absent", "loaded", "starting", "started", "stopping"},
         kexts' = [kexts EXCEPT ![k] = to], UNCHANGED requests
  PROVE  [Ledger!Next]_(Ledger!vars)
<1>1. UNCHANGED <<owner, Outcome>>
  BY RecordsStay DEF requests
<1>2. kexts \in [Kexts -> {"absent", "loaded", "starting", "started", "stopping"}]
  BY DEF IInv, Typed
<1>3. CASE to \in {"starting", "started", "stopping"}
  <2>1. Running' = Running \cup {k}
    BY <1>2, <1>3 DEF Running
  <2>2. Ledger!Starts(k)
    BY <1>1, <2>1, LedgerSteps, Zenon
  <2> QED BY <2>2 DEF Ledger!Next
<1>4. CASE to \notin {"starting", "started", "stopping"}
  <2>1. Running' = Running \ {k}
    BY <1>2, <1>4 DEF Running
  <2>2. CASE k \in Running
    <3>1. Ledger!Stops(k)
      BY <1>1, <2>1, <2>2, LedgerSteps, Zenon
    <3> QED BY <3>1 DEF Ledger!Next
  <2>3. CASE k \notin Running
    <3>1. UNCHANGED <<Running, owner, Outcome>>
      BY <1>1, <2>1, <2>3
    <3>2. UNCHANGED Ledger!vars
      BY <3>1, LedgerSteps, Zenon
    <3> QED BY <3>2
  <2> QED BY <2>2, <2>3
<1> QED BY <1>3, <1>4

(* What leaves the kexts alone too is none. *)
LEMMA Stutters ==
  ASSUME UNCHANGED <<kexts, owner, Outcome>>
  PROVE  [Ledger!Next]_(Ledger!vars)
<1>1. UNCHANGED <<Running, owner, Outcome>>
  BY DEF Running
<1> QED BY <1>1, LedgerSteps, Zenon

(* A record that goes ends its request, and no other. *)
LEMMA DequeueSteps ==
  ASSUME IInv, NEW t \in Tags, NEW how \in {"called", "cancelled", "dropped"}, Dequeue(t, how),
         UNCHANGED kexts,
         how = "called" => owner[t] \in Running,
         how = "dropped" => owner[t] \notin Running
  PROVE  [Ledger!Next]_(Ledger!vars)
<1>1. Recorded(t) /\ (\A j \in DOMAIN records' : records'[j].tag # t)
  BY DequeueFacts
<1>2. ended' = [ended EXCEPT ![t] = how] /\ UNCHANGED owner
  BY DEF Dequeue
<1>3. PICK i \in DOMAIN records :
        /\ records[i].tag = t
        /\ Len(records') = Len(records) - 1
        /\ \A j \in DOMAIN records' :
             /\ j < i => j \in DOMAIN records /\ records'[j] = records[j]
             /\ j >= i => j + 1 \in DOMAIN records /\ records'[j] = records[j + 1]
  BY DequeueFacts
<1>4. /\ DOMAIN records = 1 .. Len(records) /\ Len(records) \in Nat
      /\ DOMAIN records' = 1 .. Len(records) - 1
  <2>1. records' \in Seq(Record) /\ records \in Seq(Record)
    BY DequeueFacts DEF IInv, Typed
  <2> QED BY <1>3, <2>1, LenProperties
<1>5. ASSUME NEW u \in Tags, u # t PROVE Recorded(u)' <=> Recorded(u)
  <2>1. ASSUME Recorded(u)' PROVE Recorded(u)
    <3>1. PICK j \in DOMAIN records' : records'[j].tag = u
      BY <2>1 DEF Recorded
    <3>2. PICK l \in DOMAIN records : records'[j] = records[l]
      BY DequeueKeeps
    <3> QED BY <3>1, <3>2 DEF Recorded
  <2>2. ASSUME Recorded(u) PROVE Recorded(u)'
    <3>1. PICK l \in DOMAIN records : records[l].tag = u
      BY <2>2 DEF Recorded
    <3>2. CASE l < i
      <4>1. l \in DOMAIN records' /\ records'[l] = records[l]
        BY <1>3, <1>4, <3>2
      <4> QED BY <3>1, <4>1 DEF Recorded
    <3>3. CASE l > i
      <4>1. l - 1 \in DOMAIN records' /\ l - 1 >= i /\ l - 1 + 1 = l
        BY <1>4, <3>3
      <4>2. records'[l - 1] = records[l]
        BY <1>3, <4>1
      <4> QED BY <3>1, <4>1, <4>2 DEF Recorded
    <3>4. l # i
      BY <1>3, <1>5, <3>1
    <3> QED BY <1>4, <3>2, <3>3, <3>4
  <2> QED BY <2>1, <2>2
<1>6. ~Recorded(t)'
  BY <1>1 DEF Recorded
<1>7. Outcome' = [Outcome EXCEPT ![t] = how]
  <2>1. ended \in [Tags -> {"no", "called", "cancelled", "dropped"}]
    BY DEF IInv, Typed
  <2>2. ASSUME NEW u \in Tags PROVE Outcome'[u] = IF u = t THEN how ELSE Outcome[u]
    <3>1. CASE u = t
      BY <1>2, <1>6, <2>1, <3>1 DEF Outcome
    <3>2. CASE u # t
      BY <1>2, <1>5, <2>1, <3>2 DEF Outcome
    <3> QED BY <3>1, <3>2
  <2> QED BY <2>2 DEF Outcome
<1>8. Outcome[t] = "pending"
  BY <1>1 DEF Outcome
<1>9. UNCHANGED <<Running, owner>>
  BY <1>2 DEF Running
<1>10. Ledger!Ends(t, how)
  BY <1>7, <1>8, <1>9, LedgerSteps, Zenon
<1> QED BY <1>10 DEF Ledger!Next

(* A new record is a new request. *)
LEMMA AskSteps ==
  ASSUME IInv, NEW k \in Kexts, RequestResource(k), NEW t \in Tags, t = nextTag
  PROVE  [Ledger!Next]_(Ledger!vars)
<1>1. /\ t = nextTag /\ k \in Running /\ owner' = [owner EXCEPT ![t] = k]
      /\ UNCHANGED <<kexts, ended>>
  BY DEF RequestResource, Refused, IInv, Typed, Tags
<1>2. PICK r \in Record : r.tag = t /\ records' = Append(records, r)
  <2>1. [tag |-> nextTag, stale |-> FALSE, late |-> In("services")] \in Record
    BY <1>1 DEF Record, In
  <2> QED BY <2>1 DEF RequestResource
<1>3. records \in Seq(Record) /\ Len(records) \in Nat /\ DOMAIN records = 1 .. Len(records)
  BY DEF IInv, Typed
<1>4. /\ records' \in Seq(Record) /\ Len(records') = Len(records) + 1
      /\ (\A i \in 1 .. Len(records) : records'[i] = records[i])
      /\ records'[Len(records) + 1] = r
  BY <1>2, <1>3, AppendProperties
<1>5. DOMAIN records' = 1 .. Len(records) + 1
  BY <1>3, <1>4, LenProperties
<1>6. ~Recorded(t)
  BY <1>1, RecordFacts DEF Recorded, Tags
<1>7. Recorded(t)'
  BY <1>2, <1>3, <1>4, <1>5 DEF Recorded
<1>8. ASSUME NEW u \in Tags, u # t PROVE Recorded(u)' <=> Recorded(u)
  <2>1. Len(records) + 1 \in DOMAIN records' /\ DOMAIN records' = DOMAIN records \cup {Len(records) + 1}
    BY <1>3, <1>5
  <2>2. \A i \in DOMAIN records : records'[i].tag = records[i].tag
    BY <1>3, <1>4
  <2>3. records'[Len(records) + 1].tag # u
    BY <1>2, <1>4, <1>8
  <2> QED BY <2>1, <2>2, <2>3 DEF Recorded
<1>9. Outcome[t] = "none"
  BY <1>1, <1>6 DEF Outcome, IInv, TagsAreFresh, Tags
<1>10. Outcome' = [Outcome EXCEPT ![t] = "pending"]
  <2>1. ASSUME NEW u \in Tags PROVE Outcome'[u] = IF u = t THEN "pending" ELSE Outcome[u]
    BY <1>1, <1>7, <1>8 DEF Outcome
  <2> QED BY <2>1 DEF Outcome
<1>11. UNCHANGED Running
  BY <1>1 DEF Running
<1>12. Ledger!Ask(t, k)
  BY <1>1, <1>9, <1>10, <1>11, LedgerSteps, Zenon
<1> QED BY <1>1, <1>12 DEF Ledger!Next

LEMMA DispatchSteps ==
  ASSUME IInv, NEW t \in Tags, NEW below, DispatchResource(t, below), UNCHANGED kexts
  PROVE  [Ledger!Next]_(Ledger!vars)
BY DequeueSteps DEF DispatchResource

LEMMA StepRefines == ASSUME IInv, [Next]_vars PROVE [Ledger!Next]_(Ledger!vars)
<1>1. CASE UNCHANGED <<kexts, records, owner, ended>>
  BY <1>1, RecordsStay, Stutters
<1>2. CASE Operation
  <2>1. CASE CancelRecord
    <3>1. PICK i \in DOMAIN records : Dequeue(records[i].tag, "cancelled")
      BY <2>1 DEF CancelRecord, RecordsOf
    <3>2. records[i].tag \in Tags /\ UNCHANGED kexts
      BY <2>1, RecordFacts DEF CancelRecord
    <3> QED BY <3>1, <3>2, DequeueSteps
  <2>2. CASE ScanCalls
    <3>1. records[Top.i].tag \in Tags /\ UNCHANGED kexts
      BY <2>2, RecordFacts DEF ScanCalls
    <3> QED BY <2>2, <3>1, DispatchSteps DEF ScanCalls
  <2>3. CASE ScanMarks
    <3>1. Top.i \in DOMAIN records /\ records' = [records EXCEPT ![Top.i].stale = TRUE]
          /\ UNCHANGED <<kexts, owner, ended>>
      BY <2>3 DEF ScanMarks
    <3>2. \A i \in DOMAIN records : records[i] \in Record
      BY RecordFacts
    <3>3. DOMAIN records' = DOMAIN records /\ \A i \in DOMAIN records : records'[i].tag = records[i].tag
      BY <3>1, <3>2 DEF Record, IInv, Typed
    <3>4. \A u \in Tags : Recorded(u)' <=> Recorded(u)
      BY <3>3 DEF Recorded
    <3>5. UNCHANGED Outcome
      BY <3>1, <3>4 DEF Outcome
    <3> QED BY <3>1, <3>5, Stutters
  <2>4. CASE StartSucceeds \/ StartFails \/ StopSucceeds \/ StopFails \/ UnloadStops \/ Unload
    <3>1. Top.kext \in Kexts
      BY <2>4, TopFacts DEF StartSucceeds, StartFails, StopSucceeds, StopFails, UnloadStops, Unload, In
    <3>2. \E to \in {"absent", "loaded", "starting", "started", "stopping"} :
            kexts' = [kexts EXCEPT ![Top.kext] = to] /\ UNCHANGED requests
      BY <2>4 DEF StartSucceeds, StartFails, StopSucceeds, StopFails, UnloadStops, Unload
    <3> QED BY <3>1, <3>2, KextSteps
  <2>5. CASE CallbackReturns \/ CancelEnds \/ RemoveBegins \/ ServicesTerminated \/ UnloadRefused
             \/ ScanPanics \/ ScanCallFails \/ ScanEnds \/ (\E k \in Kexts : ScanRemoves(k))
    BY <1>1, <2>5 DEF CallbackReturns, CancelEnds, RemoveBegins, ServicesTerminated, UnloadRefused,
                      ScanPanics, ScanCallFails, ScanEnds, ScanRemoves, requests
  <2> QED BY <1>2, <2>1, <2>2, <2>3, <2>4, <2>5 DEF Operation
<1>3. CASE Request
  <2>1. CASE \E k \in Kexts : RequestResource(k)
    <3>1. nextTag \in Tags
      BY <2>1 DEF RequestResource, Refused, IInv, Typed, Tags
    <3> QED BY <2>1, <3>1, AskSteps
  <2>2. CASE \E t \in Tags : CancelRequest(t)
    BY <2>2, DequeueSteps DEF CancelRequest
  <2>3. CASE \E t \in Tags : SendResource(t)
    <3>1. PICK t \in Tags : SendResource(t)
      BY <2>3
    <3>2. CASE Recorded(t)
      BY <3>1, <3>2, DispatchSteps DEF SendResource
    <3>3. CASE ~Recorded(t)
      BY <1>1, <3>1, <3>3 DEF SendResource, requests
    <3> QED BY <3>2, <3>3
  <2>4. CASE \E k \in Kexts : StopKext(k) \/ (\E flag \in BOOLEAN : Start(k, flag))
    <3>1. PICK k \in Kexts, to \in {"starting", "stopping"} :
            kexts' = [kexts EXCEPT ![k] = to] /\ UNCHANGED requests
      BY <2>4 DEF StopKext, Start
    <3> QED BY <3>1, KextSteps
  <2>5. CASE \/ \E k \in Kexts : RequestFails(k) \/ DeferLoad(k) \/ DeferLoadFails(k)
             \/ \E k \in Kexts, flag \in BOOLEAN : RemoveKext(k, flag)
             \/ \E active \in BOOLEAN : SetKextdActive(active)
             \/ GetKernelRequests \/ WillShutdown \/ ScanBegins
    BY <1>1, <2>5 DEF RequestFails, DeferLoad, DeferLoadFails, RemoveKext, SetKextdActive, GetKernelRequests,
                      WillShutdown, ScanBegins, requests
  <2> QED BY <1>3, <2>1, <2>2, <2>3, <2>4, <2>5 DEF Request
<1>4. CASE UNCHANGED vars
  BY <1>1, <1>4 DEF vars, requests
<1> QED BY <1>2, <1>3, <1>4 DEF Next

LEMMA InitRefines == Init => Ledger!Init
<1> SUFFICES ASSUME Init PROVE Ledger!Init
  OBVIOUS
<1>1. Running = {}
  BY DEF Init, Running
<1>2. Outcome = [t \in Tags |-> "none"] /\ owner = [t \in Tags |-> None]
  BY DEF Init, Outcome, Recorded
<1> QED BY <1>1, <1>2, Zenon DEF Ledger!Init, Outcome

(* A request ends once, by its callback only while its kext runs, and      *)
(* without a word only when the kext does not: the array of records with   *)
(* its scan, its cancellations and the kexts that go implements the ledger.*)
THEOREM Refinement == Spec => ImplementsLedger
<1>1. IInv /\ [Next]_vars => [Ledger!Next]_(Ledger!vars)
  BY StepRefines
<1> QED BY <1>1, InitRefines, Invariant, PTL DEF Spec, ImplementsLedger, Ledger!Spec
=============================================================================
