--------------------------- MODULE OSKextSummaries ---------------------------
(***************************************************************************)
(* Kexts are loaded and unloaded with sKextLock held, and looked at without*)
(* it: the kernel asks which kext an address belongs to (sKextAccounts,    *)
(* under the spin lock sKextAccountsLock), a debugger or a panic reads     *)
(* gLoadedKextSummaries under no lock at all, and somebody who wants the   *)
(* profile of a kext sleeps until that kext is unloaded                    *)
(* (src/libkern/src/OSKext.cpp).                                           *)
(*                                                                         *)
(* One operation is under way at a time; between its steps everybody else  *)
(* may look.  What OSKextLoad says of dependencies is left out here.       *)
(***************************************************************************)
EXTENDS OSKextImages

CONSTANTS
  TypicalLoadCount,  \* kOSKextTypicalLoadCount
  Waiters,           \* the threads that wait for the profile of a kext
  Watched,           \* bound: the kexts that somebody asks about, that allocate memory,
                     \* and whose start or stop functions may fail
  MaxLoads           \* bound: how often kexts are loaded

ASSUME SummaryAssumption ==
  TypicalLoadCount \in Nat /\ MaxLoads \in Nat /\ Watched \subseteq Kexts

VARIABLES
  op,           \* the operation that holds sKextLock, its kext and where it is
  loadedKexts,  \* sLoadedKexts, without the kernel
  started,      \* the kexts with flags.started
  accounts,     \* the OSKextAccounts made so far: kext, site.tag, freed
  account,      \* the account of each kext, 0 for none
  table,        \* gLoadedKextSummaries
  draft,        \* the table that updateLoadedKextSummaries has allocated
  active,       \* sKextAccounts: address ranges with their accounts
  stale,        \* history: the last update did not get to its end
  panicList,    \* loaded_kext_paniclist
  dtrace,       \* whether DTrace is there, and the kexts it has yet to look at
  reader,       \* the kext that copyKextUUIDForAddress has retained
  sleepers      \* each waiter: its kext, whether listed there, whether asleep

vars == <<imageVars, op, loadedKexts, started, accounts, account, table, draft, active,
          stale, panicList, dtrace, reader, sleepers>>

tables == <<table, draft, active, stale>>
others == <<panicList, dtrace, reader, sleepers>>

Idle == op.at = "idle"
Free == [name |-> "none", kext |-> None, at |-> "idle"]
At(name, label) == op.name = name /\ op.at = label
Goto(label) == op' = [op EXCEPT !.at = label]

NoTable == [room |-> 0, entries |-> <<>>, num |-> 0]
Away == [kext |-> None, listed |-> FALSE, asleep |-> FALSE]

(* The kexts in the order in which a panic lists them: the last loaded     *)
(* first, libraries after the others.                                      *)
PanicOrder(kexts) ==
  LET latest == Reverse(kexts)
  IN  SelectSeq(latest, LAMBDA k : k \notin Libraries)
      \o SelectSeq(latest, LAMBDA k : k \in Libraries)

Init ==
  /\ ImageInit
  /\ op = Free
  /\ loadedKexts = <<>> /\ started = {}
  /\ accounts = <<>> /\ account = [k \in Kexts |-> 0]
  /\ table = NoTable /\ draft = NoTable /\ active = <<>> /\ stale = FALSE
  /\ panicList = PanicOrder(loadedKexts) /\ dtrace = [here |-> FALSE, count |-> 0] /\ reader = None
  /\ sleepers = [w \in Waiters |-> Away]

-----------------------------------------------------------------------------
(* Loading.  The kexts of a prelinked kernel are read before any is loaded.*)
ReadPrelinked(k) ==
  /\ Idle /\ accounts = <<>>
  /\ InitWithPrelinkedInfoDict(k)
  /\ UNCHANGED <<op, loadedKexts, started, accounts, account, tables, others>>

(* load: a prelinked kext goes on to register_kmod. *)
Load(k) ==
  /\ Idle /\ Len(accounts) < MaxLoads
  /\ k \notin ToSet(loadedKexts) /\ account[k] = 0
  /\ k \in Prelinked \ prelinked => accounts # <<>>
  /\ IF k \in prelinked
     THEN UNCHANGED imageVars /\ op' = [name |-> "load", kext |-> k, at |-> "attributes"]
     ELSE KernAllocate(k) /\ op' = [name |-> "load", kext |-> k, at |-> "link"]
  /\ UNCHANGED <<loadedKexts, started, accounts, account, tables, others>>

FailLoad ==
  /\ DropImage(op.kext) /\ op' = Free
  /\ UNCHANGED <<loadedKexts, started, accounts, account, tables, others>>

Link ==
  /\ At("load", "link")
  /\ \/ "link" \in Faults /\ FailLoad
     \/ /\ KxldLinkFile(op.kext) /\ Goto("attributes")
        /\ UNCHANGED <<loadedKexts, started, accounts, account, tables, others>>

(* setVMAttributes fails at some segment: what it did so far is undone by  *)
(* freeing the pages.                                                      *)
Attributes ==
  /\ At("load", "attributes")
  /\ \/ "vm" \in Faults /\ FailLoad
     \/ /\ SetVMAttributes(op.kext, PagesOf(image[op.kext])) /\ Goto("account")
        /\ UNCHANGED <<loadedKexts, started, accounts, account, tables, others>>

(* saveLoadedKextPanicList: without memory the old list stays. *)
SaveLoadedKextPanicList(kexts) ==
  \/ panicList' = PanicOrder(kexts)
  \/ "memory" \in Faults /\ UNCHANGED panicList

(* The account is made, and the kext becomes one of the loaded. *)
EnterLoaded ==
  /\ At("load", "account")
  /\ \/ "memory" \in Faults /\ FailLoad
     \/ LET k == op.kext
        IN  /\ accounts' = Append(accounts, [kext |-> k, tag |-> FALSE, freed |-> FALSE])
            /\ account' = [account EXCEPT ![k] = Len(accounts')]
            /\ loadedKexts' = Append(loadedKexts, k)
            /\ SaveLoadedKextPanicList(loadedKexts')
            /\ Goto("update")
            /\ UNCHANGED <<imageVars, started, tables, dtrace, reader, sleepers>>

-----------------------------------------------------------------------------
(* updateLoadedKextSummaries, with sKextSummariesLock held.                *)
Room(n) == IF n < TypicalLoadCount THEN TypicalLoadCount ELSE n

(* finish: the lock goes, and a table that was allocated for nothing.  An  *)
(* unload ends here.                                                       *)
EndUpdate(ok) ==
  /\ stale' = ~ok
  /\ draft' = NoTable
  /\ IF op.name = "load" THEN Goto("updated") ELSE op' = Free

(* Without loaded kexts there is nothing to do.  A table that is too small *)
(* is freed first, and none is there if no larger one can be had; one that *)
(* is large enough is made writable.                                       *)
SizeSummaries ==
  /\ op.at = "update"
  /\ LET needed == Room(Len(loadedKexts))
     IN  IF loadedKexts = <<>>
         THEN EndUpdate(FALSE) /\ UNCHANGED table
         ELSE IF table.room < needed
         THEN /\ table' = NoTable
              /\ \/ draft' = [NoTable EXCEPT !.room = needed] /\ Goto("fill") /\ UNCHANGED stale
                 \/ "memory" \in Faults /\ EndUpdate(FALSE)
         ELSE \/ /\ table' = [table EXCEPT !.entries = <<>>, !.num = 0]
                 /\ Goto("fill") /\ UNCHANGED <<draft, stale>>
              \/ "vm" \in Faults /\ EndUpdate(FALSE) /\ UNCHANGED table
  /\ UNCHANGED <<imageVars, loadedKexts, started, accounts, account, active, others>>

Filled == IF draft.room > 0 THEN draft ELSE table

(* Mutant: a summary is counted before it is filled in. *)
BugFillSummary(t) ==
  LET k == loadedKexts[t.num + 1]
  IN  IF Len(t.entries) = t.num
      THEN [t EXCEPT !.num = @ + 1]
      ELSE [t EXCEPT !.entries = Append(@, [kext |-> k, at |-> info[k].at, size |-> info[k].size])]

(* updateLoadedKextSummary writes the next summary; then it is counted.    *)
FillSummary(t) ==
  IF Len(t.entries) = t.num
  THEN LET k == loadedKexts[t.num + 1]
       IN  [t EXCEPT !.entries = Append(@, [kext |-> k, at |-> info[k].at, size |-> info[k].size])]
  ELSE [t EXCEPT !.num = @ + 1]

FillSummaries ==
  /\ op.at = "fill" /\ Filled.num < Len(loadedKexts)
  /\ IF draft.room > 0
     THEN draft' = FillSummary(draft) /\ UNCHANGED table
     ELSE table' = FillSummary(table) /\ UNCHANGED draft
  /\ UNCHANGED <<imageVars, op, loadedKexts, started, accounts, account, active, stale, others>>

(* updateActiveAccount: the range and the account of a kext. *)
ActiveAccount(k) == [at |-> info[k].at, end |-> info[k].at + info[k].size, account |-> account[k]]

(* Mutant: a new entry goes to the end. *)
BugInserted(list, e) == Append(list, e)

(* A new entry goes before the first that has a greater address. *)
Inserted(list, e) ==
  LET greater == {i \in DOMAIN list : e.at < list[i].at}
  IN  InsertAt(list, IF greater = {} THEN Len(list) + 1 ELSE Min(greater), e)

(* The accounts of the loaded kexts, one by one, in order of address. *)
AccountingList ==
  LET list[n \in 0 .. Len(loadedKexts)] ==
        IF n = 0 THEN <<>> ELSE Inserted(list[n - 1], ActiveAccount(loadedKexts[n]))
  IN  list[Len(loadedKexts)]

(* The table is write protected and takes its place. *)
Publish ==
  /\ op.at = "fill" /\ Filled.num = Len(loadedKexts)
  /\ \/ /\ table' = Filled /\ draft' = NoTable
        /\ Goto("accounts") /\ UNCHANGED stale
     \/ "vm" \in Faults /\ EndUpdate(FALSE) /\ UNCHANGED table
  /\ UNCHANGED <<imageVars, loadedKexts, started, accounts, account, active, others>>

(* And so does the list, under sKextAccountsLock. *)
SwapAccounts ==
  /\ op.at = "accounts"
  /\ active' = AccountingList
  /\ EndUpdate(TRUE)
  /\ UNCHANGED <<imageVars, loadedKexts, started, accounts, account, table, others>>

-----------------------------------------------------------------------------
(* The rest of load: registerWithDTrace, which frees link edit. *)
Register ==
  /\ At("load", "updated") /\ Goto("start")
  /\ IF dtrace.here THEN RegisterWithDTrace({op.kext} \ probed) ELSE UNCHANGED imageVars
  /\ UNCHANGED <<loadedKexts, started, accounts, account, tables, others>>

Start ==
  /\ At("load", "start") /\ op' = Free
  /\ \/ MappingIsValid(op.kext) /\ started' = started \cup {op.kext}
     \/ /\ MappingIsValid(op.kext) => "start" \in Faults /\ op.kext \in Watched
        /\ UNCHANGED started
  /\ UNCHANGED <<imageVars, loadedKexts, accounts, account, tables, others>>

-----------------------------------------------------------------------------
(* unload.  Bound: not of a kext that an unload left half way.             *)
Unload(k) ==
  /\ Idle
  /\ k \in ToSet(loadedKexts) /\ reader # k
  /\ op' = [name |-> "unload", kext |-> k, at |-> "stop"]
  /\ UNCHANGED <<imageVars, loadedKexts, started, accounts, account, tables, others>>

Stop ==
  /\ At("unload", "stop")
  /\ \/ started' = started \ {op.kext} /\ Goto("profile") /\ UNCHANGED panicList
     \/ /\ "stop" \in Faults /\ op.kext \in started \cap Watched /\ UNCHANGED started
        /\ SaveLoadedKextPanicList(loadedKexts) /\ Goto("update")
  /\ UNCHANGED <<imageVars, loadedKexts, accounts, account, tables, dtrace, reader, sleepers>>

(* Mutant: they are taken off the list without a wakeup. *)
BugServe(k) ==
  sleepers' = [w \in Waiters |-> [sleepers[w] EXCEPT !.listed = @ /\ sleepers[w].kext # k]]

(* Everybody who waits for the profile of k gets it and is taken off the   *)
(* list; each time one thread that sleeps on sKextLock is woken, whichever.*)
Serve(k) ==
  LET listed == {w \in Waiters : sleepers[w].kext = k /\ sleepers[w].listed}
      asleep == {w \in Waiters : sleepers[w].asleep}
      wakeups == IF Cardinality(listed) < Cardinality(asleep)
                 THEN Cardinality(listed) ELSE Cardinality(asleep)
  IN  \E woken \in kSubset(wakeups, asleep) :
        sleepers' = [w \in Waiters |-> [sleepers[w] EXCEPT
                       !.listed = @ /\ w \notin listed, !.asleep = @ /\ w \notin woken]]

Profile ==
  /\ At("unload", "profile") /\ Serve(op.kext) /\ Goto("retire")
  /\ UNCHANGED <<imageVars, loadedKexts, started, accounts, account, tables, panicList, dtrace, reader>>

(* Under sKextAccountsLock: the account forgets the kext, and is freed     *)
(* afterwards unless memory was allocated with its tag.                    *)
RetiredAccount(a) == [a EXCEPT !.kext = None, !.freed = ~a.tag]

Retire ==
  LET k == op.kext
  IN  /\ At("unload", "retire") /\ Goto("free")
      /\ \E i \in DOMAIN loadedKexts :
           loadedKexts[i] = k /\ loadedKexts' = RemoveAt(loadedKexts, i)
      /\ accounts' = [accounts EXCEPT ![account[k]] = RetiredAccount(@)]
      /\ UNCHANGED <<imageVars, started, account, tables, others>>

(* The image is unwired and freed; if it cannot be unwired the kext keeps  *)
(* it, and flags.loaded, though it is no longer among the loaded.          *)
FreeImage ==
  LET k == op.kext
  IN  /\ At("unload", "free") /\ Goto("update")
      /\ SaveLoadedKextPanicList(loadedKexts)
      /\ \/ UnloadImage(k) /\ account' = [account EXCEPT ![k] = 0]
         \/ /\ "vm" \in Faults
            /\ probed' = probed \ {k}
            /\ UNCHANGED <<memory, image, info, wired, protected, prelinked, corrupt, account>>
      /\ UNCHANGED <<loadedKexts, started, accounts, tables, dtrace, reader, sleepers>>

-----------------------------------------------------------------------------
(* Bound: what goes on beside an operation takes no step where it would    *)
(* see what it sees before or after it.                                    *)
Quiet == op.at \in {"idle", "start", "stop", "retire", "free", "accounts"}

(* DTrace arrives; registerKextsWithDTrace counts the loaded kexts before  *)
(* it takes sKextLock.                                                     *)
DTraceArrives ==
  /\ op.at \in {"idle", "update"} /\ ~dtrace.here /\ accounts # <<>>
  /\ dtrace' = [here |-> TRUE, count |-> Len(loadedKexts)]
  /\ UNCHANGED <<imageVars, op, loadedKexts, started, accounts, account, tables, panicList,
                 reader, sleepers>>

RegisterKextsWithDTrace ==
  /\ Idle /\ dtrace.count > 0
  /\ dtrace' = [dtrace EXCEPT !.count = 0]
  /\ RegisterWithDTrace({loadedKexts[i] : i \in DOMAIN loadedKexts \cap 1 .. dtrace.count} \ probed)
  /\ UNCHANGED <<op, loadedKexts, started, accounts, account, tables, panicList, reader, sleepers>>

(* One turn of the binary search over sKextAccounts for an address: of the *)
(* lim entries from base on (from 0), it looks at the one in the middle.   *)
Halved(s, p) ==
  LET half == s.lim \div 2
      e == active[s.base + half + 1]
  IN  IF e.at <= p /\ p < e.end THEN [s EXCEPT !.lim = 0, !.account = e.account]
      ELSE IF p > e.at THEN [s EXCEPT !.lim = (s.lim - 1) \div 2, !.base = s.base + half + 1]
      ELSE [s EXCEPT !.lim = half]

(* The account listed for an address, or 0.  Each turn leaves fewer        *)
(* entries, so that there are none left after as many turns as entries.    *)
Find(p) ==
  LET search[n \in 0 .. Len(active)] ==
        IF n = 0 THEN [lim |-> Len(active), base |-> 0, account |-> 0]
        ELSE IF search[n - 1].lim = 0 THEN search[n - 1]
        ELSE Halved(search[n - 1], p)
  IN  search[Len(active)].account

(* OSKextGetAllocationSiteForCaller: code at p allocates memory, which is  *)
(* charged to the tag of its account.                                      *)
GetAllocationSiteForCaller(p) ==
  /\ Quiet
  /\ \E k \in started : p \in PagesOf(info[k]) /\ PartAt(k, p) = "text"
  /\ Find(p) # 0 /\ ~accounts[Find(p)].tag /\ accounts[Find(p)].kext \in Watched
  /\ accounts' = [accounts EXCEPT ![Find(p)].tag = TRUE]
  /\ UNCHANGED <<imageVars, op, loadedKexts, started, account, tables, others>>

(* OSKextFreeSite: the last of that memory is gone, after the unload. *)
FreeSite(a) ==
  /\ Quiet
  /\ accounts[a].tag /\ accounts[a].kext = None /\ ~accounts[a].freed
  /\ accounts' = [accounts EXCEPT ![a] = [@ EXCEPT !.tag = FALSE, !.freed = TRUE]]
  /\ UNCHANGED <<imageVars, op, loadedKexts, started, account, tables, others>>

(* copyKextUUIDForAddress retains the kext of an address under the spin    *)
(* lock and reads its UUID afterwards.  A freed account that is still      *)
(* listed is read as it was left.                                          *)
CopyKextUUIDForAddress(p) ==
  /\ Quiet /\ reader = None /\ Find(p) # 0
  /\ accounts[Find(p)].kext \in Watched
  /\ reader' = accounts[Find(p)].kext
  /\ UNCHANGED <<imageVars, op, loadedKexts, started, accounts, account, tables, panicList,
                 dtrace, sleepers>>

CopyTextUUID ==
  /\ Quiet /\ reader # None /\ reader' = None
  /\ UNCHANGED <<imageVars, op, loadedKexts, started, accounts, account, tables, panicList,
                 dtrace, sleepers>>

(* OSKextGrabPgoData, when it is to wait for the unload.  Bound: all who   *)
(* sleep wait for the same kext, as all sleep on one condition.            *)
GrabPgoData(w, k) ==
  /\ Idle /\ sleepers[w] = Away /\ k \in ToSet(loadedKexts) \cap Watched
  /\ \A v \in Waiters : sleepers[v].kext \in {None, k}
  /\ sleepers' = [sleepers EXCEPT ![w] = [kext |-> k, listed |-> TRUE, asleep |-> TRUE]]
  /\ UNCHANGED <<imageVars, op, loadedKexts, started, accounts, account, tables, panicList,
                 dtrace, reader>>

(* It has been woken, has sKextLock back, and takes itself off the list. *)
PgoReturns(w) ==
  /\ Idle /\ sleepers[w].kext # None /\ ~sleepers[w].asleep
  /\ sleepers' = [sleepers EXCEPT ![w] = Away]
  /\ UNCHANGED <<imageVars, op, loadedKexts, started, accounts, account, tables, panicList,
                 dtrace, reader>>

(* A wait ends without a wakeup. *)
PgoInterrupted(w) ==
  /\ Quiet /\ sleepers[w].asleep
  /\ sleepers' = [sleepers EXCEPT ![w].asleep = FALSE]
  /\ UNCHANGED <<imageVars, op, loadedKexts, started, accounts, account, tables, panicList,
                 dtrace, reader>>

(* printKextsInBacktrace: the kexts of the summaries that p lies in. *)
KextsInBacktrace(p) ==
  {e.kext : e \in {table.entries[i] : i \in 1 .. table.num}
                  \cap {s \in ToSet(table.entries) : p \in PagesOf([at |-> s.at, size |-> s.size])}}

-----------------------------------------------------------------------------
Steps ==
  \/ Link \/ Attributes \/ EnterLoaded \/ Register \/ Start
  \/ Stop \/ Profile \/ Retire \/ FreeImage
  \/ SizeSummaries \/ FillSummaries \/ Publish \/ SwapAccounts

Next ==
  \/ Steps
  \/ \E k \in Kexts : ReadPrelinked(k) \/ Load(k) \/ Unload(k)
  \/ DTraceArrives \/ RegisterKextsWithDTrace
  \/ \E p \in Pages : GetAllocationSiteForCaller(p) \/ CopyKextUUIDForAddress(p)
  \/ \E a \in DOMAIN accounts : FreeSite(a)
  \/ CopyTextUUID
  \/ \E w \in Waiters : \/ \E k \in Kexts : GrabPgoData(w, k)
                        \/ PgoReturns(w) \/ PgoInterrupted(w)

Spec == Init /\ [][Next]_vars

(* The thread that holds sKextLock goes on until it is done, and a thread  *)
(* that was woken gets the lock in the end.                                *)
FairSpec == Spec /\ WF_vars(Steps) /\ \A w \in Waiters : SF_vars(PgoReturns(w))

-----------------------------------------------------------------------------
TypeOK ==
  /\ memory \in [Pages -> Kexts \cup {None, Lost}]
  /\ wired \cup protected \subseteq Pages
  /\ prelinked \cup probed \cup started \cup ToSet(loadedKexts) \subseteq Kexts
  /\ account \in [Kexts -> 0 .. Len(accounts)]
  /\ reader \in Kexts \cup {None}

(* No page of the kext map is freed twice, given to two kexts or forgotten *)
(* by a kext that goes, whatever was freed early and whichever step failed;*)
(* but those of a prelinked kext for which there was no wrapper are lost.  *)
PagesAreOwned ==
  /\ ~corrupt
  /\ \A k \in Kexts : PagesOf(image[k]) = {p \in Pages : memory[p] = k}

(* What a started kext runs on stays mapped, wired and protected while     *)
(* others come and go and their link edit is freed around it.              *)
StartedIsBacked ==
  \A k \in started :
    /\ ShouldBeWired(k) # {}
    /\ ShouldBeWired(k) \subseteq wired \cap protected
    /\ \A p \in ShouldBeWired(k) : memory[p] = k

(* An account that names a kext is that of a kext which is loaded. *)
AccountsNameTheLoaded ==
  \A a \in DOMAIN accounts :
    accounts[a].kext # None => account[accounts[a].kext] = a /\ ~accounts[a].freed
                               /\ accounts[a].kext \in ToSet(loadedKexts)

(* An address in the code of a started kext leads to the account of that   *)
(* kext and no other, although ranges are listed from before link edit was *)
(* freed and its pages went to another kext; and what an account says of   *)
(* its kext is so.  Not while an update has failed.                        *)
CodeFindsItsAccount ==
  /\ \A k \in started : \A p \in ShouldBeWired(k) :
       ~stale /\ PartAt(k, p) = "text" =>
         Find(p) = account[k] /\ ~accounts[Find(p)].freed
  /\ AccountsNameTheLoaded

(* A panic at any moment finds no table, or one in which every summary     *)
(* that is counted has been filled in, with a kext that is there or going; *)
(* and once an operation is over, one of exactly the loaded kexts, whose   *)
(* code is found in it.                                                    *)
PanicReadsTrue ==
  /\ table.num <= Len(table.entries) /\ Len(table.entries) <= table.room
  /\ Idle /\ ~stale =>
       /\ [i \in 1 .. table.num |-> table.entries[i].kext] = loadedKexts
       /\ \A k \in started : \A p \in PagesOf(info[k]) : k \in KextsInBacktrace(p)
  /\ Idle /\ "memory" \notin Faults => panicList = PanicOrder(loadedKexts)

(* Who waits for the profile of a kext is not left asleep when it is gone. *)
WaitersAreServed ==
  \A w \in Waiters : \A k \in Kexts :
    (sleepers[w].kext = k /\ k \notin ToSet(loadedKexts)) ~> (sleepers[w].kext # k)
=============================================================================
