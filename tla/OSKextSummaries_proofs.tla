------------------------ MODULE OSKextSummaries_proofs ------------------------
(***************************************************************************)
(* Proofs about OSKextImages and OSKextSummaries for every set of kexts,   *)
(* any layout of their images, any number of pages and loads, and          *)
(* everything that may fail.                                               *)
(***************************************************************************)
EXTENDS OSKextSummaries, SequenceLemmas, FiniteSetTheorems, TLAPS

Place == [at : Nat, size : Nat]
Account == [kext : Kexts \cup {None}, tag : BOOLEAN, freed : BOOLEAN]
Table == [room : Nat, entries : Seq([kext : Kexts, at : Nat, size : Nat]), num : Nat]

LoadSteps == {"link", "attributes", "account", "updated", "start"}
UnloadSteps == {"stop", "profile", "retire", "free"}
UpdateSteps == {"update", "fill", "accounts"}

(* What TypeOK says, and what the tables hold. *)
ImagesTyped ==
  /\ memory \in [Pages -> Kexts \cup {None, Lost}]
  /\ image \in [Kexts -> Place] /\ info \in [Kexts -> Place]
  /\ wired \subseteq Pages /\ protected \subseteq Pages
  /\ prelinked \subseteq Kexts /\ probed \subseteq Kexts
  /\ corrupt \in BOOLEAN

OpTyped ==
  \/ op = Free
  \/ op \in [name : {"load"}, kext : Kexts, at : LoadSteps \cup UpdateSteps]
  \/ op \in [name : {"unload"}, kext : Kexts, at : UnloadSteps \cup UpdateSteps]

TablesTyped ==
  /\ OpTyped
  /\ loadedKexts \in Seq(Kexts) /\ started \subseteq Kexts
  /\ accounts \in Seq(Account)
  /\ account \in [Kexts -> 0 .. Len(accounts)]
  /\ table \in Table /\ draft \in Table /\ stale \in BOOLEAN
  /\ reader \in Kexts \cup {None}

-----------------------------------------------------------------------------
(* The steps in which a kext is loaded and not yet among the loaded.       *)
Entering(k) == op.kext = k /\ op.at \in {"link", "attributes", "account"}

(* A kext is listed once, and has an account from then on until its image  *)
(* is gone.                                                                *)
ListedOnce ==
  /\ \A i, j \in DOMAIN loadedKexts : loadedKexts[i] = loadedKexts[j] => i = j
  /\ \A k \in ToSet(loadedKexts) : account[k] # 0
  /\ started \subseteq ToSet(loadedKexts)

(* What the operation that is under way has done so far. *)
UnderWay ==
  /\ \A k \in Kexts : Entering(k) => account[k] = 0
  /\ op.at \in {"updated", "start", "stop", "profile", "retire"} => op.kext \in ToSet(loadedKexts)
  /\ op.name = "load" /\ op.at \in UpdateSteps => op.kext \in ToSet(loadedKexts)
  /\ op.at = "free" => op.kext \notin ToSet(loadedKexts)
  /\ op.at \in {"profile", "retire"} => op.kext \notin started

Listing == TablesTyped /\ ListedOnce /\ UnderWay

-----------------------------------------------------------------------------
(* A kext has no more pages than parts, and everybody reads the same of    *)
(* it, but while it is linked.                                             *)
ImagesAreWhole ==
  /\ \A k \in Kexts : image[k].size <= Len(PartsOf[k])
  /\ \A k \in Kexts : info[k] = image[k] \/ (Entering(k) /\ op.at = "link")

(* An image is that of a kext that is being loaded, of one with an account,*)
(* or of a prelinked one; and all of these have one.                       *)
ImagesAreHad ==
  /\ \A k \in Kexts : image[k].size # 0 <=> Entering(k) \/ account[k] # 0 \/ k \in prelinked

(* The code of whoever is or has been loaded is wired and protected.       *)
CodeIsReady ==
  /\ \A k \in prelinked : PagesOf(image[k]) \subseteq protected
  /\ \A k \in Kexts : account[k] # 0 \/ (Entering(k) /\ op.at = "account") =>
       ShouldBeWired(k) \subseteq wired \cap protected

Imaging == ImagesTyped /\ PagesAreOwned /\ ImagesAreWhole /\ ImagesAreHad /\ CodeIsReady

-----------------------------------------------------------------------------
(* A summary of k that has been true since, or says more than is left.     *)
Summarizes(e, k) ==
  e.kext = k /\ e.at = info[k].at /\ e.size >= info[k].size

(* The entries of t are the summaries of the first of the loaded kexts.    *)
Covers(t) ==
  /\ Len(t.entries) <= Len(loadedKexts)
  /\ \A i \in DOMAIN t.entries : Summarizes(t.entries[i], loadedKexts[i])

WellFormed(t) == t.num <= Len(t.entries) /\ Len(t.entries) <= t.room

(* The table whose filling is under way has room, and the other is gone.   *)
Filling ==
  /\ WellFormed(table) /\ WellFormed(draft)
  /\ op.at # "fill" => draft = NoTable
  /\ draft.room > 0 => table = NoTable
  /\ op.at = "fill" => /\ Covers(Filled) /\ Len(loadedKexts) <= Filled.room
                       /\ Len(Filled.entries) <= Filled.num + 1

(* Between updates the table tells of the loaded kexts, unless it is stale.*)
Settled == op.at = "accounts" \/ (~stale /\ op.at \notin {"free", "update", "fill"})
TableIsTrue == Settled => Covers(table) /\ table.num = Len(loadedKexts)

PanicListIsTrue ==
  "memory" \notin Faults /\ op.at # "free" => panicList = PanicOrder(loadedKexts)

Telling == Filling /\ TableIsTrue /\ PanicListIsTrue

-----------------------------------------------------------------------------
(* The list of the accounts by address. *)
Entry == [at : Nat, end : Nat, account : Nat]

(* No range is empty, and no two meet, unless it is listed twice. *)
Arranged(s) ==
  /\ \A i \in DOMAIN s : s[i].at < s[i].end
  /\ \A i, j \in DOMAIN s : i < j => s[i] = s[j] \/ s[i].end <= s[j].at

(* Some entry of the list leads from the image of k to its account. *)
Leads(e, k) ==
  e.at = info[k].at /\ e.end >= info[k].at + info[k].size /\ e.account = account[k]

(* Whoever is loaded is listed: not while its load has yet to update the   *)
(* list, and not after an update failed.                                   *)
ToBeListed(k) == op.kext = k /\ op.name = "load" /\ op.at \in UpdateSteps
Listed ==
  \A k \in ToSet(loadedKexts) :
    stale \/ ToBeListed(k) \/ \E i \in DOMAIN active : Leads(active[i], k)

(* And has an account of its own. *)
OwnAccount == \A k \in ToSet(loadedKexts) : accounts[account[k]].kext = k

(* The kext of a load is not started before the load is over. *)
NotStartedYet == op.name = "load" => op.kext \notin started

Accounting == active \in Seq(Entry) /\ Arranged(active) /\ Listed /\ OwnAccount /\ NotStartedYet

IInv == Listing /\ Imaging /\ Telling /\ AccountsNameTheLoaded /\ Accounting

USE ImageAssumption, SummaryAssumption

-----------------------------------------------------------------------------
(* How an operation moves on. *)
LEMMA OpFacts ==
  ASSUME OpTyped
  PROVE  /\ op.at \in {"idle"} \cup LoadSteps \cup UnloadSteps \cup UpdateSteps
         /\ op.at # "idle" => op.kext \in Kexts /\ op.name \in {"load", "unload"}
         /\ op.at \in LoadSteps => op.name = "load"
         /\ op.at \in UnloadSteps => op.name = "unload"
         /\ op.at = "idle" => op = Free
         /\ op.name = "load" => op.at \in LoadSteps \cup UpdateSteps
BY DEF OpTyped, Free, LoadSteps, UnloadSteps, UpdateSteps

LEMMA GotoFacts ==
  ASSUME OpTyped, NEW l, Goto(l), op.at # "idle",
         l \in UpdateSteps \/ (l \in LoadSteps /\ op.name = "load")
                          \/ (l \in UnloadSteps /\ op.name = "unload")
  PROVE  OpTyped' /\ op'.at = l /\ op'.kext = op.kext /\ op'.name = op.name
BY DEF OpTyped, Goto, Free, LoadSteps, UnloadSteps, UpdateSteps

LEMMA FreeFacts ==
  ASSUME op' = Free
  PROVE  OpTyped' /\ op'.at = "idle" /\ op'.name = "none"
BY DEF OpTyped, Free

LEMMA AccountFacts ==
  ASSUME NEW s \in Seq(Account), NEW e \in Account
  PROVE  /\ Append(s, e) \in Seq(Account) /\ Len(Append(s, e)) = Len(s) + 1 /\ Len(s) \in Nat
         /\ \A i \in DOMAIN s : [s EXCEPT ![i] = e] \in Seq(Account)
                               /\ Len([s EXCEPT ![i] = e]) = Len(s)
<1>1. Append(s, e) \in Seq(Account) /\ Len(Append(s, e)) = Len(s) + 1 /\ Len(s) \in Nat
  BY AppendProperties
<1>2. ASSUME NEW i \in DOMAIN s
      PROVE  [s EXCEPT ![i] = e] \in Seq(Account) /\ Len([s EXCEPT ![i] = e]) = Len(s)
  BY ExceptSeq
<1> QED BY <1>1, <1>2

-----------------------------------------------------------------------------
(* Which kexts are loaded, and what the operation under way has done.      *)
LEMMA ListingKept ==
  ASSUME Listing, UNCHANGED <<loadedKexts, started, account>>, OpTyped', UnderWay',
         accounts' \in Seq(Account), Len(accounts') = Len(accounts),
         table' \in Table, draft' \in Table, stale' \in BOOLEAN, reader' \in Kexts \cup {None}
  PROVE  Listing'
BY DEF Listing, TablesTyped, ListedOnce

LEMMA UnderWayKept ==
  ASSUME Listing, UNCHANGED <<op, loadedKexts, started, account>>
  PROVE  OpTyped' /\ UnderWay'
BY DEF Listing, TablesTyped, OpTyped, UnderWay, Entering

(* Everybody else only reads, or writes an account. *)
LEMMA OthersListing ==
  ASSUME Listing,
         \/ \E k \in Kexts : ReadPrelinked(k)
         \/ DTraceArrives \/ RegisterKextsWithDTrace
         \/ \E p \in Pages : GetAllocationSiteForCaller(p) \/ CopyKextUUIDForAddress(p)
         \/ \E a \in DOMAIN accounts : FreeSite(a)
         \/ CopyTextUUID
         \/ \E w \in Waiters : (\E k \in Kexts : GrabPgoData(w, k)) \/ PgoReturns(w) \/ PgoInterrupted(w)
         \/ UNCHANGED vars
  PROVE  Listing'
<1>1. /\ UNCHANGED <<op, loadedKexts, started, account>>
      /\ UNCHANGED <<table, draft, stale>>
  BY DEF ReadPrelinked, DTraceArrives, RegisterKextsWithDTrace, GetAllocationSiteForCaller,
         CopyKextUUIDForAddress, FreeSite, CopyTextUUID, GrabPgoData, PgoReturns, PgoInterrupted,
         vars, tables
<1>2. table' \in Table /\ draft' \in Table /\ stale' \in BOOLEAN
  BY <1>1 DEF Listing, TablesTyped
<1>3. accounts \in Seq(Account) /\ DOMAIN accounts = 1 .. Len(accounts) /\ reader \in Kexts \cup {None}
  BY DEF Listing, TablesTyped
<1>4. \A a \in DOMAIN accounts : accounts[a] \in Account
  BY <1>3, ElementOfSeq
<1>5. /\ accounts' \in Seq(Account) /\ Len(accounts') = Len(accounts)
      /\ reader' \in Kexts \cup {None}
  <2>1. CASE \E p \in Pages : GetAllocationSiteForCaller(p)
    <3>1. PICK p \in Pages : GetAllocationSiteForCaller(p)
      BY <2>1
    <3>2. PICK a : accounts' = [accounts EXCEPT ![a].tag = TRUE] /\ reader' = reader
      BY <3>1 DEF GetAllocationSiteForCaller, others
    <3>3. CASE a \in DOMAIN accounts
      <4> DEFINE e == [accounts[a] EXCEPT !.tag = TRUE]
      <4>1. e \in Account
        BY <1>4, <3>3 DEF Account
      <4>2. accounts' = [accounts EXCEPT ![a] = e]
        BY <3>2
      <4> HIDE DEF e
      <4>3. [accounts EXCEPT ![a] = e] \in Seq(Account) /\ Len([accounts EXCEPT ![a] = e]) = Len(accounts)
        BY <1>3, <3>3, <4>1, AccountFacts, Zenon
      <4> QED BY <1>3, <3>2, <4>2, <4>3, Zenon
    <3>4. CASE a \notin DOMAIN accounts
      <4>1. accounts' = accounts
        BY <1>3, <3>2, <3>4
      <4> QED BY <1>3, <3>2, <4>1
    <3> QED BY <3>3, <3>4
  <2>2. CASE \E p \in Pages : CopyKextUUIDForAddress(p)
    BY <1>3, <2>2 DEF CopyKextUUIDForAddress
  <2>3. CASE \E a \in DOMAIN accounts : FreeSite(a)
    <3>1. PICK a \in DOMAIN accounts : FreeSite(a)
      BY <2>3
    <3> DEFINE e == [accounts[a] EXCEPT !.tag = FALSE, !.freed = TRUE]
    <3>2. e \in Account
      BY <1>4, <3>1 DEF Account
    <3>3. accounts' = [accounts EXCEPT ![a] = e] /\ reader' = reader
      BY <3>1 DEF FreeSite, others
    <3> HIDE DEF e
    <3> QED BY <1>3, <3>1, <3>2, <3>3, AccountFacts
  <2>4. CASE CopyTextUUID
    BY <1>3, <2>4 DEF CopyTextUUID
  <2>5. CASE \E w \in Waiters : (\E k \in Kexts : GrabPgoData(w, k)) \/ PgoReturns(w) \/ PgoInterrupted(w)
    BY <1>3, <2>5 DEF GrabPgoData, PgoReturns, PgoInterrupted
  <2>6. CASE (\E k \in Kexts : ReadPrelinked(k)) \/ DTraceArrives \/ RegisterKextsWithDTrace \/ UNCHANGED vars
    <3>1. accounts' = accounts /\ reader' = reader
      BY <2>6 DEF ReadPrelinked, DTraceArrives, RegisterKextsWithDTrace, vars, others
    <3> QED BY <1>3, <3>1
  <2> QED BY <2>1, <2>2, <2>3, <2>4, <2>5, <2>6
<1>6. OpTyped' /\ UnderWay'
  BY <1>1, UnderWayKept
<1> QED BY <1>1, <1>2, <1>5, <1>6, ListingKept

(* The steps of an operation that list nobody and take nobody off. *)
LEMMA LoadListing ==
  ASSUME Listing, NEW k \in Kexts, Load(k) \/ Unload(k)
  PROVE  Listing'
<1>1. /\ UNCHANGED <<loadedKexts, started, account, accounts, reader>> /\ UNCHANGED <<table, draft, stale>>
      /\ Idle
  BY DEF Load, Unload, tables, others
<1>2. OpTyped' /\ UnderWay'
  BY <1>1, OpFacts DEF Load, Unload, Listing, TablesTyped, OpTyped, UnderWay, Entering, LoadSteps,
       UnloadSteps, UpdateSteps, Idle
<1> QED BY <1>1, <1>2, ListingKept DEF Listing, TablesTyped

LEMMA QuietListing ==
  ASSUME Listing, Link \/ Attributes \/ Register \/ Profile
  PROVE  Listing'
<1> USE DEF At
<1>1. /\ UNCHANGED <<loadedKexts, started, account, accounts, reader>> /\ UNCHANGED <<table, draft, stale>>
      /\ op.at # "idle"
      /\ op.at \in {"link", "attributes", "updated"} \/ op.at = "profile"
      /\ \/ op.name = "load" /\ op.at \in {"link", "attributes"} /\ op' = Free
         \/ op.name = "load" /\ op.at = "link" /\ Goto("attributes")
         \/ op.name = "load" /\ op.at = "attributes" /\ Goto("account")
         \/ op.name = "load" /\ op.at = "updated" /\ Goto("start")
         \/ op.name = "unload" /\ op.at = "profile" /\ Goto("retire")
  BY DEF Link, Attributes, Register, Profile, FailLoad, tables, others
<1>2. OpTyped
  BY DEF Listing, TablesTyped
<1>3. OpTyped' /\ UnderWay'
  <2>1. CASE op' = Free
    BY <1>1, <2>1, FreeFacts DEF UnderWay, Entering, UpdateSteps
  <2>2. CASE op' # Free
    <3>1. PICK l \in LoadSteps \cup UnloadSteps : Goto(l) /\ OpTyped' /\ op'.at = l /\ op'.kext = op.kext
      BY <1>1, <1>2, <2>2, GotoFacts DEF LoadSteps, UnloadSteps
    <3>2. op'.at = "attributes" \/ op'.at = "account" \/ op'.at = "start" \/ op'.at = "retire"
      BY <1>1, <1>2, <2>2, GotoFacts DEF LoadSteps, UnloadSteps
    <3>3. /\ op'.at \in {"attributes", "account"} => op.at \in {"link", "attributes"}
          /\ op'.at = "start" => op.at = "updated"
          /\ op'.at = "retire" => op.at = "profile"
      BY <1>1, <1>2, <2>2, GotoFacts DEF LoadSteps, UnloadSteps
    <3> QED BY <1>1, <3>1, <3>2, <3>3 DEF Listing, UnderWay, Entering, UpdateSteps
  <2> QED BY <2>1, <2>2
<1> QED BY <1>1, <1>3, ListingKept DEF Listing, TablesTyped

LEMMA UpdateListing ==
  ASSUME Listing, op.at \in UpdateSteps, UNCHANGED <<loadedKexts, started, account, accounts, reader>>,
         \/ op' = Free \/ UNCHANGED op
         \/ \E l \in {"fill", "accounts"} : Goto(l)
         \/ op.name = "load" /\ Goto("updated"),
         table' \in Table, draft' \in Table, stale' \in BOOLEAN
  PROVE  Listing'
<1>1. OpTyped /\ op.at # "idle"
  BY DEF Listing, TablesTyped, UpdateSteps
<1>2. OpTyped' /\ UnderWay'
  <2>1. CASE op' = Free
    BY <2>1, FreeFacts DEF UnderWay, Entering, UpdateSteps
  <2>2. CASE UNCHANGED op
    BY <2>2, UnderWayKept
  <2>3. CASE \E l \in {"fill", "accounts"} : Goto(l)
    <3>1. PICK l \in {"fill", "accounts"} : OpTyped' /\ op'.at = l /\ op'.kext = op.kext /\ op'.name = op.name
      BY <1>1, <2>3, GotoFacts DEF UpdateSteps
    <3> QED BY <3>1 DEF Listing, UnderWay, Entering, UpdateSteps
  <2>4. CASE op.name = "load" /\ Goto("updated")
    <3>1. OpTyped' /\ op'.at = "updated" /\ op'.kext = op.kext
      BY <1>1, <2>4, GotoFacts DEF LoadSteps
    <3> QED BY <2>4, <3>1 DEF Listing, UnderWay, Entering, UpdateSteps
  <2> QED BY <2>1, <2>2, <2>3, <2>4
<1> QED BY <1>2, ListingKept DEF Listing, TablesTyped

LEMMA NoTableFacts == NoTable \in Table
<1>1. <<>> \in Seq([kext : Kexts, at : Nat, size : Nat])
  OBVIOUS
<1> QED BY <1>1 DEF NoTable, Table

LEMMA EndUpdateFacts ==
  ASSUME EndUpdate(TRUE) \/ EndUpdate(FALSE)
  PROVE  /\ draft' = NoTable /\ draft' \in Table /\ stale' \in BOOLEAN
         /\ EndUpdate(FALSE) => stale'
         /\ op' = Free \/ (op.name = "load" /\ Goto("updated"))
BY NoTableFacts DEF EndUpdate

(* The next loaded kext gets a summary, or one more is counted. *)
LEMMA SummaryFacts ==
  ASSUME ImagesTyped, Listing, NEW t \in Table, t.num < Len(loadedKexts)
  PROVE  /\ FillSummary(t) \in Table
         /\ FillSummary(t).room = t.room
         /\ t.num + 1 \in DOMAIN loadedKexts /\ loadedKexts[t.num + 1] \in Kexts
         /\ Len(t.entries) = t.num =>
              LET k == loadedKexts[t.num + 1]
              IN  FillSummary(t) =
                    [t EXCEPT !.entries = Append(t.entries, [kext |-> k, at |-> info[k].at, size |-> info[k].size])]
         /\ Len(t.entries) # t.num => FillSummary(t) = [t EXCEPT !.num = @ + 1]
<1>1. loadedKexts \in Seq(Kexts) /\ t.num \in Nat /\ t.room \in Nat
      /\ t.entries \in Seq([kext : Kexts, at : Nat, size : Nat])
  BY DEF Listing, TablesTyped, Table
<1>2. t.num + 1 \in DOMAIN loadedKexts
  BY <1>1
<1>3. loadedKexts[t.num + 1] \in Kexts
  BY <1>1, <1>2, ElementOfSeq
<1> DEFINE k == loadedKexts[t.num + 1]
           e == [kext |-> k, at |-> info[k].at, size |-> info[k].size]
<1>4. e \in [kext : Kexts, at : Nat, size : Nat]
  BY <1>3 DEF ImagesTyped, Place
<1>5. Len(t.entries) = t.num => FillSummary(t) = [t EXCEPT !.entries = Append(t.entries, e)]
  BY DEF FillSummary
<1>6. Len(t.entries) # t.num => FillSummary(t) = [t EXCEPT !.num = @ + 1]
  BY DEF FillSummary
<1>7. FillSummary(t) \in Table /\ FillSummary(t).room = t.room
  <2> HIDE DEF e
  <2>1. Append(t.entries, e) \in Seq([kext : Kexts, at : Nat, size : Nat])
    BY <1>1, <1>4
  <2>2. CASE Len(t.entries) = t.num
    BY <1>5, <2>1, <2>2 DEF Table
  <2>3. CASE Len(t.entries) # t.num
    <3> DEFINE n == t.num + 1
    <3>1. n \in Nat /\ FillSummary(t) = [t EXCEPT !.num = n]
      BY <1>1, <1>6, <2>3
    <3> HIDE DEF n
    <3> QED BY <1>1, <3>1 DEF Table
  <2> QED BY <2>2, <2>3
<1> QED BY <1>2, <1>3, <1>5, <1>6, <1>7

LEMMA SizeListing == ASSUME ImagesTyped, Listing, SizeSummaries PROVE Listing'
<1> DEFINE needed == Room(Len(loadedKexts))
<1>1. needed \in Nat /\ table \in Table /\ draft \in Table /\ stale \in BOOLEAN
  BY DEF Listing, TablesTyped, Room
<1> HIDE DEF needed
<1>2. /\ op.at \in UpdateSteps /\ UNCHANGED <<loadedKexts, started, account, accounts, reader>>
      /\ \/ EndUpdate(FALSE) /\ (UNCHANGED table \/ table' = NoTable)
         \/ /\ table' = NoTable /\ draft' = [NoTable EXCEPT !.room = needed]
            /\ Goto("fill") /\ UNCHANGED stale
         \/ /\ table' = [table EXCEPT !.entries = <<>>, !.num = 0]
            /\ Goto("fill") /\ UNCHANGED <<draft, stale>>
  BY DEF SizeSummaries, UpdateSteps, others, needed
<1>3. table' \in Table /\ draft' \in Table /\ stale' \in BOOLEAN
      /\ (op' = Free \/ Goto("fill") \/ (op.name = "load" /\ Goto("updated")))
  <2>1. CASE EndUpdate(FALSE) /\ (UNCHANGED table \/ table' = NoTable)
    <3>1. draft' \in Table /\ stale' \in BOOLEAN /\ (op' = Free \/ (op.name = "load" /\ Goto("updated")))
      BY <2>1, EndUpdateFacts, Zenon
    <3>2. table' \in Table
      BY <1>1, <2>1, NoTableFacts
    <3> QED BY <3>1, <3>2
  <2>2. CASE table' = NoTable /\ draft' = [NoTable EXCEPT !.room = needed] /\ Goto("fill") /\ UNCHANGED stale
    <3>1. [NoTable EXCEPT !.room = needed] \in Table
      BY <1>1, NoTableFacts DEF Table
    <3> QED BY <1>1, <2>2, <3>1, NoTableFacts
  <2>3. CASE table' = [table EXCEPT !.entries = <<>>, !.num = 0] /\ Goto("fill") /\ UNCHANGED <<draft, stale>>
    <3>1. <<>> \in Seq([kext : Kexts, at : Nat, size : Nat])
      OBVIOUS
    <3>2. [table EXCEPT !.entries = <<>>, !.num = 0] \in Table
      BY <1>1, <3>1 DEF Table
    <3> QED BY <1>1, <2>3, <3>2
  <2> QED BY <1>2, <2>1, <2>2, <2>3
<1> QED BY <1>2, <1>3, UpdateListing

LEMMA FillListing ==
  ASSUME ImagesTyped, Listing, FillSummaries \/ Publish \/ SwapAccounts PROVE Listing'
<1>1. table \in Table /\ draft \in Table /\ stale \in BOOLEAN /\ Filled \in Table
  BY DEF Listing, TablesTyped, Filled
<1>2. op.at \in UpdateSteps /\ UNCHANGED <<loadedKexts, started, account, accounts, reader>>
  BY DEF FillSummaries, Publish, SwapAccounts, UpdateSteps, others
<1>3. CASE FillSummaries
  <2>1. /\ UNCHANGED op /\ UNCHANGED stale
        /\ \/ draft.num < Len(loadedKexts) /\ draft' = FillSummary(draft) /\ UNCHANGED table
           \/ table.num < Len(loadedKexts) /\ table' = FillSummary(table) /\ UNCHANGED draft
    BY <1>3 DEF FillSummaries, Filled
  <2>2. table' \in Table /\ draft' \in Table
    BY ZenonT(60), <1>1, <2>1, SummaryFacts
  <2> QED BY <1>1, <1>2, <2>1, <2>2, UpdateListing
<1>4. CASE Publish
  <2>1. \/ table' = Filled /\ draft' = NoTable /\ Goto("accounts") /\ UNCHANGED stale
        \/ EndUpdate(FALSE) /\ UNCHANGED table
    BY <1>4 DEF Publish
  <2> QED BY <1>1, <1>2, <2>1, EndUpdateFacts, NoTableFacts, UpdateListing
<1>5. CASE SwapAccounts
  <2>1. EndUpdate(TRUE) /\ UNCHANGED table
    BY <1>5 DEF SwapAccounts
  <2> QED BY <1>1, <1>2, <2>1, EndUpdateFacts, UpdateListing
<1> QED BY <1>3, <1>4, <1>5

(* A kext that is loaded gets an account, after everything that can fail.  *)
LEMMA EnterListing == ASSUME Listing, EnterLoaded PROVE Listing'
<1>1. /\ op.name = "load" /\ op.at = "account" /\ OpTyped
      /\ loadedKexts \in Seq(Kexts) /\ started \subseteq Kexts /\ accounts \in Seq(Account)
      /\ account \in [Kexts -> 0 .. Len(accounts)]
      /\ table \in Table /\ draft \in Table /\ stale \in BOOLEAN /\ reader \in Kexts \cup {None}
  BY DEF EnterLoaded, At, Listing, TablesTyped
<1>2. CASE FailLoad
  <2>1. /\ op' = Free /\ UNCHANGED <<loadedKexts, started, account, accounts, reader>>
        /\ UNCHANGED <<table, draft, stale>>
    BY <1>2 DEF FailLoad, tables, others
  <2>2. OpTyped' /\ UnderWay'
    BY <2>1, FreeFacts DEF UnderWay, Entering, UpdateSteps
  <2> QED BY <1>1, <2>1, <2>2, ListingKept
<1>3. CASE ~FailLoad
  <2> DEFINE k == op.kext
             e == [kext |-> k, tag |-> FALSE, freed |-> FALSE]
  <2>1. k \in Kexts /\ account[k] = 0 /\ op.at # "idle"
    BY <1>1, OpFacts DEF Listing, UnderWay, Entering
  <2>2. /\ accounts' = Append(accounts, e)
        /\ account' = [account EXCEPT ![k] = Len(accounts')]
        /\ loadedKexts' = Append(loadedKexts, k)
        /\ Goto("update") /\ UNCHANGED <<started, reader>> /\ UNCHANGED <<table, draft, stale>>
    BY <1>3 DEF EnterLoaded, tables
  <2>3. e \in Account
    BY <2>1 DEF Account
  <2> HIDE DEF e, k
  <2>4. accounts' \in Seq(Account) /\ Len(accounts') = Len(accounts) + 1 /\ Len(accounts) \in Nat
    BY <1>1, <2>2, <2>3, AccountFacts
  <2>5. /\ account' \in [Kexts -> 0 .. Len(accounts')]
        /\ \A j \in Kexts : account'[j] = IF j = k THEN Len(accounts') ELSE account[j]
    BY <1>1, <2>1, <2>2, <2>4
  <2>6. /\ loadedKexts' \in Seq(Kexts)
        /\ DOMAIN loadedKexts' = 1 .. Len(loadedKexts) + 1 /\ DOMAIN loadedKexts = 1 .. Len(loadedKexts)
        /\ Len(loadedKexts) \in Nat
        /\ \A i \in DOMAIN loadedKexts : loadedKexts'[i] = loadedKexts[i]
        /\ loadedKexts'[Len(loadedKexts) + 1] = k
        /\ ToSet(loadedKexts') = ToSet(loadedKexts) \cup {k}
    BY <1>1, <2>1, <2>2, AppendFacts
  <2>7. k \notin ToSet(loadedKexts)
    BY <2>1 DEF Listing, ListedOnce
  <2>8. ListedOnce'
    <3>1. ASSUME NEW i \in DOMAIN loadedKexts', NEW j \in DOMAIN loadedKexts', loadedKexts'[i] = loadedKexts'[j]
          PROVE  i = j
      <4>1. \A n \in DOMAIN loadedKexts : loadedKexts[n] # k
        BY <2>7 DEF ToSet
      <4> QED BY <2>6, <3>1, <4>1 DEF Listing, ListedOnce
    <3>2. \A j \in ToSet(loadedKexts') : account'[j] # 0
      <4>1. \A j \in ToSet(loadedKexts) : j \in Kexts /\ account[j] # 0
        BY <1>1, ToSetFacts DEF Listing, ListedOnce
      <4> QED BY <2>1, <2>4, <2>5, <2>6, <4>1
    <3>3. started' \subseteq ToSet(loadedKexts')
      BY <2>2, <2>6 DEF Listing, ListedOnce
    <3> QED BY <3>1, <3>2, <3>3 DEF ListedOnce
  <2>9. OpTyped' /\ op'.at = "update" /\ op'.kext = k
    BY <1>1, <2>1, <2>2, GotoFacts DEF UpdateSteps, k
  <2>10. UnderWay'
    BY <2>6, <2>9 DEF UnderWay, Entering, UpdateSteps
  <2>11. TablesTyped'
    BY <1>1, <2>2, <2>4, <2>5, <2>6, <2>9 DEF TablesTyped
  <2> QED BY <2>8, <2>10, <2>11 DEF Listing
<1> QED BY <1>2, <1>3

(* A kext that stops, or does not start, stays listed. *)
LEMMA StartStopListing == ASSUME Listing, Start \/ Stop PROVE Listing'
<1>1. /\ OpTyped /\ loadedKexts \in Seq(Kexts) /\ started \subseteq ToSet(loadedKexts)
      /\ op.kext \in ToSet(loadedKexts) /\ ToSet(loadedKexts) \subseteq Kexts
  BY ToSetFacts DEF Listing, TablesTyped, ListedOnce, UnderWay, Start, Stop, At
<1>2. /\ UNCHANGED <<loadedKexts, account, accounts, reader>> /\ UNCHANGED <<table, draft, stale>>
      /\ \/ op' = Free
         \/ op.name = "unload" /\ op.at = "stop" /\ Goto("profile") /\ started' = started \ {op.kext}
         \/ op.name = "unload" /\ op.at = "stop" /\ Goto("update")
      /\ started' = started \cup {op.kext} \/ started' = started \ {op.kext} \/ started' = started
  BY DEF Start, Stop, At, tables, others
<1>3. started' \subseteq ToSet(loadedKexts) /\ started' \subseteq Kexts
  BY <1>1, <1>2
<1>4. OpTyped' /\ UnderWay'
  <2>1. CASE op' = Free
    BY <2>1, FreeFacts DEF UnderWay, Entering, UpdateSteps
  <2>2. CASE op.name = "unload" /\ op.at = "stop" /\ Goto("profile") /\ started' = started \ {op.kext}
    <3>1. OpTyped' /\ op'.at = "profile" /\ op'.kext = op.kext /\ op'.name = "unload"
      BY <1>1, <2>2, GotoFacts DEF UnloadSteps
    <3> QED BY <1>1, <1>2, <2>2, <3>1 DEF UnderWay, Entering, UpdateSteps
  <2>3. CASE op.name = "unload" /\ op.at = "stop" /\ Goto("update")
    <3>1. OpTyped' /\ op'.at = "update" /\ op'.kext = op.kext /\ op'.name = "unload"
      BY <1>1, <2>3, GotoFacts DEF UpdateSteps
    <3> QED BY <1>1, <1>2, <3>1 DEF UnderWay, Entering, UpdateSteps
  <2> QED BY <1>2, <2>1, <2>2, <2>3
<1>5. TablesTyped' /\ ListedOnce'
  BY <1>2, <1>3, <1>4 DEF Listing, TablesTyped, ListedOnce
<1> QED BY <1>4, <1>5 DEF Listing

(* A kext that goes is taken off the list before its image is freed. *)
LEMMA RetireListing == ASSUME Listing, Retire PROVE Listing'
<1> DEFINE k == op.kext
           e == RetiredAccount(accounts[account[k]])
<1>1. /\ OpTyped /\ loadedKexts \in Seq(Kexts) /\ accounts \in Seq(Account)
      /\ account \in [Kexts -> 0 .. Len(accounts)] /\ Len(accounts) \in Nat
      /\ k \in ToSet(loadedKexts) /\ k \notin started /\ op.at = "retire" /\ op.name = "unload"
  BY DEF Listing, TablesTyped, UnderWay, Retire, At
<1>2. k \in Kexts /\ account[k] # 0
  BY <1>1, ToSetFacts DEF Listing, ListedOnce
<1>3. account[k] \in DOMAIN accounts /\ accounts[account[k]] \in Account
  BY <1>1, <1>2, ElementOfSeq
<1>4. e \in Account
  BY <1>3 DEF RetiredAccount, Account
<1>5. accounts' = [accounts EXCEPT ![account[k]] = e]
  BY DEF Retire
<1>6. PICK i \in DOMAIN loadedKexts : loadedKexts[i] = k /\ loadedKexts' = RemoveAt(loadedKexts, i)
  BY DEF Retire
<1>7. /\ Goto("free") /\ UNCHANGED <<started, account, reader>> /\ UNCHANGED <<table, draft, stale>>
  BY DEF Retire, tables, others
<1> HIDE DEF e
<1>8. accounts' \in Seq(Account) /\ Len(accounts') = Len(accounts)
  BY <1>1, <1>3, <1>4, <1>5, AccountFacts
<1>9. /\ loadedKexts' \in Seq(Kexts)
      /\ ToSet(loadedKexts') = ToSet(loadedKexts) \ {k}
      /\ \A m, n \in DOMAIN loadedKexts' : loadedKexts'[m] = loadedKexts'[n] => m = n
  <2>1. \A m, n \in DOMAIN loadedKexts : loadedKexts[m] = loadedKexts[n] => m = n
    BY DEF Listing, ListedOnce
  <2>2. loadedKexts \in Seq(Kexts) /\ i \in DOMAIN loadedKexts
    BY <1>1, <1>6
  <2>3. /\ ToSet(RemoveAt(loadedKexts, i)) = ToSet(loadedKexts) \ {loadedKexts[i]}
        /\ \A m, n \in DOMAIN RemoveAt(loadedKexts, i) :
             RemoveAt(loadedKexts, i)[m] = RemoveAt(loadedKexts, i)[n] => m = n
    BY <2>1, <2>2, RemoveOnce, Zenon
  <2>4. RemoveAt(loadedKexts, i) \in Seq(Kexts)
    BY <2>2, RemoveAtFacts, Zenon
  <2> QED BY <1>6, <2>3, <2>4, Zenon
<1>10. OpTyped' /\ op'.at = "free" /\ op'.kext = k /\ op'.name = "unload"
  BY <1>1, <1>7, GotoFacts DEF UnloadSteps
<1> HIDE DEF k
<1>11. UnderWay'
  BY <1>9, <1>10 DEF UnderWay, Entering, UpdateSteps
<1>12. ListedOnce'
  BY <1>1, <1>7, <1>9 DEF Listing, ListedOnce
<1>13. TablesTyped'
  BY <1>7, <1>8, <1>9, <1>10 DEF Listing, TablesTyped
<1> QED BY <1>11, <1>12, <1>13 DEF Listing

(* And loses its account with it. *)
LEMMA FreeListing == ASSUME Listing, FreeImage PROVE Listing'
<1>1. /\ OpTyped /\ op.name = "unload" /\ op.at = "free" /\ op.kext \notin ToSet(loadedKexts)
      /\ account \in [Kexts -> 0 .. Len(accounts)] /\ Len(accounts) \in Nat
  BY DEF Listing, TablesTyped, UnderWay, FreeImage, At
<1>2. /\ Goto("update") /\ UNCHANGED <<loadedKexts, started, accounts, reader>>
      /\ UNCHANGED <<table, draft, stale>>
      /\ account' = [account EXCEPT ![op.kext] = 0] \/ account' = account
  BY DEF FreeImage, tables, others
<1>3. OpTyped' /\ op'.at = "update" /\ op'.name = "unload"
  BY <1>1, <1>2, GotoFacts DEF UpdateSteps
<1>4. UnderWay'
  BY <1>3 DEF UnderWay, Entering, UpdateSteps
<1>5. /\ account' \in [Kexts -> 0 .. Len(accounts)]
      /\ \A j \in Kexts : j # op.kext => account'[j] = account[j]
  BY <1>1, <1>2
<1>6. \A j \in ToSet(loadedKexts) : j \in Kexts
  BY ToSetFacts DEF Listing, TablesTyped
<1>7. ListedOnce'
  BY <1>1, <1>2, <1>5, <1>6 DEF Listing, ListedOnce
<1>8. TablesTyped'
  BY <1>2, <1>3, <1>5 DEF Listing, TablesTyped
<1> QED BY <1>4, <1>7, <1>8 DEF Listing

LEMMA ListingStep == ASSUME ImagesTyped, Listing, [Next]_vars PROVE Listing'
BY OthersListing, LoadListing, QuietListing, EnterListing, StartStopListing, RetireListing,
   FreeListing, SizeListing, FillListing DEF Next, Steps

-----------------------------------------------------------------------------
(* Where the parts of an image lie: code first, as many parts as Body(k).  *)
Body(k) == Cardinality({i \in DOMAIN PartsOf[k] : PartsOf[k][i] \in {"text", "data"}})
CodePages(k, r) == {p \in PagesOf(r) : p < r.at + Body(k)}

LEMMA LayoutFacts ==
  ASSUME NEW k \in Kexts
  PROVE  /\ Len(PartsOf[k]) \in Nat \ {0} /\ DOMAIN PartsOf[k] = 1 .. Len(PartsOf[k])
         /\ Body(k) \in 1 .. Len(PartsOf[k]) /\ Trimmed(k) \in 1 .. Len(PartsOf[k])
         /\ \A i \in DOMAIN PartsOf[k] : PartsOf[k][i] \in {"text", "data"} <=> i <= Body(k)
<1> DEFINE s == PartsOf[k]
<1>1. s \in Seq(Parts) /\ s # <<>> /\ IsLaidOut(s)
  OBVIOUS
<1> HIDE DEF s
<1>2. Len(s) \in Nat \ {0} /\ DOMAIN s = 1 .. Len(s)
  BY <1>1, EmptySeq
<1>3. PICK code \in DOMAIN s, kept \in DOMAIN s : \A i \in DOMAIN s :
        (s[i] \in {"text", "data"} <=> i <= code) /\ (s[i] # "relocs" <=> i <= kept)
  BY <1>1 DEF IsLaidOut
<1>4. /\ {i \in DOMAIN s : s[i] \in {"text", "data"}} = 1 .. code
      /\ {i \in DOMAIN s : s[i] # "relocs"} = 1 .. kept
  BY <1>2, <1>3
<1>5. Cardinality(1 .. code) = code /\ Cardinality(1 .. kept) = kept
  <2>1. code \in Nat /\ kept \in Nat /\ code >= 1 /\ kept >= 1
    BY <1>2, <1>3
  <2>2. /\ Cardinality(1 .. code) = IF 1 > code THEN 0 ELSE code - 1 + 1
        /\ Cardinality(1 .. kept) = IF 1 > kept THEN 0 ELSE kept - 1 + 1
    <3>1. 1 \in Int /\ code \in Int /\ kept \in Int
      BY <2>1
    <3> QED BY <3>1, FS_Interval, Zenon
  <2> QED BY <2>1, <2>2
<1>6. Body(k) = code /\ Trimmed(k) = kept
  BY <1>4, <1>5, Zenon DEF Body, Trimmed, s
<1> QED BY <1>2, <1>3, <1>6 DEF s

(* What is left of an image without its link edit is its code. *)
LEMMA LayoutOfPlace ==
  ASSUME NEW k \in Kexts, NEW r \in Place, r.size <= Len(PartsOf[k])
  PROVE  LET code == {p \in PagesOf(r) : PartsOf[k][p - r.at + 1] \in {"text", "data"}}
             tail == {p \in PagesOf(r) : PartsOf[k][p - r.at + 1] \notin {"text", "data"}}
             left == [r EXCEPT !.size = r.size - Cardinality(tail)]
         IN  /\ code = CodePages(k, r)
             /\ tail = PagesOf(r) \ CodePages(k, r)
             /\ r.size # 0 => r.at \in CodePages(k, r)
             /\ left \in Place /\ left.at = r.at /\ left.size <= r.size
             /\ PagesOf(left) = CodePages(k, r)
             /\ CodePages(k, left) = CodePages(k, r)
             /\ r.size # 0 <=> left.size # 0
<1> DEFINE code == {p \in PagesOf(r) : PartsOf[k][p - r.at + 1] \in {"text", "data"}}
           tail == {p \in PagesOf(r) : PartsOf[k][p - r.at + 1] \notin {"text", "data"}}
           left == [r EXCEPT !.size = r.size - Cardinality(tail)]
<1>1. r.at \in Nat /\ r.size \in Nat /\ r = [at |-> r.at, size |-> r.size]
  BY DEF Place
<1>2. /\ Len(PartsOf[k]) \in Nat /\ DOMAIN PartsOf[k] = 1 .. Len(PartsOf[k])
      /\ Body(k) \in 1 .. Len(PartsOf[k])
      /\ \A i \in DOMAIN PartsOf[k] : PartsOf[k][i] \in {"text", "data"} <=> i <= Body(k)
  BY LayoutFacts
<1>3. ASSUME NEW p \in PagesOf(r)
      PROVE  PartsOf[k][p - r.at + 1] \in {"text", "data"} <=> p < r.at + Body(k)
  <2>1. p \in Int /\ p - r.at + 1 \in 1 .. Len(PartsOf[k])
    BY <1>1, <1>2 DEF PagesOf
  <2> QED BY <1>1, <1>2, <2>1
<1>4. code = CodePages(k, r) /\ tail = PagesOf(r) \ CodePages(k, r)
  BY <1>3 DEF CodePages
<1>5. r.size # 0 => r.at \in CodePages(k, r)
  BY <1>1, <1>2 DEF CodePages, PagesOf
<1>6. Cardinality(tail) = IF r.size > Body(k) THEN r.size - Body(k) ELSE 0
  <2>1. tail = (r.at + Body(k)) .. (r.at + r.size - 1)
    <3>1. tail = {p \in PagesOf(r) : ~(p < r.at + Body(k))}
      BY <1>4 DEF CodePages
    <3> HIDE DEF tail
    <3> QED BY <1>1, <1>2, <3>1 DEF PagesOf
  <2> HIDE DEF tail
  <2> DEFINE a == r.at + Body(k)
             b == r.at + r.size - 1
  <2>2. a \in Int /\ b \in Int /\ tail = a .. b
    BY <1>1, <1>2, <2>1
  <2>3. Cardinality(tail) = IF a > b THEN 0 ELSE b - a + 1
    <3> HIDE DEF a, b
    <3> QED BY <2>2, FS_Interval
  <2> QED BY <1>1, <1>2, <2>3
<1> HIDE DEF tail
<1>7. left \in Place /\ left.at = r.at /\ left.size <= r.size /\ (r.size # 0 <=> left.size # 0)
      /\ left.size = IF r.size > Body(k) THEN Body(k) ELSE r.size
  BY SMTT(30), <1>1, <1>2, <1>6 DEF Place
<1> HIDE DEF left
<1>8. PagesOf(left) = CodePages(k, r) /\ CodePages(k, left) = CodePages(k, r)
  BY <1>1, <1>2, <1>7 DEF PagesOf, CodePages
<1> QED BY <1>4, <1>5, <1>7, <1>8 DEF left, tail, code

LEMMA WiredPages ==
  ASSUME NEW k \in Kexts, image[k] \in Place, image[k].size <= Len(PartsOf[k])
  PROVE  ShouldBeWired(k) = CodePages(k, image[k])
BY LayoutOfPlace DEF ShouldBeWired, PartAt

(* Whoever has an image has code. *)
LEMMA ImageFacts ==
  ASSUME Imaging, NEW k \in Kexts
  PROVE  /\ image[k] \in Place /\ info[k] \in Place
         /\ image[k].at \in Nat /\ image[k].size \in Nat
         /\ image[k].size <= Len(PartsOf[k])
         /\ PagesOf(image[k]) \subseteq Pages
         /\ \A p \in Pages : memory[p] = k <=> p \in PagesOf(image[k])
         /\ image[k].size = 0 => PagesOf(image[k]) = {}
         /\ ShouldBeWired(k) = CodePages(k, image[k])
         /\ ShouldBeWired(k) \subseteq PagesOf(image[k])
         /\ image[k].size # 0 => image[k].at \in ShouldBeWired(k)
<1>1. image[k] \in Place /\ info[k] \in Place /\ image[k].size <= Len(PartsOf[k])
  BY DEF Imaging, ImagesTyped, ImagesAreWhole
<1>2. image[k].at \in Nat /\ image[k].size \in Nat
  BY <1>1 DEF Place
<1>3. PagesOf(image[k]) = {p \in Pages : memory[p] = k}
  BY DEF Imaging, PagesAreOwned
<1>4. image[k].size = 0 => PagesOf(image[k]) = {}
  BY <1>2 DEF PagesOf
<1>5. ShouldBeWired(k) = CodePages(k, image[k])
  BY <1>1, WiredPages
<1>6. ShouldBeWired(k) \subseteq PagesOf(image[k])
  BY DEF ShouldBeWired
<1>7. image[k].size # 0 => image[k].at \in ShouldBeWired(k)
  <2>1. image[k].size # 0 => image[k].at \in CodePages(k, image[k])
    <3>1. Body(k) >= 1 /\ Body(k) \in Nat
      BY LayoutFacts
    <3> QED BY <1>2, <3>1 DEF CodePages, PagesOf
  <2> QED BY <1>5, <2>1, Zenon
<1> QED BY <1>1, <1>2, <1>3, <1>4, <1>5, <1>6, <1>7

(* Freeing pages that belong to somebody. *)
LEMMA FreePagesFacts ==
  ASSUME Imaging, NEW ps \in SUBSET Pages, \A p \in ps : memory[p] # None, FreePages(ps)
  PROVE  /\ memory' \in [Pages -> Kexts \cup {None, Lost}] /\ corrupt' = FALSE
         /\ \A p \in Pages : memory'[p] = IF p \in ps THEN None ELSE memory[p]
         /\ wired' = wired \ ps /\ protected' = protected \ ps
BY DEF Imaging, ImagesTyped, PagesAreOwned, FreePages, Freed

(* Giving n free pages to k, or to nobody. *)
LEMMA PlacesFacts ==
  ASSUME NEW n \in Nat \ {0}, NEW a \in Places(n)
  PROVE  LET r == [at |-> a, size |-> n]
         IN  r \in Place /\ PagesOf(r) \subseteq Pages /\ \A p \in PagesOf(r) : memory[p] = None
<1>1. PICK c \in Nat : Pages = 1 .. c
  <2>1. Cardinality(Pages) \in Nat
    BY FS_CardinalityType
  <2> QED BY <2>1
<1>2. a \in Pages /\ a + n - 1 \in Pages /\ \A p \in a .. (a + n - 1) : memory[p] = None
  BY DEF Places
<1> QED BY <1>1, <1>2 DEF Place, PagesOf

-----------------------------------------------------------------------------
(* Who has which pages. *)
LEMMA ImagingKept ==
  ASSUME Imaging, UNCHANGED imageVars,
         \A k \in Kexts : Entering(k)' \/ account'[k] # 0 <=> Entering(k) \/ account[k] # 0,
         \A k \in Kexts : account'[k] # 0 \/ (Entering(k)' /\ op'.at = "account") =>
                           account[k] # 0 \/ (Entering(k) /\ op.at = "account"),
         \A k \in Kexts : Entering(k) /\ op.at = "link" => Entering(k)' /\ op'.at = "link"
  PROVE  Imaging'
<1>1. /\ memory' = memory /\ image' = image /\ info' = info /\ wired' = wired
      /\ protected' = protected /\ prelinked' = prelinked /\ probed' = probed /\ corrupt' = corrupt
  BY DEF imageVars
<1>2. ImagesTyped' /\ PagesAreOwned'
  BY <1>1 DEF Imaging, ImagesTyped, PagesAreOwned
<1>3. ImagesAreWhole'
  BY <1>1 DEF Imaging, ImagesAreWhole
<1>4. ImagesAreHad'
  BY <1>1 DEF Imaging, ImagesAreHad
<1>5. CodeIsReady'
  <2>1. \A k \in Kexts : ShouldBeWired(k)' = ShouldBeWired(k)
    BY <1>1 DEF ShouldBeWired, PartAt
  <2> QED BY <1>1, <2>1 DEF Imaging, CodeIsReady
<1> QED BY <1>2, <1>3, <1>4, <1>5 DEF Imaging

(* Beside an operation no image changes but by DTrace. *)
LEMMA QuietImaging ==
  ASSUME Imaging, Listing,
         \/ DTraceArrives
         \/ \E p \in Pages : GetAllocationSiteForCaller(p) \/ CopyKextUUIDForAddress(p)
         \/ \E a \in DOMAIN accounts : FreeSite(a)
         \/ CopyTextUUID
         \/ \E w \in Waiters : (\E k \in Kexts : GrabPgoData(w, k)) \/ PgoReturns(w) \/ PgoInterrupted(w)
         \/ UNCHANGED vars
  PROVE  Imaging'
<1>1. UNCHANGED imageVars /\ UNCHANGED <<op, account>>
  BY DEF DTraceArrives, GetAllocationSiteForCaller,
         CopyKextUUIDForAddress, FreeSite, CopyTextUUID, GrabPgoData, PgoReturns, PgoInterrupted,
         vars
<1> QED BY <1>1, ImagingKept DEF Entering

LEMMA OperationImaging ==
  ASSUME Imaging, Listing,
         \/ SizeSummaries \/ FillSummaries \/ Publish \/ SwapAccounts
         \/ Start \/ Stop \/ Profile \/ Retire \/ \E k \in Kexts : Unload(k)
  PROVE  Imaging'
<1> USE DEF At
<1>1. OpTyped
  BY DEF Listing, TablesTyped
<1>2. /\ UNCHANGED imageVars /\ UNCHANGED account
      /\ op.at \notin {"link", "attributes", "account"}
  BY DEF SizeSummaries, FillSummaries, Publish, SwapAccounts, Start, Stop, Profile, Retire, Unload, Idle
<1>3. op'.at \notin {"link", "attributes", "account"}
  <2>1. CASE SizeSummaries \/ FillSummaries \/ Publish \/ SwapAccounts
    <3>1. \/ op' = Free \/ UNCHANGED op
          \/ \E l \in {"fill", "accounts", "updated"} : Goto(l)
      BY <2>1 DEF SizeSummaries, FillSummaries, Publish, SwapAccounts, EndUpdate
    <3>2. CASE \E l \in {"fill", "accounts", "updated"} : Goto(l)
      <4>1. PICK l \in {"fill", "accounts", "updated"} : Goto(l)
        BY <3>2
      <4>2. op'.at = l
        BY <1>1, <4>1 DEF Goto, OpTyped, Free
      <4> QED BY <4>2
    <3> QED BY <1>2, <3>1, <3>2, FreeFacts
  <2>2. CASE Start \/ Stop \/ Profile \/ Retire \/ \E k \in Kexts : Unload(k)
    <3>1. \/ op' = Free
          \/ \E l \in {"profile", "retire", "free", "update"} : Goto(l)
          \/ \E k \in Kexts : op' = [name |-> "unload", kext |-> k, at |-> "stop"]
      BY <2>2 DEF Start, Stop, Profile, Retire, Unload
    <3>2. CASE \E l \in {"profile", "retire", "free", "update"} : Goto(l)
      <4>1. PICK l \in {"profile", "retire", "free", "update"} : Goto(l)
        BY <3>2
      <4>2. op'.at = l
        BY <1>1, <4>1 DEF Goto, OpTyped, Free
      <4> QED BY <4>2
    <3> QED BY <3>1, <3>2, FreeFacts
  <2> QED BY <2>1, <2>2
<1> QED BY <1>2, <1>3, ImagingKept DEF Entering

(* Prelinked kexts bring their pages with them; without a wrapper nobody   *)
(* has them.                                                               *)
LEMMA PrelinkedImaging ==
  ASSUME Imaging, Listing, NEW k \in Kexts, ReadPrelinked(k)
  PROVE  Imaging'
<1> DEFINE n == Len(PartsOf[k])
<1>1. n \in Nat \ {0} /\ Trimmed(k) \in 1 .. n
  BY LayoutFacts
<1>2. /\ k \notin prelinked /\ image[k] = NoImage /\ UNCHANGED <<op, account>> /\ Idle
      /\ \E at \in Places(n) :
           \/ /\ memory' = [p \in Pages |-> IF p \in PagesOf([at |-> at, size |-> n]) THEN Lost ELSE memory[p]]
              /\ UNCHANGED <<image, info, wired, protected, prelinked, probed, corrupt>>
           \/ \E r \in Slid([at |-> at, size |-> n], k) :
                /\ memory' = [p \in Pages |-> IF p \in PagesOf(r) THEN k ELSE memory[p]]
                /\ image' = [image EXCEPT ![k] = r]
                /\ info' = [info EXCEPT ![k] = r]
                /\ protected' = protected \cup PagesOf(r)
                /\ prelinked' = prelinked \cup {k}
                /\ UNCHANGED <<wired, probed, corrupt>>
  BY DEF ReadPrelinked, InitWithPrelinkedInfoDict
<1>3. PICK at \in Places(n) :
           \/ /\ memory' = [p \in Pages |-> IF p \in PagesOf([at |-> at, size |-> n]) THEN Lost ELSE memory[p]]
              /\ UNCHANGED <<image, info, wired, protected, prelinked, probed, corrupt>>
           \/ \E r \in Slid([at |-> at, size |-> n], k) :
                /\ memory' = [p \in Pages |-> IF p \in PagesOf(r) THEN k ELSE memory[p]]
                /\ image' = [image EXCEPT ![k] = r]
                /\ info' = [info EXCEPT ![k] = r]
                /\ protected' = protected \cup PagesOf(r)
                /\ prelinked' = prelinked \cup {k}
                /\ UNCHANGED <<wired, probed, corrupt>>
  BY <1>2
<1> DEFINE whole == [at |-> at, size |-> n]
<1> HIDE DEF n
<1>4. whole \in Place /\ PagesOf(whole) \subseteq Pages /\ \A p \in PagesOf(whole) : memory[p] = None
  BY <1>1, PlacesFacts
<1>5. \A j \in Kexts : ~Entering(j) /\ ~Entering(j)'
  BY <1>2 DEF Entering, Idle
<1>6. CASE /\ memory' = [p \in Pages |-> IF p \in PagesOf(whole) THEN Lost ELSE memory[p]]
           /\ UNCHANGED <<image, info, wired, protected, prelinked, probed, corrupt>>
  <2>1. /\ memory' \in [Pages -> Kexts \cup {None, Lost}]
        /\ \A j \in Kexts : \A p \in Pages : memory'[p] = j <=> memory[p] = j
    BY <1>4, <1>6 DEF Imaging, ImagesTyped
  <2>2. ImagesTyped' /\ PagesAreOwned'
    BY <1>6, <2>1 DEF Imaging, ImagesTyped, PagesAreOwned
  <2>3. \A j \in Kexts : ShouldBeWired(j)' = ShouldBeWired(j)
    BY <1>6 DEF ShouldBeWired, PartAt
  <2>4. ImagesAreWhole' /\ ImagesAreHad' /\ CodeIsReady'
    BY <1>2, <1>5, <1>6, <2>3 DEF Imaging, ImagesAreWhole, ImagesAreHad, CodeIsReady
  <2> QED BY <2>2, <2>4 DEF Imaging
<1>7. ASSUME NEW r \in Slid(whole, k),
             /\ memory' = [p \in Pages |-> IF p \in PagesOf(r) THEN k ELSE memory[p]]
             /\ image' = [image EXCEPT ![k] = r]
             /\ info' = [info EXCEPT ![k] = r]
             /\ protected' = protected \cup PagesOf(r)
             /\ prelinked' = prelinked \cup {k}
             /\ UNCHANGED <<wired, probed, corrupt>>
      PROVE  Imaging'
  <2>1. /\ r \in Place /\ PagesOf(r) \subseteq PagesOf(whole)
        /\ r.size # 0 /\ r.size <= Len(PartsOf[k])
    BY <1>1, <1>4 DEF Slid, Place, PagesOf, n
  <2>2. /\ \A j \in Kexts : image'[j] = IF j = k THEN r ELSE image[j]
        /\ \A j \in Kexts : info'[j] = IF j = k THEN r ELSE info[j]
        /\ image' \in [Kexts -> Place] /\ info' \in [Kexts -> Place]
    BY <1>7, <2>1 DEF Imaging, ImagesTyped
  <2>3. PagesOf(image[k]) = {}
    BY <1>2 DEF NoImage, PagesOf
  <2>4. ImagesTyped'
    BY <1>4, <1>7, <2>1, <2>2 DEF Imaging, ImagesTyped
  <2>5. PagesAreOwned'
    <3>1. \A j \in Kexts \ {k} : \A p \in Pages : memory'[p] = j <=> memory[p] = j
      BY <1>4, <1>7, <2>1
    <3>2. \A p \in Pages : memory'[p] = k <=> p \in PagesOf(r)
      BY <1>7, <2>3 DEF Imaging, PagesAreOwned
    <3> QED BY <1>4, <1>7, <2>1, <2>2, <3>1, <3>2 DEF Imaging, PagesAreOwned
  <2>6. ImagesAreWhole' /\ ImagesAreHad'
    BY <1>2, <1>5, <1>7, <2>1, <2>2 DEF Imaging, ImagesAreWhole, ImagesAreHad
  <2>7. account[k] = 0
    BY <1>2, <1>5 DEF Imaging, ImagesAreHad, NoImage
  <2>8. \A j \in Kexts \ {k} : ShouldBeWired(j)' = ShouldBeWired(j)
    BY <2>2 DEF ShouldBeWired, PartAt
  <2>9. CodeIsReady'
    BY <1>2, <1>5, <1>7, <2>2, <2>7, <2>8 DEF Imaging, CodeIsReady, ImagesTyped
  <2> QED BY <2>4, <2>5, <2>6, <2>9 DEF Imaging
<1> QED BY <1>3, <1>6, <1>7

(* The linker gets pages for a kext that has none. *)
LEMMA LoadImaging ==
  ASSUME Imaging, Listing, NEW k \in Kexts, Load(k)
  PROVE  Imaging'
<1>1. /\ Idle /\ account[k] = 0 /\ account' = account
      /\ \/ /\ k \in prelinked /\ UNCHANGED imageVars
            /\ op' = [name |-> "load", kext |-> k, at |-> "attributes"]
         \/ /\ k \notin prelinked /\ KernAllocate(k)
            /\ op' = [name |-> "load", kext |-> k, at |-> "link"]
  BY DEF Load
<1>2. \A j \in Kexts : ~Entering(j)
  BY <1>1 DEF Entering, Idle
<1>3. CASE /\ k \in prelinked /\ UNCHANGED imageVars
           /\ op' = [name |-> "load", kext |-> k, at |-> "attributes"]
  <2>1. /\ memory' = memory /\ image' = image /\ info' = info /\ wired' = wired
        /\ protected' = protected /\ prelinked' = prelinked /\ probed' = probed /\ corrupt' = corrupt
    BY <1>3 DEF imageVars
  <2>2. ImagesTyped' /\ PagesAreOwned'
    BY <2>1 DEF Imaging, ImagesTyped, PagesAreOwned
  <2>3. \A j \in Kexts : Entering(j)' <=> j = k
    BY <1>3 DEF Entering
  <2>4. ImagesAreWhole' /\ ImagesAreHad'
    BY <1>1, <1>2, <1>3, <2>1, <2>3 DEF Imaging, ImagesAreWhole, ImagesAreHad
  <2>5. \A j \in Kexts : ShouldBeWired(j)' = ShouldBeWired(j)
    BY <2>1 DEF ShouldBeWired, PartAt
  <2>6. op'.at # "account"
    BY <1>3
  <2>7. CodeIsReady'
    BY <1>1, <2>1, <2>5, <2>6 DEF Imaging, CodeIsReady
  <2> QED BY <2>2, <2>4, <2>7 DEF Imaging
<1>4. CASE /\ k \notin prelinked /\ KernAllocate(k)
           /\ op' = [name |-> "load", kext |-> k, at |-> "link"]
  <2> DEFINE n == Trimmed(k)
  <2>1. n \in Nat \ {0} /\ n <= Len(PartsOf[k])
    BY LayoutFacts
  <2>2. PICK at \in Places(n) :
          /\ memory' = [p \in Pages |-> IF p \in PagesOf([at |-> at, size |-> n]) THEN k ELSE memory[p]]
          /\ image' = [image EXCEPT ![k] = [at |-> at, size |-> n]]
          /\ UNCHANGED <<info, wired, protected, prelinked, probed, corrupt>>
    BY <1>4 DEF KernAllocate
  <2> DEFINE r == [at |-> at, size |-> n]
  <2> HIDE DEF n
  <2>3. /\ r \in Place /\ PagesOf(r) \subseteq Pages /\ \A p \in PagesOf(r) : memory[p] = None
        /\ r.size = n
    BY <2>1, PlacesFacts
  <2> HIDE DEF r
  <2>4. memory' = [p \in Pages |-> IF p \in PagesOf(r) THEN k ELSE memory[p]]
        /\ image' = [image EXCEPT ![k] = r]
    BY <2>2 DEF r
  <2>5. image[k].size = 0
    BY <1>1, <1>2, <1>4 DEF Imaging, ImagesAreHad
  <2>6. PagesOf(image[k]) = {}
    BY <2>5, ImageFacts
  <2>7. /\ image' \in [Kexts -> Place]
        /\ \A j \in Kexts : image'[j] = IF j = k THEN r ELSE image[j]
    BY <2>3, <2>4 DEF Imaging, ImagesTyped
  <2>8. ImagesTyped'
    BY <2>2, <2>3, <2>4, <2>7 DEF Imaging, ImagesTyped
  <2>9. PagesAreOwned'
    <3>1. \A j \in Kexts \ {k} : \A p \in Pages : memory'[p] = j <=> memory[p] = j
      BY <2>3, <2>4
    <3>2. \A p \in Pages : memory'[p] = k <=> p \in PagesOf(r)
      BY <2>4, <2>6 DEF Imaging, PagesAreOwned
    <3> QED BY <2>2, <2>3, <2>7, <3>1, <3>2 DEF Imaging, PagesAreOwned
  <2>10. (\A j \in Kexts : Entering(j)' <=> j = k) /\ op'.at = "link"
    BY <1>4 DEF Entering
  <2>11. ImagesAreWhole' /\ ImagesAreHad'
    BY <1>1, <1>2, <2>1, <2>2, <2>3, <2>7, <2>10 DEF Imaging, ImagesAreWhole, ImagesAreHad
  <2>12. \A j \in Kexts \ {k} : ShouldBeWired(j)' = ShouldBeWired(j)
    BY <2>7 DEF ShouldBeWired, PartAt
  <2>13. CodeIsReady'
    BY <1>1, <1>4, <2>2, <2>7, <2>10, <2>12 DEF Imaging, CodeIsReady, ImagesTyped
  <2> QED BY <2>8, <2>9, <2>11, <2>13 DEF Imaging
<1> QED BY <1>1, <1>3, <1>4

(* Releasing the image of k leaves everybody else's alone. *)
LEMMA ReleaseFacts ==
  ASSUME Imaging, NEW k \in Kexts, ReleaseImage(k), prelinked' = prelinked \ {k}, probed' \subseteq Kexts,
         \A j \in Kexts : account'[j] = IF j = k THEN 0 ELSE account[j],
         \A j \in Kexts : ~Entering(j)', \A j \in Kexts \ {k} : ~Entering(j)
  PROVE  Imaging'
<1> DEFINE ps == PagesOf(image[k])
<1>1. ps \in SUBSET Pages /\ \A p \in ps : memory[p] = k
  BY ImageFacts
<1>2. k # None
  OBVIOUS
<1>3. FreePages(ps) /\ image' = [image EXCEPT ![k] = NoImage] /\ info' = [info EXCEPT ![k] = NoImage]
  BY DEF ReleaseImage
<1>4. ps = {p \in Pages : memory[p] = k}
  BY DEF Imaging, PagesAreOwned
<1> HIDE DEF ps
<1>5. /\ memory' \in [Pages -> Kexts \cup {None, Lost}] /\ corrupt' = FALSE
      /\ \A p \in Pages : memory'[p] = IF p \in ps THEN None ELSE memory[p]
      /\ wired' = wired \ ps /\ protected' = protected \ ps
  BY <1>1, <1>2, <1>3, FreePagesFacts
<1>6. NoImage \in Place /\ PagesOf(NoImage) = {} /\ NoImage.size = 0
  BY DEF NoImage, Place, PagesOf
<1>7. /\ image' \in [Kexts -> Place] /\ info' \in [Kexts -> Place]
      /\ \A j \in Kexts : image'[j] = IF j = k THEN NoImage ELSE image[j]
      /\ \A j \in Kexts : info'[j] = IF j = k THEN NoImage ELSE info[j]
  BY <1>3, <1>6 DEF Imaging, ImagesTyped
<1>8. ImagesTyped'
  BY <1>5, <1>7 DEF Imaging, ImagesTyped
<1>9. PagesAreOwned'
  BY <1>4, <1>5, <1>6, <1>7 DEF Imaging, PagesAreOwned
<1>10. ImagesAreWhole' /\ ImagesAreHad'
  <2>1. Len(PartsOf[k]) \in Nat
    BY LayoutFacts
  <2> QED BY <1>6, <1>7, <2>1 DEF Imaging, ImagesAreWhole, ImagesAreHad
<1>11. \A j \in Kexts \ {k} : /\ ShouldBeWired(j)' = ShouldBeWired(j)
                              /\ PagesOf(image[j]) \cap ps = {}
                              /\ ShouldBeWired(j) \subseteq PagesOf(image[j])
  <2>1. \A j \in Kexts \ {k} : ShouldBeWired(j)' = ShouldBeWired(j) /\ ShouldBeWired(j) \subseteq PagesOf(image[j])
    BY <1>7 DEF ShouldBeWired, PartAt
  <2>2. \A j \in Kexts \ {k} : PagesOf(image[j]) \cap ps = {}
    BY <1>4 DEF Imaging, PagesAreOwned
  <2> QED BY <2>1, <2>2
<1>12. CodeIsReady'
  BY <1>5, <1>7, <1>11 DEF Imaging, CodeIsReady, ImagesTyped
<1> QED BY <1>8, <1>9, <1>10, <1>12 DEF Imaging

LEMMA FailImaging ==
  ASSUME Imaging, Listing, FailLoad, op.at \in {"link", "attributes", "account"}
  PROVE  Imaging'
<1>1. op.kext \in Kexts /\ account[op.kext] = 0
  BY OpFacts DEF Listing, TablesTyped, UnderWay, Entering
<1>2. /\ ReleaseImage(op.kext) /\ prelinked' = prelinked \ {op.kext} /\ probed' = probed
      /\ op' = Free /\ account' = account
  BY DEF FailLoad, DropImage
<1>3. \A j \in Kexts : ~Entering(j)'
  BY <1>2, FreeFacts DEF Entering
<1>4. \A j \in Kexts \ {op.kext} : ~Entering(j)
  BY DEF Entering
<1>5. probed' \subseteq Kexts
  BY <1>2 DEF Imaging, ImagesTyped
<1>6. \A j \in Kexts : account'[j] = IF j = op.kext THEN 0 ELSE account[j]
  BY <1>1, <1>2
<1> QED BY <1>1, <1>2, <1>3, <1>4, <1>5, <1>6, ReleaseFacts

(* Images change before a step of the load or after it, and not in it. *)
LEMMA LinkImaging == ASSUME Imaging, Listing, Link PROVE Imaging'
<1> DEFINE k == op.kext
<1>1. /\ op.at = "link" /\ op.name = "load" /\ k \in Kexts /\ OpTyped
      /\ Entering(k) /\ \A j \in Kexts \ {k} : ~Entering(j)
  BY OpFacts DEF Link, At, Listing, TablesTyped, Entering
<1>2. CASE FailLoad
  BY <1>1, <1>2, FailImaging
<1>3. CASE KxldLinkFile(k) /\ Goto("attributes") /\ account' = account
  <2>1. op'.at = "attributes" /\ op'.kext = k
    BY <1>1, <1>3, GotoFacts DEF LoadSteps
  <2>2. \A j \in Kexts : Entering(j)' <=> Entering(j)
    BY <1>1, <2>1 DEF Entering
  <2>3. /\ memory' = memory /\ image' = image /\ wired' = wired /\ protected' = protected
        /\ prelinked' = prelinked /\ probed' = probed /\ corrupt' = corrupt
        /\ \A j \in Kexts : info'[j] = IF j = k THEN image[j] ELSE info[j]
        /\ info' \in [Kexts -> Place]
    BY <1>1, <1>3 DEF KxldLinkFile, Imaging, ImagesTyped
  <2>4. ImagesTyped' /\ PagesAreOwned'
    BY <2>3 DEF Imaging, ImagesTyped, PagesAreOwned
  <2>5. ImagesAreWhole' /\ ImagesAreHad'
    BY <1>1, <1>3, <2>2, <2>3 DEF Imaging, ImagesAreWhole, ImagesAreHad
  <2>6. \A j \in Kexts : ShouldBeWired(j)' = ShouldBeWired(j)
    BY <2>3 DEF ShouldBeWired, PartAt
  <2>7. CodeIsReady'
    BY <1>3, <2>1, <2>3, <2>6 DEF Imaging, CodeIsReady
  <2> QED BY <2>4, <2>5, <2>7 DEF Imaging
<1> QED BY <1>2, <1>3 DEF Link

LEMMA AttributesImaging == ASSUME Imaging, Listing, Attributes PROVE Imaging'
<1> DEFINE k == op.kext
<1>1. /\ op.at = "attributes" /\ op.name = "load" /\ k \in Kexts /\ OpTyped
      /\ Entering(k) /\ \A j \in Kexts \ {k} : ~Entering(j)
  BY OpFacts DEF Attributes, At, Listing, TablesTyped, Entering
<1>2. CASE FailLoad
  BY <1>1, <1>2, FailImaging
<1>3. CASE SetVMAttributes(k, PagesOf(image[k])) /\ Goto("account") /\ account' = account
  <2>1. op'.at = "account" /\ op'.kext = k
    BY <1>1, <1>3, GotoFacts DEF LoadSteps
  <2>2. \A j \in Kexts : Entering(j)' <=> Entering(j)
    BY <1>1, <2>1 DEF Entering
  <2>3. /\ memory' = memory /\ image' = image /\ info' = info /\ prelinked' = prelinked
        /\ probed' = probed /\ corrupt' = corrupt
        /\ wired' = wired \cup (PagesOf(image[k]) \cap ShouldBeWired(k))
        /\ protected' = protected \cup (IF k \in prelinked THEN {} ELSE PagesOf(image[k]))
    BY <1>3 DEF SetVMAttributes
  <2>4. PagesOf(image[k]) \subseteq Pages /\ ShouldBeWired(k) \subseteq PagesOf(image[k])
    BY <1>1, ImageFacts
  <2>5. ImagesTyped' /\ PagesAreOwned'
    BY <2>3, <2>4 DEF Imaging, ImagesTyped, PagesAreOwned
  <2>6. ImagesAreWhole' /\ ImagesAreHad'
    BY <1>1, <1>3, <2>2, <2>3 DEF Imaging, ImagesAreWhole, ImagesAreHad
  <2>7. \A j \in Kexts : ShouldBeWired(j)' = ShouldBeWired(j)
    BY <2>3 DEF ShouldBeWired, PartAt
  <2>8. \A j \in prelinked' : PagesOf(image'[j]) \subseteq protected'
    BY <2>3 DEF Imaging, CodeIsReady
  <2>9. ShouldBeWired(k) \subseteq wired' \cap protected'
    BY <2>3, <2>4, <2>8
  <2>10. \A j \in Kexts \ {k} : account'[j] # 0 \/ (Entering(j)' /\ op'.at = "account") =>
           ShouldBeWired(j) \subseteq wired' \cap protected'
    BY <1>1, <1>3, <2>2, <2>3 DEF Imaging, CodeIsReady
  <2>11. CodeIsReady'
    BY <2>7, <2>8, <2>9, <2>10 DEF CodeIsReady
  <2> QED BY <2>5, <2>6, <2>11 DEF Imaging
<1> QED BY <1>2, <1>3 DEF Attributes

LEMMA EnterImaging == ASSUME Imaging, Listing, EnterLoaded PROVE Imaging'
<1> DEFINE k == op.kext
<1>1. /\ op.at = "account" /\ op.name = "load" /\ k \in Kexts /\ OpTyped
      /\ accounts \in Seq(Account) /\ account \in [Kexts -> 0 .. Len(accounts)]
      /\ Entering(k) /\ \A j \in Kexts \ {k} : ~Entering(j)
  BY OpFacts DEF EnterLoaded, At, Listing, TablesTyped, Entering
<1>2. CASE FailLoad
  BY <1>1, <1>2, FailImaging
<1>3. CASE ~FailLoad
  <2> DEFINE e == [kext |-> k, tag |-> FALSE, freed |-> FALSE]
  <2>1. /\ UNCHANGED imageVars /\ Goto("update")
        /\ account' = [account EXCEPT ![k] = Len(accounts')]
        /\ accounts' = Append(accounts, e)
    BY <1>3 DEF EnterLoaded
  <2>2. e \in Account
    BY <1>1 DEF Account
  <2> HIDE DEF e
  <2>3. Len(accounts') = Len(accounts) + 1 /\ Len(accounts) \in Nat
    BY <1>1, <2>1, <2>2, AccountFacts
  <2>4. \A j \in Kexts : account'[j] = IF j = k THEN Len(accounts) + 1 ELSE account[j]
    BY <1>1, <2>1, <2>3
  <2>5. op'.at = "update"
    BY <1>1, <2>1, GotoFacts DEF UpdateSteps
  <2>6. \A j \in Kexts : ~Entering(j)'
    BY <2>5 DEF Entering
  <2>7. \A j \in Kexts : Entering(j)' \/ account'[j] # 0 <=> Entering(j) \/ account[j] # 0
    BY <1>1, <2>3, <2>4, <2>6
  <2>8. \A j \in Kexts : account'[j] # 0 \/ (Entering(j)' /\ op'.at = "account") =>
                          account[j] # 0 \/ (Entering(j) /\ op.at = "account")
    BY <1>1, <2>3, <2>4, <2>6
  <2>9. op.at # "link"
    BY <1>1
  <2> QED BY <2>1, <2>7, <2>8, <2>9, ImagingKept
<1> QED BY <1>2, <1>3

LEMMA FreeImaging == ASSUME Imaging, Listing, FreeImage PROVE Imaging'
<1> DEFINE k == op.kext
<1>1. /\ op.at = "free" /\ op.name = "unload" /\ k \in Kexts /\ OpTyped
      /\ \A j \in Kexts : ~Entering(j)
  BY OpFacts DEF FreeImage, At, Listing, TablesTyped, Entering
<1>2. Goto("update")
  BY DEF FreeImage
<1>3. op'.at = "update" /\ \A j \in Kexts : ~Entering(j)'
  BY <1>1, <1>2, GotoFacts DEF UpdateSteps, Entering
<1>4. probed' \subseteq Kexts
  BY DEF FreeImage, UnloadImage, Imaging, ImagesTyped
<1>5. CASE UnloadImage(k) /\ account' = [account EXCEPT ![k] = 0]
  <2>1. \A j \in Kexts : account'[j] = IF j = k THEN 0 ELSE account[j]
    BY <1>5 DEF Listing, TablesTyped
  <2> QED BY <1>1, <1>3, <1>4, <1>5, <2>1, ReleaseFacts DEF UnloadImage
<1>6. CASE UNCHANGED <<memory, image, info, wired, protected, prelinked, corrupt, account>>
  <2>1. ImagesTyped' /\ PagesAreOwned'
    BY <1>4, <1>6 DEF Imaging, ImagesTyped, PagesAreOwned
  <2>2. \A j \in Kexts : ShouldBeWired(j)' = ShouldBeWired(j)
    BY <1>6 DEF ShouldBeWired, PartAt
  <2>3. ImagesAreWhole' /\ ImagesAreHad' /\ CodeIsReady'
    BY <1>1, <1>3, <1>6, <2>2 DEF Imaging, ImagesAreWhole, ImagesAreHad, CodeIsReady
  <2> QED BY <2>1, <2>3 DEF Imaging
<1> QED BY <1>5, <1>6 DEF FreeImage

(* What link edit takes up, and an image without it. *)
Trimmings(k) == {p \in PagesOf(image[k]) : PartAt(k, p) \notin {"text", "data"}}
Shrunk(r, k, ks) == IF k \in ks THEN [r EXCEPT !.size = @ - Cardinality(Trimmings(k))] ELSE r

LEMMA TrimmingsFacts ==
  ASSUME Imaging, NEW k \in Kexts
  PROVE  LET left == [image[k] EXCEPT !.size = @ - Cardinality(Trimmings(k))]
         IN  /\ Trimmings(k) = PagesOf(image[k]) \ ShouldBeWired(k)
             /\ left \in Place /\ left.at = image[k].at /\ left.size <= image[k].size
             /\ PagesOf(left) = ShouldBeWired(k)
             /\ CodePages(k, left) = ShouldBeWired(k)
             /\ image[k].size # 0 <=> left.size # 0
<1> DEFINE r == image[k]
           tail == {p \in PagesOf(r) : PartsOf[k][p - r.at + 1] \notin {"text", "data"}}
<1>1. r \in Place /\ r.size <= Len(PartsOf[k]) /\ ShouldBeWired(k) = CodePages(k, r)
  BY ImageFacts
<1>2. Trimmings(k) = tail
  BY DEF Trimmings, PartAt
<1> HIDE DEF r
<1>3. LET left == [r EXCEPT !.size = r.size - Cardinality(tail)]
      IN  /\ tail = PagesOf(r) \ CodePages(k, r)
          /\ left \in Place /\ left.at = r.at /\ left.size <= r.size
          /\ PagesOf(left) = CodePages(k, r)
          /\ CodePages(k, left) = CodePages(k, r)
          /\ r.size # 0 <=> left.size # 0
  BY ZenonT(60), <1>1, LayoutOfPlace
<1> HIDE DEF tail
<1> QED BY <1>1, <1>2, <1>3 DEF r

(* Freeing the link edit of some kexts takes no code from anybody. *)
LEMMA JettisonFacts ==
  ASSUME Imaging, NEW ks \in SUBSET Kexts, Jettison(ks),
         prelinked' = prelinked, probed' \subseteq Kexts, account' = account,
         \A j \in Kexts : ~Entering(j) /\ ~Entering(j)'
  PROVE  /\ Imaging'
         /\ \A j \in Kexts : info'[j].at = info[j].at /\ info'[j].size <= info[j].size
<1> DEFINE ps == UNION {Trimmings(j) : j \in ks}
<1>1. /\ FreePages(ps)
      /\ image' = [j \in Kexts |-> Shrunk(image[j], j, ks)]
      /\ info' = [j \in Kexts |-> Shrunk(info[j], j, ks)]
  BY DEF Jettison, Trimmings, Shrunk
<1>2. \A j \in Kexts : Trimmings(j) \subseteq PagesOf(image[j])
  BY DEF Trimmings
<1>3. \A j \in Kexts : PagesOf(image[j]) = {p \in Pages : memory[p] = j}
  BY DEF Imaging, PagesAreOwned
<1>4. ps \in SUBSET Pages /\ \A p \in ps : memory[p] # None
  BY <1>2, <1>3
<1>5. \A j \in Kexts : PagesOf(image[j]) \cap ps = IF j \in ks THEN Trimmings(j) ELSE {}
  <2> SUFFICES ASSUME NEW j \in Kexts
               PROVE  PagesOf(image[j]) \cap ps = IF j \in ks THEN Trimmings(j) ELSE {}
    OBVIOUS
  <2>1. \A i \in ks : i # j => PagesOf(image[j]) \cap Trimmings(i) = {}
    BY <1>2, <1>3
  <2>2. Trimmings(j) \subseteq PagesOf(image[j])
    BY <1>2
  <2> QED BY <2>1, <2>2
<1> HIDE DEF ps
<1>6. /\ memory' \in [Pages -> Kexts \cup {None, Lost}] /\ corrupt' = FALSE
      /\ \A p \in Pages : memory'[p] = IF p \in ps THEN None ELSE memory[p]
      /\ wired' = wired \ ps /\ protected' = protected \ ps
  BY <1>1, <1>4, FreePagesFacts
<1>7. \A j \in Kexts : info[j] = image[j]
  BY DEF Imaging, ImagesAreWhole
<1>8. ASSUME NEW j \in Kexts
      PROVE  /\ image'[j] \in Place /\ info'[j] = image'[j]
             /\ image'[j].at = image[j].at /\ image'[j].size <= image[j].size
             /\ image'[j].size # 0 <=> image[j].size # 0
             /\ PagesOf(image'[j]) = PagesOf(image[j]) \ ps
             /\ CodePages(j, image'[j]) = ShouldBeWired(j)
             /\ ShouldBeWired(j) \cap ps = {}
  <2>1. image'[j] = Shrunk(image[j], j, ks) /\ info'[j] = Shrunk(image[j], j, ks)
    BY <1>1, <1>7
  <2>2. image[j] \in Place /\ ShouldBeWired(j) \subseteq PagesOf(image[j])
        /\ ShouldBeWired(j) = CodePages(j, image[j])
        /\ image[j].size \in Nat
    BY ImageFacts
  <2>3. CASE j \notin ks
    <3>1. image'[j] = image[j] /\ info'[j] = image[j]
      BY <2>1, <2>3 DEF Shrunk
    <3> QED BY <1>5, <2>2, <2>3, <3>1
  <2>4. CASE j \in ks
    <3> DEFINE left == [image[j] EXCEPT !.size = @ - Cardinality(Trimmings(j))]
    <3>1. image'[j] = left /\ info'[j] = left
      BY <2>1, <2>4 DEF Shrunk
    <3>2. /\ Trimmings(j) = PagesOf(image[j]) \ ShouldBeWired(j)
          /\ left \in Place /\ left.at = image[j].at /\ left.size <= image[j].size
          /\ PagesOf(left) = ShouldBeWired(j)
          /\ CodePages(j, left) = ShouldBeWired(j)
          /\ image[j].size # 0 <=> left.size # 0
      BY TrimmingsFacts
    <3> HIDE DEF left
    <3> QED BY <1>5, <2>2, <2>4, <3>1, <3>2
  <2> QED BY <2>3, <2>4
<1>9. image' \in [Kexts -> Place] /\ info' \in [Kexts -> Place]
  <2>1. DOMAIN image' = Kexts /\ DOMAIN info' = Kexts
        /\ image' = [j \in Kexts |-> image'[j]] /\ info' = [j \in Kexts |-> info'[j]]
    BY <1>1
  <2> QED BY <1>8, <2>1
<1>10. ImagesTyped'
  BY <1>6, <1>9 DEF Imaging, ImagesTyped
<1>11. PagesAreOwned'
  <2>1. ASSUME NEW j \in Kexts PROVE PagesOf(image'[j]) = {p \in Pages : memory'[p] = j}
    <3>1. PagesOf(image'[j]) = PagesOf(image[j]) \ ps /\ PagesOf(image[j]) = {p \in Pages : memory[p] = j}
      BY <1>3, <1>8
    <3>2. \A p \in Pages : memory'[p] = j <=> memory[p] = j /\ p \notin ps
      BY <1>6
    <3> QED BY <3>1, <3>2
  <2> QED BY <1>6, <2>1 DEF PagesAreOwned
<1>12. ImagesAreWhole'
  <2>1. \A j \in Kexts : Len(PartsOf[j]) \in Nat /\ image[j].size <= Len(PartsOf[j])
                        /\ image[j].size \in Nat
    BY ImageFacts, LayoutFacts
  <2>2. \A j \in Kexts : image'[j].size \in Nat
    BY <1>8 DEF Place
  <2> QED BY <1>8, <2>1, <2>2 DEF ImagesAreWhole
<1>13. ImagesAreHad'
  BY <1>8 DEF Imaging, ImagesAreHad
<1>14. \A j \in Kexts : ShouldBeWired(j)' = ShouldBeWired(j)
  <2>1. ASSUME NEW j \in Kexts
        PROVE  ShouldBeWired(j)' = CodePages(j, image'[j])
    <3>1. /\ image'[j] \in Place /\ image'[j].size <= Len(PartsOf[j])
      BY <1>8, <1>12 DEF ImagesAreWhole
    <3> DEFINE q == image'[j]
    <3>2. ShouldBeWired(j)' = {p \in PagesOf(q) : PartsOf[j][p - q.at + 1] \in {"text", "data"}}
      BY DEF ShouldBeWired, PartAt
    <3> HIDE DEF q
    <3>3. {p \in PagesOf(q) : PartsOf[j][p - q.at + 1] \in {"text", "data"}} = CodePages(j, q)
      BY <3>1, LayoutOfPlace DEF q
    <3> QED BY <3>2, <3>3 DEF q
  <2> QED BY <1>8, <2>1
<1>15. CodeIsReady'
  <2>1. \A j \in prelinked' : PagesOf(image'[j]) \subseteq protected'
    BY <1>6, <1>8 DEF Imaging, CodeIsReady, ImagesTyped
  <2>2. \A j \in Kexts : account'[j] # 0 => ShouldBeWired(j) \subseteq wired' \cap protected'
    BY <1>6, <1>8 DEF Imaging, CodeIsReady
  <2> QED BY <1>14, <2>1, <2>2 DEF CodeIsReady
<1>16. \A j \in Kexts : info'[j].at = info[j].at /\ info'[j].size <= info[j].size
  BY <1>7, <1>8
<1> QED BY <1>10, <1>11, <1>12, <1>13, <1>15, <1>16 DEF Imaging

LEMMA RegisterImaging ==
  ASSUME Imaging, Listing, Register \/ RegisterKextsWithDTrace
  PROVE  /\ Imaging'
         /\ \A j \in Kexts : info'[j].at = info[j].at /\ info'[j].size <= info[j].size
<1>1. /\ OpTyped /\ account' = account
      /\ \/ op.at = "updated" /\ op.name = "load" /\ Goto("start")
         \/ op.at = "idle" /\ op' = op
      /\ \/ UNCHANGED imageVars
         \/ \E ks \in SUBSET Kexts : RegisterWithDTrace(ks)
  <2>1. CASE Register
    <3>1. {op.kext} \ probed \in SUBSET Kexts
      BY <2>1, OpFacts DEF Register, At, Listing, TablesTyped
    <3> QED BY <2>1, <3>1 DEF Register, At, Listing, TablesTyped
  <2>2. CASE RegisterKextsWithDTrace
    <3>1. \A i \in DOMAIN loadedKexts : loadedKexts[i] \in Kexts
      BY ElementOfSeq DEF Listing, TablesTyped
    <3> DEFINE ks == {loadedKexts[i] : i \in DOMAIN loadedKexts \cap 1 .. dtrace.count} \ probed
    <3>2. ks \in SUBSET Kexts
      BY <3>1
    <3>3. RegisterWithDTrace(ks)
      BY <2>2 DEF RegisterKextsWithDTrace
    <3> HIDE DEF ks
    <3> QED BY <2>2, <3>2, <3>3 DEF RegisterKextsWithDTrace, Idle, Listing, TablesTyped
  <2> QED BY <2>1, <2>2
<1>2. \A j \in Kexts : ~Entering(j) /\ ~Entering(j)'
  BY <1>1, GotoFacts DEF Entering, LoadSteps
<1>3. CASE UNCHANGED imageVars
  <2>1. Imaging'
    BY <1>1, <1>2, <1>3, ImagingKept
  <2>2. \A j \in Kexts : info[j].size \in Nat
    BY DEF Imaging, ImagesTyped, Place
  <2> QED BY <1>3, <2>1, <2>2 DEF imageVars
<1>4. CASE \E ks \in SUBSET Kexts : RegisterWithDTrace(ks)
  <2>1. PICK ks \in SUBSET Kexts : RegisterWithDTrace(ks)
    BY <1>4
  <2>2. PICK js \in SUBSET Kexts : Jettison(js)
    BY <2>1 DEF RegisterWithDTrace
  <2>3. prelinked' = prelinked /\ probed' \subseteq Kexts
    BY <2>1 DEF RegisterWithDTrace, Imaging, ImagesTyped
  <2> QED BY <1>1, <1>2, <2>2, <2>3, JettisonFacts
<1> QED BY <1>1, <1>3, <1>4

LEMMA ImagingStep == ASSUME Listing, Imaging, [Next]_vars PROVE Imaging'
BY QuietImaging, OperationImaging, PrelinkedImaging, LoadImaging, LinkImaging, AttributesImaging,
   EnterImaging, FreeImaging, RegisterImaging DEF Next, Steps

-----------------------------------------------------------------------------
(* What the tables tell.  The kmod_info of a loaded kext only shrinks.     *)
LEMMA InfoOfLoaded ==
  ASSUME Listing, Imaging, [Next]_vars, NEW k \in ToSet(loadedKexts)
  PROVE  info'[k].at = info[k].at /\ info'[k].size <= info[k].size
<1>1. k \in Kexts /\ account[k] # 0 /\ ~Entering(k) /\ (op.at = "free" => op.kext # k)
  BY ToSetFacts DEF Listing, TablesTyped, ListedOnce, UnderWay
<1>2. info[k] \in Place /\ info[k].size \in Nat /\ info \in [Kexts -> Place]
  BY <1>1 DEF Imaging, ImagesTyped, Place
<1>3. SUFFICES ASSUME ~(Register \/ RegisterKextsWithDTrace) PROVE info'[k] = info[k]
  BY <1>1, <1>2, <1>3, RegisterImaging
<1>4. CASE UNCHANGED vars
  BY <1>4 DEF vars, imageVars
<1>5. CASE Link \/ Attributes \/ EnterLoaded
  <2>1. op.kext # k
    BY <1>1, <1>5 DEF Link, Attributes, EnterLoaded, At, Entering
  <2>2. info' = info \/ info' = [info EXCEPT ![op.kext] = NoImage]
        \/ info' = [info EXCEPT ![op.kext] = image[op.kext]]
    BY <1>5 DEF Link, Attributes, EnterLoaded, FailLoad, DropImage, ReleaseImage, KxldLinkFile,
         SetVMAttributes, imageVars
  <2> QED BY <1>1, <1>2, <2>1, <2>2
<1>6. CASE FreeImage
  <2>1. op.kext # k
    BY <1>1, <1>6 DEF FreeImage, At
  <2>2. info' = info \/ info' = [info EXCEPT ![op.kext] = NoImage]
    BY <1>6 DEF FreeImage, UnloadImage, ReleaseImage
  <2> QED BY <1>1, <1>2, <2>1, <2>2
<1>7. CASE Start \/ Stop \/ Profile \/ Retire \/ SizeSummaries \/ FillSummaries \/ Publish \/ SwapAccounts
  BY <1>7 DEF Start, Stop, Profile, Retire, SizeSummaries, FillSummaries, Publish, SwapAccounts, imageVars
<1>8. CASE \E j \in Kexts : ReadPrelinked(j)
  <2>1. accounts = <<>> /\ account \in [Kexts -> 0 .. Len(accounts)]
    BY <1>8 DEF ReadPrelinked, Listing, TablesTyped
  <2>2. Len(accounts) = 0
    BY <2>1
  <2> QED BY <1>1, <2>1, <2>2
<1>9. CASE \E j \in Kexts : Load(j) \/ Unload(j)
  BY <1>9 DEF Load, Unload, KernAllocate, imageVars
<1>10. CASE \/ DTraceArrives \/ CopyTextUUID
            \/ \E p \in Pages : GetAllocationSiteForCaller(p) \/ CopyKextUUIDForAddress(p)
            \/ \E a \in DOMAIN accounts : FreeSite(a)
            \/ \E w \in Waiters : (\E j \in Kexts : GrabPgoData(w, j)) \/ PgoReturns(w) \/ PgoInterrupted(w)
  BY <1>10 DEF DTraceArrives, CopyTextUUID, GetAllocationSiteForCaller, CopyKextUUIDForAddress,
       FreeSite, GrabPgoData, PgoReturns, PgoInterrupted, imageVars
<1> QED BY <1>3, <1>4, <1>5, <1>6, <1>7, <1>8, <1>9, <1>10 DEF Next, Steps

LEMMA CoversKept ==
  ASSUME Listing, NEW t \in Table, Covers(t), loadedKexts' = loadedKexts,
         \A k \in ToSet(loadedKexts) : info'[k].at = info[k].at /\ info'[k].size <= info[k].size,
         \A k \in Kexts : info[k].size \in Nat /\ info'[k].size \in Nat
  PROVE  /\ Len(t.entries) <= Len(loadedKexts')
         /\ \A i \in DOMAIN t.entries : t.entries[i].kext = loadedKexts'[i]
              /\ t.entries[i].at = info'[loadedKexts'[i]].at
              /\ t.entries[i].size >= info'[loadedKexts'[i]].size
<1>1. t.entries \in Seq([kext : Kexts, at : Nat, size : Nat])
  BY DEF Table
<1>2. /\ DOMAIN t.entries = 1 .. Len(t.entries) /\ Len(t.entries) \in Nat
      /\ \A i \in DOMAIN t.entries : t.entries[i] \in [kext : Kexts, at : Nat, size : Nat]
  <2> DEFINE E == [kext : Kexts, at : Nat, size : Nat]
             s == t.entries
  <2> HIDE DEF E, s
  <2>1. s \in Seq(E)
    BY <1>1 DEF E, s
  <2>2. DOMAIN s = 1 .. Len(s) /\ Len(s) \in Nat
    BY <2>1
  <2>3. \A i \in DOMAIN s : s[i] \in E
    BY <2>1, <2>2, ElementOfSeq
  <2> QED BY <2>2, <2>3 DEF E, s
<1>3. DOMAIN loadedKexts = 1 .. Len(loadedKexts) /\ Len(loadedKexts) \in Nat
  BY DEF Listing, TablesTyped
<1>4. ASSUME NEW i \in DOMAIN t.entries
      PROVE  t.entries[i].kext = loadedKexts'[i]
              /\ t.entries[i].at = info'[loadedKexts'[i]].at
              /\ t.entries[i].size >= info'[loadedKexts'[i]].size
  <2>1. i \in DOMAIN loadedKexts
    BY <1>2, <1>3 DEF Covers
  <2> DEFINE k == loadedKexts[i]
  <2>2. k \in ToSet(loadedKexts) /\ k \in Kexts
    BY <2>1, ToSetFacts DEF ToSet, Listing, TablesTyped
  <2>3. t.entries[i].kext = k /\ t.entries[i].at = info[k].at /\ t.entries[i].size >= info[k].size
    BY DEF Covers, Summarizes
  <2>4. t.entries[i].size \in Nat
    BY <1>2
  <2> HIDE DEF k
  <2>5. t.entries[i].at = info'[k].at /\ t.entries[i].size >= info'[k].size
    BY <2>2, <2>3, <2>4
  <2> QED BY <2>3, <2>5 DEF k
<1> QED BY <1>4 DEF Covers

(* Steps that leave the tables alone. *)
LEMMA TellingKept ==
  ASSUME Listing, Imaging, Telling, Imaging', [Next]_vars,
         UNCHANGED loadedKexts, UNCHANGED <<table, draft, stale>>,
         panicList' = panicList \/ panicList' = PanicOrder(loadedKexts),
         op'.at = "fill" <=> op.at = "fill", op'.at = "free" <=> op.at = "free",
         Settled' => Settled
  PROVE  Telling'
<1>1. \A k \in ToSet(loadedKexts) : info'[k].at = info[k].at /\ info'[k].size <= info[k].size
  BY InfoOfLoaded
<1>2. \A k \in Kexts : info[k].size \in Nat /\ info'[k].size \in Nat
  BY DEF Imaging, ImagesTyped, Place
<1>3. table \in Table /\ draft \in Table /\ Filled \in Table
  BY DEF Listing, TablesTyped, Filled
<1>4. Filling'
  <2>1. WellFormed(table)' /\ WellFormed(draft)' /\ (op'.at # "fill" => draft' = NoTable)
        /\ (draft'.room > 0 => table' = NoTable)
    BY DEF Telling, Filling, WellFormed
  <2>2. ASSUME op'.at = "fill"
        PROVE  Covers(Filled)' /\ (Len(loadedKexts) <= Filled.room)' /\ (Len(Filled.entries) <= Filled.num + 1)'
    <3>1. Covers(Filled) /\ Len(loadedKexts) <= Filled.room /\ Len(Filled.entries) <= Filled.num + 1
      BY <2>2 DEF Telling, Filling
    <3>2. Filled' = Filled
      BY DEF Filled
    <3>3. Covers(Filled)'
      BY <1>1, <1>2, <1>3, <3>1, <3>2, CoversKept DEF Covers, Summarizes
    <3> QED BY <3>1, <3>2, <3>3
  <2> QED BY <2>1, <2>2 DEF Filling
<1>5. TableIsTrue'
  <2>1. ASSUME Settled' PROVE Covers(table)' /\ (table.num = Len(loadedKexts))'
    <3>1. Covers(table) /\ table.num = Len(loadedKexts)
      BY <2>1 DEF Telling, TableIsTrue
    <3>2. Covers(table)'
      BY <1>1, <1>2, <1>3, <3>1, CoversKept DEF Covers, Summarizes
    <3> QED BY <3>1, <3>2
  <2> QED BY <2>1 DEF TableIsTrue
<1>6. PanicListIsTrue'
  <2>1. PanicOrder(loadedKexts)' = PanicOrder(loadedKexts)
    OBVIOUS
  <2> QED BY <2>1 DEF Telling, PanicListIsTrue
<1> QED BY <1>4, <1>5, <1>6 DEF Telling

LEMMA OthersTelling ==
  ASSUME Listing, Imaging, Telling, Imaging', [Next]_vars,
         \/ \E k \in Kexts : ReadPrelinked(k) \/ Load(k) \/ Unload(k)
         \/ DTraceArrives \/ RegisterKextsWithDTrace
         \/ \E p \in Pages : GetAllocationSiteForCaller(p) \/ CopyKextUUIDForAddress(p)
         \/ \E a \in DOMAIN accounts : FreeSite(a)
         \/ CopyTextUUID
         \/ \E w \in Waiters : (\E k \in Kexts : GrabPgoData(w, k)) \/ PgoReturns(w) \/ PgoInterrupted(w)
         \/ UNCHANGED vars
  PROVE  Telling'
<1>1. /\ UNCHANGED loadedKexts /\ UNCHANGED <<table, draft, stale>> /\ panicList' = panicList
      /\ \/ op' = op
         \/ op.at = "idle" /\ op'.at \in {"link", "attributes", "stop"}
  <2>1. CASE \E k \in Kexts : ReadPrelinked(k)
    BY <2>1 DEF ReadPrelinked, tables, others
  <2>2. CASE \E k \in Kexts : Load(k)
    BY <2>2 DEF Load, tables, others, Idle
  <2>3. CASE \E k \in Kexts : Unload(k)
    BY <2>3 DEF Unload, tables, others, Idle
  <2>4. CASE DTraceArrives \/ RegisterKextsWithDTrace \/ CopyTextUUID
    BY <2>4 DEF DTraceArrives, RegisterKextsWithDTrace, CopyTextUUID, tables
  <2>5. CASE \E p \in Pages : GetAllocationSiteForCaller(p) \/ CopyKextUUIDForAddress(p)
    BY <2>5 DEF GetAllocationSiteForCaller, CopyKextUUIDForAddress, tables, others
  <2>6. CASE \E a \in DOMAIN accounts : FreeSite(a)
    BY <2>6 DEF FreeSite, tables, others
  <2>7. CASE \E w \in Waiters : (\E k \in Kexts : GrabPgoData(w, k)) \/ PgoReturns(w) \/ PgoInterrupted(w)
    BY <2>7 DEF GrabPgoData, PgoReturns, PgoInterrupted, tables
  <2>8. CASE UNCHANGED vars
    BY <2>8 DEF vars, tables
  <2> QED BY <2>1, <2>2, <2>3, <2>4, <2>5, <2>6, <2>7, <2>8
<1> QED BY <1>1, TellingKept DEF Settled

LEMMA SavedList ==
  ASSUME SaveLoadedKextPanicList(loadedKexts')
  PROVE  "memory" \notin Faults => panicList' = PanicOrder(loadedKexts')
BY DEF SaveLoadedKextPanicList

(* The steps of an operation outside updateLoadedKextSummaries. *)
LEMMA QuietTelling ==
  ASSUME Listing, Imaging, Telling, Imaging', [Next]_vars,
         Link \/ Attributes \/ Register \/ Start \/ Profile \/ (EnterLoaded /\ FailLoad)
  PROVE  Telling'
<1>1. OpTyped
  BY DEF Listing, TablesTyped
<1>2. /\ UNCHANGED loadedKexts /\ UNCHANGED <<table, draft, stale>> /\ panicList' = panicList
      /\ op.at \in {"link", "attributes", "updated", "start", "profile", "account"}
      /\ \/ op' = Free
         \/ op.name = "load" /\ \E l \in {"attributes", "account", "start"} : Goto(l)
         \/ op.name = "unload" /\ Goto("retire")
  BY DEF Link, Attributes, Register, Start, Profile, EnterLoaded, At, FailLoad, tables, others
<1>3. op'.at \in {"idle", "attributes", "account", "start", "retire"}
  <2>1. CASE op' = Free
    BY <2>1, FreeFacts
  <2>2. CASE op.name = "load" /\ \E l \in {"attributes", "account", "start"} : Goto(l)
    <3>1. PICK l \in {"attributes", "account", "start"} : Goto(l)
      BY <2>2
    <3> QED BY <1>1, <1>2, <2>2, <3>1, GotoFacts DEF LoadSteps
  <2>3. CASE op.name = "unload" /\ Goto("retire")
    BY <1>1, <1>2, <2>3, GotoFacts DEF UnloadSteps
  <2> QED BY <1>2, <2>1, <2>2, <2>3
<1> QED BY <1>2, <1>3, TellingKept DEF Settled

(* The steps after which the table waits for its update. *)
LEMMA PendingTelling ==
  ASSUME Telling, UNCHANGED <<table, draft, stale>>,
         op.at \notin {"fill", "accounts"}, op'.at \in {"free", "update"},
         op'.at = "update" => SaveLoadedKextPanicList(loadedKexts')
  PROVE  Telling'
<1>1. Filling'
  BY DEF Telling, Filling, WellFormed
<1>2. TableIsTrue'
  BY DEF TableIsTrue, Settled
<1>3. PanicListIsTrue'
  <2>1. op'.at # "free" /\ "memory" \notin Faults => panicList' = PanicOrder(loadedKexts')
    BY SavedList
  <2>2. PanicOrder(loadedKexts)' = PanicOrder(loadedKexts')
    OBVIOUS
  <2> QED BY <2>1, <2>2 DEF PanicListIsTrue
<1> QED BY <1>1, <1>2, <1>3 DEF Telling

LEMMA ChangeTelling ==
  ASSUME Listing, Imaging, Telling, Imaging', [Next]_vars, EnterLoaded \/ Retire \/ FreeImage \/ Stop
  PROVE  Telling'
<1>1. OpTyped
  BY DEF Listing, TablesTyped
<1>2. CASE EnterLoaded /\ FailLoad
  BY <1>2, QuietTelling
<1>3. CASE EnterLoaded /\ ~FailLoad
  <2>1. /\ UNCHANGED <<table, draft, stale>> /\ op.at = "account" /\ Goto("update")
        /\ SaveLoadedKextPanicList(loadedKexts')
    BY <1>3 DEF EnterLoaded, At, tables
  <2>2. op'.at = "update"
    BY <1>1, <2>1, GotoFacts DEF UpdateSteps
  <2> QED BY <2>1, <2>2, PendingTelling
<1>4. CASE Retire
  <2>1. UNCHANGED <<table, draft, stale>> /\ op.at = "retire" /\ op.name = "unload" /\ Goto("free")
    BY <1>4 DEF Retire, At, tables
  <2>2. op'.at = "free"
    BY <1>1, <2>1, GotoFacts DEF UnloadSteps
  <2> QED BY <2>1, <2>2, PendingTelling
<1>5. CASE FreeImage
  <2>1. /\ UNCHANGED <<table, draft, stale>> /\ op.at = "free" /\ Goto("update")
        /\ SaveLoadedKextPanicList(loadedKexts) /\ loadedKexts' = loadedKexts
    BY <1>5 DEF FreeImage, At, tables
  <2>2. op'.at = "update"
    BY <1>1, <2>1, GotoFacts DEF UpdateSteps
  <2> QED BY <2>1, <2>2, PendingTelling
<1>6. CASE Stop
  <2>1. /\ UNCHANGED <<table, draft, stale>> /\ op.at = "stop" /\ op.name = "unload"
        /\ loadedKexts' = loadedKexts
        /\ \/ Goto("profile") /\ panicList' = panicList
           \/ Goto("update") /\ SaveLoadedKextPanicList(loadedKexts)
    BY <1>6 DEF Stop, At, tables
  <2>2. CASE Goto("profile") /\ panicList' = panicList
    <3>1. op'.at = "profile"
      BY <1>1, <2>1, <2>2, GotoFacts DEF UnloadSteps
    <3> QED BY <2>1, <2>2, <3>1, TellingKept DEF Settled
  <2>3. CASE Goto("update") /\ SaveLoadedKextPanicList(loadedKexts)
    <3>1. op'.at = "update"
      BY <1>1, <2>1, <2>3, GotoFacts DEF UpdateSteps
    <3> QED BY <2>1, <2>3, <3>1, PendingTelling
  <2> QED BY <2>1, <2>2, <2>3
<1> QED BY <1>2, <1>3, <1>4, <1>5, <1>6

(* A failing update leaves a stale table, which nobody takes for true. *)
LEMMA FailedUpdate ==
  ASSUME Listing, Telling, EndUpdate(FALSE), op.at \in {"update", "fill"},
         loadedKexts' = loadedKexts, panicList' = panicList, table' = table \/ table' = NoTable
  PROVE  Telling'
<1>1. /\ draft' = NoTable /\ stale'
      /\ op' = Free \/ (op.name = "load" /\ Goto("updated"))
  BY EndUpdateFacts
<1>2. op'.at \in {"idle", "updated"}
  <2>1. OpTyped /\ op.at # "idle"
    BY DEF Listing, TablesTyped
  <2>2. op.name = "load" /\ Goto("updated") => op'.at = "updated"
    BY <2>1, GotoFacts DEF LoadSteps
  <2> QED BY <1>1, <2>2, FreeFacts
<1>3. WellFormed(NoTable)
  <2>1. Len(<<>>) = 0
    OBVIOUS
  <2> QED BY <2>1 DEF WellFormed, NoTable
<1>4. Filling'
  <2>1. WellFormed(table')
    BY <1>3 DEF Telling, Filling
  <2>2. WellFormed(draft') /\ ~(draft'.room > 0)
    BY <1>1, <1>3 DEF NoTable
  <2> QED BY <1>1, <1>2, <2>1, <2>2 DEF Filling, WellFormed
<1>5. TableIsTrue'
  BY <1>1, <1>2 DEF TableIsTrue, Settled
<1>6. PanicListIsTrue'
  <2>1. PanicOrder(loadedKexts)' = PanicOrder(loadedKexts)
    OBVIOUS
  <2> QED BY <2>1 DEF Telling, PanicListIsTrue
<1> QED BY <1>4, <1>5, <1>6 DEF Telling

LEMMA SizeTelling ==
  ASSUME Listing, Telling, SizeSummaries
  PROVE  Telling'
<1> DEFINE needed == Room(Len(loadedKexts))
<1>1. /\ OpTyped /\ loadedKexts \in Seq(Kexts) /\ Len(loadedKexts) \in Nat
      /\ table \in Table /\ op.at = "update" /\ draft = NoTable /\ op.at # "idle"
  BY DEF Listing, TablesTyped, Telling, Filling, SizeSummaries
<1>2. needed \in Nat /\ Len(loadedKexts) <= needed /\ (loadedKexts # <<>> => needed > 0)
  <2>1. loadedKexts # <<>> => Len(loadedKexts) > 0
    BY <1>1, EmptySeq
  <2> QED BY <1>1, <2>1 DEF Room
<1> HIDE DEF needed
<1>3. /\ loadedKexts' = loadedKexts /\ panicList' = panicList
      /\ \/ EndUpdate(FALSE) /\ (UNCHANGED table \/ table' = NoTable)
         \/ /\ loadedKexts # <<>> /\ table' = NoTable /\ draft' = [NoTable EXCEPT !.room = needed]
            /\ Goto("fill")
         \/ /\ ~(table.room < needed) /\ table' = [table EXCEPT !.entries = <<>>, !.num = 0]
            /\ Goto("fill") /\ UNCHANGED draft
  BY DEF SizeSummaries, others, needed
<1>4. CASE EndUpdate(FALSE) /\ (UNCHANGED table \/ table' = NoTable)
  BY <1>1, <1>3, <1>4, FailedUpdate
<1>5. CASE \/ /\ loadedKexts # <<>> /\ table' = NoTable /\ draft' = [NoTable EXCEPT !.room = needed]
              /\ Goto("fill")
           \/ /\ ~(table.room < needed) /\ table' = [table EXCEPT !.entries = <<>>, !.num = 0]
              /\ Goto("fill") /\ UNCHANGED draft
  <2>1. op'.at = "fill"
    BY <1>1, <1>5, GotoFacts DEF UpdateSteps
  <2>2. Len(<<>>) = 0 /\ DOMAIN <<>> = {}
    OBVIOUS
  <2>3. NoTable.room = 0 /\ NoTable.entries = <<>> /\ NoTable.num = 0
    BY DEF NoTable
  <2>4. /\ WellFormed(table') /\ WellFormed(draft') /\ (draft'.room > 0 => table' = NoTable)
        /\ Filled'.entries = <<>> /\ Filled'.num = 0 /\ Filled'.room >= needed /\ Filled'.room \in Nat
    <3>1. CASE ~(table.room < needed) /\ table' = [table EXCEPT !.entries = <<>>, !.num = 0] /\ draft' = draft
      <4>1. table'.entries = <<>> /\ table'.num = 0 /\ table'.room = table.room
        BY <1>1, <3>1 DEF Table
      <4>2. table.room \in Nat /\ table.room >= needed
        BY <1>1, <1>2, <3>1 DEF Table
      <4>3. draft' = NoTable /\ Filled' = table'
        BY <1>1, <2>3, <3>1 DEF Filled
      <4> QED BY <2>2, <2>3, <4>1, <4>2, <4>3 DEF WellFormed
    <3>2. CASE loadedKexts # <<>> /\ table' = NoTable /\ draft' = [NoTable EXCEPT !.room = needed]
      <4>1. /\ table' = NoTable /\ draft'.entries = <<>> /\ draft'.num = 0 /\ draft'.room = needed /\ needed > 0
        BY <1>2, <3>2 DEF NoTable
      <4>2. Filled' = draft'
        BY <1>2, <4>1 DEF Filled
      <4> QED BY <1>2, <2>2, <2>3, <4>1, <4>2 DEF WellFormed
    <3> QED BY <1>5, <3>1, <3>2
  <2>5. Filling'
    <3>1. Covers(Filled)'
      BY <1>1, <1>3, <2>2, <2>4 DEF Covers
    <3>2. (Len(loadedKexts) <= Filled.room)' /\ (Len(Filled.entries) <= Filled.num + 1)'
      BY <1>1, <1>2, <1>3, <2>2, <2>4
    <3> QED BY <2>1, <2>4, <3>1, <3>2 DEF Filling, WellFormed
  <2>6. TableIsTrue'
    BY <2>1 DEF TableIsTrue, Settled
  <2>7. PanicListIsTrue'
    <3>1. PanicOrder(loadedKexts)' = PanicOrder(loadedKexts)
      BY <1>3
    <3> QED BY <1>1, <1>3, <3>1 DEF Telling, PanicListIsTrue
  <2> QED BY <2>5, <2>6, <2>7 DEF Telling
<1> QED BY <1>3, <1>4, <1>5

(* Filling in one more, or counting it. *)
LEMMA FillCovers ==
  ASSUME ImagesTyped, Listing, NEW t \in Table, t.num < Len(loadedKexts), Covers(t), WellFormed(t),
         Len(t.entries) <= t.num + 1, Len(loadedKexts) <= t.room
  PROVE  /\ Covers(FillSummary(t)) /\ WellFormed(FillSummary(t))
         /\ Len(FillSummary(t).entries) <= FillSummary(t).num + 1
         /\ FillSummary(t).room = t.room
<1> DEFINE E == [kext : Kexts, at : Nat, size : Nat]
           k == loadedKexts[t.num + 1]
           e == [kext |-> k, at |-> info[k].at, size |-> info[k].size]
           s == t.entries
           u == FillSummary(t)
<1>1. /\ s \in Seq(E) /\ t.num \in Nat /\ t.room \in Nat /\ Len(loadedKexts) \in Nat
      /\ DOMAIN loadedKexts = 1 .. Len(loadedKexts)
  BY DEF Table, Listing, TablesTyped
<1>2. u.room = t.room /\ k \in Kexts
  BY SummaryFacts
<1>3. e \in E
  BY <1>2 DEF ImagesTyped, Place
<1>4. CASE Len(s) = t.num
  <2>1. u = [t EXCEPT !.entries = Append(s, e)]
    BY <1>4, SummaryFacts
  <2>2. u.num = t.num /\ u.entries = Append(s, e)
    BY <2>1 DEF Table
  <2>3. e.kext = k /\ e.at = info[k].at /\ e.size >= info[k].size
    BY <1>2 DEF ImagesTyped, Place
  <2> HIDE DEF E, e, s, u, k
  <2>4. /\ Len(Append(s, e)) = Len(s) + 1 /\ DOMAIN Append(s, e) = 1 .. Len(s) + 1 /\ Len(s) \in Nat
        /\ DOMAIN s = 1 .. Len(s)
        /\ (\A i \in DOMAIN s : Append(s, e)[i] = s[i]) /\ Append(s, e)[Len(s) + 1] = e
    BY <1>1, <1>3, AppendFacts
  <2>5. \A i \in DOMAIN u.entries : Summarizes(u.entries[i], loadedKexts[i])
    <3>1. \A i \in DOMAIN s : Summarizes(s[i], loadedKexts[i])
      BY DEF Covers, s
    <3>2. Summarizes(e, loadedKexts[Len(s) + 1])
      BY <1>4, <2>3 DEF Summarizes, k
    <3> QED BY <2>2, <2>4, <3>1, <3>2
  <2>6. Covers(u)
    BY <1>1, <1>4, <2>2, <2>4, <2>5 DEF Covers
  <2>7. WellFormed(u) /\ Len(u.entries) <= u.num + 1
    BY <1>1, <1>2, <1>4, <2>2, <2>4 DEF WellFormed
  <2> QED BY <1>2, <2>6, <2>7 DEF u
<1>5. CASE Len(s) # t.num
  <2> DEFINE n == t.num + 1
  <2>1. u = [t EXCEPT !.num = n]
    BY <1>5, SummaryFacts
  <2>2. u.num = n /\ u.entries = s
    BY <2>1 DEF Table
  <2>3. Len(s) \in Nat /\ Len(s) = n
    BY <1>1, <1>5 DEF WellFormed
  <2> HIDE DEF u, e
  <2>4. Covers(u) /\ WellFormed(u) /\ Len(u.entries) <= u.num + 1
    BY <1>1, <1>2, <2>2, <2>3 DEF Covers, WellFormed
  <2> QED BY <1>2, <2>4 DEF u
<1> QED BY <1>4, <1>5

LEMMA FillTelling ==
  ASSUME Listing, Imaging, Telling, FillSummaries \/ Publish \/ SwapAccounts
  PROVE  Telling'
<1>1. /\ OpTyped /\ loadedKexts \in Seq(Kexts) /\ Len(loadedKexts) \in Nat
      /\ table \in Table /\ draft \in Table /\ Filled \in Table /\ op.at # "idle"
  <2>1. op.at # "idle"
    BY DEF FillSummaries, Publish, SwapAccounts
  <2>2. /\ OpTyped /\ loadedKexts \in Seq(Kexts) /\ Len(loadedKexts) \in Nat
        /\ table \in Table /\ draft \in Table
    BY DEF Listing, TablesTyped
  <2>3. Filled \in Table
    BY <2>2 DEF Filled
  <2> QED BY <2>1, <2>2, <2>3
<1>2. /\ loadedKexts' = loadedKexts /\ panicList' = panicList /\ info' = info
      /\ op.at \in {"fill", "accounts"}
  BY DEF FillSummaries, Publish, SwapAccounts, others, imageVars
<1>3. WellFormed(NoTable) /\ NoTable.room = 0
  <2>1. Len(<<>>) = 0
    OBVIOUS
  <2> QED BY <2>1 DEF WellFormed, NoTable
<1>5. PanicListIsTrue'
  <2>1. PanicOrder(loadedKexts)' = PanicOrder(loadedKexts)
    BY <1>2
  <2> QED BY <1>2, <2>1 DEF Telling, PanicListIsTrue
<1>6. op.at = "fill" => /\ Covers(Filled) /\ Len(loadedKexts) <= Filled.room
                       /\ Len(Filled.entries) <= Filled.num + 1 /\ WellFormed(Filled)
                       /\ (draft.room > 0 => table = NoTable)
                       /\ WellFormed(draft) /\ WellFormed(table)
  BY DEF Telling, Filling, Filled
<1>7. CASE FillSummaries
  <2>0. PICK t \in Table : t = Filled
    BY <1>1
  <2>1. PICK u : /\ u = FillSummary(t)
        /\ op' = op /\ op.at = "fill" /\ t.num < Len(loadedKexts)
        /\ \/ draft.room > 0 /\ t = draft /\ draft' = u /\ table' = table
           \/ ~(draft.room > 0) /\ t = table /\ table' = u /\ draft' = draft
    BY <1>7, <2>0 DEF FillSummaries, Filled
  <2>2. u \in Table
    BY <1>1, <2>1, SummaryFacts DEF Imaging
  <2>3. Covers(u) /\ WellFormed(u) /\ Len(u.entries) <= u.num + 1 /\ u.room = t.room
    BY <1>1, <1>6, <2>0, <2>1, FillCovers DEF Imaging
  <2>4. Filled' = u
    BY <1>6, <2>1, <2>3 DEF Filled
  <2>5. Filling'
    <3>1. Covers(Filled)'
      BY <1>2, <2>3, <2>4 DEF Covers, Summarizes
    <3>2. (Len(loadedKexts) <= Filled.room)' /\ (Len(Filled.entries) <= Filled.num + 1)'
      BY <1>2, <1>6, <2>0, <2>1, <2>3, <2>4
    <3>3. WellFormed(table') /\ WellFormed(draft') /\ (draft'.room > 0 => table' = NoTable)
      BY <1>6, <2>1, <2>3
    <3> QED BY <2>1, <3>1, <3>2, <3>3 DEF Filling, WellFormed
  <2>6. TableIsTrue'
    BY <2>1 DEF TableIsTrue, Settled
  <2> QED BY <1>5, <2>5, <2>6 DEF Telling
<1>8. CASE Publish
  <2>1. CASE EndUpdate(FALSE) /\ UNCHANGED table
    BY <1>2, <1>8, <2>1, FailedUpdate DEF Publish
  <2>2. CASE table' = Filled /\ draft' = NoTable /\ Goto("accounts")
    <3>1. op.at = "fill" /\ Filled.num = Len(loadedKexts)
      BY <1>8 DEF Publish
    <3>2. op'.at = "accounts"
      BY <1>1, <2>2, GotoFacts DEF UpdateSteps
    <3>0. PICK t \in Table : t = Filled
      BY <1>1
    <3>3. Covers(t) /\ t \in Table /\ WellFormed(t) /\ table' = t /\ t.num = Len(loadedKexts)
      BY <1>1, <1>6, <2>2, <3>0, <3>1
    <3>4. TableIsTrue'
      BY <1>2, <3>3 DEF TableIsTrue, Covers, Summarizes
    <3>5. Filling'
      BY <1>3, <2>2, <3>2, <3>3 DEF Filling, WellFormed
    <3> QED BY <1>5, <3>4, <3>5 DEF Telling
  <2> QED BY <1>8, <2>1, <2>2 DEF Publish
<1>9. CASE SwapAccounts
  <2>1. op.at = "accounts" /\ EndUpdate(TRUE) /\ table' = table
    BY <1>9 DEF SwapAccounts
  <2>2. draft' = NoTable /\ (op' = Free \/ (op.name = "load" /\ Goto("updated")))
    BY <2>1, EndUpdateFacts
  <2>3. op'.at \in {"idle", "updated"}
    <3>1. op.name = "load" /\ Goto("updated") => op'.at = "updated"
      BY <1>1, GotoFacts DEF LoadSteps
    <3> QED BY <2>2, <3>1, FreeFacts
  <2>4. Covers(table) /\ table.num = Len(loadedKexts) /\ WellFormed(table)
    BY <2>1 DEF Telling, TableIsTrue, Settled, Filling
  <2>5. TableIsTrue'
    BY <1>2, <2>1, <2>4 DEF TableIsTrue, Covers, Summarizes
  <2>6. Filling'
    BY <1>3, <2>1, <2>2, <2>3, <2>4 DEF Filling, WellFormed
  <2> QED BY <1>5, <2>5, <2>6 DEF Telling
<1> QED BY <1>7, <1>8, <1>9

LEMMA TellingStep == ASSUME Listing, Imaging, Telling, Imaging', [Next]_vars PROVE Telling'
BY OthersTelling, QuietTelling, ChangeTelling, SizeTelling, FillTelling DEF Next, Steps

-----------------------------------------------------------------------------
(* Accounts change hands in two steps, and their tags in two others. *)
LEMMA AccountsStep ==
  ASSUME Listing, AccountsNameTheLoaded, [Next]_vars
  PROVE  AccountsNameTheLoaded'
<1>1. /\ OpTyped /\ accounts \in Seq(Account) /\ DOMAIN accounts = 1 .. Len(accounts)
      /\ Len(accounts) \in Nat /\ account \in [Kexts -> 0 .. Len(accounts)]
      /\ loadedKexts \in Seq(Kexts) /\ ToSet(loadedKexts) \subseteq Kexts
  BY ToSetFacts DEF Listing, TablesTyped
<1>2. \A a \in DOMAIN accounts : accounts[a] \in Account
  BY <1>1, ElementOfSeq
<1>3. SUFFICES ASSUME NEW a \in DOMAIN accounts', accounts'[a].kext # None
               PROVE  account'[accounts'[a].kext] = a /\ ~accounts'[a].freed
                      /\ accounts'[a].kext \in ToSet(loadedKexts')
  BY DEF AccountsNameTheLoaded
<1>4. CASE UNCHANGED <<accounts, account, loadedKexts>>
  <2>1. a \in DOMAIN accounts /\ accounts[a].kext # None
    BY <1>3, <1>4
  <2>2. account[accounts[a].kext] = a /\ ~accounts[a].freed /\ accounts[a].kext \in ToSet(loadedKexts)
    BY <2>1 DEF AccountsNameTheLoaded
  <2> QED BY <1>4, <2>2 DEF ToSet
<1>5. CASE EnterLoaded /\ ~FailLoad
  <2> DEFINE k == op.kext
             e == [kext |-> k, tag |-> FALSE, freed |-> FALSE]
  <2>1. /\ k \in Kexts /\ account[k] = 0
        /\ accounts' = Append(accounts, e) /\ account' = [account EXCEPT ![k] = Len(accounts')]
        /\ loadedKexts' = Append(loadedKexts, k)
    BY <1>5, OpFacts DEF EnterLoaded, At, Listing, TablesTyped, UnderWay, Entering
  <2>2. e \in Account /\ e.kext = k /\ ~e.freed
    BY <2>1 DEF Account
  <2> HIDE DEF e, k
  <2>3. /\ Len(accounts') = Len(accounts) + 1 /\ DOMAIN accounts' = 1 .. Len(accounts) + 1
        /\ (\A i \in DOMAIN accounts : accounts'[i] = accounts[i]) /\ accounts'[Len(accounts) + 1] = e
    BY <1>1, <2>1, <2>2, AppendFacts
  <2>4. ToSet(loadedKexts') = ToSet(loadedKexts) \cup {k}
    BY <1>1, <2>1, AppendFacts
  <2>5. CASE a = Len(accounts) + 1
    BY <1>1, <2>1, <2>2, <2>3, <2>4, <2>5
  <2>6. CASE a \in DOMAIN accounts
    <3>1. account[accounts[a].kext] = a /\ ~accounts[a].freed /\ accounts[a].kext \in ToSet(loadedKexts)
      BY <1>3, <2>3, <2>6 DEF AccountsNameTheLoaded
    <3>2. accounts[a].kext # k /\ accounts[a].kext \in Kexts
      BY <1>1, <2>1, <2>6, <3>1
    <3> QED BY <1>1, <2>1, <2>3, <2>4, <2>6, <3>1, <3>2
  <2> QED BY <1>1, <2>3, <2>5, <2>6
<1>6. CASE Retire
  <2> DEFINE k == op.kext
             e == RetiredAccount(accounts[account[k]])
  <2>1. /\ k \in ToSet(loadedKexts) /\ account' = account /\ accounts' = [accounts EXCEPT ![account[k]] = e]
        /\ \E i \in DOMAIN loadedKexts : loadedKexts[i] = k /\ loadedKexts' = RemoveAt(loadedKexts, i)
    BY <1>6 DEF Retire, At, Listing, UnderWay
  <2>2. k \in Kexts /\ account[k] \in DOMAIN accounts
    BY <1>1, <2>1 DEF Listing, ListedOnce
  <2>3. e.kext = None
    BY <1>2, <2>2 DEF RetiredAccount, Account
  <2> HIDE DEF e
  <2>4. a \in DOMAIN accounts /\ a # account[k] /\ accounts'[a] = accounts[a]
    BY <1>1, <1>3, <2>1, <2>2, <2>3
  <2>5. account[accounts[a].kext] = a /\ ~accounts[a].freed /\ accounts[a].kext \in ToSet(loadedKexts)
    BY <1>3, <2>4 DEF AccountsNameTheLoaded
  <2>6. ToSet(loadedKexts') = ToSet(loadedKexts) \ {k}
    <3>1. PICK i \in DOMAIN loadedKexts : loadedKexts[i] = k /\ loadedKexts' = RemoveAt(loadedKexts, i)
      BY <2>1
    <3>2. \A m, n \in DOMAIN loadedKexts : loadedKexts[m] = loadedKexts[n] => m = n
      BY DEF Listing, ListedOnce
    <3>3. ToSet(RemoveAt(loadedKexts, i)) = ToSet(loadedKexts) \ {loadedKexts[i]}
      BY <1>1, <3>1, <3>2, RemoveOnce, Zenon
    <3> QED BY <3>1, <3>3
  <2> HIDE DEF k
  <2> QED BY <2>1, <2>4, <2>5, <2>6
<1>7. CASE FreeImage
  <2>1. /\ accounts' = accounts /\ loadedKexts' = loadedKexts /\ op.kext \notin ToSet(loadedKexts)
        /\ account' = account \/ account' = [account EXCEPT ![op.kext] = 0]
    BY <1>7 DEF FreeImage, At, Listing, UnderWay
  <2>2. account[accounts[a].kext] = a /\ ~accounts[a].freed /\ accounts[a].kext \in ToSet(loadedKexts)
    BY <1>3, <2>1 DEF AccountsNameTheLoaded
  <2>3. accounts[a].kext # op.kext /\ accounts[a].kext \in Kexts
    BY <1>1, <2>1, <2>2
  <2>4. account'[accounts[a].kext] = account[accounts[a].kext]
    BY <1>1, <2>1, <2>3
  <2> QED BY <2>1, <2>2, <2>4
<1>8. CASE (\E p \in Pages : GetAllocationSiteForCaller(p)) \/ \E b \in DOMAIN accounts : FreeSite(b)
  <2>1. PICK b : /\ account' = account /\ loadedKexts' = loadedKexts
                 /\ \/ accounts' = [accounts EXCEPT ![b].tag = TRUE]
                    \/ /\ accounts' = [accounts EXCEPT ![b] = [@ EXCEPT !.tag = FALSE, !.freed = TRUE]]
                       /\ b \in DOMAIN accounts /\ accounts[b].kext = None
    <3>1. CASE \E p \in Pages : GetAllocationSiteForCaller(p)
      BY <3>1 DEF GetAllocationSiteForCaller
    <3>2. CASE \E b \in DOMAIN accounts : FreeSite(b)
      BY <3>2 DEF FreeSite
    <3> QED BY <1>8, <3>1, <3>2
  <2>2. a \in DOMAIN accounts
    BY <2>1
  <2>3. accounts[a] \in Account
    BY <1>2, <2>2
  <2>4. CASE a = b
    <3> DEFINE d == accounts[a]
    <3>1. accounts'[a] = [d EXCEPT !.tag = TRUE]
          \/ (accounts'[a] = [d EXCEPT !.tag = FALSE, !.freed = TRUE] /\ d.kext = None)
      BY <2>1, <2>2, <2>4
    <3> HIDE DEF d
    <3>2. d \in Account
      BY <2>3 DEF d
    <3>3. accounts'[a].kext = d.kext /\ (d.kext # None => accounts'[a].freed = d.freed)
      BY <3>1, <3>2 DEF Account
    <3>4. account[d.kext] = a /\ ~d.freed /\ d.kext \in ToSet(loadedKexts)
      BY <1>3, <2>2, <3>3 DEF AccountsNameTheLoaded, d
    <3> QED BY <1>3, <2>1, <3>3, <3>4
  <2>5. CASE a # b
    <3>1. accounts'[a] = accounts[a]
      BY <2>1, <2>2, <2>5
    <3>2. account[accounts[a].kext] = a /\ ~accounts[a].freed /\ accounts[a].kext \in ToSet(loadedKexts)
      BY <1>3, <2>2, <3>1 DEF AccountsNameTheLoaded
    <3> QED BY <2>1, <3>1, <3>2
  <2> QED BY <2>4, <2>5
<1>9. \/ UNCHANGED <<accounts, account, loadedKexts>>
      \/ EnterLoaded /\ ~FailLoad
      \/ Retire \/ FreeImage
      \/ \E p \in Pages : GetAllocationSiteForCaller(p)
      \/ \E b \in DOMAIN accounts : FreeSite(b)
  <2>1. CASE UNCHANGED vars
    BY <2>1 DEF vars
  <2>2. CASE EnterLoaded /\ FailLoad
    BY <2>2 DEF FailLoad
  <2>3. CASE Link \/ Attributes \/ Register \/ Start \/ Stop \/ Profile
    BY <2>3 DEF Link, Attributes, Register, Start, Stop, Profile, FailLoad
  <2>4. CASE SizeSummaries \/ FillSummaries \/ Publish \/ SwapAccounts
    BY <2>4 DEF SizeSummaries, FillSummaries, Publish, SwapAccounts
  <2>5. CASE \E k \in Kexts : ReadPrelinked(k) \/ Load(k) \/ Unload(k)
    BY <2>5 DEF ReadPrelinked, Load, Unload
  <2>6. CASE \/ DTraceArrives \/ RegisterKextsWithDTrace \/ CopyTextUUID
             \/ \E p \in Pages : CopyKextUUIDForAddress(p)
             \/ \E w \in Waiters : (\E k \in Kexts : GrabPgoData(w, k)) \/ PgoReturns(w) \/ PgoInterrupted(w)
    BY <2>6 DEF DTraceArrives, RegisterKextsWithDTrace, CopyTextUUID, CopyKextUUIDForAddress,
         GrabPgoData, PgoReturns, PgoInterrupted
  <2> QED BY <2>1, <2>2, <2>3, <2>4, <2>5, <2>6 DEF Next, Steps
<1> QED BY <1>4, <1>5, <1>6, <1>7, <1>8, <1>9

-----------------------------------------------------------------------------
(* The insertion keeps a list in order of address, and adds one entry. *)
Ascending(s) == \A i, j \in DOMAIN s : i < j => s[i].at <= s[j].at

(* A list in order stays in order. *)
LEMMA InsertedFacts ==
  ASSUME NEW s \in Seq(Entry), Ascending(s), NEW e \in Entry
  PROVE  /\ Inserted(s, e) \in Seq(Entry) /\ Ascending(Inserted(s, e))
         /\ ToSet(Inserted(s, e)) = ToSet(s) \cup {e}
<1> DEFINE greater == {i \in DOMAIN s : e.at < s[i].at}
<1>1. /\ DOMAIN s = 1 .. Len(s) /\ Len(s) \in Nat /\ e.at \in Nat
      /\ \A i \in DOMAIN s : s[i] \in Entry /\ s[i].at \in Nat
  <2>1. DOMAIN s = 1 .. Len(s) /\ Len(s) \in Nat
    OBVIOUS
  <2>2. \A i \in DOMAIN s : s[i] \in Entry
    BY <2>1, ElementOfSeq
  <2> QED BY <2>1, <2>2 DEF Entry
<1>2. PICK idx : idx = IF greater = {} THEN Len(s) + 1 ELSE Min(greater)
  OBVIOUS
<1>3. Inserted(s, e) = InsertAt(s, idx, e)
  BY <1>2 DEF Inserted
<1>4. /\ idx \in 1 .. Len(s) + 1
      /\ \A i \in DOMAIN s : (i < idx => s[i].at <= e.at) /\ (i >= idx => e.at < s[i].at)
  <2>1. CASE greater = {}
    <3>1. idx = Len(s) + 1
      BY <1>2, <2>1
    <3>2. \A i \in DOMAIN s : ~(e.at < s[i].at)
      BY <2>1
    <3> QED BY <1>1, <3>1, <3>2
  <2>2. CASE greater # {}
    <3>1. PICK m \in greater : \A i \in greater : m <= i
      <4>1. greater \in SUBSET Nat
        BY <1>1
      <4> QED BY <2>2, <4>1, LeastNumber
    <3>2. Min(greater) \in greater /\ \A i \in greater : Min(greater) <= i
      BY <3>1 DEF Min
    <3>3. idx \in DOMAIN s /\ e.at < s[idx].at
      BY <1>2, <2>2, <3>2
    <3>4. ASSUME NEW i \in DOMAIN s PROVE (i < idx => s[i].at <= e.at) /\ (i >= idx => e.at < s[i].at)
      <4>1. ASSUME i < idx PROVE s[i].at <= e.at
        <5>1. i \notin greater
          <6>1. i \in Int /\ idx \in Int
            BY <1>1, <3>3
          <6> HIDE DEF greater
          <6> QED BY <1>2, <2>2, <3>2, <4>1, <6>1
        <5> QED BY <1>1, <5>1
      <4>2. ASSUME i >= idx PROVE e.at < s[i].at
        <5>1. CASE i = idx
          BY <3>3, <5>1
        <5>2. CASE i # idx
          <6>1. idx < i
            BY <1>1, <3>3, <4>2, <5>2
          <6>2. s[idx].at <= s[i].at
            BY <3>3, <6>1 DEF Ascending
          <6> QED BY <1>1, <3>3, <6>2
        <5> QED BY <5>1, <5>2
      <4> QED BY <4>1, <4>2
    <3> QED BY <1>1, <3>3, <3>4
  <2> QED BY <2>1, <2>2
<1> HIDE DEF greater
<1>5. PICK r : r = InsertAt(s, idx, e)
  OBVIOUS
<1>6. /\ r \in Seq(Entry) /\ Len(r) = Len(s) + 1
      /\ \A j \in 1 .. Len(s) + 1 : /\ j < idx => r[j] = s[j]
                                    /\ j = idx => r[j] = e
                                    /\ j > idx => r[j] = s[j - 1]
  <2>1. idx \in 1 .. Len(s) + 1
    BY <1>4
  <2>2. InsertAt(s, idx, e) \in Seq(Entry) /\ Insertion(InsertAt(s, idx, e), s, idx, e)
    BY <2>1, InsertAtFacts
  <2>3. r \in Seq(Entry) /\ Insertion(r, s, idx, e)
    BY <1>5, <2>2
  <2> QED BY <2>3 DEF Insertion
<1>7. DOMAIN r = 1 .. Len(s) + 1
  BY <1>6, LenProperties
<1>8. Ascending(r)
  <2> SUFFICES ASSUME NEW i \in 1 .. Len(s) + 1, NEW j \in 1 .. Len(s) + 1, i < j
               PROVE  r[i].at <= r[j].at
    BY <1>7 DEF Ascending
  <2>1. CASE j < idx
    <3>1. i \in DOMAIN s /\ j \in DOMAIN s /\ i < idx
      BY <1>1, <1>4, <2>1
    <3>2. r[i] = s[i] /\ r[j] = s[j]
      BY <1>6, <2>1, <3>1
    <3> QED BY <3>1, <3>2 DEF Ascending
  <2>2. CASE j = idx
    <3>1. i \in DOMAIN s /\ i < idx
      BY <1>1, <1>4, <2>2
    <3>2. r[i] = s[i] /\ r[j] = e
      BY <1>6, <2>2, <3>1
    <3> QED BY <1>4, <3>1, <3>2
  <2>3. CASE j > idx
    <3>1. PICK n : n = j - 1
      OBVIOUS
    <3>2. n \in DOMAIN s /\ n >= idx /\ r[j] = s[n]
      BY <1>1, <1>4, <1>6, <2>3, <3>1
    <3>3. CASE i < idx
      <4>1. i \in DOMAIN s /\ i < n /\ r[i] = s[i]
        BY <1>1, <1>4, <1>6, <3>2, <3>3
      <4> QED BY <3>2, <4>1 DEF Ascending
    <3>4. CASE i = idx
      <4>1. r[i] = e /\ e.at < s[n].at /\ s[n].at \in Nat
        BY <1>1, <1>4, <1>6, <3>2, <3>4
      <4> QED BY <1>1, <3>2, <4>1
    <3>5. CASE i > idx
      <4>1. PICK m : m = i - 1
        OBVIOUS
      <4>2. m \in DOMAIN s /\ r[i] = s[m] /\ m < n
        BY <1>1, <1>4, <1>6, <3>1, <3>5, <4>1
      <4> QED BY <3>2, <4>2 DEF Ascending
    <3> QED BY <1>4, <3>3, <3>4, <3>5
  <2> QED BY <1>4, <2>1, <2>2, <2>3
<1>9. ToSet(r) = ToSet(s) \cup {e}
  <2>1. ASSUME NEW x \in ToSet(r) PROVE x \in ToSet(s) \cup {e}
    <3>1. PICK j \in 1 .. Len(s) + 1 : r[j] = x
      BY <1>6, <1>7, ToSetFacts
    <3>2. CASE j < idx
      <4>1. j \in DOMAIN s
        BY <1>1, <1>4, <3>2
      <4> QED BY <1>6, <3>1, <3>2, <4>1, ToSetFacts
    <3>3. CASE j = idx
      BY <1>6, <3>1, <3>3
    <3>4. CASE j > idx
      <4>1. j - 1 \in DOMAIN s
        BY <1>1, <1>4, <3>4
      <4> QED BY <1>6, <3>1, <3>4, <4>1, ToSetFacts
    <3> QED BY <1>4, <3>2, <3>3, <3>4
  <2>2. ASSUME NEW x \in ToSet(s) PROVE x \in ToSet(r)
    <3>1. PICK j \in 1 .. Len(s) : s[j] = x
      BY <1>1, ToSetFacts
    <3>2. CASE j < idx
      <4>1. j \in 1 .. Len(s) + 1
        BY <1>1
      <4> QED BY <1>6, <1>7, <3>1, <3>2, <4>1, ToSetFacts
    <3>3. CASE j >= idx
      <4>1. PICK n : n = j + 1
        OBVIOUS
      <4>2. n \in 1 .. Len(s) + 1 /\ n > idx /\ n - 1 = j
        BY <1>1, <1>4, <3>3, <4>1
      <4>3. r[n] = x
        BY <1>6, <3>1, <4>2
      <4> QED BY <1>6, <1>7, <4>2, <4>3, ToSetFacts
    <3> QED BY <1>4, <3>2, <3>3
  <2>3. e \in ToSet(r)
    BY <1>4, <1>6, <1>7, ToSetFacts
  <2> QED BY <2>1, <2>2, <2>3
<1> QED BY <1>3, <1>5, <1>6, <1>8, <1>9

(* What is listed: the loaded kexts, in order of address. *)
LEMMA AccountingFacts ==
  ASSUME loadedKexts \in Seq(Kexts), \A k \in Kexts : ActiveAccount(k) \in Entry
  PROVE  /\ AccountingList \in Seq(Entry) /\ Ascending(AccountingList)
         /\ ToSet(AccountingList) = {ActiveAccount(k) : k \in ToSet(loadedKexts)}
<1>1. PICK N : N = Len(loadedKexts) /\ N \in Nat /\ DOMAIN loadedKexts = 1 .. N
  OBVIOUS
<1>2. \A n \in 1 .. N : loadedKexts[n] \in Kexts
  BY <1>1, ElementOfSeq
<1> DEFINE S == {s \in Seq(Entry) : Ascending(s)}
<1>3. PICK g : g = [n \in 1 .. N |-> [s \in S |-> Inserted(s, ActiveAccount(loadedKexts[n]))]]
  OBVIOUS
<1>4. <<>> \in S
  BY DEF Ascending
<1>5. StepsWithin(1 .. N, S, g)
  <2>1. ASSUME NEW n \in 1 .. N, NEW s \in S PROVE g[n][s] \in S
    <3>1. ActiveAccount(loadedKexts[n]) \in Entry
      BY <1>2
    <3>2. Inserted(s, ActiveAccount(loadedKexts[n])) \in S
      BY <3>1, InsertedFacts
    <3> QED BY <1>3, <3>2
  <2> QED BY <2>1 DEF StepsWithin
<1> DEFINE body(list) == [n \in 0 .. N |->
             IF n = 0 THEN <<>> ELSE Inserted(list[n - 1], ActiveAccount(loadedKexts[n]))]
           list == CHOOSE list : list = body(list)
<1>6. AccountingList = list[N]
  BY <1>1 DEF AccountingList
<1> HIDE DEF S
<1>7. PICK f : Iterates(N, S, <<>>, g, f)
  BY <1>1, <1>4, <1>5, RecursionTo
<1>8. f = body(f)
  <2>1. f \in [0 .. N -> S] /\ f[0] = <<>> /\ \A n \in 1 .. N : f[n] = g[n][f[n - 1]]
    BY <1>7 DEF Iterates
  <2>2. ASSUME NEW n \in 0 .. N PROVE f[n] = body(f)[n]
    <3>1. CASE n = 0
      BY <2>1, <3>1
    <3>2. CASE n # 0
      <4>1. n \in 1 .. N /\ n - 1 \in 0 .. N
        BY <1>1, <3>2
      <4>2. f[n - 1] \in S
        BY <2>1, <4>1
      <4> QED BY <1>3, <2>1, <3>2, <4>1, <4>2
    <3> QED BY <3>1, <3>2
  <2>3. f = [n \in 0 .. N |-> f[n]]
    BY <2>1
  <2>4. body(f) = [n \in 0 .. N |-> body(f)[n]]
    OBVIOUS
  <2> HIDE DEF body
  <2> QED BY <2>2, <2>3, <2>4
<1>9. list = body(list)
  <2> HIDE DEF body
  <2> QED BY <1>8
<1> HIDE DEF list
<1>10. /\ list[0] = <<>>
       /\ \A n \in 1 .. N : list[n] = Inserted(list[n - 1], ActiveAccount(loadedKexts[n]))
  <2>1. \A n \in 0 .. N : list[n] = IF n = 0 THEN <<>>
                                    ELSE Inserted(list[n - 1], ActiveAccount(loadedKexts[n]))
    <3>1. PICK b : b = body(list)
      OBVIOUS
    <3>2. \A n \in 0 .. N : b[n] = IF n = 0 THEN <<>>
                                   ELSE Inserted(list[n - 1], ActiveAccount(loadedKexts[n]))
      BY <3>1
    <3> QED BY <1>9, <3>1, <3>2
  <2>2. \A n \in 1 .. N : n \in 0 .. N /\ n # 0
    BY <1>1
  <2> QED BY <1>1, <2>1, <2>2
<1> DEFINE Upto(n) == {ActiveAccount(loadedKexts[i]) : i \in 1 .. n}
           T == {n \in 0 .. N : list[n] \in S /\ ToSet(list[n]) = Upto(n)}
<1>11. 0 .. N \subseteq T
  <2>1. 0 \in T
    BY <1>1, <1>4, <1>10 DEF ToSet
  <2>2. ASSUME NEW n \in 1 .. N, n - 1 \in T PROVE n \in T
    <3>1. PICK s : s = list[n - 1] /\ s \in Seq(Entry) /\ Ascending(s) /\ ToSet(s) = Upto(n - 1)
      BY <2>2 DEF S
    <3>2. PICK e : e = ActiveAccount(loadedKexts[n]) /\ e \in Entry
      BY <1>2
    <3>3. Inserted(s, e) \in S /\ ToSet(Inserted(s, e)) = ToSet(s) \cup {e}
      BY <3>1, <3>2, InsertedFacts DEF S
    <3>4. Upto(n - 1) \cup {e} = Upto(n)
      <4>1. 1 .. n = 1 .. n - 1 \cup {n}
        BY <1>1
      <4> QED BY <3>2, <4>1
    <3>5. list[n] = Inserted(s, e)
      BY <1>10, <3>1, <3>2
    <3>6. n \in 0 .. N
      BY <1>1
    <3> HIDE DEF Upto
    <3>7. ToSet(list[n]) = Upto(n) /\ list[n] \in S
      BY <3>1, <3>3, <3>4, <3>5
    <3> QED BY <3>6, <3>7
  <2> HIDE DEF T
  <2> QED BY <1>1, <2>1, <2>2, InductionTo
<1>12. list[N] \in S /\ ToSet(list[N]) = Upto(N)
  <2>1. N \in 0 .. N
    BY <1>1
  <2> QED BY <1>11, <2>1
<1>13. Upto(N) = {ActiveAccount(k) : k \in ToSet(loadedKexts)}
  <2>1. ToSet(loadedKexts) = {loadedKexts[i] : i \in 1 .. N}
    BY <1>1 DEF ToSet
  <2> QED BY <2>1
<1> QED BY <1>6, <1>12, <1>13 DEF S

-----------------------------------------------------------------------------
(* The binary search.  What is left to look at lies within the list.       *)
Interval == {s \in [lim : Nat, base : Nat, account : Nat] : s.base + s.lim <= Len(active)}

(* Entry t has been found, or is among those that are left to look at. *)
Finds(s, t) ==
  IF s.lim = 0 THEN s.account = active[t].account ELSE s.base < t /\ t <= s.base + s.lim

(* Either half is smaller than the whole. *)
LEMMA HalfFacts ==
  ASSUME NEW n \in Nat, n # 0
  PROVE  /\ n \div 2 \in Nat /\ n \div 2 < n /\ (n - 1) \div 2 \in Nat /\ (n - 1) \div 2 < n
         /\ n \div 2 + 1 + (n - 1) \div 2 = n
OBVIOUS

(* Every turn stays within the list, leaves fewer entries, and does not    *)
(* lose the one whose range has the address.                               *)
LEMMA HalvedFacts ==
  ASSUME active \in Seq(Entry), Arranged(active), NEW p \in Nat,
         NEW s \in Interval, s.lim # 0
  PROVE  /\ Halved(s, p) \in Interval /\ Halved(s, p).lim < s.lim
         /\ \A t \in DOMAIN active :
              active[t].at <= p /\ p < active[t].end /\ Finds(s, t) => Finds(Halved(s, p), t)
<1>1. PICK L : L = Len(active) /\ L \in Nat /\ DOMAIN active = 1 .. L
  OBVIOUS
<1>2. PICK lim, base : lim = s.lim /\ base = s.base /\ lim \in Nat \ {0} /\ base \in Nat /\ base + lim <= L
  BY <1>1 DEF Interval
<1>3. PICK half, rest : /\ half = lim \div 2 /\ rest = (lim - 1) \div 2
                        /\ half \in Nat /\ rest \in Nat /\ half + 1 + rest = lim
  BY <1>2, HalfFacts
<1>20. /\ L \in Nat /\ lim \in Nat /\ base \in Nat /\ half \in Nat /\ rest \in Nat
      /\ half + 1 + rest = lim /\ base + lim <= L
  BY <1>1, <1>2, <1>3
<1>21. /\ base + half + 1 \in 1 .. L /\ base + half + 1 \in Nat
      /\ base + half + 1 + rest <= L /\ base + half <= L
      /\ half < lim /\ rest < lim
  BY <1>20
<1>4. PICK m : m = base + half + 1 /\ m \in 1 .. L
  BY <1>21
<1>5. \A i \in 1 .. L : /\ active[i] \in Entry /\ active[i].at \in Nat /\ active[i].end \in Nat
                        /\ active[i].account \in Nat
  <2>1. \A i \in 1 .. L : active[i] \in Entry
    BY <1>1, ElementOfSeq
  <2> QED BY <2>1 DEF Entry
<1>6. PICK e : e = active[m] /\ e.at \in Nat /\ e.end \in Nat /\ e.account \in Nat /\ e.at < e.end
  BY <1>1, <1>4, <1>5 DEF Arranged
<1>7. PICK r : r = Halved(s, p)
  OBVIOUS
<1>8. s \in [lim : Nat, base : Nat, account : Nat]
  BY DEF Interval
<1>9. r = IF e.at <= p /\ p < e.end THEN [s EXCEPT !.lim = 0, !.account = e.account]
          ELSE IF p > e.at THEN [s EXCEPT !.lim = rest, !.base = base + half + 1]
          ELSE [s EXCEPT !.lim = half]
  BY <1>2, <1>3, <1>4, <1>6, <1>7 DEF Halved
<1>10. CASE e.at <= p /\ p < e.end
  <2>1. r.lim = 0 /\ r.base = base /\ r.account = e.account /\ r \in [lim : Nat, base : Nat, account : Nat]
    BY <1>2, <1>6, <1>8, <1>9, <1>10
  <2>2. r \in Interval
    BY <1>1, <1>2, <2>1 DEF Interval
  <2>3. ASSUME NEW t \in 1 .. L, active[t].at <= p, p < active[t].end PROVE active[t].account = e.account
    <3>1. active[t] = e
      <4>1. t < m \/ t = m \/ m < t
        BY <1>4
      <4>2. ASSUME t < m PROVE active[t] = e
        <5>1. active[t] = active[m] \/ active[t].end <= active[m].at
          BY <1>1, <1>4, <4>2 DEF Arranged
        <5>2. ~(active[t].end <= e.at)
          BY <1>5, <1>6, <1>10, <2>3
        <5> QED BY <1>6, <5>1, <5>2
      <4>3. ASSUME m < t PROVE active[t] = e
        <5>1. active[m] = active[t] \/ active[m].end <= active[t].at
          BY <1>1, <1>4, <4>3 DEF Arranged
        <5>2. ~(e.end <= active[t].at)
          BY <1>5, <1>6, <1>10, <2>3
        <5> QED BY <1>6, <5>1, <5>2
      <4> QED BY <1>6, <4>1, <4>2, <4>3
    <3> QED BY <3>1
  <2> QED BY <1>1, <1>2, <1>7, <2>1, <2>2, <2>3 DEF Finds
<1>11. CASE ~(e.at <= p /\ p < e.end) /\ p > e.at
  <2>1. /\ r.lim = rest /\ r.base = base + half + 1 /\ r.account = s.account
        /\ r \in [lim : Nat, base : Nat, account : Nat]
    <3>1. r = [s EXCEPT !.lim = rest, !.base = base + half + 1]
      BY <1>9, <1>11
    <3> QED BY <1>8, <1>20, <1>21, <3>1
  <2>2. r \in Interval
    BY <1>1, <1>21, <2>1 DEF Interval
  <2>3. ASSUME NEW t \in 1 .. L, active[t].at <= p, p < active[t].end PROVE m < t
    <3>1. t # m
      BY <1>6, <1>11, <2>3
    <3>2. ASSUME t < m PROVE FALSE
      <4>1. active[t] = active[m] \/ active[t].end <= active[m].at
        BY <1>1, <1>4, <3>2 DEF Arranged
      <4>2. ~(active[t].end <= e.at)
        BY <1>5, <1>6, <1>11, <2>3
      <4> QED BY <1>6, <1>11, <2>3, <4>1, <4>2
    <3> QED BY <1>4, <3>1, <3>2
  <2>4. ASSUME NEW t \in 1 .. L, active[t].at <= p, p < active[t].end, base < t, t <= base + lim
        PROVE  rest # 0 /\ base + half + 1 < t /\ t <= base + half + 1 + rest
    <3>1. m < t
      BY <2>3, <2>4
    <3> QED BY <1>4, <1>20, <2>4, <3>1
  <2>5. ASSUME NEW t \in 1 .. L, active[t].at <= p, p < active[t].end, Finds(s, t) PROVE Finds(r, t)
    <3>1. base < t /\ t <= base + lim
      BY <1>2, <2>5 DEF Finds
    <3>2. rest # 0 /\ base + half + 1 < t /\ t <= base + half + 1 + rest
      BY <2>4, <2>5, <3>1
    <3> QED BY <2>1, <3>2 DEF Finds
  <2> QED BY <1>1, <1>2, <1>7, <1>21, <2>1, <2>2, <2>5
<1>12. CASE ~(e.at <= p /\ p < e.end) /\ ~(p > e.at)
  <2>1. /\ r.lim = half /\ r.base = base /\ r.account = s.account
        /\ r \in [lim : Nat, base : Nat, account : Nat]
    <3>1. r = [s EXCEPT !.lim = half]
      BY <1>9, <1>12
    <3> QED BY <1>2, <1>8, <1>20, <3>1
  <2>2. r \in Interval
    BY <1>1, <1>21, <2>1 DEF Interval
  <2>3. ASSUME NEW t \in 1 .. L, active[t].at <= p, p < active[t].end PROVE t < m
    <3>1. t # m /\ p < e.at
      BY <1>6, <1>12, <2>3
    <3>2. ASSUME m < t PROVE FALSE
      <4>1. active[m] = active[t] \/ active[m].end <= active[t].at
        BY <1>1, <1>4, <3>2 DEF Arranged
      <4>2. ~(e.end <= active[t].at)
        BY <1>5, <1>6, <2>3, <3>1
      <4> QED BY <1>6, <1>12, <2>3, <4>1, <4>2
    <3> QED BY <1>4, <3>1, <3>2
  <2>4. ASSUME NEW t \in 1 .. L, active[t].at <= p, p < active[t].end, base < t, t <= base + lim
        PROVE  half # 0 /\ t <= base + half
    <3>1. t < m
      BY <2>3, <2>4
    <3> QED BY <1>4, <1>20, <2>4, <3>1
  <2>5. ASSUME NEW t \in 1 .. L, active[t].at <= p, p < active[t].end, Finds(s, t) PROVE Finds(r, t)
    <3>1. base < t /\ t <= base + lim
      BY <1>2, <2>5 DEF Finds
    <3>2. half # 0 /\ t <= base + half
      BY <2>4, <2>5, <3>1
    <3> QED BY <2>1, <3>1, <3>2 DEF Finds
  <2> QED BY <1>1, <1>2, <1>7, <1>21, <2>1, <2>2, <2>5
<1> QED BY <1>10, <1>11, <1>12

(* For any number of entries: an address within the range of one finds it. *)
LEMMA FindFacts ==
  ASSUME active \in Seq(Entry), Arranged(active), NEW p \in Nat,
         NEW t \in DOMAIN active, active[t].at <= p, p < active[t].end
  PROVE  Find(p) = active[t].account
<1>1. PICK L : L = Len(active) /\ L \in Nat /\ t \in 1 .. L
  OBVIOUS
<1>2. PICK start : start = [lim |-> L, base |-> 0, account |-> 0]
  OBVIOUS
<1>3. start \in Interval /\ start.lim = L /\ Finds(start, t)
  BY <1>1, <1>2 DEF Interval, Finds
<1> DEFINE Turn(s) == IF s.lim = 0 THEN s ELSE Halved(s, p)
<1>4. ASSUME NEW s \in Interval
      PROVE  /\ Turn(s) \in Interval /\ s.lim \in Nat /\ Turn(s).lim \in Nat
             /\ s.lim = 0 => Turn(s) = s
             /\ s.lim # 0 => Turn(s).lim < s.lim
             /\ Finds(s, t) => Finds(Turn(s), t)
  <2>1. \A r \in Interval : r.lim \in Nat
    BY DEF Interval
  <2>2. CASE s.lim = 0
    BY <2>1, <2>2
  <2>3. CASE s.lim # 0
    <3>1. /\ Halved(s, p) \in Interval /\ Halved(s, p).lim < s.lim
          /\ Finds(s, t) => Finds(Halved(s, p), t)
      BY <2>3, HalvedFacts
    <3> QED BY <2>1, <2>3, <3>1
  <2> QED BY <2>2, <2>3
<1> HIDE DEF Turn
<1>5. PICK g : g = [n \in 1 .. L |-> [s \in Interval |-> Turn(s)]]
  OBVIOUS
<1>6. StepsWithin(1 .. L, Interval, g)
  BY <1>4, <1>5 DEF StepsWithin
<1>7. PICK f : Iterates(L, Interval, start, g, f)
  BY <1>1, <1>3, <1>6, RecursionTo
<1> DEFINE body(h) == [n \in 0 .. L |-> IF n = 0 THEN [lim |-> L, base |-> 0, account |-> 0]
                                        ELSE IF h[n - 1].lim = 0 THEN h[n - 1] ELSE Halved(h[n - 1], p)]
           search == CHOOSE h : h = body(h)
<1>8. Find(p) = search[L].account
  BY <1>1 DEF Find
<1>9. f = body(f)
  <2>1. /\ f \in [0 .. L -> Interval] /\ f[0] = start
        /\ \A n \in 1 .. L : f[n] = g[n][f[n - 1]]
    BY <1>7 DEF Iterates
  <2>2. ASSUME NEW n \in 0 .. L PROVE f[n] = body(f)[n]
    <3>1. CASE n = 0
      BY <1>2, <2>1, <3>1
    <3>2. CASE n # 0
      <4>1. n \in 1 .. L /\ n - 1 \in 0 .. L
        BY <1>1, <3>2
      <4>2. f[n - 1] \in Interval
        BY <2>1, <4>1
      <4>3. f[n] = Turn(f[n - 1])
        BY <1>5, <2>1, <4>1, <4>2
      <4> QED BY <3>2, <4>3 DEF Turn
    <3> QED BY <3>1, <3>2
  <2>3. f = [n \in 0 .. L |-> f[n]]
    BY <2>1
  <2>4. body(f) = [n \in 0 .. L |-> body(f)[n]]
    OBVIOUS
  <2> HIDE DEF body
  <2> QED BY <2>2, <2>3, <2>4
<1>10. search = body(search)
  <2> HIDE DEF body
  <2> QED BY <1>9
<1> HIDE DEF search
<1>11. search[0] = start /\ \A n \in 1 .. L : search[n] = Turn(search[n - 1])
  <2>1. \A n \in 0 .. L : search[n] = IF n = 0 THEN [lim |-> L, base |-> 0, account |-> 0]
                                      ELSE IF search[n - 1].lim = 0 THEN search[n - 1]
                                      ELSE Halved(search[n - 1], p)
    <3>1. PICK b : b = body(search)
      OBVIOUS
    <3>2. \A n \in 0 .. L : b[n] = IF n = 0 THEN [lim |-> L, base |-> 0, account |-> 0]
                                   ELSE IF search[n - 1].lim = 0 THEN search[n - 1]
                                   ELSE Halved(search[n - 1], p)
      BY <3>1
    <3> QED BY <1>10, <3>1, <3>2
  <2>2. \A n \in 1 .. L : n \in 0 .. L /\ n # 0
    BY <1>1
  <2> HIDE DEF body
  <2> QED BY <1>1, <1>2, <2>1, <2>2 DEF Turn
<1> HIDE DEF body
<1> DEFINE T == {n \in 0 .. L : search[n] \in Interval /\ search[n].lim <= L - n /\ Finds(search[n], t)}
<1>12. 0 .. L \subseteq T
  <2>1. 0 \in T
    BY <1>1, <1>3, <1>11
  <2>2. ASSUME NEW n \in 1 .. L, n - 1 \in T PROVE n \in T
    <3>1. PICK s : s = search[n - 1] /\ s \in Interval /\ s.lim <= L - (n - 1) /\ Finds(s, t)
      BY <2>2
    <3>2. search[n] = Turn(s)
      BY <1>11, <3>1
    <3>3. PICK r : r = Turn(s) /\ r \in Interval /\ Finds(r, t)
      BY <1>4, <3>1
    <3>4. r.lim <= L - n
      <4>1. s.lim \in Nat /\ r.lim \in Nat /\ (s.lim = 0 => r.lim = 0) /\ (s.lim # 0 => r.lim < s.lim)
        BY <1>4, <3>1, <3>3
      <4> QED BY <1>1, <3>1, <4>1
    <3>5. n \in 0 .. L
      BY <1>1
    <3> QED BY <3>2, <3>3, <3>4, <3>5
  <2> HIDE DEF T
  <2> QED BY <1>1, <2>1, <2>2, InductionTo
<1>13. search[L] \in Interval /\ search[L].lim <= 0 /\ Finds(search[L], t)
  <2>1. L \in 0 .. L
    BY <1>1
  <2>2. L \in T
    BY <1>12, <2>1
  <2>3. search[L] \in Interval /\ search[L].lim <= L - L /\ Finds(search[L], t)
    BY <2>2
  <2> QED BY <1>1, <2>3
<1>14. search[L].lim = 0
  BY <1>13 DEF Interval
<1> QED BY <1>8, <1>13, <1>14 DEF Finds

-----------------------------------------------------------------------------
(* A loaded kext has its image and nobody else has a page of it. *)
LEMMA LoadedRange ==
  ASSUME Listing, Imaging, NEW k \in ToSet(loadedKexts)
  PROVE  /\ k \in Kexts /\ account[k] \in Nat /\ info[k] = image[k]
         /\ info[k].at \in Nat /\ info[k].size \in Nat \ {0}
         /\ ActiveAccount(k) \in Entry /\ Leads(ActiveAccount(k), k)
         /\ \A p \in Int : info[k].at <= p /\ p < info[k].at + info[k].size <=> p \in Pages /\ memory[p] = k
<1>1. k \in Kexts /\ account[k] # 0 /\ ~Entering(k) /\ account[k] \in Nat
  <2>1. k \in Kexts /\ account[k] # 0 /\ ~Entering(k)
    BY ToSetFacts DEF Listing, TablesTyped, ListedOnce, UnderWay
  <2>2. account \in [Kexts -> 0 .. Len(accounts)] /\ Len(accounts) \in Nat
    BY DEF Listing, TablesTyped
  <2> QED BY <2>1, <2>2
<1>2. info[k] = image[k]
  BY <1>1 DEF Imaging, ImagesAreWhole
<1>3. /\ image[k].at \in Nat /\ image[k].size \in Nat
      /\ PagesOf(image[k]) \subseteq Pages
      /\ \A p \in Pages : memory[p] = k <=> p \in PagesOf(image[k])
  BY <1>1, ImageFacts
<1>4. image[k].size # 0
  BY <1>1 DEF Imaging, ImagesAreHad
<1>5. ActiveAccount(k) \in Entry /\ Leads(ActiveAccount(k), k)
  BY <1>1, <1>2, <1>3 DEF ActiveAccount, Entry, Leads
<1>6. \A p \in Int : p \in PagesOf(image[k]) <=> image[k].at <= p /\ p < image[k].at + image[k].size
  BY <1>3 DEF PagesOf
<1> QED BY <1>1, <1>2, <1>3, <1>4, <1>5, <1>6

(* What an update lists. *)
LEMMA UpdatedList ==
  ASSUME Listing, Imaging
  PROVE  /\ AccountingList \in Seq(Entry) /\ Arranged(AccountingList)
         /\ \A k \in ToSet(loadedKexts) : \E i \in DOMAIN AccountingList : Leads(AccountingList[i], k)
<1>1. loadedKexts \in Seq(Kexts) /\ ToSet(loadedKexts) \subseteq Kexts
  BY ToSetFacts DEF Listing, TablesTyped
<1>2. ASSUME NEW k \in Kexts PROVE ActiveAccount(k) \in Entry
  <2>1. info[k].at \in Nat /\ info[k].size \in Nat
    BY DEF Imaging, ImagesTyped, Place
  <2>2. account[k] \in Nat
    <3>1. account \in [Kexts -> 0 .. Len(accounts)] /\ Len(accounts) \in Nat
      BY DEF Listing, TablesTyped
    <3> QED BY <3>1
  <2> QED BY <2>1, <2>2 DEF ActiveAccount, Entry
<1>3. PICK s : s = AccountingList
  OBVIOUS
<1>4. /\ s \in Seq(Entry) /\ Ascending(s) /\ ToSet(s) = {ActiveAccount(k) : k \in ToSet(loadedKexts)}
  BY <1>1, <1>2, <1>3, AccountingFacts
<1>5. DOMAIN s = 1 .. Len(s) /\ Len(s) \in Nat
  BY <1>4
<1>6. ASSUME NEW i \in DOMAIN s
      PROVE  \E k \in ToSet(loadedKexts) : s[i] = ActiveAccount(k)
  <2>1. s[i] \in ToSet(s)
    BY <1>4, ToSetFacts
  <2> QED BY <1>4, <2>1
<1>7. ASSUME NEW i \in DOMAIN s PROVE s[i].at < s[i].end
  <2>1. PICK k \in ToSet(loadedKexts) : s[i] = ActiveAccount(k)
    BY <1>6
  <2>2. info[k].at \in Nat /\ info[k].size \in Nat \ {0}
    BY LoadedRange
  <2>3. s[i].at = info[k].at /\ s[i].end = info[k].at + info[k].size
    BY <2>1 DEF ActiveAccount
  <2> QED BY <2>2, <2>3
<1>8. ASSUME NEW i \in DOMAIN s, NEW j \in DOMAIN s, i < j PROVE s[i] = s[j] \/ s[i].end <= s[j].at
  <2>1. PICK k \in ToSet(loadedKexts) : s[i] = ActiveAccount(k)
    BY <1>6
  <2>2. PICK m \in ToSet(loadedKexts) : s[j] = ActiveAccount(m)
    BY <1>6
  <2>3. CASE k = m
    BY <2>1, <2>2, <2>3
  <2>4. CASE k # m
    <3>1. /\ info[k].at \in Nat /\ info[k].size \in Nat \ {0}
          /\ info[m].at \in Nat /\ info[m].size \in Nat \ {0}
          /\ \A p \in Int : /\ info[k].at <= p /\ p < info[k].at + info[k].size <=> p \in Pages /\ memory[p] = k
                            /\ info[m].at <= p /\ p < info[m].at + info[m].size <=> p \in Pages /\ memory[p] = m
      BY LoadedRange
    <3>2. s[i].at = info[k].at /\ s[i].end = info[k].at + info[k].size /\ s[j].at = info[m].at
      BY <2>1, <2>2 DEF ActiveAccount
    <3>3. info[k].at <= info[m].at
      BY <1>8, <1>4, <3>2 DEF Ascending
    <3>4. ~(info[m].at < info[k].at + info[k].size)
      <4>1. SUFFICES ASSUME info[m].at < info[k].at + info[k].size PROVE FALSE
        OBVIOUS
      <4>2. PICK p : p = info[m].at /\ p \in Int
        BY <3>1
      <4>3. info[m].at <= p /\ p < info[m].at + info[m].size
        BY <3>1, <4>2
      <4>4. info[k].at <= p /\ p < info[k].at + info[k].size
        BY <3>3, <4>1, <4>2
      <4>5. memory[p] = m /\ memory[p] = k
        BY <3>1, <4>2, <4>3, <4>4
      <4> QED BY <2>4, <4>5
    <3> QED BY <3>1, <3>2, <3>4
  <2> QED BY <2>3, <2>4
<1>9. ASSUME NEW k \in ToSet(loadedKexts) PROVE \E i \in DOMAIN s : Leads(s[i], k)
  <2>1. ActiveAccount(k) \in ToSet(s) /\ Leads(ActiveAccount(k), k)
    BY <1>4, LoadedRange
  <2>2. PICK i \in DOMAIN s : s[i] = ActiveAccount(k)
    BY <1>4, <2>1, ToSetFacts
  <2> QED BY <2>1, <2>2
<1>10. Arranged(s)
  BY <1>7, <1>8 DEF Arranged
<1> QED BY <1>3, <1>4, <1>9, <1>10

(* A step that leaves the list alone, and lists of the kexts nobody new. *)
LEMMA ListedKept ==
  ASSUME Listing, Imaging, Imaging', Accounting, [Next]_vars, active' = active, stale' \/ ~stale,
         ToSet(loadedKexts') \subseteq ToSet(loadedKexts),
         \A k \in ToSet(loadedKexts') : account'[k] = account[k] /\ (ToBeListed(k) => stale' \/ ToBeListed(k)')
  PROVE  Listed'
<1>1. active \in Seq(Entry) /\ Listed
  BY DEF Accounting
<1>2. SUFFICES ASSUME NEW k \in ToSet(loadedKexts'), ~stale', ~ToBeListed(k)'
               PROVE  \E i \in DOMAIN active : Leads(active[i], k)'
  BY DEF Listed
<1>3. PICK i \in DOMAIN active : Leads(active[i], k)
  BY <1>1, <1>2 DEF Listed
<1>4. k \in ToSet(loadedKexts) /\ k \in Kexts
  BY <1>2, LoadedRange
<1>5. info'[k].at = info[k].at /\ info'[k].size <= info[k].size
  BY <1>4, InfoOfLoaded
<1>6. info[k].at \in Nat /\ info[k].size \in Nat /\ info'[k].size \in Nat
  BY <1>4 DEF Imaging, ImagesTyped, Place
<1>7. active[i].end \in Nat
  <2>1. DOMAIN active = 1 .. Len(active)
    BY <1>1
  <2>2. active[i] \in Entry
    BY <1>1, <2>1, ElementOfSeq
  <2> QED BY <2>2 DEF Entry
<1>8. /\ active'[i].at = info'[k].at /\ active'[i].end >= info'[k].at + info'[k].size
      /\ active'[i].account = account'[k]
  BY <1>2, <1>3, <1>5, <1>6, <1>7 DEF Leads
<1> QED BY <1>3, <1>8 DEF Leads

(* Steps other than those that list, and those that enter or retire a kext.*)
LEMMA QuietSteps ==
  ASSUME Listing, [Next]_vars
  PROVE  \/ SwapAccounts \/ (EnterLoaded /\ ~FailLoad) \/ Retire \/ FreeImage
         \/ /\ UNCHANGED <<loadedKexts, account, active>> /\ (stale' \/ ~stale)
            /\ \A k \in Kexts : ToBeListed(k) => stale' \/ ToBeListed(k)'
            /\ \/ UNCHANGED accounts
               \/ \E p \in Pages : GetAllocationSiteForCaller(p)
               \/ \E a \in DOMAIN accounts : FreeSite(a)
<1> USE DEF tables, others
<1>1. OpTyped
  BY DEF Listing, TablesTyped
<1>2. CASE UNCHANGED vars
  BY <1>2 DEF vars, ToBeListed
<1>3. CASE EnterLoaded /\ FailLoad
  BY <1>3 DEF EnterLoaded, FailLoad, At, ToBeListed, UpdateSteps
<1>4. CASE Link \/ Attributes \/ Register \/ Start \/ Stop \/ Profile
  <2>1. op.at \notin UpdateSteps
    BY <1>4 DEF Link, Attributes, Register, Start, Stop, Profile, At, UpdateSteps
  <2>2. UNCHANGED <<loadedKexts, account, active, stale, accounts>>
    BY <1>4 DEF Link, Attributes, Register, Start, Stop, Profile, FailLoad
  <2> QED BY <2>1, <2>2 DEF ToBeListed
<1>5. CASE SizeSummaries \/ FillSummaries \/ Publish
  <2>1. UNCHANGED <<loadedKexts, account, active, accounts>>
    BY <1>5 DEF SizeSummaries, FillSummaries, Publish
  <2>2. \/ stale'
        \/ stale' = stale /\ (UNCHANGED op \/ \E l \in {"fill", "accounts"} : Goto(l))
    BY <1>5 DEF SizeSummaries, FillSummaries, Publish, EndUpdate
  <2>3. ASSUME NEW k \in Kexts, ToBeListed(k), ~stale' PROVE ToBeListed(k)'
    <3>1. op.name = "load" /\ op.kext = k /\ op.at \in UpdateSteps
      BY <2>3 DEF ToBeListed
    <3>2. CASE UNCHANGED op
      BY <3>1, <3>2 DEF ToBeListed
    <3>3. CASE \E l \in {"fill", "accounts"} : Goto(l)
      <4>1. op.at # "idle"
        BY <3>1 DEF UpdateSteps
      <4>2. op'.at \in UpdateSteps /\ op'.kext = op.kext /\ op'.name = op.name
        BY <1>1, <3>3, <4>1, GotoFacts DEF UpdateSteps
      <4> QED BY <3>1, <4>2 DEF ToBeListed
    <3> QED BY <2>2, <2>3, <3>2, <3>3
  <2> QED BY <2>1, <2>2, <2>3
<1>6. CASE \E k \in Kexts : ReadPrelinked(k) \/ Load(k) \/ Unload(k)
  <2>1. UNCHANGED <<loadedKexts, account, active, stale, accounts>> /\ Idle
    BY <1>6 DEF ReadPrelinked, Load, Unload
  <2> QED BY <2>1 DEF ToBeListed, Idle, UpdateSteps
<1>7. CASE DTraceArrives \/ RegisterKextsWithDTrace \/ CopyTextUUID
           \/ (\E p \in Pages : CopyKextUUIDForAddress(p))
           \/ \E w \in Waiters : (\E k \in Kexts : GrabPgoData(w, k)) \/ PgoReturns(w) \/ PgoInterrupted(w)
  <2>1. UNCHANGED <<op, loadedKexts, account, active, stale, accounts>>
    BY <1>7 DEF DTraceArrives, RegisterKextsWithDTrace, CopyTextUUID, CopyKextUUIDForAddress,
         GrabPgoData, PgoReturns, PgoInterrupted
  <2> QED BY <2>1 DEF ToBeListed
<1>8. CASE (\E p \in Pages : GetAllocationSiteForCaller(p)) \/ \E a \in DOMAIN accounts : FreeSite(a)
  <2>1. UNCHANGED <<op, loadedKexts, account, active, stale>>
    BY <1>8 DEF GetAllocationSiteForCaller, FreeSite
  <2> QED BY <1>8, <2>1 DEF ToBeListed
<1> QED BY <1>2, <1>3, <1>4, <1>5, <1>6, <1>7, <1>8 DEF Next, Steps

(* An update lists all that are loaded; no other step loses one of them.   *)
LEMMA ListedStep ==
  ASSUME Listing, Imaging, Imaging', Accounting, [Next]_vars
  PROVE  active' \in Seq(Entry) /\ Arranged(active') /\ Listed'
<1> USE DEF tables, others
<1>1. active \in Seq(Entry) /\ Arranged(active) /\ Listed
  BY DEF Accounting
<1>2. /\ OpTyped /\ loadedKexts \in Seq(Kexts) /\ ToSet(loadedKexts) \subseteq Kexts
      /\ account \in [Kexts -> 0 .. Len(accounts)]
  BY ToSetFacts DEF Listing, TablesTyped
<1>3. CASE SwapAccounts
  <2>1. active' = AccountingList /\ UNCHANGED <<loadedKexts, account, imageVars>>
    BY <1>3 DEF SwapAccounts
  <2>2. info' = info
    BY <2>1 DEF imageVars
  <2>3. /\ active' \in Seq(Entry) /\ Arranged(active')
        /\ \A k \in ToSet(loadedKexts) : \E i \in DOMAIN active' : Leads(active'[i], k)
    BY <2>1, UpdatedList
  <2>4. \A k \in ToSet(loadedKexts') : \E i \in DOMAIN active' :
          /\ active'[i].at = info'[k].at /\ active'[i].end >= info'[k].at + info'[k].size
          /\ active'[i].account = account'[k]
    BY <2>1, <2>2, <2>3 DEF Leads
  <2> QED BY <2>3, <2>4 DEF Listed, Leads
<1>4. CASE EnterLoaded /\ ~FailLoad
  <2>1. PICK k : k = op.kext /\ k \in Kexts
    BY <1>2, <1>4, OpFacts DEF EnterLoaded, At
  <2>2. /\ op.name = "load" /\ op.at = "account" /\ Goto("update")
        /\ account' = [account EXCEPT ![k] = Len(accounts')]
        /\ loadedKexts' = Append(loadedKexts, k) /\ UNCHANGED <<active, stale, imageVars>>
    BY <1>4, <2>1 DEF EnterLoaded, At
  <2>3. ToBeListed(k)'
    <3>1. op'.at = "update" /\ op'.kext = op.kext /\ op'.name = op.name
      BY <1>2, <2>2, GotoFacts DEF UpdateSteps
    <3> QED BY <2>1, <2>2, <3>1 DEF ToBeListed, UpdateSteps
  <2>4. ToSet(loadedKexts') = ToSet(loadedKexts) \cup {k}
    BY <1>2, <2>1, <2>2, AppendFacts
  <2>5. ASSUME NEW j \in ToSet(loadedKexts), j # k, ~stale
        PROVE  \E i \in DOMAIN active : Leads(active[i], j)'
    <3>1. ~ToBeListed(j)
      BY <2>2 DEF ToBeListed, UpdateSteps
    <3>2. PICK i \in DOMAIN active : Leads(active[i], j)
      BY <1>1, <2>5, <3>1 DEF Listed
    <3>3. info' = info /\ account'[j] = account[j]
      BY <1>2, <2>2, <2>5 DEF imageVars
    <3>4. /\ active'[i].at = info'[j].at /\ active'[i].end >= info'[j].at + info'[j].size
          /\ active'[i].account = account'[j]
      BY <2>2, <3>2, <3>3 DEF Leads
    <3> QED BY <3>4 DEF Leads
  <2> QED BY <1>1, <2>2, <2>3, <2>4, <2>5 DEF Listed
<1>5. CASE Retire
  <2>1. /\ op.name = "unload" /\ UNCHANGED <<account, active, stale>>
        /\ \E i \in DOMAIN loadedKexts : loadedKexts' = RemoveAt(loadedKexts, i)
    BY <1>5 DEF Retire, At
  <2>2. \A k : ~ToBeListed(k)
    BY <2>1 DEF ToBeListed
  <2>3. ToSet(loadedKexts') \subseteq ToSet(loadedKexts)
    <3>1. PICK i \in DOMAIN loadedKexts : loadedKexts' = RemoveAt(loadedKexts, i)
      BY <2>1
    <3>2. \A m, n \in DOMAIN loadedKexts : loadedKexts[m] = loadedKexts[n] => m = n
      BY DEF Listing, ListedOnce
    <3>3. ToSet(RemoveAt(loadedKexts, i)) = ToSet(loadedKexts) \ {loadedKexts[i]}
      BY <1>2, <3>1, <3>2, RemoveOnce, Zenon
    <3> QED BY <3>1, <3>3
  <2>4. Listed'
    BY <2>1, <2>2, <2>3, ListedKept
  <2> QED BY <1>1, <2>1, <2>4
<1>6. CASE FreeImage
  <2>1. /\ op.name = "unload" /\ UNCHANGED <<loadedKexts, active, stale>>
        /\ op.kext \notin ToSet(loadedKexts)
        /\ account' = account \/ account' = [account EXCEPT ![op.kext] = 0]
    BY <1>6 DEF FreeImage, At, Listing, UnderWay
  <2>2. \A k : ~ToBeListed(k)
    BY <2>1 DEF ToBeListed
  <2>3. \A k \in ToSet(loadedKexts') : account'[k] = account[k]
    BY <1>2, <2>1
  <2>4. Listed'
    BY <2>1, <2>2, <2>3, ListedKept
  <2> QED BY <1>1, <2>1, <2>4
<1>7. CASE /\ UNCHANGED <<loadedKexts, account, active>> /\ (stale' \/ ~stale)
           /\ \A k \in Kexts : ToBeListed(k) => stale' \/ ToBeListed(k)'
  <2>1. \A k \in ToSet(loadedKexts') : account'[k] = account[k] /\ (ToBeListed(k) => stale' \/ ToBeListed(k)')
    BY <1>2, <1>7
  <2>2. ToSet(loadedKexts') \subseteq ToSet(loadedKexts) /\ active' = active /\ (stale' \/ ~stale)
    BY <1>7
  <2>3. Listed'
    BY <2>1, <2>2, ListedKept
  <2> QED BY <1>1, <2>2, <2>3
<1> QED BY <1>3, <1>4, <1>5, <1>6, <1>7, QuietSteps

(* The account of a kext is made for it and never given to another. *)
LEMMA OwnAccountStep ==
  ASSUME Listing, OwnAccount, [Next]_vars
  PROVE  OwnAccount'
<1>1. /\ OpTyped /\ accounts \in Seq(Account) /\ DOMAIN accounts = 1 .. Len(accounts)
      /\ Len(accounts) \in Nat /\ account \in [Kexts -> 0 .. Len(accounts)]
      /\ loadedKexts \in Seq(Kexts) /\ ToSet(loadedKexts) \subseteq Kexts
  BY ToSetFacts DEF Listing, TablesTyped
<1>2. \A a \in DOMAIN accounts : accounts[a] \in Account
  BY <1>1, ElementOfSeq
<1>3. \A k \in ToSet(loadedKexts) : k \in Kexts /\ account[k] \in DOMAIN accounts /\ accounts[account[k]].kext = k
  BY <1>1 DEF Listing, ListedOnce, OwnAccount
<1>4. CASE EnterLoaded /\ ~FailLoad
  <2> DEFINE k == op.kext
             e == [kext |-> k, tag |-> FALSE, freed |-> FALSE]
  <2>1. /\ k \in Kexts /\ account[k] = 0
        /\ accounts' = Append(accounts, e) /\ account' = [account EXCEPT ![k] = Len(accounts')]
        /\ loadedKexts' = Append(loadedKexts, k)
    BY <1>4, OpFacts DEF EnterLoaded, At, Listing, TablesTyped, UnderWay, Entering
  <2>2. e \in Account /\ e.kext = k
    BY <2>1 DEF Account
  <2> HIDE DEF e, k
  <2>3. /\ Len(accounts') = Len(accounts) + 1
        /\ (\A i \in DOMAIN accounts : accounts'[i] = accounts[i]) /\ accounts'[Len(accounts) + 1] = e
    BY <1>1, <2>1, <2>2, AppendFacts
  <2>4. ToSet(loadedKexts') = ToSet(loadedKexts) \cup {k}
    BY <1>1, <2>1, AppendFacts
  <2>5. accounts'[account'[k]].kext = k
    BY <1>1, <2>1, <2>2, <2>3
  <2>6. ASSUME NEW j \in ToSet(loadedKexts), j # k PROVE accounts'[account'[j]].kext = j
    <3>1. account'[j] = account[j]
      BY <1>1, <2>1, <2>6
    <3> QED BY <1>3, <2>3, <3>1
  <2> QED BY <2>4, <2>5, <2>6 DEF OwnAccount
<1>5. CASE Retire
  <2> DEFINE k == op.kext
             e == RetiredAccount(accounts[account[k]])
  <2>1. /\ k \in ToSet(loadedKexts) /\ account' = account /\ accounts' = [accounts EXCEPT ![account[k]] = e]
        /\ \E i \in DOMAIN loadedKexts : loadedKexts[i] = k /\ loadedKexts' = RemoveAt(loadedKexts, i)
    BY <1>5 DEF Retire, At, Listing, UnderWay
  <2> HIDE DEF e, k
  <2>2. ToSet(loadedKexts') = ToSet(loadedKexts) \ {k}
    <3>1. PICK i \in DOMAIN loadedKexts : loadedKexts[i] = k /\ loadedKexts' = RemoveAt(loadedKexts, i)
      BY <2>1
    <3>2. \A m, n \in DOMAIN loadedKexts : loadedKexts[m] = loadedKexts[n] => m = n
      BY DEF Listing, ListedOnce
    <3>3. ToSet(RemoveAt(loadedKexts, i)) = ToSet(loadedKexts) \ {loadedKexts[i]}
      BY <1>1, <3>1, <3>2, RemoveOnce, Zenon
    <3> QED BY <3>1, <3>3
  <2>3. ASSUME NEW j \in ToSet(loadedKexts'), TRUE PROVE accounts'[account'[j]].kext = j
    <3>1. j \in ToSet(loadedKexts) /\ j # k
      BY <2>2, <2>3
    <3>2. account[j] \in DOMAIN accounts /\ accounts[account[j]].kext = j /\ account[j] # account[k]
      BY <1>3, <2>1, <3>1
    <3> QED BY <2>1, <3>2
  <2> QED BY <2>3 DEF OwnAccount
<1>6. CASE FreeImage
  <2>1. /\ accounts' = accounts /\ loadedKexts' = loadedKexts /\ op.kext \notin ToSet(loadedKexts)
        /\ account' = account \/ account' = [account EXCEPT ![op.kext] = 0]
    BY <1>6 DEF FreeImage, At, Listing, UnderWay
  <2>2. ASSUME NEW j \in ToSet(loadedKexts) PROVE account'[j] = account[j]
    BY <1>1, <2>1
  <2> QED BY <1>3, <2>1, <2>2 DEF OwnAccount
<1>7. CASE SwapAccounts \/ UNCHANGED <<loadedKexts, account, accounts>>
  <2>1. UNCHANGED <<loadedKexts, account, accounts>>
    BY <1>7 DEF SwapAccounts
  <2> QED BY <2>1 DEF OwnAccount
<1>8. CASE (\E p \in Pages : GetAllocationSiteForCaller(p)) \/ \E a \in DOMAIN accounts : FreeSite(a)
  <2>1. /\ UNCHANGED <<loadedKexts, account>>
        /\ \E b : \/ accounts' = [accounts EXCEPT ![b].tag = TRUE]
                  \/ accounts' = [accounts EXCEPT ![b] = [@ EXCEPT !.tag = FALSE, !.freed = TRUE]]
    BY <1>8 DEF GetAllocationSiteForCaller, FreeSite
  <2>2. PICK b : \/ accounts' = [accounts EXCEPT ![b].tag = TRUE]
                 \/ accounts' = [accounts EXCEPT ![b] = [@ EXCEPT !.tag = FALSE, !.freed = TRUE]]
    BY <2>1
  <2>3. ASSUME NEW a \in DOMAIN accounts PROVE accounts'[a].kext = accounts[a].kext
    <3>1. PICK d : d = accounts[a] /\ d \in Account
      BY <1>2
    <3>2. accounts'[a] = d \/ accounts'[a] = [d EXCEPT !.tag = TRUE]
          \/ accounts'[a] = [d EXCEPT !.tag = FALSE, !.freed = TRUE]
      BY <2>2, <3>1
    <3>3. accounts'[a].kext = d.kext
      BY <3>1, <3>2 DEF Account
    <3> QED BY <3>1, <3>3
  <2> QED BY <1>3, <2>1, <2>3 DEF OwnAccount
<1> QED BY <1>4, <1>5, <1>6, <1>7, <1>8, QuietSteps

(* A kext is not started before the update for it is over. *)
LEMMA NotStartedStep ==
  ASSUME Listing, NotStartedYet, [Next]_vars
  PROVE  NotStartedYet'
<1>1. OpTyped
  BY DEF Listing, TablesTyped
<1>2. CASE \E k \in Kexts : Load(k) \/ Unload(k)
  <2>1. PICK k \in Kexts : Load(k) \/ Unload(k)
    BY <1>2
  <2>2. started' = started /\ (op'.name = "load" => op'.kext = k /\ k \notin ToSet(loadedKexts))
    BY <2>1 DEF Load, Unload
  <2> QED BY <2>2 DEF NotStartedYet, Listing, ListedOnce
<1>3. CASE Start \/ Stop
  <2>1. op' = Free \/ (op.name = "unload" /\ op'.name = op.name)
    <3>1. CASE Start
      BY <3>1 DEF Start
    <3>2. CASE Stop
      <4>1. op.name = "unload" /\ op.at = "stop" /\ \E l \in {"profile", "update"} : Goto(l)
        BY <3>2 DEF Stop, At
      <4> QED BY <1>1, <4>1, GotoFacts DEF UnloadSteps, UpdateSteps
    <3> QED BY <1>3, <3>1, <3>2
  <2> QED BY <2>1 DEF NotStartedYet, Free
<1>4. CASE started' = started /\ (op' = Free \/ (op'.name = op.name /\ op'.kext = op.kext))
  BY <1>4 DEF NotStartedYet, Free
<1>5. (started' = started /\ (UNCHANGED op \/ op' = Free \/ \E l : Goto(l)))
      \/ (\E k \in Kexts : Load(k) \/ Unload(k)) \/ Start \/ Stop
  <2> USE DEF others
  <2>1. CASE UNCHANGED vars
    BY <2>1 DEF vars
  <2>2. CASE Link \/ Attributes \/ EnterLoaded \/ Register \/ Profile \/ Retire \/ FreeImage
    BY <2>2 DEF Link, Attributes, EnterLoaded, Register, Profile, Retire, FreeImage, FailLoad
  <2>3. CASE SizeSummaries \/ FillSummaries \/ Publish \/ SwapAccounts
    BY <2>3 DEF SizeSummaries, FillSummaries, Publish, SwapAccounts, EndUpdate
  <2>4. CASE \E k \in Kexts : ReadPrelinked(k)
    BY <2>4 DEF ReadPrelinked
  <2>5. CASE DTraceArrives \/ RegisterKextsWithDTrace \/ CopyTextUUID
             \/ (\E p \in Pages : CopyKextUUIDForAddress(p) \/ GetAllocationSiteForCaller(p))
             \/ (\E a \in DOMAIN accounts : FreeSite(a))
             \/ \E w \in Waiters : (\E k \in Kexts : GrabPgoData(w, k)) \/ PgoReturns(w) \/ PgoInterrupted(w)
    BY <2>5 DEF DTraceArrives, RegisterKextsWithDTrace, CopyTextUUID, CopyKextUUIDForAddress,
         GetAllocationSiteForCaller, FreeSite, GrabPgoData, PgoReturns, PgoInterrupted
  <2> QED BY <2>1, <2>2, <2>3, <2>4, <2>5 DEF Next, Steps
<1>6. ASSUME NEW l, Goto(l) PROVE op' = Free \/ (op'.name = op.name /\ op'.kext = op.kext)
  BY <1>1, <1>6 DEF OpTyped, Goto, Free
<1> QED BY <1>2, <1>3, <1>4, <1>5, <1>6

(* Every step keeps the accounting. *)
LEMMA AccountingStep ==
  ASSUME Listing, Imaging, Imaging', Accounting, [Next]_vars
  PROVE  Accounting'
BY ListedStep, OwnAccountStep, NotStartedStep DEF Accounting

(* The search for an address in code finds the account of its kext. *)
LEMMA FoundByAddress ==
  ASSUME Listing, Imaging, Accounting, ~stale, NEW k \in started, NEW p \in ShouldBeWired(k)
  PROVE  Find(p) = account[k]
<1>1. k \in ToSet(loadedKexts)
  BY DEF Listing, ListedOnce
<1>2. PICK t \in DOMAIN active : Leads(active[t], k)
  <2>1. ~ToBeListed(k)
    BY DEF ToBeListed, Accounting, NotStartedYet
  <2> QED BY <1>1, <2>1 DEF Accounting, Listed
<1>3. /\ info[k] = image[k] /\ info[k].at \in Nat /\ info[k].size \in Nat \ {0}
  BY <1>1, LoadedRange
<1>4. p \in PagesOf(image[k])
  BY DEF ShouldBeWired
<1>5. p \in Nat /\ info[k].at <= p /\ p < info[k].at + info[k].size
  BY <1>3, <1>4 DEF PagesOf
<1>6. active[t].end \in Nat
  <2>1. active \in Seq(Entry) /\ DOMAIN active = 1 .. Len(active)
    BY DEF Accounting
  <2>2. active[t] \in Entry
    BY <2>1, ElementOfSeq
  <2> QED BY <2>2 DEF Entry
<1>7. active[t].at <= p /\ p < active[t].end /\ active[t].account = account[k]
  BY <1>2, <1>3, <1>5, <1>6 DEF Leads
<1> QED BY <1>5, <1>7, FindFacts DEF Accounting

-----------------------------------------------------------------------------
LEMMA InitInvariant == Init => IInv
<1> SUFFICES ASSUME Init PROVE IInv
  OBVIOUS
<1>1. /\ memory = [p \in Pages |-> None] /\ image = [k \in Kexts |-> NoImage]
      /\ info = [k \in Kexts |-> NoImage] /\ wired = {} /\ protected = {} /\ prelinked = {}
      /\ probed = {} /\ corrupt = FALSE
  BY DEF Init, ImageInit
<1>2. NoImage \in Place /\ PagesOf(NoImage) = {} /\ NoImage.size = 0
  BY DEF NoImage, Place, PagesOf
<1>3. /\ op = Free /\ loadedKexts = <<>> /\ started = {} /\ accounts = <<>>
      /\ account = [k \in Kexts |-> 0] /\ table = NoTable /\ draft = NoTable /\ stale = FALSE
      /\ panicList = PanicOrder(loadedKexts) /\ reader = None /\ active = <<>>
  BY DEF Init
<1>4. \A k \in Kexts : ~Entering(k)
  BY <1>3 DEF Entering, Free
<1>5. Len(<<>>) = 0 /\ DOMAIN <<>> = {} /\ <<>> \in Seq(Kexts) /\ <<>> \in Seq(Account)
  OBVIOUS
<1>6. Listing
  <2>1. TablesTyped
    <3>1. account \in [Kexts -> 0 .. Len(accounts)]
      BY <1>3, <1>5
    <3>2. started \subseteq Kexts /\ stale \in BOOLEAN /\ reader \in Kexts \cup {None}
      BY <1>3
    <3> QED BY <1>3, <1>5, <3>1, <3>2, NoTableFacts DEF TablesTyped, OpTyped
  <2>2. ListedOnce
    BY <1>3, <1>5 DEF ListedOnce, ToSet
  <2>3. UnderWay
    BY <1>3, <1>4 DEF UnderWay, Free
  <2> QED BY <2>1, <2>2, <2>3 DEF Listing
<1>7. Imaging
  <2>1. ImagesTyped /\ PagesAreOwned
    BY <1>1, <1>2 DEF ImagesTyped, PagesAreOwned
  <2>2. \A k \in Kexts : Len(PartsOf[k]) \in Nat
    BY LayoutFacts
  <2>3. ImagesAreWhole /\ ImagesAreHad /\ CodeIsReady
    BY <1>1, <1>2, <1>3, <1>4, <2>2 DEF ImagesAreWhole, ImagesAreHad, CodeIsReady
  <2> QED BY <2>1, <2>3 DEF Imaging
<1>8. Telling
  <2>1. NoTable.room = 0 /\ NoTable.num = 0 /\ NoTable.entries = <<>>
    BY DEF NoTable
  <2> QED BY <1>3, <1>5, <2>1 DEF Telling, Filling, WellFormed, TableIsTrue, Covers, PanicListIsTrue, Free
<1>9. AccountsNameTheLoaded
  BY <1>3, <1>5 DEF AccountsNameTheLoaded
<1>10. Accounting
  <2>1. <<>> \in Seq(Entry) /\ ToSet(loadedKexts) = {}
    BY <1>3, <1>5 DEF ToSet
  <2> QED BY <1>3, <1>5, <2>1 DEF Accounting, Arranged, Listed, OwnAccount, NotStartedYet
<1> QED BY <1>6, <1>7, <1>8, <1>9, <1>10 DEF IInv

LEMMA StepInvariant == IInv /\ [Next]_vars => IInv'
BY ListingStep, ImagingStep, TellingStep, AccountsStep, AccountingStep DEF IInv, Imaging

THEOREM Invariant == Spec => []IInv
<1>1. IInv /\ [Next]_vars => IInv'
  BY StepInvariant
<1> QED BY InitInvariant, <1>1, PTL DEF Spec

(* Every variable has its type. *)
THEOREM Typing == Spec => []TypeOK
<1>1. IInv => TypeOK
  BY ToSetFacts DEF IInv, Listing, TablesTyped, Imaging, ImagesTyped, TypeOK
<1> QED BY Invariant, <1>1, PTL

(* No page is freed twice, shared, or forgotten by a kext that goes: pages *)
(* come from the linker or a prelinked kernel, relocations and link edit   *)
(* are freed early by three callers, and whatever is left once more with   *)
(* the image, whichever step of a load or an unload failed.                *)
THEOREM PagesStayOwned == Spec => []PagesAreOwned
<1>1. IInv => PagesAreOwned
  BY DEF IInv, Imaging
<1> QED BY Invariant, <1>1, PTL

(* The code of a started kext is there, wired and protected: neither the   *)
(* early frees nor the loads and unloads of others take a page of it.      *)
THEOREM StartedStayBacked == Spec => []StartedIsBacked
<1>1. IInv => StartedIsBacked
  <2> SUFFICES ASSUME IInv PROVE StartedIsBacked
    OBVIOUS
  <2>1. ASSUME NEW k \in started
        PROVE  /\ ShouldBeWired(k) # {} /\ ShouldBeWired(k) \subseteq wired \cap protected
               /\ \A p \in ShouldBeWired(k) : memory[p] = k
    <3>1. k \in Kexts /\ account[k] # 0
      BY DEF IInv, Listing, TablesTyped, ListedOnce
    <3>2. image[k].size # 0 /\ ShouldBeWired(k) \subseteq wired \cap protected
      BY <3>1 DEF IInv, Imaging, ImagesAreHad, CodeIsReady
    <3> QED BY <3>1, <3>2, ImageFacts DEF IInv
  <2> QED BY <2>1 DEF StartedIsBacked
<1> QED BY Invariant, <1>1, PTL

(* Whom an account names is loaded, has that account and no other, and the *)
(* account is not freed: under the spin lock one may follow it to the kext.*)
THEOREM AccountsStayTrue == Spec => []AccountsNameTheLoaded
<1>1. IInv => AccountsNameTheLoaded
  BY DEF IInv
<1> QED BY Invariant, <1>1, PTL

(* Whatever the images of the kexts, in whatever order they came and went, *)
(* and although link edit is freed after the list was made and its pages   *)
(* go to others: the binary search for an address in the code of a started *)
(* kext ends at the account of that kext, unless an update has failed.     *)
THEOREM CodeIsFound == Spec => []CodeFindsItsAccount
<1>1. IInv => CodeFindsItsAccount
  <2> SUFFICES ASSUME IInv PROVE CodeFindsItsAccount
    OBVIOUS
  <2>1. Listing /\ Imaging /\ Accounting /\ AccountsNameTheLoaded
    BY DEF IInv
  <2>2. ASSUME NEW k \in started, NEW p \in ShouldBeWired(k), ~stale
        PROVE  Find(p) = account[k] /\ ~accounts[Find(p)].freed
    <3>1. Find(p) = account[k]
      BY <2>1, <2>2, FoundByAddress
    <3>2. k \in ToSet(loadedKexts) /\ k \in Kexts /\ k # None
      BY <2>1 DEF Listing, TablesTyped, ListedOnce
    <3>3. account[k] \in DOMAIN accounts
      <4>1. /\ account \in [Kexts -> 0 .. Len(accounts)] /\ account[k] # 0
            /\ accounts \in Seq(Account) /\ DOMAIN accounts = 1 .. Len(accounts)
        BY <2>1, <3>2 DEF Listing, TablesTyped, ListedOnce
      <4> QED BY <3>2, <4>1
    <3>4. accounts[account[k]].kext = k
      BY <2>1, <3>2 DEF Accounting, OwnAccount
    <3> QED BY <2>1, <3>1, <3>2, <3>3, <3>4 DEF AccountsNameTheLoaded
  <2> QED BY <2>1, <2>2 DEF CodeFindsItsAccount
<1> QED BY Invariant, <1>1, PTL

(* What a panic reads is true: the summaries counted are filled in within  *)
(* the table at any moment of an update, those of exactly the loaded kexts *)
(* when no operation is under way, unless an update failed; and the list   *)
(* of a panic is that of the loaded kexts.                                 *)
THEOREM PanicStaysTrue == Spec => []PanicReadsTrue
<1>1. IInv => PanicReadsTrue
  <2> SUFFICES ASSUME IInv PROVE PanicReadsTrue
    OBVIOUS
  <2>1. table.num <= Len(table.entries) /\ Len(table.entries) <= table.room
    BY DEF IInv, Telling, Filling, WellFormed
  <2>2. Idle /\ "memory" \notin Faults => panicList = PanicOrder(loadedKexts)
    BY DEF IInv, Telling, PanicListIsTrue, Idle
  <2>3. ASSUME Idle, ~stale
        PROVE  /\ [i \in 1 .. table.num |-> table.entries[i].kext] = loadedKexts
               /\ \A k \in started : \A p \in PagesOf(info[k]) : k \in KextsInBacktrace(p)
    <3>1. Covers(table) /\ table.num = Len(loadedKexts)
      BY <2>3 DEF IInv, Telling, TableIsTrue, Settled, Idle
    <3>2. /\ loadedKexts \in Seq(Kexts) /\ DOMAIN loadedKexts = 1 .. Len(loadedKexts)
          /\ Len(loadedKexts) \in Nat
          /\ loadedKexts = [i \in 1 .. Len(loadedKexts) |-> loadedKexts[i]]
      BY DEF IInv, Listing, TablesTyped
    <3>3. table.entries \in Seq([kext : Kexts, at : Nat, size : Nat])
      BY DEF IInv, Listing, TablesTyped, Table
    <3>4. DOMAIN table.entries = 1 .. Len(loadedKexts)
      BY <2>1, <3>1, <3>2, <3>3, LenProperties DEF Covers
    <3>5. [i \in 1 .. table.num |-> table.entries[i].kext] = loadedKexts
      BY <3>1, <3>2, <3>4 DEF Covers, Summarizes
    <3>6. ASSUME NEW k \in started, NEW p \in PagesOf(info[k])
          PROVE  k \in KextsInBacktrace(p)
      <4>1. k \in ToSet(loadedKexts)
        BY DEF IInv, Listing, ListedOnce
      <4>2. PICK i \in 1 .. Len(loadedKexts) : loadedKexts[i] = k
        BY <3>2, <4>1 DEF ToSet
      <4> DEFINE e == table.entries[i]
      <4>3. e.kext = k /\ e.at = info[k].at /\ e.size >= info[k].size
        BY <3>1, <3>4, <4>2 DEF Covers, Summarizes
      <4>4. e \in {table.entries[j] : j \in 1 .. table.num} /\ e \in ToSet(table.entries)
        BY <3>1, <3>4, <4>2 DEF ToSet
      <4>5. k \in Kexts
        BY DEF IInv, Listing, TablesTyped
      <4>6. info[k].at \in Nat /\ info[k].size \in Nat
        BY <4>5 DEF IInv, Imaging, ImagesTyped, Place
      <4>7. e.size \in Nat
        <5>1. e \in [kext : Kexts, at : Nat, size : Nat]
          <6> DEFINE E == [kext : Kexts, at : Nat, size : Nat]
                     s == table.entries
          <6>1. s \in Seq(E) /\ i \in DOMAIN s /\ DOMAIN s = 1 .. Len(s)
            BY <3>3, <3>4, <4>2
          <6> HIDE DEF E, s
          <6>2. s[i] \in E
            BY <6>1, ElementOfSeq
          <6> QED BY <6>2 DEF E, s
        <5> QED BY <5>1
      <4> HIDE DEF e
      <4>8. p \in PagesOf([at |-> e.at, size |-> e.size])
        BY SMTT(30), <4>3, <4>6, <4>7 DEF PagesOf
      <4> QED BY <4>3, <4>4, <4>8 DEF KextsInBacktrace
    <3> QED BY <3>5, <3>6
  <2> QED BY <2>1, <2>2, <2>3 DEF PanicReadsTrue
<1> QED BY Invariant, <1>1, PTL
=============================================================================
