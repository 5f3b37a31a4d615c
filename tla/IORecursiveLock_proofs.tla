----------------------- MODULE IORecursiveLock_proofs -----------------------
(***************************************************************************)
(* Proofs about IORecursiveLock for every set of threads and every nesting *)
(* depth.                                                                  *)
(***************************************************************************)
EXTENDS IORecursiveLock, TLAPS

(* The lines on which a thread holds the pthread mutex, and those on which *)
(* lock->thread names it.                                                  *)
Holding(t) ==
  \/ pc[t] \in {"again", "own", "count", "unown", "unlock",
                "disown", "wait", "reown", "recount"}
  \/ pc[t] = "idle" /\ depth[t] > 0

Named(t) ==
  \/ pc[t] \in {"again", "count", "unown", "disown", "recount"}
  \/ pc[t] = "idle" /\ depth[t] > 0

MutexIsHeld == \A t \in Threads : mutex = t <=> Holding(t)

ThreadIsNamed == \A t \in Threads : thread = t <=> Named(t)

(* The count is the owner's depth in the owner's own code, and 0 on the    *)
(* lines around it and while nobody holds the mutex.                       *)
CountIsDepth ==
  /\ mutex = NoThread => count = 0
  /\ \A t \in Threads :
       IF pc[t] = "again" \/ (pc[t] = "idle" /\ depth[t] > 0)
       THEN count = depth[t]
       ELSE Holding(t) => count = 0

(* What each client has taken while it is on each line. *)
DepthOK ==
  \A t \in Threads :
    /\ pc[t] \in {"acquire", "own", "count", "unown", "unlock"} => depth[t] = 0
    /\ pc[t] = "again" => depth[t] \in 1 .. MaxDepth - 1
    /\ pc[t] \in SleepLines => depth[t] > 0 /\ saved[t] = depth[t]
    /\ t \in asleep => pc[t] = "woken"

IInv ==
  /\ TypeOK
  /\ MutexIsHeld
  /\ ThreadIsNamed
  /\ CountIsDepth
  /\ DepthOK
  /\ NoAssertion

USE NoThreadAssumption, DepthAssumption

-----------------------------------------------------------------------------
LEMMA InitInvariant == Init => IInv
BY DEF Init, IInv, TypeOK, MutexIsHeld, ThreadIsNamed, CountIsDepth, DepthOK, NoAssertion,
       Holding, Named, SleepLines

(* Every action keeps the invariant. *)
LEMMA StepInvariant == IInv /\ [Next]_vars => IInv'
<1> SUFFICES ASSUME IInv, [Next]_vars PROVE IInv'
  OBVIOUS
<1> USE DEF IInv, TypeOK, MutexIsHeld, ThreadIsNamed, CountIsDepth, DepthOK, NoAssertion,
            Holding, Named, LockLines, UnlockLines, SleepLines, Goto, AssertThen
<1>1. ASSUME NEW t \in Threads, CallLock(t) PROVE IInv'
  BY <1>1 DEF CallLock
<1>2. ASSUME NEW t \in Threads, LockAgain(t) PROVE IInv'
  BY <1>2 DEF LockAgain
<1>3. ASSUME NEW t \in Threads, Acquire(t) PROVE IInv'
  BY <1>3 DEF Acquire
<1>4. ASSUME NEW t \in Threads, SetThread(t) PROVE IInv'
  BY <1>4 DEF SetThread
<1>5. ASSUME NEW t \in Threads, SetCount(t) PROVE IInv'
  BY <1>5 DEF SetCount
<1>6. ASSUME NEW t \in Threads, CallUnlock(t) PROVE IInv'
  BY <1>6 DEF CallUnlock
<1>7. ASSUME NEW t \in Threads, ClearThread(t) PROVE IInv'
  BY <1>7 DEF ClearThread
<1>8. ASSUME NEW t \in Threads, Unlock(t) PROVE IInv'
  BY <1>8 DEF Unlock
<1>9. ASSUME NEW t \in Threads, CallSleep(t) PROVE IInv'
  BY <1>9 DEF CallSleep
<1>10. ASSUME NEW t \in Threads, Disown(t) PROVE IInv'
  BY <1>10 DEF Disown
<1>11. ASSUME NEW t \in Threads, Wait(t) PROVE IInv'
  BY <1>11 DEF Wait
<1>12. ASSUME NEW t \in Threads, Reacquire(t) PROVE IInv'
  BY <1>12 DEF Reacquire
<1>13. ASSUME NEW t \in Threads, RestoreThread(t) PROVE IInv'
  BY <1>13 DEF RestoreThread
<1>14. ASSUME NEW t \in Threads, RestoreCount(t) PROVE IInv'
  BY <1>14 DEF RestoreCount
<1>15. ASSUME Wakeup PROVE IInv'
  BY <1>15 DEF Wakeup
<1>16. CASE UNCHANGED vars
  BY <1>16 DEF vars
<1> QED
  BY <1>1, <1>2, <1>3, <1>4, <1>5, <1>6, <1>7, <1>8, <1>9, <1>10, <1>11, <1>12, <1>13,
     <1>14, <1>15, <1>16 DEF Next, Call, Step

THEOREM Invariant == Spec => []IInv
<1>1. Init => IInv
  BY InitInvariant
<1>2. IInv /\ [Next]_vars => IInv'
  BY StepInvariant
<1> QED BY <1>1, <1>2, PTL DEF Spec

-----------------------------------------------------------------------------
(* Every variable of IORecursiveLock keeps to its type; in particular      *)
(* lock->count never goes below zero or above the deepest nesting.         *)
THEOREM Typing == Spec => []TypeOK
<1>1. IInv => TypeOK
  BY DEF IInv
<1> QED BY <1>1, Invariant, PTL

(* A client that reads lock->thread and lock->count in its own code, with  *)
(* no lock in common with the threads that change them, reads the truth.   *)
THEOREM TrueFields == Spec => []FieldsAreTrue
<1>1. IInv => FieldsAreTrue
  BY DEF IInv, FieldsAreTrue, ThreadIsNamed, CountIsDepth, Named
<1> QED BY <1>1, Invariant, PTL

(* No assert of lock, unlock or sleep ever fails. *)
THEOREM AssertsHold == Spec => []NoAssertion
<1>1. IInv => NoAssertion
  BY DEF IInv
<1> QED BY <1>1, Invariant, PTL

-----------------------------------------------------------------------------
(* At most one thread is inside, and while one is the pthread mutex is its *)
(* own, so that a step taken with the mutex finds nobody inside before it. *)
LEMMA InsideHolds ==
  ASSUME IInv, NEW t \in Threads, t \in Inside PROVE Holding(t) /\ mutex = t
BY DEF IInv, TypeOK, MutexIsHeld, DepthOK, NoAssertion, Inside, Sleeping, Holding,
       LockLines, UnlockLines, SleepLines

LEMMA OneInside ==
  ASSUME IInv, NEW t \in Threads, mutex = t PROVE Inside \subseteq {t}
BY InsideHolds DEF Inside

(* How one step of the code moves the depths and the sleepers. *)
LEMMA StepRefines == IInv /\ [Next]_vars => [Mutex!Next]_Mutex!vars
<1> SUFFICES ASSUME IInv, [Next]_vars PROVE [Mutex!Next]_Mutex!vars
  OBVIOUS
<1> USE DEF Mutex!vars, Mutex!Next
<1>1. ASSUME NEW t \in Threads, LockAgain(t) \/ SetCount(t) PROVE Mutex!Lock(t)
  <2>1. mutex = t /\ t \notin Sleeping /\ depth[t] < MaxDepth
    BY <1>1 DEF LockAgain, SetCount, IInv, MutexIsHeld, Holding, DepthOK, Sleeping, SleepLines
  <2>2. Mutex!Inside \subseteq {t}
    BY <2>1, OneInside DEF Inside, Mutex!Inside
  <2>3. Sleeping' = Sleeping
    BY <1>1 DEF LockAgain, SetCount, Goto, Sleeping, SleepLines, IInv, TypeOK
  <2>4. depth' = [depth EXCEPT ![t] = @ + 1]
    BY <1>1 DEF LockAgain, SetCount
  <2> QED BY <2>1, <2>2, <2>3, <2>4 DEF Mutex!Lock
<1>2. ASSUME NEW t \in Threads, CallUnlock(t) PROVE Mutex!Unlock(t)
  <2>1. t \in Mutex!Inside
    BY <1>2 DEF CallUnlock, Mutex!Inside, Sleeping, SleepLines
  <2>2. Sleeping' = Sleeping
    BY <1>2 DEF CallUnlock, AssertThen, Goto, Sleeping, SleepLines, IInv, TypeOK
  <2> QED BY <1>2, <2>1, <2>2 DEF CallUnlock, Mutex!Unlock
<1>3. ASSUME NEW t \in Threads, CallSleep(t) PROVE Mutex!Sleep(t)
  <2>1. t \in Mutex!Inside
    BY <1>3 DEF CallSleep, Mutex!Inside, Sleeping, SleepLines
  <2>2. thread = t
    BY <1>3 DEF CallSleep, IInv, ThreadIsNamed, Named
  <2>3. Sleeping' = Sleeping \cup {t}
    BY <1>3, <2>2 DEF CallSleep, AssertThen, Goto, Sleeping, SleepLines, IInv, TypeOK
  <2> QED BY <1>3, <2>1, <2>3 DEF CallSleep, Mutex!Sleep
<1>4. ASSUME NEW t \in Threads, RestoreCount(t) PROVE Mutex!Wake(t)
  <2>1. t \in Sleeping /\ mutex = t
    BY <1>4 DEF RestoreCount, Sleeping, SleepLines, IInv, MutexIsHeld, Holding
  <2>2. Mutex!Inside = {}
    BY <2>1, OneInside DEF Inside, Mutex!Inside
  <2>3. Sleeping' = Sleeping \ {t}
    BY <1>4 DEF RestoreCount, Goto, Sleeping, SleepLines, IInv, TypeOK
  <2> QED BY <1>4, <2>1, <2>2, <2>3 DEF RestoreCount, Mutex!Wake
<1>5. ASSUME NEW t \in Threads,
             CallLock(t) \/ Acquire(t) \/ SetThread(t) \/ ClearThread(t) \/ Unlock(t)
      PROVE  UNCHANGED <<depth, Sleeping>>
  BY <1>5 DEF CallLock, Acquire, SetThread, ClearThread, Unlock, AssertThen, Goto,
              Sleeping, SleepLines, IInv, TypeOK
<1>6. ASSUME NEW t \in Threads, Disown(t) \/ Wait(t) \/ Reacquire(t) \/ RestoreThread(t)
      PROVE  UNCHANGED <<depth, Sleeping>>
  <2>1. CASE RestoreThread(t)
    <3>1. thread = NoThread /\ count = 0
      BY <2>1 DEF RestoreThread, IInv, TypeOK, MutexIsHeld, ThreadIsNamed, CountIsDepth,
                  Holding, Named
    <3> QED BY <2>1, <3>1 DEF RestoreThread, AssertThen, Goto, Sleeping, SleepLines, IInv, TypeOK
  <2> QED BY <1>6, <2>1 DEF Disown, Wait, Reacquire, Goto, Sleeping, SleepLines, IInv, TypeOK
<1>7. CASE Wakeup \/ UNCHANGED vars
  BY <1>7 DEF Wakeup, vars, Sleeping
<1> QED
  BY <1>1, <1>2, <1>3, <1>4, <1>5, <1>6, <1>7 DEF Next, Call, Step

(* The lines of IOLocks.cpp implement the atomic recursive mutex: at most  *)
(* one thread is inside, and it comes out of a sleep as deep as it went in.*)
THEOREM Refinement == Spec => ImplementsMutex
<1>1. Init => Mutex!Init
  BY DEF Init, Mutex!Init, Sleeping, SleepLines
<1>2. IInv /\ [Next]_vars => [Mutex!Next]_Mutex!vars
  BY StepRefines
<1> QED BY <1>1, <1>2, Invariant, PTL DEF Spec, ImplementsMutex, Mutex!Spec
=============================================================================
