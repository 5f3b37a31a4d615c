-------------------------- MODULE IORecursiveLock --------------------------
(***************************************************************************)
(* The recursive lock of src/libkern/src/IOLocks.cpp: a pthread mutex and  *)
(* condition, with two fields (the owning thread and how often it locked)  *)
(* that every call reads or writes, partly without holding the mutex.      *)
(*                                                                         *)
(* Each read or write of a field, and each call of the pthread library, is *)
(* an action of its own, so that the calls of other threads run between    *)
(* them.  pc[t] names the line of code thread t runs next; a thread is     *)
(* "idle" when it is in its own code, inside the lock or outside of it.    *)
(* The clients are balanced: they unlock and sleep only inside the lock.   *)
(***************************************************************************)
EXTENDS Naturals

CONSTANTS
  Threads,
  NoThread,       \* the null pthread_t
  MaxDepth        \* how deep a client nests its locks (below 2^32)

ASSUME NoThreadAssumption == NoThread \notin Threads
ASSUME DepthAssumption == MaxDepth \in Nat \ {0}

VARIABLES
  mutex,          \* _lock: the thread that holds the pthread mutex
  thread,         \* lock->thread
  count,          \* lock->count
  asleep,         \* the threads waiting on _cond
  pc,             \* the next line of each thread
  saved,          \* the local count of each thread in IORecursiveLockSleep
  depth           \* the locks each client has taken and not undone

vars == <<mutex, thread, count, asleep, pc, saved, depth>>

(* The lines of each call. *)
LockLines   == {"again", "acquire", "own", "count"}
UnlockLines == {"unown", "unlock"}
SleepLines  == {"disown", "wait", "woken", "reown", "recount"}

Init ==
  /\ mutex = NoThread
  /\ thread = NoThread
  /\ count = 0
  /\ asleep = {}
  /\ pc = [t \in Threads |-> "idle"]
  /\ saved = [t \in Threads |-> 0]
  /\ depth = [t \in Threads |-> 0]

Goto(t, line) == pc' = [pc EXCEPT ![t] = line]

(* assert() ends the program when the condition does not hold. *)
AssertThen(t, condition, line) == Goto(t, IF condition THEN line ELSE "aborted")

-----------------------------------------------------------------------------
(* IORecursiveLockLock. *)

(* Mutant: asks whether the lock is owned, not by whom. *)
BugCallLock(t) ==
  /\ pc[t] = "idle"
  /\ depth[t] < MaxDepth
  /\ Goto(t, IF thread # NoThread THEN "again" ELSE "acquire")
  /\ UNCHANGED <<mutex, thread, count, asleep, saved, depth>>

(* The test of lock->thread, without the mutex. *)
CallLock(t) ==
  /\ pc[t] = "idle"
  /\ depth[t] < MaxDepth
  /\ Goto(t, IF thread = t THEN "again" ELSE "acquire")
  /\ UNCHANGED <<mutex, thread, count, asleep, saved, depth>>

LockAgain(t) ==
  /\ pc[t] = "again"
  /\ count' = count + 1
  /\ depth' = [depth EXCEPT ![t] = @ + 1]
  /\ Goto(t, "idle")
  /\ UNCHANGED <<mutex, thread, asleep, saved>>

(* pthread_mutex_lock returns. *)
Acquire(t) ==
  /\ pc[t] = "acquire"
  /\ mutex = NoThread
  /\ mutex' = t
  /\ Goto(t, "own")
  /\ UNCHANGED <<thread, count, asleep, saved, depth>>

SetThread(t) ==
  /\ pc[t] = "own"
  /\ AssertThen(t, thread = NoThread /\ count = 0, "count")
  /\ thread' = t
  /\ UNCHANGED <<mutex, count, asleep, saved, depth>>

SetCount(t) ==
  /\ pc[t] = "count"
  /\ count' = 1
  /\ depth' = [depth EXCEPT ![t] = @ + 1]
  /\ Goto(t, "idle")
  /\ UNCHANGED <<mutex, thread, asleep, saved>>

-----------------------------------------------------------------------------
(* IORecursiveLockUnlock. *)

(* Mutant: the mutex is unlocked before lock->thread is cleared. *)
BugCallUnlock(t) ==
  /\ pc[t] = "idle"
  /\ depth[t] > 0
  /\ AssertThen(t, thread = t, IF count = 1 THEN "unown" ELSE "idle")
  /\ count' = count - 1
  /\ depth' = [depth EXCEPT ![t] = @ - 1]
  /\ mutex' = IF count = 1 THEN NoThread ELSE mutex
  /\ UNCHANGED <<thread, asleep, saved>>

CallUnlock(t) ==
  /\ pc[t] = "idle"
  /\ depth[t] > 0
  /\ AssertThen(t, thread = t, IF count = 1 THEN "unown" ELSE "idle")
  /\ count' = count - 1
  /\ depth' = [depth EXCEPT ![t] = @ - 1]
  /\ UNCHANGED <<mutex, thread, asleep, saved>>

ClearThread(t) ==
  /\ pc[t] = "unown"
  /\ thread' = NoThread
  /\ Goto(t, "unlock")
  /\ UNCHANGED <<mutex, count, asleep, saved, depth>>

(* Mutant: the mutex is never given up. *)
BugUnlock(t) ==
  /\ pc[t] = "unlock"
  /\ Goto(t, "idle")
  /\ UNCHANGED <<mutex, thread, count, asleep, saved, depth>>

Unlock(t) ==
  /\ pc[t] = "unlock"
  /\ mutex' = NoThread
  /\ Goto(t, "idle")
  /\ UNCHANGED <<thread, count, asleep, saved, depth>>

-----------------------------------------------------------------------------
(* IORecursiveLockSleep and IORecursiveLockWakeup. *)

CallSleep(t) ==
  /\ pc[t] = "idle"
  /\ depth[t] > 0
  /\ saved' = [saved EXCEPT ![t] = count]
  /\ AssertThen(t, thread = t, "disown")
  /\ count' = 0
  /\ UNCHANGED <<mutex, thread, asleep, depth>>

Disown(t) ==
  /\ pc[t] = "disown"
  /\ thread' = NoThread
  /\ Goto(t, "wait")
  /\ UNCHANGED <<mutex, count, asleep, saved, depth>>

(* pthread_cond_wait gives the mutex up and waits, or refuses a condition  *)
(* that nobody initialised and returns at once.                            *)
Wait(t) ==
  /\ pc[t] = "wait"
  /\ \/ mutex' = NoThread /\ asleep' = asleep \cup {t} /\ Goto(t, "woken")
     \/ Goto(t, "reown") /\ UNCHANGED <<mutex, asleep>>
  /\ UNCHANGED <<thread, count, saved, depth>>

(* A signal wakes one waiting thread, whatever it waits for; the library   *)
(* may also wake one on its own.                                           *)
Wakeup ==
  \E t \in asleep :
    /\ asleep' = asleep \ {t}
    /\ UNCHANGED <<mutex, thread, count, pc, saved, depth>>

(* pthread_cond_wait returns with the mutex. *)
Reacquire(t) ==
  /\ pc[t] = "woken"
  /\ t \notin asleep
  /\ mutex = NoThread
  /\ mutex' = t
  /\ Goto(t, "reown")
  /\ UNCHANGED <<thread, count, asleep, saved, depth>>

RestoreThread(t) ==
  /\ pc[t] = "reown"
  /\ AssertThen(t, thread = NoThread /\ count = 0, "recount")
  /\ thread' = t
  /\ UNCHANGED <<mutex, count, asleep, saved, depth>>

RestoreCount(t) ==
  /\ pc[t] = "recount"
  /\ count' = saved[t]
  /\ saved' = [saved EXCEPT ![t] = 0]
  /\ Goto(t, "idle")
  /\ UNCHANGED <<mutex, thread, asleep, depth>>

-----------------------------------------------------------------------------
(* The steps of a thread that is inside one of the calls. *)
Step(t) ==
  \/ LockAgain(t) \/ Acquire(t) \/ SetThread(t) \/ SetCount(t)
  \/ ClearThread(t) \/ Unlock(t)
  \/ Disown(t) \/ Wait(t) \/ Reacquire(t) \/ RestoreThread(t) \/ RestoreCount(t)

Call(t) == CallLock(t) \/ CallUnlock(t) \/ CallSleep(t)

Next == Wakeup \/ \E t \in Threads : Call(t) \/ Step(t)

Spec == Init /\ [][Next]_vars

(* A call that can go on does, and the pthread mutex does not pass a       *)
(* thread over for ever.  Nothing is assumed of the clients.               *)
FairSpec ==
  /\ Spec
  /\ \A t \in Threads :
       /\ WF_vars(Step(t))
       /\ SF_vars(Acquire(t)) /\ SF_vars(Reacquire(t))

-----------------------------------------------------------------------------
(* The values every variable may take. *)
TypeOK ==
  /\ mutex \in Threads \cup {NoThread}
  /\ thread \in Threads \cup {NoThread}
  /\ count \in 0 .. MaxDepth
  /\ asleep \subseteq Threads
  /\ pc \in [Threads -> {"idle", "aborted"} \cup LockLines \cup UnlockLines \cup SleepLines]
  /\ saved \in [Threads -> 0 .. MaxDepth]
  /\ depth \in [Threads -> 0 .. MaxDepth]

Sleeping == {t \in Threads : pc[t] \in SleepLines}
Inside == {t \in Threads : depth[t] > 0 /\ t \notin Sleeping}

(* Although lock->thread and lock->count are read and changed without a    *)
(* common lock, a thread in its own code that looks at them learns exactly *)
(* whether it is inside (IORecursiveLockHaveLock) and how deep.            *)
FieldsAreTrue ==
  \A t \in Threads : pc[t] = "idle" =>
    /\ thread = t <=> depth[t] > 0
    /\ depth[t] > 0 => count = depth[t]

(* The asserts of lock, unlock and sleep hold: nobody takes the mutex and  *)
(* finds the fields of an earlier owner, or has lost its own.              *)
NoAssertion == \A t \in Threads : pc[t] # "aborted"

(* The lock behaves as the atomic recursive mutex: one thread inside, as   *)
(* deep after a sleep as before it.                                        *)
Mutex == INSTANCE RecursiveMutex WITH sleeping <- Sleeping

ImplementsMutex == Mutex!Spec

(* If again and again every client has left or is waiting in a sleep, then *)
(* a thread that locks gets in, and one that was woken gets back in: the   *)
(* fields and the mutex are never left behind as if somebody were inside.  *)
EverybodyOut == \A t \in Threads : depth[t] > 0 => pc[t] = "woken"

LockReturns ==
  []<>EverybodyOut =>
    \A t \in Threads :
      pc[t] = "acquire" \/ (pc[t] = "woken" /\ t \notin asleep) ~> pc[t] = "idle"
=============================================================================
