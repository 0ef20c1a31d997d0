---------------------------- MODULE FreeRtosSync ----------------------------
(***************************************************************************)
(* The FreeRTOS shim (src/freertos/semphr.h, task.h): a mutex is a         *)
(* std::recursive_mutex that also records its holder, a binary semaphore   *)
(* and a task's notification counter are a std::mutex and a condition      *)
(* variable.  One object of each kind, used by tasks in any order.         *)
(*                                                                         *)
(* What a task does under an object's std::mutex is one step: no other     *)
(* task looks at the object meanwhile.  The recorded holder is read        *)
(* without a lock, so the writes around it are steps of their own, and so  *)
(* is notify_one(), which is called after the lock is let go.              *)
(***************************************************************************)
EXTENDS Naturals

CONSTANTS
  Tasks,     \* the firmware's tasks
  NoTask,    \* no holder, no owner
  MaxDepth,  \* bound: nested takes of the mutex
  MaxNotify  \* bound: notifications of one task not consumed yet

ASSUME FreeRtosAssumption ==
  /\ NoTask \notin Tasks
  /\ MaxDepth \in Nat \ {0}
  /\ MaxNotify \in Nat \ {0}

VARIABLES
  pc,        \* per task: where it is in a call of the shim
  owner,     \* std::recursive_mutex: the task that has it
  depth,     \*   and how many times
  holder,    \* SimMutex::holder
  holdCount, \* SimMutex::holdCount
  available, \* SimBinarySemaphore::available
  count,     \* per task: SimTaskHandle::notifyCount
  target     \* per task: whom it is about to wake with notify_one()

mutexVars == <<owner, depth, holder, holdCount>>
vars == <<pc, owner, depth, holder, holdCount, available, count, target>>

\* In the middle of a call that has the mutex.
InLock  == {"locked", "named", "uncounted", "unnamed", "peeking"}
\* Asleep on a condition variable, or woken and about to look again.
ForToken == {"sleepForever", "sleepTimed", "wokenForever", "wokenTimed"}
ForNotice == {"sleepNotice", "wokenNotice"}
Places == {"idle", "gave", "notified"} \cup InLock \cup ForToken \cup ForNotice

Go(t, place) == pc' = [pc EXCEPT ![t] = place]

Init ==
  /\ pc = [t \in Tasks |-> "idle"]
  /\ owner = NoTask /\ depth = 0
  /\ holder = NoTask /\ holdCount = 0
  /\ available = FALSE
  /\ count = [t \in Tasks |-> 0]
  /\ target = [t \in Tasks |-> NoTask]

-----------------------------------------------------------------------------
(* The mutex.  A task that finds it taken stays in mtx.lock().             *)

LockMutex(t) ==
  /\ pc[t] = "idle"
  /\ owner \in {NoTask, t}
  /\ depth < MaxDepth
  /\ owner' = t
  /\ depth' = depth + 1
  /\ Go(t, "locked")
  /\ UNCHANGED <<holder, holdCount, available, count, target>>

NameHolder(t) ==
  /\ pc[t] = "locked"
  /\ holder' = t
  /\ Go(t, "named")
  /\ UNCHANGED <<owner, depth, holdCount, available, count, target>>

CountHold(t) ==
  /\ pc[t] = "named"
  /\ holdCount' = holdCount + 1
  /\ Go(t, "idle")
  /\ UNCHANGED <<owner, depth, holder, available, count, target>>

\* Only the task that has the mutex gives it back.
GiveMutex(t) ==
  /\ pc[t] = "idle"
  /\ owner = t
  /\ holdCount' = IF holdCount > 0 THEN holdCount - 1 ELSE 0
  /\ Go(t, "uncounted")
  /\ UNCHANGED <<owner, depth, holder, available, count, target>>

ClearHolder(t) ==
  /\ pc[t] = "uncounted"
  /\ holder' = IF holdCount = 0 THEN NoTask ELSE holder
  /\ Go(t, "unnamed")
  /\ UNCHANGED <<owner, depth, holdCount, available, count, target>>

UnlockMutex(t) ==
  /\ pc[t] \in {"unnamed", "peeking"}
  /\ depth' = depth - 1
  /\ owner' = IF depth = 1 THEN NoTask ELSE owner
  /\ Go(t, "idle")
  /\ UNCHANGED <<holder, holdCount, available, count, target>>

\* try_lock() succeeds for the task that has the mutex, too.
PeekMutex(t) ==
  /\ pc[t] = "idle"
  /\ owner \in {NoTask, t}
  /\ depth < MaxDepth
  /\ owner' = t
  /\ depth' = depth + 1
  /\ Go(t, "peeking")
  /\ UNCHANGED <<holder, holdCount, available, count, target>>

\* What xSemaphoreGetMutexHolder() tells a task about itself.
SaysMine(t) == holder = t

-----------------------------------------------------------------------------
(* The binary semaphore.                                                   *)

TakeToken(t) ==
  /\ pc[t] = "idle"
  /\ \/ /\ available
        /\ available' = FALSE
        /\ UNCHANGED pc
     \/ /\ ~available
        /\ \E place \in {"sleepForever", "sleepTimed"} : Go(t, place)
        /\ UNCHANGED available
  /\ UNCHANGED <<mutexVars, count, target>>

LookAgainTrusting(t) ==
  /\ pc[t] \in {"wokenForever", "wokenTimed"}
  /\ available' = FALSE
  /\ Go(t, "idle")
  /\ UNCHANGED <<mutexVars, count, target>>

\* A woken task looks at the predicate before it takes the token.
LookAgain(t) ==
  /\ pc[t] \in {"wokenForever", "wokenTimed"}
  /\ \/ /\ available
        /\ available' = FALSE
        /\ Go(t, "idle")
     \/ /\ ~available
        /\ Go(t, IF pc[t] = "wokenForever" THEN "sleepForever" ELSE "sleepTimed")
        /\ UNCHANGED available
  /\ UNCHANGED <<mutexVars, count, target>>

\* wait_for() looks at the predicate a last time; with ticksToWait = 0 this
\* comes at once.
Expire(t) ==
  /\ pc[t] \in {"sleepTimed", "wokenTimed"}
  /\ available' = FALSE
  /\ Go(t, "idle")
  /\ UNCHANGED <<mutexVars, count, target>>

GiveToken(t) ==
  /\ pc[t] = "idle"
  /\ available' = TRUE
  /\ Go(t, "gave")
  /\ UNCHANGED <<mutexVars, count, target>>

Woken(place) ==
  CASE place = "sleepForever" -> "wokenForever"
    [] place = "sleepTimed"   -> "wokenTimed"
    [] place = "sleepNotice"  -> "wokenNotice"

\* notify_one() of the semaphore: one sleeper, if there is one.
WakeTaker(t) ==
  /\ pc[t] = "gave"
  /\ LET asleep == {u \in Tasks : pc[u] \in {"sleepForever", "sleepTimed"}}
     IN \/ asleep = {} /\ Go(t, "idle")
        \/ \E u \in asleep : pc' = [pc EXCEPT ![t] = "idle", ![u] = Woken(pc[u])]
  /\ UNCHANGED <<mutexVars, available, count, target>>

\* A condition variable may wake a sleeper for no reason.
Spurious(t) ==
  /\ pc[t] \in {"sleepForever", "sleepTimed", "sleepNotice"}
  /\ Go(t, Woken(pc[t]))
  /\ UNCHANGED <<mutexVars, available, count, target>>

-----------------------------------------------------------------------------
(* Task notifications.                                                     *)

NotifyTake(t) ==
  /\ pc[t] \in {"idle", "wokenNotice"}
  /\ \/ /\ count[t] > 0
        /\ count' = [count EXCEPT ![t] = @ - 1]
        /\ Go(t, "idle")
     \/ /\ count[t] = 0
        /\ Go(t, "sleepNotice")
        /\ UNCHANGED count
  /\ UNCHANGED <<mutexVars, available, target>>

NotifyTask(t, u) ==
  /\ pc[t] = "idle"
  /\ count[u] < MaxNotify
  /\ count' = [count EXCEPT ![u] = @ + 1]
  /\ target' = [target EXCEPT ![t] = u]
  /\ Go(t, "notified")
  /\ UNCHANGED <<mutexVars, available>>

WakeTask(t) ==
  /\ pc[t] = "notified"
  /\ LET u == target[t]
     IN \/ pc[u] # "sleepNotice" /\ Go(t, "idle")
        \/ /\ pc[u] = "sleepNotice"
           /\ pc' = [pc EXCEPT ![t] = "idle", ![u] = Woken(pc[u])]
  /\ target' = [target EXCEPT ![t] = NoTask]
  /\ UNCHANGED <<mutexVars, available, count>>

\* ulTaskNotifyValueClear(u, ~0u); with no bits it only reads.
ClearNotices(t, u) ==
  /\ pc[t] = "idle"
  /\ count' = [count EXCEPT ![u] = 0]
  /\ UNCHANGED <<pc, mutexVars, available, target>>

-----------------------------------------------------------------------------
MutexStep(t) ==
  \/ LockMutex(t) \/ NameHolder(t) \/ CountHold(t)
  \/ GiveMutex(t) \/ ClearHolder(t) \/ UnlockMutex(t) \/ PeekMutex(t)

TokenStep(t) ==
  \/ TakeToken(t) \/ LookAgain(t) \/ Expire(t)
  \/ GiveToken(t) \/ WakeTaker(t) \/ Spurious(t)

NoticeStep(t) ==
  \/ NotifyTake(t) \/ WakeTask(t)
  \/ \E u \in Tasks : NotifyTask(t, u) \/ ClearNotices(t, u)

Next == \E t \in Tasks : MutexStep(t) \/ TokenStep(t) \/ NoticeStep(t)

Spec == Init /\ [][Next]_vars

\* A thread that can run runs, and a deadline passes.  Nobody has to make a
\* call, give the mutex back or send anything.
Fairness ==
  \A t \in Tasks :
    /\ WF_vars(LookAgain(t))
    /\ WF_vars(WakeTaker(t))
    /\ WF_vars(WakeTask(t))
    /\ WF_vars(pc[t] = "wokenNotice" /\ NotifyTake(t))
    /\ WF_vars(Expire(t))

FairSpec == Spec /\ Fairness

-----------------------------------------------------------------------------
TypeOK ==
  /\ pc \in [Tasks -> Places]
  /\ owner \in Tasks \cup {NoTask}
  /\ depth \in 0..MaxDepth
  /\ holder \in Tasks \cup {NoTask}
  /\ holdCount \in 0..MaxDepth
  /\ available \in BOOLEAN
  /\ count \in [Tasks -> 0..MaxNotify]
  /\ target \in [Tasks -> Tasks \cup {NoTask}]

\* The shim's calls are the firmware's operations, each at one moment: nobody
\* takes a token twice, gives up beside one or sleeps on beside one, although
\* notify_one() wakes one task only and comes after the lock was let go.
Promised == INSTANCE SyncObjects WITH
  token   <- available,
  asking  <- [t \in Tasks |->
                CASE pc[t] \in {"sleepForever", "wokenForever"} -> "forever"
                  [] pc[t] \in {"sleepTimed", "wokenTimed"}     -> "timed"
                  [] OTHER -> "no"],
  pending <- count,
  napping <- {t \in Tasks : pc[t] \in ForNotice}

ImplementsSyncObjects == Promised!Spec

=============================================================================
