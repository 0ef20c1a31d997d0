------------------------- MODULE FreeRtosSyncProofs -------------------------
(***************************************************************************)
(* Proofs about FreeRtosSync: type correctness, what the mutex's recorded  *)
(* holder says while nobody locks it to be read, and that every step of    *)
(* the shim is a step of SyncObjects or changes nothing there.             *)
(***************************************************************************)
EXTENDS FreeRtosSync, TLAPS

-----------------------------------------------------------------------------
(* The inductive invariant.                                                *)

\* A task in the middle of a call that has the mutex owns it.
LockHeld ==
  /\ \A t \in Tasks : pc[t] \in InLock => owner = t
  /\ owner = NoTask <=> depth = 0

\* Between the lock and its count, and between the count and the unlock, the
\* recorded count is one behind the depth.
CountFollows ==
  depth = IF owner # NoTask /\ pc[owner] \in InLock THEN holdCount + 1 ELSE holdCount

\* The owner is named from its first take on until its last give; a task that
\* only tries the lock is not.
OwnerNamed ==
  holder = IF owner = NoTask THEN NoTask
           ELSE IF pc[owner] \in {"locked", "unnamed", "peeking"} /\ holdCount = 0
           THEN NoTask ELSE owner

MutexInv == LockHeld /\ CountFollows /\ OwnerNamed

IInv == TypeOK /\ MutexInv

-----------------------------------------------------------------------------
(* Type correctness and the mutex, which bound each other: the depth is    *)
(* what bounds the count, and the lock what keeps the depth above zero.    *)

LEMMA InvInit == Init => IInv
<1> SUFFICES ASSUME Init PROVE IInv
  OBVIOUS
<1> USE FreeRtosAssumption DEF Init
<1>0. 0 \in 0 .. MaxDepth /\ 0 \in 0 .. MaxNotify /\ "idle" \in Places
  BY DEF Places
<1>1. TypeOK
  BY <1>0 DEF TypeOK
<1>2. MutexInv
  BY DEF MutexInv, LockHeld, CountFollows, OwnerNamed, InLock
<1> QED BY <1>1, <1>2 DEF IInv

LEMMA InvStep == IInv /\ [Next]_vars => IInv'
<1> SUFFICES ASSUME IInv, [Next]_vars PROVE IInv'
  OBVIOUS
<1> USE FreeRtosAssumption
        DEF mutexVars, Go, InLock, ForToken, ForNotice, Places,
            IInv, TypeOK, MutexInv, LockHeld, CountFollows, OwnerNamed
<1>1. ASSUME NEW t \in Tasks, LockMutex(t) PROVE IInv'
  BY <1>1 DEF LockMutex
<1>2. ASSUME NEW t \in Tasks, NameHolder(t) PROVE IInv'
  BY <1>2 DEF NameHolder
<1>3. ASSUME NEW t \in Tasks, CountHold(t) PROVE IInv'
  BY <1>3 DEF CountHold
<1>4. ASSUME NEW t \in Tasks, GiveMutex(t) PROVE IInv'
  BY <1>4 DEF GiveMutex
<1>5. ASSUME NEW t \in Tasks, ClearHolder(t) PROVE IInv'
  BY <1>5 DEF ClearHolder
<1>6. ASSUME NEW t \in Tasks, UnlockMutex(t) PROVE IInv'
  BY <1>6 DEF UnlockMutex
<1>7. ASSUME NEW t \in Tasks, PeekMutex(t) PROVE IInv'
  BY <1>7 DEF PeekMutex
<1>8. ASSUME NEW t \in Tasks, TakeToken(t) PROVE IInv'
  BY <1>8 DEF TakeToken
<1>9. ASSUME NEW t \in Tasks, LookAgain(t) PROVE IInv'
  BY <1>9 DEF LookAgain
<1>10. ASSUME NEW t \in Tasks, Expire(t) PROVE IInv'
  BY <1>10 DEF Expire
<1>11. ASSUME NEW t \in Tasks, GiveToken(t) PROVE IInv'
  BY <1>11 DEF GiveToken
<1>12. ASSUME NEW t \in Tasks, WakeTaker(t) PROVE IInv'
  BY <1>12 DEF WakeTaker, Woken
<1>13. ASSUME NEW t \in Tasks, Spurious(t) PROVE IInv'
  BY <1>13 DEF Spurious, Woken
<1>14. ASSUME NEW t \in Tasks, NotifyTake(t) PROVE IInv'
  BY <1>14 DEF NotifyTake
<1>15. ASSUME NEW t \in Tasks, NEW u \in Tasks, NotifyTask(t, u) PROVE IInv'
  BY <1>15 DEF NotifyTask
<1>16. ASSUME NEW t \in Tasks, WakeTask(t) PROVE IInv'
  BY <1>16 DEF WakeTask, Woken
<1>17. ASSUME NEW t \in Tasks, NEW u \in Tasks, ClearNotices(t, u) PROVE IInv'
  BY <1>17 DEF ClearNotices
<1>18. ASSUME UNCHANGED vars PROVE IInv'
  BY <1>18 DEF vars
<1> QED
  BY <1>1, <1>2, <1>3, <1>4, <1>5, <1>6, <1>7, <1>8, <1>9, <1>10, <1>11, <1>12,
     <1>13, <1>14, <1>15, <1>16, <1>17, <1>18 DEF Next, MutexStep, TokenStep, NoticeStep

LEMMA Inductive == Spec => []IInv
BY InvInit, InvStep, PTL DEF Spec

\* TypeCorrect: the counts of the mutex and of the notifications stay within
\* their bounds and every variable keeps its type.
THEOREM TypeCorrect == Spec => []TypeOK
<1>1. IInv => TypeOK
  BY DEF IInv
<1> QED BY <1>1, Inductive, PTL

\* HolderTellsTheTruth: xSemaphoreGetMutexHolder() reads the holder without the
\* lock, and yet a task that is not in the middle of a call always learns from
\* it whether it has the mutex itself.
THEOREM HolderTellsTheTruth ==
  Spec => [](\A t \in Tasks : pc[t] \notin InLock => (SaysMine(t) <=> owner = t))
<1>1. IInv => \A t \in Tasks : pc[t] \notin InLock => (SaysMine(t) <=> owner = t)
  BY FreeRtosAssumption
     DEF IInv, MutexInv, LockHeld, OwnerNamed, TypeOK, InLock, SaysMine
<1> QED BY <1>1, Inductive, PTL

\* NobodyBargesIn: the mutex changes hands only through being free, and only
\* the task that has it takes part in its counts.
THEOREM NobodyBargesIn ==
  Spec => [][/\ owner # NoTask => owner' \in {owner, NoTask}
             /\ <<depth, holder, holdCount>>' # <<depth, holder, holdCount>> =>
                  \E t \in Tasks : t \in {owner, owner'} /\ MutexStep(t)]_vars
<1> DEFINE Act == /\ owner # NoTask => owner' \in {owner, NoTask}
                  /\ <<depth, holder, holdCount>>' # <<depth, holder, holdCount>> =>
                       \E t \in Tasks : t \in {owner, owner'} /\ MutexStep(t)
<1>1. IInv /\ [Next]_vars => [Act]_vars
  <2> SUFFICES ASSUME IInv, Next PROVE Act
    BY DEF vars
  <2>1. ASSUME NEW t \in Tasks, MutexStep(t) PROVE Act
    <3>1. t \in {owner, owner'} /\ (owner # NoTask => owner' \in {owner, NoTask})
      BY <2>1 DEF IInv, MutexInv, LockHeld, InLock, MutexStep, LockMutex, NameHolder,
                  CountHold, GiveMutex, ClearHolder, UnlockMutex, PeekMutex
    <3> QED BY <2>1, <3>1
  <2>2. ASSUME NEW t \in Tasks, TokenStep(t) \/ NoticeStep(t) PROVE Act
    <3>1. UNCHANGED mutexVars
      BY <2>2 DEF TokenStep, TakeToken, LookAgain, Expire, GiveToken, WakeTaker, Spurious,
                  NoticeStep, NotifyTake, WakeTask, NotifyTask, ClearNotices
    <3> QED BY <3>1 DEF mutexVars
  <2> QED BY <2>1, <2>2 DEF Next
<1> QED BY <1>1, Inductive, PTL DEF Spec

-----------------------------------------------------------------------------
(* The refinement.                                                         *)

\* How a task's place maps to its request for the token.
AskingAt(place) ==
  CASE place \in {"sleepForever", "wokenForever"} -> "forever"
    [] place \in {"sleepTimed", "wokenTimed"}     -> "timed"
    [] OTHER -> "no"

asking == [t \in Tasks |-> AskingAt(pc[t])]
napping == {t \in Tasks : pc[t] \in ForNotice}

LEMMA Mapped ==
  /\ UNCHANGED <<owner, depth, available, asking, count, napping>> =>
       UNCHANGED Promised!vars
  /\ Promised!Init <=>
       /\ owner = NoTask /\ depth = 0 /\ available = FALSE
       /\ asking = [t \in Tasks |-> "no"]
       /\ count = [t \in Tasks |-> 0] /\ napping = {}
BY DEF Promised!vars, Promised!Init, asking, napping, AskingAt

LEMMA MappedSteps ==
  ASSUME NEW t \in Tasks
  PROVE
  /\ Promised!Lock(t) <=>
       /\ owner \in {NoTask, t} /\ owner' = t /\ depth' = depth + 1
       /\ UNCHANGED <<available, asking, count, napping>>
  /\ Promised!Unlock(t) <=>
       /\ owner = t /\ depth' = depth - 1
       /\ owner' = IF depth = 1 THEN NoTask ELSE t
       /\ UNCHANGED <<available, asking, count, napping>>
  /\ Promised!Fill <=>
       available' = TRUE /\ UNCHANGED <<owner, depth, asking, count, napping>>
  /\ Promised!Ask(t) <=>
       /\ asking[t] = "no"
       /\ \E how \in {"forever", "timed"} : asking' = [asking EXCEPT ![t] = how]
       /\ UNCHANGED <<owner, depth, available, count, napping>>
  /\ Promised!Grant(t) <=>
       /\ available /\ available' = FALSE /\ asking' = [asking EXCEPT ![t] = "no"]
       /\ UNCHANGED <<owner, depth, count, napping>>
  /\ Promised!Refuse(t) <=>
       /\ asking[t] = "timed" /\ ~available /\ asking' = [asking EXCEPT ![t] = "no"]
       /\ UNCHANGED <<owner, depth, available, count, napping>>
  /\ Promised!Notify(t) <=>
       /\ count' = [count EXCEPT ![t] = @ + 1]
       /\ UNCHANGED <<owner, depth, available, asking, napping>>
  /\ Promised!Nap(t) <=>
       /\ count[t] = 0 /\ napping' = napping \cup {t}
       /\ UNCHANGED <<owner, depth, available, asking, count>>
  /\ Promised!Consume(t) <=>
       /\ count[t] > 0 /\ count' = [count EXCEPT ![t] = @ - 1] /\ napping' = napping \ {t}
       /\ UNCHANGED <<owner, depth, available, asking>>
  /\ Promised!Forget(t) <=>
       /\ count' = [count EXCEPT ![t] = 0]
       /\ UNCHANGED <<owner, depth, available, asking, napping>>
BY DEF Promised!Lock, Promised!Unlock, Promised!Fill, Promised!Ask, Promised!Grant,
       Promised!Refuse, Promised!Notify, Promised!Nap, Promised!Consume, Promised!Forget,
       asking, napping, AskingAt

LEMMA AskingValues ==
  ASSUME NEW place
  PROVE  /\ place \in {"sleepForever", "wokenForever"} => AskingAt(place) = "forever"
         /\ place \in {"sleepTimed", "wokenTimed"} => AskingAt(place) = "timed"
         /\ place \notin ForToken => AskingAt(place) = "no"
BY DEF AskingAt, ForToken

\* Goes: what the abstract waiters see of a task that goes somewhere else.
LEMMA Goes ==
  ASSUME TypeOK, NEW t \in Tasks, NEW place, Go(t, place)
  PROVE  /\ asking' = [asking EXCEPT ![t] = AskingAt(place)]
         /\ napping' = IF place \in ForNotice THEN napping \cup {t} ELSE napping \ {t}
<1>1. pc' = [u \in Tasks |-> IF u = t THEN place ELSE pc[u]]
  BY DEF TypeOK, Go
<1>2. asking' = [asking EXCEPT ![t] = AskingAt(place)]
  BY <1>1 DEF asking
<1>3. napping' = IF place \in ForNotice THEN napping \cup {t} ELSE napping \ {t}
  BY <1>1 DEF napping
<1> QED BY <1>2, <1>3

\* Unseen: it sees nothing while everybody waits for the same as before.
SameWait(u, place) ==
  AskingAt(place) = AskingAt(pc[u]) /\ (place \in ForNotice <=> pc[u] \in ForNotice)

LEMMA Unseen ==
  ASSUME \A u \in Tasks : SameWait(u, pc'[u])
  PROVE  asking' = asking /\ napping' = napping
BY DEF asking, napping, SameWait

LEMMA WokenUnseen ==
  ASSUME NEW u \in Tasks, pc[u] \in {"sleepForever", "sleepTimed", "sleepNotice"}
  PROVE  SameWait(u, Woken(pc[u]))
<1>1. CASE pc[u] = "sleepForever"
  BY <1>1, AskingValues DEF SameWait, Woken, ForNotice
<1>2. CASE pc[u] = "sleepTimed"
  BY <1>2, AskingValues DEF SameWait, Woken, ForNotice
<1>3. CASE pc[u] = "sleepNotice"
  BY <1>3, AskingValues DEF SameWait, Woken, ForNotice, ForToken
<1> QED BY <1>1, <1>2, <1>3

\* A task goes from one place where it waits for nothing to another.
Free == {"idle", "gave", "notified"} \cup InLock

LEMMA FreeUnseen ==
  ASSUME NEW u \in Tasks, pc[u] \in Free, NEW place \in Free
  PROVE  SameWait(u, place)
<1>1. Free \cap ForToken = {} /\ Free \cap ForNotice = {}
  BY DEF Free, InLock, ForToken, ForNotice
<1> QED BY <1>1, AskingValues DEF SameWait

-----------------------------------------------------------------------------
(* Every step of the shim is a step of SyncObjects or cannot be seen.      *)

\* MutexSteps: taking and giving the mutex is one step each, at the lock and at
\* the unlock; the bookkeeping around them cannot be seen.
LEMMA MutexSteps ==
  ASSUME IInv, NEW t \in Tasks, MutexStep(t)
  PROVE  Promised!TaskStep(t) \/ UNCHANGED Promised!vars
<1>1. asking' = asking /\ napping' = napping
  <2>1. /\ \A u \in Tasks \ {t} : pc'[u] = pc[u]
        /\ {pc[t], pc'[t]} \subseteq Free
    BY DEF IInv, TypeOK, Go, InLock, Free, MutexStep, LockMutex, NameHolder, CountHold,
           GiveMutex, ClearHolder, UnlockMutex, PeekMutex
  <2> QED BY <2>1, FreeUnseen, Unseen DEF SameWait
<1>2. CASE LockMutex(t) \/ PeekMutex(t)
  <2>1. Promised!Lock(t)
    BY <1>1, <1>2, MappedSteps DEF LockMutex, PeekMutex
  <2> QED BY <2>1 DEF Promised!TaskStep
<1>3. CASE UnlockMutex(t)
  <2>1. owner = t
    BY <1>3 DEF UnlockMutex, IInv, MutexInv, LockHeld, InLock
  <2>2. Promised!Unlock(t)
    BY <1>1, <1>3, <2>1, MappedSteps DEF UnlockMutex
  <2> QED BY <2>2 DEF Promised!TaskStep
<1>4. CASE NameHolder(t) \/ CountHold(t) \/ GiveMutex(t) \/ ClearHolder(t)
  <2>1. UNCHANGED <<owner, depth, available, count>>
    BY <1>4 DEF NameHolder, CountHold, GiveMutex, ClearHolder
  <2> QED BY <1>1, <2>1, Mapped
<1> QED BY <1>2, <1>3, <1>4 DEF MutexStep

\* TokenSteps: a take asks, and is granted the token or refused it at a step
\* that looks; waking up, for whatever reason, cannot be seen.
LEMMA TokenSteps ==
  ASSUME IInv, NEW t \in Tasks, TokenStep(t)
  PROVE  Promised!Next \/ UNCHANGED Promised!vars
<1> USE DEF mutexVars
<1>0. TypeOK /\ asking[t] = AskingAt(pc[t])
  BY DEF IInv, asking
<1>1. CASE TakeToken(t)
  <2>1. asking[t] = "no" /\ pc[t] \notin ForNotice
    BY <1>0, <1>1, AskingValues DEF TakeToken, ForToken, ForNotice
  <2>2. CASE available
    <3>1. asking' = asking /\ napping' = napping
      BY <1>1, <2>2 DEF TakeToken, asking, napping
    <3>2. asking = [asking EXCEPT ![t] = "no"]
      BY <2>1 DEF asking
    <3>3. Promised!Grant(t)
      BY <1>1, <2>2, <3>1, <3>2, MappedSteps DEF TakeToken
    <3> QED BY <3>3 DEF Promised!TaskStep, Promised!Next
  <2>3. CASE ~available
    <3>1. PICK place \in {"sleepForever", "sleepTimed"} : Go(t, place)
      BY <1>1, <2>3 DEF TakeToken
    <3>2. AskingAt(place) \in {"forever", "timed"} /\ place \notin ForNotice
      BY <3>1, AskingValues DEF ForNotice
    <3>3. asking' = [asking EXCEPT ![t] = AskingAt(place)] /\ napping' = napping
      BY <1>0, <2>1, <3>1, <3>2, Goes DEF napping
    <3>4. Promised!Ask(t)
      BY <1>1, <2>1, <2>3, <3>2, <3>3, MappedSteps DEF TakeToken
    <3> QED BY <3>4 DEF Promised!TaskStep, Promised!Next
  <2> QED BY <2>2, <2>3
<1>2. ASSUME pc[t] \in ForToken, Go(t, "idle"), UNCHANGED <<mutexVars, count>>, available' = FALSE,
             available \/ asking[t] = "timed"
      PROVE  Promised!Next
  <2>1. asking' = [asking EXCEPT ![t] = "no"] /\ napping' = napping
    <3>1. AskingAt("idle") = "no" /\ "idle" \notin ForNotice /\ pc[t] \notin ForNotice
      BY <1>2, AskingValues DEF ForToken, ForNotice
    <3> QED BY <1>0, <1>2, <3>1, Goes DEF napping
  <2>2. CASE available
    <3>1. Promised!Grant(t)
      BY <1>2, <2>1, <2>2, MappedSteps
    <3> QED BY <3>1 DEF Promised!TaskStep, Promised!Next
  <2>3. CASE ~available
    <3>1. available' = available
      BY <1>0, <1>2, <2>3 DEF TypeOK
    <3>2. Promised!Refuse(t)
      BY <1>2, <2>1, <2>3, <3>1, MappedSteps
    <3> QED BY <3>2 DEF Promised!TaskStep, Promised!Next
  <2> QED BY <2>2, <2>3
<1>3. ASSUME \A u \in Tasks : SameWait(u, pc'[u]),
             UNCHANGED <<mutexVars, available, count>>
      PROVE  UNCHANGED Promised!vars
  BY <1>3, Unseen, Mapped
<1>4. CASE LookAgain(t)
  <2>1. CASE available
    BY <1>2, <1>4, <2>1 DEF LookAgain, ForToken
  <2>2. CASE ~available
    <3> DEFINE place == IF pc[t] = "wokenForever" THEN "sleepForever" ELSE "sleepTimed"
    <3>1. pc[t] \in {"wokenForever", "wokenTimed"} /\ Go(t, place)
      BY <1>4, <2>2 DEF LookAgain
    <3>2. SameWait(t, place)
      BY <3>1, AskingValues DEF SameWait, ForNotice
    <3>3. \A u \in Tasks : SameWait(u, pc'[u])
      BY <1>0, <3>1, <3>2 DEF Go, TypeOK, SameWait
    <3> QED BY <1>3, <1>4, <2>2, <3>3 DEF LookAgain
  <2> QED BY <2>1, <2>2
<1>5. CASE Expire(t)
  <2>1. asking[t] = "timed"
    BY <1>0, <1>5, AskingValues DEF Expire
  <2> QED BY <1>2, <1>5, <2>1 DEF Expire, ForToken
<1>6. CASE GiveToken(t)
  <2>1. \A u \in Tasks : SameWait(u, pc'[u])
    BY <1>0, <1>6, FreeUnseen DEF GiveToken, Go, TypeOK, Free, SameWait
  <2>2. Promised!Fill
    BY <1>6, <2>1, Unseen, MappedSteps DEF GiveToken
  <2> QED BY <2>2 DEF Promised!Next
<1>7. CASE WakeTaker(t)
  <2>1. ASSUME NEW u \in Tasks, pc[u] \in {"sleepForever", "sleepTimed"},
               pc' = [pc EXCEPT ![t] = "idle", ![u] = Woken(pc[u])]
        PROVE  \A v \in Tasks : SameWait(v, pc'[v])
    <3>1. SameWait(t, "idle")
      BY <1>7, FreeUnseen DEF WakeTaker, Free
    <3>2. SameWait(u, Woken(pc[u]))
      BY <2>1, WokenUnseen
    <3> QED BY <1>0, <2>1, <3>1, <3>2 DEF TypeOK, SameWait
  <2>2. ASSUME Go(t, "idle")
        PROVE  \A v \in Tasks : SameWait(v, pc'[v])
    BY <1>0, <1>7, <2>2, FreeUnseen DEF WakeTaker, Go, TypeOK, Free, SameWait
  <2> QED BY <1>3, <1>7, <2>1, <2>2 DEF WakeTaker
<1>8. CASE Spurious(t)
  <2>1. \A u \in Tasks : SameWait(u, pc'[u])
    BY <1>0, <1>8, WokenUnseen DEF Spurious, Go, TypeOK, SameWait
  <2> QED BY <1>3, <1>8, <2>1 DEF Spurious
<1> QED BY <1>1, <1>4, <1>5, <1>6, <1>7, <1>8 DEF TokenStep

\* NoticeSteps: a notification is consumed where it is counted, and a task lies
\* down only while it has none.
LEMMA NoticeSteps ==
  ASSUME IInv, NEW t \in Tasks, NoticeStep(t)
  PROVE  Promised!Next \/ UNCHANGED Promised!vars
<1> USE DEF mutexVars
<1>0. TypeOK
  BY DEF IInv
<1>1. ASSUME NotifyTake(t) PROVE Promised!TaskStep(t)
  <2>0. /\ AskingAt(pc[t]) = "no" /\ AskingAt("idle") = "no" /\ AskingAt("sleepNotice") = "no"
        /\ "idle" \notin ForNotice /\ "sleepNotice" \in ForNotice
    BY <1>1, AskingValues DEF NotifyTake, ForToken, ForNotice
  <2>a. asking = [asking EXCEPT ![t] = "no"]
    BY <2>0 DEF asking
  <2>1. CASE count[t] > 0
    <3>0. /\ Go(t, "idle") /\ count' = [count EXCEPT ![t] = @ - 1]
          /\ UNCHANGED <<owner, depth, available>>
      BY <1>1, <2>1 DEF NotifyTake
    <3>1. asking' = asking /\ napping' = napping \ {t}
      BY <1>0, <2>0, <2>a, <3>0, Goes
    <3>2. Promised!Consume(t)
      BY <2>1, <3>0, <3>1, MappedSteps
    <3> QED BY <3>2 DEF Promised!TaskStep
  <2>2. CASE count[t] = 0
    <3>0. Go(t, "sleepNotice") /\ UNCHANGED <<owner, depth, available, count>>
      BY <1>1, <2>2 DEF NotifyTake
    <3>1. asking' = asking /\ napping' = napping \cup {t}
      BY <1>0, <2>0, <2>a, <3>0, Goes
    <3>2. Promised!Nap(t)
      BY <2>2, <3>0, <3>1, MappedSteps
    <3> QED BY <3>2 DEF Promised!TaskStep
  <2> QED BY <1>1, <2>1, <2>2 DEF NotifyTake
<1>2. ASSUME WakeTask(t) PROVE UNCHANGED Promised!vars
  <2> DEFINE u == target[t]
  <2>0. SameWait(t, "idle")
    BY <1>2, FreeUnseen DEF WakeTask, Free
  <2>1. \A v \in Tasks : SameWait(v, pc'[v])
    <3>1. CASE pc[u] # "sleepNotice"
      BY <1>0, <1>2, <2>0, <3>1 DEF WakeTask, Go, TypeOK, SameWait
    <3>2. CASE pc[u] = "sleepNotice"
      <4>1. pc' = [pc EXCEPT ![t] = "idle", ![u] = Woken(pc[u])]
        BY <1>2, <3>2 DEF WakeTask
      <4>2. u \in Tasks => SameWait(u, Woken(pc[u]))
        BY <3>2, WokenUnseen
      <4> QED BY <1>0, <2>0, <4>1, <4>2 DEF TypeOK, SameWait
    <3> QED BY <3>1, <3>2
  <2> QED BY <1>2, <2>1, Unseen, Mapped DEF WakeTask
<1>3. ASSUME NEW u \in Tasks, NotifyTask(t, u) PROVE Promised!Next
  <2>1. \A v \in Tasks : SameWait(v, pc'[v])
    BY <1>0, <1>3, FreeUnseen DEF NotifyTask, Go, TypeOK, Free, SameWait
  <2>2. Promised!Notify(u)
    BY <1>3, <2>1, Unseen, MappedSteps DEF NotifyTask
  <2> QED BY <2>2 DEF Promised!TaskStep, Promised!Next
<1>4. ASSUME NEW u \in Tasks, ClearNotices(t, u) PROVE Promised!Next
  <2>1. asking' = asking /\ napping' = napping
    BY <1>4 DEF ClearNotices, asking, napping
  <2>2. Promised!Forget(u)
    BY <1>4, <2>1, MappedSteps DEF ClearNotices
  <2> QED BY <2>2 DEF Promised!TaskStep, Promised!Next
<1> QED BY <1>1, <1>2, <1>3, <1>4 DEF NoticeStep, Promised!Next

\* Implements: seen from outside, the shim's mutex, semaphore and notifications
\* are the operations of FreeRTOS, each at one moment: nobody takes a token
\* twice, is refused one that is there or lies down beside a notification.
THEOREM Implements == Spec => Promised!SafeSpec
<1>1. Init => Promised!Init
  <2> SUFFICES ASSUME Init PROVE Promised!Init
    OBVIOUS
  <2>1. asking = [t \in Tasks |-> "no"] /\ napping = {}
    BY AskingValues DEF Init, asking, napping, ForToken, ForNotice
  <2> QED BY <2>1, Mapped DEF Init
<1>2. IInv /\ [Next]_vars => [Promised!Next]_(Promised!vars)
  <2> SUFFICES ASSUME IInv, [Next]_vars PROVE Promised!Next \/ UNCHANGED Promised!vars
    OBVIOUS
  <2>1. CASE UNCHANGED vars
    BY <2>1, Mapped DEF vars, asking, napping
  <2>2. CASE Next
    BY <2>2, MutexSteps, TokenSteps, NoticeSteps DEF Next, Promised!Next
  <2> QED BY <2>1, <2>2
<1> QED BY <1>1, <1>2, Inductive, PTL DEF Spec, Promised!SafeSpec

=============================================================================
