----------------------------- MODULE SyncObjects -----------------------------
(***************************************************************************)
(* What the firmware may expect of the objects FreeRTOS gives it to wait   *)
(* on: a recursive mutex, a binary semaphore and one notification counter  *)
(* per task.  An operation takes effect in one step, at one moment between *)
(* its call and its return.  FreeRtosSync implements this.                 *)
(***************************************************************************)
EXTENDS Naturals

CONSTANTS
  Tasks,  \* the tasks
  NoTask  \* not a task: no owner

VARIABLES
  owner,   \* the task that has the mutex
  depth,   \* times it has taken it and not given it back
  token,   \* the semaphore is full
  asking,  \* per task: is it waiting for the token, and for how long
  pending, \* per task: notifications not consumed yet
  napping  \* the tasks waiting for a notification

vars == <<owner, depth, token, asking, pending, napping>>

Asking == {"no", "forever", "timed"}

TypeOK ==
  /\ owner \in Tasks \cup {NoTask}
  /\ depth \in Nat
  /\ token \in BOOLEAN
  /\ asking \in [Tasks -> Asking]
  /\ pending \in [Tasks -> Nat]
  /\ napping \subseteq Tasks

Init ==
  /\ owner = NoTask
  /\ depth = 0
  /\ token = FALSE
  /\ asking = [t \in Tasks |-> "no"]
  /\ pending = [t \in Tasks |-> 0]
  /\ napping = {}

Lock(t) ==
  /\ owner \in {NoTask, t}
  /\ owner' = t
  /\ depth' = depth + 1
  /\ UNCHANGED <<token, asking, pending, napping>>

Unlock(t) ==
  /\ owner = t
  /\ depth' = depth - 1
  /\ owner' = IF depth = 1 THEN NoTask ELSE t
  /\ UNCHANGED <<token, asking, pending, napping>>

Fill ==
  /\ token' = TRUE
  /\ UNCHANGED <<owner, depth, asking, pending, napping>>

Ask(t) ==
  /\ asking[t] = "no"
  /\ \E how \in {"forever", "timed"} : asking' = [asking EXCEPT ![t] = how]
  /\ UNCHANGED <<owner, depth, token, pending, napping>>

\* One taker gets the token; the next has to wait for the next give.
Grant(t) ==
  /\ token
  /\ token' = FALSE
  /\ asking' = [asking EXCEPT ![t] = "no"]
  /\ UNCHANGED <<owner, depth, pending, napping>>

\* A take gives up only if it has a deadline, and only while there is no token.
Refuse(t) ==
  /\ asking[t] = "timed"
  /\ ~token
  /\ asking' = [asking EXCEPT ![t] = "no"]
  /\ UNCHANGED <<owner, depth, token, pending, napping>>

Notify(t) ==
  /\ pending' = [pending EXCEPT ![t] = @ + 1]
  /\ UNCHANGED <<owner, depth, token, asking, napping>>

Nap(t) ==
  /\ pending[t] = 0
  /\ napping' = napping \cup {t}
  /\ UNCHANGED <<owner, depth, token, asking, pending>>

Consume(t) ==
  /\ pending[t] > 0
  /\ pending' = [pending EXCEPT ![t] = @ - 1]
  /\ napping' = napping \ {t}
  /\ UNCHANGED <<owner, depth, token, asking>>

Forget(t) ==
  /\ pending' = [pending EXCEPT ![t] = 0]
  /\ UNCHANGED <<owner, depth, token, asking, napping>>

TaskStep(t) ==
  \/ Lock(t) \/ Unlock(t)
  \/ Ask(t) \/ Grant(t) \/ Refuse(t)
  \/ Notify(t) \/ Nap(t) \/ Consume(t) \/ Forget(t)

Next == Fill \/ \E t \in Tasks : TaskStep(t)

\* A token does not lie beside a task that waits for one, a take with a
\* deadline ends, and a notified task wakes.
Fairness ==
  /\ WF_vars(\E t \in Tasks : asking[t] # "no" /\ Grant(t))
  /\ \A t \in Tasks :
       /\ WF_vars(asking[t] = "timed" /\ (Grant(t) \/ Refuse(t)))
       /\ WF_vars(t \in napping /\ Consume(t))

SafeSpec == Init /\ [][Next]_vars
Spec == SafeSpec /\ Fairness

=============================================================================
