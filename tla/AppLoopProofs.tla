---------------------------- MODULE AppLoopProofs ----------------------------
(***************************************************************************)
(* Proofs about AppLoop: whatever schedules a launch is given, no action   *)
(* of them is run twice through any number of sleeps and wakes, and a wake *)
(* is reported at most once.                                               *)
(***************************************************************************)
EXTENDS AppLoop, WellFoundedInduction, TLAPS

-----------------------------------------------------------------------------
(* Schedules.                                                              *)

Ids(s) == {s[i].id : i \in 1 .. Len(s)}

Distinct(s) == \A i, j \in 1 .. Len(s) : s[i].id = s[j].id => i = j

\* Parted: what is handled and the rest of a schedule have no action in common.
LEMMA Parted ==
  ASSUME NEW s \in Seq(Entry), NEW n \in 0 .. Len(s), Distinct(s)
  PROVE  LET rest == SubSeq(s, n + 1, Len(s))
         IN  /\ rest \in Seq(Entry) /\ Distinct(rest) /\ Ids(rest) \subseteq Ids(s)
             /\ {s[i].id : i \in 1 .. n} \subseteq Ids(s)
             /\ \A x \in Ids(rest) : x \notin {s[i].id : i \in 1 .. n}
<1> DEFINE rest == SubSeq(s, n + 1, Len(s))
<1>1. PICK m \in Nat : m = Len(s)
  OBVIOUS
<1>2. /\ rest \in Seq(Entry) /\ Len(rest) = m - n
      /\ \A i \in 1 .. m - n : rest[i] = s[n + i]
  BY <1>1
<1> HIDE DEF rest
<1>3. \A i \in 1 .. m - n : n + i \in 1 .. m /\ n + i \notin 1 .. n
  BY <1>1
<1>4. Distinct(rest)
  <2> SUFFICES ASSUME NEW i \in 1 .. m - n, NEW j \in 1 .. m - n, rest[i].id = rest[j].id
               PROVE  i = j
    BY <1>2 DEF Distinct
  <2>1. n + i = n + j
    BY <1>1, <1>2, <1>3 DEF Distinct
  <2> QED BY <1>1, <2>1
<1>5. Ids(rest) \subseteq Ids(s)
  BY <1>1, <1>2, <1>3 DEF Ids
<1>6. {s[i].id : i \in 1 .. n} \subseteq Ids(s)
  <2>1. 1 .. n \subseteq 1 .. m
    BY <1>1
  <2> QED BY <1>1, <2>1 DEF Ids
<1>7. ASSUME NEW x \in Ids(rest), x \in {s[i].id : i \in 1 .. n}
      PROVE  FALSE
  <2>1. PICK i \in 1 .. m - n : x = s[n + i].id
    BY <1>2 DEF Ids
  <2>2. PICK j \in 1 .. n : x = s[j].id
    BY <1>7
  <2>3. n + i \in 1 .. m /\ j \in 1 .. m /\ n + i # j
    BY <1>1
  <2> QED BY <1>1, <2>1, <2>2, <2>3 DEF Distinct
<1> QED BY <1>2, <1>4, <1>5, <1>6, <1>7 DEF rest

-----------------------------------------------------------------------------
(* The rest of the types.                                                  *)

\* LeastOf: a set of numbers that has one has a least one.
LEMMA LeastOf ==
  ASSUME NEW T \in SUBSET Nat, T # {}
  PROVE  \E n \in T : \A m \in T : n <= m
<1>1. PICK n \in T : \A m \in T : <<m, n>> \notin OpToRel(<, Nat)
  <2> DEFINE R == OpToRel(<, Nat)
  <2>1. IsWellFoundedOn(R, Nat)
    BY NatLessThanWellFounded
  <2> HIDE DEF R
  <2>2. \E x \in T : \A y \in T : ~(<<y, x>> \in R)
    BY <2>1, WFMin
  <2> QED BY <2>2 DEF R
<1>2. \A m \in T : ~(m < n)
  BY <1>1 DEF OpToRel
<1> QED BY <1>2

\* FirstIsOne: the event that ends the sleep is one of the queue.
LEMMA FirstIsOne ==
  ASSUME queue \in Seq(Events), ~NoEnding
  PROVE  FirstEnding \in 1 .. Len(queue)
<1> DEFINE T == {i \in 1 .. Len(queue) : EndsSleep(queue[i])}
<1>1. DOMAIN queue = 1 .. Len(queue) /\ Len(queue) \in Nat
  OBVIOUS
<1>2. T \in SUBSET Nat /\ T # {}
  BY <1>1 DEF NoEnding
<1>3. PICK n \in T : \A m \in T : n <= m
  BY <1>2, LeastOf
<1>4. EndsSleep(queue[n]) /\ \A j \in 1 .. n - 1 : ~EndsSleep(queue[j])
  <2>1. \A j \in 1 .. n - 1 : j \in 1 .. Len(queue) /\ ~(n <= j)
    BY <1>1
  <2> QED BY <1>3, <2>1
<1>5. FirstEnding \in DOMAIN queue
  BY <1>1, <1>4 DEF FirstEnding
<1> QED BY <1>1, <1>5

Places == {"setup", "top", "frame", "asleep", "asleepPoll", "exited"}

Held ==
  /\ at \in Places /\ queue \in Seq(Events)
  /\ quit \in BOOLEAN /\ backgrounded \in BOOLEAN /\ level \in BOOLEAN
  /\ foreground \in BOOLEAN

LEMMA HeldStep == Held /\ [Next]_vars => Held'
<1> SUFFICES ASSUME Held, [Next]_vars
             PROVE  Held'
  OBVIOUS
<1> USE DEF Held, Places, world, history
<1>1. ASSUME NEW e \in Events, Push(e)
      PROVE  queue' \in Seq(Events)
  BY <1>1 DEF Push
<1>2. CASE UserEvent
  BY <1>1, <1>2 DEF UserEvent, Events
<1>3. CASE SwitchApp
  <2>1. "willBackground" \in Events /\ "didForeground" \in Events
    BY DEF Events
  <2> QED BY <1>1, <1>3, <2>1 DEF SwitchApp
<1>4. CASE AskWakeReason \/ EndSetup \/ Top \/ EndLoop \/ Sleep \/ UNCHANGED vars
  BY <1>4 DEF AskWakeReason, EndSetup, Top, EndLoop, Sleep, vars
<1>5. BackgroundedAfter(queue) \in BOOLEAN
  BY DEF BackgroundedAfter
<1>6. ASSUME NEW s, NEW l \in BOOLEAN
      PROVE  LevelAfter(s, l) \in BOOLEAN
  <2> DEFINE moves == SelectSeq(s, MovesLevel)
  <2>1. CASE moves = <<>>
    <3>1. LevelAfter(s, l) = l
      BY <2>1, Zenon DEF LevelAfter
    <3> QED BY <3>1
  <2>2. CASE moves # <<>>
    <3>1. LevelAfter(s, l) = IsPress(moves[Len(moves)])
      BY <2>2, Zenon DEF LevelAfter
    <3>2. IsPress(moves[Len(moves)]) \in BOOLEAN
      <4> DEFINE last == moves[Len(moves)]
      <4> HIDE DEF moves, last
      <4>1. IsPress(last) \in BOOLEAN
        <5>1. IsPress(last) = TRUE \/ IsPress(last) = FALSE
          BY DEF IsPress
        <5> QED BY <5>1, Zenon
      <4> QED BY <4>1 DEF last
    <3> QED BY <3>1, <3>2, Zenon
  <2> QED BY <2>1, <2>2
<1>7. CASE Update
  <2>1. PICK n \in 0 .. Len(script) :
          /\ quit' = (quit \/ Queued("quit") \/ Runs(Prefix(n), "Quit"))
          /\ level' = LevelAfter(Prefix(n), level \/ Queued("s"))
    BY <1>7 DEF Update
  <2>2. quit' \in BOOLEAN
    BY <2>1, Zenon
  <2>3. level' \in BOOLEAN
    <3>1. (level \/ Queued("s")) \in BOOLEAN
      OBVIOUS
    <3> QED BY <1>6, <2>1, <3>1
  <2>4. queue' = <<>> /\ backgrounded' = BackgroundedAfter(queue) /\ UNCHANGED <<at, foreground>>
    BY <1>7 DEF Update
  <2> QED BY <1>5, <2>2, <2>3, <2>4
<1>8. ASSUME Reboot
      PROVE  /\ at' \in Places /\ queue' \in Seq(Events) /\ quit' \in BOOLEAN
             /\ backgrounded' \in BOOLEAN /\ level' \in BOOLEAN
  <2>1. at' \in Places /\ queue' = <<>>
    BY <1>8 DEF Reboot
  <2>2. quit' \in BOOLEAN
    BY <1>8 DEF Reboot
  <2>3. backgrounded' \in BOOLEAN
    BY <1>8 DEF Reboot
  <2>4. level' \in BOOLEAN
    BY <1>8 DEF Reboot
  <2>5. queue' \in Seq(Events)
    BY <2>1
  <2> QED BY <2>1, <2>2, <2>3, <2>4, <2>5
<1>9. CASE SleepScript
  <2>1. PICK n \in 0 .. Len(script) :
          \/ Reboot
          \/ /\ at' \in Places /\ (quit' = TRUE \/ quit' = quit)
             /\ (level' = LevelAfter(Prefix(n), level) \/ level' = FALSE)
             /\ UNCHANGED <<queue, backgrounded>>
    BY <1>9 DEF SleepScript
  <2>2. foreground' = foreground
    BY <1>9 DEF SleepScript
  <2>3. CASE Reboot
    BY <1>8, <2>2, <2>3
  <2>4. CASE /\ at' \in Places /\ (quit' = TRUE \/ quit' = quit)
             /\ (level' = LevelAfter(Prefix(n), level) \/ level' = FALSE)
             /\ UNCHANGED <<queue, backgrounded>>
    <3>1. LevelAfter(Prefix(n), level) \in BOOLEAN
      BY <1>6
    <3>2. level' \in BOOLEAN
      BY <2>4, <3>1, Zenon
    <3>3. quit' \in BOOLEAN
      BY <2>4
    <3> QED BY <2>2, <2>4, <3>2, <3>3
  <2> QED BY <2>1, <2>3, <2>4
<1>10. CASE SleepPoll
  <2>1. foreground' = foreground
    BY <1>10 DEF SleepPoll
  <2>2. CASE Reboot
    BY <1>8, <2>1, <2>2
  <2>3. CASE ~Reboot
    <3>1. /\ at' \in Places /\ (quit' = TRUE \/ quit' = quit)
          /\ UNCHANGED <<backgrounded, level>>
          /\ \/ queue' = <<>>
             \/ NoEnding = FALSE /\ queue' = SubSeq(queue, FirstEnding + 1, Len(queue))
      BY <1>10, <2>3 DEF SleepPoll
    <3>2. quit' \in BOOLEAN
      BY <3>1
    <3>3. NoEnding = FALSE => FirstEnding \in 1 .. Len(queue)
      BY FirstIsOne DEF Held
    <3>4. queue' \in Seq(Events)
      <4>2. CASE queue' = <<>>
        BY <4>2
      <4>1. \A k \in 1 .. Len(queue) : SubSeq(queue, k + 1, Len(queue)) \in Seq(Events)
        OBVIOUS
      <4>3. CASE queue' # <<>>
        <5>1. NoEnding = FALSE /\ queue' = SubSeq(queue, FirstEnding + 1, Len(queue))
          BY <3>1, <4>3
        <5> QED BY <3>3, <4>1, <5>1
      <4> QED BY <4>2, <4>3
    <3> QED BY <2>1, <3>1, <3>2, <3>4
  <2> QED BY <2>2, <2>3
<1> QED BY <1>2, <1>3, <1>4, <1>7, <1>9, <1>10 DEF Next, World, Main

-----------------------------------------------------------------------------
(* The inductive invariant.                                                *)

\* What this process and the next one have left to run was not run and is not
\* shared between them; a wake is told of by a variable or was told of.
Carried ==
  /\ script \in Seq(Entry) /\ env.afterWake \in Seq(Entry)
  /\ Distinct(script) /\ Distinct(env.afterWake)
  /\ \A x \in Ids(script) : x \notin fired /\ x \notin Ids(env.afterWake)
  /\ \A x \in Ids(env.afterWake) : x \notin fired

Scripted == Ids(InputScript) \cup Ids(AfterWake)

Known ==
  /\ env \in [script : Seq(Entry), afterWake : Seq(Entry), wake : BOOLEAN]
  /\ fired \cup Ids(script) \cup Ids(env.afterWake) \subseteq Scripted

Wakes ==
  /\ reports \in Nat /\ woken \in BOOLEAN
  /\ env.wake => woken /\ reports = 0
  /\ reports <= (IF woken THEN 1 ELSE 0)

AppInv == Known /\ Carried /\ Wakes

LEMMA AppInit == Init => AppInv
<1> SUFFICES ASSUME Init
             PROVE  AppInv
  OBVIOUS
<1>1. /\ script = InputScript /\ env = [script |-> InputScript, afterWake |-> AfterWake, wake |-> FALSE]
      /\ fired = {} /\ reports = 0 /\ woken = FALSE
  BY DEF Init
<1>2. InputScript \in Seq(Entry) /\ AfterWake \in Seq(Entry)
  BY AppAssumption
<1>3. Distinct(InputScript) /\ Distinct(AfterWake)
  BY <1>2, NumberedApart DEF Distinct
<1>4. \A x \in Ids(InputScript) : x \notin Ids(AfterWake)
  BY <1>2, NumberedApart DEF Ids
<1>5. Known
  <2>1. fired \cup Ids(script) \cup Ids(env.afterWake) \subseteq Scripted
    BY <1>1 DEF Scripted
  <2>2. env \in [script : Seq(Entry), afterWake : Seq(Entry), wake : BOOLEAN]
    BY <1>1, <1>2
  <2> QED BY <2>1, <2>2 DEF Known
<1>6. Wakes
  <2>1. ~env.wake
    BY <1>1
  <2>2. reports \in Nat /\ reports <= (IF woken THEN 1 ELSE 0)
    BY <1>1
  <2>3. woken \in BOOLEAN
    BY <1>1
  <2> QED BY <2>1, <2>2, <2>3 DEF Wakes
<1>7. Carried
  BY <1>1, <1>2, <1>3, <1>4 DEF Carried
<1> QED BY <1>5, <1>6, <1>7 DEF AppInv

\* RunSome: some of the schedule is run and nothing else of it changes.
LEMMA RunSome ==
  ASSUME AppInv, NEW n \in 0 .. Len(script), Handled(n), script' = Rest(n),
         UNCHANGED <<env, woken, reports>>
  PROVE  AppInv'
<1>1. /\ script' \in Seq(Entry) /\ Distinct(script') /\ Ids(script') \subseteq Ids(script)
      /\ {script[i].id : i \in 1 .. n} \subseteq Ids(script)
      /\ \A x \in Ids(script') : x \notin {script[i].id : i \in 1 .. n}
  BY Parted DEF Rest, AppInv, Carried
<1>2. fired' = fired \cup {script[i].id : i \in 1 .. n}
  BY DEF Handled
<1>3. Known' /\ Wakes'
  BY <1>1, <1>2 DEF AppInv, Known, Wakes
<1>4. Carried'
  BY <1>1, <1>2 DEF AppInv, Carried
<1> QED BY <1>3, <1>4 DEF AppInv

\* RunAndReboot: what is left of the schedule is gone with the process.
LEMMA RunAndReboot ==
  ASSUME AppInv, NEW n \in 0 .. Len(script), Handled(n) \/ fired' = fired, Reboot
  PROVE  AppInv'
<1>1. {script[i].id : i \in 1 .. n} \subseteq Ids(script)
  BY Parted DEF AppInv, Carried
<1>2. /\ fired' \subseteq fired \cup Ids(script) /\ reports' = 0 /\ woken' = TRUE
      /\ script' = env.afterWake
      /\ env' = [script |-> env.afterWake, afterWake |-> <<>>, wake |-> TRUE]
  BY <1>1 DEF Handled, Reboot, PromoteAfterWake
<1>3. env'.afterWake = <<>> /\ Ids(<<>>) = {} /\ Distinct(<<>>) /\ <<>> \in Seq(Entry)
  BY <1>2 DEF Ids, Distinct
<1>4. Known' /\ Wakes'
  BY <1>2, <1>3 DEF AppInv, Known, Wakes
<1>5. Carried'
  BY <1>2, <1>3 DEF AppInv, Carried
<1> QED BY <1>4, <1>5 DEF AppInv

LEMMA AppStep == AppInv /\ [Next]_vars => AppInv'
<1> SUFFICES ASSUME AppInv, [Next]_vars
             PROVE  AppInv'
  OBVIOUS
<1> USE DEF world, history
<1>1. CASE UNCHANGED <<script, env, woken, reports, fired>>
  BY <1>1 DEF AppInv, Known, Carried, Wakes
<1>2. CASE AskWakeReason
  <2>1. /\ UNCHANGED <<script, woken, fired>>
        /\ reports' = reports + (IF env.wake THEN 1 ELSE 0) /\ env' = [env EXCEPT !.wake = FALSE]
    BY <1>2 DEF AskWakeReason, ConsumeWakeReason
  <2>2. /\ env' \in [script : Seq(Entry), afterWake : Seq(Entry), wake : BOOLEAN]
        /\ env'.afterWake = env.afterWake /\ env'.wake = FALSE
    BY <2>1 DEF AppInv, Known
  <2>3. Known' /\ Carried'
    BY <2>1, <2>2 DEF AppInv, Known, Carried
  <2>4. Wakes'
    BY <2>1, <2>2 DEF AppInv, Wakes
  <2> QED BY <2>3, <2>4 DEF AppInv
<1>3. CASE Update
  BY <1>3, RunSome DEF Update
<1>4. CASE SleepScript
  <2>1. PICK n \in 0 .. Len(script) :
          /\ Handled(n)
          /\ Reboot \/ (script' = Rest(n) /\ UNCHANGED <<env, woken, reports>>)
    BY <1>4 DEF SleepScript
  <2> QED BY <2>1, RunSome, RunAndReboot
<1>5. CASE SleepPoll
  <2>1. fired' = fired /\ (Reboot \/ UNCHANGED <<script, env, woken, reports, fired>>)
    BY <1>5 DEF SleepPoll
  <2>2. 0 \in 0 .. Len(script)
    BY DEF AppInv, Carried
  <2> QED BY <1>1, <2>1, <2>2, RunAndReboot
<1>6. CASE UserEvent \/ SwitchApp \/ EndSetup \/ Top \/ EndLoop \/ Sleep \/ UNCHANGED vars
  <2>1. UNCHANGED <<script, env, woken, reports, fired>>
    BY <1>6 DEF UserEvent, SwitchApp, EndSetup, Top, EndLoop, Sleep, vars
  <2> QED BY <1>1, <2>1
<1> QED BY <1>2, <1>3, <1>4, <1>5, <1>6 DEF Next, World, Main

\* The variables have their types, and the firmware never learns of a second
\* wake without a relaunch.
THEOREM TypeCorrect == Spec => []TypeOK
<1>1. Init => Held /\ AppInv
  <2>1. Init => at \in Places /\ queue \in Seq(Events)
    BY DEF Init, Places
  <2>2. Init => quit \in BOOLEAN
    BY DEF Init
  <2>3. Init => backgrounded \in BOOLEAN
    BY DEF Init
  <2>4. Init => level \in BOOLEAN
    BY DEF Init
  <2>5. Init => foreground \in BOOLEAN
    BY DEF Init
  <2> QED BY <2>1, <2>2, <2>3, <2>4, <2>5, AppInit DEF Held
<1>2. Held /\ AppInv /\ [Next]_vars => (Held /\ AppInv)'
  BY HeldStep, AppStep
<1>3. Held /\ AppInv => TypeOK
  <2> SUFFICES ASSUME Held, AppInv
               PROVE  TypeOK
    OBVIOUS
  <2>1. {quit, backgrounded, level, foreground, woken, env.wake} \subseteq BOOLEAN
    <3>1. env.wake \in BOOLEAN
      BY DEF AppInv, Known
    <3>2. woken \in BOOLEAN
      BY DEF AppInv, Wakes
    <3> QED BY <3>1, <3>2, Zenon DEF Held
  <2>2. {script, env.script, env.afterWake} \subseteq Seq(Entry)
    BY DEF AppInv, Known, Carried
  <2>3. reports \in 0 .. 1
    BY DEF AppInv, Wakes
  <2>4. fired \subseteq {InputScript[i].id : i \in DOMAIN InputScript}
                     \cup {AfterWake[i].id : i \in DOMAIN AfterWake}
    <3>1. DOMAIN InputScript = 1 .. Len(InputScript) /\ DOMAIN AfterWake = 1 .. Len(AfterWake)
      BY AppAssumption
    <3>2. fired \subseteq Scripted
      BY DEF AppInv, Known
    <3> QED BY <3>1, <3>2 DEF Scripted, Ids
  <2> QED BY <2>1, <2>2, <2>3, <2>4 DEF Held, Places, TypeOK
<1> QED BY <1>1, <1>2, <1>3, PTL DEF Spec

\* No action of a schedule is run a second time, and a power wake is reported at
\* most once per relaunch and never without one.
THEOREM UsedOnce == Spec => []CarriedOverOnce
<1>1. Init => AppInv
  BY AppInit
<1>2. AppInv /\ [Next]_vars => AppInv'
  BY AppStep
<1>3. AppInv => CarriedOverOnce
  BY DEF AppInv, Carried, Wakes, CarriedOverOnce, Ids
<1> QED BY <1>1, <1>2, <1>3, PTL DEF Spec

=============================================================================
