-------------------------- MODULE ButtonInputProofs --------------------------
(***************************************************************************)
(* Proofs about ButtonInput: type correctness, and that the level of a     *)
(* strip key and the edges the firmware sees agree with the finger.        *)
(***************************************************************************)
EXTENDS ButtonInput, TLAPS

-----------------------------------------------------------------------------
(* Type correctness.                                                       *)

LEMMA EventTyping ==
  /\ \A b \in StripButtons, d \in BOOLEAN : Strip(b, d) \in Event
  /\ \A b \in KeyboardButtons, d \in BOOLEAN : Keyboard(b, d) \in Event
  /\ SleepKey => Sleep \in Event
BY ButtonAssumption DEF Strip, Keyboard, Sleep, Event

LEMMA PushTyping ==
  ASSUME TypeOK, NEW e \in Event, Push(e)
  PROVE  queue' \in Seq(Event) /\ toPoll \in 0 .. Len(queue')
BY DEF TypeOK, Push

LEMMA EventFields ==
  ASSUME NEW e \in Event
  PROVE  e.button \in Button /\ e.down \in BOOLEAN
BY ButtonAssumption DEF Event

\* HandleTyping: polling an event keeps every latch a Boolean.
LEMMA HandleTyping ==
  ASSUME TypeOK, NEW e \in Event, Handle(e)
  PROVE  /\ pressed' \in [Button -> BOOLEAN]
         /\ released' \in [Button -> BOOLEAN]
         /\ synthDown' \in [Button -> BOOLEAN]
         /\ releasePending' \in [Button -> BOOLEAN]
         /\ downThisFrame' \in [Button -> BOOLEAN]
<1>0. e.button \in Button /\ Power \in Button
  BY EventFields, ButtonAssumption
<1>1. CASE e.src = "strip" /\ e.down /\ PollStripDown(e.button)
  BY <1>0, <1>1 DEF TypeOK, PollStripDown
<1>2. CASE e.src = "strip" /\ ~e.down /\ PollStripUp(e.button)
  BY <1>0, <1>2 DEF TypeOK, PollStripUp, ApplyButtonUp
<1>3. CASE e.src = "keyboard" /\ PollKeyboard(e.button, e.down)
  BY <1>0, <1>3 DEF TypeOK, PollKeyboard
<1>4. CASE e.src = "sleep" /\ SynthPress(Power)
  BY <1>0, <1>4 DEF TypeOK, SynthPress
<1> QED
  BY <1>1, <1>2, <1>3, <1>4 DEF Handle

LEMMA TypeStep == TypeOK /\ [Next]_vars => TypeOK'
<1> SUFFICES ASSUME TypeOK, [Next]_vars PROVE TypeOK'
  OBVIOUS
<1> USE DEF latches
<1>1. ASSUME NEW b \in Button, StripPress(b) PROVE TypeOK'
  <2>1. Strip(b, TRUE) \in Event
    BY <1>1, EventTyping DEF StripPress
  <2> QED BY <1>1, <2>1, PushTyping DEF StripPress, TypeOK
<1>2. ASSUME NEW b \in Button, StripLift(b) PROVE TypeOK'
  <2>1. Strip(b, FALSE) \in Event
    BY <1>2, EventTyping DEF StripLift
  <2> QED BY <1>2, <2>1, PushTyping DEF StripLift, TypeOK
<1>3. ASSUME NEW b \in Button, KeyboardChange(b) PROVE TypeOK'
  <2> DEFINE d == ~keyLevel[b]
  <2>0. d \in BOOLEAN
    OBVIOUS
  <2> HIDE DEF d
  <2>1. Keyboard(b, d) \in Event
    BY <1>3, <2>0, EventTyping DEF KeyboardChange
  <2> USE DEF d
  <2>2. keyLevel' \in [Button -> BOOLEAN]
    BY <1>3 DEF KeyboardChange, TypeOK
  <2> QED BY <1>3, <2>1, <2>2, PushTyping DEF KeyboardChange, TypeOK
<1>4. ASSUME PressSleepKey PROVE TypeOK'
  BY <1>4, EventTyping, PushTyping DEF PressSleepKey, TypeOK
<1>5. ASSUME BeginUpdate PROVE TypeOK'
  BY <1>5 DEF BeginUpdate, TypeOK, Phases
<1>6. ASSUME PollEvent PROVE TypeOK'
  <2>1. Head(queue) \in Event /\ Tail(queue) \in Seq(Event)
        /\ Len(Tail(queue)) = Len(queue) - 1
    BY <1>6 DEF PollEvent, TypeOK
  <2>2. toPoll' \in 0 .. Len(queue')
    BY <1>6, <2>1 DEF PollEvent, TypeOK
  <2> QED BY <1>6, <2>1, <2>2, HandleTyping DEF PollEvent, TypeOK
<1>7. ASSUME EndPoll PROVE TypeOK'
  BY <1>7 DEF EndPoll, TypeOK, Phases
<1>8. ASSUME NEW b \in Button, ScriptKey(b) PROVE TypeOK'
  BY <1>8 DEF ScriptKey, SynthPress, ApplyButtonUp, TypeOK
<1>9. ASSUME EndUpdate PROVE TypeOK'
  BY <1>9 DEF EndUpdate, TypeOK, Phases
<1>10. ASSUME EndLoop PROVE TypeOK'
  BY <1>10 DEF EndLoop, TypeOK, Phases
<1>11. ASSUME BeginFrame PROVE TypeOK'
  BY <1>11 DEF BeginFrame, TypeOK, Phases, AllOff
<1>12. ASSUME UNCHANGED vars PROVE TypeOK'
  BY <1>12 DEF vars, TypeOK
<1> QED
  BY <1>1, <1>2, <1>3, <1>4, <1>5, <1>6, <1>7, <1>8, <1>9, <1>10, <1>11, <1>12
     DEF Next, User, Main

LEMMA TypeInit == Init => TypeOK
BY DEF Init, TypeOK, Phases, AllOff

\* TypeCorrect: every latch, the queue and the poll budget keep their types in
\* every behaviour, whichever buttons each source presses.
THEOREM TypeCorrect == Spec => []TypeOK
<1> QED BY TypeInit, TypeStep, PTL DEF Spec

-----------------------------------------------------------------------------
(* Sequences of strip events: what appending one, and taking the first,    *)
(* does to Alternates.                                                     *)

LEMMA AppendOther ==
  ASSUME NEW q \in Seq(Event), NEW e \in Event, NEW b,
         NEW lo \in BOOLEAN, NEW hi \in BOOLEAN,
         ~(e.src = "strip" /\ e.button = b),
         Alternates(q, b, lo, hi)
  PROVE  Alternates(Append(q, e), b, lo, hi)
<1>1. StripAt(Append(q, e), b) = StripAt(q, b)
  BY DEF StripAt
<1>2. \A i \in StripAt(q, b) : Append(q, e)[i] = q[i]
  BY DEF StripAt
<1> QED
  BY <1>1, <1>2 DEF Alternates

LEMMA AppendOwn ==
  ASSUME NEW q \in Seq(Event), NEW e \in Event, NEW b,
         NEW lo \in BOOLEAN, NEW hi \in BOOLEAN,
         e.src = "strip", e.button = b, e.down = ~hi,
         Alternates(q, b, lo, hi)
  PROVE  Alternates(Append(q, e), b, lo, ~hi)
<1> DEFINE r == Append(q, e)
           n == Len(q) + 1
           W == StripAt(q, b)
           V == StripAt(r, b)
<1>1. V = W \cup {n} /\ n \in Nat /\ W \subseteq 1 .. Len(q)
  BY DEF StripAt
<1>2. r[n] = e /\ \A i \in W : r[i] = q[i]
  BY DEF StripAt
<1>3. \A i \in W : i < n
  BY <1>1
<1> HIDE DEF r, n, W, V
<1>4. ASSUME NEW i \in V, \A j \in V : j <= i PROVE r[i].down = ~hi
  BY <1>1, <1>2, <1>3, <1>4
<1>5. ASSUME NEW i \in V, \A j \in V : i <= j PROVE r[i].down = ~lo
  <2>1. CASE W = {}
    BY <1>1, <1>2, <1>5, <2>1 DEF Alternates, W
  <2>2. CASE W # {}
    <3>0. PICK w \in W : TRUE
      BY <2>2
    <3>1. i # n
      BY <1>1, <1>3, <1>5, <3>0
    <3>2. i \in W /\ \A j \in W : i <= j
      BY <1>1, <1>5, <3>1
    <3> QED BY <1>2, <3>2 DEF Alternates, W
  <2> QED BY <2>1, <2>2
<1>6. ASSUME NEW i \in V, NEW j \in V, i < j,
             \A k \in V : k <= i \/ j <= k
      PROVE  r[j].down = ~r[i].down
  <2>1. i \in W
    BY <1>1, <1>3, <1>6
  <2>2. CASE j \in W
    <3>1. \A k \in W : k <= i \/ j <= k
      BY <1>1, <1>6
    <3>2. q[j].down = ~q[i].down
      BY <1>6, <2>1, <2>2, <3>1 DEF Alternates, W
    <3> QED BY <1>2, <2>1, <2>2, <3>2
  <2>3. CASE j = n
    <3>1. \A k \in W : k <= i
      BY <1>1, <1>3, <1>6, <2>3
    <3>2. q[i].down = hi
      BY <2>1, <3>1 DEF Alternates, W
    <3> QED BY <1>2, <2>1, <2>3, <3>2
  <2> QED BY <1>1, <2>2, <2>3
<1>7. V # {}
  BY <1>1
<1> QED
  BY <1>4, <1>5, <1>6, <1>7 DEF Alternates, r, V

\* Positions in the tail are positions in q moved down by one.
LEMMA TailShift ==
  ASSUME NEW q \in Seq(Event), q # <<>>, NEW b
  PROVE  /\ \A i \in StripAt(Tail(q), b) :
              i \in Nat /\ i + 1 \in StripAt(q, b) /\ Tail(q)[i] = q[i + 1]
         /\ \A j \in StripAt(q, b) :
              j \in Nat /\ j >= 1 /\ (j # 1 => j - 1 \in StripAt(Tail(q), b))
         /\ 1 \in StripAt(q, b) <=> q[1].src = "strip" /\ q[1].button = b
<1>1. Len(q) \in Nat /\ Len(q) >= 1 /\ Len(Tail(q)) = Len(q) - 1
  OBVIOUS
<1>2. \A i \in 1 .. Len(Tail(q)) : Tail(q)[i] = q[i + 1]
  OBVIOUS
<1> QED
  BY <1>1, <1>2 DEF StripAt

LEMMA TailOther ==
  ASSUME NEW q \in Seq(Event), q # <<>>, NEW b,
         NEW lo \in BOOLEAN, NEW hi \in BOOLEAN,
         ~(Head(q).src = "strip" /\ Head(q).button = b),
         Alternates(q, b, lo, hi)
  PROVE  Alternates(Tail(q), b, lo, hi)
<1> DEFINE W == StripAt(q, b)
           V == StripAt(Tail(q), b)
<1>1. \A i \in V : i \in Nat /\ i + 1 \in W /\ Tail(q)[i] = q[i + 1]
  BY TailShift
<1>2. \A j \in W : j \in Nat /\ j # 1 /\ j - 1 \in V
  <2>1. 1 \notin W
    BY TailShift
  <2> QED BY <2>1, TailShift
<1>7. /\ \A i \in W : (\A j \in W : j <= i) => q[i].down = hi
      /\ \A i \in W : (\A j \in W : i <= j) => q[i].down = ~lo
      /\ \A i, j \in W : (i < j /\ \A k \in W : k <= i \/ j <= k)
                            => q[j].down = ~q[i].down
  BY DEF Alternates
<1> HIDE DEF W, V
<1>3. V = {} => W = {}
  BY <1>2
<1>4. ASSUME NEW i \in V, \A j \in V : j <= i PROVE Tail(q)[i].down = hi
  <2>1. \A j \in W : j <= i + 1
    BY <1>1, <1>2, <1>4
  <2> QED BY <1>1, <2>1, <1>7
<1>5. ASSUME NEW i \in V, \A j \in V : i <= j PROVE Tail(q)[i].down = ~lo
  <2>1. \A j \in W : i + 1 <= j
    BY <1>1, <1>2, <1>5
  <2> QED BY <1>1, <2>1, <1>7
<1>6. ASSUME NEW i \in V, NEW j \in V, i < j,
             \A k \in V : k <= i \/ j <= k
      PROVE  Tail(q)[j].down = ~Tail(q)[i].down
  <2>1. ASSUME NEW k \in W PROVE k <= i + 1 \/ j + 1 <= k
    <3>1. CASE k = 1
      BY <1>1, <3>1
    <3>2. CASE k # 1
      <4>1. k - 1 \in V /\ k \in Nat
        BY <1>2, <3>2
      <4>2. k - 1 <= i \/ j <= k - 1
        BY <1>6, <4>1
      <4> QED BY <1>1, <4>1, <4>2
    <3> QED BY <3>1, <3>2
  <2>2. i + 1 \in W /\ j + 1 \in W /\ i + 1 < j + 1
    BY <1>1, <1>6
  <2>3. q[j + 1].down = ~q[i + 1].down
    BY <2>1, <2>2, <1>7
  <2> QED BY <1>1, <2>3
<1> QED
  BY <1>3, <1>4, <1>5, <1>6 DEF Alternates, V, W

LEMMA TailOwn ==
  ASSUME NEW q \in Seq(Event), q # <<>>, NEW b,
         NEW lo \in BOOLEAN, NEW hi \in BOOLEAN,
         Head(q).src = "strip", Head(q).button = b,
         Alternates(q, b, lo, hi)
  PROVE  Head(q).down = ~lo /\ Alternates(Tail(q), b, ~lo, hi)
<1> DEFINE W == StripAt(q, b)
           V == StripAt(Tail(q), b)
<1>0. Head(q) = q[1]
  OBVIOUS
<1>1. \A i \in V : i \in Nat /\ i + 1 \in W /\ Tail(q)[i] = q[i + 1] /\ i >= 1
  BY TailShift DEF StripAt
<1>2. 1 \in W /\ \A j \in W : j \in Nat /\ j >= 1 /\ (j # 1 => j - 1 \in V)
  BY <1>0, TailShift
<1>8. /\ \A i \in W : (\A j \in W : j <= i) => q[i].down = hi
      /\ \A i \in W : (\A j \in W : i <= j) => q[i].down = ~lo
      /\ \A i, j \in W : (i < j /\ \A k \in W : k <= i \/ j <= k)
                            => q[j].down = ~q[i].down
  BY DEF Alternates
<1> HIDE DEF W, V
<1>3. q[1].down = ~lo
  BY <1>2, <1>8
<1>4. V = {} => ~lo = hi
  <2>1. V = {} => \A j \in W : j <= 1
    BY <1>2
  <2>2. V = {} => q[1].down = hi
    BY <1>2, <2>1, <1>8
  <2> QED BY <1>3, <2>2
<1>5. ASSUME NEW i \in V, \A j \in V : j <= i PROVE Tail(q)[i].down = hi
  <2>1. \A j \in W : j <= i + 1
    BY <1>1, <1>2, <1>5
  <2>2. q[i + 1].down = hi
    BY <1>1, <2>1, <1>8
  <2> QED BY <1>1, <2>2
<1>6. ASSUME NEW i \in V, \A j \in V : i <= j PROVE Tail(q)[i].down = ~(~lo)
  <2>1. \A j \in W : j <= 1 \/ i + 1 <= j
    BY <1>1, <1>2, <1>6
  <2>2. i + 1 \in W /\ 1 < i + 1
    BY <1>1, <1>6
  <2>3. q[i + 1].down = ~q[1].down
    BY <1>2, <2>1, <2>2, <1>8
  <2> QED BY <1>1, <1>3, <2>3
<1>7. ASSUME NEW i \in V, NEW j \in V, i < j,
             \A k \in V : k <= i \/ j <= k
      PROVE  Tail(q)[j].down = ~Tail(q)[i].down
  <2>1. ASSUME NEW k \in W PROVE k <= i + 1 \/ j + 1 <= k
    <3>1. CASE k = 1
      BY <1>1, <3>1
    <3>2. CASE k # 1
      <4>1. k - 1 \in V /\ k \in Nat
        BY <1>2, <3>2
      <4>2. k - 1 <= i \/ j <= k - 1
        BY <1>7, <4>1
      <4> QED BY <1>1, <4>1, <4>2
    <3> QED BY <3>1, <3>2
  <2>2. i + 1 \in W /\ j + 1 \in W /\ i + 1 < j + 1
    BY <1>1, <1>7
  <2>3. q[j + 1].down = ~q[i + 1].down
    BY <2>1, <2>2, <1>8
  <2> QED BY <1>1, <2>3
<1>9. Alternates(Tail(q), b, ~lo, hi)
  BY <1>4, <1>5, <1>6, <1>7 DEF Alternates, V
<1> QED
  BY <1>0, <1>3, <1>9

-----------------------------------------------------------------------------
(* The finger, the queue and the level.                                    *)

LEMMA Owned ==
  /\ StripOnly \subseteq StripOwned
  /\ StripOwned \subseteq Button
  /\ \A b \in StripOwned : b \notin ScriptButtons /\ ~(SleepKey /\ b = Power)
  /\ \A b \in StripOnly : b \notin KeyboardButtons
BY ButtonAssumption DEF StripOnly, StripOwned

\* A push leaves a button's account alone unless it is its own strip event.
LEMMA PushOther ==
  ASSUME TypeOK, FingerAccounted, NEW e \in Event, Push(e),
         UNCHANGED latches, NEW b \in StripOwned, finger'[b] = finger[b],
         ~(e.src = "strip" /\ e.button = b)
  PROVE  Alternates(queue, b, Settled(b), finger[b])'
<1>1. queue \in Seq(Event) /\ Settled(b) \in BOOLEAN /\ finger[b] \in BOOLEAN
  BY Owned DEF TypeOK, Settled
<1>2. Settled(b)' = Settled(b) /\ queue' = Append(queue, e)
  BY DEF Settled, latches, Push
<1>3. Alternates(Append(queue, e), b, Settled(b), finger[b])
  BY <1>1, AppendOther DEF FingerAccounted
<1> QED BY <1>2, <1>3 DEF Alternates

LEMMA PushOwn ==
  ASSUME TypeOK, FingerAccounted, NEW b \in StripOwned, NEW d \in BOOLEAN,
         b \in StripButtons, Push(Strip(b, d)), UNCHANGED latches,
         finger[b] = ~d, finger' = [finger EXCEPT ![b] = d]
  PROVE  Alternates(queue, b, Settled(b), finger[b])'
<1>1. queue \in Seq(Event) /\ Settled(b) \in BOOLEAN /\ finger[b] \in BOOLEAN
  BY Owned DEF TypeOK, Settled
<1>2. Settled(b)' = Settled(b) /\ queue' = Append(queue, Strip(b, d))
  BY DEF Settled, latches, Push
<1> DEFINE e  == Strip(b, d)
           lo == Settled(b)
           hi == finger[b]
<1>3. e \in Event /\ e.src = "strip" /\ e.button = b /\ e.down = ~hi
  BY EventTyping DEF Strip
<1>a. Alternates(queue, b, lo, hi) /\ lo \in BOOLEAN /\ hi \in BOOLEAN
  BY <1>1 DEF FingerAccounted
<1> HIDE DEF e, lo, hi
<1>b. Alternates(Append(queue, e), b, lo, ~hi)
  BY <1>1, <1>3, <1>a, AppendOwn
<1> USE DEF e, lo, hi
<1>4. Alternates(Append(queue, Strip(b, d)), b, Settled(b), ~finger[b])
  BY <1>b
<1>5. finger'[b] = ~finger[b]
  BY Owned DEF TypeOK
<1> QED BY <1>2, <1>4, <1>5 DEF Alternates

\* Polling an event moves a strip-owned level only by the button's own strip
\* events, and then as the event says.
LEMMA HandleSettles ==
  ASSUME TypeOK, HeldBackOnlyWhileDown, NEW e \in Event, Handle(e),
         NEW b \in StripOwned
  PROVE  /\ e.src = "strip" /\ e.button = b => Settled(b)' = e.down
         /\ ~(e.src = "strip" /\ e.button = b) => Settled(b)' = Settled(b)
<1>0. b \in Button /\ e.button \in Button /\ e.down \in BOOLEAN
      /\ Power \in Button
  BY Owned, EventFields, ButtonAssumption
<1>1. CASE e.src = "strip" /\ e.down /\ PollStripDown(e.button)
  BY <1>0, <1>1 DEF TypeOK, PollStripDown, Settled
<1>2. CASE e.src = "strip" /\ ~e.down /\ PollStripUp(e.button)
  BY <1>0, <1>2 DEF TypeOK, PollStripUp, ApplyButtonUp, Settled
<1>3. CASE e.src = "keyboard" /\ PollKeyboard(e.button, e.down)
  BY <1>0, <1>3 DEF TypeOK, PollKeyboard, Settled
<1>4. CASE e.src = "sleep" /\ SynthPress(Power)
  <2>1. SleepKey
    BY <1>4 DEF Event
  <2>2. b # Power
    BY <2>1, Owned
  <2> QED BY <1>0, <1>4, <2>2 DEF TypeOK, SynthPress, Settled
<1> QED BY <1>1, <1>2, <1>3, <1>4 DEF Handle

LEMMA AccountStep ==
  ASSUME TypeOK, FingerAccounted, HeldBackOnlyWhileDown, [Next]_vars
  PROVE  FingerAccounted'
<1> SUFFICES ASSUME NEW b \in StripOwned
             PROVE  Alternates(queue, b, Settled(b), finger[b])'
  BY DEF FingerAccounted
<1>a. Alternates(queue, b, Settled(b), finger[b])
  BY DEF FingerAccounted
<1>b. b \in Button
  BY Owned
<1>c. ASSUME UNCHANGED <<queue, finger>>, Settled(b)' = Settled(b)
      PROVE  Alternates(queue, b, Settled(b), finger[b])'
  BY <1>a, <1>c DEF Alternates
<1>1. ASSUME NEW c \in Button, StripPress(c)
      PROVE  Alternates(queue, b, Settled(b), finger[b])'
  <2>1. CASE c = b
    <3>1. /\ b \in StripButtons /\ Push(Strip(b, TRUE)) /\ UNCHANGED latches
          /\ finger[b] = ~TRUE /\ finger' = [finger EXCEPT ![b] = TRUE]
      BY <1>1, <1>b, <2>1 DEF StripPress, TypeOK
    <3> QED BY <3>1, PushOwn
  <2>2. CASE c # b
    <3>1. Strip(c, TRUE) \in Event /\ Strip(c, TRUE).button = c
      BY <1>1, EventTyping DEF StripPress, Strip
    <3>2. finger'[b] = finger[b] /\ UNCHANGED latches /\ Push(Strip(c, TRUE))
      BY <1>1, <1>b, <2>2 DEF StripPress, TypeOK
    <3> QED BY <2>2, <3>1, <3>2, PushOther
  <2> QED BY <2>1, <2>2
<1>2. ASSUME NEW c \in Button, StripLift(c)
      PROVE  Alternates(queue, b, Settled(b), finger[b])'
  <2>1. CASE c = b
    <3>1. /\ b \in StripButtons /\ Push(Strip(b, FALSE)) /\ UNCHANGED latches
          /\ finger[b] = ~FALSE /\ finger' = [finger EXCEPT ![b] = FALSE]
      BY <1>2, <1>b, <2>1 DEF StripLift, TypeOK
    <3> QED BY <3>1, PushOwn
  <2>2. CASE c # b
    <3>1. Strip(c, FALSE) \in Event /\ Strip(c, FALSE).button = c
      BY <1>2, EventTyping DEF StripLift, Strip
    <3>2. finger'[b] = finger[b] /\ UNCHANGED latches /\ Push(Strip(c, FALSE))
      BY <1>2, <1>b, <2>2 DEF StripLift, TypeOK
    <3> QED BY <2>2, <3>1, <3>2, PushOther
  <2> QED BY <2>1, <2>2
<1>3. ASSUME NEW c \in Button, KeyboardChange(c)
      PROVE  Alternates(queue, b, Settled(b), finger[b])'
  <2> DEFINE d == ~keyLevel[c]
  <2>0. d \in BOOLEAN
    OBVIOUS
  <2>1. finger' = finger /\ UNCHANGED latches /\ Push(Keyboard(c, d))
        /\ c \in KeyboardButtons
    BY <1>3 DEF KeyboardChange
  <2> HIDE DEF d
  <2>2. Keyboard(c, d) \in Event /\ Keyboard(c, d).src = "keyboard"
    BY <2>0, <2>1, EventTyping DEF Keyboard
  <2> QED BY <2>1, <2>2, PushOther
<1>4. ASSUME PressSleepKey
      PROVE  Alternates(queue, b, Settled(b), finger[b])'
  <2>1. Sleep \in Event /\ Sleep.src = "sleep"
    BY <1>4, EventTyping DEF PressSleepKey, Sleep
  <2>2. finger' = finger /\ UNCHANGED latches /\ Push(Sleep)
    BY <1>4 DEF PressSleepKey
  <2> QED BY <2>1, <2>2, PushOther
<1>5. ASSUME PollEvent
      PROVE  Alternates(queue, b, Settled(b), finger[b])'
  <2> DEFINE e == Head(queue)
  <2>1. /\ queue \in Seq(Event) /\ queue # <<>> /\ e \in Event
        /\ queue' = Tail(queue) /\ Handle(e) /\ finger' = finger
        /\ Settled(b) \in BOOLEAN /\ finger[b] \in BOOLEAN
    BY <1>5, <1>b DEF PollEvent, TypeOK, Settled
  <2>2. CASE e.src = "strip" /\ e.button = b
    <3> DEFINE lo == ~Settled(b)
    <3>1. e.down = lo /\ Alternates(Tail(queue), b, lo, finger[b])
      BY <1>a, <2>1, <2>2, TailOwn
    <3>2. Settled(b)' = lo
      BY <2>1, <2>2, <3>1, HandleSettles
    <3> HIDE DEF lo
    <3> QED BY <2>1, <3>1, <3>2 DEF Alternates
  <2>3. CASE ~(e.src = "strip" /\ e.button = b)
    <3>1. Alternates(Tail(queue), b, Settled(b), finger[b])
      BY <1>a, <2>1, <2>3, TailOther
    <3>2. Settled(b)' = Settled(b)
      BY <2>1, <2>3, HandleSettles
    <3> QED BY <2>1, <3>1, <3>2 DEF Alternates
  <2> QED BY <2>2, <2>3
<1>6. ASSUME NEW c \in Button, ScriptKey(c)
      PROVE  Alternates(queue, b, Settled(b), finger[b])'
  <2>1. c # b
    BY <1>6, Owned DEF ScriptKey
  <2> QED
    BY <1>6, <1>b, <1>c, <2>1
       DEF ScriptKey, SynthPress, ApplyButtonUp, Settled, TypeOK
<1>7. ASSUME BeginFrame
      PROVE  Alternates(queue, b, Settled(b), finger[b])'
  BY <1>7, <1>b, <1>c DEF BeginFrame, Settled, TypeOK, AllOff
<1>8. CASE BeginUpdate \/ EndPoll \/ EndUpdate \/ EndLoop \/ UNCHANGED vars
  <2>1. UNCHANGED <<queue, finger, latches>>
    BY <1>8 DEF BeginUpdate, EndPoll, EndUpdate, EndLoop, vars, latches
  <2> QED BY <1>c, <2>1 DEF Settled, latches
<1> QED
  BY <1>1, <1>2, <1>3, <1>4, <1>5, <1>6, <1>7, <1>8 DEF Next, User, Main

-----------------------------------------------------------------------------
(* Releases held back, and the edges of a frame.                           *)

\* A strip release that reaches the head of the queue finds the key down.
LEMMA UpFindsDown ==
  ASSUME TypeOK, FingerAccounted, PollEvent, NEW b \in StripOwned,
         Head(queue).src = "strip", Head(queue).button = b
  PROVE  Head(queue).down = ~Settled(b)
<1> DEFINE lo == Settled(b)
           hi == finger[b]
<1>1. /\ queue \in Seq(Event) /\ queue # <<>>
      /\ lo \in BOOLEAN /\ hi \in BOOLEAN /\ Alternates(queue, b, lo, hi)
  BY Owned DEF PollEvent, TypeOK, Settled, FingerAccounted
<1> HIDE DEF lo, hi
<1>2. Head(queue).down = ~lo
  BY <1>1, TailOwn
<1> QED BY <1>2 DEF lo

LEMMA HeldBackStep ==
  ASSUME TypeOK, FingerAccounted, HeldBackOnlyWhileDown, [Next]_vars
  PROVE  HeldBackOnlyWhileDown'
<1> SUFFICES ASSUME NEW b \in StripOwned, releasePending'[b]
             PROVE  synthDown'[b] /\ downThisFrame'[b]
  BY DEF HeldBackOnlyWhileDown
<1>b. b \in Button
  BY Owned
<1>k. ASSUME UNCHANGED latches PROVE synthDown'[b] /\ downThisFrame'[b]
  BY <1>k DEF HeldBackOnlyWhileDown, latches
<1>1. ASSUME PollEvent PROVE synthDown'[b] /\ downThisFrame'[b]
  <2> DEFINE e == Head(queue)
  <2>1. e \in Event /\ Handle(e) /\ e.button \in Button
    BY <1>1, EventFields DEF PollEvent, TypeOK
  <2>2. CASE e.src = "strip" /\ e.down /\ PollStripDown(e.button)
    BY <1>b, <2>1, <2>2
       DEF PollStripDown, HeldBackOnlyWhileDown, TypeOK
  <2>3. CASE e.src = "strip" /\ ~e.down /\ PollStripUp(e.button)
    <3>1. CASE e.button = b
      <4>1. synthDown[b] /\ ~releasePending[b]
        BY <1>1, <2>3, <3>1, UpFindsDown DEF Settled
      <4> QED
        BY <1>b, <2>3, <3>1, <4>1 DEF PollStripUp, ApplyButtonUp, TypeOK
    <3>2. CASE e.button # b
      BY <1>b, <2>1, <2>3, <3>2
         DEF PollStripUp, ApplyButtonUp, HeldBackOnlyWhileDown, TypeOK
    <3> QED BY <3>1, <3>2
  <2>4. CASE e.src = "keyboard" /\ PollKeyboard(e.button, e.down)
    BY <2>4 DEF PollKeyboard, HeldBackOnlyWhileDown
  <2>5. CASE e.src = "sleep" /\ SynthPress(Power)
    BY <1>b, <2>5, ButtonAssumption
       DEF SynthPress, HeldBackOnlyWhileDown, TypeOK
  <2> QED BY <2>1, <2>2, <2>3, <2>4, <2>5 DEF Handle
<1>2. ASSUME NEW c \in Button, ScriptKey(c)
      PROVE synthDown'[b] /\ downThisFrame'[b]
  <2>1. c # b
    BY <1>2, Owned DEF ScriptKey
  <2> QED
    BY <1>2, <1>b, <2>1
       DEF ScriptKey, SynthPress, ApplyButtonUp, HeldBackOnlyWhileDown, TypeOK
<1>3. ASSUME BeginFrame PROVE synthDown'[b] /\ downThisFrame'[b]
  BY <1>3, <1>b DEF BeginFrame, AllOff
<1>4. CASE (\E c \in Button : StripPress(c) \/ StripLift(c)
              \/ KeyboardChange(c)) \/ PressSleepKey
  BY <1>4, <1>k DEF StripPress, StripLift, KeyboardChange, PressSleepKey
<1>5. CASE BeginUpdate \/ EndPoll \/ EndUpdate \/ EndLoop \/ UNCHANGED vars
  BY <1>5, <1>k DEF BeginUpdate, EndPoll, EndUpdate, EndLoop, vars, latches
<1> QED
  BY <1>1, <1>2, <1>3, <1>4, <1>5 DEF Next, User, Main

\* What InFrame and EdgesTellLevel say of one button.
ButtonInFrame(b) ==
  /\ pressed[b] => downThisFrame[b] /\ synthDown[b]
  /\ downThisFrame[b] /\ synthDown[b] => pressed[b]
  /\ phase # "boundary" =>
       /\ BelievedDown(b) = synthDown[b]
       /\ released[b] => seen[b]
       /\ pressed[b] /\ ~released[b] => ~seen[b]
  /\ phase = "boundary" => seen[b] = synthDown[b]

LEMMA InFrameStep ==
  ASSUME IInv, [Next]_vars
  PROVE  InFrame' /\ EdgesTellLevel'
<1> SUFFICES ASSUME NEW b \in StripOnly PROVE ButtonInFrame(b)'
  BY DEF InFrame, EdgesTellLevel, ButtonInFrame
<1>i. ButtonInFrame(b)
  BY DEF IInv, InFrame, EdgesTellLevel, ButtonInFrame
<1>b. b \in Button /\ b \in StripOwned /\ TypeOK
  BY Owned DEF IInv
<1>h. releasePending[b] => synthDown[b] /\ downThisFrame[b]
  BY <1>b DEF IInv, HeldBackOnlyWhileDown
<1>k. ASSUME UNCHANGED <<latches, seen>>, phase # "boundary", phase' # "boundary"
      PROVE  ButtonInFrame(b)'
  BY <1>i, <1>k DEF ButtonInFrame, BelievedDown, latches
<1>l. ASSUME UNCHANGED <<latches, seen, phase>>
      PROVE  ButtonInFrame(b)'
  BY <1>i, <1>l DEF ButtonInFrame, BelievedDown, latches
<1>o. ASSUME pressed'[b] = pressed[b], released'[b] = released[b],
             synthDown'[b] = synthDown[b],
             downThisFrame'[b] = downThisFrame[b],
             UNCHANGED <<seen, phase>>
      PROVE  ButtonInFrame(b)'
  BY <1>i, <1>o DEF ButtonInFrame, BelievedDown
<1>1. ASSUME PollEvent PROVE ButtonInFrame(b)'
  <2> DEFINE e == Head(queue)
  <2>1. /\ e \in Event /\ Handle(e) /\ e.button \in Button
        /\ UNCHANGED <<seen, phase>> /\ phase = "poll"
    BY <1>1, <1>b, EventFields DEF PollEvent, TypeOK
  <2>2. CASE e.src = "strip" /\ e.down /\ PollStripDown(e.button)
    <3>1. CASE e.button = b
      <4>1. ~synthDown[b] \/ releasePending[b]
        BY <1>1, <1>b, <2>2, <3>1, UpFindsDown DEF Settled, IInv
      <4> QED
        BY <1>i, <1>b, <1>h, <2>1, <2>2, <3>1, <4>1
           DEF PollStripDown, ButtonInFrame, BelievedDown, TypeOK
    <3>2. CASE e.button # b
      BY <1>b, <1>o, <2>1, <2>2, <3>2 DEF PollStripDown, TypeOK
    <3> QED BY <3>1, <3>2
  <2>3. CASE e.src = "strip" /\ ~e.down /\ PollStripUp(e.button)
    <3>1. CASE e.button = b
      <4>1. synthDown[b] /\ ~releasePending[b]
        BY <1>1, <1>b, <2>3, <3>1, UpFindsDown DEF Settled, IInv
      <4> QED
        BY <1>i, <1>b, <2>1, <2>3, <3>1, <4>1
           DEF PollStripUp, ApplyButtonUp, ButtonInFrame, BelievedDown, TypeOK
    <3>2. CASE e.button # b
      BY <1>b, <1>o, <2>1, <2>3, <3>2 DEF PollStripUp, ApplyButtonUp, TypeOK
    <3> QED BY <3>1, <3>2
  <2>4. CASE e.src = "keyboard" /\ PollKeyboard(e.button, e.down)
    <3>1. e.button \in KeyboardButtons
      BY <2>1, <2>4 DEF Event
    <3>2. e.button # b
      BY <3>1, Owned
    <3> QED BY <1>b, <1>o, <2>1, <2>4, <3>2 DEF PollKeyboard, TypeOK
  <2>5. CASE e.src = "sleep" /\ SynthPress(Power)
    <3>1. SleepKey
      BY <2>1, <2>5 DEF Event
    <3>2. b # Power
      BY <1>b, <3>1, Owned
    <3> QED
      BY <1>b, <1>o, <2>1, <2>5, <3>2, ButtonAssumption DEF SynthPress, TypeOK
  <2> QED BY <2>1, <2>2, <2>3, <2>4, <2>5 DEF Handle
<1>2. ASSUME NEW c \in Button, ScriptKey(c) PROVE ButtonInFrame(b)'
  <2>1. c # b
    BY <1>2, <1>b, Owned DEF ScriptKey
  <2> QED
    BY <1>2, <1>b, <1>o, <2>1 DEF ScriptKey, SynthPress, ApplyButtonUp, TypeOK
<1>3. ASSUME BeginFrame PROVE ButtonInFrame(b)'
  BY <1>3, <1>b, <1>h, <1>i
     DEF BeginFrame, AllOff, ButtonInFrame, BelievedDown, TypeOK
<1>4. ASSUME EndLoop PROVE ButtonInFrame(b)'
  BY <1>4, <1>b, <1>i
     DEF EndLoop, ButtonInFrame, BelievedDown, latches, TypeOK
<1>5. CASE (\E c \in Button : StripPress(c) \/ StripLift(c)
              \/ KeyboardChange(c)) \/ PressSleepKey
  BY <1>5, <1>l DEF StripPress, StripLift, KeyboardChange, PressSleepKey
<1>6. CASE BeginUpdate \/ EndPoll \/ EndUpdate
  BY <1>6, <1>k DEF BeginUpdate, EndPoll, EndUpdate
<1>7. CASE UNCHANGED vars
  BY <1>7, <1>l DEF vars, latches
<1> QED
  BY <1>1, <1>2, <1>3, <1>4, <1>5, <1>6, <1>7 DEF Next, User, Main

-----------------------------------------------------------------------------
(* The theorems.                                                           *)

LEMMA InductiveInit == Init => IInv
<1> SUFFICES ASSUME Init PROVE IInv
  OBVIOUS
<1>1. TypeOK
  BY TypeInit
<1>2. \A b \in StripOwned : b \in Button
  BY Owned
<1>3. FingerAccounted
  <2> SUFFICES ASSUME NEW b \in StripOwned
               PROVE  Alternates(queue, b, Settled(b), finger[b])
    BY DEF FingerAccounted
  <2>1. StripAt(queue, b) = {}
    BY DEF Init, StripAt
  <2>2. Settled(b) = FALSE /\ finger[b] = FALSE
    BY <1>2 DEF Init, Settled, AllOff
  <2> QED BY <2>1, <2>2 DEF Alternates
<1>4. HeldBackOnlyWhileDown /\ EdgesTellLevel
  BY <1>2 DEF Init, AllOff, HeldBackOnlyWhileDown, EdgesTellLevel
<1>5. InFrame
  BY <1>2, Owned DEF Init, AllOff, InFrame, BelievedDown
<1> QED BY <1>1, <1>3, <1>4, <1>5 DEF IInv

LEMMA InductiveStep == IInv /\ [Next]_vars => IInv'
<1> SUFFICES ASSUME IInv, [Next]_vars PROVE IInv'
  OBVIOUS
<1>1. TypeOK'
  BY TypeStep DEF IInv
<1>2. FingerAccounted' /\ HeldBackOnlyWhileDown'
  BY AccountStep, HeldBackStep DEF IInv
<1>3. InFrame' /\ EdgesTellLevel'
  BY InFrameStep
<1> QED BY <1>1, <1>2, <1>3 DEF IInv

LEMMA Inductive == Spec => []IInv
<1> QED BY InductiveInit, InductiveStep, PTL DEF Spec

\* LevelFollowsFinger: for any set of buttons, sources and queue bound, every
\* press and release of a strip key is accounted for between the finger and
\* the level.
THEOREM LevelFollowsFinger == Spec => []FingerAccounted
<1>1. IInv => FingerAccounted
  BY DEF IInv
<1> QED BY <1>1, Inductive, PTL

\* PressIsHeldForTheFrame: a strip press the firmware can see is down until
\* the frame ends.
THEOREM PressIsHeldForTheFrame == Spec => []PressSpansFrame
<1>1. ASSUME IInv, NEW b \in StripOnly, WasPressed(b)
      PROVE  IsPressed(b) /\ AnyButtonDownRaw
  <2>1. synthDown[b]
    BY <1>1 DEF IInv, InFrame, WasPressed
  <2>2. b \in Button
    BY ButtonAssumption DEF StripOnly, StripOwned
  <2> QED BY <2>1, <2>2 DEF IsPressed, AnyButtonDownRaw
<1>2. IInv => PressSpansFrame
  BY <1>1 DEF PressSpansFrame
<1> QED BY <1>2, Inductive, PTL

\* EdgesAreTheLevel: at every frame boundary the edges seen so far add up to
\* the level of each strip key.
THEOREM EdgesAreTheLevel == Spec => []EdgesTellLevel
<1>1. IInv => EdgesTellLevel
  BY DEF IInv
<1> QED BY <1>1, Inductive, PTL

\* FirmwareSeesAlternation: frame by frame the edges of a strip key alternate.
THEOREM FirmwareSeesAlternation == Spec => EdgesAlternate
<1>1. IInv => (EndLoop => \A b \in StripOnly :
                 /\ released[b] => seen[b]
                 /\ pressed[b] /\ ~released[b] => ~seen[b])
  BY DEF IInv, InFrame, EndLoop
<1> QED BY <1>1, Inductive, PTL DEF EdgesAlternate

\* EdgesStayLatched: no step but the frame boundary lowers an edge latch.
THEOREM EdgesStayLatched == Spec => EdgesLatched
<1> DEFINE Kept == phase # "boundary" =>
             \A b \in Button : (pressed[b] => pressed'[b])
                                 /\ (released[b] => released'[b])
<1>1. TypeOK /\ [Next]_vars => [Kept]_vars
  <2> SUFFICES ASSUME TypeOK, [Next]_vars PROVE Kept
    OBVIOUS
  <2>1. ASSUME PollEvent PROVE Kept
    <3> DEFINE e == Head(queue)
    <3>1. e \in Event /\ Handle(e) /\ e.button \in Button
      BY <2>1, EventFields DEF PollEvent, TypeOK
    <3> QED
      BY <3>1 DEF Handle, PollStripDown, PollStripUp, ApplyButtonUp,
                  PollKeyboard, SynthPress, TypeOK
  <2>2. ASSUME NEW c \in Button, ScriptKey(c) PROVE Kept
    BY <2>2 DEF ScriptKey, SynthPress, ApplyButtonUp, TypeOK
  <2>3. ASSUME BeginFrame PROVE Kept
    BY <2>3 DEF BeginFrame
  <2>4. CASE (\E c \in Button : StripPress(c) \/ StripLift(c)
                \/ KeyboardChange(c)) \/ PressSleepKey
    BY <2>4 DEF StripPress, StripLift, KeyboardChange, PressSleepKey, latches
  <2>5. CASE BeginUpdate \/ EndPoll \/ EndUpdate \/ EndLoop \/ UNCHANGED vars
    BY <2>5 DEF BeginUpdate, EndPoll, EndUpdate, EndLoop, vars, latches
  <2> QED BY <2>1, <2>2, <2>3, <2>4, <2>5 DEF Next, User, Main
<1> QED BY <1>1, TypeCorrect, PTL DEF EdgesLatched, Spec

=============================================================================
